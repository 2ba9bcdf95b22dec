CONSTANTS
  w1 = w1
  w2 = w2
  f1 = f1
  f2 = f2
  Workers <- TwoWorkers
  Guests = {guest}
  Hosts = {}
  Facts <- TwoFacts
  MaxRevision = 2
  Jobs = {1, 2, 3}
  MaxSaves = 1
  GuestAttempts = 2
  HostAttempts = 1
  Usage = {"held"}
  RegenMax = 1
  NoFacts = NoFacts
  NoOne = NoOne
  NoJob = 0
SPECIFICATION Spec
SYMMETRY Symmetry
INVARIANTS PacksMatchTheirRevision ChargedForBothArtifacts NoStrandedCredit
CHECK_DEADLOCK FALSE
