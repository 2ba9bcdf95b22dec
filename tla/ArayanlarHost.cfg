CONSTANTS
  w1 = w1
  w2 = w2
  f1 = f1
  f2 = f2
  Workers <- OneWorker
  Guests = {guest}
  Hosts = {host}
  Facts <- TwoFacts
  MaxRevision = 2
  Jobs = {1, 2, 3}
  MaxSaves = 1
  GuestAttempts = 1
  HostAttempts = 1
  Usage = {"held"}
  RegenMax = 1
  NoFacts = NoFacts
  NoOne = NoOne
  NoJob = 0
SPECIFICATION Spec
SYMMETRY Symmetry
INVARIANT HostReadsWhatWasSubmitted
PROPERTY EditedStaysEdited
CHECK_DEADLOCK FALSE
