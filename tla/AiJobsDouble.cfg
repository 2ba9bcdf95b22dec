CONSTANTS
  profileLot = profileLot
  arayanlarLot = arayanlarLot
  w1 = w1
  w2 = w2
  r1 = r1
  r2 = r2
  Lots <- OneLot
  GrantAmount <- OneEach
  ProfileLot <- profileLot
  Jobs = {1}
  Workers <- TwoWorkers
  Requests <- OneRequest
  Callers <- AllCallers
  Costs = {1}
  MaxAttempts = 2
  MaxDeaths = 0
  NoJob = 0
  NoWorker = NoWorker
SPECIFICATION Spec
INVARIANT SettledOrReleased
CHECK_DEADLOCK FALSE
