CONSTANTS
  profileLot = profileLot
  arayanlarLot = arayanlarLot
  w1 = w1
  w2 = w2
  r1 = r1
  r2 = r2
  Lots <- OneLot
  GrantAmount <- OneEach
  ProfileLot <- profileLot
  Jobs = {1}
  Workers <- TwoWorkers
  Requests <- TwoRequests
  Callers <- AllCallers
  Costs = {1}
  MaxAttempts = 2
  MaxDeaths = 1
  NoJob = 0
  NoWorker = NoWorker
SPECIFICATION FairSpec
INVARIANTS AttemptSpentOnce ChargedOnlyForResult
PROPERTIES CancelSticks LedgerSpec JobsComeToRest ReservationCloses
CHECK_DEADLOCK FALSE
