SPECIFICATION Spec
CONSTANTS
  h1 = h1
  h2 = h2
  Admin = Admin
  Candidate = Candidate
  NoHost = NoHost
  Hosts <- TwoHosts
  DefaultHost = h1
  Plans = {1, 2}
  Versions = {1, 2}
  Casts <- Mixed
  Starts <- DraftOrReady
CHECK_DEADLOCK FALSE
INVARIANTS TypeOK OffersAreAccepted ToldOfPlan
PROPERTIES KeepsPromise
