SPECIFICATION Spec
CONSTANTS
  admin = admin
  member = member
  team1 = team1
  link1 = link1
  link2 = link2
  req1 = req1
  req2 = req2
  None = None
  Members <- Everyone
  Admins <- Staff
  Workspaces <- Teams
  Links <- TwoLinks
  Callers <- TwoRequests
  Nobody <- None
  Limit = 1
  MaxTokens = 1
  MaxCalls = 4
  Offers <- Kinds
  Known <- Staff
  Ended <- Ends
SYMMETRY Alike
INVARIANT RightsAreDue
PROPERTY OnlyFreshLinks
CHECK_DEADLOCK FALSE
