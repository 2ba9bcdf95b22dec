CONSTANTS
  a = a
  b = b
  r1 = r1
  r2 = r2
  Members <- TwoMembers
  Sessions <- TwoMembers
  Who <- SameMember
  Moderators = {moderator}
  RequestKeys <- TwoKeys
  MessageKeys = {text}
  Holds = {1}
  Allowance = 1
  NoId = NoId
  NoOne = NoOne
  NoHold = NoHold
SPECIFICATION Spec
SYMMETRY Symmetry
INVARIANTS BlockedIsPaused UsesMatchRequests
PROPERTIES OpenedByConsent ResolvedStays
CHECK_DEADLOCK FALSE
