SPECIFICATION FairSpec
CONSTANTS
  s1 = s1
  s2 = s2
  Panel = Panel
  Form = Form
  Reviewers <- OneReviewer
  Cvs = {1}
  Jobs = {1, 2}
  Reviews = {1, 2}
  Slots = {1, 2}
  MaxAttempts = 2
  Casts <- Mixed
CHECK_DEADLOCK FALSE
INVARIANTS TypeOK NeverStuck PublicIsApproved
PROPERTY PanelCatchesUp
