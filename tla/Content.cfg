CONSTANTS
  fine = fine
  rude = rude
  k1 = k1
  k2 = k2
  s1 = s1
  s2 = s2
  Items <- ThreeItems
  KindMaps <- EachKind
  Parent <- ParentIsSecond
  Sessions <- TwoSessions
  Moderators = {moderator}
  Keys <- TwoKeys
  Texts <- TwoTexts
  NoText = NoText
  Verdict <- Judgement
  Revisions <- TwoOrOne
  Allowance = 1
  Slots = 1
  NoItem = 0
  NoKey = NoKey
SPECIFICATION Spec
SYMMETRY Symmetry
INVARIANTS TypeOK PendingHasHold PublishedRevisionPassed QuotaKept
CHECK_DEADLOCK FALSE
