SPECIFICATION Spec
CONSTANTS
  e1 = e1
  e2 = e2
  a1 = a1
  a2 = a2
  h1 = h1
  i1 = i1
  i2 = i2
  cand = cand
  guest = guest
  Episodes <- TwoEpisodes
  Staff <- TwoAdmins
  Hosts <- OneHost
  Importers <- TwoImporters
  Members <- TwoMembers
  Candidate = cand
  Casts <- EachCast
  Choice <- FewValues
  Guids = {g1}
  NoGuid = NoGuid
  Recent = 1
  NoEpisode = NoEpisode
  NoMember = NoMember
  NoContent = NoContent
  MaxApprovals = 2
SYMMETRY Symmetry
CHECK_DEADLOCK FALSE
INVARIANTS TypeOK LinkedHasGuest StaffTookPart ImportNeverCollides
