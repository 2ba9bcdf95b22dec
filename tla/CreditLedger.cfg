CONSTANTS
  profileLot = profileLot
  arayanlarLot = arayanlarLot
  Lots <- TwoLots
  GrantAmount <- TwoAndOne
  Jobs = {j1, j2, j3}
  Callers = {c1, c2}
  Costs = {1, 2}
  NoJob = NoJob
SPECIFICATION LedgerSpec
SYMMETRY Symmetry
INVARIANTS ClosesWhatWasReserved WalletMatchesLedger WalletSolvent QuoteIsHonest
PROPERTIES EndingIsFinal
