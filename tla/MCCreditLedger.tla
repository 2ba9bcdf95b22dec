--------------------------- MODULE MCCreditLedger ---------------------------
(***************************************************************************)
(* Instances of CreditLedger for TLC: two sponsored lots, as the code      *)
(* grants (profile and Arayanlar preparation).                             *)
(***************************************************************************)
EXTENDS CreditLedger, TLC

CONSTANTS profileLot, arayanlarLot

TwoLots == {profileLot, arayanlarLot}
OneEach == [l \in TwoLots |-> 1]
TwoAndOne == (profileLot :> 2) @@ (arayanlarLot :> 1)

Symmetry == Permutations(Jobs) \cup Permutations(Callers)

=============================================================================
