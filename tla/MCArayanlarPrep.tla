-------------------------- MODULE MCArayanlarPrep --------------------------
(***************************************************************************)
(* Instances of ArayanlarPrep for TLC.                                     *)
(***************************************************************************)
EXTENDS ArayanlarPrep, TLC

CONSTANTS w1, w2, f1, f2

OneWorker == {w1}
TwoWorkers == {w1, w2}
TwoFacts == {f1, f2}
OneFacts == {f1}

Symmetry == Permutations(Workers) \cup Permutations(Facts)

=============================================================================
