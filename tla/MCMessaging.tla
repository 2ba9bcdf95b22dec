---------------------------- MODULE MCMessaging ----------------------------
(***************************************************************************)
(* Instances of Messaging for TLC: every member has one session.           *)
(***************************************************************************)
EXTENDS Messaging, TLC

CONSTANTS a, b, r1, r2

TwoMembers == {a, b}
TwoKeys == {r1, r2}
SameMember == [m \in TwoMembers |-> m]

Symmetry == Permutations(TwoMembers) \cup Permutations(TwoKeys)

=============================================================================
