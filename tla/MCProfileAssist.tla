-------------------------- MODULE MCProfileAssist --------------------------
(***************************************************************************)
(* Instances of ProfileAssist for TLC: behaviours differ in who acts how   *)
(* often, the member at the panel, the member elsewhere, or the staff.     *)
(***************************************************************************)
EXTENDS ProfileAssist, TLC

CONSTANTS s1, s2

OneReviewer == {s1}
TwoReviewers == {s1, s2}

Cast(f) == [p \in Callers |-> IF p \in DOMAIN f THEN f[p] ELSE 0]
Mixed == {Cast(Panel :> 6), Cast(Panel :> 4 @@ Form :> 1), Cast(Form :> 4 @@ s1 :> 2)}
Hidden == {Cast(Form :> 3 @@ s1 :> 2)}
Reviewed == {Cast(Form :> 2 @@ s1 :> 1)}
Deleted == {Cast(Panel :> 4 @@ Form :> 1)}

=============================================================================
