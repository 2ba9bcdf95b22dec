--------------------------- MODULE MCPublication ---------------------------
(***************************************************************************)
(* Instances of Publication for TLC.  A behaviour has one cast: a review   *)
(* with an admin beside it, a guest's appearance, or imports.              *)
(***************************************************************************)
EXTENDS Publication, TLC

CONSTANTS e1, e2, a1, a2, h1, i1, i2, cand, guest

TwoEpisodes == {e1, e2}
TwoAdmins == {a1, a2}
OneHost == {h1}
TwoImporters == {i1, i2}
TwoMembers == {cand, guest}

Cast(f) == [p \in Callers |-> IF p \in DOMAIN f THEN f[p] ELSE 0]
OneReview == {Cast(a1 :> 2 @@ h1 :> 1 @@ cand :> 1)}
Review == {Cast(a1 :> 1 @@ h1 :> 2 @@ cand :> 2)} \cup OneReview
Appearances == {Cast(a1 :> 3 @@ guest :> 4)}
Imports == {Cast(a1 :> 2 @@ i1 :> 1 @@ i2 :> 1)}
EachCast == Review \cup Appearances \cup Imports

\* One text and one link to begin with, another of each to change to.
FewValues == [f \in Fields |-> CASE f = "text" -> {1, 2} [] f = "link" -> {1} [] f = "spotify" -> {0, 1}]

Symmetry == Permutations(TwoEpisodes)

=============================================================================
