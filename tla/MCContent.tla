----------------------------- MODULE MCContent -----------------------------
(***************************************************************************)
(* Instances of Content for TLC: one item with two revisions, or two with  *)
(* one, which share a quota or of which one answers the other.             *)
(***************************************************************************)
EXTENDS Content, TLC

CONSTANTS fine, rude, k1, k2, s1, s2

TwoTexts == {fine, rude}
Judgement == [t \in TwoTexts |-> IF t = fine THEN "clear" ELSE "reject"]
TwoKeys == {k1, k2}
TwoSessions == {s1, s2}

ThreeItems == {1, 2, 3}
ParentIsSecond == [i \in ThreeItems |-> 2]
TwoOrOne == [i \in ThreeItems |-> IF i = 1 THEN 2 ELSE 1]

Of(a, b, c) == [i \in ThreeItems |-> CASE i = 1 -> a [] i = 2 -> b [] i = 3 -> c]
EachKind == {Of(k, Unused, Unused) : k \in {"question", "job", "faq"}}
              \cup {Of(Unused, "question", k) : k \in {"question", "answer"}}

Symmetry == Permutations(TwoKeys) \cup Permutations(TwoSessions)

=============================================================================
