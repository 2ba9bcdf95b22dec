------------------------------ MODULE Portrait ------------------------------
(***************************************************************************)
(* What Kariyer Portresi promises a candidate, whatever the staff, the     *)
(* hosts and the worker do: an application goes through its stages, and    *)
(* only a version the candidate agreed to is ever published, for good.     *)
(***************************************************************************)
CONSTANT Versions

VARIABLES stage, consents, public

vars == <<stage, consents, public>>

Stages == {"draft", "submitted", "ready", "withdrawn"}

\* From wherever the application is when its episode is still to come.
Init == stage \in Stages /\ consents = {} /\ public = {}

Advance(from, to) == stage \in from /\ stage' = to /\ UNCHANGED <<consents, public>>

Submit == Advance({"draft"}, "submitted")
Prepare == Advance({"submitted"}, "ready")
Revise == Advance({"submitted", "ready"}, "draft")
Withdraw == Advance({"draft", "submitted", "ready"}, "withdrawn")
Reopen == Advance({"withdrawn"}, "draft")
Agree == \E v \in Versions : consents' = consents \cup {v} /\ UNCHANGED <<stage, public>>
Publish == \E v \in consents : public = {} /\ public' = {v} /\ UNCHANGED <<stage, consents>>

Next == Submit \/ Prepare \/ Revise \/ Withdraw \/ Reopen \/ Agree \/ Publish

Spec == Init /\ [][Next]_vars

=============================================================================
