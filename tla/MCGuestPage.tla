---------------------------- MODULE MCGuestPage ----------------------------
(***************************************************************************)
(* Instances of GuestPage for TLC: a behaviour starts before there is an   *)
(* application, with one to be confirmed, or with one that is submitted.   *)
(***************************************************************************)
EXTENDS GuestPage

Row(status, prep, draft) == [status |-> status, prep |-> prep, cost |-> status # "none", draft |-> draft]
Told == [answers |-> Keys, key |-> NoKey, asked |-> 0]
From(a, cv, fromCv, n) == [app |-> a, cvs |-> cv, fromCv |-> fromCv, clicks |-> n]

FromNothing(n) == From(Row("none", "NOT_STARTED", Opened({})), FALSE, TRUE, n)
FromDraft(n) == From(Row("DRAFT", "NOT_STARTED", [answers |-> {1}, key |-> 2, asked |-> 1]), TRUE, FALSE, n)
Everywhere ==
  {FromNothing(1), FromDraft(3),
   From(Row("AWAITING_CONFIRMATION", "NOT_STARTED", Told), FALSE, FALSE, 2),
   From(Row("SUBMITTED", "QUEUED", Told), FALSE, FALSE, 1)}
Interviews == {FromNothing(3)}
Submitted == {From(Row("SUBMITTED", "QUEUED", Told), FALSE, FALSE, 0)}

=============================================================================
