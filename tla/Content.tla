------------------------------ MODULE Content ------------------------------
(***************************************************************************)
(* What members publish and moderators hold, release and remove: community *)
(* questions and answers (src/lib/community/questions.ts, answers.ts,      *)
(* quota.ts), expert FAQs (expert-faq.ts), job listings (src/lib/hiring/   *)
(* jobs.ts) and the part of messaging/reports.ts that is about them.       *)
(*                                                                         *)
(* All four are one state machine with other guards, so an item has a      *)
(* kind.  Requests read a row, decide on what they read and write by id:   *)
(* each is a session with what it saw.  A text is what the classifier says *)
(* of it; lengths, tags, blocks and capabilities only refuse.              *)
(***************************************************************************)
EXTENDS Integers, FiniteSets

CONSTANTS
  Items, KindMaps,    \* the kinds the items may have, one choice per behaviour
  Parent,             \* the question an item answers, if it is an answer
  Sessions, Moderators,
  Keys,               \* idempotency keys of submissions
  Texts, NoText,
  Verdict,            \* Verdict[t]: what classifyCommunityContent says of t
  Revisions,          \* bound of the model: how many revisions each item may have
  Allowance,          \* COMMUNITY_QUESTIONS_PER_DAY, COMMUNITY_ANSWERS_PER_DAY
  Slots,              \* HIRING_ACTIVE_JOBS_PER_WORKSPACE
  NoItem, NoKey

Kinds == {"question", "answer", "job", "faq"}
Unused == "unused"         \* the kind of an item that a behaviour does without
Rev == Nat      \* 0: null, or no revision yet

ASSUME ContentAssumption ==
  /\ KindMaps \subseteq [Items -> Kinds \cup {Unused}]
  /\ Parent \in [Items -> Items]
  /\ Verdict \in [Texts -> {"clear", "reject", "hold"}]
  /\ Revisions \in [Items -> Nat \ {0}]
  /\ Allowance \in Nat /\ Slots \in Nat
  /\ NoText \notin Texts /\ NoItem \notin Items /\ NoKey \notin Keys

VARIABLES
  kind,         \* kind[i], chosen at the start
  row,          \* row[i]: the question, answer, listing or FAQ
  revision,     \* revision[i]: the texts of its revisions, by number
  hold,         \* hold[i]: what became of the holds of its revisions
  uses,         \* <<kind, key>>: the day's CommunityQuotaUse rows
  call,         \* where each member's request is
  mod           \* where each moderator is

vars == <<kind, row, revision, hold, uses, call, mod>>

Statuses == {"none", "DRAFT", "PENDING_REVIEW", "PUBLISHED", "REJECTED", "CLOSED", "REMOVED"}

\* approved: expertApprovedRevision of a FAQ.
Row == [status : Statuses, text : Texts \cup {NoText}, cur : Rev, pub : Rev, approved : Rev]
NoRow == [status |-> "none", text |-> NoText, cur |-> 0, pub |-> 0, approved |-> 0]

\* was, cur, pub, text: what the request read of the row, or the text it will write.
Call == [pc : {"idle", "editing", "submitting", "counted", "approving", "held"},
         item : Items \cup {NoItem}, text : Texts \cup {NoText}, cur : Rev, pub : Rev,
         was : Statuses, key : Keys \cup {NoKey}]
Idle == [pc |-> "idle", item |-> NoItem, text |-> NoText, cur |-> 0, pub |-> 0,
         was |-> "none", key |-> NoKey]

\* pub: publishedRevision of the listing as the release read it.
Mod == [pc : {"idle", "publish", "counted", "mark"}, item : Items \cup {NoItem}, rev : Rev, pub : Rev]
Away == [pc |-> "idle", item |-> NoItem, rev |-> 0, pub |-> 0]

Init ==
  /\ kind \in KindMaps
  /\ row = [i \in Items |-> NoRow]
  /\ revision = [i \in Items |-> [n \in 1..Revisions[i] |-> NoText]]
  /\ hold = [i \in Items |-> [n \in 1..Revisions[i] |-> "none"]]
  /\ uses = {}
  /\ call = [s \in Sessions |-> Idle]
  /\ mod = [d \in Moderators |-> Away]

-----------------------------------------------------------------------------
Free(s) == call[s] = Idle
At(s, pc) == call[s].pc = pc
Ends(s) == call' = [call EXCEPT ![s] = Idle]
Reads == UNCHANGED <<kind, row, revision, hold, uses, mod>>
Live(i) == row[i].status = "PUBLISHED"
LiveJobs == {i \in Items : kind[i] = "job" /\ Live(i)}
Counted(k) == {u \in uses : u[1] = k}

\* The advisory locks: of a kind's daily quota, of the workspace's slots.  Held
\* from the count to the commit.
Locked(k) ==
  \/ \E s \in Sessions : At(s, "counted") /\ kind[call[s].item] = k
  \/ \E d \in Moderators : mod[d].pc = "counted" /\ k = "job"

RoomUnlocked(k) == IF k = "job" THEN Cardinality(LiveJobs) < Slots
                                ELSE Cardinality(Counted(k)) < Allowance

\* consumeCommunityQuota, countActivePublishedJobsWhere
Room(k) == ~Locked(k) /\ IF k = "job" THEN Cardinality(LiveJobs) < Slots
                                      ELSE Cardinality(Counted(k)) < Allowance

\* The question of an answer must be public.
ParentLive(i) == kind[i] = "answer" => Live(Parent[i])

-----------------------------------------------------------------------------
(***************************************************************************)
(* Questions, answers and listings.                                        *)
(***************************************************************************)
\* createQuestionDraft, createAnswerDraft, createJobDraft
CreateDraft(s, i, t) ==
  /\ Free(s) /\ kind[i] \in Kinds \ {"faq"} /\ row[i].status = "none"
  /\ ParentLive(i)
  /\ row' = [row EXCEPT ![i] = [NoRow EXCEPT !.status = "DRAFT", !.text = t]]
  /\ UNCHANGED <<kind, revision, hold, uses, call, mod>>

\* updateQuestionDraft, updateAnswerDraft, updateJobDraft: read ...
BeginEdit(s, i, t) ==
  /\ Free(s) /\ kind[i] # "faq" /\ row[i].status \in {"DRAFT", "REJECTED"}
  /\ call' = [call EXCEPT ![s] = [Idle EXCEPT !.pc = "editing", !.item = i, !.text = t]]
  /\ Reads

\* ... and write by id, whatever the row has become.
Edit(s) ==
  LET i == call[s].item
  IN  /\ At(s, "editing") /\ kind[i] # "faq" /\ Ends(s)
      /\ row' = [row EXCEPT ![i].text = call[s].text, ![i].status = "DRAFT"]
      /\ UNCHANGED <<kind, revision, hold, uses, mod>>

Submits(s, i, k) ==
  call' = [call EXCEPT ![s] = [pc |-> "submitting", item |-> i, text |-> row[i].text, cur |-> row[i].cur,
                               pub |-> row[i].pub, was |-> row[i].status, key |-> k]]

\* isFirstPublish
First(s) == call[s].pub = 0 /\ (kind[call[s].item] = "answer" \/ call[s].was # "PUBLISHED")

\* submitQuestion, submitAnswer, submitJobForPublication begin their transaction.
\* A listing may be submitted again after it was closed or removed.
BeginSubmit(s, i, k) ==
  /\ Free(s) /\ kind[i] # "faq" /\ (kind[i] = "job" <=> k = NoKey)
  /\ row[i].status \notin {"none", "PENDING_REVIEW"}
  /\ row[i].status = "REMOVED" => kind[i] = "job"
  /\ ParentLive(i)
  /\ Submits(s, i, k)
  /\ Reads

\* Before a first publication the quota or the slots are counted under a lock,
\* unless the key has its use already.
Count(s) ==
  LET i == call[s].item
  IN  /\ At(s, "submitting") /\ First(s)
      /\ <<kind[i], call[s].key>> \notin uses
      /\ Room(kind[i])
      /\ call' = [call EXCEPT ![s].pc = "counted"]
      /\ Reads

\* May the transaction go on to its revision?
Admitted(s) ==
  LET i == call[s].item
      u == <<kind[i], call[s].key>>
  IN  \/ At(s, "counted") /\ u \notin uses
      \/ At(s, "submitting") /\ (~First(s) \/ (kind[i] # "job" /\ u \in uses))

JudgedLeniently(i, pub, n, outcome) ==
  CASE outcome \in {"clear", "reject"} -> [row[i] EXCEPT !.cur = n, !.pub = n, !.status = "PUBLISHED"]
    [] OTHER -> [row[i] EXCEPT !.cur = n, !.status = IF pub # 0 THEN "PUBLISHED" ELSE "PENDING_REVIEW"]

JudgedUncounted(i, pub, n, outcome) ==
  CASE outcome = "clear"  -> [row[i] EXCEPT !.cur = n, !.pub = n, !.status = "PUBLISHED"]
    [] outcome = "reject" -> [row[i] EXCEPT !.status = IF pub # 0 THEN "PUBLISHED" ELSE "REJECTED"]
    [] outcome = "hold"   -> [row[i] EXCEPT !.cur = n,
                                            !.status = IF pub # 0 THEN "PUBLISHED" ELSE "PENDING_REVIEW"]

\* What the row becomes: a revision that is not cleared leaves what was
\* published, as the request saw it, in place.
Judged(i, pub, n, outcome) ==
  CASE outcome = "clear"  -> [row[i] EXCEPT !.cur = n, !.pub = n, !.status = "PUBLISHED"]
    [] outcome = "reject" -> [row[i] EXCEPT !.cur = n,
                                            !.status = IF pub # 0 THEN "PUBLISHED" ELSE "REJECTED"]
    [] outcome = "hold"   -> [row[i] EXCEPT !.cur = n,
                                            !.status = IF pub # 0 THEN "PUBLISHED" ELSE "PENDING_REVIEW"]

\* A classifier that is unavailable holds any text.
Outcomes(t) == {Verdict[t], "hold"}

SubmitUnheld(s, outcome) ==
  LET i == call[s].item
      n == call[s].cur + 1
      t == call[s].text
  IN  /\ Admitted(s) /\ outcome \in Outcomes(t)
      /\ n <= Revisions[i] /\ revision[i][n] = NoText
      /\ revision' = [revision EXCEPT ![i][n] = t]
      /\ row' = [row EXCEPT ![i] = Judged(i, call[s].pub, n, outcome)]
      /\ hold' = IF Verdict[t] = "hold" THEN [hold EXCEPT ![i][n] = "HELD"] ELSE hold
      /\ uses' = IF At(s, "counted") /\ kind[i] # "job"
                   THEN uses \cup {<<kind[i], call[s].key>>} ELSE uses
      /\ Ends(s) /\ UNCHANGED <<kind, mod>>

\* The commit.  The revision is of the text that was read and its number is new
\* (the unique key of revisions); the row is written by id.
Submit(s, outcome) ==
  LET i == call[s].item
      n == call[s].cur + 1
      t == call[s].text
  IN  /\ Admitted(s) /\ outcome \in Outcomes(t)
      /\ n <= Revisions[i] /\ revision[i][n] = NoText
      /\ revision' = [revision EXCEPT ![i][n] = t]
      /\ row' = [row EXCEPT ![i] = Judged(i, call[s].pub, n, outcome)]
      /\ hold' = IF outcome = "hold" THEN [hold EXCEPT ![i][n] = "HELD"] ELSE hold
      /\ uses' = IF At(s, "counted") /\ kind[i] # "job"
                   THEN uses \cup {<<kind[i], call[s].key>>} ELSE uses
      /\ Ends(s) /\ UNCHANGED <<kind, mod>>

\* removeQuestionByOwner, removeAnswerByOwner, removeJob, removeExpertFaq, and for
\* the moderators removeReportedContent, which removes whatever the status is.
Remove(i) ==
  /\ row[i].status # "none"
  /\ row' = [row EXCEPT ![i].status = "REMOVED"]
  /\ UNCHANGED <<kind, revision, hold, uses, call, mod>>

CloseJob(i) ==
  /\ kind[i] = "job" /\ row[i].status # "none"
  /\ row' = [row EXCEPT ![i].status = "CLOSED"]
  /\ UNCHANGED <<kind, revision, hold, uses, call, mod>>

-----------------------------------------------------------------------------
(***************************************************************************)
(* Expert FAQs: every edit is a revision, and the expert approves one.     *)
(* PENDING_EXPERT_APPROVAL, an administrator's draft, is DRAFT here, and   *)
(* PENDING_MODERATION is PENDING_REVIEW.                                   *)
(***************************************************************************)
CreateFaq(s, i, t) ==
  /\ Free(s) /\ kind[i] = "faq" /\ row[i].status = "none"
  /\ row' = [row EXCEPT ![i] = [NoRow EXCEPT !.status = "DRAFT", !.text = t, !.cur = 1]]
  /\ revision' = [revision EXCEPT ![i][1] = t]
  /\ UNCHANGED <<kind, hold, uses, call, mod>>

\* editExpertFaq reads, ...
BeginEditFaq(s, i, t) ==
  /\ Free(s) /\ kind[i] = "faq" /\ row[i].status \notin {"none", "REMOVED"}
  /\ row[i].cur < Revisions[i]
  /\ call' = [call EXCEPT ![s] = [Idle EXCEPT !.pc = "editing", !.item = i, !.cur = row[i].cur, !.text = t]]
  /\ Reads

\* ... then writes the next revision and withdraws the approval.
EditFaq(s) ==
  LET i == call[s].item
      n == call[s].cur + 1
  IN  /\ At(s, "editing") /\ kind[i] = "faq" /\ Ends(s)
      /\ revision[i][n] = NoText
      /\ revision' = [revision EXCEPT ![i][n] = call[s].text]
      /\ row' = [row EXCEPT ![i] = [status |-> "DRAFT", text |-> call[s].text, cur |-> n, pub |-> 0, approved |-> 0]]
      /\ UNCHANGED <<kind, hold, uses, mod>>

\* expertApproveFaqRevision: the revision approved is the current one, in any
\* status; ...
BeginApprove(s, i) ==
  /\ Free(s) /\ kind[i] = "faq" /\ row[i].status # "none"
  /\ call' = [call EXCEPT ![s] = [Idle EXCEPT !.pc = "approving", !.item = i, !.cur = row[i].cur, !.text = row[i].text]]
  /\ Reads

\* ... a hold is a statement of its own (the holds of a revision approved twice
\* are one here), ...
HoldFaq(s) ==
  LET i == call[s].item
  IN  /\ At(s, "approving")
      /\ call' = [call EXCEPT ![s].pc = "held"]
      /\ hold' = [hold EXCEPT ![i][call[s].cur] = "HELD"]
      /\ UNCHANGED <<kind, row, revision, uses, mod>>

\* ... and the FAQ is written by id.
Approve(s) ==
  LET i == call[s].item
  IN  /\ \/ At(s, "held")
         \/ At(s, "approving") /\ Verdict[call[s].text] # "hold"
      /\ Ends(s)
      /\ row' = [row EXCEPT ![i].approved = call[s].cur,
                            ![i].status = CASE At(s, "held") -> "PENDING_REVIEW"
                                            [] Verdict[call[s].text] = "reject" -> "REJECTED"
                                            [] OTHER -> "PUBLISHED"]
      /\ UNCHANGED <<kind, revision, hold, uses, mod>>

\* A refusal, an error or the death of the process.
Abort(s) == ~Free(s) /\ Ends(s) /\ Reads

SessionStep(s) ==
  \/ \E i \in Items, t \in Texts :
       CreateDraft(s, i, t) \/ BeginEdit(s, i, t) \/ CreateFaq(s, i, t) \/ BeginEditFaq(s, i, t)
  \/ \E i \in Items, k \in Keys \cup {NoKey} : BeginSubmit(s, i, k)
  \/ \E i \in Items : BeginApprove(s, i)
  \/ \E outcome \in {"clear", "reject", "hold"} : Submit(s, outcome)
  \/ Edit(s) \/ Count(s) \/ EditFaq(s) \/ HoldFaq(s) \/ Approve(s) \/ Abort(s)

-----------------------------------------------------------------------------
(***************************************************************************)
(* Moderators.                                                             *)
(***************************************************************************)
Leaves(d) == mod' = [mod EXCEPT ![d] = Away]

\* releaseModerationHold reads the hold and what it is of.  A FAQ's approval must
\* be of the revision held.
BeginRelease(d, i, n) ==
  /\ mod[d] = Away /\ hold[i][n] = "HELD"
  /\ kind[i] = "faq" => row[i].approved = n
  /\ mod' = [mod EXCEPT ![d] = [pc |-> "publish", item |-> i, rev |-> n, pub |-> row[i].pub]]
  /\ UNCHANGED <<kind, row, revision, hold, uses, call>>

\* publishHeldJobRevision counts the slots before a first publication.
CountSlot(d) ==
  /\ mod[d].pc = "publish" /\ kind[mod[d].item] = "job" /\ mod[d].pub = 0
  /\ Room("job")
  /\ mod' = [mod EXCEPT ![d].pc = "counted"]
  /\ UNCHANGED <<kind, row, revision, hold, uses, call>>

\* publishHeldQuestionRevision, publishHeldAnswerRevision, publishHeldJobRevision
\* put the revision's text back, whatever the row has become; publishHeldExpertFaq
\* only the status.
Restored(i, n) == [row[i] EXCEPT !.status = "PUBLISHED", !.pub = n, !.text = revision[i][n]]

Publish(d) ==
  LET i == mod[d].item
      n == mod[d].rev
  IN  /\ \/ mod[d].pc = "counted"
         \/ mod[d].pc = "publish" /\ ~(kind[i] = "job" /\ mod[d].pub = 0)
      /\ mod' = [mod EXCEPT ![d].pc = "mark"]
      /\ row' = IF kind[i] = "faq"
                  THEN [row EXCEPT ![i].status = "PUBLISHED"]
                  ELSE [row EXCEPT ![i] = Restored(i, n)]
      /\ UNCHANGED <<kind, revision, hold, uses, call>>

\* The hold is marked in a statement of its own.
Mark(d) ==
  /\ mod[d].pc = "mark" /\ Leaves(d)
  /\ hold' = [hold EXCEPT ![mod[d].item][mod[d].rev] = "RELEASED"]
  /\ UNCHANGED <<kind, row, revision, uses, call>>

GiveUp(d) ==
  /\ mod[d] # Away /\ Leaves(d)
  /\ UNCHANGED <<kind, row, revision, hold, uses, call>>

ModeratorStep(d) ==
  \/ \E i \in Items : \E n \in 1..Revisions[i] : BeginRelease(d, i, n)
  \/ CountSlot(d) \/ Publish(d) \/ Mark(d) \/ GiveUp(d)

Next ==
  \/ \E s \in Sessions : SessionStep(s)
  \/ \E d \in Moderators : ModeratorStep(d)
  \/ \E i \in Items : Remove(i) \/ CloseJob(i)

Spec == Init /\ [][Next]_vars

-----------------------------------------------------------------------------
(***************************************************************************)
(* Properties.                                                             *)
(***************************************************************************)
TypeOK ==
  /\ kind \in KindMaps
  /\ row \in [Items -> Row]
  /\ \A i \in Items :
       /\ revision[i] \in [1..Revisions[i] -> Texts \cup {NoText}]
       /\ hold[i] \in [1..Revisions[i] -> {"none", "HELD", "RELEASED"}]
       /\ \A n \in 1..Revisions[i] : revision[i][n] # NoText <=> n <= row[i].cur
  /\ uses \subseteq Kinds \X Keys
  /\ call \in [Sessions -> Call] /\ mod \in [Moderators -> Mod]

\* What waits for review is in the moderators' queue: the author can neither edit
\* nor submit it (NOT_EDITABLE, ALREADY_PENDING), so a hold that is missing or
\* closed too early would leave it there for good.
PendingHasHold ==
  \A i \in Items :
    kind[i] # "faq" /\ row[i].status = "PENDING_REVIEW" => hold[i][row[i].cur] = "HELD"

\* publishedRevision names a revision that moderation let through, whatever
\* submissions, edits and releases overlap.
PublishedRevisionPassed ==
  \A i \in Items :
    LET n == row[i].pub
    IN  n # 0 => Verdict[revision[i][n]] = "clear" \/ hold[i][n] # "none"

\* The day's quota is kept by requests that count at the same time.
QuotaKept == \A k \in Kinds : Cardinality(Counted(k)) <= Allowance

\* A question or an answer that was removed is not public again: "owner removal /
\* moderator removal hide content from public surfaces" (docs/community.md:23).
\* The code does otherwise: a release puts a held revision on show and an edit or
\* a submission that read the row before writes it, whatever it has become.
Removed(i) == row[i].status = "REMOVED"
RemovedStaysHidden ==
  [][\A i \in Items : kind[i] \in {"question", "answer"} /\ Removed(i) => ~Live(i)']_vars

\* The text the public reads was cleared, or released, as it stands.
PublishedTextPassed ==
  \A i \in Items :
    kind[i] # "faq" /\ Live(i) =>
      \/ Verdict[row[i].text] = "clear"
      \/ \E n \in 1..Revisions[i] : revision[i][n] = row[i].text /\ hold[i][n] # "none"

=============================================================================
