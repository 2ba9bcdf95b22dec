----------------------------- MODULE GuestPage -----------------------------
(***************************************************************************)
(* The page on which a guest prepares an Arayanlar application             *)
(* (components/arayanlar/guest-flow.tsx, presentation.ts), the short       *)
(* interview behind it (conversation.ts, cv-proposals.ts, service.ts), and *)
(* the requests between them (api/arayanlar).                              *)
(*                                                                         *)
(* The page loads by several requests at once, polls while a preparation   *)
(* is under way, and awaits one action of the guest at a time; any request *)
(* may be late or lost.  A chat message is read and written in two steps,  *)
(* also after the page that sent it is gone.  A worker process prepares    *)
(* and may die at any point of it.  The other requests, in one step here,  *)
(* and overlapping workers are taken apart in ArayanlarPrep.               *)
(***************************************************************************)
EXTENDS Integers, FiniteSets

CONSTANTS
  Keys,          \* questions with a field of their own, in the order they are asked
  MaxQuestions,  \* MAX_PREPARATION_QUESTIONS
  PrepAttempts,  \* maxAttempts of the preparation's job
  Loads,         \* refreshes that can be under way at once
  Starts         \* bound of the model: an application to start from, and what the guest does then

\* The first and the last of some questions.
First(S) == CHOOSE k \in S : \A j \in S : k <= j
Last(S) == CHOOSE k \in S : \A j \in S : j <= k

FollowUp == Last(Keys) + 1
NoKey == 0
Asked == Keys \cup {FollowUp}

ASSUME GuestPageAssumption ==
  /\ Keys # {} /\ IsFiniteSet(Keys) /\ Keys \subseteq Nat \ {0}
  /\ MaxQuestions \in Nat \ {0} /\ PrepAttempts \in Nat \ {0}

VARIABLES
  application,  \* ArayanlarApplication: what the page and the interview use of it
  prepJob,      \* the AiJob of its prepareJobId
  cvs,          \* whether there is a CV whose text could be read
  agreed,       \* whether the sharing notice is accepted for the application
  late,         \* chat messages that were read and whose page is gone
  requeuing,    \* a retry has queued the job and has yet to write the application
  preparer,     \* where the worker is in its run
  page,         \* what the page holds
  loads,        \* its refreshes
  call,         \* the action it awaits
  clicks        \* what the guest may still do

aside == <<cvs, agreed, late, requeuing, preparer>>
server == <<application, prepJob, aside>>
pageVars == <<server, page, loads, call, clicks>>

AppStatuses == {"none", "DRAFT", "AWAITING_CONFIRMATION", "SUBMITTED", "WITHDRAWN"}
Preps == {"NOT_STARTED", "QUEUED", "RUNNING", "READY", "FAILED", "CANCELLED"}
JobStatuses == {"none", "QUEUED", "RUNNING", "READY", "FAILED", "CANCELLED"}
Preparers == {"idle", "claimed", "working", "tellQueued", "tellFailed"}

Draft == [answers : SUBSET Keys, key : Asked \cup {NoKey}, asked : Nat]
GuestApplication == [status : AppStatuses, prep : Preps, cost : BOOLEAN, draft : Draft]
Job == [status : JobStatuses, attempts : 0..PrepAttempts]
NoPrepJob == [status |-> "none", attempts |-> 0]

\* What an answer tells the page of the application.
View == [status : AppStatuses, prep : Preps, cost : BOOLEAN]
NoView == [status |-> "none", prep |-> "NOT_STARTED", cost |-> FALSE]
ViewOf(a) == [status |-> a.status, prep |-> a.prep, cost |-> a.cost]

PageState == [app : View, job : Job, facts : BOOLEAN, cv : BOOLEAN, failed : BOOLEAN, form : BOOLEAN,
              tick : BOOLEAN, fromCv : BOOLEAN, armed : BOOLEAN, started : BOOLEAN]
FreshPage(fromCv) == [app |-> NoView, job |-> NoPrepJob, facts |-> FALSE, cv |-> FALSE, failed |-> FALSE,
                     form |-> FALSE, tick |-> FALSE, fromCv |-> fromCv, armed |-> fromCv, started |-> FALSE]

\* A refresh: for whom, and what its two requests have answered.
Load == [for : {"none", "page", "poll", "check", "call"}, app : View, second : BOOLEAN, facts : BOOLEAN,
         job : Job, cv : BOOLEAN]
NoLoad == [for |-> "none", app |-> NoView, second |-> FALSE, facts |-> FALSE, job |-> NoPrepJob, cv |-> FALSE]

Call == [kind : {"none", "confirm", "send", "form", "cv", "submit", "retry", "withdraw", "revise"},
         pc : {"sent", "write", "agreed", "requeued", "back", "load"}, ok : BOOLEAN, view : View, job : Job,
         fills : BOOLEAN, read : Draft]
Rest == [kind |-> "none", pc |-> "sent", ok |-> FALSE, view |-> NoView, job |-> NoPrepJob, fills |-> FALSE,
         read |-> [answers |-> {}, key |-> NoKey, asked |-> 0]]

-----------------------------------------------------------------------------
(***************************************************************************)
(* The interview.                                                          *)
(***************************************************************************)
NextUnlimited(answers, asked) == IF Keys \subseteq answers THEN FollowUp ELSE First(Keys \ answers)
nextQuestionKey(answers, asked) ==
  IF asked >= MaxQuestions THEN NoKey
  ELSE IF Keys \subseteq answers THEN FollowUp ELSE First(Keys \ answers)

\* What the profile or a CV can tell: never the topics to leave out or the contact.
Known == SUBSET (Keys \ {Last(Keys)})

\* A draft whose opening turn asks what the profile does not tell.
Opened(seed) == [answers |-> seed, key |-> nextQuestionKey(seed, 0), asked |-> 0]

\* postConversationMessage: the question that was asked last is answered, or the next one.
KeyOf(d) == IF d.key # NoKey THEN d.key ELSE nextQuestionKey(d.answers, d.asked)
Answered(d, fills) ==
  LET answers == IF fills THEN d.answers \cup ({KeyOf(d)} \cap Keys) ELSE d.answers
  IN  IF KeyOf(d) = NoKey THEN d
      ELSE [answers |-> answers, key |-> nextQuestionKey(answers, d.asked + 1), asked |-> d.asked + 1]
Answers(d, fills) ==
  [application EXCEPT !.draft = Answered(d, fills),
              !.status = IF Answered(d, fills).key = NoKey THEN "AWAITING_CONFIRMATION" ELSE "DRAFT"]

\* What a behaviour starts from is what an earlier one may have left.
Within(d) == d.asked <= MaxQuestions /\ (d.asked = MaxQuestions => d.key = NoKey)
ASSUME StartsAssumption == \A s \in Starts :
  /\ s.app \in GuestApplication /\ Within(s.app.draft) /\ s.clicks \in Nat
  /\ s.cvs \in BOOLEAN /\ s.fromCv \in BOOLEAN

-----------------------------------------------------------------------------
(***************************************************************************)
(* What the page shows.                                                    *)
(***************************************************************************)
Facing ==
  IF page.app.status # "SUBMITTED" THEN page.app.status
  ELSE IF page.app.prep \notin {"FAILED", "CANCELLED"} THEN page.app.prep
  ELSE IF page.job.status = "FAILED" /\ page.job.attempts < PrepAttempts THEN "FAILED_RETRYABLE"
  ELSE "FAILED_TERMINAL"

Waiting == Facing \in {"QUEUED", "RUNNING", "NOT_STARTED"}
ShouldPoll == Waiting

Busy == call.kind # "none" \/ \E l \in Loads : loads[l].for = "check"
Shown == page.app # NoView /\ ~page.failed
MayClick == Shown /\ ~Busy /\ clicks > 0
DraftShown == MayClick /\ page.app.status = "DRAFT"

-----------------------------------------------------------------------------
PageInit ==
  /\ \E s \in Starts : application = s.app /\ clicks = s.clicks /\ cvs = s.cvs /\ page = FreshPage(s.fromCv)
  /\ prepJob = IF application.status = "SUBMITTED" THEN [status |-> "QUEUED", attempts |-> 0] ELSE NoPrepJob
  /\ agreed = (application.status = "SUBMITTED") /\ late = {} /\ requeuing = FALSE /\ preparer = "idle"
  /\ loads = [l \in Loads |-> IF l = First(Loads) THEN [NoLoad EXCEPT !.for = "page"] ELSE NoLoad]
  /\ call = Rest

Clicked == clicks' = clicks - 1
Sends(c) == call' = c /\ Clicked /\ UNCHANGED <<server, page, loads>>
Kind(k) == [Rest EXCEPT !.kind = k]

Begins(l, for) == loads[l] = NoLoad /\ loads' = [loads EXCEPT ![l] = [NoLoad EXCEPT !.for = for]]

-----------------------------------------------------------------------------
(***************************************************************************)
(* What the guest does.                                                    *)
(***************************************************************************)
Confirm ==
  /\ MayClick
  /\ page.app.status = "WITHDRAWN" \/ (page.app.status = "DRAFT" /\ ~page.app.cost)
  /\ Sends(Kind("confirm"))

\* An answer fills its field; a skipped or evasive one does not.
Send(fills) ==
  /\ DraftShown /\ page.app.cost /\ ~page.form /\ Sends([Kind("send") EXCEPT !.fills = fills])

ToggleForm ==
  /\ DraftShown /\ page.app.cost /\ Clicked
  /\ page' = [page EXCEPT !.form = ~@] /\ UNCHANGED <<server, loads, call>>

UseForm == DraftShown /\ page.app.cost /\ page.form /\ Sends(Kind("form"))

UseCv == DraftShown /\ page.cv /\ Sends(Kind("cv"))

\* The page was opened to start from a CV: it does so once, by itself.
AutoCv ==
  /\ page.armed /\ ~page.started /\ ~Busy /\ page.cv
  /\ page.app.status \notin {"SUBMITTED", "WITHDRAWN"}
  /\ page' = [page EXCEPT !.started = TRUE] /\ call' = Kind("cv")
  /\ UNCHANGED <<server, loads, clicks>>

\* CvUploadControl and onUploaded: the CV is chosen, and the page loaded again.
Upload ==
  /\ Shown /\ page.app.status = "DRAFT" /\ ~page.cv /\ clicks > 0 /\ Clicked
  /\ cvs' = TRUE /\ page' = [page EXCEPT !.cv = TRUE]
  /\ \E l \in Loads : Begins(l, "page")
  /\ UNCHANGED <<application, prepJob, agreed, late, requeuing, preparer, call>>

Tick ==
  /\ MayClick /\ page.app.status = "AWAITING_CONFIRMATION" /\ Clicked
  /\ page' = [page EXCEPT !.tick = ~@] /\ UNCHANGED <<server, loads, call>>

SubmitFacts ==
  /\ MayClick /\ page.app.status = "AWAITING_CONFIRMATION" /\ page.facts /\ page.tick
  /\ Sends(Kind("submit"))

Retry == MayClick /\ Facing = "FAILED_RETRYABLE" /\ Sends(Kind("retry"))
Revise == MayClick /\ Facing \in {"FAILED_RETRYABLE", "FAILED_TERMINAL"} /\ Sends(Kind("revise"))
TakeBack == MayClick /\ page.app.status = "SUBMITTED" /\ Sends(Kind("withdraw"))

CheckNow ==
  /\ MayClick /\ Waiting /\ Clicked /\ \E l \in Loads : Begins(l, "check")
  /\ UNCHANGED <<server, page, call>>

LoadAgain ==
  /\ page.failed /\ clicks > 0 /\ Clicked /\ \E l \in Loads : Begins(l, "page")
  /\ UNCHANGED <<server, page, call>>

\* A chat message that has been read is written all the same.
Reload ==
  /\ clicks > 0 /\ Clicked /\ call' = Rest
  /\ late' = IF call.kind = "send" /\ call.pc = "write" THEN late \cup {<<call.read, call.fills>>} ELSE late
  /\ page' = FreshPage(page.fromCv)
  /\ loads' = [l \in Loads |-> IF l = First(Loads) THEN [NoLoad EXCEPT !.for = "page"] ELSE NoLoad]
  /\ UNCHANGED <<application, prepJob, cvs, agreed, requeuing, preparer>>

-----------------------------------------------------------------------------
(***************************************************************************)
(* The server.                                                             *)
(***************************************************************************)
Asks(k) == call.kind = k /\ call.pc = "sent" /\ UNCHANGED <<page, loads, clicks>>
Does(a) ==
  application' = a /\ call' = [Kind(call.kind) EXCEPT !.pc = "back", !.ok = TRUE, !.view = ViewOf(a)]
\* A refused chat message answers with the application as it is.
Refuses ==
  /\ UNCHANGED server
  /\ call' = [Kind(call.kind) EXCEPT !.pc = "back",
                                      !.view = IF call.kind \in {"send", "form"} THEN ViewOf(application)
                                                                            ELSE NoView]
Editing == application.status \notin {"WITHDRAWN", "SUBMITTED"}

\* confirmCostAndStart; reopenWithdrawnAsDraft detaches the job.
Confirmed(a, seed) ==
  IF a.status = "WITHDRAWN"
    THEN [status |-> "DRAFT", prep |-> "NOT_STARTED", cost |-> TRUE, draft |-> Opened(seed)]
    ELSE [a EXCEPT !.cost = @ \/ ~(a.status = "SUBMITTED" /\ a.prep = "READY")]
JobAfterConfirming == IF application.status = "WITHDRAWN" THEN NoPrepJob ELSE prepJob

HandleConfirm ==
  /\ Asks("confirm") /\ \E seed \in Known : Does(Confirmed(application, seed))
  /\ prepJob' = JobAfterConfirming /\ UNCHANGED aside

ReadChat ==
  /\ Asks("send")
  /\ \/ Refuses
     \/ Editing /\ call' = [call EXCEPT !.pc = "write", !.read = application.draft] /\ UNCHANGED server

WriteChat ==
  /\ call.kind = "send" /\ call.pc = "write" /\ Does(Answers(call.read, call.fills))
  /\ UNCHANGED <<prepJob, aside, page, loads, clicks>>

WriteLate ==
  \E c \in late :
    /\ late' = late \ {c} /\ application' = Answers(c[1], c[2])
    /\ UNCHANGED <<prepJob, cvs, agreed, requeuing, preparer, page, loads, call, clicks>>

\* switchToSummaryFallback: the form says what is known and what is not.
HandleForm ==
  /\ Asks("form")
  /\ IF Editing
     THEN /\ \E known \in SUBSET Keys :
               Does([application EXCEPT !.status = "AWAITING_CONFIRMATION", !.draft.answers = known])
          /\ UNCHANGED <<prepJob, aside>>
     ELSE Refuses

\* applyOwnedCvProposalsToApplication: the cost is confirmed first, and with it
\* a withdrawn application reopened, also when nothing can be proposed then.
HandleCv ==
  /\ Asks("cv") /\ prepJob' = JobAfterConfirming /\ UNCHANGED aside
  /\ \E seed, known \in Known :
       LET a == Confirmed(application, seed)
       IN  \/ /\ a.status # "SUBMITTED"
              /\ Does([a EXCEPT !.status = "AWAITING_CONFIRMATION", !.cost = TRUE, !.draft.key = NoKey,
                                !.draft.answers = @ \cup known])
           \/ application' = a /\ call' = [Kind("cv") EXCEPT !.pc = "back"]

\* The notice is accepted by a request of its own, and then the facts are submitted.
HandleAgree ==
  /\ Asks("submit")
  /\ \/ agreed' = TRUE /\ call' = [call EXCEPT !.pc = "agreed"] /\ UNCHANGED <<application, prepJob, cvs, late, requeuing, preparer>>
     \/ Refuses

\* Without credit the application is back at its confirmation.
Submittable ==
  /\ application.status # "WITHDRAWN" /\ agreed
  /\ ~(application.status = "SUBMITTED" /\ application.prep \in {"QUEUED", "RUNNING", "READY"})

HandleSubmit ==
  /\ call.kind = "submit" /\ call.pc = "agreed" /\ UNCHANGED <<page, loads, clicks>>
  /\ \/ /\ Submittable
        /\ Does([application EXCEPT !.status = "SUBMITTED", !.prep = "QUEUED", !.cost = TRUE])
        /\ prepJob' = [status |-> "QUEUED", attempts |-> 0]
        /\ UNCHANGED aside
     \/ /\ Submittable /\ prepJob' = NoPrepJob
        /\ application' = [application EXCEPT !.status = "AWAITING_CONFIRMATION", !.prep = "NOT_STARTED"]
        /\ call' = [Kind("submit") EXCEPT !.pc = "back"]
        /\ UNCHANGED aside
     \/ ~Submittable /\ Refuses

\* retryArayanlarPreparation queues the job, ... (one retry at a time)
HandleRetry ==
  /\ Asks("retry") /\ ~requeuing
  /\ IF application.status = "SUBMITTED" /\ application.prep = "FAILED"
        /\ prepJob.status = "FAILED" /\ prepJob.attempts < PrepAttempts
     THEN /\ prepJob' = [prepJob EXCEPT !.status = "QUEUED"]
          /\ requeuing' = TRUE /\ call' = [call EXCEPT !.pc = "requeued"]
          /\ UNCHANGED <<application, cvs, agreed, late, preparer>>
     ELSE Refuses

\* ... then writes the application, whatever the worker has done meanwhile and
\* whether or not the page still waits for it.
WriteRetry ==
  /\ requeuing /\ requeuing' = FALSE
  /\ application' = [application EXCEPT !.prep = "QUEUED"]
  /\ call' = IF call.pc = "requeued"
               THEN [call EXCEPT !.pc = "back", !.ok = TRUE, !.view = ViewOf(application'), !.job = prepJob]
               ELSE call
  /\ UNCHANGED <<prepJob, cvs, agreed, late, preparer, page, loads, clicks>>

Cancelled == [prepJob EXCEPT !.status = IF @ \in {"QUEUED", "RUNNING"} THEN "CANCELLED" ELSE @]

HandleWithdraw ==
  /\ Asks("withdraw")
  /\ IF application.status = "WITHDRAWN" THEN Does(application) /\ UNCHANGED prepJob
     ELSE Does([application EXCEPT !.status = "WITHDRAWN", !.prep = "CANCELLED"]) /\ prepJob' = Cancelled
  /\ UNCHANGED aside

\* startRevisionDraft
HandleRevise ==
  /\ Asks("revise")
  /\ IF application.status = "SUBMITTED"
     THEN /\ Does([application EXCEPT !.status = "DRAFT", !.prep = "NOT_STARTED", !.draft = Opened(@.answers)])
          /\ prepJob' = NoPrepJob /\ UNCHANGED aside
     ELSE Refuses

-----------------------------------------------------------------------------
(***************************************************************************)
(* Answers.                                                                *)
(***************************************************************************)
Reloading(k) == k \in {"send", "form", "cv", "submit", "retry", "revise"}
Shows(p) ==
  [p EXCEPT !.app = IF call.view = NoView THEN @ ELSE call.view,
            !.job = IF call.kind = "retry" /\ call.ok THEN call.job ELSE @,
            !.form = IF call.kind \in {"form", "cv"} /\ call.ok THEN FALSE ELSE @,
            !.facts = @ \/ (call.kind = "cv" /\ call.ok),
            !.armed = @ /\ ~(call.kind = "cv" /\ call.ok)]

Back ==
  /\ call.kind # "none" /\ call.pc = "back" /\ page' = Shows(page)
  /\ IF call.ok /\ Reloading(call.kind)
     THEN call' = [Kind(call.kind) EXCEPT !.pc = "load"] /\ \E l \in Loads : Begins(l, "call")
     ELSE call' = Rest /\ UNCHANGED loads
  /\ UNCHANGED <<server, clicks>>

\* fetch throws: nothing is shown, and the page is free again.
Lost ==
  /\ call.kind # "none" /\ call.pc # "load" /\ call' = Rest
  /\ late' = IF call.kind = "send" /\ call.pc = "write" THEN late \cup {<<call.read, call.fills>>} ELSE late
  /\ UNCHANGED <<application, prepJob, cvs, agreed, requeuing, preparer, page, loads, clicks>>

-----------------------------------------------------------------------------
(***************************************************************************)
(* A refresh: GET basvuru creates the application, both heal it, and       *)
(* nothing else is written.                                                *)
(***************************************************************************)
Healed(a) == [a EXCEPT !.prep = IF a.status = "SUBMITTED" /\ @ \in {"NOT_STARTED", "QUEUED", "RUNNING"}
                                     /\ prepJob.status = "READY" THEN "READY" ELSE @]

LoadApplication(l) ==
  /\ loads[l].for # "none" /\ loads[l].app = NoView
  /\ IF application.status = "none"
     THEN \E seed \in Known : application' = [application EXCEPT !.status = "DRAFT", !.draft = Opened(seed)]
     ELSE application' = Healed(application)
  /\ loads' = [loads EXCEPT ![l].app = ViewOf(application')]
  /\ UNCHANGED <<prepJob, aside, page, call, clicks>>

LoadRest(l) ==
  /\ loads[l].for # "none" /\ ~loads[l].second
  /\ application' = Healed(application)
  /\ loads' = [loads EXCEPT ![l].second = TRUE, ![l].facts = application.status # "none",
                               ![l].job = prepJob, ![l].cv = cvs]
  /\ UNCHANGED <<prepJob, aside, page, call, clicks>>

EndsCall(l) == call' = IF loads[l].for = "call" THEN Rest ELSE call

Loaded(l) ==
  /\ loads[l].second /\ loads[l].app # NoView
  /\ page' = [page EXCEPT !.app = loads[l].app, !.facts = loads[l].facts, !.job = loads[l].job,
                          !.cv = @ \/ loads[l].cv, !.failed = FALSE]
  /\ loads' = [loads EXCEPT ![l] = NoLoad] /\ EndsCall(l)
  /\ UNCHANGED <<server, clicks>>

\* An answer is lost, here once both requests were handled.
LoadFails(l) ==
  /\ loads[l].second /\ loads[l].app # NoView /\ loads' = [loads EXCEPT ![l] = NoLoad] /\ EndsCall(l)
  /\ page' = [page EXCEPT !.failed = TRUE]
  /\ UNCHANGED <<server, clicks>>

Poll(l) ==
  /\ ShouldPoll /\ \A k \in Loads : loads[k].for # "poll"
  /\ Begins(l, "poll") /\ UNCHANGED <<server, page, call, clicks>>

-----------------------------------------------------------------------------
(***************************************************************************)
(* The worker (scripts/ai-worker.ts): one process, one job after another.  *)
(***************************************************************************)
workerAside == <<cvs, agreed, late, requeuing, page, loads, call, clicks>>
TriesAgain == prepJob.attempts < PrepAttempts

\* claimNextJob takes a job that is queued, or whose worker is gone; one that is
\* out of attempts fails, and the application is not told.
TakeJob ==
  /\ preparer = "idle" /\ prepJob.status \in {"QUEUED", "RUNNING"} /\ TriesAgain
  /\ prepJob' = [status |-> "RUNNING", attempts |-> prepJob.attempts + 1]
  /\ preparer' = "claimed" /\ UNCHANGED application
GiveUpJob ==
  /\ preparer = "idle" /\ prepJob.status \in {"QUEUED", "RUNNING"} /\ ~TriesAgain
  /\ prepJob' = [prepJob EXCEPT !.status = "FAILED"] /\ UNCHANGED <<application, preparer>>

MarkJob ==
  /\ preparer = "claimed" /\ prepJob.status = "RUNNING" /\ preparer' = "working"
  /\ application' = [application EXCEPT !.prep = "RUNNING"] /\ UNCHANGED prepJob

\* The job was cancelled, or is no longer the application's.
LeaveJob ==
  /\ preparer \in {"claimed", "working"} /\ prepJob.status # "RUNNING" /\ preparer' = "idle"
  /\ UNCHANGED <<application, prepJob>>

\* Both artifacts, the job and the application are written at once ...
FinishJob ==
  /\ preparer = "working" /\ prepJob.status = "RUNNING" /\ preparer' = "idle"
  /\ prepJob' = [prepJob EXCEPT !.status = "READY"] /\ application' = [application EXCEPT !.prep = "READY"]

\* ... but an attempt that failed first writes the job, then the application.
FailJob ==
  /\ preparer = "working" /\ prepJob.status = "RUNNING" /\ UNCHANGED application
  /\ \/ TriesAgain /\ prepJob' = [prepJob EXCEPT !.status = "QUEUED"] /\ preparer' = "tellQueued"
     \/ prepJob' = [prepJob EXCEPT !.status = "FAILED"] /\ preparer' = "tellFailed"

TellApplicant ==
  /\ preparer \in {"tellQueued", "tellFailed"} /\ preparer' = "idle"
  /\ application' = [application EXCEPT !.prep = IF preparer = "tellQueued" THEN "QUEUED" ELSE "FAILED"]
  /\ UNCHANGED prepJob

Work == TakeJob \/ GiveUpJob \/ MarkJob \/ LeaveJob \/ FinishJob \/ FailJob \/ TellApplicant
PrepareStep == Work /\ UNCHANGED workerAside

\* The process is killed, or its run throws; the lease of its job lapses.
PreparerDies ==
  /\ preparer # "idle" /\ preparer' = "idle" /\ UNCHANGED <<application, prepJob, workerAside>>

-----------------------------------------------------------------------------
GuestActs ==
  \/ Confirm \/ (\E fills \in BOOLEAN : Send(fills)) \/ ToggleForm \/ UseForm \/ UseCv \/ AutoCv \/ Upload
  \/ Tick \/ SubmitFacts \/ Retry \/ Revise \/ TakeBack \/ CheckNow \/ LoadAgain \/ Reload

Handles ==
  \/ HandleConfirm \/ ReadChat \/ WriteChat \/ WriteLate \/ HandleForm \/ HandleCv
  \/ HandleAgree \/ HandleSubmit \/ HandleRetry \/ WriteRetry \/ HandleWithdraw \/ HandleRevise

LoadStep(l) == LoadApplication(l) \/ LoadRest(l) \/ Loaded(l)

PageNext ==
  \/ GuestActs \/ Handles \/ Back \/ Lost \/ PrepareStep \/ PreparerDies
  \/ \E l \in Loads : Poll(l) \/ LoadStep(l) \/ LoadFails(l)

PageSpec == PageInit /\ [][PageNext]_pageVars

\* The worker's loop runs, again after each death, the page's timer fires,
\* requests end one way or the other, and not every refresh fails.
PageFairness ==
  /\ WF_pageVars(PrepareStep) /\ WF_pageVars(Back)
  /\ WF_pageVars(\E l \in Loads : Poll(l))
  /\ \A l \in Loads : WF_pageVars(LoadApplication(l)) /\ WF_pageVars(LoadRest(l)) /\ SF_pageVars(Loaded(l))

FairPageSpec == PageSpec /\ PageFairness

-----------------------------------------------------------------------------
(***************************************************************************)
(* Properties.                                                             *)
(***************************************************************************)
\* Every variable has its type.
PageTypeOK ==
  /\ application \in GuestApplication /\ prepJob \in Job /\ cvs \in BOOLEAN /\ agreed \in BOOLEAN
  /\ late \subseteq Draft \X BOOLEAN /\ requeuing \in BOOLEAN /\ preparer \in Preparers
  /\ page \in PageState /\ loads \in [Loads -> Load] /\ call \in Call /\ clicks \in Nat

\* The interview ends: however messages overlap, are lost and sent again,
\* after reloads, forms and CVs, a draft never counts more questions than the
\* budget, and a draft at its budget has no question open
\* (nextQuestionKey, postConversationMessage).
QuestionBudget == Within(application.draft)

\* A preparation whose job has failed with nobody left to say so: its last
\* worker was gone before the application was told, or a retry wrote QUEUED
\* after the job it queued had failed again.
Forsaken ==
  /\ application.status = "SUBMITTED" /\ application.prep \in {"QUEUED", "RUNNING"}
  /\ prepJob.status = "FAILED" /\ preparer # "tellFailed"


\* "Prep status (... RUNNING -> READY | FAILED | CANCELLED) tracks artifact
\* generation" (docs/arayanlar.md:12): the wait always ends.
WaitingEnds == Waiting ~> ~Waiting

\* The closing question is asked once.
FollowUpOnce == [][
  call.pc = "write" /\ call'.pc = "back" /\ KeyOf(call.read) = FollowUp
    => application'.draft.key # FollowUp]_pageVars

=============================================================================
