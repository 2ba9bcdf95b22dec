--------------------------- MODULE ProfileAssist ---------------------------
(***************************************************************************)
(* A member's profile: the private draft and its review (profiles/         *)
(* service.ts, moderation/automated-review.ts), the CVs (cv/service.ts,    *)
(* api/cv), and the panel that has suggestions prepared from a CV and puts *)
(* the chosen ones into the draft (components/cv-assist-panel.tsx,         *)
(* api/ai/profile-prepare, applyJobSuggestions).                           *)
(*                                                                         *)
(* The panel's requests are answered late or never; its polls overlap.     *)
(* The text of a draft is the number of the save that wrote it.  A job's   *)
(* leases and its ledger entries are in AiJobs, taken here in one step.    *)
(***************************************************************************)
EXTENDS Integers, FiniteSets

CONSTANTS
  Cvs, Jobs, Reviews,  \* rows there can be
  Slots,               \* polls that can be under way at once
  Reviewers,           \* staff
  MaxAttempts,         \* maxAttempts of a job
  Panel, Form,         \* the member's panel, and what the member does elsewhere
  Casts                \* bound of the model: how often each may act, a choice per behaviour

Callers == Reviewers \cup {Panel, Form}

ASSUME ProfileAssistAssumption ==
  /\ Panel # Form /\ Panel \notin Reviewers /\ Form \notin Reviewers
  /\ Cvs \subseteq Nat \ {0} /\ Jobs \subseteq Nat \ {0} /\ Reviews \subseteq Nat \ {0}
  /\ MaxAttempts \in Nat \ {0} /\ Casts \subseteq [Callers -> Nat]

VARIABLES
  cast,
  cvs, accepted,  \* CvDocument rows; legal texts the member has accepted
  jobs, working,  \* AiJob rows; those a worker is busy with
  wallet,         \* credits that are free
  draft,          \* Profile: revision and text of the draft
  public,         \* Profile: what is public, and whether
  reviews,        \* PublicationReview rows, with the automated review
  told,           \* notices of decisions
  panel,          \* what the panel holds
  polls, mount,   \* its polls under way; its request for what was prepared before
  call            \* where each caller is

server == <<cvs, accepted, jobs, working, wallet, draft, public, reviews, told>>
page == <<panel, polls, mount>>
vars == <<cast, server, page, call>>

Ticks == {"notice", "consent"}
JobStatus == {"none", "QUEUED", "RUNNING", "READY", "FAILED", "CANCELLED"}
Waiting == {"QUEUED", "RUNNING"}

Job == [status : JobStatus, cv : Cvs \cup {0}, attempts : 0..MaxAttempts,
        hold : {"none", "held", "settled", "released"}]
View == [id : Jobs \cup {0}, status : JobStatus]
NoView == [id |-> 0, status |-> "none"]
ViewOf(j) == [id |-> j, status |-> jobs[j].status]

Review == [status : {"none", "PENDING", "APPROVED", "REJECTED"}, text : Nat,
           by : Reviewers \cup {Panel}, auto : {"none", "CLEAR", "FLAGGED"}]

Phases == {"idle", "starting", "queued", "running", "ready", "failed", "cancelled"}
PhaseOf == [none |-> "idle", QUEUED |-> "queued", RUNNING |-> "running", READY |-> "ready",
            FAILED |-> "failed", CANCELLED |-> "cancelled"]

PanelState == [cv : Cvs \cup {0}, upload : {"idle", "uploading", "extracted", "failed"},
               phase : Phases, job : View, edits : Jobs \cup {0}, own : BOOLEAN, picked : BOOLEAN,
               rev : Nat, affords : BOOLEAN, ticks : SUBSET Ticks]

Call == [pc : {"idle", "store", "accept", "agree", "gate", "insert", "cancel", "retry", "check", "write",
               "back", "quote", "submit", "auto", "hide", "stop", "remove", "decide", "tell"},
         for : {"none", "upload", "start", "cancel", "retry", "apply"},
         ok : BOOLEAN, cv : Cvs \cup {0}, view : View, rev : Nat, review : Reviews \cup {0},
         decision : {"none", "APPROVED", "REJECTED"}, had : BOOLEAN, out : BOOLEAN, n : Nat]
Idle == [pc |-> "idle", for |-> "none", ok |-> FALSE, cv |-> 0, view |-> NoView, rev |-> 0, review |-> 0,
         decision |-> "none", had |-> FALSE, out |-> FALSE, n |-> 0]

\* A page that has just been loaded.
Fresh == [cv |-> 0, upload |-> "idle", phase |-> "idle", job |-> NoView, edits |-> 0, own |-> FALSE,
          picked |-> FALSE, rev |-> draft.rev, affords |-> wallet > 0, ticks |-> {}]
NoMount == [asked |-> FALSE, view |-> NoView, rev |-> 0]

Init ==
  /\ cast \in Casts
  /\ cvs = [c \in Cvs |-> "none"] /\ accepted = {}
  /\ jobs = [j \in Jobs |-> [status |-> "none", cv |-> 0, attempts |-> 0, hold |-> "none"]]
  /\ working = {} /\ wallet = 1
  /\ draft = [rev |-> 1, text |-> 1]
  /\ public = [text |-> 0, status |-> "DRAFT", published |-> FALSE]
  /\ reviews = [r \in Reviews |-> [status |-> "none", text |-> 0, by |-> Panel, auto |-> "none"]]
  /\ told = {}
  /\ panel = Fresh /\ polls = [s \in Slots |-> NoView] /\ mount = NoMount
  /\ call = [p \in Callers |-> Idle]

-----------------------------------------------------------------------------
Free(p) == call[p].pc = "idle" /\ call[p].n < cast[p]
At(p, pc) == call[p].pc = pc
Goes(p, c) == call' = [call EXCEPT ![p] = [c EXCEPT !.n = call[p].n]]
Begins(p, c) == call' = [call EXCEPT ![p] = [c EXCEPT !.n = call[p].n + 1]]
Ends(p) == Goes(p, Idle)

Settled(j) == [jobs[j] EXCEPT !.status = "READY", !.hold = "settled"]
Freed(row) == [row EXCEPT !.hold = IF @ = "held" THEN "released" ELSE @]
RefundAlways(j) == wallet' = wallet + 1
Refund(j) == wallet' = IF jobs[j].hold = "held" THEN wallet + 1 ELSE wallet

-----------------------------------------------------------------------------
(***************************************************************************)
(* What the panel offers.                                                  *)
(***************************************************************************)
JobBusy == panel.phase \in {"queued", "running", "starting"}
OffersUpload == ~JobBusy /\ "notice" \in panel.ticks
OffersStart ==
  /\ ~JobBusy /\ panel.cv # 0 /\ panel.affords /\ panel.upload = "extracted"
  /\ "consent" \in panel.ticks /\ panel.job.status \notin Waiting
OffersCancel == panel.job.status \in Waiting
OffersRetry == panel.job.status = "FAILED"
OffersApply == panel.job.status = "READY" /\ panel.picked

Tick(t) ==
  /\ Free(Panel) /\ Begins(Panel, Idle)
  /\ panel' = [panel EXCEPT !.ticks = IF t \in @ THEN @ \ {t} ELSE @ \cup {t}]
  /\ UNCHANGED <<cast, server, polls, mount>>

\* The member rewrites suggestions and chooses among them.
Type(pick) ==
  /\ panel.job.status = "READY"
  /\ panel' = [panel EXCEPT !.own = TRUE, !.picked = pick]
  /\ UNCHANGED <<cast, server, polls, mount, call>>

Sends(c, p) ==
  /\ Free(Panel) /\ Begins(Panel, c) /\ panel' = p
  /\ UNCHANGED <<cast, server, polls, mount>>

\* onUpload, onPaste: what was shown before is forgotten.
BeginUpload(c) ==
  /\ OffersUpload /\ cvs[c] = "none"
  /\ Sends([Idle EXCEPT !.pc = "store", !.for = "upload", !.cv = c],
           [panel EXCEPT !.cv = 0, !.upload = "uploading", !.phase = "idle", !.job = NoView])

BeginStart ==
  /\ OffersStart
  /\ Sends([Idle EXCEPT !.pc = "agree", !.for = "start", !.cv = panel.cv],
           [panel EXCEPT !.phase = "starting"])

BeginCancel ==
  /\ OffersCancel /\ Sends([Idle EXCEPT !.pc = "cancel", !.for = "cancel", !.view = panel.job], panel)

BeginRetry ==
  /\ OffersRetry
  /\ Sends([Idle EXCEPT !.pc = "retry", !.for = "retry", !.view = panel.job],
           [panel EXCEPT !.phase = "starting"])

BeginApply ==
  /\ OffersApply
  /\ Sends([Idle EXCEPT !.pc = "check", !.for = "apply", !.view = panel.job, !.rev = panel.rev], panel)

-----------------------------------------------------------------------------
(***************************************************************************)
(* The server's part of the panel's requests.                              *)
(***************************************************************************)
Answers(c) == Goes(Panel, [c EXCEPT !.pc = "back"])
Refuses == Answers([call[Panel] EXCEPT !.ok = FALSE]) /\ UNCHANGED <<cast, server, page>>

\* storeCvUpload: a file is refused, stored without text, or stored with it ...
Store ==
  /\ At(Panel, "store")
  /\ LET c == call[Panel].cv
     IN  \/ Refuses
         \/ /\ cvs' = [cvs EXCEPT ![c] = "unread"]
            /\ Answers([call[Panel] EXCEPT !.ok = FALSE])
            /\ UNCHANGED <<cast, accepted, jobs, working, wallet, draft, public, reviews, told, page>>
         \/ /\ cvs' = [cvs EXCEPT ![c] = "ok"]
            /\ Goes(Panel, [call[Panel] EXCEPT !.pc = "accept"])
            /\ UNCHANGED <<cast, accepted, jobs, working, wallet, draft, public, reviews, told, page>>

\* ... and recordCvUploadNotices writes down what was ticked.
AcceptNotices ==
  /\ At(Panel, "accept")
  /\ accepted' = accepted \cup {"notice"} \cup (panel.ticks \cap {"consent"})
  /\ Answers([call[Panel] EXCEPT !.ok = TRUE])
  /\ UNCHANGED <<cast, cvs, jobs, working, wallet, draft, public, reviews, told, page>>

\* The consent is sent again first; whether that succeeds is not looked at.
Agree ==
  /\ At(Panel, "agree") /\ Goes(Panel, [call[Panel] EXCEPT !.pc = "gate"])
  /\ accepted' \in {accepted, accepted \cup {"consent"}}
  /\ UNCHANGED <<cast, cvs, jobs, working, wallet, draft, public, reviews, told, page>>

\* requireCvAiProcessingGate and createProfilePrepareJob up to its transaction.
Gated(c) == accepted = Ticks /\ cvs[c] = "ok"
Gate ==
  /\ At(Panel, "gate")
  /\ IF Gated(call[Panel].cv)
     THEN Goes(Panel, [call[Panel] EXCEPT !.pc = "insert"]) /\ UNCHANGED <<cast, server, page>>
     ELSE Refuses

Insert ==
  /\ At(Panel, "insert")
  /\ IF wallet = 0 THEN Refuses
     ELSE \E j \in Jobs :
       /\ \A k \in Jobs : jobs[k].status = "none" <=> k >= j
       /\ jobs' = [jobs EXCEPT ![j] = [status |-> "QUEUED", cv |-> call[Panel].cv, attempts |-> 0,
                                       hold |-> "held"]]
       /\ wallet' = wallet - 1
       /\ Answers([call[Panel] EXCEPT !.ok = TRUE, !.view = [id |-> j, status |-> "QUEUED"]])
       /\ UNCHANGED <<cast, cvs, accepted, working, draft, public, reviews, told, page>>

\* cancelOwnedJob
Cancel ==
  /\ At(Panel, "cancel")
  /\ LET j == call[Panel].view.id
         row == IF jobs[j].status \in Waiting
                THEN Freed([jobs[j] EXCEPT !.status = "CANCELLED"])
                ELSE IF jobs[j].status = "FAILED" THEN Freed(jobs[j]) ELSE jobs[j]
     IN  /\ jobs' = [jobs EXCEPT ![j] = row]
         /\ wallet' = IF row.hold # jobs[j].hold THEN wallet + 1 ELSE wallet
         /\ Answers([call[Panel] EXCEPT !.ok = TRUE, !.view.status = row.status])
  /\ UNCHANGED <<cast, cvs, accepted, working, draft, public, reviews, told, page>>

\* requestJobRetry
Retry ==
  /\ At(Panel, "retry")
  /\ LET j == call[Panel].view.id
     IN  IF jobs[j].status = "FAILED" /\ jobs[j].attempts < MaxAttempts /\ jobs[j].hold = "held"
         THEN /\ jobs' = [jobs EXCEPT ![j].status = "QUEUED"]
              /\ Answers([call[Panel] EXCEPT !.ok = TRUE, !.view.status = "QUEUED"])
              /\ UNCHANGED <<cast, cvs, accepted, working, wallet, draft, public, reviews, told, page>>
         ELSE Refuses

\* applyJobSuggestions compares the draft's revision; a conflict answers with it ...
Check ==
  /\ At(Panel, "check")
  /\ IF draft.rev # call[Panel].rev
     THEN Answers([call[Panel] EXCEPT !.ok = FALSE, !.rev = draft.rev])
     ELSE Goes(Panel, [call[Panel] EXCEPT !.pc = "write"])
  /\ UNCHANGED <<cast, server, page>>

\* ... and updateOwnedProfileDraft writes whatever the revision is by then.
Saved == [rev |-> draft.rev + 1, text |-> draft.rev + 1]
Write ==
  /\ At(Panel, "write") /\ draft' = Saved
  /\ Answers([call[Panel] EXCEPT !.ok = TRUE, !.rev = draft.rev + 1])
  /\ UNCHANGED <<cast, cvs, accepted, jobs, working, wallet, public, reviews, told, page>>

-----------------------------------------------------------------------------
(***************************************************************************)
(* The answer comes back, or the request fails on the way.                 *)
(***************************************************************************)
Arrives(f) == At(Panel, "back") /\ call[Panel].for = f /\ UNCHANGED <<cast, server>>
Comes(f) == Arrives(f) /\ Ends(Panel)
Shows(p, view) == [p EXCEPT !.job = view, !.phase = PhaseOf[view.status]]
Quoted(p) == [p EXCEPT !.affords = wallet > 0]

UploadBack ==
  /\ Comes("upload") /\ UNCHANGED <<polls, mount>>
  /\ panel' = IF call[Panel].ok THEN [panel EXCEPT !.cv = call[Panel].cv, !.upload = "extracted"]
              ELSE [panel EXCEPT !.cv = 0, !.upload = "failed"]

\* The job is shown, then loadQuote is awaited.
AsksQuote ==
  /\ panel' = Shows(panel, call[Panel].view)
  /\ Goes(Panel, [call[Panel] EXCEPT !.pc = "quote"])

StartBack ==
  /\ Arrives("start") /\ UNCHANGED <<polls, mount>>
  /\ \/ call[Panel].ok /\ AsksQuote
     \/ ~call[Panel].ok /\ Ends(Panel) /\ panel' = [panel EXCEPT !.phase = "failed"]

CancelBack == Arrives("cancel") /\ UNCHANGED <<polls, mount>> /\ AsksQuote

\* An error instead of the quote leaves the old one; a failed request is Lost.
QuoteBack ==
  /\ At(Panel, "quote") /\ Ends(Panel) /\ UNCHANGED <<cast, server, polls, mount>>
  /\ panel' \in {panel, Quoted(panel)}

RetryBack ==
  /\ Comes("retry") /\ UNCHANGED <<polls, mount>>
  /\ panel' = IF call[Panel].ok THEN Shows(panel, call[Panel].view) ELSE [panel EXCEPT !.phase = "failed"]

Loads == panel' = [Fresh EXCEPT !.ticks = {}] /\ polls' = [s \in Slots |-> NoView]
         /\ mount' = [NoMount EXCEPT !.asked = TRUE]

\* An applied draft reloads the page; a conflict keeps choices and edits.
ApplyBack ==
  /\ Comes("apply")
  /\ IF call[Panel].ok THEN Loads
     ELSE panel' = [panel EXCEPT !.rev = call[Panel].rev] /\ UNCHANGED <<polls, mount>>

\* fetch throws: what each handler's catch and finally leave.
FailsUncaught(p) == p
Fails(p) ==
  CASE call[Panel].for = "upload" -> [p EXCEPT !.cv = 0, !.upload = "failed"]
    [] call[Panel].for = "start" -> [p EXCEPT !.phase = "failed"]
    [] OTHER -> p
Lost ==
  /\ ~At(Panel, "idle") /\ Ends(Panel)
  /\ panel' = Fails(panel)
  /\ UNCHANGED <<cast, server, polls, mount>>

-----------------------------------------------------------------------------
(***************************************************************************)
(* Polling, and what was prepared before the page was loaded.              *)
(***************************************************************************)
Suggests(p, j, pick) == [p EXCEPT !.edits = j, !.own = FALSE, !.picked = pick]

PolledQueued == panel.job.status = "QUEUED"
Polled == panel.job.status \in Waiting
Poll(s) ==
  /\ Polled /\ polls[s] = NoView
  /\ polls' = [polls EXCEPT ![s] = ViewOf(panel.job.id)]
  /\ UNCHANGED <<cast, server, panel, mount, call>>

PollBack(s) ==
  /\ polls[s] # NoView /\ polls' = [polls EXCEPT ![s] = NoView]
  /\ \E pick \in BOOLEAN :
       panel' = IF polls[s].status = "READY"
                THEN Suggests(Shows(panel, polls[s]), polls[s].id, pick)
                ELSE Shows(panel, polls[s])
  /\ UNCHANGED <<cast, server, mount, call>>

PollLost(s) ==
  /\ polls[s] # NoView /\ polls' = [polls EXCEPT ![s] = NoView]
  /\ UNCHANGED <<cast, server, panel, mount, call>>

\* The latest job that is ready, with the draft's revision.
Restorable == {j \in Jobs : jobs[j].status = "READY" /\ \A k \in Jobs : k > j => jobs[k].status # "READY"}
MountRead ==
  /\ mount.asked /\ mount.rev = 0
  /\ mount' = [asked |-> TRUE, rev |-> draft.rev,
               view |-> IF Restorable = {} THEN NoView ELSE ViewOf(CHOOSE j \in Restorable : TRUE)]
  /\ UNCHANGED <<cast, server, panel, polls, call>>

\* It does not clobber edits that are there.
MountBack ==
  /\ mount.rev # 0 /\ mount' = NoMount
  /\ LET p == [panel EXCEPT !.rev = mount.rev]
     IN  IF mount.view = NoView THEN panel' = p
         ELSE \E pick \in BOOLEAN :
           panel' = IF p.edits # 0 THEN Shows(p, mount.view)
                    ELSE Suggests(Shows(p, mount.view), mount.view.id, pick)
  /\ UNCHANGED <<cast, server, polls, call>>

MountLost ==
  /\ mount.asked /\ mount' = NoMount
  /\ UNCHANGED <<cast, server, panel, polls, call>>

Reload == Free(Panel) /\ Begins(Panel, Idle) /\ Loads /\ UNCHANGED <<cast, server>>

-----------------------------------------------------------------------------
(***************************************************************************)
(* The worker, a step per decision.                                        *)
(***************************************************************************)
Claim(j) ==
  /\ jobs[j].status = "QUEUED" /\ jobs[j].attempts < MaxAttempts
  /\ jobs' = [jobs EXCEPT ![j].status = "RUNNING", ![j].attempts = @ + 1]
  /\ working' = working \cup {j}
  /\ UNCHANGED <<cast, cvs, accepted, wallet, draft, public, reviews, told, page, call>>

Finish(j) ==
  /\ j \in working /\ working' = working \ {j}
  /\ \/ /\ jobs[j].status = "CANCELLED"
        /\ jobs' = [jobs EXCEPT ![j] = Freed(@)] /\ Refund(j)
     \/ /\ jobs[j].status = "RUNNING"
        /\ jobs' = [jobs EXCEPT ![j] = Settled(j)] /\ UNCHANGED wallet
     \/ /\ jobs[j].status = "RUNNING" /\ jobs[j].attempts < MaxAttempts
        /\ \E status \in {"QUEUED", "FAILED"} : jobs' = [jobs EXCEPT ![j].status = status]
        /\ UNCHANGED wallet
     \/ /\ jobs[j].status = "RUNNING" /\ jobs[j].attempts = MaxAttempts
        /\ jobs' = [jobs EXCEPT ![j] = Freed([@ EXCEPT !.status = "FAILED"])] /\ Refund(j)
  /\ UNCHANGED <<cast, cvs, accepted, draft, public, reviews, told, page, call>>

-----------------------------------------------------------------------------
(***************************************************************************)
(* What the member does elsewhere, and the staff.                          *)
(***************************************************************************)
\* saveProfileAction, PATCH /api/profile/me
Save ==
  /\ Free(Form) /\ Begins(Form, Idle) /\ draft' = Saved
  /\ UNCHANGED <<cast, cvs, accepted, jobs, working, wallet, public, reviews, told, page>>

\* submitProfileForReview: the draft is read, then a review replaces those that pend ...
BeginSubmit ==
  /\ Free(Form) /\ Begins(Form, [Idle EXCEPT !.pc = "submit", !.rev = draft.text])
  /\ UNCHANGED <<cast, server, page>>

Submit ==
  /\ At(Form, "submit")
  /\ \E r \in Reviews :
       /\ \A k \in Reviews : reviews[k].status = "none" <=> k >= r
       /\ reviews' = [k \in Reviews |->
            IF k = r THEN [status |-> "PENDING", text |-> call[Form].rev, by |-> Panel, auto |-> "none"]
            ELSE IF reviews[k].status = "PENDING" THEN [reviews[k] EXCEPT !.status = "REJECTED"]
            ELSE reviews[k]]
       /\ Goes(Form, [call[Form] EXCEPT !.pc = "auto", !.review = r])
  /\ public' = [public EXCEPT !.status = "PENDING_REVIEW"]
  /\ UNCHANGED <<cast, cvs, accepted, jobs, working, wallet, draft, told, page>>

\* ... which runAutomatedPublicationReview looks at, or fails to.
AutoReview ==
  /\ At(Form, "auto") /\ Ends(Form)
  /\ \E outcome \in {"none", "CLEAR", "FLAGGED"} :
       reviews' = [reviews EXCEPT ![call[Form].review].auto = outcome]
  /\ UNCHANGED <<cast, cvs, accepted, jobs, working, wallet, draft, public, told, page>>

\* unpublishProfile
BeginHide ==
  /\ Free(Form) /\ Begins(Form, [Idle EXCEPT !.pc = "hide", !.had = public.text # 0])
  /\ UNCHANGED <<cast, server, page>>

Hide ==
  /\ At(Form, "hide") /\ Ends(Form)
  /\ public' = [public EXCEPT !.published = FALSE,
                              !.status = IF call[Form].had THEN "UNPUBLISHED" ELSE "DRAFT"]
  /\ UNCHANGED <<cast, cvs, accepted, jobs, working, wallet, draft, reviews, told, page>>

\* deleteOwnedCv: its jobs are cancelled, then the document goes.
BeginDelete(c) ==
  /\ Free(Form) /\ cvs[c] \in {"ok", "unread"}
  /\ Begins(Form, [Idle EXCEPT !.pc = "stop", !.cv = c])
  /\ UNCHANGED <<cast, server, page>>

StopJobs ==
  /\ At(Form, "stop") /\ Goes(Form, [call[Form] EXCEPT !.pc = "remove"])
  /\ jobs' = [j \in Jobs |-> IF jobs[j].cv = call[Form].cv /\ jobs[j].status \in Waiting
                             THEN [jobs[j] EXCEPT !.status = "CANCELLED"] ELSE jobs[j]]
  /\ UNCHANGED <<cast, cvs, accepted, working, wallet, draft, public, reviews, told, page>>

Remove ==
  /\ At(Form, "remove") /\ Ends(Form)
  /\ cvs' = [cvs EXCEPT ![call[Form].cv] = "deleted"]
  /\ UNCHANGED <<cast, accepted, jobs, working, wallet, draft, public, reviews, told, page>>

\* resolvePublicationReview: the review and the profile are read ...
BeginDecide(p, r, d) ==
  /\ Free(p) /\ reviews[r].status = "PENDING"
  /\ Begins(p, [Idle EXCEPT !.pc = "decide", !.review = r, !.decision = d, !.had = public.text # 0,
                            !.out = public.published])
  /\ UNCHANGED <<cast, server, page>>

\* ... then both are written; an approval copies the reviewed text into the
\* draft's columns too, a rejection restores what was read.
ApprovesLiveDraft(r) == [text |-> draft.text, status |-> "APPROVED", published |-> TRUE]
Approved(r) == [text |-> reviews[r].text, status |-> "APPROVED", published |-> TRUE]
Rejected(c) == [text |-> public.text, status |-> IF c.had THEN "APPROVED" ELSE "REJECTED",
                published |-> c.had /\ c.out]
Decide(p) ==
  /\ At(p, "decide") /\ Goes(p, [call[p] EXCEPT !.pc = "tell"])
  /\ LET c == call[p]
     IN  /\ reviews' = [reviews EXCEPT ![c.review].status = c.decision, ![c.review].by = p]
         /\ public' = IF c.decision = "APPROVED" THEN Approved(c.review) ELSE Rejected(c)
         /\ draft' = IF c.decision = "APPROVED" THEN [draft EXCEPT !.text = reviews[c.review].text] ELSE draft
  /\ UNCHANGED <<cast, cvs, accepted, jobs, working, wallet, told, page>>

TellDecision(p) ==
  /\ At(p, "tell") /\ Ends(p)
  /\ told' = told \cup {<<call[p].review, call[p].decision>>}
  /\ UNCHANGED <<cast, cvs, accepted, jobs, working, wallet, draft, public, reviews, page>>

\* A call that dies leaves what it has written.
Dies(p) == p # Panel /\ ~At(p, "idle") /\ Ends(p) /\ UNCHANGED <<cast, server, page>>

-----------------------------------------------------------------------------
Clicks ==
  \/ \E t \in Ticks : Tick(t)
  \/ \E pick \in BOOLEAN : Type(pick)
  \/ \E c \in Cvs : BeginUpload(c)
  \/ BeginStart \/ BeginCancel \/ BeginRetry \/ BeginApply \/ Reload

Handles == Store \/ AcceptNotices \/ Agree \/ Gate \/ Insert \/ Cancel \/ Retry \/ Check \/ Write
Comeback == UploadBack \/ StartBack \/ CancelBack \/ QuoteBack \/ RetryBack \/ ApplyBack
Mounts == MountRead \/ MountBack \/ MountLost
Works(j) == Claim(j) \/ Finish(j)

Elsewhere ==
  \/ Save \/ BeginSubmit \/ Submit \/ AutoReview \/ BeginHide \/ Hide
  \/ (\E c \in Cvs : BeginDelete(c)) \/ StopJobs \/ Remove

Staff(p) ==
  \/ \E r \in Reviews, d \in {"APPROVED", "REJECTED"} : BeginDecide(p, r, d)
  \/ Decide(p) \/ TellDecision(p)

Next ==
  \/ Clicks \/ Handles \/ Comeback \/ Lost \/ Mounts
  \/ \E s \in Slots : Poll(s) \/ PollBack(s) \/ PollLost(s)
  \/ \E j \in Jobs : Works(j)
  \/ Elsewhere
  \/ \E p \in Reviewers : Staff(p)
  \/ \E p \in Callers : Dies(p)

Spec == Init /\ [][Next]_vars

\* The worker's loop runs, the timer of the page fires, and not every answer is lost.
Fairness ==
  /\ \A j \in Jobs : WF_vars(Works(j))
  /\ \A s \in Slots : WF_vars(Poll(s)) /\ SF_vars(PollBack(s))

FairSpec == Spec /\ Fairness

-----------------------------------------------------------------------------
(***************************************************************************)
(* Properties.                                                             *)
(***************************************************************************)
\* Every variable has its type.
TypeOK ==
  /\ cast \in Casts /\ cvs \in [Cvs -> {"none", "ok", "unread", "deleted"}] /\ accepted \subseteq Ticks
  /\ jobs \in [Jobs -> Job] /\ working \subseteq Jobs /\ wallet \in 0..1
  /\ draft \in [rev : Nat, text : Nat]
  /\ public \in [text : Nat, published : BOOLEAN,
                 status : {"DRAFT", "PENDING_REVIEW", "APPROVED", "REJECTED", "UNPUBLISHED"}]
  /\ reviews \in [Reviews -> Review] /\ told \subseteq Reviews \X {"APPROVED", "REJECTED"}
  /\ panel \in PanelState /\ polls \in [Slots -> View]
  /\ mount \in [asked : BOOLEAN, view : View, rev : Nat] /\ call \in [Callers -> Call]

\* isPubliclyVisible
Visible == public.published /\ public.status = "APPROVED" /\ public.text # 0

\* What the public sees is a text that a member of the staff approved, and whose
\* approval stands, whatever the member saves, applies, submits again or hides
\* while the staff decides: "pending review snapshots and draft edits never become
\* publicSnapshot until human approval of that revision" (docs/architecture.md:31;
\* submitProfileForReview, resolvePublicationReview).  It holds with one
\* reviewer: two who decide a review at a time overwrite each other.
PublicIsApproved ==
  Visible => \E r \in Reviews : /\ reviews[r].status = "APPROVED" /\ reviews[r].by \in Reviewers
                                /\ reviews[r].text = public.text

\* A profile that its member took off the site is shown again by an approval only:
\* "unpublishes immediately and removes from discovery"
\* (tests/m1-authorization.test.ts:133).  The code does otherwise: a rejection
\* writes published as it was read before the member hid the profile.
HiddenStaysHidden == [][
  public.status = "UNPUBLISHED" /\ Visible' =>
    \E p \in Reviewers : At(p, "decide") /\ call[p].decision = "APPROVED"]_vars

\* The panel never shows itself busy with nothing under way: a request, a job
\* it polls, or a failed one that it offers to retry; whichever answers are
\* lost, late or doubled (startJob, retryJob and their catch blocks).
NeverStuck ==
  JobBusy => ~At(Panel, "idle") \/ panel.job.status \in Waiting \/ OffersRetry

\* A panel that shows a job as waiting eventually shows how it ended, though
\* polls overlap and are lost (the polling effect of the panel).
PanelCatchesUp == panel.job.status \in Waiting ~> panel.job.status \notin Waiting

\* The draft holds what the member saved or applied last.
DraftIsTheMembers == draft.text = draft.rev

\* A cancelled job keeps no credit once nobody is busy with it.
CancelledIsFreed ==
  \A j \in Jobs : jobs[j].status = "CANCELLED" /\ j \notin working /\ At(Form, "idle") => jobs[j].hold # "held"

=============================================================================
