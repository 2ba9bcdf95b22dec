--------------------------- MODULE ArayanlarPrep ---------------------------
(***************************************************************************)
(* One guest's Arayanlar application and its preparation:                  *)
(* src/lib/arayanlar/service.ts (the guest's and the host's requests),     *)
(* processArayanlarPrepareJob of src/lib/ai/jobs.ts (the worker) and       *)
(* src/lib/arayanlar/host-auth.ts.                                         *)
(*                                                                         *)
(* Guest, host and workers are separate processes over one application     *)
(* row, the rows of its jobs and its artifacts.  None of them locks the    *)
(* application: each reads it, decides, and writes it by its id, so every  *)
(* read and every write is a step.  A call into the credit ledger is one   *)
(* step here; CreditLedger and AiJobs take it apart.                       *)
(***************************************************************************)
EXTENDS Integers, FiniteSets

CONSTANTS
  Workers,      \* worker processes
  Guests,       \* concurrent requests of the guest (one: a single tab)
  Hosts,        \* members who may host; a host has one request at a time
  Facts,        \* contents of a confirmed submission
  MaxRevision,  \* bound of the model: submissions
  Jobs,         \* bound of the model: jobs, numbered in createdAt order
  MaxSaves,     \* bound of the model: saves of host edits
  GuestAttempts, HostAttempts,  \* maxAttempts of a guest's and of a host's job
  Usage,        \* what a submission reserves: "held", or "free" with unlimited usage
  RegenMax,     \* HOST_PACK_REGEN_MAX
  NoFacts, NoOne, NoJob

ASSUME PrepAssumption ==
  /\ MaxRevision \in Nat \ {0}
  /\ Jobs \subseteq Nat \ {0} /\ NoJob = 0
  /\ MaxSaves \in Nat
  /\ GuestAttempts \in Nat \ {0} /\ HostAttempts \in Nat \ {0}
  /\ Usage \subseteq {"held", "free"}
  /\ RegenMax \in Nat
  /\ NoFacts \notin Facts /\ NoOne \notin Workers \cup Hosts

VARIABLES
  app,          \* the ArayanlarApplication row
  packs,        \* packs[r]: the GUEST_BRIEF and HOST_PACK of submission r
  job,          \* job[j]: the AiJob row
  hold,         \* hold[j]: what the ledger says of job j's reservation
  authorized,   \* hosts with a HostAuthorization that is not revoked
  worker, guest, host,  \* where each process is, and what it read
  submitted,    \* history: <<revision, facts>> ever submitted
  saves         \* history: how often host edits were saved

vars == <<app, packs, job, hold, authorized, worker, guest, host, submitted, saves>>

Revisions == 1..MaxRevision
MaxAttempts == IF GuestAttempts > HostAttempts THEN GuestAttempts ELSE HostAttempts

Statuses == {"none", "QUEUED", "RUNNING", "READY", "FAILED", "CANCELLED"}
PrepStatuses == {"NOT_STARTED", "QUEUED", "RUNNING", "READY", "FAILED", "CANCELLED"}

Application == [status : {"none", "DRAFT", "AWAITING_CONFIRMATION", "SUBMITTED", "WITHDRAWN"},
                prep : PrepStatuses, revision : 0..MaxRevision, facts : Facts \cup {NoFacts},
                job : Jobs \cup {NoJob}, host : Hosts \cup {NoOne}]

\* brief, notes: the facts the guest brief and the host pack were generated
\* from; edit: the save that hostEditedJson is from, 0 for null.
Pack == [brief : Facts \cup {NoFacts}, notes : Facts \cup {NoFacts}, edit : 0..MaxSaves]
NoPack == [brief |-> NoFacts, notes |-> NoFacts, edit |-> 0]

\* by: whose job it is; regen: providerMode is "platform_host_regen".
Row == [status : Statuses, owner : Workers \cup {NoOne}, lapsed : BOOLEAN,
        attempts : 0..MaxAttempts, revision : 0..MaxRevision,
        regen : BOOLEAN, by : {"guest", "host"}]
NoRow == [status |-> "none", owner |-> NoOne, lapsed |-> FALSE, attempts |-> 0,
          revision |-> 0, regen |-> FALSE, by |-> "guest"]

WorkerPcs == {"idle", "start", "cancel", "running", "lease", "provider", "requeue", "prepQueued",
              "failMissing", "fail", "prepFailed", "check", "commit", "settle", "release"}
WorkerState == [pc : WorkerPcs,
                job : Jobs \cup {NoJob}, regen : BOOLEAN, revision : 0..MaxRevision,
                facts : Facts \cup {NoFacts}, prep : PrepStatuses, edit : 0..MaxSaves]
AtRest == [pc |-> "idle", job |-> NoJob, regen |-> FALSE, revision |-> 0,
           facts |-> NoFacts, prep |-> "NOT_STARTED", edit |-> 0]

GuestState == [pc : {"idle", "reopen", "draft", "submit", "unsubmit", "cancelJob", "releaseJob",
                     "redraft", "withdraw", "requeueJob", "requeuePrep", "heal"},
               next : {"idle", "redraft", "withdraw"},
               job : Jobs \cup {NoJob}, revision : 0..MaxRevision]
Done == [pc |-> "idle", next |-> "idle", job |-> NoJob, revision |-> 0]

HostState == [pc : {"idle", "assign", "save", "count", "regenerate"}, revision : 0..MaxRevision]
Away == [pc |-> "idle", revision |-> 0]

Init ==
  /\ app = [status |-> "none", prep |-> "NOT_STARTED", revision |-> 0, facts |-> NoFacts,
            job |-> NoJob, host |-> NoOne]
  /\ packs = [r \in Revisions |-> NoPack]
  /\ job = [j \in Jobs |-> NoRow]
  /\ hold = [j \in Jobs |-> "none"]
  /\ authorized = {}
  /\ worker = [w \in Workers |-> AtRest]
  /\ guest = [g \in Guests |-> Done]
  /\ host = [h \in Hosts |-> Away]
  /\ submitted = {}
  /\ saves = 0

LimitOf(j) == IF job[j].by = "host" THEN HostAttempts ELSE GuestAttempts
Exhausted(j) == job[j].attempts >= LimitOf(j)
Fresh(j) == job[j].status = "none" /\ \A i \in Jobs : i < j => job[i].status # "none"

Unleased(row, status) == [row EXCEPT !.status = status, !.owner = NoOne, !.lapsed = FALSE]
\* A write of the worker's outcome also replaces providerMode.
Outcome(row, status) == [Unleased(row, status) EXCEPT !.regen = FALSE]

\* The ledger: a reservation is settled or released once (see CreditLedger).
Close(j, how) == [hold EXCEPT ![j] = IF hold[j] = "held" THEN how ELSE hold[j]]

-----------------------------------------------------------------------------
(***************************************************************************)
(* The guest.                                                              *)
(***************************************************************************)
guestRest == <<packs, authorized, worker, host, saves>>
Free(g) == guest[g] = Done
Goes(g, pc) == guest' = [guest EXCEPT ![g] = [Done EXCEPT !.pc = pc]]
Ends(g) == guest' = [guest EXCEPT ![g] = Done]
Reads(g) == UNCHANGED <<app, job, hold, submitted, guestRest>>

\* getOrCreateApplication; a row is unique to its member.
Open(g) ==
  /\ Free(g) /\ app.status = "none"
  /\ app' = [app EXCEPT !.status = "DRAFT"]
  /\ UNCHANGED <<job, hold, guest, submitted, guestRest>>

\* confirmCostAndStart finds a withdrawn application; otherwise it writes
\* nothing that is modelled.
BeginReopen(g) ==
  /\ Free(g) /\ app.status = "WITHDRAWN"
  /\ Goes(g, "reopen") /\ Reads(g)

ReopenCountingAnew(g) ==
  /\ guest[g].pc = "reopen" /\ Ends(g)
  /\ app' = [app EXCEPT !.status = "DRAFT", !.prep = "NOT_STARTED", !.facts = NoFacts,
                        !.job = NoJob, !.host = NoOne, !.revision = 0]
  /\ UNCHANGED <<job, hold, submitted, guestRest>>

\* The revision counter is kept.
Reopen(g) ==
  /\ guest[g].pc = "reopen" /\ Ends(g)
  /\ app' = [app EXCEPT !.status = "DRAFT", !.prep = "NOT_STARTED", !.facts = NoFacts,
                        !.job = NoJob, !.host = NoOne]
  /\ UNCHANGED <<job, hold, submitted, guestRest>>

\* An answer in the chat, the summary form and the proposals from a CV all
\* check the status and later set it.
BeginDraft(g) ==
  /\ Free(g) /\ app.status \in {"DRAFT", "AWAITING_CONFIRMATION"}
  /\ Goes(g, "draft") /\ Reads(g)

WriteDraft(g) ==
  /\ guest[g].pc = "draft" /\ Ends(g)
  /\ \E status \in {"DRAFT", "AWAITING_CONFIRMATION"} : app' = [app EXCEPT !.status = status]
  /\ UNCHANGED <<job, hold, submitted, guestRest>>

\* submitApplication: a failed preparation may be submitted anew.
BeginSubmit(g) ==
  /\ Free(g) /\ app.status \notin {"none", "WITHDRAWN"}
  /\ ~(app.status = "SUBMITTED" /\ app.prep \in {"QUEUED", "RUNNING", "READY"})
  /\ app.revision < MaxRevision
  /\ guest' = [guest EXCEPT ![g] = [Done EXCEPT !.pc = "submit", !.revision = app.revision + 1]]
  /\ Reads(g)

\* One transaction writes the application, the job and, unless the member's
\* usage is unlimited, its reservation.
Submit(g, f, j, kind) ==
  LET r == guest[g].revision
  IN  /\ guest[g].pc = "submit" /\ Ends(g)
      /\ Fresh(j)
      /\ app' = [app EXCEPT !.status = "SUBMITTED", !.prep = "QUEUED", !.revision = r,
                            !.facts = f, !.job = j]
      /\ job' = [job EXCEPT ![j] = [NoRow EXCEPT !.status = "QUEUED", !.revision = r]]
      /\ hold' = [hold EXCEPT ![j] = kind]
      /\ submitted' = submitted \cup {<<r, f>>}
      /\ UNCHANGED guestRest

\* With too few credits the transaction is undone, and then ...
SubmitRefused(g) ==
  /\ guest[g].pc = "submit"
  /\ Goes(g, "unsubmit") /\ Reads(g)

Unsubmit(g) ==
  /\ guest[g].pc = "unsubmit" /\ Ends(g)
  /\ app' = [app EXCEPT !.status = "AWAITING_CONFIRMATION", !.prep = "NOT_STARTED", !.job = NoJob]
  /\ UNCHANGED <<job, hold, submitted, guestRest>>

\* startRevisionDraft supersedes a job only while its preparation is under way.
BeginRevise(g) ==
  /\ Free(g) /\ app.status = "SUBMITTED"
  /\ IF app.job # NoJob /\ app.prep \in {"QUEUED", "RUNNING"}
       THEN guest' = [guest EXCEPT ![g] = [Done EXCEPT !.pc = "cancelJob", !.next = "redraft",
                                                       !.job = app.job]]
       ELSE Goes(g, "redraft")
  /\ Reads(g)

\* withdrawApplication; that an episode was published may refuse it.
BeginWithdraw(g) ==
  /\ Free(g) /\ app.status \notin {"none", "WITHDRAWN"}
  /\ IF app.job # NoJob
       THEN guest' = [guest EXCEPT ![g] = [Done EXCEPT !.pc = "cancelJob", !.next = "withdraw",
                                                       !.job = app.job]]
       ELSE Goes(g, "withdraw")
  /\ Reads(g)

CancelJobOnly(g) ==
  LET j == guest[g].job
  IN  /\ guest[g].pc = "cancelJob" /\ Goes(g, guest[g].next)
      /\ job' = IF job[j].status \in {"QUEUED", "RUNNING"}
                  THEN [job EXCEPT ![j].status = "CANCELLED"] ELSE job
      /\ UNCHANGED <<app, hold, submitted, guestRest>>

CancelJob(g) ==
  LET j == guest[g].job
  IN  /\ guest[g].pc = "cancelJob"
      /\ guest' = [guest EXCEPT ![g].pc = "releaseJob"]
      /\ job' = IF job[j].status \in {"QUEUED", "RUNNING"}
                  THEN [job EXCEPT ![j].status = "CANCELLED"] ELSE job
      /\ UNCHANGED <<app, hold, submitted, guestRest>>

ReleaseJob(g) ==
  /\ guest[g].pc = "releaseJob" /\ Goes(g, guest[g].next)
  /\ hold' = Close(guest[g].job, "released")
  /\ UNCHANGED <<app, job, submitted, guestRest>>

\* The last submission and its facts stay.
Redraft(g) ==
  /\ guest[g].pc = "redraft" /\ Ends(g)
  /\ app' = [app EXCEPT !.status = "DRAFT", !.prep = "NOT_STARTED", !.job = NoJob]
  /\ UNCHANGED <<job, hold, submitted, guestRest>>

\* markApplicationWithdrawn
Withdraw(g) ==
  /\ guest[g].pc = "withdraw" /\ Ends(g)
  /\ app' = [app EXCEPT !.status = "WITHDRAWN", !.prep = "CANCELLED", !.host = NoOne]
  /\ UNCHANGED <<job, hold, submitted, guestRest>>

\* retryArayanlarPreparation and the checks of requestJobRetry.
BeginRetry(g) ==
  LET j == app.job
  IN  /\ Free(g) /\ app.status = "SUBMITTED" /\ app.prep = "FAILED" /\ j # NoJob
      /\ job[j].status = "FAILED" /\ ~Exhausted(j) /\ hold[j] \in {"free", "held"}
      /\ guest' = [guest EXCEPT ![g] = [Done EXCEPT !.pc = "requeueJob", !.job = j]]
      /\ Reads(g)

RequeueJob(g) ==
  LET j == guest[g].job
  IN  /\ guest[g].pc = "requeueJob" /\ Goes(g, "requeuePrep")
      /\ job' = [job EXCEPT ![j] = Unleased(job[j], "QUEUED")]
      /\ UNCHANGED <<app, hold, submitted, guestRest>>

RequeuePrep(g) ==
  /\ guest[g].pc = "requeuePrep" /\ Ends(g)
  /\ app' = [app EXCEPT !.prep = "QUEUED"]
  /\ UNCHANGED <<job, hold, submitted, guestRest>>

\* reconcileArayanlarPrepStatusFromJob, on every visit of the guest's page.
BeginReconcile(g) ==
  /\ Free(g) /\ app.status = "SUBMITTED" /\ app.prep \in {"NOT_STARTED", "QUEUED", "RUNNING"}
  /\ app.job # NoJob /\ job[app.job].status = "READY" /\ ~job[app.job].regen
  /\ app.revision > 0 /\ packs[app.revision].brief # NoFacts
  /\ Goes(g, "heal") /\ Reads(g)

Reconcile(g) ==
  /\ guest[g].pc = "heal" /\ Ends(g)
  /\ app' = [app EXCEPT !.prep = "READY"]
  /\ UNCHANGED <<job, hold, submitted, guestRest>>

GuestStep(g) ==
  \/ Open(g) \/ BeginReopen(g) \/ Reopen(g) \/ BeginDraft(g) \/ WriteDraft(g)
  \/ BeginSubmit(g) \/ SubmitRefused(g) \/ Unsubmit(g)
  \/ \E f \in Facts, j \in Jobs, kind \in Usage : Submit(g, f, j, kind)
  \/ BeginRevise(g) \/ BeginWithdraw(g) \/ CancelJob(g) \/ ReleaseJob(g)
  \/ Redraft(g) \/ Withdraw(g)
  \/ BeginRetry(g) \/ RequeueJob(g) \/ RequeuePrep(g)
  \/ BeginReconcile(g) \/ Reconcile(g)

-----------------------------------------------------------------------------
(***************************************************************************)
(* The staff and the hosts.                                                *)
(***************************************************************************)
hostRest == <<hold, worker, guest, submitted>>
HostGoes(h, pc, r) == host' = [host EXCEPT ![h] = [pc |-> pc, revision |-> r]]

\* grantHostAuthorization and revokeHostAuthorization
Authorize(h) ==
  /\ authorized' = IF h \in authorized THEN authorized \ {h} ELSE authorized \cup {h}
  /\ UNCHANGED <<app, packs, job, host, saves, hostRest>>

BeginAssign(h) ==
  /\ host[h] = Away /\ h \in authorized
  /\ app.status \notin {"none", "WITHDRAWN"}
  /\ HostGoes(h, "assign", 0)
  /\ UNCHANGED <<app, packs, job, authorized, saves, hostRest>>

AssignHost(h) ==
  /\ host[h].pc = "assign" /\ HostGoes(h, "idle", 0)
  /\ app' = [app EXCEPT !.host = h]
  /\ UNCHANGED <<packs, job, authorized, saves, hostRest>>

\* canHostAccessApplication
HostMay(h) ==
  /\ app.status \notin {"none", "WITHDRAWN"} /\ app.host = h /\ h \in authorized

BeginSave(h) ==
  /\ host[h] = Away /\ HostMay(h)
  /\ app.revision > 0 /\ packs[app.revision] # NoPack
  /\ HostGoes(h, "save", app.revision)
  /\ UNCHANGED <<app, packs, job, authorized, saves, hostRest>>

\* saveHostPackEdits writes the artifact it found by its id.
SaveEdits(h) ==
  /\ host[h].pc = "save" /\ HostGoes(h, "idle", 0)
  /\ saves < MaxSaves /\ saves' = saves + 1
  /\ packs' = [packs EXCEPT ![host[h].revision].edit = saves + 1]
  /\ UNCHANGED <<app, job, authorized, hostRest>>

\* requestHostPackRegeneration reads the application, ...
BeginRegenerate(h) ==
  /\ host[h] = Away /\ HostMay(h)
  /\ app.prep = "READY" /\ app.facts # NoFacts
  /\ HostGoes(h, "count", app.revision)
  /\ UNCHANGED <<app, packs, job, authorized, saves, hostRest>>

\* ... counts the jobs that are marked, ...
CountRegenerations(h) ==
  /\ host[h].pc = "count"
  /\ IF Cardinality({j \in Jobs : job[j].regen}) < RegenMax
       THEN HostGoes(h, "regenerate", host[h].revision) ELSE HostGoes(h, "idle", 0)
  /\ UNCHANGED <<app, packs, job, authorized, saves, hostRest>>

\* ... and adds one, which costs the guest nothing.
Regenerate(h, j) ==
  /\ host[h].pc = "regenerate" /\ HostGoes(h, "idle", 0)
  /\ Fresh(j)
  /\ job' = [job EXCEPT ![j] = [NoRow EXCEPT !.status = "QUEUED", !.by = "host", !.regen = TRUE,
                                             !.revision = host[h].revision]]
  /\ hold' = [hold EXCEPT ![j] = "free"]
  /\ UNCHANGED <<app, packs, authorized, worker, guest, submitted, saves>>

HostStep(h) ==
  \/ Authorize(h) \/ BeginAssign(h) \/ AssignHost(h) \/ BeginSave(h) \/ SaveEdits(h)
  \/ BeginRegenerate(h) \/ CountRegenerations(h) \/ \E j \in Jobs : Regenerate(h, j)

-----------------------------------------------------------------------------
(***************************************************************************)
(* A worker.                                                               *)
(***************************************************************************)
workerRest == <<authorized, guest, host, submitted, saves>>
At(w, pc) == worker[w].pc = pc
Moves(w, pc) == worker' = [worker EXCEPT ![w].pc = pc]
Leaves(w) == worker' = [worker EXCEPT ![w] = AtRest]
Decides(w) == UNCHANGED <<app, packs, job, hold, workerRest>>
\* Nobody but a release reads the reservation of a job out of attempts, so the
\* release that follows its failure is part of the step.
FailedHold(j) == IF Exhausted(j) THEN Close(j, "released") ELSE hold

Claimable(j) == \/ job[j].status = "QUEUED"
                \/ job[j].status = "RUNNING" /\ job[j].lapsed
Oldest(j) == Claimable(j) /\ \A i \in Jobs : i < j => ~Claimable(i)

\* claimNextJob, as in AiJobs; a job without attempts left fails, and the
\* application is not told.
Claim(w) ==
  /\ At(w, "idle")
  /\ \E j \in Jobs :
       /\ Oldest(j)
       /\ IF Exhausted(j)
            THEN /\ job' = [job EXCEPT ![j] = Unleased(job[j], "FAILED")]
                 /\ hold' = Close(j, "released")
                 /\ UNCHANGED worker
            ELSE /\ job' = [job EXCEPT ![j].status = "RUNNING", ![j].owner = w, ![j].lapsed = FALSE,
                                       ![j].attempts = job[j].attempts + 1]
                 /\ worker' = [worker EXCEPT ![w] = [AtRest EXCEPT !.pc = "start", !.job = j]]
                 /\ UNCHANGED hold
  /\ UNCHANGED <<app, packs, workerRest>>

\* What a run works on: a host's job takes the submission of the moment, a
\* guest's job its own, which must still be the application's.
Works(w, regen) ==
  worker' = [worker EXCEPT ![w] =
    [pc |-> "running", job |-> worker[w].job, regen |-> regen, revision |-> app.revision,
     facts |-> app.facts, prep |-> IF regen THEN app.prep ELSE "RUNNING", edit |-> 0]]

\* The job and then the application are read and the run is set up.
Start(w) ==
  LET j == worker[w].job
      mismatch == ~job[j].regen /\ app.revision # job[j].revision
  IN  /\ At(w, "start")
      /\ \/ job[j].owner # w /\ Leaves(w)
         \/ job[j].owner = w /\ job[j].status = "CANCELLED" /\ Moves(w, "release")
         \/ /\ job[j].owner = w /\ job[j].status # "CANCELLED"
            /\ \/ app.status = "WITHDRAWN" /\ Moves(w, "cancel")
               \/ app.status # "WITHDRAWN" /\ mismatch /\ Moves(w, "fail")
               \/ /\ app.status # "WITHDRAWN" /\ ~mismatch /\ app.facts = NoFacts
                  /\ Moves(w, "failMissing")
               \/ /\ app.status # "WITHDRAWN" /\ ~mismatch /\ app.facts # NoFacts
                  /\ Works(w, job[j].regen)
      /\ Decides(w)

\* Withdrawn before the run: the job is cancelled, its reservation released.
CancelWithdrawn(w) ==
  LET j == worker[w].job
  IN  /\ At(w, "cancel") /\ Moves(w, "release")
      /\ job' = [job EXCEPT ![j] = Unleased(job[j], "CANCELLED")]
      /\ UNCHANGED <<app, packs, hold, workerRest>>

\* The preparation is marked RUNNING, or for a regeneration with the status it
\* had when it was read.
MarkRunning(w) ==
  /\ At(w, "running")
  /\ app' = [app EXCEPT !.prep = worker[w].prep]
  /\ worker' = [worker EXCEPT ![w].pc = "lease", ![w].prep = "NOT_STARTED"]
  /\ UNCHANGED <<packs, job, hold, workerRest>>

\* The lease is refreshed if it is still the worker's; the provider is called.
CallProvider(w) ==
  LET j == worker[w].job
  IN  /\ At(w, "lease") /\ Moves(w, "provider")
      /\ job' = IF job[j].owner = w /\ job[j].status = "RUNNING"
                  THEN [job EXCEPT ![j].lapsed = FALSE] ELSE job
      /\ UNCHANGED <<app, packs, hold, workerRest>>

\* The provider answers; job and application are read again.
Answer(w) ==
  LET j == worker[w].job
      late == job[j].status = "CANCELLED" \/ app.status = "WITHDRAWN"
  IN  /\ At(w, "provider")
      /\ \/ late /\ Moves(w, "release")
         \/ ~late /\ job[j].owner # w /\ Leaves(w)
         \/ /\ ~late /\ job[j].owner = w
            /\ \/ Moves(w, "check")                    \* a valid answer
               \/ Moves(w, "fail")                     \* none to be had, or an invalid one
               \/ ~Exhausted(j) /\ Moves(w, "requeue") \* none this time
      /\ Decides(w)

Requeue(w) ==
  LET j == worker[w].job
  IN  /\ At(w, "requeue")
      /\ job' = [job EXCEPT ![j] = Outcome(job[j], "QUEUED")]
      /\ IF worker[w].regen THEN Leaves(w) ELSE Moves(w, "prepQueued")
      /\ UNCHANGED <<app, packs, hold, workerRest>>

FailCharging(w) ==
  LET j == worker[w].job
  IN  /\ At(w, "fail") \/ At(w, "failMissing")
      /\ job' = [job EXCEPT ![j] = Outcome(job[j], "FAILED")]
      /\ hold' = IF Exhausted(j) THEN Close(j, "settled") ELSE hold
      /\ IF At(w, "failMissing") \/ worker[w].regen THEN Leaves(w) ELSE Moves(w, "prepFailed")
      /\ UNCHANGED <<app, packs, workerRest>>

\* failArayanlarJob; without facts the application is not told.
Fail(w) ==
  LET j == worker[w].job
  IN  /\ At(w, "fail") \/ At(w, "failMissing")
      /\ job' = [job EXCEPT ![j] = Outcome(job[j], "FAILED")]
      /\ hold' = FailedHold(j)
      /\ IF At(w, "failMissing") \/ worker[w].regen THEN Leaves(w) ELSE Moves(w, "prepFailed")
      /\ UNCHANGED <<app, packs, workerRest>>

TellApplication(w) ==
  /\ At(w, "prepQueued") \/ At(w, "prepFailed")
  /\ app' = [app EXCEPT !.prep = IF At(w, "prepQueued") THEN "QUEUED" ELSE "FAILED"]
  /\ Leaves(w)
  /\ UNCHANGED <<packs, job, hold, workerRest>>

\* The transaction reads the application and the host's edits, ...
Check(w) ==
  LET r == worker[w].revision
  IN  /\ At(w, "check")
      /\ IF app.status = "WITHDRAWN" \/ (~worker[w].regen /\ app.revision # r)
           THEN Moves(w, "fail")
           ELSE worker' = [worker EXCEPT ![w].pc = "commit", ![w].edit = packs[r].edit]
      /\ Decides(w)

CommitWritingNullBack(w) ==
  LET r == worker[w].revision
      j == worker[w].job
  IN  /\ At(w, "commit")
      /\ packs' = [packs EXCEPT ![r] = [brief |-> worker[w].facts, notes |-> worker[w].facts,
                                        edit |-> worker[w].edit]]
      /\ job' = [job EXCEPT ![j] = Outcome(job[j], "READY")]
      /\ app' = IF worker[w].regen THEN app ELSE [app EXCEPT !.prep = "READY"]
      /\ IF hold[j] = "free" THEN Leaves(w) ELSE Moves(w, "settle")
      /\ UNCHANGED <<hold, workerRest>>

CommitUnderPresentRevision(w) ==
  LET j == worker[w].job
      f == worker[w].facts
  IN  /\ At(w, "commit")
      /\ packs' = [packs EXCEPT ![app.revision].brief = f, ![app.revision].notes = f]
      /\ job' = [job EXCEPT ![j] = Outcome(job[j], "READY")]
      /\ app' = IF worker[w].regen THEN app ELSE [app EXCEPT !.prep = "READY"]
      /\ IF hold[j] = "free" THEN Leaves(w) ELSE Moves(w, "settle")
      /\ UNCHANGED <<hold, workerRest>>

\* ... then writes both artifacts, the job and the preparation status, or fails
\* and the job fails.  A regeneration keeps the guest's brief; the host's edits
\* are written back if there were any.
Commit(w) ==
  LET r == worker[w].revision
      j == worker[w].job
      f == worker[w].facts
      old == packs[r]
  IN  /\ At(w, "commit")
      /\ packs' = [packs EXCEPT ![r] =
           [brief |-> IF worker[w].regen /\ old.brief # NoFacts THEN old.brief ELSE f,
            notes |-> f,
            edit |-> IF worker[w].edit # 0 THEN worker[w].edit ELSE old.edit]]
      /\ job' = [job EXCEPT ![j] = Outcome(job[j], "READY")]
      /\ app' = IF worker[w].regen THEN app ELSE [app EXCEPT !.prep = "READY"]
      /\ IF hold[j] = "free" THEN Leaves(w) ELSE Moves(w, "settle")
      /\ UNCHANGED <<hold, workerRest>>

CommitFails(w) == At(w, "commit") /\ Moves(w, "fail") /\ Decides(w)

CloseReservation(w) ==
  /\ At(w, "settle") \/ At(w, "release")
  /\ hold' = Close(worker[w].job, IF At(w, "settle") THEN "settled" ELSE "released")
  /\ Leaves(w)
  /\ UNCHANGED <<app, packs, job, workerRest>>

WorkerStep(w) ==
  \/ Claim(w) \/ Start(w) \/ CancelWithdrawn(w) \/ MarkRunning(w) \/ CallProvider(w) \/ Answer(w)
  \/ Requeue(w) \/ Fail(w) \/ TellApplication(w)
  \/ Check(w) \/ Commit(w) \/ CommitFails(w) \/ CloseReservation(w)

\* The heartbeat of a stalled or cut-off worker stops.
LeaseLapses(j) ==
  /\ job[j].status = "RUNNING" /\ ~job[j].lapsed
  /\ job' = [job EXCEPT ![j].lapsed = TRUE]
  /\ UNCHANGED <<app, packs, hold, worker, workerRest>>

Next ==
  \/ \E g \in Guests : GuestStep(g)
  \/ \E h \in Hosts : HostStep(h)
  \/ \E w \in Workers : WorkerStep(w)
  \/ \E j \in Jobs : LeaseLapses(j)

Spec == Init /\ [][Next]_vars

-----------------------------------------------------------------------------
(***************************************************************************)
(* Correctness.                                                            *)
(***************************************************************************)
TypeOK ==
  /\ app \in Application
  /\ packs \in [Revisions -> Pack]
  /\ job \in [Jobs -> Row]
  /\ hold \in [Jobs -> {"none", "free", "held", "settled", "released"}]
  /\ authorized \subseteq Hosts
  /\ worker \in [Workers -> WorkerState]
  /\ guest \in [Guests -> GuestState]
  /\ host \in [Hosts -> HostState]
  /\ submitted \subseteq Revisions \X Facts
  /\ saves \in 0..MaxSaves

\* docs/arayanlar.md: artifacts are "bound to submittedRevision".  Whatever
\* revisions, withdrawals and late workers do, an artifact of a submission was
\* generated from facts confirmed in that submission.
PacksMatchTheirRevision ==
  \A r \in Revisions :
    /\ packs[r].brief # NoFacts => <<r, packs[r].brief>> \in submitted
    /\ packs[r].notes # NoFacts => <<r, packs[r].notes>> \in submitted

\* The pack a host may open is about the facts the guest confirmed last (a
\* guest with one request at a time).
HostReadsWhatWasSubmitted ==
  app.prep = "READY" /\ app.status # "WITHDRAWN" /\ app.facts # NoFacts
    => packs[app.revision].notes \in {app.facts, NoFacts}

\* "Atomic completion: both artifacts must validate before prep is READY and
\* guest credits settle": a member pays only for a submission that has both.
ChargedForBothArtifacts ==
  \A j \in Jobs : hold[j] = "settled" =>
    NoFacts \notin {packs[job[j].revision].brief, packs[job[j].revision].notes}

\* A reservation is held only for a job that is under way or may be retried,
\* or that somebody is about to close: the races of withdrawals, revisions and
\* workers do not strand a credit on a job that is over.
AboutToClose(j) ==
  \/ \E w \in Workers : worker[w].job = j /\ worker[w].pc # "idle"
  \/ \E g \in Guests : guest[g].job = j /\ guest[g].pc \in {"cancelJob", "releaseJob"}
NoStrandedCredit ==
  \A j \in Jobs : hold[j] = "held" =>
    \/ job[j].status \in {"QUEUED", "RUNNING"}
    \/ job[j].status = "FAILED" /\ ~Exhausted(j)
    \/ AboutToClose(j)

\* A pack a host has edited is never without edits again, whatever is generated
\* anew and however that overlaps with saving: a generation that found no edits
\* writes none over the ones saved since.
EditedStaysEdited ==
  [][\A r \in Revisions : packs[r].edit # 0 => packs'[r].edit # 0]_vars

\* "Preserve host edits on regeneration", said of every save: edits change only
\* to what a host has just saved.
EditsPreserved ==
  [][\A r \in Revisions :
       packs'[r].edit # packs[r].edit => saves' = saves + 1 /\ packs'[r].edit = saves']_vars

\* "Late worker results ignored": nothing is generated for a guest who has
\* withdrawn.
LateResultsIgnored ==
  [][app.status = "WITHDRAWN" /\ saves' = saves => UNCHANGED packs]_vars

\* constants.ts: "Platform-borne host pack regenerations per submitted
\* revision": never more than the limit within the window.
RegenerationsLimited ==
  \A r \in Revisions : Cardinality({j \in Jobs : job[j].by = "host" /\ job[j].revision = r}) <= RegenMax

\* "Withdrawal cancels in-flight jobs, releases reservations": once the guest
\* has withdrawn, and nobody is at work, no reservation is held.
AllIdle ==
  /\ \A w \in Workers : worker[w] = AtRest
  /\ \A g \in Guests : Free(g)
  /\ \A j \in Jobs : job[j].status \notin {"QUEUED", "RUNNING"}
WithdrawalReleases ==
  app.status = "WITHDRAWN" /\ AllIdle => \A j \in Jobs : hold[j] # "held"

=============================================================================
