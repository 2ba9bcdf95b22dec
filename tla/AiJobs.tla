------------------------------- MODULE AiJobs -------------------------------
(***************************************************************************)
(* The queue of CV-preparation jobs (src/lib/ai/jobs.ts), worked off by    *)
(* the worker processes of scripts/ai-worker.ts and cancelled or retried   *)
(* by requests of the member, over the member's credit ledger.             *)
(*                                                                         *)
(* Every statement the code sends to the database is a step of its own     *)
(* unless a transaction with a row lock makes several of them one: between *)
(* the read a handler decides by and the write it then makes, any other    *)
(* process may run.  A worker takes a lease on a job; a lease lapses when  *)
(* time passes, whether its worker is dead or merely slow.                 *)
(***************************************************************************)
EXTENDS CreditLedger

CONSTANTS
  Workers,      \* worker processes, each with a WORKER_ID of its own
  Requests,     \* concurrent cancel and retry requests of the member
  ProfileLot,   \* the lot of the sponsored profile-preparation grant
  MaxAttempts,  \* AiJob.maxAttempts
  NoWorker,     \* leaseOwner = null
  MaxDeaths     \* bound of the model: processes that die mid-way

ASSUME JobsAssumption ==
  /\ Jobs \subseteq Nat            \* a job's number is its place in createdAt order
  /\ Callers = Workers \cup Requests
  /\ Workers \cap Requests = {}
  /\ NoWorker \notin Workers
  /\ ProfileLot \in Lots
  /\ MaxAttempts \in Nat \ {0}
  /\ MaxDeaths \in Nat

VARIABLES
  job,          \* job[j]: the AiJob row
  results,      \* jobs whose suggestions have been stored (resultJson)
  worker,       \* worker[w]: where worker w is, and on which claim
  request,      \* request[r]: where request r is, and on which job
  spent,        \* history: claims, as <<job, attempt>>, that called the provider
  deaths        \* history: processes that died mid-way

jobVars == <<job, results, worker, request, spent, deaths>>
vars == <<ledgerVars, jobVars>>

Statuses == {"none", "QUEUED", "RUNNING", "READY", "FAILED", "CANCELLED"}

Row == [status : Statuses, owner : Workers \cup {NoWorker}, lapsed : BOOLEAN,
        attempts : 0..MaxAttempts, cost : Costs \cup {0}]

WorkerState == [pc : {"idle", "start", "refresh", "provider", "ready", "requeue", "fail"},
                job : Jobs \cup {NoJob}, attempt : 0..MaxAttempts]

RequestState == [pc : {"idle", "cancel", "checkReleased", "requeue"},
                 job : Jobs \cup {NoJob}]

AtRest == [pc |-> "idle", job |-> NoJob, attempt |-> 0]
Done == [pc |-> "idle", job |-> NoJob]

Init ==
  /\ LedgerInit
  /\ job = [j \in Jobs |-> [status |-> "none", owner |-> NoWorker, lapsed |-> FALSE,
                            attempts |-> 0, cost |-> 0]]
  /\ results = {}
  /\ worker = [w \in Workers |-> AtRest]
  /\ request = [r \in Requests |-> Done]
  /\ spent = {}
  /\ deaths = 0

Exhausted(j) == job[j].attempts >= MaxAttempts

\* A job row that is given a new status and loses its lease.
Unleased(j, status) ==
  [job EXCEPT ![j] = [@ EXCEPT !.status = status, !.owner = NoWorker, !.lapsed = FALSE]]

-----------------------------------------------------------------------------
(***************************************************************************)
(* The member starts a preparation.                                        *)
(***************************************************************************)
\* The sponsored grant of a quote or of a start, in its own transaction.
Grant(l) == EnsureSponsoredGrant(l) /\ UNCHANGED jobVars

\* The job and its reservation are created together or, with too few credits,
\* not at all; a member with unlimited usage gets a job that costs nothing.
CreateJob(j, cost) ==
  /\ job[j].status = "none"
  /\ \A i \in Jobs : i < j => job[i].status # "none"
  /\ job' = [job EXCEPT ![j] = [@ EXCEPT !.status = "QUEUED", !.cost = cost]]
  /\ IF cost = 0 THEN UNCHANGED ledgerVars
                 ELSE ProfileLot \in Granted /\ Reserve(j, cost)
  /\ UNCHANGED <<results, worker, request, spent, deaths>>

-----------------------------------------------------------------------------
(***************************************************************************)
(* A worker.                                                               *)
(***************************************************************************)
AtPc(w, pc) == worker[w].pc = pc /\ call[w] = NoCall
Moves(w, pc) == worker' = [worker EXCEPT ![w].pc = pc]
Leaves(w) == worker' = [worker EXCEPT ![w] = AtRest]
Calls(p, op, j) == BeginCall(p, op, j)

ClaimableOnlyQueued(j) == job[j].status = "QUEUED"
Claimable(j) == \/ job[j].status = "QUEUED"
                \/ job[j].status = "RUNNING" /\ job[j].lapsed
Oldest(j) == Claimable(j) /\ \A i \in Jobs : i < j => ~Claimable(i)

\* claimNextJob, in one transaction on the locked row: the oldest queued job,
\* or running job whose lease lapsed, gets a new lease and spends an attempt.
Claim(w) ==
  /\ AtPc(w, "idle")
  /\ \E j \in Jobs :
       /\ Oldest(j) /\ ~Exhausted(j)
       /\ job' = [job EXCEPT ![j] = [@ EXCEPT !.status = "RUNNING", !.owner = w,
                                     !.lapsed = FALSE, !.attempts = job[j].attempts + 1]]
       /\ worker' = [worker EXCEPT ![w] =
                       [pc |-> "start", job |-> j, attempt |-> job[j].attempts + 1]]
  /\ UNCHANGED <<ledgerVars, results, request, spent, deaths>>

\* A job without attempts left is failed instead; the release follows the
\* transaction.
ClaimExhausted(w) ==
  /\ AtPc(w, "idle")
  /\ \E j \in Jobs :
       /\ Oldest(j) /\ Exhausted(j)
       /\ job' = Unleased(j, "FAILED")
       /\ Calls(w, "release", j)
  /\ UNCHANGED <<results, worker, request, spent, deaths>>

\* The checks of processClaimedJob and processProfilePrepareJob: the lease must
\* still be ours, a cancelled job is released, and without profile or input
\* file, which the environment decides, the job fails.
Start(w) ==
  LET j == worker[w].job
  IN  /\ AtPc(w, "start")
      /\ \/ /\ job[j].owner # w
            /\ Leaves(w) /\ UNCHANGED call
         \/ /\ job[j].owner = w /\ job[j].status = "CANCELLED"
            /\ Leaves(w) /\ call' = [call EXCEPT ![w] = Begin("release", j)]
         \/ /\ job[j].owner = w /\ job[j].status # "CANCELLED"
            /\ Moves(w, "refresh") \/ Moves(w, "fail")
            /\ UNCHANGED call
      /\ UNCHANGED <<lotOrder, remaining, reserved, ledger, job, results, request, spent, deaths>>

\* The lease is refreshed if it is still ours, and the provider is called.
CallProvider(w) ==
  LET j == worker[w].job
  IN  /\ AtPc(w, "refresh")
      /\ job' = IF job[j].owner = w /\ job[j].status = "RUNNING"
                  THEN [job EXCEPT ![j].lapsed = FALSE] ELSE job
      /\ spent' = spent \cup {<<j, worker[w].attempt>>}
      /\ Moves(w, "provider")
      /\ UNCHANGED <<ledgerVars, results, request, deaths>>

AnswerIgnoringCancel(w) ==
  LET j == worker[w].job
  IN  /\ AtPc(w, "provider")
      /\ IF job[j].owner # w THEN Leaves(w)
           ELSE Moves(w, "ready") \/ Moves(w, "fail") \/ (~Exhausted(j) /\ Moves(w, "requeue"))
      /\ UNCHANGED <<ledgerVars, job, results, request, spent, deaths>>

\* The provider answers and the worker re-reads the job: cancelled meanwhile,
\* lease lost, or it decides what to write.
Answer(w) ==
  LET j == worker[w].job
  IN  /\ AtPc(w, "provider")
      /\ \/ /\ job[j].status = "CANCELLED"
            /\ Leaves(w) /\ call' = [call EXCEPT ![w] = Begin("release", j)]
         \/ /\ job[j].status # "CANCELLED" /\ job[j].owner # w
            /\ Leaves(w) /\ UNCHANGED call
         \/ /\ job[j].status # "CANCELLED" /\ job[j].owner = w
            /\ \/ Moves(w, "ready")
               \/ ~Exhausted(j) /\ Moves(w, "requeue")
               \/ Moves(w, "fail")   \* attempts exhausted, or provider_unavailable
            /\ UNCHANGED call
      /\ UNCHANGED <<lotOrder, remaining, reserved, ledger, job, results, request, spent, deaths>>

\* The writes that follow are by job id alone: whatever became of the job since
\* the re-read, it is overwritten.
WriteReady(w) ==
  LET j == worker[w].job
  IN  /\ AtPc(w, "ready")
      /\ job' = Unleased(j, "READY")
      /\ results' = results \cup {j}
      /\ Leaves(w)
      /\ Calls(w, "settle", j)
      /\ UNCHANGED <<request, spent, deaths>>

WriteRequeue(w) ==
  /\ AtPc(w, "requeue")
  /\ job' = Unleased(worker[w].job, "QUEUED")
  /\ Leaves(w)
  /\ UNCHANGED <<ledgerVars, results, request, spent, deaths>>

WriteFailedCharging(w) ==
  LET j == worker[w].job
  IN  /\ AtPc(w, "fail")
      /\ job' = Unleased(j, "FAILED")
      /\ Leaves(w)
      /\ IF job[j].cost > 0 /\ Exhausted(j)
           THEN Calls(w, "settle", j) ELSE UNCHANGED ledgerVars
      /\ UNCHANGED <<results, request, spent, deaths>>

\* failJob keeps the reservation of a job that may be retried.
WriteFailed(w) ==
  LET j == worker[w].job
  IN  /\ AtPc(w, "fail")
      /\ job' = Unleased(j, "FAILED")
      /\ Leaves(w)
      /\ IF job[j].cost > 0 /\ Exhausted(j)
           THEN Calls(w, "release", j) ELSE UNCHANGED ledgerVars
      /\ UNCHANGED <<results, request, spent, deaths>>

-----------------------------------------------------------------------------
(***************************************************************************)
(* Requests of the member.                                                 *)
(***************************************************************************)
Free(r) == request[r] = Done /\ call[r] = NoCall
Goes(r, pc, j) == request' = [request EXCEPT ![r] = [pc |-> pc, job |-> j]]

\* cancelOwnedJob reads the job.  READY and CANCELLED return at once; a FAILED
\* job is only released.
BeginCancel(r, j) ==
  /\ Free(r)
  /\ \/ /\ job[j].status \in {"QUEUED", "RUNNING"}
        /\ Goes(r, "cancel", j) /\ UNCHANGED ledgerVars
     \/ /\ job[j].status = "FAILED"
        /\ Calls(r, "release", j) /\ UNCHANGED request
  /\ UNCHANGED <<job, results, worker, spent, deaths>>

CancelWriteRefunding(r) ==
  LET j == request[r].job
  IN  /\ request[r].pc = "cancel"
      /\ request' = [request EXCEPT ![r] = Done]
      /\ IF job[j].status \in {"QUEUED", "RUNNING"} /\ Held(j)
           THEN /\ job' = [job EXCEPT ![j].status = "CANCELLED"]
                /\ reserved' = [reserved EXCEPT ![Reservation(j).lot] = @ - job[j].cost]
           ELSE UNCHANGED <<job, reserved>>
      /\ UNCHANGED <<lotOrder, remaining, ledger, call, results, worker, spent, deaths>>

CancelWriteOnly(r) ==
  LET j == request[r].job
  IN  /\ request[r].pc = "cancel"
      /\ request' = [request EXCEPT ![r] = Done]
      /\ job' = IF job[j].status \in {"QUEUED", "RUNNING"}
                  THEN [job EXCEPT ![j].status = "CANCELLED"] ELSE job
      /\ UNCHANGED <<ledgerVars, results, worker, spent, deaths>>

\* The guarded update: it leaves the lease owner in place, and only a job it
\* really cancelled is released.
CancelWrite(r) ==
  LET j == request[r].job
  IN  /\ request[r].pc = "cancel"
      /\ request' = [request EXCEPT ![r] = Done]
      /\ IF job[j].status \in {"QUEUED", "RUNNING"}
           THEN job' = [job EXCEPT ![j].status = "CANCELLED"] /\ Calls(r, "release", j)
           ELSE UNCHANGED <<job, ledgerVars>>
      /\ UNCHANGED <<results, worker, spent, deaths>>

\* requestJobRetry reads the job, its RESERVE and its SETTLE entry, ...
BeginRetry(r, j) ==
  /\ Free(r)
  /\ job[j].status = "FAILED" /\ ~Exhausted(j)
  /\ ~HasEntry("SETTLE", j)
  /\ job[j].cost > 0 => HasEntry("RESERVE", j)
  /\ Goes(r, "checkReleased", j)
  /\ UNCHANGED <<ledgerVars, job, results, worker, spent, deaths>>

\* ... then its RELEASE entry, ...
CheckReleased(r) ==
  LET j == request[r].job
  IN  /\ request[r].pc = "checkReleased"
      /\ IF job[j].cost > 0 /\ HasEntry("RELEASE", j)
           THEN request' = [request EXCEPT ![r] = Done]
           ELSE Goes(r, "requeue", j)
      /\ UNCHANGED <<ledgerVars, job, results, worker, spent, deaths>>

RetryWriteAnew(r) ==
  /\ request[r].pc = "requeue"
  /\ job' = [Unleased(request[r].job, "QUEUED") EXCEPT ![request[r].job].attempts = 0]
  /\ request' = [request EXCEPT ![r] = Done]
  /\ UNCHANGED <<ledgerVars, results, worker, spent, deaths>>

\* ... and queues the job again, by its id alone and with its attempts.
RetryWrite(r) ==
  /\ request[r].pc = "requeue"
  /\ job' = Unleased(request[r].job, "QUEUED")
  /\ request' = [request EXCEPT ![r] = Done]
  /\ UNCHANGED <<ledgerVars, results, worker, spent, deaths>>

-----------------------------------------------------------------------------
(***************************************************************************)
(* Time, failures, and the whole.                                          *)
(***************************************************************************)
LeaseLapses(j) ==
  /\ job[j].status = "RUNNING" /\ ~job[j].lapsed
  /\ job' = [job EXCEPT ![j].lapsed = TRUE]
  /\ UNCHANGED <<ledgerVars, results, worker, request, spent, deaths>>

\* A worker or web process is killed, or a statement of it throws: what it was
\* about to do is forgotten, what it committed stays.
WorkerDies(w) ==
  /\ worker[w] # AtRest \/ call[w] # NoCall
  /\ deaths < MaxDeaths /\ deaths' = deaths + 1
  /\ Leaves(w)
  /\ call' = [call EXCEPT ![w] = NoCall]
  /\ UNCHANGED <<lotOrder, remaining, reserved, ledger, job, results, request, spent>>

RequestDies(r) ==
  /\ ~Free(r)
  /\ deaths < MaxDeaths /\ deaths' = deaths + 1
  /\ request' = [request EXCEPT ![r] = Done]
  /\ call' = [call EXCEPT ![r] = NoCall]
  /\ UNCHANGED <<lotOrder, remaining, reserved, ledger, job, results, worker, spent>>

\* A call into the ledger goes on.
LedgerStep(c) == CallStep(c) /\ UNCHANGED jobVars

WorkerStep(w) ==
  \/ Claim(w) \/ ClaimExhausted(w) \/ Start(w) \/ CallProvider(w) \/ Answer(w)
  \/ WriteReady(w) \/ WriteRequeue(w) \/ WriteFailed(w) \/ LedgerStep(w)

RequestStep(r) ==
  CancelWrite(r) \/ CheckReleased(r) \/ RetryWrite(r) \/ LedgerStep(r)

Next ==
  \/ \E l \in Lots : Grant(l)
  \/ \E j \in Jobs, cost \in Costs \cup {0} : CreateJob(j, cost)
  \/ \E w \in Workers : WorkerStep(w) \/ WorkerDies(w)
  \/ \E r \in Requests : RequestStep(r) \/ RequestDies(r)
  \/ \E r \in Requests, j \in Jobs : BeginCancel(r, j) \/ BeginRetry(r, j)
  \/ \E j \in Jobs : LeaseLapses(j)

Spec == Init /\ [][Next]_vars

\* Workers poll for ever, a request that has begun runs to its end, and time
\* passes; nothing makes the member ask for anything.
Fairness ==
  /\ \A w \in Workers : WF_vars(WorkerStep(w))
  /\ \A r \in Requests : WF_vars(RequestStep(r))
  /\ \A j \in Jobs : WF_vars(LeaseLapses(j))

FairSpec == Spec /\ Fairness

-----------------------------------------------------------------------------
(***************************************************************************)
(* Correctness.                                                            *)
(***************************************************************************)
TypeOK ==
  /\ LedgerTypeOK
  /\ job \in [Jobs -> Row]
  /\ results \subseteq Jobs
  /\ worker \in [Workers -> WorkerState]
  /\ request \in [Requests -> RequestState]
  /\ spent \subseteq Jobs \X (1..MaxAttempts)
  /\ deaths \in 0..MaxDeaths

\* The provider, which costs money, is called at most once for each attempt of
\* a job, across lapsed leases, second workers, retries and restarts: a worker
\* about to call it holds an attempt on which nobody has called.  With the
\* attempts bounded, so are the calls.
AttemptSpentOnce ==
  \A w \in Workers : worker[w].pc \in {"start", "refresh"} =>
    /\ <<worker[w].job, worker[w].attempt>> \notin spent
    /\ \A v \in Workers \ {w} :
         worker[v].job = worker[w].job => worker[v].attempt # worker[w].attempt

\* A member pays only for suggestions that were stored: no interleaving settles
\* a job that produced nothing.
ChargedOnlyForResult ==
  \A j \in Jobs : HasEntry("SETTLE", j) => j \in results

\* Writes decided before the present state and still to come.
PendingWrite(j) ==
  \/ \E w \in Workers : worker[w].job = j /\ worker[w].pc \in {"ready", "requeue", "fail"}
  \/ \E r \in Requests : request[r].job = j /\ request[r].pc \in {"checkReleased", "requeue"}

\* "Late response after cancel: do not publish results or settle as success."
\* A cancelled job stays cancelled, and nobody even decides to write to it,
\* unless a worker or a retry had decided before the cancel.
CancelSticks ==
  [][\A j \in Jobs :
       job[j].status = "CANCELLED" /\ ~PendingWrite(j)
         => job'[j].status = "CANCELLED" /\ ~PendingWrite(j)']_vars

\* Whatever workers and requests do, a job comes to rest for good: lapsed
\* leases are reclaimed, and automatic and manual retries share one budget.
JobsComeToRest ==
  \A j \in Jobs : <>[](job[j].status \notin {"QUEUED", "RUNNING"})

\* A job that is over frees or settles what it reserved, unless a process died.
Over(j) == \/ job[j].status \in {"READY", "CANCELLED"}
           \/ job[j].status = "FAILED" /\ Exhausted(j)
ReservationCloses ==
  \A j \in Jobs : Over(j) /\ HasEntry("RESERVE", j) ~> Closed(j) \/ deaths > 0

\* docs/credits.md: "Success settles once."
SuccessSettles ==
  \A j \in Jobs : job[j].status = "READY" /\ HasEntry("RESERVE", j) ~> Closed(j)

=============================================================================
