-------------------------- MODULE ArayanlarProofs --------------------------
(***************************************************************************)
(* What ArayanlarPrep keeps for every number of guests, hosts, workers,    *)
(* jobs and submissions: its types, that artifacts belong to their         *)
(* submission, that only a stored pair is charged, that edits of a pack    *)
(* are never lost to null, that a host reads what was submitted, and that  *)
(* no held credit is left on a job that is over; and                       *)
(* what GuestPage keeps: its types and the budget of the interview.  The   *)
(* two specifications share no name, so that one module is about both.     *)
(***************************************************************************)
EXTENDS ArayanlarPrep, GuestPage, TLAPS, WellFoundedInduction

Publishing == {"running", "lease", "provider", "check", "commit"}

\* Who is in the middle of something is so on a job or a submission there is.
Placed ==
  /\ \A w \in Workers : worker[w].pc # "idle" =>
       worker[w].job \in Jobs /\ job[worker[w].job].status # "none"
  /\ \A g \in Guests :
       /\ guest[g].pc \in {"cancelJob", "releaseJob", "requeueJob"} =>
            guest[g].job \in Jobs /\ job[guest[g].job].status # "none"
       /\ guest[g].pc = "submit" => guest[g].revision \in Revisions
  /\ \A h \in Hosts : host[h].pc \in {"save", "count", "regenerate"} => host[h].revision \in Revisions
  /\ app.job # NoJob => job[app.job].status # "none"

\* Only a job that exists has a reservation, it is for a submission, and a
\* regeneration costs nothing.
Reserved ==
  \A j \in Jobs : /\ job[j].status = "none" => hold[j] = "none"
                  /\ job[j].status # "none" => job[j].revision \in Revisions
                  /\ job[j].regen => hold[j] = "free"

\* The facts of the application, and of every run, are of its submission.
FactsBelong ==
  /\ app.facts # NoFacts => <<app.revision, app.facts>> \in submitted
  /\ \A w \in Workers : worker[w].pc \in Publishing =>
       <<worker[w].revision, worker[w].facts>> \in submitted

\* A run that will be charged is on its job's own submission.
ChargedRuns ==
  \A w \in Workers :
    /\ worker[w].pc \in Publishing /\ hold[worker[w].job] # "free" =>
         worker[w].revision = job[worker[w].job].revision
    /\ worker[w].pc = "settle" =>
         NoFacts \notin {packs[job[worker[w].job].revision].brief,
                         packs[job[worker[w].job].revision].notes}

Inv == /\ TypeOK /\ Placed /\ Reserved /\ FactsBelong /\ ChargedRuns
       /\ PacksMatchTheirRevision /\ ChargedForBothArtifacts

-----------------------------------------------------------------------------
(***************************************************************************)
(* Members of the record types.                                            *)
(***************************************************************************)
LEMMA Constants ==
  /\ MaxAttempts \in Nat /\ MaxRevision \in Nat \ {0} /\ NoJob \notin Jobs
  /\ 0 \in 0..MaxRevision /\ 0 \in 0..MaxSaves /\ 0 \in 0..MaxAttempts
  /\ Revisions \subseteq 0..MaxRevision /\ 0 \notin Revisions
<1>1. MaxAttempts \in Nat /\ MaxRevision \in Nat \ {0} /\ MaxSaves \in Nat
  BY PrepAssumption DEF MaxAttempts
<1>2. NoJob \notin Jobs
  BY PrepAssumption
<1>3. Revisions \subseteq 0..MaxRevision /\ 0 \notin Revisions
  BY <1>1 DEF Revisions
<1> QED BY <1>1, <1>2, <1>3

LEMMA AtRestTypes ==
  /\ AtRest \in WorkerState /\ AtRest.pc = "idle"
  /\ Done \in GuestState /\ Done.pc = "idle"
  /\ Away \in HostState /\ Away.pc = "idle"
  /\ NoRow \in Row /\ NoRow.status = "none" /\ ~NoRow.regen /\ NoRow.revision = 0
  /\ NoPack \in Pack
<1>1. AtRest \in WorkerState /\ AtRest.pc = "idle"
  BY Constants DEF AtRest, WorkerState, WorkerPcs, PrepStatuses
<1>2. Done \in GuestState /\ Done.pc = "idle"
  BY Constants DEF Done, GuestState
<1>3. Away \in HostState /\ Away.pc = "idle"
  BY Constants DEF Away, HostState
<1>4. NoRow \in Row /\ NoRow.status = "none" /\ ~NoRow.regen /\ NoRow.revision = 0
  BY Constants DEF NoRow, Row, Statuses
<1>5. NoPack \in Pack
  BY Constants DEF NoPack, Pack
<1> QED BY <1>1, <1>2, <1>3, <1>4, <1>5

LEMMA GuestGoes ==
  ASSUME TypeOK, NEW g \in Guests, NEW pc \in {"idle", "reopen", "draft", "submit", "unsubmit",
           "redraft", "withdraw", "requeuePrep", "heal"}, Goes(g, pc)
  PROVE  /\ guest' \in [Guests -> GuestState]
         /\ guest'[g].pc = pc
         /\ \A f \in Guests \ {g} : guest'[f] = guest[f]
<1>1. [Done EXCEPT !.pc = pc] \in GuestState /\ [Done EXCEPT !.pc = pc].pc = pc
  BY Constants DEF Done, GuestState
<1> QED BY <1>1 DEF Goes, TypeOK

LEMMA GuestEnds ==
  ASSUME TypeOK, NEW g \in Guests, Ends(g)
  PROVE  /\ guest' \in [Guests -> GuestState]
         /\ guest'[g].pc = "idle"
         /\ \A f \in Guests \ {g} : guest'[f] = guest[f]
BY AtRestTypes DEF Ends, TypeOK

LEMMA WorkerMoves ==
  ASSUME TypeOK, NEW w \in Workers, NEW pc \in WorkerPcs, Moves(w, pc)
  PROVE  /\ worker' \in [Workers -> WorkerState]
         /\ worker'[w] = [worker[w] EXCEPT !.pc = pc]
         /\ worker'[w].pc = pc /\ worker'[w].job = worker[w].job
         /\ worker'[w].revision = worker[w].revision /\ worker'[w].facts = worker[w].facts
         /\ worker'[w].regen = worker[w].regen
         /\ \A v \in Workers \ {w} : worker'[v] = worker[v]
<1>1. worker[w] \in WorkerState
  BY DEF TypeOK
<1>2. [worker[w] EXCEPT !.pc = pc] \in WorkerState
  BY <1>1 DEF WorkerState
<1>3. worker' = [worker EXCEPT ![w] = [worker[w] EXCEPT !.pc = pc]]
  BY DEF Moves, TypeOK
<1> QED BY <1>1, <1>2, <1>3 DEF TypeOK, WorkerState

LEMMA WorkerLeaves ==
  ASSUME TypeOK, NEW w \in Workers, Leaves(w)
  PROVE  /\ worker' \in [Workers -> WorkerState]
         /\ worker'[w] = AtRest
         /\ \A v \in Workers \ {w} : worker'[v] = worker[v]
BY AtRestTypes DEF Leaves, TypeOK

\* A row whose status and lease are rewritten keeps everything else.
LEMMA RowRewritten ==
  ASSUME NEW row \in Row, NEW status \in Statuses
  PROVE  /\ Unleased(row, status) \in Row /\ Outcome(row, status) \in Row
         /\ Unleased(row, status).status = status /\ Outcome(row, status).status = status
         /\ Unleased(row, status).regen = row.regen /\ ~Outcome(row, status).regen
         /\ Unleased(row, status).revision = row.revision
         /\ Outcome(row, status).revision = row.revision
BY DEF Unleased, Outcome, Row

-----------------------------------------------------------------------------
(***************************************************************************)
(* What any step does, variable by variable, and that this keeps Inv.      *)
(***************************************************************************)
AppStep ==
  /\ app' \in Application
  /\ app'.facts # NoFacts => <<app'.revision, app'.facts>> \in submitted'
  /\ app'.job # NoJob => job'[app'.job].status # "none"

\* Artifacts are replaced, never removed.
PacksStep ==
  /\ packs' \in [Revisions -> Pack]
  /\ \A r \in Revisions :
       /\ packs[r].brief # NoFacts => packs'[r].brief # NoFacts
       /\ packs[r].notes # NoFacts => packs'[r].notes # NoFacts
       /\ packs'[r].brief # NoFacts => <<r, packs'[r].brief>> \in submitted'
       /\ packs'[r].notes # NoFacts => <<r, packs'[r].notes>> \in submitted'

RowLives(j) ==
  /\ job'[j].revision = job[j].revision
  /\ job'[j].status = "none" <=> job[j].status = "none"
  /\ job'[j].regen => job[j].regen
  /\ hold'[j] = "free" <=> hold[j] = "free"
  /\ hold'[j] = "none" <=> hold[j] = "none"
  /\ hold'[j] = "settled" =>
       \/ hold[j] = "settled"
       \/ \E w \in Workers : worker[w].pc = "settle" /\ worker[w].job = j

RowBorn(j) ==
  /\ job[j].status = "none" /\ job'[j].status # "none"
  /\ hold'[j] \in {"free", "held"} /\ job'[j].revision \in Revisions
  /\ job'[j].regen => hold'[j] = "free"

RowsStep ==
  /\ job' \in [Jobs -> Row]
  /\ hold' \in [Jobs -> {"none", "free", "held", "settled", "released"}]
  /\ \A j \in Jobs : RowLives(j) \/ RowBorn(j)

StoredFor(j) ==
  NoFacts \notin {packs'[job[j].revision].brief, packs'[job[j].revision].notes}

RunStep(w) ==
  \/ worker'[w] = worker[w]
  \/ worker'[w].pc = "idle"
  \/ /\ worker'[w].pc # "idle"
     /\ worker'[w].job \in Jobs /\ job[worker'[w].job].status # "none"
     /\ worker'[w].pc \in Publishing =>
          /\ <<worker'[w].revision, worker'[w].facts>> \in submitted
          /\ hold[worker'[w].job] # "free" => worker'[w].revision = job[worker'[w].job].revision
     /\ worker'[w].pc = "settle" => StoredFor(worker'[w].job)

WorkersStep == worker' \in [Workers -> WorkerState] /\ \A w \in Workers : RunStep(w)

GuestsStep ==
  /\ guest' \in [Guests -> GuestState]
  /\ \A g \in Guests :
       /\ guest'[g].pc \in {"cancelJob", "releaseJob", "requeueJob"} =>
            guest'[g].job \in Jobs /\ job[guest'[g].job].status # "none"
       /\ guest'[g].pc = "submit" => guest'[g].revision \in Revisions

HostsStep ==
  /\ host' \in [Hosts -> HostState]
  /\ \A h \in Hosts : host'[h].pc \in {"save", "count", "regenerate"} => host'[h].revision \in Revisions
  /\ authorized' \subseteq Hosts
  /\ saves' \in 0..MaxSaves

HistoryStep == submitted' \subseteq Revisions \X Facts /\ submitted \subseteq submitted'

Step == /\ AppStep /\ PacksStep /\ RowsStep /\ WorkersStep /\ GuestsStep /\ HostsStep
        /\ HistoryStep

LEMMA StepKeepsInv == Inv /\ Step => Inv'
<1> SUFFICES ASSUME Inv, Step PROVE Inv'
  OBVIOUS
<1> USE DEF Inv, Step
<1>1. TypeOK'
  BY DEF TypeOK, AppStep, PacksStep, RowsStep, WorkersStep, GuestsStep, HostsStep, HistoryStep
<1>2. \A j \in Jobs : job[j].status # "none" => RowLives(j) /\ job'[j].status # "none"
  BY DEF RowsStep, RowLives, RowBorn
<1>3. \A j \in Jobs : job'[j].status = "none" => job[j].status = "none" /\ RowLives(j)
  BY DEF RowsStep, RowLives, RowBorn
<1>4. Placed'
  <2>1. \A w \in Workers : worker'[w].pc # "idle" =>
          worker'[w].job \in Jobs /\ job'[worker'[w].job].status # "none"
    BY <1>2 DEF WorkersStep, RunStep, Placed
  <2>2. \A g \in Guests : guest'[g].pc \in {"cancelJob", "releaseJob", "requeueJob"} =>
          guest'[g].job \in Jobs /\ job'[guest'[g].job].status # "none"
    BY <1>2 DEF GuestsStep
  <2> QED BY <2>1, <2>2 DEF Placed, GuestsStep, HostsStep, AppStep
<1>5. Reserved'
  BY <1>3 DEF RowsStep, RowLives, RowBorn, Reserved
<1>6. FactsBelong'
  BY DEF FactsBelong, AppStep, WorkersStep, RunStep, HistoryStep, Publishing
<1>7. \A j \in Jobs :
        job[j].status # "none"
        /\ NoFacts \notin {packs[job[j].revision].brief, packs[job[j].revision].notes}
        => StoredFor(j)
  BY DEF PacksStep, StoredFor, Reserved
<1>8. ChargedRuns'
  <2> SUFFICES ASSUME NEW w \in Workers
      PROVE  /\ worker'[w].pc \in Publishing /\ hold'[worker'[w].job] # "free" =>
                  worker'[w].revision = job'[worker'[w].job].revision
             /\ worker'[w].pc = "settle" =>
                  NoFacts \notin {packs'[job'[worker'[w].job].revision].brief,
                                  packs'[job'[worker'[w].job].revision].notes}
    BY DEF ChargedRuns
  <2>1. CASE worker'[w].pc = "idle"
    BY <2>1 DEF Publishing
  <2> DEFINE j == worker'[w].job
  <2>2. CASE worker'[w].pc # "idle"
    <3>1. j \in Jobs /\ job[j].status # "none"
      BY <2>2 DEF WorkersStep, RunStep, Placed
    <3>2. /\ job'[j].revision = job[j].revision
          /\ hold'[j] = "free" <=> hold[j] = "free"
      BY <1>2, <3>1 DEF RowLives
    <3>3. /\ worker'[w].pc \in Publishing /\ hold[j] # "free" =>
               worker'[w].revision = job[j].revision
          /\ worker'[w].pc = "settle" => StoredFor(j)
      BY <1>7, <2>2, <3>1 DEF WorkersStep, RunStep, ChargedRuns
    <3> QED BY <3>2, <3>3 DEF StoredFor
  <2> QED BY <2>1, <2>2
<1>9. PacksMatchTheirRevision'
  BY DEF PacksMatchTheirRevision, PacksStep
<1>10. ChargedForBothArtifacts'
  <2> SUFFICES ASSUME NEW j \in Jobs, hold'[j] = "settled"
      PROVE  NoFacts \notin {packs'[job'[j].revision].brief, packs'[job'[j].revision].notes}
    BY DEF ChargedForBothArtifacts
  <2>1. RowLives(j) /\ job[j].status # "none"
    BY DEF RowsStep, RowLives, RowBorn, Reserved
  <2>2. StoredFor(j)
    BY <1>7, <2>1 DEF RowLives, ChargedForBothArtifacts, ChargedRuns
  <2> QED BY <2>1, <2>2 DEF RowLives, StoredFor
<1> QED BY <1>1, <1>4, <1>5, <1>6, <1>8, <1>9, <1>10

-----------------------------------------------------------------------------
(***************************************************************************)
(* What does not change, and the usual changes, make such a step.          *)
(***************************************************************************)
LEMMA Frames ==
  ASSUME Inv
  PROVE  /\ UNCHANGED <<packs, submitted>> => PacksStep
         /\ UNCHANGED <<job, hold>> => RowsStep
         /\ UNCHANGED worker => WorkersStep
         /\ UNCHANGED guest => GuestsStep
         /\ UNCHANGED <<host, authorized, saves>> => HostsStep
         /\ UNCHANGED submitted => HistoryStep
         /\ UNCHANGED <<app, submitted>> /\ RowsStep => AppStep
<1> USE DEF Inv
<1>1. UNCHANGED <<packs, submitted>> => PacksStep
  BY DEF PacksStep, TypeOK, PacksMatchTheirRevision
<1>2. UNCHANGED <<job, hold>> => RowsStep
  BY DEF RowsStep, RowLives, TypeOK
<1>3. UNCHANGED worker => WorkersStep
  BY DEF WorkersStep, RunStep, TypeOK
<1>4. UNCHANGED guest => GuestsStep
  BY DEF GuestsStep, TypeOK, Placed
<1>5. UNCHANGED <<host, authorized, saves>> => HostsStep
  BY DEF HostsStep, TypeOK, Placed
<1>6. UNCHANGED submitted => HistoryStep
  BY DEF HistoryStep, TypeOK
<1>7. UNCHANGED <<app, submitted>> /\ RowsStep => AppStep
  <2>1. app.job # NoJob => app.job \in Jobs
    BY DEF TypeOK, Application
  <2> QED BY <2>1 DEF AppStep, TypeOK, FactsBelong, Placed, RowsStep, RowLives, RowBorn
<1> QED BY <1>1, <1>2, <1>3, <1>4, <1>5, <1>6, <1>7

\* The application keeps its submission, or forgets the facts and the job.
AppKept ==
  /\ app' \in Application
  /\ app'.revision = app.revision
  /\ app'.facts \in {app.facts, NoFacts} /\ app'.job \in {app.job, NoJob}

LEMMA AppKeeps ==
  ASSUME Inv, AppKept, UNCHANGED submitted, RowsStep
  PROVE  AppStep
<1>1. app.job # NoJob => app.job \in Jobs /\ job[app.job].status # "none"
  BY DEF Inv, TypeOK, Application, Placed
<1> QED BY <1>1 DEF Inv, AppKept, AppStep, FactsBelong, RowsStep, RowLives, RowBorn

LEMMA GuestsMove ==
  ASSUME Inv, NEW g \in Guests
  PROVE  /\ Ends(g) => GuestsStep
         /\ \A pc \in {"idle", "reopen", "draft", "unsubmit", "redraft", "withdraw",
                       "requeuePrep", "heal"} : Goes(g, pc) => GuestsStep
<1> USE DEF Inv
<1>1. ASSUME Ends(g) PROVE GuestsStep
  BY <1>1, GuestEnds DEF GuestsStep, Placed
<1>2. ASSUME NEW pc \in {"idle", "reopen", "draft", "unsubmit", "redraft", "withdraw",
                         "requeuePrep", "heal"}, Goes(g, pc)
      PROVE  GuestsStep
  BY <1>2, GuestGoes DEF GuestsStep, Placed
<1> QED BY <1>1, <1>2

\* A job's status is rewritten, and its reservation at most released.
LEMMA RowsMove ==
  ASSUME Inv, NEW j \in Jobs, job[j].status # "none",
         NEW row \in Row, row.status # "none", row.revision = job[j].revision,
         row.regen => job[j].regen, job' = [job EXCEPT ![j] = row],
         hold' \in {hold, Close(j, "released")}
  PROVE  RowsStep
<1> USE DEF Inv
<1>1. job' \in [Jobs -> Row] /\ job'[j] = row /\ \A i \in Jobs \ {j} : job'[i] = job[i]
  BY DEF TypeOK
<1>2. /\ hold' \in [Jobs -> {"none", "free", "held", "settled", "released"}]
      /\ \A i \in Jobs : hold'[i] = hold[i] \/ (hold[i] = "held" /\ hold'[i] = "released")
  BY DEF Close, TypeOK
<1> QED BY <1>1, <1>2 DEF RowsStep, RowLives

LEMMA StatusMoves ==
  ASSUME Inv, NEW j \in Jobs, job[j].status # "none", NEW status \in Statuses \ {"none"},
         \/ job' = [job EXCEPT ![j] = Unleased(job[j], status)]
         \/ job' = [job EXCEPT ![j] = Outcome(job[j], status)],
         hold' \in {hold, Close(j, "released")}
  PROVE  RowsStep
<1>1. job[j] \in Row
  BY DEF Inv, TypeOK
<1> DEFINE a == Unleased(job[j], status)
           b == Outcome(job[j], status)
<1>2. /\ a \in Row /\ a.status # "none" /\ a.revision = job[j].revision
      /\ a.regen = job[j].regen
  BY <1>1, RowRewritten
<1>3. /\ b \in Row /\ b.status # "none" /\ b.revision = job[j].revision /\ ~b.regen
  BY <1>1, RowRewritten
<1>4. job' = [job EXCEPT ![j] = a] \/ job' = [job EXCEPT ![j] = b]
  OBVIOUS
<1> HIDE DEF a, b
<1> QED BY <1>2, <1>3, <1>4, RowsMove

LEMMA Released ==
  ASSUME Inv, NEW j \in Jobs, UNCHANGED job, hold' = Close(j, "released")
  PROVE  RowsStep
<1>1. /\ hold' \in [Jobs -> {"none", "free", "held", "settled", "released"}]
      /\ \A i \in Jobs : hold'[i] = hold[i] \/ (hold[i] = "held" /\ hold'[i] = "released")
  BY DEF Close, Inv, TypeOK
<1> QED BY <1>1 DEF RowsStep, RowLives, Inv, TypeOK

-----------------------------------------------------------------------------
(***************************************************************************)
(* The guest's actions.                                                    *)
(***************************************************************************)
\* Actions that only read, and those that only write the application.
LEMMA GuestReads ==
  ASSUME Inv, NEW g \in Guests, Reads(g), GuestsStep
  PROVE  Step
BY Frames DEF Step, Reads, guestRest

LEMMA GuestWrites ==
  ASSUME Inv, NEW g \in Guests, AppKept, GuestsStep, UNCHANGED <<job, hold, submitted, guestRest>>
  PROVE  Step
BY Frames, AppKeeps DEF Step, guestRest

LEMMA GuestBegins ==
  ASSUME Inv, NEW g \in Guests,
         \/ BeginReopen(g) \/ BeginDraft(g) \/ BeginSubmit(g) \/ SubmitRefused(g)
         \/ BeginRevise(g) \/ BeginWithdraw(g) \/ BeginRetry(g) \/ BeginReconcile(g)
  PROVE  Step
<1> USE DEF Inv
<1>1. Reads(g)
  BY DEF BeginReopen, BeginDraft, BeginSubmit, SubmitRefused, BeginRevise, BeginWithdraw,
         BeginRetry, BeginReconcile
<1>2. CASE BeginSubmit(g)
  <2> DEFINE s == [Done EXCEPT !.pc = "submit", !.revision = app.revision + 1]
  <2>1. app.revision + 1 \in Revisions /\ app.revision + 1 \in 0..MaxRevision
    BY <1>2, Constants DEF BeginSubmit, TypeOK, Application, Revisions
  <2>2. s \in GuestState /\ s.pc = "submit" /\ s.revision = app.revision + 1
    BY <2>1, Constants DEF Done, GuestState
  <2>3. guest' = [guest EXCEPT ![g] = s]
    BY <1>2 DEF BeginSubmit
  <2> HIDE DEF s
  <2>4. GuestsStep
    BY <2>1, <2>2, <2>3 DEF GuestsStep, TypeOK, Placed
  <2> QED BY <1>1, <2>4, GuestReads
<1>3. ASSUME NEW s \in GuestState, s.pc \in {"cancelJob", "requeueJob"}, s.job = app.job,
             app.job # NoJob, guest' = [guest EXCEPT ![g] = s]
      PROVE  Step
  <2>1. app.job \in Jobs /\ job[app.job].status # "none"
    BY <1>3 DEF TypeOK, Application, Placed
  <2>2. GuestsStep
    BY <1>3, <2>1 DEF GuestsStep, TypeOK, Placed
  <2> QED BY <1>1, <2>2, GuestReads
<1>4. CASE BeginRevise(g) \/ BeginWithdraw(g)
  <2>1. ASSUME NEW next \in {"redraft", "withdraw"}, app.job # NoJob,
               guest' = [guest EXCEPT ![g] = [Done EXCEPT !.pc = "cancelJob", !.next = next,
                                                          !.job = app.job]]
        PROVE  Step
    <3> DEFINE s == [Done EXCEPT !.pc = "cancelJob", !.next = next, !.job = app.job]
    <3>1. s \in GuestState /\ s.pc = "cancelJob" /\ s.job = app.job
      BY Constants DEF Done, GuestState, TypeOK, Application
    <3>2. guest' = [guest EXCEPT ![g] = s]
      BY <2>1
    <3> HIDE DEF s
    <3> QED BY <1>3, <2>1, <3>1, <3>2
  <2>2. \/ Goes(g, "redraft") \/ Goes(g, "withdraw")
        \/ \E next \in {"redraft", "withdraw"} : app.job # NoJob /\
             guest' = [guest EXCEPT ![g] = [Done EXCEPT !.pc = "cancelJob", !.next = next,
                                                        !.job = app.job]]
    BY <1>4 DEF BeginRevise, BeginWithdraw
  <2> QED BY <1>1, <2>1, <2>2, GuestsMove, GuestReads
<1>5. CASE BeginRetry(g)
  <2> DEFINE s == [Done EXCEPT !.pc = "requeueJob", !.job = app.job]
  <2>1. s \in GuestState /\ s.pc = "requeueJob" /\ s.job = app.job
    BY Constants DEF Done, GuestState, TypeOK, Application
  <2>2. app.job # NoJob /\ guest' = [guest EXCEPT ![g] = s]
    BY <1>5 DEF BeginRetry
  <2> HIDE DEF s
  <2> QED BY <1>3, <2>1, <2>2
<1>6. CASE BeginReopen(g) \/ BeginDraft(g) \/ SubmitRefused(g) \/ BeginReconcile(g)
  BY <1>1, <1>6, GuestsMove, GuestReads DEF BeginReopen, BeginDraft, SubmitRefused, BeginReconcile
<1> QED BY <1>2, <1>4, <1>5, <1>6

LEMMA GuestUpdates ==
  ASSUME Inv, NEW g \in Guests,
         \/ Open(g) \/ Reopen(g) \/ WriteDraft(g) \/ Unsubmit(g) \/ Redraft(g) \/ Withdraw(g)
         \/ RequeuePrep(g) \/ Reconcile(g)
  PROVE  Step
<1>1. GuestsStep
  BY Frames, GuestsMove DEF Open, Reopen, WriteDraft, Unsubmit, Redraft, Withdraw, RequeuePrep,
                            Reconcile
<1>2. AppKept
  BY DEF Open, Reopen, WriteDraft, Unsubmit, Redraft, Withdraw, RequeuePrep, Reconcile,
         AppKept, Inv, TypeOK, Application, PrepStatuses
<1>3. UNCHANGED <<job, hold, submitted, guestRest>>
  BY DEF Open, Reopen, WriteDraft, Unsubmit, Redraft, Withdraw, RequeuePrep, Reconcile
<1> QED BY <1>1, <1>2, <1>3, GuestWrites

\* The actions on a job.
LEMMA GuestJobs ==
  ASSUME Inv, NEW g \in Guests, CancelJob(g) \/ ReleaseJob(g) \/ RequeueJob(g)
  PROVE  Step
<1> USE DEF Inv
<1> DEFINE j == guest[g].job
<1>1. j \in Jobs /\ job[j].status # "none" /\ job[j] \in Row
  BY DEF CancelJob, ReleaseJob, RequeueJob, Placed, TypeOK
<1>2. CASE CancelJob(g)
  <2>1. GuestsStep
    <3>1. /\ [guest[g] EXCEPT !.pc = "releaseJob"] \in GuestState
          /\ [guest[g] EXCEPT !.pc = "releaseJob"].pc = "releaseJob"
          /\ [guest[g] EXCEPT !.pc = "releaseJob"].job = j
      BY DEF TypeOK, GuestState
    <3>2. guest' = [guest EXCEPT ![g] = [guest[g] EXCEPT !.pc = "releaseJob"]]
      BY <1>2 DEF CancelJob, TypeOK
    <3> QED BY <1>1, <3>1, <3>2 DEF GuestsStep, TypeOK, Placed
  <2>2. RowsStep
    <3> DEFINE row == [job[j] EXCEPT !.status = "CANCELLED"]
    <3>1. /\ row \in Row /\ row.status # "none" /\ row.revision = job[j].revision
          /\ row.regen = job[j].regen
      BY <1>1 DEF Row, Statuses
    <3>2. hold' = hold /\ (job' = job \/ job' = [job EXCEPT ![j] = row])
      BY <1>2 DEF CancelJob, TypeOK
    <3> HIDE DEF row
    <3> QED BY <1>1, <3>1, <3>2, Frames, RowsMove
  <2> QED BY <1>2, <2>1, <2>2, Frames DEF Step, CancelJob, guestRest
<1>3. CASE ReleaseJob(g)
  <2>1. RowsStep
    BY <1>1, <1>3, Released DEF ReleaseJob
  <2>2. GuestsStep
    <3>1. guest[g].next \in {"idle", "redraft", "withdraw"}
      BY DEF TypeOK, GuestState
    <3> QED BY <1>3, <3>1, GuestsMove DEF ReleaseJob
  <2> QED BY <1>3, <2>1, <2>2, Frames DEF Step, ReleaseJob, guestRest
<1>4. CASE RequeueJob(g)
  <2>1. RowsStep
    <3>1. "QUEUED" \in Statuses \ {"none"}
      BY DEF Statuses
    <3>2. hold' = hold /\ job' = [job EXCEPT ![j] = Unleased(job[j], "QUEUED")]
      BY <1>4 DEF RequeueJob
    <3> QED BY <1>1, <3>1, <3>2, StatusMoves
  <2>2. GuestsStep
    BY <1>4, GuestsMove DEF RequeueJob
  <2> QED BY <1>4, <2>1, <2>2, Frames DEF Step, RequeueJob, guestRest
<1> QED BY <1>2, <1>3, <1>4

LEMMA GuestSubmits ==
  ASSUME Inv, NEW g \in Guests, NEW f \in Facts, NEW j \in Jobs, NEW kind \in Usage,
         Submit(g, f, j, kind)
  PROVE  Step
<1> USE DEF Inv
<1> DEFINE r == guest[g].revision
           row == [NoRow EXCEPT !.status = "QUEUED", !.revision = r]
<1>1. r \in Revisions /\ r \in 0..MaxRevision
  BY Constants DEF Submit, Placed
<1>2. row \in Row /\ row.status = "QUEUED" /\ row.revision = r /\ ~row.regen
  BY <1>1, AtRestTypes DEF Row, Statuses
<1>3. job' = [job EXCEPT ![j] = row] /\ hold' = [hold EXCEPT ![j] = kind]
  BY DEF Submit
<1>4. job[j].status = "none" /\ kind \in {"held", "free"}
  BY PrepAssumption DEF Submit, Fresh
<1> HIDE DEF row
<1>5. RowsStep
  BY <1>1, <1>2, <1>3, <1>4 DEF RowsStep, RowLives, RowBorn, TypeOK
<1>6. AppStep
  <2>1. /\ app' \in Application /\ app'.revision = r /\ app'.facts = f /\ app'.job = j
    BY <1>1 DEF Submit, TypeOK, Application, PrepStatuses
  <2>2. <<r, f>> \in submitted' /\ job'[j].status # "none"
    BY <1>2, <1>3 DEF Submit, TypeOK
  <2> QED BY <2>1, <2>2 DEF AppStep
<1>7. HistoryStep /\ PacksStep
  <2>1. submitted \subseteq submitted' /\ submitted' \subseteq Revisions \X Facts
    BY <1>1 DEF Submit, TypeOK
  <2> QED BY <2>1 DEF Submit, guestRest, HistoryStep, PacksStep, TypeOK, PacksMatchTheirRevision
<1>8. GuestsStep
  BY GuestsMove DEF Submit
<1> QED BY <1>5, <1>6, <1>7, <1>8, Frames DEF Step, Submit, guestRest

LEMMA GuestKeeps ==
  ASSUME Inv, NEW g \in Guests, GuestStep(g) PROVE Step
BY GuestBegins, GuestUpdates, GuestJobs, GuestSubmits DEF GuestStep

-----------------------------------------------------------------------------
(***************************************************************************)
(* The host's actions.                                                     *)
(***************************************************************************)
LEMMA HostKeeps ==
  ASSUME Inv, NEW h \in Hosts, HostStep(h) PROVE Step
<1> USE DEF Inv
<1>1. WorkersStep /\ GuestsStep /\ HistoryStep
  BY Frames DEF HostStep, Authorize, BeginAssign, AssignHost, BeginSave, SaveEdits,
                BeginRegenerate, CountRegenerations, Regenerate, hostRest
<1>2. HostsStep
  <2>1. app.facts # NoFacts => app.revision \in Revisions
    BY DEF FactsBelong, TypeOK
  <2>2. app.revision > 0 => app.revision \in Revisions
    BY Constants DEF TypeOK, Application, Revisions
  <2>3. app.revision \in 0..MaxRevision
    BY DEF TypeOK, Application
  <2>4. CASE Authorize(h)
    BY <2>4 DEF Authorize, HostsStep, TypeOK, Placed
  <2>5. CASE BeginAssign(h) \/ AssignHost(h)
    BY <2>5, Constants DEF BeginAssign, AssignHost, HostGoes, HostsStep, HostState, TypeOK, Placed
  <2>6. CASE BeginSave(h)
    BY <2>2, <2>3, <2>6 DEF BeginSave, HostGoes, HostsStep, HostState, TypeOK, Placed
  <2>7. CASE BeginRegenerate(h)
    BY <2>1, <2>3, <2>7 DEF BeginRegenerate, HostGoes, HostsStep, HostState, TypeOK, Placed
  <2>71. CASE CountRegenerations(h)
    <3>1. host[h].revision \in Revisions /\ host[h].revision \in 0..MaxRevision
      BY <2>71, Constants DEF CountRegenerations, Placed
    <3> QED BY <2>71, <3>1, Constants DEF CountRegenerations, HostGoes, HostsStep, HostState, TypeOK,
                                          Placed
  <2>8. CASE SaveEdits(h)
    <3>1. saves' \in 0..MaxSaves
      BY <2>8, PrepAssumption DEF SaveEdits, TypeOK
    <3> QED BY <2>8, <3>1, Constants DEF SaveEdits, HostGoes, HostsStep, HostState, TypeOK, Placed
  <2>9. CASE \E j \in Jobs : Regenerate(h, j)
    BY <2>9, Constants DEF Regenerate, HostGoes, HostsStep, HostState, TypeOK, Placed
  <2> QED BY <2>4, <2>5, <2>6, <2>7, <2>71, <2>8, <2>9 DEF HostStep
<1>3. RowsStep
  <2>1. ASSUME NEW j \in Jobs, Regenerate(h, j) PROVE RowsStep
    <3> DEFINE row == [NoRow EXCEPT !.status = "QUEUED", !.by = "host", !.regen = TRUE,
                                    !.revision = host[h].revision]
    <3>1. host[h].revision \in Revisions /\ host[h].revision \in 0..MaxRevision
      BY <2>1, Constants DEF Regenerate, Placed
    <3>2. row \in Row /\ row.status = "QUEUED" /\ row.revision = host[h].revision
      BY <3>1, AtRestTypes DEF Row, Statuses
    <3>3. /\ job' = [job EXCEPT ![j] = row] /\ hold' = [hold EXCEPT ![j] = "free"]
          /\ job[j].status = "none"
      BY <2>1 DEF Regenerate, Fresh
    <3> HIDE DEF row
    <3> QED BY <3>1, <3>2, <3>3 DEF RowsStep, RowLives, RowBorn, TypeOK
  <2> QED BY <2>1, Frames DEF HostStep, Authorize, BeginAssign, AssignHost, BeginSave, SaveEdits,
                              BeginRegenerate, CountRegenerations, hostRest
<1>4. AppStep
  <2>1. CASE AssignHost(h)
    <3>1. AppKept /\ UNCHANGED submitted
      BY <2>1 DEF AssignHost, AppKept, TypeOK, Application, hostRest
    <3> QED BY <1>3, <3>1, AppKeeps
  <2> QED BY <1>3, <2>1, Frames DEF HostStep, Authorize, BeginAssign, BeginSave, SaveEdits,
                                    BeginRegenerate, CountRegenerations, Regenerate, hostRest
<1>5. PacksStep
  <2>1. CASE SaveEdits(h)
    <3> DEFINE r == host[h].revision
               new == [packs[r] EXCEPT !.edit = saves + 1]
    <3>1. r \in Revisions /\ saves + 1 \in 0..MaxSaves /\ packs[r] \in Pack
      BY <2>1, PrepAssumption DEF SaveEdits, Placed, TypeOK
    <3>2. new \in Pack /\ new.brief = packs[r].brief /\ new.notes = packs[r].notes
      BY <3>1 DEF Pack
    <3>3. packs' = [packs EXCEPT ![r] = new] /\ submitted' = submitted
      BY <2>1 DEF SaveEdits, TypeOK, hostRest
    <3> HIDE DEF new
    <3> QED BY <3>1, <3>2, <3>3 DEF PacksStep, TypeOK, PacksMatchTheirRevision
  <2> QED BY <2>1, Frames DEF HostStep, Authorize, BeginAssign, AssignHost, BeginSave,
                              BeginRegenerate, CountRegenerations, Regenerate, hostRest
<1> QED BY <1>1, <1>2, <1>3, <1>4, <1>5 DEF Step

-----------------------------------------------------------------------------
(***************************************************************************)
(* The workers' actions.                                                   *)
(***************************************************************************)
\* A worker that moves on within its run, or leaves it.
LEMMA WorkersMove ==
  ASSUME Inv, NEW w \in Workers
  PROVE  /\ Leaves(w) => WorkersStep
         /\ \A pc \in WorkerPcs \ (Publishing \cup {"idle", "settle"}) :
              worker[w].pc # "idle" /\ Moves(w, pc) => WorkersStep
         /\ \A pc \in Publishing :
              worker[w].pc \in Publishing /\ Moves(w, pc) => WorkersStep
<1> USE DEF Inv
<1>1. ASSUME Leaves(w) PROVE WorkersStep
  BY <1>1, WorkerLeaves, AtRestTypes DEF WorkersStep, RunStep
<1>2. ASSUME NEW pc \in WorkerPcs \ (Publishing \cup {"idle", "settle"}),
             worker[w].pc # "idle", Moves(w, pc)
      PROVE  WorkersStep
  <2>1. RunStep(w)
    BY <1>2, WorkerMoves DEF RunStep, Placed
  <2>2. \A v \in Workers \ {w} : RunStep(v)
    BY <1>2, WorkerMoves DEF RunStep
  <2> QED BY <1>2, <2>1, <2>2, WorkerMoves DEF WorkersStep
<1>3. ASSUME NEW pc \in Publishing, worker[w].pc \in Publishing, Moves(w, pc)
      PROVE  WorkersStep
  <2>0. pc \in WorkerPcs /\ pc # "settle" /\ pc # "idle" /\ worker[w].pc # "idle"
    BY <1>3 DEF Publishing, WorkerPcs
  <2>1. RunStep(w)
    BY <1>3, <2>0, WorkerMoves DEF RunStep, Placed, FactsBelong, ChargedRuns
  <2>2. \A v \in Workers \ {w} : RunStep(v)
    BY <1>3, <2>0, WorkerMoves DEF RunStep
  <2> QED BY <1>3, <2>0, <2>1, <2>2, WorkerMoves DEF WorkersStep
<1> QED BY <1>1, <1>2, <1>3

LEMMA WorkerOthers ==
  ASSUME Inv, UNCHANGED workerRest
  PROVE  GuestsStep /\ HostsStep /\ HistoryStep
BY Frames DEF workerRest

LEMMA WorkerDecides ==
  ASSUME Inv, NEW w \in Workers, Decides(w), WorkersStep
  PROVE  Step
BY Frames DEF Step, Decides, workerRest

LEMMA StartKeeps ==
  ASSUME Inv, NEW w \in Workers, Start(w) PROVE Step
<1> USE DEF Inv
<1>1. Decides(w) /\ worker[w].pc = "start"
  BY DEF Start, At
<1>2. CASE Leaves(w)
  BY <1>1, <1>2, WorkersMove, WorkerDecides
<1>3. CASE \E pc \in {"release", "cancel", "fail", "failMissing"} : Moves(w, pc)
  <2>1. {"release", "cancel", "fail", "failMissing"}
           \subseteq WorkerPcs \ (Publishing \cup {"idle", "settle"})
    BY DEF WorkerPcs, Publishing
  <2> QED BY <1>1, <1>3, <2>1, WorkersMove, WorkerDecides
<1>4. CASE /\ Works(w, job[worker[w].job].regen) /\ app.facts # NoFacts
           /\ ~(~job[worker[w].job].regen /\ app.revision # job[worker[w].job].revision)
  <2> DEFINE j == worker[w].job
             run == [pc |-> "running", job |-> j, regen |-> job[j].regen,
                     revision |-> app.revision, facts |-> app.facts,
                     prep |-> IF job[j].regen THEN app.prep ELSE "RUNNING", edit |-> 0]
  <2>1. j \in Jobs /\ job[j].status # "none" /\ job[j] \in Row
    BY <1>1 DEF Placed, TypeOK
  <2>2. run \in WorkerState
    BY <2>1, Constants DEF WorkerState, WorkerPcs, TypeOK, Application, Row, PrepStatuses
  <2>3. /\ run.pc = "running" /\ run.job = j
        /\ run.revision = app.revision /\ run.facts = app.facts
    OBVIOUS
  <2>4. worker' = [worker EXCEPT ![w] = run]
    BY <1>4 DEF Works
  <2>5. /\ <<app.revision, app.facts>> \in submitted
        /\ hold[j] # "free" => app.revision = job[j].revision
    BY <1>4, <2>1 DEF FactsBelong, Reserved
  <2> HIDE DEF run
  <2>6. RunStep(w)
    BY <2>1, <2>3, <2>4, <2>5 DEF RunStep, TypeOK
  <2>7. WorkersStep
    BY <2>2, <2>4, <2>6 DEF WorkersStep, RunStep, TypeOK
  <2> QED BY <1>1, <2>7, WorkerDecides
<1> QED BY <1>2, <1>3, <1>4 DEF Start

LEMMA ClaimKeeps ==
  ASSUME Inv, NEW w \in Workers, Claim(w) PROVE Step
<1> USE DEF Inv
<1>1. PICK j \in Jobs :
        /\ Oldest(j)
        /\ IF Exhausted(j)
             THEN /\ job' = [job EXCEPT ![j] = Unleased(job[j], "FAILED")]
                  /\ hold' = Close(j, "released") /\ worker' = worker
             ELSE /\ job' = [job EXCEPT ![j].status = "RUNNING", ![j].owner = w,
                                        ![j].lapsed = FALSE, ![j].attempts = job[j].attempts + 1]
                  /\ worker' = [worker EXCEPT ![w] = [AtRest EXCEPT !.pc = "start", !.job = j]]
                  /\ hold' = hold
  BY DEF Claim
<1>2. job[j].status # "none" /\ job[j] \in Row
  BY <1>1 DEF Oldest, Claimable, TypeOK
<1>3. UNCHANGED <<app, packs, workerRest>>
  BY DEF Claim
<1>4. CASE Exhausted(j)
  <2>1. "FAILED" \in Statuses \ {"none"}
    BY DEF Statuses
  <2>2. RowsStep
    BY <1>1, <1>2, <1>4, <2>1, StatusMoves
  <2> QED BY <1>1, <1>3, <1>4, <2>2, Frames DEF Step, workerRest
<1>5. CASE ~Exhausted(j)
  <2> DEFINE row == [job[j] EXCEPT !.status = "RUNNING", !.owner = w, !.lapsed = FALSE,
                                   !.attempts = job[j].attempts + 1]
             run == [AtRest EXCEPT !.pc = "start", !.job = j]
  <2>1. job[j].attempts + 1 \in 0..MaxAttempts
    BY <1>2, <1>5, PrepAssumption DEF Exhausted, LimitOf, MaxAttempts, Row
  <2>2. /\ row \in Row /\ row.status # "none" /\ row.revision = job[j].revision
        /\ row.regen = job[j].regen
    BY <1>2, <2>1 DEF Row, Statuses
  <2>3. run \in WorkerState /\ run.pc = "start" /\ run.job = j
    BY AtRestTypes DEF WorkerState, WorkerPcs
  <2>4. job' = [job EXCEPT ![j] = row] /\ worker' = [worker EXCEPT ![w] = run] /\ hold' = hold
    BY <1>1, <1>5 DEF TypeOK
  <2> HIDE DEF row, run
  <2>5. RowsStep
    BY <1>2, <2>2, <2>4, RowsMove
  <2>6. WorkersStep
    BY <1>2, <2>3, <2>4 DEF WorkersStep, RunStep, TypeOK, Publishing
  <2> QED BY <1>3, <2>5, <2>6, Frames DEF Step, workerRest
<1> QED BY <1>4, <1>5

LEMMA MarkKeeps ==
  ASSUME Inv, NEW w \in Workers, MarkRunning(w) PROVE Step
<1> USE DEF Inv
<1> DEFINE j == worker[w].job
           run == [worker[w] EXCEPT !.pc = "lease", !.prep = "NOT_STARTED"]
<1>1. /\ j \in Jobs /\ job[j].status # "none"
      /\ worker[w] \in WorkerState /\ worker[w].pc = "running"
  BY DEF MarkRunning, At, Placed, TypeOK
<1>2. UNCHANGED <<packs, job, hold, workerRest>>
  BY DEF MarkRunning
<1>3. WorkersStep
  <2>1. /\ run \in WorkerState /\ run.pc = "lease" /\ run.job = j
        /\ run.revision = worker[w].revision /\ run.facts = worker[w].facts
    BY <1>1 DEF WorkerState, WorkerPcs, PrepStatuses
  <2>2. worker' = [worker EXCEPT ![w] = run]
    BY DEF MarkRunning, TypeOK
  <2>3. /\ <<worker[w].revision, worker[w].facts>> \in submitted
        /\ hold[j] # "free" => worker[w].revision = job[j].revision
    BY <1>1 DEF FactsBelong, ChargedRuns, Publishing
  <2> HIDE DEF run
  <2> QED BY <1>1, <2>1, <2>2, <2>3 DEF WorkersStep, RunStep, TypeOK
<1>4. AppStep
  <2>1. worker[w].prep \in PrepStatuses
    BY <1>1 DEF WorkerState
  <2>2. AppKept /\ UNCHANGED submitted
    BY <2>1 DEF MarkRunning, AppKept, TypeOK, Application, workerRest
  <2> QED BY <1>2, <2>2, AppKeeps, Frames
<1> QED BY <1>2, <1>3, <1>4, Frames DEF Step, workerRest

LEMMA CallKeeps ==
  ASSUME Inv, NEW w \in Workers, CallProvider(w) PROVE Step
<1> USE DEF Inv
<1> DEFINE j == worker[w].job
           row == [job[j] EXCEPT !.lapsed = FALSE]
<1>1. /\ j \in Jobs /\ job[j].status # "none" /\ job[j] \in Row
      /\ worker[w].pc \in Publishing /\ Moves(w, "provider")
  BY DEF CallProvider, At, Placed, TypeOK, Publishing
<1>2. RowsStep
  <2>1. row \in Row /\ row.status # "none" /\ row.revision = job[j].revision /\ row.regen = job[j].regen
    BY <1>1 DEF Row
  <2>2. hold' = hold /\ (job' = job \/ job' = [job EXCEPT ![j] = row])
    BY DEF CallProvider, TypeOK
  <2> HIDE DEF row
  <2> QED BY <1>1, <2>1, <2>2, RowsMove, Frames
<1>3. WorkersStep
  BY <1>1, WorkersMove DEF Publishing
<1> QED BY <1>2, <1>3, Frames DEF Step, CallProvider, workerRest

LEMMA AnswerKeeps ==
  ASSUME Inv, NEW w \in Workers, Answer(w) \/ CommitFails(w) PROVE Step
<1>1. Decides(w) /\ worker[w].pc \in Publishing /\ worker[w].pc # "idle"
  BY DEF Answer, CommitFails, At, Publishing
<1>2. {"release", "fail", "requeue"} \subseteq WorkerPcs \ (Publishing \cup {"idle", "settle"})
  BY DEF WorkerPcs, Publishing
<1>3. \/ Leaves(w) \/ Moves(w, "check")
      \/ \E pc \in {"release", "fail", "requeue"} : Moves(w, pc)
  BY DEF Answer, CommitFails
<1>4. WorkersStep
  BY <1>1, <1>2, <1>3, WorkersMove DEF Publishing
<1> QED BY <1>1, <1>4, WorkerDecides

LEMMA CheckKeeps ==
  ASSUME Inv, NEW w \in Workers, Check(w) PROVE Step
<1> USE DEF Inv
<1> DEFINE r == worker[w].revision
           run == [worker[w] EXCEPT !.pc = "commit", !.edit = packs[r].edit]
<1>1. /\ Decides(w) /\ worker[w].pc = "check" /\ worker[w] \in WorkerState
      /\ worker[w].job \in Jobs /\ job[worker[w].job].status # "none"
      /\ <<r, worker[w].facts>> \in submitted
      /\ hold[worker[w].job] # "free" => r = job[worker[w].job].revision
  BY DEF Check, At, TypeOK, Placed, FactsBelong, ChargedRuns, Publishing
<1>2. CASE Moves(w, "fail")
  <2>1. "fail" \in WorkerPcs \ (Publishing \cup {"idle", "settle"})
    BY DEF WorkerPcs, Publishing
  <2> QED BY <1>1, <1>2, <2>1, WorkersMove, WorkerDecides
<1>3. CASE worker' = [worker EXCEPT ![w] = run]
  <2>1. packs[r].edit \in 0..MaxSaves
    BY <1>1 DEF TypeOK, Pack
  <2>2. /\ run \in WorkerState /\ run.pc = "commit" /\ run.job = worker[w].job
        /\ run.revision = r /\ run.facts = worker[w].facts
    BY <1>1, <2>1 DEF WorkerState, WorkerPcs
  <2> HIDE DEF run
  <2>3. WorkersStep
    BY <1>1, <1>3, <2>2 DEF WorkersStep, RunStep, TypeOK
  <2> QED BY <1>1, <2>3, WorkerDecides
<1>4. Moves(w, "fail") \/ worker' = [worker EXCEPT ![w] = run]
  BY DEF Check, TypeOK
<1> QED BY <1>2, <1>3, <1>4

LEMMA CommitKeeps ==
  ASSUME Inv, NEW w \in Workers, Commit(w) PROVE Step
<1> USE DEF Inv
<1> DEFINE r == worker[w].revision
           j == worker[w].job
           f == worker[w].facts
           new == [brief |-> IF worker[w].regen /\ packs[r].brief # NoFacts
                               THEN packs[r].brief ELSE f,
                   notes |-> f,
                   edit |-> IF worker[w].edit # 0 THEN worker[w].edit ELSE packs[r].edit]
<1>1. /\ worker[w].pc = "commit" /\ worker[w] \in WorkerState
      /\ j \in Jobs /\ job[j].status # "none"
      /\ <<r, f>> \in submitted /\ r \in Revisions /\ f \in Facts /\ f # NoFacts
      /\ hold[j] # "free" => r = job[j].revision
  BY PrepAssumption DEF Commit, At, TypeOK, Placed, FactsBelong, ChargedRuns, Publishing
<1>2. packs' = [packs EXCEPT ![r] = new]
  BY DEF Commit
<1>3. /\ new \in Pack /\ new.notes = f /\ new.brief \in {packs[r].brief, f}
      /\ new.brief # NoFacts
  <2>1. packs[r] \in Pack /\ worker[w].edit \in 0..MaxSaves
    BY <1>1 DEF TypeOK, WorkerState
  <2> QED BY <1>1, <2>1 DEF Pack
<1> HIDE DEF new
<1>4. PacksStep
  BY <1>1, <1>2, <1>3 DEF PacksStep, TypeOK, PacksMatchTheirRevision, Commit, workerRest
<1>5. RowsStep
  <2>1. "READY" \in Statuses \ {"none"}
    BY DEF Statuses
  <2> QED BY <1>1, <2>1, StatusMoves DEF Commit
<1>6. AppStep
  <2>1. AppKept /\ UNCHANGED submitted
    BY DEF Commit, AppKept, TypeOK, Application, PrepStatuses, workerRest
  <2> QED BY <1>5, <2>1, AppKeeps
<1>7. WorkersStep
  <2>1. CASE Leaves(w)
    BY <2>1, WorkersMove
  <2>2. CASE hold[j] # "free" /\ Moves(w, "settle")
    <3>1. "settle" \in WorkerPcs /\ "settle" \notin Publishing
      BY DEF WorkerPcs, Publishing
    <3>2. StoredFor(j)
      <4>1. job[j].revision = r /\ packs'[r] = new
        BY <1>1, <1>2, <2>2 DEF TypeOK
      <4> QED BY <1>1, <1>3, <4>1 DEF StoredFor
    <3> QED BY <1>1, <2>2, <3>1, <3>2, WorkerMoves DEF WorkersStep, RunStep
  <2> QED BY <2>1, <2>2 DEF Commit
<1> QED BY <1>4, <1>5, <1>6, <1>7, Frames DEF Step, Commit, workerRest

LEMMA OutcomeKeeps ==
  ASSUME Inv, NEW w \in Workers,
         \/ CancelWithdrawn(w) \/ Requeue(w) \/ Fail(w)
         \/ TellApplication(w) \/ CloseReservation(w)
  PROVE  Step
<1> USE DEF Inv
<1> DEFINE j == worker[w].job
<1>1. worker[w].pc # "idle" /\ j \in Jobs /\ job[j].status # "none"
  BY DEF CancelWithdrawn, Requeue, Fail, TellApplication, CloseReservation, At, Placed
<1>2. WorkersStep
  <2>1. {"release", "prepQueued", "prepFailed"}
           \subseteq WorkerPcs \ (Publishing \cup {"idle", "settle"})
    BY DEF WorkerPcs, Publishing
  <2>2. Leaves(w) \/ \E pc \in {"release", "prepQueued", "prepFailed"} : Moves(w, pc)
    BY DEF CancelWithdrawn, Requeue, Fail, TellApplication, CloseReservation
  <2> QED BY <1>1, <2>1, <2>2, WorkersMove
<1>3. RowsStep
  <2>1. {"CANCELLED", "QUEUED", "FAILED"} \subseteq Statuses \ {"none"}
    BY DEF Statuses
  <2>2. CASE CancelWithdrawn(w) \/ Requeue(w) \/ Fail(w)
    BY <1>1, <2>1, <2>2, StatusMoves DEF CancelWithdrawn, Requeue, Fail, FailedHold
  <2>3. CASE TellApplication(w)
    BY <2>3, Frames DEF TellApplication
  <2>4. CASE CloseReservation(w)
    <3>1. /\ hold' \in [Jobs -> {"none", "free", "held", "settled", "released"}]
          /\ \A i \in Jobs \ {j} : hold'[i] = hold[i]
          /\ \/ hold'[j] = hold[j]
             \/ hold[j] = "held" /\ hold'[j] = "released"
             \/ hold[j] = "held" /\ hold'[j] = "settled" /\ worker[w].pc = "settle"
      BY <2>4 DEF CloseReservation, Close, At, TypeOK
    <3>2. job' = job
      BY <2>4 DEF CloseReservation
    <3> QED BY <3>1, <3>2 DEF RowsStep, RowLives, TypeOK
  <2> QED BY <2>2, <2>3, <2>4
<1>4. AppStep
  <2>1. CASE TellApplication(w)
    <3>1. AppKept /\ UNCHANGED submitted
      BY <2>1 DEF TellApplication, AppKept, TypeOK, Application, PrepStatuses, workerRest
    <3> QED BY <1>3, <3>1, AppKeeps
  <2>2. CASE CancelWithdrawn(w) \/ Requeue(w) \/ Fail(w) \/ CloseReservation(w)
    BY <1>3, <2>2, Frames DEF CancelWithdrawn, Requeue, Fail, CloseReservation, workerRest
  <2> QED BY <2>1, <2>2
<1>5. UNCHANGED <<packs, workerRest>>
  BY DEF CancelWithdrawn, Requeue, Fail, TellApplication, CloseReservation
<1> QED BY <1>2, <1>3, <1>4, <1>5, Frames DEF Step, workerRest

LEMMA WorkerKeeps ==
  ASSUME Inv, NEW w \in Workers, WorkerStep(w) PROVE Step
BY ClaimKeeps, StartKeeps, MarkKeeps, CallKeeps, AnswerKeeps, CheckKeeps, CommitKeeps, OutcomeKeeps
   DEF WorkerStep

LEMMA LapseKeeps ==
  ASSUME Inv, NEW j \in Jobs, LeaseLapses(j) PROVE Step
<1> DEFINE row == [job[j] EXCEPT !.lapsed = TRUE]
<1>1. job[j] \in Row /\ job[j].status # "none"
  BY DEF Inv, TypeOK, LeaseLapses
<1>2. row \in Row /\ row.status # "none" /\ row.revision = job[j].revision /\ row.regen = job[j].regen
  BY <1>1 DEF Row
<1>3. job' = [job EXCEPT ![j] = row] /\ hold' = hold
  BY DEF LeaseLapses, Inv, TypeOK
<1> HIDE DEF row
<1>4. RowsStep
  BY <1>1, <1>2, <1>3, RowsMove
<1> QED BY <1>4, Frames DEF Step, LeaseLapses, workerRest

-----------------------------------------------------------------------------
(***************************************************************************)
(* The theorems.                                                           *)
(***************************************************************************)
\* Every reachable state satisfies the inductive invariant.
THEOREM Invariance == Spec => []Inv
<1>1. Init => Inv
  <2> SUFFICES ASSUME Init PROVE Inv
    OBVIOUS
  <2>1. TypeOK
    BY Constants, AtRestTypes DEF Init, TypeOK, Application, PrepStatuses
  <2>2. Placed /\ Reserved /\ FactsBelong /\ ChargedRuns
    BY Constants, AtRestTypes DEF Init, Placed, Reserved, FactsBelong, ChargedRuns, Publishing
  <2>3. PacksMatchTheirRevision /\ ChargedForBothArtifacts
    BY DEF Init, NoPack, PacksMatchTheirRevision, ChargedForBothArtifacts
  <2> QED BY <2>1, <2>2, <2>3 DEF Inv
<1>2. Inv /\ [Next]_vars => Inv'
  <2> SUFFICES ASSUME Inv, [Next]_vars PROVE Inv'
    OBVIOUS
  <2>1. CASE Next
    BY <2>1, GuestKeeps, HostKeeps, WorkerKeeps, LapseKeeps, StepKeepsInv DEF Next
  <2>2. CASE UNCHANGED vars
    BY <2>2, Frames, StepKeepsInv DEF vars, Step
  <2> QED BY <2>1, <2>2
<1> QED BY <1>1, <1>2, PTL DEF Spec

\* The types of the application, its artifacts, jobs and processes.
THEOREM PrepTypeCorrect == Spec => []TypeOK
BY Invariance, PTL DEF Inv

\* An artifact was generated from facts confirmed in the submission it is
\* stored under, whatever runs overlap, and however many guests' requests do.
THEOREM ArtifactsBelong == Spec => []PacksMatchTheirRevision
BY Invariance, PTL DEF Inv

\* Credits are settled only for a submission that has both artifacts.
THEOREM ChargesAreForPairs == Spec => []ChargedForBothArtifacts
BY Invariance, PTL DEF Inv

-----------------------------------------------------------------------------
\* Edits: whatever hosts save and workers generate at the same time, a pack with
\* edits is never without (the last transaction of processArayanlarPrepareJob
\* leaves hostEditedJson alone when it had found none).
THEOREM EditsAreNeverLost == Spec => EditedStaysEdited
<1> DEFINE Stays == \A r \in Revisions : packs[r].edit # 0 => packs'[r].edit # 0
<1>1. Inv /\ [Next]_vars => Stays
  <2> SUFFICES ASSUME Inv, [Next]_vars, NEW r \in Revisions, packs[r].edit # 0
      PROVE  packs'[r].edit # 0
    OBVIOUS
  <2>0. TypeOK /\ packs[r] \in Pack /\ saves \in Nat
    BY PrepAssumption DEF Inv, TypeOK
  <2>1. ASSUME NEW h \in Hosts, SaveEdits(h) PROVE packs'[r].edit # 0
    <3> DEFINE s == host[h].revision
               new == [packs[s] EXCEPT !.edit = saves + 1]
    <3>1. packs' = [packs EXCEPT ![s] = new]
      BY <2>0, <2>1 DEF SaveEdits, TypeOK
    <3>2. s = r => new.edit = saves + 1
      BY <2>0 DEF Pack
    <3> HIDE DEF new
    <3> QED BY <2>0, <3>1, <3>2 DEF TypeOK
  <2>2. ASSUME NEW w \in Workers, Commit(w) PROVE packs'[r].edit # 0
    <3> DEFINE s == worker[w].revision
               new == [brief |-> IF worker[w].regen /\ packs[s].brief # NoFacts
                                   THEN packs[s].brief ELSE worker[w].facts,
                       notes |-> worker[w].facts,
                       edit |-> IF worker[w].edit # 0 THEN worker[w].edit ELSE packs[s].edit]
    <3>1. packs' = [packs EXCEPT ![s] = new]
      BY <2>2 DEF Commit
    <3>2. s = r => new.edit # 0
      OBVIOUS
    <3> HIDE DEF new
    <3> QED BY <2>0, <3>1, <3>2 DEF TypeOK
  <2>3. \/ UNCHANGED packs
        \/ \E h \in Hosts : SaveEdits(h)
        \/ \E w \in Workers : Commit(w)
    BY DEF Next, vars, GuestStep, HostStep, WorkerStep, LeaseLapses, guestRest, hostRest, workerRest,
           Open, BeginReopen, Reopen, BeginDraft, WriteDraft, BeginSubmit, SubmitRefused, Unsubmit,
           Submit, BeginRevise, BeginWithdraw, CancelJob, ReleaseJob, Redraft, Withdraw, BeginRetry,
           RequeueJob, RequeuePrep, BeginReconcile, Reconcile, Reads, Authorize, BeginAssign,
           AssignHost, BeginSave, BeginRegenerate, CountRegenerations, Regenerate, Decides, Claim,
           Start, CancelWithdrawn, MarkRunning, CallProvider, Answer, Requeue, Fail,
           TellApplication, Check, CommitFails, CloseReservation
  <2> QED BY <2>1, <2>2, <2>3
<1> HIDE DEF Stays
<1>2. [][Stays]_vars => EditedStaysEdited
  BY PTL DEF Stays, EditedStaysEdited
<1> QED BY <1>1, <1>2, Invariance, PTL DEF Spec

-----------------------------------------------------------------------------
(***************************************************************************)
(* What a host reads is what was submitted. Facts of the application and the *)
(* notes of its pack are both of a submission with the revision's number, so *)
(* they are equal once a number is submitted at most once; that is so when one *)
(* person sends one request at a time.                                     *)
(***************************************************************************)

\* No revision is submitted twice, and the next is above the last.
Once ==
  /\ \A s \in submitted : s[1] <= app.revision
  /\ \A s, t \in submitted : s[1] = t[1] => s = t
  /\ \A g \in Guests : guest[g].pc = "submit" => guest[g].revision > app.revision

\* Submit is the only step that adds a submission, under the number that
\* BeginSubmit read; nothing in between moves the application's revision.
LEMMA OnceKept ==
  ASSUME NEW me, Guests = {me}, Inv, Once, [Next]_vars
  PROVE  Once'
<1>0. TypeOK /\ app.revision \in Nat /\ submitted \subseteq Revisions \X Facts
  BY Constants DEF Inv, TypeOK, Application
<1>1. ASSUME NEW f \in Facts, NEW j \in Jobs, NEW kind \in Usage, Submit(me, f, j, kind)
      PROVE  Once'
  <2> PICK r : r = guest[me].revision
    OBVIOUS
  <2>1. r \in Int /\ r > app.revision
    BY <1>0, <1>1, Constants DEF Submit, Once, Inv, Placed, TypeOK, GuestState
  <2>2. app'.revision = r /\ submitted' = submitted \cup {<<r, f>>} /\ guest'[me].pc = "idle"
    BY <1>0, <1>1, GuestEnds DEF Submit, TypeOK, Application
  <2>3. \A s \in submitted : s[1] \in Int /\ s[1] <= app.revision /\ s[1] < r
    <3>1. \A s \in submitted : s[1] \in Int
      BY <1>0, Constants DEF Revisions
    <3> QED BY <1>0, <2>1, <3>1 DEF Once
  <2>4. \A s \in submitted' : s[1] <= app'.revision
    BY <2>1, <2>2, <2>3
  <2>5. \A s, t \in submitted' : s[1] = t[1] => s = t
    BY <2>1, <2>2, <2>3 DEF Once
  <2> QED BY <2>2, <2>4, <2>5 DEF Once
<1>2. ASSUME BeginSubmit(me) PROVE Once'
  <2>1. guest' = [guest EXCEPT ![me] = [Done EXCEPT !.pc = "submit", !.revision = app.revision + 1]]
        /\ app' = app /\ submitted' = submitted
    BY <1>2 DEF BeginSubmit, Reads
  <2>2. [Done EXCEPT !.pc = "submit", !.revision = app.revision + 1].revision = app.revision + 1
    BY DEF Done
  <2>3. guest'[me].revision = app.revision + 1
    BY <1>0, <2>1, <2>2 DEF TypeOK
  <2> QED BY <1>0, <2>1, <2>3 DEF Once
<1>3. ASSUME ~BeginSubmit(me),
             \A f \in Facts, j \in Jobs, kind \in Usage : ~Submit(me, f, j, kind)
      PROVE  Once'
  <2>1. submitted' = submitted
    BY <1>3 DEF Next, vars, GuestStep, HostStep, WorkerStep, LeaseLapses, guestRest, hostRest, workerRest,
           Open, BeginReopen, Reopen, BeginDraft, WriteDraft, SubmitRefused, Unsubmit,
           BeginRevise, BeginWithdraw, CancelJob, ReleaseJob, Redraft, Withdraw, BeginRetry,
           RequeueJob, RequeuePrep, BeginReconcile, Reconcile, Reads, Authorize, BeginAssign,
           AssignHost, BeginSave, SaveEdits, BeginRegenerate, CountRegenerations, Regenerate, Decides, Claim, Start,
           CancelWithdrawn, MarkRunning, CallProvider, Answer, Requeue, Fail, TellApplication, Check,
           Commit, CommitFails, CloseReservation
  <2>2. app'.revision = app.revision
    <3>0. app \in Application
      BY <1>0 DEF TypeOK
    <3>1. CASE \/ Open(me) \/ Reopen(me) \/ WriteDraft(me) \/ Unsubmit(me) \/ Redraft(me)
               \/ Withdraw(me) \/ RequeuePrep(me) \/ Reconcile(me)
      BY <3>0, <3>1 DEF Application, Open, Reopen, WriteDraft, Unsubmit, Redraft, Withdraw,
                        RequeuePrep, Reconcile
    <3>2. CASE \E h \in Hosts : AssignHost(h)
      BY <3>0, <3>2 DEF Application, AssignHost
    <3>3. CASE \E w \in Workers : MarkRunning(w) \/ Commit(w) \/ TellApplication(w)
      BY <3>0, <3>3 DEF Application, MarkRunning, Commit, TellApplication
    <3>4. \/ app' = app
          \/ Open(me) \/ Reopen(me) \/ WriteDraft(me) \/ Unsubmit(me) \/ Redraft(me)
          \/ Withdraw(me) \/ RequeuePrep(me) \/ Reconcile(me)
          \/ \E h \in Hosts : AssignHost(h)
          \/ \E w \in Workers : MarkRunning(w) \/ Commit(w) \/ TellApplication(w)
      BY <1>3 DEF Next, vars, GuestStep, HostStep, WorkerStep, LeaseLapses, workerRest, hostRest,
           BeginReopen, BeginDraft, SubmitRefused, BeginRevise, BeginWithdraw, CancelJob,
           ReleaseJob, BeginRetry, RequeueJob, BeginReconcile, Reads, Authorize, BeginAssign,
           BeginSave, SaveEdits, BeginRegenerate, CountRegenerations, Regenerate, Decides, Claim, Start,
           CancelWithdrawn, CallProvider, Answer, Requeue, Fail, Check, CommitFails,
           CloseReservation
    <3> QED BY <3>1, <3>2, <3>3, <3>4
  <2>3. guest'[me].pc = "submit" => guest'[me] = guest[me]
    <3>1. \/ guest' = guest \/ Ends(me)
          \/ \E pc \in {"idle", "reopen", "draft", "unsubmit", "redraft", "withdraw",
                        "requeuePrep", "heal"} : Goes(me, pc)
          \/ \E next \in {"redraft", "withdraw"} :
               guest' = [guest EXCEPT ![me] = [Done EXCEPT !.pc = "cancelJob", !.next = next,
                                                           !.job = app.job]]
          \/ guest' = [guest EXCEPT ![me].pc = "releaseJob"]
          \/ guest' = [guest EXCEPT ![me] = [Done EXCEPT !.pc = "requeueJob", !.job = app.job]]
      <4>1. guest[me].next \in {"idle", "redraft", "withdraw"}
        BY <1>0 DEF TypeOK, GuestState
      <4>2. CASE GuestStep(me)
        BY <1>3, <4>1, <4>2 DEF GuestStep, Reads,
           Open, BeginReopen, Reopen, BeginDraft, WriteDraft, SubmitRefused, Unsubmit,
           BeginRevise, BeginWithdraw, CancelJob, ReleaseJob, Redraft, Withdraw, BeginRetry,
           RequeueJob, RequeuePrep, BeginReconcile, Reconcile
      <4>3. CASE ~GuestStep(me)
        BY <4>3 DEF Next, vars, HostStep, WorkerStep, LeaseLapses, hostRest,
           workerRest, Authorize, BeginAssign,
           AssignHost, BeginSave, SaveEdits, BeginRegenerate, CountRegenerations, Regenerate, Decides, Claim, Start,
           CancelWithdrawn, MarkRunning, CallProvider, Answer, Requeue, Fail, TellApplication, Check,
           Commit, CommitFails, CloseReservation
      <4> QED BY <4>2, <4>3
    <3>3. \A pc \in {"idle", "reopen", "draft", "unsubmit", "redraft", "withdraw",
                        "requeuePrep", "heal"} : Goes(me, pc) => guest'[me].pc # "submit"
      BY <1>0, GuestGoes
    <3>4. Ends(me) => guest'[me].pc # "submit"
      BY <1>0, GuestEnds
    <3>5. ASSUME NEW next \in {"redraft", "withdraw"},
               guest' = [guest EXCEPT ![me] = [Done EXCEPT !.pc = "cancelJob", !.next = next,
                                                           !.job = app.job]]
          PROVE guest'[me].pc # "submit"
      BY <1>0, <3>5 DEF TypeOK, Done
    <3>6. guest' = [guest EXCEPT ![me].pc = "releaseJob"] => guest'[me].pc # "submit"
      BY <1>0 DEF TypeOK, GuestState
    <3>7. guest' = [guest EXCEPT ![me] = [Done EXCEPT !.pc = "requeueJob", !.job = app.job]]
            => guest'[me].pc # "submit"
      BY <1>0 DEF TypeOK, Done
    <3> QED BY <3>1, <3>3, <3>4, <3>5, <3>6, <3>7
  <2> QED BY <2>1, <2>2, <2>3 DEF Once
<1> QED BY <1>1, <1>2, <1>3

\* The notes of a finished preparation are about the facts confirmed last,
\* for a guest who has one request under way at a time (two tabs that submit
\* at once may confirm different facts under one number).
THEOREM HostsReadTheSubmission ==
  ASSUME NEW me, Guests = {me}
  PROVE  Spec => []HostReadsWhatWasSubmitted
<1>1. Init => Once
  <2> SUFFICES ASSUME Init PROVE Once
    OBVIOUS
  <2> QED BY AtRestTypes DEF Init, Once
<1>2. Inv /\ Once /\ [Next]_vars => Once'
  BY OnceKept
<1>3. Inv /\ Once => HostReadsWhatWasSubmitted
  <2> SUFFICES ASSUME Inv, Once, app.facts # NoFacts, packs[app.revision].notes # NoFacts
               PROVE  packs[app.revision].notes = app.facts
    BY DEF HostReadsWhatWasSubmitted
  <2>1. <<app.revision, app.facts>> \in submitted
    BY DEF Inv, FactsBelong
  <2>2. app.revision \in Revisions
    BY <2>1 DEF Inv, TypeOK
  <2>3. <<app.revision, packs[app.revision].notes>> \in submitted
    BY <2>2 DEF Inv, PacksMatchTheirRevision
  <2>4. \A s, t \in submitted : s[1] = t[1] => s = t
    BY DEF Once
  <2>5. <<app.revision, app.facts>> = <<app.revision, packs[app.revision].notes>>
    BY <2>1, <2>3, <2>4
  <2> QED BY <2>5
<1> QED BY <1>1, <1>2, <1>3, Invariance, PTL DEF Spec

-----------------------------------------------------------------------------
(***************************************************************************)
(* No credit is stranded. The invariant is sharper than the property: a held *)
(* reservation is on a job that may still run, or a worker or a guest stands *)
(* exactly before the statement that closes it.                            *)
(***************************************************************************)

\* The job will be claimed again, or is under way.
MayRun(j) ==
  job[j].status \in {"QUEUED", "RUNNING"} \/ (job[j].status = "FAILED" /\ ~Exhausted(j))
\* Somebody's next statement closes the reservation.
WillClose(j) ==
  \/ \E w \in Workers : worker[w].pc \in {"settle", "release"} /\ worker[w].job = j
  \/ \E g \in Guests : guest[g].pc = "releaseJob" /\ guest[g].job = j
\* The inductive invariant.
Followed == \A j \in Jobs : hold[j] = "held" => MayRun(j) \/ WillClose(j)

\* A reservation that is held after a step is on a job that may run, somebody
\* is about to close it, or it was already the latter that kept it.
RowsFollow ==
  \A j \in Jobs : hold'[j] = "held" =>
    MayRun(j)' \/ WillClose(j)' \/ (hold[j] = "held" /\ ~MayRun(j))

\* Whoever is about to close a reservation does, or stays.
ClosersFollow ==
  /\ \A w \in Workers : worker[w].pc \in {"settle", "release"} =>
       worker'[w] = worker[w] \/ hold'[worker[w].job] # "held"
  /\ \A g \in Guests : guest[g].pc = "releaseJob" =>
       guest'[g] = guest[g] \/ hold'[guest[g].job] # "held"

\* The two halves of a step: what it does to rows and reservations, and what it
\* does to those who are about to close one.
LEMMA FollowedKept == Followed /\ RowsFollow /\ ClosersFollow => Followed'
<1> SUFFICES ASSUME Followed, RowsFollow, ClosersFollow, NEW j \in Jobs, hold'[j] = "held"
             PROVE  MayRun(j)' \/ WillClose(j)'
  BY DEF Followed
<1>1. CASE hold[j] = "held" /\ ~MayRun(j)
  <2>1. WillClose(j)
    BY <1>1 DEF Followed
  <2> QED BY <2>1 DEF WillClose, ClosersFollow
<1> QED BY <1>1 DEF RowsFollow

\* One row changes.
LEMMA OneRow ==
  ASSUME TypeOK, NEW j \in Jobs, NEW row, job' = [job EXCEPT ![j] = row],
         \A i \in Jobs \ {j} : hold'[i] = hold[i],
         hold'[j] = "held" => MayRun(j)' \/ WillClose(j)' \/ (hold[j] = "held" /\ ~MayRun(j))
  PROVE  RowsFollow
<1>1. ASSUME NEW i \in Jobs \ {j}, hold'[i] = "held"
      PROVE  MayRun(i)' \/ (hold[i] = "held" /\ ~MayRun(i))
  BY <1>1 DEF TypeOK, MayRun, Exhausted, LimitOf
<1> QED BY <1>1 DEF RowsFollow

\* No row changes and no reservation is made.
LEMMA RowsRest ==
  ASSUME TypeOK, UNCHANGED job, \A j \in Jobs : hold'[j] = "held" => hold[j] = "held"
  PROVE  RowsFollow
BY DEF RowsFollow, MayRun, Exhausted, LimitOf

\* A process that is not about to close anything moves.
LEMMA ClosersRest ==
  ASSUME TypeOK
  PROVE  /\ UNCHANGED <<worker, guest>> => ClosersFollow
         /\ \A w \in Workers : worker[w].pc \notin {"settle", "release"} /\ UNCHANGED guest
              /\ (\A v \in Workers \ {w} : worker'[v] = worker[v]) => ClosersFollow
         /\ \A g \in Guests : guest[g].pc # "releaseJob" /\ UNCHANGED worker
              /\ (\A f \in Guests \ {g} : guest'[f] = guest[f]) => ClosersFollow
BY DEF ClosersFollow

\* A withdrawal or a revision cancels the job and goes on to release it; a
\* retry and a submission leave a job that may run.
LEMMA GuestFollows ==
  ASSUME Inv, NEW g \in Guests, GuestStep(g)
  PROVE  RowsFollow /\ ClosersFollow
<1>0. TypeOK /\ UNCHANGED worker
  BY DEF Inv, GuestStep, Reads, guestRest, Open, BeginReopen, Reopen, BeginDraft, WriteDraft,
     BeginSubmit, SubmitRefused, Unsubmit, Submit, BeginRevise, BeginWithdraw, CancelJob, ReleaseJob,
     Redraft, Withdraw, BeginRetry, RequeueJob, RequeuePrep, BeginReconcile, Reconcile
<1>1. \A f \in Guests \ {g} : guest'[f] = guest[f]
  BY <1>0 DEF TypeOK, GuestStep, Reads, Goes, Ends, Open, BeginReopen, Reopen, BeginDraft, WriteDraft,
     BeginSubmit, SubmitRefused, Unsubmit, Submit, BeginRevise, BeginWithdraw, CancelJob, ReleaseJob,
     Redraft, Withdraw, BeginRetry, RequeueJob, RequeuePrep, BeginReconcile, Reconcile
<1>2. CASE guest[g].pc = "releaseJob"
  <2>1. ReleaseJob(g)
    BY <1>2, AtRestTypes DEF GuestStep, Free, Open, BeginReopen, Reopen, BeginDraft, WriteDraft,
     BeginSubmit, SubmitRefused, Unsubmit, Submit, BeginRevise, BeginWithdraw, CancelJob,
     Redraft, Withdraw, BeginRetry, RequeueJob, RequeuePrep, BeginReconcile, Reconcile
  <2>2. guest[g].job \in Jobs /\ UNCHANGED job
    BY <1>2, <2>1 DEF Inv, Placed, ReleaseJob
  <2>3. hold'[guest[g].job] # "held" /\ \A j \in Jobs : hold'[j] = "held" => hold[j] = "held"
    BY <1>0, <2>1, <2>2 DEF ReleaseJob, Close, TypeOK
  <2>4. RowsFollow
    BY <1>0, <2>2, <2>3, RowsRest
  <2> QED BY <1>0, <1>1, <2>3, <2>4 DEF ClosersFollow
<1>3. CASE guest[g].pc # "releaseJob"
  <2>1. ClosersFollow
    BY <1>0, <1>1, <1>3, ClosersRest
  <2>2. CASE CancelJob(g)
    <3> PICK j : j = guest[g].job
      OBVIOUS
    <3> PICK row : row = [job[j] EXCEPT !.status = "CANCELLED"]
      OBVIOUS
    <3>1. j \in Jobs
      BY <2>2 DEF Inv, Placed, CancelJob
    <3>2. hold' = hold /\ (job' = job \/ job' = [job EXCEPT ![j] = row])
      BY <1>0, <2>2, <3>1 DEF CancelJob, TypeOK
    <3>3. WillClose(j)'
      <4>1. guest'[g].pc = "releaseJob" /\ guest'[g].job = j
        BY <1>0, <2>2 DEF CancelJob, TypeOK, GuestState
      <4> QED BY <4>1 DEF WillClose
    <3>4. CASE job' = job
      <4>1. UNCHANGED job /\ \A i \in Jobs : hold'[i] = "held" => hold[i] = "held"
        BY <3>2, <3>4
      <4> QED BY <1>0, <2>1, <4>1, RowsRest
    <3>5. CASE job' = [job EXCEPT ![j] = row]
      <4>1. \A i \in Jobs \ {j} : hold'[i] = hold[i]
        BY <3>2
      <4> QED BY <1>0, <2>1, <3>1, <3>3, <3>5, <4>1, OneRow
    <3> QED BY <2>1, <3>2, <3>4, <3>5
  <2>3. CASE RequeueJob(g)
    <3> PICK j : j = guest[g].job
      OBVIOUS
    <3> PICK row : row = Unleased(job[j], "QUEUED")
      OBVIOUS
    <3>1. j \in Jobs /\ job[j] \in Row
      BY <1>0, <2>3 DEF Inv, Placed, RequeueJob, TypeOK
    <3>2. row.status = "QUEUED"
      BY <3>1 DEF Unleased, Row
    <3>3. job' = [job EXCEPT ![j] = row] /\ hold' = hold
      BY <2>3 DEF RequeueJob
    <3>4. MayRun(j)'
      BY <1>0, <3>1, <3>2, <3>3 DEF MayRun, TypeOK
    <3> QED BY <1>0, <2>1, <3>1, <3>3, <3>4, OneRow
  <2>4. ASSUME NEW f \in Facts, NEW j \in Jobs, NEW kind \in Usage, Submit(g, f, j, kind)
        PROVE  RowsFollow
    <3> DEFINE row == [NoRow EXCEPT !.status = "QUEUED", !.revision = guest[g].revision]
    <3>1. row.status = "QUEUED"
      BY DEF NoRow
    <3>2. job' = [job EXCEPT ![j] = row] /\ hold' = [hold EXCEPT ![j] = kind]
      BY <2>4 DEF Submit
    <3> HIDE DEF row
    <3>3. MayRun(j)' /\ \A i \in Jobs \ {j} : hold'[i] = hold[i]
      BY <1>0, <3>1, <3>2 DEF MayRun, TypeOK
    <3> QED BY <1>0, <3>2, <3>3, OneRow
  <2>5. CASE UNCHANGED <<job, hold>>
    BY <1>0, <2>1, <2>5, RowsRest
  <2>6. \/ CancelJob(g) \/ RequeueJob(g) \/ UNCHANGED <<job, hold>>
        \/ \E f \in Facts, j \in Jobs, kind \in Usage : Submit(g, f, j, kind)
    BY <1>3 DEF GuestStep, Reads, Open, BeginReopen, Reopen, BeginDraft, WriteDraft,
     BeginSubmit, SubmitRefused, Unsubmit, BeginRevise, BeginWithdraw, ReleaseJob,
     Redraft, Withdraw, BeginRetry, RequeuePrep, BeginReconcile, Reconcile
  <2> QED BY <2>1, <2>2, <2>3, <2>4, <2>5, <2>6
<1> QED BY <1>2, <1>3

\* A host's regeneration reserves nothing.
LEMMA HostFollows ==
  ASSUME Inv, NEW h \in Hosts, HostStep(h)
  PROVE  RowsFollow /\ ClosersFollow
<1>0. TypeOK /\ UNCHANGED <<worker, guest>>
  BY DEF Inv, HostStep, hostRest, Authorize, BeginAssign, AssignHost, BeginSave, SaveEdits,
         BeginRegenerate, CountRegenerations, Regenerate
<1>1. ClosersFollow
  BY <1>0, ClosersRest
<1>2. ASSUME NEW j \in Jobs, Regenerate(h, j) PROVE RowsFollow
  <2> PICK row : row = [NoRow EXCEPT !.status = "QUEUED", !.by = "host", !.regen = TRUE,
                                     !.revision = host[h].revision]
    OBVIOUS
  <2>1. job' = [job EXCEPT ![j] = row] /\ hold' = [hold EXCEPT ![j] = "free"]
    BY <1>2 DEF Regenerate
  <2>2. hold'[j] # "held" /\ \A i \in Jobs \ {j} : hold'[i] = hold[i]
    BY <1>0, <2>1 DEF TypeOK
  <2> QED BY <1>0, <2>1, <2>2, OneRow
<1>3. CASE job' = job /\ hold' = hold
  <2>1. UNCHANGED job /\ \A j \in Jobs : hold'[j] = "held" => hold[j] = "held"
    BY <1>3
  <2> QED BY <1>0, <1>1, <2>1, RowsRest
<1> QED BY <1>1, <1>2, <1>3 DEF HostStep, hostRest, Authorize, BeginAssign, AssignHost, BeginSave,
                               SaveEdits, BeginRegenerate, CountRegenerations

\* A worker that ends a job closes its reservation with the row, in the same
\* transaction (fail, an exhausted claim), or goes on to do so (commit, cancel).
LEMMA WorkerFollows ==
  ASSUME Inv, NEW w \in Workers, WorkerStep(w)
  PROVE  RowsFollow /\ ClosersFollow
<1>0. TypeOK /\ UNCHANGED guest
  BY DEF Inv, WorkerStep, Decides, workerRest, Claim, Start, CancelWithdrawn, MarkRunning, CallProvider, Answer,
         Requeue, Fail, TellApplication, Check, Commit, CommitFails, CloseReservation
<1>1. \A v \in Workers \ {w} : worker'[v] = worker[v]
  BY <1>0 DEF TypeOK, WorkerStep, Moves, Leaves, Works, Claim, Start, CancelWithdrawn, MarkRunning, CallProvider,
     Answer, Requeue, Fail, TellApplication, Check, Commit, CommitFails, CloseReservation
<1> PICK j : j = worker[w].job
  OBVIOUS
<1>2. worker[w].pc # "idle" => j \in Jobs /\ job[j] \in Row
  BY DEF Inv, Placed, TypeOK
<1>3. CASE CloseReservation(w)
  <2>1. j \in Jobs /\ UNCHANGED job
    BY <1>2, <1>3 DEF CloseReservation, At
  <2>2. hold'[j] # "held" /\ \A i \in Jobs : hold'[i] = "held" => hold[i] = "held"
    BY <1>0, <1>3, <2>1 DEF CloseReservation, Close, TypeOK
  <2>3. RowsFollow
    BY <1>0, <2>1, <2>2, RowsRest
  <2> QED BY <1>0, <1>1, <2>2, <2>3 DEF ClosersFollow
<1>4. CASE ~CloseReservation(w)
  <2>1. worker[w].pc \notin {"settle", "release"}
    BY <1>4 DEF WorkerStep, At, Claim, Start, CancelWithdrawn, MarkRunning, CallProvider,
       Answer, Requeue, Fail, TellApplication, Check, Commit, CommitFails
  <2>2. ClosersFollow
    BY <1>0, <1>1, <2>1, ClosersRest
  <2>3. CASE Claim(w)
    <3>1. PICK i \in Jobs :
        IF Exhausted(i)
          THEN job' = [job EXCEPT ![i] = Unleased(job[i], "FAILED")] /\ hold' = Close(i, "released")
          ELSE /\ job' = [job EXCEPT ![i] = [job[i] EXCEPT !.status = "RUNNING", !.owner = w,
                            !.lapsed = FALSE, !.attempts = job[i].attempts + 1]]
               /\ hold' = hold
      BY <1>0, <2>3 DEF Claim, TypeOK
    <3>2. CASE Exhausted(i)
      <4>1. hold'[i] # "held" /\ \A k \in Jobs \ {i} : hold'[k] = hold[k]
        BY <1>0, <3>1, <3>2 DEF Close, TypeOK
      <4>2. PICK row : job' = [job EXCEPT ![i] = row]
        BY <3>1, <3>2
      <4> QED BY <1>0, <2>2, <4>1, <4>2, OneRow
    <3>3. CASE ~Exhausted(i)
      <4> DEFINE row == [job[i] EXCEPT !.status = "RUNNING", !.owner = w,
                            !.lapsed = FALSE, !.attempts = job[i].attempts + 1]
      <4>1. row.status = "RUNNING"
        BY <1>0 DEF TypeOK, Row
      <4>2. job' = [job EXCEPT ![i] = row] /\ hold' = hold
        BY <3>1, <3>3
      <4> HIDE DEF row
      <4>3. MayRun(i)'
        BY <1>0, <4>1, <4>2 DEF MayRun, TypeOK
      <4> QED BY <1>0, <2>2, <4>2, <4>3, OneRow
    <3> QED BY <3>2, <3>3
  <2>4. CASE CancelWithdrawn(w)
    <3>1. j \in Jobs /\ hold' = hold
      BY <1>2, <2>4 DEF CancelWithdrawn, At
    <3>2. PICK row : job' = [job EXCEPT ![j] = row]
      BY <2>4 DEF CancelWithdrawn
    <3>3. WillClose(j)'
      <4>1. worker'[w].pc = "release" /\ worker'[w].job = j
        BY <1>0, <2>4, WorkerMoves DEF CancelWithdrawn, WorkerPcs
      <4> QED BY <4>1 DEF WillClose
    <3> QED BY <1>0, <2>2, <3>1, <3>2, <3>3, OneRow
  <2>5. CASE CallProvider(w)
    <3>1. j \in Jobs /\ job[j] \in Row /\ hold' = hold
      BY <1>2, <2>5 DEF CallProvider, At
    <3>2. CASE job' = job
      BY <1>0, <2>2, <3>1, <3>2, RowsRest
    <3>3. CASE job' = [job EXCEPT ![j] = [job[j] EXCEPT !.lapsed = FALSE]]
      <4> DEFINE row == [job[j] EXCEPT !.lapsed = FALSE]
      <4>1. row.status = job[j].status /\ row.attempts = job[j].attempts /\ row.by = job[j].by
        BY <3>1 DEF Row
      <4> HIDE DEF row
      <4>2. job'[j] = row
        BY <1>0, <3>1, <3>3 DEF TypeOK, row
      <4>3. MayRun(j)' <=> MayRun(j)
        BY <4>1, <4>2 DEF MayRun, Exhausted, LimitOf
      <4>4. job' = [job EXCEPT ![j] = row]
        BY <3>3 DEF row
      <4> QED BY <1>0, <2>2, <3>1, <4>3, <4>4, OneRow
    <3> QED BY <1>0, <2>5, <3>2, <3>3 DEF CallProvider, TypeOK
  <2>6. CASE Requeue(w)
    <3>1. j \in Jobs /\ job[j] \in Row /\ hold' = hold
      BY <1>2, <2>6 DEF Requeue, At
    <3>2. PICK row : row = Outcome(job[j], "QUEUED") /\ row.status = "QUEUED"
      BY <3>1, RowRewritten DEF Statuses
    <3>3. job' = [job EXCEPT ![j] = row]
      BY <2>6, <3>2 DEF Requeue
    <3>4. MayRun(j)'
      BY <1>0, <3>1, <3>2, <3>3 DEF MayRun, TypeOK
    <3> QED BY <1>0, <2>2, <3>1, <3>3, <3>4, OneRow
  <2>7. CASE Fail(w)
    <3>1. j \in Jobs /\ job[j] \in Row
      BY <1>2, <2>7 DEF Fail, At
    <3>2. PICK row : row = Outcome(job[j], "FAILED")
      OBVIOUS
    <3>3. row.status = "FAILED" /\ row.attempts = job[j].attempts /\ row.by = job[j].by
      BY <3>1, <3>2 DEF Outcome, Unleased, Row
    <3>4. job' = [job EXCEPT ![j] = row] /\ hold' = FailedHold(j)
      BY <2>7, <3>2 DEF Fail
    <3>5. \A i \in Jobs \ {j} : hold'[i] = hold[i]
      BY <1>0, <3>4 DEF FailedHold, Close, TypeOK
    <3>6. hold'[j] = "held" => MayRun(j)'
      <4>1. CASE Exhausted(j)
        BY <1>0, <3>1, <3>4, <4>1 DEF FailedHold, Close, TypeOK
      <4>2. CASE ~Exhausted(j)
        <5>1. job'[j] = row
          BY <1>0, <3>1, <3>4 DEF TypeOK
        <5> QED BY <3>3, <4>2, <5>1 DEF MayRun, Exhausted, LimitOf
      <4> QED BY <4>1, <4>2
    <3> QED BY <1>0, <2>2, <3>1, <3>4, <3>5, <3>6, OneRow
  <2>8. CASE Commit(w)
    <3>1. j \in Jobs /\ hold' = hold
      BY <1>2, <2>8 DEF Commit, At
    <3>2. PICK row : job' = [job EXCEPT ![j] = row]
      BY <2>8 DEF Commit
    <3>3. hold'[j] = "held" => WillClose(j)'
      <4> SUFFICES ASSUME hold'[j] = "held" PROVE WillClose(j)'
        OBVIOUS
      <4>1. Moves(w, "settle")
        BY <2>8, <3>1 DEF Commit
      <4>2. worker'[w].pc = "settle" /\ worker'[w].job = j
        BY <1>0, <4>1, WorkerMoves DEF WorkerPcs
      <4> QED BY <4>2 DEF WillClose
    <3> QED BY <1>0, <2>2, <3>1, <3>2, <3>3, OneRow
  <2>9. CASE UNCHANGED <<job, hold>>
    BY <1>0, <2>2, <2>9, RowsRest
  <2> QED BY <1>4, <2>3, <2>4, <2>5, <2>6, <2>7, <2>8, <2>9
          DEF WorkerStep, Decides, Start, MarkRunning, Answer, TellApplication, Check, CommitFails
<1> QED BY <1>3, <1>4

\* A lease that lapses leaves the job to the next claim.
LEMMA LapseFollows ==
  ASSUME Inv, NEW j \in Jobs, LeaseLapses(j)
  PROVE  RowsFollow /\ ClosersFollow
<1>1. TypeOK /\ UNCHANGED <<worker, guest>> /\ hold' = hold /\ job[j] \in Row
  BY DEF Inv, TypeOK, LeaseLapses, workerRest
<1>2. PICK row : row = [job[j] EXCEPT !.lapsed = TRUE]
  OBVIOUS
<1>3. job' = [job EXCEPT ![j] = row] /\ row.status = job[j].status /\ job[j].status = "RUNNING"
  BY <1>1, <1>2 DEF LeaseLapses, TypeOK, Row
<1>4. MayRun(j)'
  BY <1>1, <1>3 DEF MayRun, TypeOK
<1> QED BY <1>1, <1>3, <1>4, OneRow, ClosersRest

\* Every step keeps the invariant.
LEMMA AlwaysFollowed == Spec => []Followed
<1>1. Init => Followed
  BY DEF Init, Followed
<1>2. Inv /\ Followed /\ [Next]_vars => Followed'
  <2> SUFFICES ASSUME Inv, Followed, [Next]_vars PROVE Followed'
    OBVIOUS
  <2>1. CASE Next
    BY <2>1, GuestFollows, HostFollows, WorkerFollows, LapseFollows, FollowedKept DEF Next
  <2>2. CASE UNCHANGED vars
    <3>1. job' = job /\ hold' = hold /\ worker' = worker /\ guest' = guest
      BY <2>2 DEF vars
    <3> QED BY <3>1 DEF Followed, MayRun, WillClose, Exhausted, LimitOf
  <2> QED BY <2>1, <2>2
<1> QED BY <1>1, <1>2, Invariance, PTL DEF Spec

\* Reservations: under every interleaving of withdrawals, revisions, retries,
\* claims, lapsed leases and late answers, a held credit is on a job that may
\* still run or that somebody is about to close (jobs.ts and service.ts).
THEOREM NoCreditIsStranded == Spec => []NoStrandedCredit
<1>1. Followed => NoStrandedCredit
  BY DEF Followed, MayRun, WillClose, NoStrandedCredit, AboutToClose
<1> QED BY <1>1, AlwaysFollowed, PTL

-----------------------------------------------------------------------------
(***************************************************************************)
(* The guest's page.                                                       *)
(*                                                                         *)
(* A chat message is written from the draft it has read, whatever the      *)
(* application has become.  So the budget is kept only because every draft *)
(* that was read, by the page's message and by those that are late, was    *)
(* within it: a stored draft within the budget says nothing of the next.   *)
(***************************************************************************)
DraftOk(d) == d \in Draft /\ Within(d)
AppOk(a) == a \in GuestApplication /\ Within(a.draft)

\* A job that waits may be tried once more.
JobOk(j) == j \in Job /\ (j.status = "QUEUED" => j.attempts < PrepAttempts)

\* The application, its job, and the messages that were read and not written.
ServerOk ==
  /\ AppOk(application) /\ JobOk(prepJob) /\ cvs \in BOOLEAN /\ agreed \in BOOLEAN
  /\ late \subseteq Draft \X BOOLEAN /\ \A c \in late : Within(c[1])
  /\ requeuing \in BOOLEAN /\ preparer \in Preparers

\* What the page awaits holds a draft that was read.
CallOk(c) == c \in Call /\ Within(c.read)

GuestInv ==
  /\ ServerOk /\ CallOk(call)
  /\ page \in PageState /\ loads \in [Loads -> Load] /\ clicks \in Nat

-----------------------------------------------------------------------------
\* The question that comes first is one of those that are open.
LEMMA FirstIsKey ==
  ASSUME NEW S, S \subseteq Keys, S # {}
  PROVE  First(S) \in S
<1>1. S \subseteq Nat
  BY GuestPageAssumption
<1>2. PICK n \in S : \A k \in S : <<k, n>> \notin OpToRel(<, Nat)
  BY <1>1, WFMin, NatLessThanWellFounded
<1>3. \A k \in S : ~(k < n)
  BY <1>1, <1>2 DEF OpToRel
<1>4. \A k \in S : n <= k
  BY <1>1, <1>3
<1> QED BY <1>4 DEF First

\* At the budget there is no next question.
LEMMA NextQuestion ==
  ASSUME NEW answers, NEW asked \in Nat
  PROVE  /\ nextQuestionKey(answers, asked) \in Asked \cup {NoKey}
         /\ asked >= MaxQuestions => nextQuestionKey(answers, asked) = NoKey
<1>1. ASSUME ~(Keys \subseteq answers) PROVE First(Keys \ answers) \in Keys
  BY <1>1, FirstIsKey
<1> QED BY <1>1 DEF nextQuestionKey, Asked

\* An interview that opens, or opens again, has asked nothing.
LEMMA OpenedOk ==
  ASSUME NEW seed \in SUBSET Keys
  PROVE  DraftOk(Opened(seed))
<1>1. nextQuestionKey(seed, 0) \in Asked \cup {NoKey} /\ MaxQuestions \in Nat \ {0}
  BY NextQuestion, GuestPageAssumption
<1> QED BY <1>1 DEF DraftOk, Opened, Draft, Within

\* A question is answered below the budget only, so that the answer may reach it.
LEMMA AnsweredOk ==
  ASSUME NEW d, DraftOk(d), NEW fills \in BOOLEAN
  PROVE  DraftOk(Answered(d, fills))
<1>1. d \in Draft /\ Within(d) /\ MaxQuestions \in Nat /\ d.asked \in Nat
  BY GuestPageAssumption DEF DraftOk, Draft
<1>2. CASE KeyOf(d) = NoKey
  BY <1>2 DEF Answered
<1>3. CASE KeyOf(d) # NoKey
  <2>1. d.asked < MaxQuestions
    BY <1>1, <1>3, NextQuestion DEF KeyOf, Within
  <2> PICK answers : answers = IF fills THEN d.answers \cup ({KeyOf(d)} \cap Keys) ELSE d.answers
    OBVIOUS
  <2> PICK key : key = nextQuestionKey(answers, d.asked + 1)
    OBVIOUS
  <2>2. answers \in SUBSET Keys
    BY <1>1 DEF Draft
  <2>3. key \in Asked \cup {NoKey} /\ (d.asked + 1 >= MaxQuestions => key = NoKey)
    BY <1>1, NextQuestion
  <2>4. Answered(d, fills) = [answers |-> answers, key |-> key, asked |-> d.asked + 1]
    BY <1>3 DEF Answered
  <2> QED BY <1>1, <2>1, <2>2, <2>3, <2>4 DEF DraftOk, Draft, Within
<1> QED BY <1>2, <1>3

\* The write of a message that has read d.
LEMMA AnswersOk ==
  ASSUME AppOk(application), NEW d, DraftOk(d), NEW fills \in BOOLEAN
  PROVE  AppOk(Answers(d, fills))
<1> PICK e : e = Answered(d, fills)
  OBVIOUS
<1>1. DraftOk(e)
  BY AnsweredOk
<1>2. Answers(d, fills) =
        [application EXCEPT !.draft = e, !.status = IF e.key = NoKey THEN "AWAITING_CONFIRMATION" ELSE "DRAFT"]
  BY DEF Answers
<1> QED BY <1>1, <1>2 DEF DraftOk, AppOk, GuestApplication, AppStatuses

-----------------------------------------------------------------------------
(***************************************************************************)
(* The page's values, and the initial states.                              *)
(***************************************************************************)
LEMMA Values ==
  /\ NoView \in View /\ JobOk(NoPrepJob) /\ NoLoad \in Load /\ DraftOk(Rest.read)
  /\ CallOk(Rest)
  /\ \A b \in BOOLEAN : FreshPage(b) \in PageState
<1>0. PrepAttempts \in Nat \ {0} /\ MaxQuestions \in Nat \ {0}
  BY GuestPageAssumption
<1>1. NoView \in View
  BY DEF NoView, View, AppStatuses, Preps
<1>2. NoPrepJob \in Job /\ JobOk(NoPrepJob)
  BY <1>0 DEF NoPrepJob, Job, JobStatuses, JobOk
<1>3. NoLoad \in Load
  BY <1>1, <1>2 DEF NoLoad, Load
<1>4. DraftOk(Rest.read)
  BY <1>0 DEF Rest, DraftOk, Draft, Within
<1>5. CallOk(Rest)
  BY <1>1, <1>2, <1>4 DEF CallOk, DraftOk, Rest, Call
<1>6. \A b \in BOOLEAN : FreshPage(b) \in PageState
  BY <1>1, <1>2 DEF FreshPage, PageState
<1> QED BY <1>1, <1>2, <1>3, <1>4, <1>5, <1>6

LEMMA ViewOfOk ==
  ASSUME NEW a, AppOk(a) PROVE ViewOf(a) \in View
BY DEF AppOk, GuestApplication, View, ViewOf

Kinds == {"none", "confirm", "send", "form", "cv", "submit", "retry", "withdraw", "revise"}

\* The calls an action of the guest, and an answer of the server, leave.
LEMMA KindOk ==
  ASSUME NEW k \in Kinds
  PROVE  /\ CallOk(Kind(k))
         /\ \A fills \in BOOLEAN : CallOk([Kind(k) EXCEPT !.fills = fills])
         /\ \A view \in View, ok \in BOOLEAN :
              CallOk([Kind(k) EXCEPT !.pc = "back", !.ok = ok, !.view = view])
         /\ CallOk([Kind(k) EXCEPT !.pc = "back"])
         /\ \A view \in View : CallOk([Kind(k) EXCEPT !.pc = "back", !.view = view])
         /\ CallOk([Kind(k) EXCEPT !.pc = "load"])
<1>1. Rest \in Call /\ Within(Rest.read)
  BY Values DEF CallOk
<1> QED BY <1>1 DEF CallOk, Kind, Call, Kinds

LEMMA LoadsOk ==
  ASSUME loads \in [Loads -> Load], NEW l \in Loads,
         NEW for \in {"page", "poll", "check", "call"}, Begins(l, for)
  PROVE  loads' \in [Loads -> Load]
<1>1. [NoLoad EXCEPT !.for = for] \in Load
  BY Values DEF Load
<1> QED BY <1>1 DEF Begins

LEMMA FirstLoadOk ==
  [l \in Loads |-> IF l = First(Loads) THEN [NoLoad EXCEPT !.for = "page"] ELSE NoLoad]
    \in [Loads -> Load]
<1>1. NoLoad \in Load /\ [NoLoad EXCEPT !.for = "page"] \in Load
  BY Values DEF Load
<1> QED BY <1>1

LEMMA Initially ==
  ASSUME PageInit PROVE GuestInv
<1>1. PICK s \in Starts : application = s.app /\ clicks = s.clicks /\ cvs = s.cvs /\ page = FreshPage(s.fromCv)
  BY DEF PageInit
<1>2. AppOk(application) /\ clicks \in Nat /\ cvs \in BOOLEAN /\ s.fromCv \in BOOLEAN
  BY <1>1, StartsAssumption DEF AppOk
<1>3. page \in PageState
  BY <1>1, <1>2, Values
<1>4. JobOk(prepJob)
  <2>1. PrepAttempts \in Nat \ {0}
    BY GuestPageAssumption
  <2> QED BY <2>1, Values DEF PageInit, JobOk, Job, JobStatuses
<1>5. agreed \in BOOLEAN /\ late = {}
  BY DEF PageInit
<1>51. requeuing \in BOOLEAN /\ preparer \in Preparers
  BY DEF PageInit, Preparers
<1>6. loads \in [Loads -> Load]
  BY FirstLoadOk DEF PageInit
<1>7. CallOk(call)
  BY Values DEF PageInit
<1> QED BY <1>2, <1>3, <1>4, <1>5, <1>51, <1>6, <1>7 DEF GuestInv, ServerOk

-----------------------------------------------------------------------------
(***************************************************************************)
(* Each step keeps the invariant: the guest's, the server's, the answers,  *)
(* the refreshes and the worker's.                                         *)
(***************************************************************************)
LEMMA ServerStays ==
  ASSUME ServerOk, UNCHANGED server PROVE ServerOk'
BY DEF ServerOk, server, aside, AppOk, JobOk

LEMMA GuestActsKeep ==
  ASSUME GuestInv, GuestActs PROVE GuestInv'
<1>0. /\ ServerOk /\ CallOk(call) /\ page \in PageState /\ loads \in [Loads -> Load] /\ clicks \in Nat
  BY DEF GuestInv
<1>1. ASSUME NEW c, CallOk(c), Sends(c), clicks > 0 PROVE GuestInv'
  BY <1>0, <1>1, ServerStays DEF Sends, Clicked, GuestInv
<1>2. CASE Confirm \/ UseForm \/ UseCv \/ SubmitFacts \/ Retry \/ Revise \/ TakeBack
  <2>1. PICK k \in Kinds : Sends(Kind(k)) /\ clicks > 0
    BY <1>2 DEF Confirm, UseForm, UseCv, SubmitFacts, Retry, Revise, TakeBack, Kinds, DraftShown, MayClick
  <2> QED BY <1>1, <2>1, KindOk
<1>3. ASSUME NEW fills \in BOOLEAN, Send(fills) PROVE GuestInv'
  <2> PICK k \in Kinds : k = "send"
    BY DEF Kinds
  <2>1. Sends([Kind(k) EXCEPT !.fills = fills]) /\ clicks > 0
    BY <1>3 DEF Send, DraftShown, MayClick
  <2>2. CallOk([Kind(k) EXCEPT !.fills = fills])
    BY KindOk
  <2> QED BY <1>1, <2>1, <2>2
<1>4. CASE ToggleForm \/ Tick
  <2>1. clicks' \in Nat /\ UNCHANGED <<server, loads, call>>
    BY <1>0, <1>4 DEF ToggleForm, Tick, DraftShown, MayClick, Clicked
  <2>2. page' = [page EXCEPT !.form = ~page.form] \/ page' = [page EXCEPT !.tick = ~page.tick]
    BY <1>4 DEF ToggleForm, Tick
  <2>3. page' \in PageState
    BY <1>0, <2>2 DEF PageState
  <2> QED BY <1>0, <2>1, <2>3, ServerStays DEF GuestInv
<1>5. CASE AutoCv
  <2> PICK k \in Kinds : k = "cv"
    BY DEF Kinds
  <2>1. call' = Kind(k) /\ page' \in PageState /\ UNCHANGED <<server, loads, clicks>>
    BY <1>0, <1>5 DEF AutoCv, PageState
  <2>2. CallOk(call')
    BY <2>1, KindOk
  <2> QED BY <1>0, <2>1, <2>2, ServerStays DEF GuestInv
<1>6. CASE Upload
  <2>1. /\ clicks' \in Nat /\ page' = [page EXCEPT !.cv = TRUE] /\ cvs' \in BOOLEAN
        /\ UNCHANGED <<application, prepJob, agreed, late, requeuing, preparer, call>>
    BY <1>0, <1>6 DEF Upload, Clicked
  <2>3. page' \in PageState
    BY <1>0, <2>1 DEF PageState
  <2>2. loads' \in [Loads -> Load]
    <3> PICK for \in {"page", "poll", "check", "call"} : for = "page"
      OBVIOUS
    <3>1. PICK l \in Loads : Begins(l, for)
      BY <1>6 DEF Upload
    <3> QED BY <1>0, <3>1, LoadsOk
  <2> QED BY <1>0, <2>1, <2>2, <2>3 DEF GuestInv, ServerOk
<1>7. CASE CheckNow \/ LoadAgain
  <2>1. clicks' \in Nat /\ UNCHANGED <<server, page, call>>
    BY <1>0, <1>7 DEF CheckNow, LoadAgain, MayClick, Clicked
  <2>2. PICK for \in {"page", "poll", "check", "call"} : \E l \in Loads : Begins(l, for)
    BY <1>7 DEF CheckNow, LoadAgain
  <2>3. loads' \in [Loads -> Load]
    BY <1>0, <2>2, LoadsOk
  <2> QED BY <1>0, <2>1, <2>3, ServerStays DEF GuestInv
<1>8. CASE Reload
  <2>1. call' = Rest /\ clicks' \in Nat /\ UNCHANGED <<application, prepJob, cvs, agreed, requeuing, preparer>>
    BY <1>0, <1>8 DEF Reload, Clicked
  <2>2. loads' \in [Loads -> Load]
    BY <1>8, FirstLoadOk DEF Reload
  <2>3. page' \in PageState
    <3>1. page.fromCv \in BOOLEAN
      BY <1>0 DEF PageState
    <3> QED BY <1>8, <3>1, Values DEF Reload
  <2>4. late' \subseteq Draft \X BOOLEAN /\ \A c \in late' : Within(c[1])
    BY <1>0, <1>8 DEF Reload, CallOk, Call, ServerOk
  <2> QED BY <1>0, <2>1, <2>2, <2>3, <2>4, Values DEF GuestInv, ServerOk
<1> QED BY <1>2, <1>3, <1>4, <1>5, <1>6, <1>7, <1>8 DEF GuestActs

-----------------------------------------------------------------------------
LEMMA RefusesKeep ==
  ASSUME GuestInv, Refuses, UNCHANGED <<page, loads, clicks>> PROVE GuestInv'
<1>1. call.kind \in Kinds /\ ViewOf(application) \in View /\ NoView \in View
  BY ViewOfOk, Values DEF GuestInv, ServerOk, CallOk, Call, Kinds
<1>2. PICK view \in View : call' = [Kind(call.kind) EXCEPT !.pc = "back", !.view = view]
  BY <1>1 DEF Refuses
<1>3. CallOk(call')
  BY <1>1, <1>2, KindOk
<1> QED BY <1>3, ServerStays DEF Refuses, GuestInv

\* The server answers with what it wrote.
LEMMA DoesOk ==
  ASSUME GuestInv, NEW a, AppOk(a), Does(a)
  PROVE  AppOk(application') /\ CallOk(call')
<1>1. call.kind \in Kinds /\ ViewOf(a) \in View
  BY ViewOfOk DEF GuestInv, CallOk, Call, Kinds
<1>2. application' = a /\ call' = [Kind(call.kind) EXCEPT !.pc = "back", !.ok = TRUE, !.view = ViewOf(a)]
  BY DEF Does
<1>3. PICK k \in Kinds, view \in View, ok \in BOOLEAN :
        call' = [Kind(k) EXCEPT !.pc = "back", !.ok = ok, !.view = view]
  BY <1>1, <1>2
<1>4. CallOk(call')
  BY <1>3, KindOk
<1> QED BY <1>2, <1>4

\* A handler whose answer and rows are as they should be.
LEMMA Handled ==
  ASSUME GuestInv, AppOk(application'), JobOk(prepJob'), CallOk(call'), agreed' \in BOOLEAN,
         late' \subseteq late, requeuing' \in BOOLEAN, UNCHANGED <<cvs, preparer, page, loads, clicks>>
  PROVE  GuestInv'
BY DEF GuestInv, ServerOk

LEMMA JobsKeep ==
  ASSUME JobOk(prepJob)
  PROVE  /\ JobOk(Cancelled) /\ JobOk(NoPrepJob) /\ JobOk([status |-> "QUEUED", attempts |-> 0])
         /\ prepJob.attempts < PrepAttempts => JobOk([prepJob EXCEPT !.status = "QUEUED"])
         /\ \A s \in JobStatuses \ {"QUEUED"} : JobOk([prepJob EXCEPT !.status = s])
<1>1. PrepAttempts \in Nat \ {0}
  BY GuestPageAssumption
<1> QED BY <1>1, Values DEF JobOk, Job, JobStatuses, Cancelled

\* A confirmed application is the same one or a draft that is opened anew.
LEMMA ConfirmedOk ==
  ASSUME AppOk(application), NEW seed \in Known
  PROVE  AppOk(Confirmed(application, seed))
<1>1. CASE application.status = "WITHDRAWN"
  <2> PICK d : d = Opened(seed)
    OBVIOUS
  <2>1. DraftOk(d)
    BY OpenedOk DEF Known
  <2>2. AppOk([status |-> "DRAFT", prep |-> "NOT_STARTED", cost |-> TRUE, draft |-> d])
    BY <2>1 DEF DraftOk, AppOk, GuestApplication, AppStatuses, Preps
  <2> QED BY <1>1, <2>2 DEF Confirmed
<1>2. CASE application.status # "WITHDRAWN"
  <2> PICK cost \in BOOLEAN :
        Confirmed(application, seed) = [application EXCEPT !.cost = cost]
    BY <1>2 DEF AppOk, GuestApplication, Confirmed
  <2> QED BY DEF AppOk, GuestApplication
<1> QED BY <1>1, <1>2

LEMMA InterviewKeeps ==
  ASSUME GuestInv,
         HandleConfirm \/ ReadChat \/ WriteChat \/ WriteLate \/ HandleForm \/ HandleCv \/ HandleRevise
  PROVE  GuestInv'
<1>0. /\ AppOk(application) /\ JobOk(prepJob) /\ JobOk(NoPrepJob) /\ agreed \in BOOLEAN /\ CallOk(call)
      /\ requeuing \in BOOLEAN /\ application \in GuestApplication /\ call \in Call /\ DraftOk(application.draft) /\ call.kind \in Kinds
      /\ late \subseteq Draft \X BOOLEAN /\ \A c \in late : Within(c[1])
  BY JobsKeep DEF GuestInv, ServerOk, AppOk, GuestApplication, DraftOk, CallOk, Call, Kinds
<1>1. CASE HandleConfirm
  <2>1. PICK seed \in Known : Does(Confirmed(application, seed))
    BY <1>1 DEF HandleConfirm
  <2>2. AppOk(application') /\ CallOk(call')
    BY <1>0, <2>1, ConfirmedOk, DoesOk
  <2>3. JobOk(prepJob') /\ UNCHANGED <<aside, page, loads, clicks>>
    BY <1>0, <1>1 DEF HandleConfirm, Asks, JobAfterConfirming
  <2> QED BY <1>0, <2>2, <2>3, Handled DEF aside
<1>2. CASE ReadChat
  <2>1. UNCHANGED <<page, loads, clicks>>
    BY <1>2 DEF ReadChat, Asks
  <2>2. CASE Refuses
    BY <2>1, <2>2, RefusesKeep
  <2>3. CASE call' = [call EXCEPT !.pc = "write", !.read = application.draft] /\ UNCHANGED server
    <3>1. CallOk(call')
      BY <1>0, <2>3 DEF CallOk, Call, DraftOk
    <3> QED BY <2>1, <2>3, <3>1, ServerStays DEF GuestInv
  <2> QED BY <1>2, <2>2, <2>3 DEF ReadChat
<1>3. CASE WriteChat
  <2>1. DraftOk(call.read) /\ call.fills \in BOOLEAN
    BY <1>0 DEF CallOk, Call, DraftOk
  <2>2. AppOk(Answers(call.read, call.fills)) /\ Does(Answers(call.read, call.fills))
    BY <1>0, <1>3, <2>1, AnswersOk DEF WriteChat
  <2>3. AppOk(application') /\ CallOk(call')
    BY <2>2, DoesOk
  <2> QED BY <1>0, <1>3, <2>3, Handled DEF WriteChat, aside
<1>4. CASE WriteLate
  <2>1. PICK c \in late : /\ late' = late \ {c} /\ application' = Answers(c[1], c[2])
                          /\ UNCHANGED <<prepJob, cvs, agreed, requeuing, preparer, page, loads, call, clicks>>
    BY <1>4 DEF WriteLate
  <2>2. DraftOk(c[1]) /\ c[2] \in BOOLEAN
    BY <1>0 DEF DraftOk
  <2>3. AppOk(application')
    BY <1>0, <2>1, <2>2, AnswersOk
  <2> QED BY <1>0, <2>1, <2>3, Handled DEF aside
<1>5. CASE HandleForm
  <2>1. UNCHANGED <<page, loads, clicks>>
    BY <1>5 DEF HandleForm, Asks
  <2>2. CASE Refuses
    BY <2>1, <2>2, RefusesKeep
  <2>3. CASE ~Refuses
    <3>1. PICK known \in SUBSET Keys :
            Does([application EXCEPT !.status = "AWAITING_CONFIRMATION", !.draft.answers = known])
      BY <1>5, <2>3 DEF HandleForm
    <3>2. AppOk([application EXCEPT !.status = "AWAITING_CONFIRMATION", !.draft.answers = known])
      BY <1>0 DEF AppOk, GuestApplication, Draft, Within, AppStatuses
    <3>3. AppOk(application') /\ CallOk(call')
      BY <3>1, <3>2, DoesOk
    <3>4. UNCHANGED <<prepJob, aside>>
      BY <1>5, <2>3 DEF HandleForm
    <3> QED BY <1>0, <2>1, <3>3, <3>4, Handled DEF aside
  <2> QED BY <2>2, <2>3
<1>6. CASE HandleCv
  <2>1. JobOk(prepJob') /\ UNCHANGED <<aside, page, loads, clicks>> /\ call.kind = "cv"
    BY <1>0, <1>6 DEF HandleCv, Asks, JobAfterConfirming
  <2> PICK seed \in Known, known \in Known :
        \/ Does([Confirmed(application, seed) EXCEPT !.status = "AWAITING_CONFIRMATION", !.cost = TRUE,
                   !.draft.key = NoKey, !.draft.answers = @ \cup known])
        \/ application' = Confirmed(application, seed) /\ call' = [Kind("cv") EXCEPT !.pc = "back"]
    BY <1>6 DEF HandleCv
  <2> PICK a : a = Confirmed(application, seed)
    OBVIOUS
  <2>2. AppOk(a)
    BY <1>0, ConfirmedOk
  <2>3. CASE Does([a EXCEPT !.status = "AWAITING_CONFIRMATION", !.cost = TRUE, !.draft.key = NoKey,
                            !.draft.answers = @ \cup known])
    <3> PICK b : b = [a EXCEPT !.status = "AWAITING_CONFIRMATION", !.cost = TRUE, !.draft.key = NoKey,
                               !.draft.answers = @ \cup known]
      OBVIOUS
    <3>1. AppOk(b)
      <4>1. known \subseteq Keys
        BY DEF Known
      <4> QED BY <2>2, <4>1 DEF AppOk, GuestApplication, Draft, Within, AppStatuses
    <3>2. AppOk(application') /\ CallOk(call')
      BY <2>3, <3>1, DoesOk
    <3> QED BY <1>0, <2>1, <3>2, Handled DEF aside
  <2>4. CASE application' = a /\ call' = [Kind("cv") EXCEPT !.pc = "back"]
    <3>1. CallOk(call')
      BY <1>0, <2>1, <2>4, KindOk
    <3> QED BY <1>0, <2>1, <2>2, <2>4, <3>1, Handled DEF aside
  <2> QED BY <2>3, <2>4
<1>7. CASE HandleRevise
  <2>1. UNCHANGED <<page, loads, clicks>>
    BY <1>7 DEF HandleRevise, Asks
  <2>2. CASE Refuses
    BY <2>1, <2>2, RefusesKeep
  <2>3. CASE ~Refuses
    <3> PICK d : d = Opened(application.draft.answers)
      OBVIOUS
    <3>1. DraftOk(d)
      BY <1>0, OpenedOk DEF DraftOk, Draft
    <3>2. Does([application EXCEPT !.status = "DRAFT", !.prep = "NOT_STARTED", !.draft = d])
      BY <1>7, <2>3 DEF HandleRevise
    <3>3. AppOk([application EXCEPT !.status = "DRAFT", !.prep = "NOT_STARTED", !.draft = d])
      BY <1>0, <3>1 DEF AppOk, GuestApplication, DraftOk, AppStatuses, Preps
    <3>4. AppOk(application') /\ CallOk(call')
      BY <3>2, <3>3, DoesOk
    <3>5. prepJob' = NoPrepJob /\ UNCHANGED aside
      BY <1>7, <2>3 DEF HandleRevise
    <3> QED BY <1>0, <2>1, <3>4, <3>5, Handled DEF aside
  <2> QED BY <2>2, <2>3
<1> QED BY <1>1, <1>2, <1>3, <1>4, <1>5, <1>6, <1>7

LEMMA SubmissionKeeps ==
  ASSUME GuestInv, HandleAgree \/ HandleSubmit \/ HandleRetry \/ WriteRetry \/ HandleWithdraw
  PROVE  GuestInv'
<1>0. /\ AppOk(application) /\ JobOk(prepJob) /\ JobOk(NoPrepJob) /\ agreed \in BOOLEAN /\ CallOk(call)
      /\ requeuing \in BOOLEAN /\ application \in GuestApplication /\ call \in Call /\ call.kind \in Kinds
      /\ UNCHANGED <<page, loads, clicks>>
  BY JobsKeep DEF GuestInv, ServerOk, AppOk, CallOk, Call, Kinds, HandleAgree, HandleSubmit, HandleRetry,
     WriteRetry, HandleWithdraw, Asks
<1>1. CASE Refuses
  BY <1>0, <1>1, RefusesKeep
<1>2. CASE HandleAgree /\ ~Refuses
  <2>1. /\ agreed' = TRUE /\ UNCHANGED <<application, prepJob, cvs, late, requeuing, preparer>>
        /\ call' = [call EXCEPT !.pc = "agreed"]
    BY <1>2 DEF HandleAgree
  <2>2. CallOk(call')
    BY <1>0, <2>1 DEF CallOk, Call
  <2> QED BY <1>0, <2>1, <2>2, Handled DEF aside
<1>3. CASE HandleSubmit /\ ~Refuses
  <2>1. UNCHANGED aside
    BY <1>3 DEF HandleSubmit
  <2>2. CASE Does([application EXCEPT !.status = "SUBMITTED", !.prep = "QUEUED", !.cost = TRUE])
             /\ prepJob' = [status |-> "QUEUED", attempts |-> 0]
    <3>1. AppOk([application EXCEPT !.status = "SUBMITTED", !.prep = "QUEUED", !.cost = TRUE])
      BY <1>0 DEF AppOk, GuestApplication, AppStatuses, Preps
    <3>2. AppOk(application') /\ CallOk(call') /\ JobOk(prepJob')
      BY <1>0, <2>2, <3>1, DoesOk, JobsKeep
    <3> QED BY <1>0, <2>1, <3>2, Handled DEF aside
  <2>3. CASE /\ application' = [application EXCEPT !.status = "AWAITING_CONFIRMATION", !.prep = "NOT_STARTED"]
             /\ call' = [Kind("submit") EXCEPT !.pc = "back"] /\ prepJob' = NoPrepJob
    <3>1. AppOk(application')
      BY <1>0, <2>3 DEF AppOk, GuestApplication, AppStatuses, Preps
    <3> PICK k \in Kinds : k = "submit"
      BY DEF Kinds
    <3>2. CallOk(call')
      BY <2>3, KindOk
    <3> QED BY <1>0, <2>1, <2>3, <3>1, <3>2, Handled DEF aside
  <2> QED BY <1>3, <2>2, <2>3 DEF HandleSubmit
<1>4. CASE HandleRetry /\ ~Refuses
  <2>1. /\ prepJob' = [prepJob EXCEPT !.status = "QUEUED"] /\ prepJob.attempts < PrepAttempts
        /\ requeuing' = TRUE /\ call' = [call EXCEPT !.pc = "requeued"]
        /\ UNCHANGED <<application, cvs, agreed, late, preparer>>
    BY <1>4 DEF HandleRetry
  <2>2. JobOk(prepJob') /\ CallOk(call')
    BY <1>0, <2>1, JobsKeep DEF CallOk, Call
  <2> QED BY <1>0, <2>1, <2>2, Handled
<1>6. CASE WriteRetry
  <2>1. /\ application' = [application EXCEPT !.prep = "QUEUED"] /\ requeuing' = FALSE
        /\ UNCHANGED <<prepJob, cvs, agreed, late, preparer>>
        /\ \/ call' = call
           \/ call' = [call EXCEPT !.pc = "back", !.ok = TRUE, !.view = ViewOf(application'), !.job = prepJob]
    BY <1>6 DEF WriteRetry
  <2>2. AppOk(application')
    BY <1>0, <2>1 DEF AppOk, GuestApplication, Preps
  <2>3. ViewOf(application') \in View /\ prepJob \in Job
    BY <1>0, <2>2, ViewOfOk DEF JobOk
  <2>4. CallOk(call')
    BY <1>0, <2>1, <2>3 DEF CallOk, Call
  <2> QED BY <1>0, <2>1, <2>2, <2>4, Handled
<1>5. CASE HandleWithdraw
  <2>1. UNCHANGED aside /\ (prepJob' = prepJob \/ prepJob' = Cancelled)
    BY <1>5 DEF HandleWithdraw
  <2>2. Does(application) \/ Does([application EXCEPT !.status = "WITHDRAWN", !.prep = "CANCELLED"])
    BY <1>5 DEF HandleWithdraw
  <2>3. AppOk([application EXCEPT !.status = "WITHDRAWN", !.prep = "CANCELLED"])
    BY <1>0 DEF AppOk, GuestApplication, AppStatuses, Preps
  <2>4. AppOk(application') /\ CallOk(call')
    BY <1>0, <2>2, <2>3, DoesOk
  <2>5. JobOk(prepJob')
    BY <1>0, <2>1, JobsKeep
  <2> QED BY <1>0, <2>1, <2>4, <2>5, Handled DEF aside
<1> QED BY <1>1, <1>2, <1>3, <1>4, <1>5, <1>6

-----------------------------------------------------------------------------
LEMMA AnswersKeep ==
  ASSUME GuestInv, Back \/ Lost PROVE GuestInv'
<1>0. /\ ServerOk /\ CallOk(call) /\ call \in Call /\ call.kind \in Kinds
      /\ page \in PageState /\ loads \in [Loads -> Load] /\ clicks \in Nat
  BY DEF GuestInv, CallOk, Call, Kinds
<1>1. CASE Back
  <2>1. UNCHANGED <<server, clicks>> /\ page' = Shows(page)
    BY <1>1 DEF Back
  <2>2. page' \in PageState
    <3>1. PICK view \in View, j \in Job, form, facts, armed \in BOOLEAN :
            page' = [page EXCEPT !.app = view, !.job = j, !.form = form, !.facts = facts, !.armed = armed]
      BY <1>0, <2>1 DEF Shows, PageState, Call
    <3> QED BY <1>0, <3>1 DEF PageState
  <2>3. CASE call' = Rest /\ UNCHANGED loads
    BY <1>0, <2>1, <2>2, <2>3, Values, ServerStays DEF GuestInv
  <2>4. CASE ~(call' = Rest /\ UNCHANGED loads)
    <3> PICK for \in {"page", "poll", "check", "call"} : for = "call"
      OBVIOUS
    <3>1. PICK l \in Loads : Begins(l, for)
      BY <1>1, <2>4 DEF Back
    <3>2. loads' \in [Loads -> Load]
      BY <1>0, <3>1, LoadsOk
    <3>3. call' = [Kind(call.kind) EXCEPT !.pc = "load"]
      BY <1>1, <2>4 DEF Back
    <3>4. CallOk(call')
      BY <1>0, <3>3, KindOk
    <3> QED BY <1>0, <2>1, <2>2, <3>2, <3>4, ServerStays DEF GuestInv
  <2> QED BY <2>3, <2>4
<1>2. CASE Lost
  <2>1. call' = Rest /\ UNCHANGED <<application, prepJob, cvs, agreed, requeuing, preparer, page, loads, clicks>>
    BY <1>2 DEF Lost
  <2>2. late' \subseteq Draft \X BOOLEAN /\ \A c \in late' : Within(c[1])
    BY <1>0, <1>2 DEF Lost, CallOk, Call, ServerOk
  <2> QED BY <1>0, <2>1, <2>2, Values DEF GuestInv, ServerOk
<1> QED BY <1>1, <1>2

LEMMA HealedOk ==
  ASSUME AppOk(application) PROVE AppOk(Healed(application))
BY DEF AppOk, GuestApplication, Preps, Healed

LEMMA LoadsKeep ==
  ASSUME GuestInv, NEW l \in Loads, Poll(l) \/ LoadStep(l) \/ LoadFails(l)
  PROVE  GuestInv'
<1>0. /\ ServerOk /\ AppOk(application) /\ JobOk(prepJob) /\ cvs \in BOOLEAN /\ CallOk(call)
      /\ page \in PageState /\ loads \in [Loads -> Load] /\ loads[l] \in Load /\ clicks \in Nat
  BY DEF GuestInv, ServerOk
<1>1. CASE Poll(l)
  <2> PICK for \in {"page", "poll", "check", "call"} : for = "poll"
    OBVIOUS
  <2>1. Begins(l, for) /\ UNCHANGED <<server, page, call, clicks>>
    BY <1>1 DEF Poll
  <2>2. loads' \in [Loads -> Load]
    BY <1>0, <2>1, LoadsOk
  <2> QED BY <1>0, <2>1, <2>2, ServerStays DEF GuestInv
<1>2. CASE LoadApplication(l)
  <2>1. UNCHANGED <<prepJob, aside, page, call, clicks>>
    BY <1>2 DEF LoadApplication
  <2>2. AppOk(application')
    <3>1. CASE application.status = "none"
      <4>1. PICK seed \in Known : application' = [application EXCEPT !.status = "DRAFT", !.draft = Opened(seed)]
        BY <1>2, <3>1 DEF LoadApplication
      <4> PICK d : d = Opened(seed)
        OBVIOUS
      <4>2. DraftOk(d)
        BY OpenedOk DEF Known
      <4> QED BY <1>0, <4>1, <4>2 DEF DraftOk, AppOk, GuestApplication, AppStatuses
    <3>2. CASE application.status # "none"
      BY <1>0, <1>2, <3>2, HealedOk DEF LoadApplication
    <3> QED BY <3>1, <3>2
  <2>3. loads' = [loads EXCEPT ![l].app = ViewOf(application')] /\ ViewOf(application') \in View
    BY <1>2, <2>2, ViewOfOk DEF LoadApplication
  <2>4. loads' \in [Loads -> Load]
    BY <1>0, <2>3 DEF Load
  <2> QED BY <1>0, <2>1, <2>2, <2>4 DEF GuestInv, ServerOk, aside
<1>3. CASE LoadRest(l)
  <2>1. UNCHANGED <<prepJob, aside, page, call, clicks>> /\ AppOk(application')
    BY <1>0, <1>3, HealedOk DEF LoadRest
  <2>2. (application.status # "none") \in BOOLEAN
    OBVIOUS
  <2>3. PICK b \in BOOLEAN : b = (application.status # "none")
    BY <2>2, Zenon
  <2>4. loads' = [loads EXCEPT ![l].second = TRUE, ![l].facts = b, ![l].job = prepJob, ![l].cv = cvs]
    BY <1>3, <2>3 DEF LoadRest
  <2>5. loads' \in [Loads -> Load]
    BY <1>0, <2>4 DEF Load, JobOk
  <2> QED BY <1>0, <2>1, <2>5 DEF GuestInv, ServerOk, aside
<1>4. CASE Loaded(l) \/ LoadFails(l)
  <2>1. UNCHANGED <<server, clicks>> /\ loads' = [loads EXCEPT ![l] = NoLoad] /\ EndsCall(l)
    BY <1>4 DEF Loaded, LoadFails
  <2>2. page' \in PageState
    BY <1>0, <1>4 DEF Loaded, LoadFails, PageState, Load
  <2>3. loads' \in [Loads -> Load]
    BY <1>0, <2>1, Values
  <2>4. CallOk(call')
    BY <1>0, <2>1, Values DEF EndsCall
  <2> QED BY <1>0, <2>1, <2>2, <2>3, <2>4, ServerStays DEF GuestInv
<1> QED BY <1>1, <1>2, <1>3, <1>4 DEF LoadStep

LEMMA PrepareKeeps ==
  ASSUME GuestInv, PrepareStep \/ PreparerDies PROVE GuestInv'
<1>0. /\ AppOk(application) /\ JobOk(prepJob) /\ PrepAttempts \in Nat \ {0} /\ prepJob \in Job
      /\ preparer \in Preparers
  BY GuestPageAssumption DEF GuestInv, ServerOk, JobOk
<1>1. UNCHANGED workerAside
  BY DEF PrepareStep, PreparerDies
<1>2. CASE PreparerDies
  BY <1>1, <1>2 DEF PreparerDies, workerAside, GuestInv, ServerOk, AppOk, JobOk, Preparers
<1>3. CASE PrepareStep
  <2>1. AppOk(application')
    BY <1>0, <1>3 DEF PrepareStep, Work, TakeJob, GiveUpJob, MarkJob, LeaveJob, FinishJob, FailJob,
       TellApplicant, AppOk, GuestApplication, Preps
  <2>2. JobOk(prepJob')
    <3>1. CASE TakeJob
      BY <1>0, <3>1 DEF TakeJob, TriesAgain, JobOk, Job, JobStatuses
    <3>2. CASE FinishJob \/ FailJob \/ GiveUpJob
      BY <1>0, <3>2, JobsKeep DEF FinishJob, FailJob, GiveUpJob, TriesAgain, JobStatuses
    <3>3. CASE MarkJob \/ LeaveJob \/ TellApplicant
      BY <1>0, <3>3 DEF MarkJob, LeaveJob, TellApplicant
    <3> QED BY <1>3, <3>1, <3>2, <3>3 DEF PrepareStep, Work
  <2>3. preparer' \in Preparers
    BY <1>0, <1>3 DEF PrepareStep, Work, TakeJob, GiveUpJob, MarkJob, LeaveJob, FinishJob, FailJob,
       TellApplicant, Preparers
  <2> QED BY <1>1, <2>1, <2>2, <2>3 DEF workerAside, GuestInv, ServerOk
<1> QED BY <1>2, <1>3

-----------------------------------------------------------------------------
LEMMA StepKeeps ==
  ASSUME GuestInv, [PageNext]_pageVars PROVE GuestInv'
<1>1. CASE UNCHANGED pageVars
  BY <1>1 DEF GuestInv, ServerOk, pageVars, server, aside, AppOk, JobOk, CallOk
<1>2. CASE Handles
  BY <1>2, InterviewKeeps, SubmissionKeeps DEF Handles
<1> QED BY <1>1, <1>2, GuestActsKeep, AnswersKeep, LoadsKeep, PrepareKeeps DEF PageNext

LEMMA Always == PageSpec => []GuestInv
<1>1. PageInit => GuestInv
  BY Initially
<1>2. GuestInv /\ [PageNext]_pageVars => GuestInv'
  BY StepKeeps
<1> QED BY <1>1, <1>2, PTL DEF PageSpec

\* The application, its job, the page, its refreshes and its call keep their
\* types, for every list of questions, budget and number of refreshes.
THEOREM GuestPageTypes == PageSpec => []PageTypeOK
<1>1. GuestInv => PageTypeOK
  BY DEF GuestInv, ServerOk, AppOk, JobOk, CallOk, PageTypeOK
<1> QED BY <1>1, Always, PTL

\* However messages overlap, are lost, late and sent again, the interview asks
\* no more than MAX_PREPARATION_QUESTIONS and leaves no question open there
\* (nextQuestionKey, postConversationMessage).
THEOREM InterviewKeepsBudget == PageSpec => []QuestionBudget
<1>1. GuestInv => QuestionBudget
  BY DEF GuestInv, ServerOk, AppOk, QuestionBudget
<1> QED BY <1>1, Always, PTL
=============================================================================
