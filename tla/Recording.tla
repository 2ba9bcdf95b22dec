----------------------------- MODULE Recording -----------------------------
(***************************************************************************)
(* An application of Kariyer Portresi from its submission to its episode,  *)
(* as the staff see it: who hosts it (arayanlar/host-auth.ts, service.ts), *)
(* the message that hands it to the default host (host-handoff.ts), the    *)
(* plan of the recording (recording-schedule.ts), what everyone is told    *)
(* (notifications.ts, notifications/service.ts) and the overview that says *)
(* what to do next (operations.ts).                                        *)
(*                                                                         *)
(* Preparation (ArayanlarPrep) and the review (Publication) are taken in   *)
(* steps of one request here; a version stands for an episode's content.   *)
(***************************************************************************)
EXTENDS Integers, FiniteSets

CONSTANTS
  Hosts, DefaultHost,   \* members who may host; the configured one, or NoHost
  NoHost, Admin, Candidate,
  Plans,                \* times, links and notes a recording can have; 0 is no plan
  Versions,             \* versions of the episode; 0 is no episode
  Casts,                \* bound of the model: how often each may call, a choice per behaviour
  Starts                \* where behaviours start

Callers == Hosts \cup {Admin, Candidate}
Planners == Hosts \cup {Admin}

ASSUME RecordingAssumption ==
  /\ NoHost \notin Hosts /\ DefaultHost \in Hosts \cup {NoHost}
  /\ Admin \notin Hosts /\ Candidate \notin Hosts /\ Admin # Candidate
  /\ Plans \subseteq Nat \ {0} /\ Versions \subseteq Nat \ {0}
  /\ Casts \subseteq [Callers -> Nat]

VARIABLES
  cast,
  app,          \* the ArayanlarApplication
  authorized,   \* hosts with a HostAuthorization in force
  packs,        \* revisions that have a HOST_PACK
  chat,         \* the candidate's conversation with the default host
  notices,      \* InAppNotification rows: user and dedupe key are unique
  episode,      \* the linked episode, and the versions its candidate accepted
  call,         \* where each caller is
  unsaid        \* a call ended between its write and its notice

vars == <<cast, app, authorized, packs, chat, notices, episode, call, unsaid>>

Kinds == {"submitted", "ready", "failed", "withdrawn", "scheduled", "rescheduled", "cancelled",
          "review", "changes", "published"}

Application == [status : {"DRAFT", "SUBMITTED", "WITHDRAWN"},
                prep : {"NOT_STARTED", "QUEUED", "READY", "FAILED", "CANCELLED"},
                rev : Nat, host : Hosts \cup {NoHost},
                plan : Plans \cup {0}, planVersion : Nat,
                review : Versions \cup {0}, changes : BOOLEAN]
NoticeRow == [kind : Kinds, to : Callers, key : Nat]
Chat == [state : {"none", "ACTIVE", "PAUSED"}, blocked : BOOLEAN, sent : SUBSET Nat]
Episode == [version : Versions \cup {0}, published : BOOLEAN, accepted : SUBSET Versions]
Call == [pc : {"idle", "plan", "notify", "check", "assign", "open", "send", "withdraw"},
         plan : Plans \cup {0}, had : BOOLEAN, v : Nat, host : Hosts \cup {NoHost}, handoff : BOOLEAN,
         n : Nat]
Idle == [pc |-> "idle", plan |-> 0, had |-> FALSE, v |-> 0, host |-> NoHost, handoff |-> FALSE, n |-> 0]

Draft == [status |-> "DRAFT", prep |-> "NOT_STARTED", rev |-> 0, host |-> NoHost, plan |-> 0,
          planVersion |-> 0, review |-> 0, changes |-> FALSE]

\* submitApplication counts a revision and queues its preparation.
Consistent(a) == a.status = "SUBMITTED" => a.rev >= 1 /\ a.prep \in {"QUEUED", "READY", "FAILED"}

\* Behaviours start before the recording is planned.
ASSUME StartsAssumption == Starts \subseteq {a \in Application : a.plan = 0 /\ Consistent(a)}

Init ==
  /\ cast \in Casts
  /\ app \in Starts /\ packs = 1..app.rev
  /\ authorized = Hosts
  /\ chat = [state |-> "none", blocked |-> FALSE, sent |-> {}]
  /\ notices = {}
  /\ episode = [version |-> 0, published |-> FALSE, accepted |-> {}]
  /\ call = [p \in Callers |-> Idle]
  /\ unsaid = FALSE

-----------------------------------------------------------------------------
Free(p) == call[p].pc = "idle" /\ call[p].n < cast[p]
At(p, pc) == call[p].pc = pc
Goes(p, c) == call' = [call EXCEPT ![p] = [c EXCEPT !.n = call[p].n]]
Ends(p) == call' = [call EXCEPT ![p] = [Idle EXCEPT !.n = call[p].n + 1]]
Reads == UNCHANGED <<cast, app, authorized, packs, chat, notices, episode, unsaid>>

\* createNotification: nothing if the user has one with that key.
Notice(kind, to, key) == [kind |-> kind, to |-> to, key |-> key]
Tell(kind, to, key) == notices' = notices \cup {Notice(kind, to, key)}

\* canHostAccessApplication, canMutateRecordingSchedule
IsHost(p) == p \in Hosts /\ app.host = p /\ p \in authorized
MayPlan(p) == app.status # "WITHDRAWN" /\ (p = Admin \/ IsHost(p))

Ready == app.status = "SUBMITTED" /\ app.prep = "READY"

-----------------------------------------------------------------------------
(***************************************************************************)
(* The application, as far as the rest depends on it.                      *)
(***************************************************************************)
Submit ==
  /\ Free(Candidate) /\ app.status = "DRAFT"
  /\ app' = [app EXCEPT !.status = "SUBMITTED", !.prep = "QUEUED", !.rev = @ + 1]
  /\ Tell("submitted", Candidate, app.rev + 1)
  /\ Ends(Candidate) /\ UNCHANGED <<cast, authorized, packs, chat, episode, unsaid>>

\* The worker: both artifacts or a failure, and a notice of either.
Prepare ==
  /\ app.status = "SUBMITTED" /\ app.prep = "QUEUED"
  /\ \/ /\ app' = [app EXCEPT !.prep = "READY"]
        /\ packs' = packs \cup {app.rev}
        /\ Tell("ready", Candidate, app.rev)
     \/ /\ app' = [app EXCEPT !.prep = "FAILED"]
        /\ packs' = packs
        /\ Tell("failed", Candidate, app.rev)
  /\ UNCHANGED <<cast, authorized, chat, episode, call, unsaid>>

RetryPreparation ==
  /\ Free(Candidate) /\ app.status = "SUBMITTED" /\ app.prep = "FAILED"
  /\ app' = [app EXCEPT !.prep = "QUEUED"]
  /\ Ends(Candidate) /\ UNCHANGED <<cast, authorized, packs, chat, notices, episode, unsaid>>

\* startRevisionDraft keeps the host, the plan and the review.
Revise ==
  /\ Free(Candidate) /\ app.status = "SUBMITTED"
  /\ app' = [app EXCEPT !.status = "DRAFT", !.prep = "NOT_STARTED"]
  /\ Ends(Candidate) /\ UNCHANGED <<cast, authorized, packs, chat, notices, episode, unsaid>>

\* withdrawApplication: refused once the episode is published; the update
\* clears the host, the plan and the review and counts a version.
BeginWithdraw ==
  /\ Free(Candidate) /\ app.status # "WITHDRAWN" /\ ~episode.published
  /\ Goes(Candidate, [Idle EXCEPT !.pc = "withdraw"]) /\ Reads

Withdrawn == [app EXCEPT !.status = "WITHDRAWN", !.prep = "CANCELLED", !.host = NoHost, !.plan = 0,
                         !.planVersion = @ + 1, !.review = 0, !.changes = FALSE]

Withdraw ==
  /\ At(Candidate, "withdraw") /\ Ends(Candidate)
  /\ app' = Withdrawn
  /\ Tell("withdrawn", Candidate, app.rev)
  /\ UNCHANGED <<cast, authorized, packs, chat, episode, unsaid>>

\* reopenWithdrawnAsDraft keeps the revision and the plan's version.
Reopen ==
  /\ Free(Candidate) /\ app.status = "WITHDRAWN"
  /\ app' = [Draft EXCEPT !.rev = app.rev, !.planVersion = app.planVersion]
  /\ Ends(Candidate) /\ UNCHANGED <<cast, authorized, packs, chat, notices, episode, unsaid>>

-----------------------------------------------------------------------------
(***************************************************************************)
(* Hosts.                                                                  *)
(***************************************************************************)
GrantHost(h) ==
  /\ Free(Admin) /\ h \notin authorized /\ authorized' = authorized \cup {h}
  /\ Ends(Admin) /\ UNCHANGED <<cast, app, packs, chat, notices, episode, unsaid>>

RevokeHost(h) ==
  /\ Free(Admin) /\ h \in authorized /\ authorized' = authorized \ {h}
  /\ Ends(Admin) /\ UNCHANGED <<cast, app, packs, chat, notices, episode, unsaid>>

\* assignHost: the authorization, then the application, then the update.
BeginAssign(h) ==
  /\ Free(Admin) /\ h \in authorized
  /\ Goes(Admin, [Idle EXCEPT !.pc = "check", !.host = h]) /\ Reads

CheckAssign(p) ==
  /\ At(p, "check") /\ app.status # "WITHDRAWN"
  /\ Goes(p, [call[p] EXCEPT !.pc = "assign"]) /\ Reads

Assign(p) ==
  /\ At(p, "assign")
  /\ app' = [app EXCEPT !.host = call[p].host]
  /\ IF call[p].handoff THEN Goes(p, [call[p] EXCEPT !.pc = "open"]) ELSE Ends(p)
  /\ UNCHANGED <<cast, authorized, packs, chat, notices, episode, unsaid>>

\* sendKariyerPortresiHostHandoff, by the candidate or by whoever may plan.
HandoffAccepted == DefaultHost \in authorized /\ Ready /\ app.rev >= 1 /\ app.rev \in packs

BeginHandoff(p) ==
  /\ Free(p) /\ (p = Candidate \/ MayPlan(p))
  /\ HandoffAccepted
  /\ Goes(p, [Idle EXCEPT !.pc = IF app.host = DefaultHost THEN "open" ELSE "check",
                          !.host = DefaultHost, !.v = app.rev, !.handoff = TRUE])
  /\ Reads

\* ensureConversationForPair with activate, in a transaction of its own ...
OpenChat(p) ==
  /\ At(p, "open")
  /\ chat' = [chat EXCEPT !.state = "ACTIVE"]
  /\ Goes(p, [call[p] EXCEPT !.pc = "send"])
  /\ UNCHANGED <<cast, app, authorized, packs, notices, episode, unsaid>>

\* ... before sendMessage looks at blocks.  One message per revision and host.
SendHandoff(p) ==
  /\ At(p, "send") /\ ~chat.blocked /\ chat.state = "ACTIVE"
  /\ chat' = [chat EXCEPT !.sent = @ \cup {call[p].v}]
  /\ Ends(p) /\ UNCHANGED <<cast, app, authorized, packs, notices, episode, unsaid>>

\* blockMember pauses the conversation; unblocking does not resume it.
Block(p) ==
  /\ Free(p) /\ p \in {Candidate, DefaultHost} /\ ~chat.blocked
  /\ chat' = [chat EXCEPT !.blocked = TRUE, !.state = IF @ = "none" THEN @ ELSE "PAUSED"]
  /\ Ends(p) /\ UNCHANGED <<cast, app, authorized, packs, notices, episode, unsaid>>

Unblock(p) ==
  /\ Free(p) /\ p \in {Candidate, DefaultHost} /\ chat.blocked
  /\ chat' = [chat EXCEPT !.blocked = FALSE]
  /\ Ends(p) /\ UNCHANGED <<cast, app, authorized, packs, notices, episode, unsaid>>

-----------------------------------------------------------------------------
(***************************************************************************)
(* The recording's plan.                                                   *)
(***************************************************************************)
\* scheduleRecording reads the application; an identical plan changes nothing.
ScheduleAccepted(p) == MayPlan(p) /\ Ready

BeginSchedule(p, plan) ==
  /\ Free(p) /\ ScheduleAccepted(p) /\ plan # app.plan
  /\ Goes(p, [Idle EXCEPT !.pc = "plan", !.plan = plan, !.had = app.plan # 0, !.v = app.planVersion + 1])
  /\ Reads

BeginCancel(p) ==
  /\ Free(p) /\ MayPlan(p) /\ app.plan # 0
  /\ Goes(p, [Idle EXCEPT !.pc = "plan", !.plan = 0, !.had = TRUE, !.v = app.planVersion + 1])
  /\ Reads

WritePlan(p) ==
  /\ At(p, "plan")
  /\ app' = [app EXCEPT !.plan = call[p].plan, !.planVersion = call[p].v]
  /\ Goes(p, [call[p] EXCEPT !.pc = "notify"])
  /\ UNCHANGED <<cast, authorized, packs, chat, notices, episode, unsaid>>

PlanNotice(c) == IF c.plan = 0 THEN "cancelled" ELSE IF c.had THEN "rescheduled" ELSE "scheduled"

TellPlanByRevision(p) ==
  /\ At(p, "notify") /\ Tell(PlanNotice(call[p]), Candidate, app.rev) /\ Ends(p)
  /\ UNCHANGED <<cast, app, authorized, packs, chat, episode, unsaid>>

TellPlan(p) ==
  /\ At(p, "notify") /\ Tell(PlanNotice(call[p]), Candidate, call[p].v) /\ Ends(p)
  /\ UNCHANGED <<cast, app, authorized, packs, chat, episode, unsaid>>

-----------------------------------------------------------------------------
(***************************************************************************)
(* The episode and its review, each request in one step.                   *)
(***************************************************************************)
SendAccepted(p) == MayPlan(p) /\ Ready /\ ~episode.published

SendReview(p, v) ==
  /\ Free(p) /\ SendAccepted(p)
  /\ episode' = [episode EXCEPT !.version = v]
  /\ app' = [app EXCEPT !.review = v, !.changes = FALSE]
  /\ Tell("review", Candidate, v)
  /\ Ends(p) /\ UNCHANGED <<cast, authorized, packs, chat, unsaid>>

\* An admin edits the episode; while it is published, only with the approval.
EditEpisode(v) ==
  /\ Free(Admin) /\ episode.version # 0 /\ ~episode.published
  /\ episode' = [episode EXCEPT !.version = v]
  /\ Ends(Admin) /\ UNCHANGED <<cast, app, authorized, packs, chat, notices, unsaid>>

ApproveAccepted == /\ app.review # 0 /\ ~episode.published
                   /\ app.review = episode.version /\ episode.version \notin episode.accepted

Approve ==
  /\ Free(Candidate) /\ ApproveAccepted
  /\ episode' = [episode EXCEPT !.accepted = @ \cup {app.review}]
  /\ app' = [app EXCEPT !.changes = FALSE]
  /\ Ends(Candidate) /\ UNCHANGED <<cast, authorized, packs, chat, notices, unsaid>>

RequestChangesUnhosted ==
  /\ Free(Candidate) /\ app.review # 0 /\ ~episode.published
  /\ app' = [app EXCEPT !.changes = TRUE]
  /\ Tell("changes", app.host, app.review)
  /\ Ends(Candidate) /\ UNCHANGED <<cast, authorized, packs, chat, episode, unsaid>>

\* requestKariyerPublicationChanges tells the host, if there is one.
RequestChanges ==
  /\ Free(Candidate) /\ app.review # 0 /\ ~episode.published
  /\ app' = [app EXCEPT !.changes = TRUE]
  /\ IF app.host = NoHost THEN UNCHANGED notices ELSE Tell("changes", app.host, app.review)
  /\ Ends(Candidate) /\ UNCHANGED <<cast, authorized, packs, chat, episode, unsaid>>

PublishAcceptedUnasked(p) ==
  p = Admin /\ app.status # "WITHDRAWN" /\ episode.version # 0 /\ ~episode.published

PublishAccepted(p) ==
  /\ p = Admin /\ app.status # "WITHDRAWN" /\ episode.version # 0 /\ ~episode.published
  /\ episode.version \in episode.accepted

Publish ==
  /\ Free(Admin) /\ PublishAccepted(Admin)
  /\ episode' = [episode EXCEPT !.published = TRUE]
  /\ Tell("published", Candidate, episode.version)
  /\ Ends(Admin) /\ UNCHANGED <<cast, app, authorized, packs, chat, unsaid>>

-----------------------------------------------------------------------------
\* A call that is refused, fails or dies leaves what it has written.
Stops(p) ==
  /\ ~At(p, "idle") /\ Ends(p)
  /\ unsaid' = (unsaid \/ At(p, "notify"))
  /\ UNCHANGED <<cast, app, authorized, packs, chat, notices, episode>>

CandidateStep ==
  \/ Submit \/ RetryPreparation \/ Revise \/ BeginWithdraw \/ Withdraw \/ Reopen
  \/ Approve \/ RequestChanges

AdminStep ==
  \/ \E h \in Hosts : GrantHost(h) \/ RevokeHost(h) \/ BeginAssign(h)
  \/ \E v \in Versions : EditEpisode(v)
  \/ Publish

PlannerStep(p) ==
  \/ \E plan \in Plans : BeginSchedule(p, plan)
  \/ BeginCancel(p) \/ WritePlan(p) \/ TellPlan(p)
  \/ \E v \in Versions : SendReview(p, v)

HandoffStep(p) ==
  BeginHandoff(p) \/ CheckAssign(p) \/ Assign(p) \/ OpenChat(p) \/ SendHandoff(p)

Next ==
  \/ CandidateStep \/ AdminStep \/ Prepare
  \/ \E p \in Planners : PlannerStep(p)
  \/ \E p \in Callers : HandoffStep(p) \/ Block(p) \/ Unblock(p) \/ Stops(p)

Spec == Init /\ [][Next]_vars

-----------------------------------------------------------------------------
(***************************************************************************)
(* The overview (deriveKariyerPortresiOperations): the first line that     *)
(* applies says what is next.                                              *)
(***************************************************************************)
PrepReady == Ready /\ app.rev \in packs
PrepFailed == app.prep = "FAILED"
PrepWaiting == app.status = "SUBMITTED" /\ app.prep \in {"QUEUED", "NOT_STARTED"}
HandoffSent == DefaultHost \in authorized /\ app.rev \in chat.sent
Scheduled == app.plan # 0
HasEpisode == episode.version # 0
ReviewRequested == app.review # 0
VersionMatches == HasEpisode /\ app.review = episode.version
ApprovedCurrent == VersionMatches /\ episode.version \in episode.accepted

FirstOf(table) ==
  table[CHOOSE n \in DOMAIN table : table[n][1] /\ \A k \in 1..(n - 1) : ~table[k][1]][2]

NextActionAnyTime(p) == FirstOf(<<
  <<app.status = "WITHDRAWN", "withdrawn">>, <<episode.published, "done">>, <<PrepFailed, "retry">>,
  <<PrepWaiting, "preparing">>, <<PrepReady /\ ~HandoffSent, "handoff">>, <<~Scheduled, "schedule">>,
  <<~HasEpisode, "record">>, <<app.changes, "review">>, <<~VersionMatches, "send">>,
  <<ApprovedCurrent /\ p = Admin, "publish">>, <<ApprovedCurrent, "approved">>, <<TRUE, "publish">> >>)

NextAction(p) == FirstOf(<<
  <<app.status = "WITHDRAWN", "withdrawn">>,
  <<episode.published, "done">>,
  <<PrepFailed, "retry">>,
  <<PrepWaiting, "preparing">>,
  <<PrepReady /\ ~HandoffSent, "handoff">>,
  <<PrepReady /\ ~Scheduled, "schedule">>,
  <<PrepReady /\ Scheduled /\ ~HasEpisode, "record">>,
  <<app.changes, "review">>,
  <<HasEpisode /\ (~ReviewRequested \/ ~VersionMatches), "send">>,
  <<ReviewRequested /\ VersionMatches /\ ~ApprovedCurrent, "approval">>,
  <<ApprovedCurrent /\ p = Admin, "publish">>,
  <<ApprovedCurrent, "approved">>,
  <<TRUE, "notes">> >>)

\* How far each step is.
Progress(step) ==
  CASE step = "host" -> FirstOf(<<
         <<~PrepReady, "absent">>, <<HandoffSent, "complete">>, <<TRUE, "act">> >>)
    [] step = "plan" -> FirstOf(<<
         <<~PrepReady, "absent">>, <<Scheduled, "complete">>,
         <<app.planVersion > 0, "act">>, <<TRUE, "waits">> >>)
    [] step = "approval" -> FirstOf(<<
         <<episode.published, "complete">>, <<app.changes, "act">>, <<ApprovedCurrent, "complete">>,
         <<ReviewRequested /\ VersionMatches, "waits">>, <<ReviewRequested \/ HasEpisode, "act">>,
         <<TRUE, "absent">> >>)
    [] step = "publication" -> FirstOf(<<
         <<episode.published, "complete">>, <<ApprovedCurrent, "act">>,
         <<ReviewRequested, "waits">>, <<TRUE, "absent">> >>)
    [] step = "preparation" -> FirstOf(<<
         <<PrepReady, "complete">>, <<PrepFailed, "act">>, <<PrepWaiting, "waits">>, <<TRUE, "absent">> >>)

StepOf == [handoff |-> "host", schedule |-> "plan", review |-> "approval", send |-> "approval",
           approval |-> "approval", publish |-> "publication", approved |-> "publication",
           retry |-> "preparation", preparing |-> "preparation"]

\* getHostPublicationPanelInitial: does the panel offer an admin to publish?
PanelPublishes ==
  /\ HasEpisode /\ ~episode.published
  /\ ~ReviewRequested \/ VersionMatches
  /\ episode.version \in episode.accepted

\* getKariyerPublicationCandidateState: does the candidate's page ask for an approval?
PageAsks ==
  /\ HasEpisode /\ ~episode.published /\ ReviewRequested /\ ~app.changes
  /\ ~ApprovedCurrent

\* Would the operation that is offered, or waited for, be accepted?
HostUnavailable == DefaultHost \notin authorized    \* the overview lists it as an issue
Accepted(p, action) ==
  CASE action = "handoff" -> HandoffAccepted \/ HostUnavailable
    [] action = "schedule" -> ScheduleAccepted(p)
    [] action \in {"record", "review", "send"} -> SendAccepted(p)
    [] action = "approval" -> ApproveAccepted
    [] action = "publish" -> PublishAccepted(p)
    [] action = "approved" -> PublishAccepted(Admin)
    [] action = "preparing" -> app.prep = "QUEUED"
    [] OTHER -> TRUE

-----------------------------------------------------------------------------
(***************************************************************************)
(* Properties.                                                             *)
(***************************************************************************)
\* Every variable has its type.
TypeOK ==
  /\ cast \in Casts /\ app \in Application /\ authorized \subseteq Hosts /\ packs \subseteq Nat
  /\ chat \in Chat /\ notices \subseteq NoticeRow /\ episode \in Episode
  /\ call \in [Callers -> Call] /\ unsaid \in BOOLEAN

\* For a submitted application the overview never sends anyone to a step that
\* the operation would refuse or that it shows as complete, and never waits for
\* one that cannot come; the panel and the candidate's page agree with it
\* (operations.ts and its siblings against the guards of the operations).
OffersAreAccepted ==
  /\ \A p \in Planners : MayPlan(p) =>
       LET next == NextAction(p)
       IN  /\ app.status = "SUBMITTED" => Accepted(p, next)
           /\ next \in DOMAIN StepOf => Progress(StepOf[next]) \in {"act", "waits"}
  /\ PanelPublishes /\ app.status # "WITHDRAWN" => PublishAccepted(Admin)
  /\ PageAsks /\ VersionMatches => ApproveAccepted

\* A plan that stands was announced under its version, though versions are read
\* before they are written and a notice with a used key is dropped
\* (scheduleRecording, createNotification).
ToldOfPlan ==
  app.plan # 0 /\ ~unsaid /\ (\A p \in Callers : ~At(p, "notify")) =>
    \E kind \in {"scheduled", "rescheduled"} : Notice(kind, Candidate, app.planVersion) \in notices

\* The hosts, the staff and the worker keep the promise made to the candidate.
Portrait == INSTANCE Portrait WITH
  stage <- IF app.status = "WITHDRAWN" THEN "withdrawn"
           ELSE IF app.status = "DRAFT" THEN "draft" ELSE IF app.prep = "READY" THEN "ready" ELSE "submitted",
  consents <- episode.accepted,
  public <- IF episode.published THEN {episode.version} ELSE {}
KeepsPromise == Portrait!Spec

\* A paused conversation is resumed by an accepted request only, of which there
\* is none here (docs/messaging.md, Blocking); the handoff activates it.
ResumedByRequest == [][chat.state = "PAUSED" => chat'.state # "ACTIVE"]_vars

=============================================================================
