-------------------------- MODULE RecordingProofs --------------------------
(***************************************************************************)
(* Theorems of Recording: its types, that a plan which stands was          *)
(* announced, that it implements Portrait, the promise made to the         *)
(* candidate, and that the overview offers what will be accepted.          *)
(***************************************************************************)
EXTENDS Recording, TLAPS, WellFoundedInduction

LEMMA Actors ==
  /\ Planners \subseteq Callers /\ Hosts \subseteq Callers
  /\ Admin \in Callers /\ Candidate \in Callers
BY DEF Planners, Callers

LEMMA NumbersOk == Versions \cup {0} \subseteq Nat /\ Plans \cup {0} \subseteq Nat
BY RecordingAssumption

-----------------------------------------------------------------------------
(***************************************************************************)
(* Types.                                                                  *)
(***************************************************************************)
LEMMA IdleOk == Idle \in Call /\ Idle.pc = "idle"
BY DEF Idle, Call

\* Whatever a caller goes to, it stays a call of the type, and so do the others.
LEMMA GoesOk ==
  ASSUME TypeOK, NEW p \in Callers, NEW c \in Call, Goes(p, c)
  PROVE  call' \in [Callers -> Call]
<1>1. call \in [Callers -> Call]
  BY DEF TypeOK
<1>2. [c EXCEPT !.n = call[p].n] \in Call
  BY <1>1 DEF Call
<1> QED BY <1>1, <1>2 DEF Goes

LEMMA EndsOk ==
  ASSUME TypeOK, NEW p \in Callers, Ends(p)
  PROVE  call' \in [Callers -> Call]
<1>1. call \in [Callers -> Call]
  BY DEF TypeOK
<1>2. [Idle EXCEPT !.n = call[p].n + 1] \in Call
  BY <1>1, IdleOk DEF Call
<1> QED BY <1>1, <1>2 DEF Ends

\* A notice of one of the kinds to somebody who exists is a row.
LEMMA TellOk ==
  ASSUME TypeOK, NEW kind \in Kinds, NEW to \in Callers, NEW key \in Nat, Tell(kind, to, key)
  PROVE  notices' \subseteq NoticeRow
<1>1. Notice(kind, to, key) \in NoticeRow
  BY DEF Notice, NoticeRow
<1> QED BY <1>1 DEF Tell, TypeOK

LEMMA StartsOk == Init => TypeOK
<1> SUFFICES ASSUME Init PROVE TypeOK
  OBVIOUS
<1>1. app \in Application /\ app.rev \in Nat
  BY StartsAssumption DEF Init, Application
<1>2. packs \subseteq Nat
  BY <1>1 DEF Init
<1>3. chat \in Chat /\ episode \in Episode
  BY DEF Init, Chat, Episode
<1>4. call \in [Callers -> Call]
  BY IdleOk DEF Init
<1> QED BY <1>1, <1>2, <1>3, <1>4 DEF Init, TypeOK

LEMMA CandidateTypes ==
  ASSUME TypeOK, CandidateStep PROVE TypeOK'
<1>0. app \in Application /\ episode \in Episode /\ Candidate \in Callers /\ app.rev \in Nat
  BY Actors DEF TypeOK, Application
<1>1. CASE Submit
  <2>1. app' \in Application
    <3>0. app.rev + 1 \in Nat
      BY <1>0
    <3>1. PICK n \in Nat : app' = [app EXCEPT !.status = "SUBMITTED", !.prep = "QUEUED", !.rev = n]
      BY <1>1, <3>0 DEF Submit
    <3> QED BY <1>0, <3>1 DEF Application
  <2>2. notices' \subseteq NoticeRow
    BY <1>0, <1>1, TellOk DEF Submit, Kinds
  <2> QED BY <1>0, <1>1, <2>1, <2>2, EndsOk DEF Submit, TypeOK
<1>2. CASE RetryPreparation \/ Revise
  <2>1. app' \in Application
    BY <1>0, <1>2 DEF RetryPreparation, Revise, Application
  <2> QED BY <1>0, <1>2, <2>1, EndsOk DEF RetryPreparation, Revise, TypeOK
<1>3. CASE BeginWithdraw
  <2>1. [Idle EXCEPT !.pc = "withdraw"] \in Call
    BY DEF Idle, Call
  <2> QED BY <1>0, <1>3, <2>1, GoesOk DEF BeginWithdraw, Reads, TypeOK
<1>4. CASE Withdraw
  <2>1. app' \in Application
    <3>1. app.planVersion + 1 \in Nat
      BY <1>0 DEF Application
    <3>2. PICK n \in Nat :
            app' = [app EXCEPT !.status = "WITHDRAWN", !.prep = "CANCELLED", !.host = NoHost,
                               !.plan = 0, !.planVersion = n, !.review = 0, !.changes = FALSE]
      BY <1>4, <3>1 DEF Withdraw, Withdrawn
    <3> QED BY <1>0, <3>2 DEF Application
  <2>2. notices' \subseteq NoticeRow
    BY <1>0, <1>4, TellOk DEF Withdraw, Kinds
  <2> QED BY <1>0, <1>4, <2>1, <2>2, EndsOk DEF Withdraw, TypeOK
<1>5. CASE Reopen
  <2>1. app' \in Application
    BY <1>0, <1>5 DEF Reopen, Draft, Application
  <2> QED BY <1>0, <1>5, <2>1, EndsOk DEF Reopen, TypeOK
<1>6. CASE Approve
  <2>1. app' \in Application
    BY <1>0, <1>6 DEF Approve, Application
  <2>2. app.review \in Versions
    BY <1>0, <1>6 DEF Approve, ApproveAccepted, Application
  <2>3. episode' \in Episode
    BY <1>0, <1>6, <2>2 DEF Approve, Episode
  <2> QED BY <1>0, <1>6, <2>1, <2>3, EndsOk DEF Approve, TypeOK
<1>7. CASE RequestChanges
  <2>1. app' \in Application
    BY <1>0, <1>7 DEF RequestChanges, Application
  <2>2. app.review \in Nat /\ (app.host # NoHost => app.host \in Callers)
    BY <1>0, NumbersOk DEF Application, Callers
  <2>3. notices' \subseteq NoticeRow
    <3>1. CASE app.host = NoHost
      BY <1>7, <3>1 DEF RequestChanges, TypeOK
    <3>2. CASE app.host # NoHost
      BY <1>7, <2>2, <3>2, TellOk DEF RequestChanges, Kinds
    <3> QED BY <3>1, <3>2
  <2> QED BY <1>0, <1>7, <2>1, <2>3, EndsOk DEF RequestChanges, TypeOK
<1> QED
  BY <1>1, <1>2, <1>3, <1>4, <1>5, <1>6, <1>7 DEF CandidateStep

LEMMA AdminTypes ==
  ASSUME TypeOK, AdminStep PROVE TypeOK'
<1>0. episode \in Episode /\ Admin \in Callers /\ Candidate \in Callers
  BY Actors DEF TypeOK
<1>1. ASSUME NEW h \in Hosts, GrantHost(h) \/ RevokeHost(h)
      PROVE  TypeOK'
  BY <1>0, <1>1, EndsOk DEF GrantHost, RevokeHost, TypeOK
<1>2. ASSUME NEW h \in Hosts, BeginAssign(h)
      PROVE  TypeOK'
  <2>1. [Idle EXCEPT !.pc = "check", !.host = h] \in Call
    BY DEF Idle, Call
  <2> QED BY <1>0, <1>2, <2>1, GoesOk DEF BeginAssign, Reads, TypeOK
<1>3. ASSUME NEW v \in Versions, EditEpisode(v)
      PROVE  TypeOK'
  <2>1. episode' \in Episode
    BY <1>0, <1>3 DEF EditEpisode, Episode
  <2> QED BY <1>0, <1>3, <2>1, EndsOk DEF EditEpisode, TypeOK
<1>4. CASE Publish
  <2>1. episode' \in Episode /\ episode.version \in Nat
    BY <1>0, <1>4, NumbersOk DEF Publish, Episode
  <2>2. notices' \subseteq NoticeRow
    BY <1>0, <1>4, <2>1, TellOk DEF Publish, Kinds
  <2> QED BY <1>0, <1>4, <2>1, <2>2, EndsOk DEF Publish, TypeOK
<1> QED BY <1>1, <1>2, <1>3, <1>4 DEF AdminStep

LEMMA PrepareTypes ==
  ASSUME TypeOK, Prepare PROVE TypeOK'
<1>0. app \in Application /\ app.rev \in Nat /\ Candidate \in Callers
  BY Actors DEF TypeOK, Application
<1>1. app' \in Application /\ packs' \subseteq Nat
  BY <1>0 DEF Prepare, Application, TypeOK
<1>2. notices' \subseteq NoticeRow
  BY <1>0, TellOk DEF Prepare, Kinds
<1> QED BY <1>0, <1>1, <1>2 DEF Prepare, TypeOK

LEMMA PlannerTypes ==
  ASSUME TypeOK, NEW p \in Planners, PlannerStep(p) PROVE TypeOK'
<1>0. /\ app \in Application /\ episode \in Episode /\ p \in Callers /\ Candidate \in Callers
      /\ call[p] \in Call /\ app.planVersion + 1 \in Nat
  BY Actors DEF TypeOK, Application
<1>1. ASSUME NEW plan \in Plans, BeginSchedule(p, plan)
      PROVE  TypeOK'
  <2>1. [Idle EXCEPT !.pc = "plan", !.plan = plan, !.had = app.plan # 0, !.v = app.planVersion + 1]
          \in Call
    BY <1>0 DEF Idle, Call
  <2> QED BY <1>0, <1>1, <2>1, GoesOk DEF BeginSchedule, Reads, TypeOK
<1>2. CASE BeginCancel(p)
  <2>1. [Idle EXCEPT !.pc = "plan", !.plan = 0, !.had = TRUE, !.v = app.planVersion + 1] \in Call
    BY <1>0 DEF Idle, Call
  <2> QED BY <1>0, <1>2, <2>1, GoesOk DEF BeginCancel, Reads, TypeOK
<1>3. CASE WritePlan(p)
  <2>1. app' \in Application
    BY <1>0, <1>3 DEF WritePlan, Application, Call
  <2>2. [call[p] EXCEPT !.pc = "notify"] \in Call
    BY <1>0 DEF Call
  <2> QED BY <1>0, <1>3, <2>1, <2>2, GoesOk DEF WritePlan, TypeOK
<1>4. CASE TellPlan(p)
  <2>1. PlanNotice(call[p]) \in Kinds /\ call[p].v \in Nat
    BY <1>0 DEF PlanNotice, Kinds, Call
  <2>2. notices' \subseteq NoticeRow
    BY <1>0, <1>4, <2>1, TellOk DEF TellPlan
  <2> QED BY <1>0, <1>4, <2>2, EndsOk DEF TellPlan, TypeOK
<1>5. ASSUME NEW v \in Versions, SendReview(p, v)
      PROVE  TypeOK'
  <2>1. app' \in Application /\ episode' \in Episode
    BY <1>0, <1>5 DEF SendReview, Application, Episode
  <2>2. notices' \subseteq NoticeRow
    BY <1>0, <1>5, NumbersOk, TellOk DEF SendReview, Kinds
  <2> QED BY <1>0, <1>5, <2>1, <2>2, EndsOk DEF SendReview, TypeOK
<1> QED BY <1>1, <1>2, <1>3, <1>4, <1>5 DEF PlannerStep

LEMMA HandoffTypes ==
  ASSUME TypeOK, NEW p \in Callers, HandoffStep(p) \/ Block(p) \/ Unblock(p) \/ Stops(p)
  PROVE  TypeOK'
<1>0. /\ app \in Application /\ chat \in Chat /\ call[p] \in Call /\ app.rev \in Nat
      /\ unsaid \in BOOLEAN
  BY DEF TypeOK, Application
<1>1. CASE BeginHandoff(p)
  <2>1. [Idle EXCEPT !.pc = IF app.host = DefaultHost THEN "open" ELSE "check",
                     !.host = DefaultHost, !.v = app.rev, !.handoff = TRUE] \in Call
    BY <1>0, RecordingAssumption DEF Idle, Call
  <2> QED BY <1>0, <1>1, <2>1, GoesOk DEF BeginHandoff, Reads, TypeOK
<1>2. CASE CheckAssign(p)
  <2>1. [call[p] EXCEPT !.pc = "assign"] \in Call
    BY <1>0 DEF Call
  <2> QED BY <1>0, <1>2, <2>1, GoesOk DEF CheckAssign, Reads, TypeOK
<1>3. CASE Assign(p)
  <2>1. app' \in Application
    BY <1>0, <1>3 DEF Assign, Application, Call
  <2>2. [call[p] EXCEPT !.pc = "open"] \in Call
    BY <1>0 DEF Call
  <2>3. call' \in [Callers -> Call]
    BY <1>3, <2>2, GoesOk, EndsOk DEF Assign
  <2> QED BY <1>0, <1>3, <2>1, <2>3 DEF Assign, TypeOK
<1>4. CASE OpenChat(p)
  <2>1. chat' \in Chat
    BY <1>0, <1>4 DEF OpenChat, Chat
  <2>2. [call[p] EXCEPT !.pc = "send"] \in Call
    BY <1>0 DEF Call
  <2> QED BY <1>0, <1>4, <2>1, <2>2, GoesOk DEF OpenChat, TypeOK
<1>5. CASE SendHandoff(p)
  <2>1. chat' \in Chat
    BY <1>0, <1>5 DEF SendHandoff, Chat, Call
  <2> QED BY <1>0, <1>5, <2>1, EndsOk DEF SendHandoff, TypeOK
<1>6. CASE Block(p) \/ Unblock(p)
  <2>1. chat' \in Chat
    BY <1>0, <1>6 DEF Block, Unblock, Chat
  <2> QED BY <1>0, <1>6, <2>1, EndsOk DEF Block, Unblock, TypeOK
<1>7. CASE Stops(p)
  <2>1. unsaid' \in BOOLEAN
    BY <1>0, <1>7 DEF Stops, At
  <2> QED BY <1>0, <1>7, <2>1, EndsOk DEF Stops, TypeOK
<1> QED BY <1>1, <1>2, <1>3, <1>4, <1>5, <1>6, <1>7 DEF HandoffStep

LEMMA TypesKept == TypeOK /\ [Next]_vars => TypeOK'
<1> SUFFICES ASSUME TypeOK, [Next]_vars PROVE TypeOK'
  OBVIOUS
<1>1. CASE UNCHANGED vars
  BY <1>1 DEF vars, TypeOK
<1> QED
  BY <1>1, CandidateTypes, AdminTypes, PrepareTypes, PlannerTypes, HandoffTypes DEF Next

\* Every variable of the recording has its type, whoever calls how often.
THEOREM Types == Spec => []TypeOK
BY StartsOk, TypesKept, PTL DEF Spec

-----------------------------------------------------------------------------
(***************************************************************************)
(* The plan that stands was announced, or its caller is about to.          *)
(***************************************************************************)
Told(v) == \E kind \in {"scheduled", "rescheduled"} : Notice(kind, Candidate, v) \in notices
Announces(p, v) == At(p, "notify") /\ call[p].plan # 0 /\ call[p].v = v

Announced ==
  app.plan # 0 /\ ~unsaid => Told(app.planVersion) \/ \E p \in Callers : Announces(p, app.planVersion)

\* Only a step of a caller's own takes it away from its notice.
LEMMA OthersStay ==
  ASSUME TypeOK, NEW p \in Callers, ~At(p, "notify"),
         Ends(p) \/ \E c \in Call : Goes(p, c)
  PROVE  \A q \in Callers : At(q, "notify") => call'[q] = call[q]
BY DEF TypeOK, At, Ends, Goes

\* What neither plans anew, nor takes back a notice or a caller's intent to
\* send one, leaves the plan announced.
LEMMA AnnouncedStays ==
  ASSUME Announced,
         app'.plan = app.plan, app'.planVersion = app.planVersion,
         notices \subseteq notices', ~unsaid' => ~unsaid,
         \A q \in Callers : At(q, "notify") => call'[q] = call[q]
  PROVE  Announced'
<1> SUFFICES ASSUME app'.plan # 0, ~unsaid'
             PROVE  Told(app.planVersion)' \/ \E p \in Callers : Announces(p, app.planVersion)'
  BY DEF Announced
<1>1. CASE Told(app.planVersion)
  BY <1>1 DEF Told
<1>2. CASE \E p \in Callers : Announces(p, app.planVersion)
  BY <1>2 DEF Announces, At
<1> QED BY <1>1, <1>2 DEF Announced

LEMMA CandidateAnnounces ==
  ASSUME TypeOK, Announced, CandidateStep PROVE Announced'
<1>0. app \in Application /\ Candidate \in Callers
  BY Actors DEF TypeOK
<1>1. CASE Submit \/ RetryPreparation \/ Revise \/ Approve \/ RequestChanges
  <2>1. \A q \in Callers : At(q, "notify") => call'[q] = call[q]
    <3>1. ~At(Candidate, "notify") /\ Ends(Candidate)
      BY <1>1 DEF Submit, RetryPreparation, Revise, Approve, RequestChanges, Free, At
    <3> QED BY <1>0, <3>1, OthersStay
  <2>2. app'.plan = app.plan /\ app'.planVersion = app.planVersion
    BY <1>0, <1>1 DEF Submit, RetryPreparation, Revise, Approve, RequestChanges, Application
  <2>3. notices \subseteq notices' /\ unsaid' = unsaid
    BY <1>1 DEF Submit, RetryPreparation, Revise, Approve, RequestChanges, Tell
  <2> QED BY <2>1, <2>2, <2>3, AnnouncedStays
<1>2. CASE BeginWithdraw
  <2>1. \A q \in Callers : At(q, "notify") => call'[q] = call[q]
    <3>1. ~At(Candidate, "notify") /\ Goes(Candidate, [Idle EXCEPT !.pc = "withdraw"])
      BY <1>2 DEF BeginWithdraw, Free, At
    <3>2. [Idle EXCEPT !.pc = "withdraw"] \in Call
      BY DEF Idle, Call
    <3> QED BY <1>0, <3>1, <3>2, OthersStay
  <2> QED BY <1>2, <2>1, AnnouncedStays DEF BeginWithdraw, Reads
<1>3. CASE Withdraw \/ Reopen
  <2>1. app'.plan = 0
    BY <1>0, <1>3 DEF Withdraw, Withdrawn, Reopen, Draft, Application
  <2> QED BY <2>1 DEF Announced
<1> QED BY <1>1, <1>2, <1>3 DEF CandidateStep

LEMMA AdminAnnounces ==
  ASSUME TypeOK, Announced, AdminStep PROVE Announced'
<1>0. Admin \in Callers
  BY Actors
<1>1. \A q \in Callers : At(q, "notify") => call'[q] = call[q]
  <2>1. ~At(Admin, "notify")
    BY DEF AdminStep, GrantHost, RevokeHost, BeginAssign, EditEpisode, Publish, Free, At
  <2>2. Ends(Admin) \/ \E c \in Call : Goes(Admin, c)
    <3>1. ASSUME NEW h \in Hosts, BeginAssign(h)
          PROVE  \E c \in Call : Goes(Admin, c)
      <4>1. [Idle EXCEPT !.pc = "check", !.host = h] \in Call
        BY DEF Idle, Call
      <4> QED BY <3>1, <4>1 DEF BeginAssign
    <3> QED BY <3>1 DEF AdminStep, GrantHost, RevokeHost, EditEpisode, Publish
  <2> QED BY <1>0, <2>1, <2>2, OthersStay
<1>2. app' = app /\ notices \subseteq notices' /\ unsaid' = unsaid
  BY DEF AdminStep, GrantHost, RevokeHost, BeginAssign, EditEpisode, Publish, Reads, Tell
<1> QED BY <1>1, <1>2, AnnouncedStays

LEMMA PrepareAnnounces ==
  ASSUME TypeOK, Announced, Prepare PROVE Announced'
<1>1. app'.plan = app.plan /\ app'.planVersion = app.planVersion
  BY DEF Prepare, TypeOK, Application
<1>2. notices \subseteq notices' /\ unsaid' = unsaid /\ call' = call
  BY DEF Prepare, Tell
<1> QED BY <1>1, <1>2, AnnouncedStays

\* The write leaves its caller with the notice to send, and the notice is sent
\* under the version that was written.
LEMMA PlannerAnnounces ==
  ASSUME TypeOK, Announced, NEW p \in Planners, PlannerStep(p) PROVE Announced'
<1>0. /\ app \in Application /\ p \in Callers /\ call \in [Callers -> Call]
      /\ app.planVersion + 1 \in Nat
  BY Actors DEF TypeOK, Application
<1>1. ASSUME (\E plan \in Plans : BeginSchedule(p, plan)) \/ BeginCancel(p)
      PROVE  Announced'
  <2>1. ~At(p, "notify") /\ Reads
    BY <1>1 DEF BeginSchedule, BeginCancel, Free, At
  <2>2. \E c \in Call : Goes(p, c)
    <3>1. ASSUME NEW plan \in Plans \cup {0}, NEW had \in BOOLEAN
          PROVE  [Idle EXCEPT !.pc = "plan", !.plan = plan, !.had = had, !.v = app.planVersion + 1]
                   \in Call
      BY <1>0 DEF Idle, Call
    <3> QED BY <1>1, <3>1 DEF BeginSchedule, BeginCancel
  <2> QED BY <1>0, <2>1, <2>2, OthersStay, AnnouncedStays DEF Reads
<1>2. CASE WritePlan(p)
  <2>1. app'.plan = call[p].plan /\ app'.planVersion = call[p].v
    BY <1>0, <1>2 DEF WritePlan, Application
  <2>2. call'[p].pc = "notify" /\ call'[p].plan = call[p].plan /\ call'[p].v = call[p].v
    BY <1>0, <1>2 DEF WritePlan, Goes, Call
  <2>3. app'.plan # 0 => Announces(p, app.planVersion)'
    BY <2>1, <2>2 DEF Announces, At
  <2> QED BY <1>0, <2>3 DEF Announced
<1>3. CASE TellPlan(p)
  <2>1. app' = app /\ notices' = notices \cup {Notice(PlanNotice(call[p]), Candidate, call[p].v)}
        /\ unsaid' = unsaid
    BY <1>3 DEF TellPlan, Tell
  <2>2. \A q \in Callers : q # p => call'[q] = call[q]
    BY <1>0, <1>3 DEF TellPlan, Ends
  <2>3. Told(app.planVersion) => Told(app.planVersion)'
    BY <2>1 DEF Told
  <2>4. Announces(p, app.planVersion) => Told(app.planVersion)'
    BY <2>1 DEF Announces, Told, PlanNotice
  <2>5. \A q \in Callers : q # p /\ Announces(q, app.planVersion)
           => Announces(q, app.planVersion)'
    BY <2>1, <2>2 DEF Announces, At
  <2> QED BY <2>1, <2>3, <2>4, <2>5 DEF Announced
<1>4. ASSUME NEW v \in Versions, SendReview(p, v)
      PROVE  Announced'
  <2>1. ~At(p, "notify") /\ Ends(p)
    BY <1>4 DEF SendReview, Free, At
  <2>2. app'.plan = app.plan /\ app'.planVersion = app.planVersion
    BY <1>0, <1>4 DEF SendReview, Application
  <2>3. notices \subseteq notices' /\ unsaid' = unsaid
    BY <1>4 DEF SendReview, Tell
  <2> QED BY <1>0, <2>1, <2>2, <2>3, OthersStay, AnnouncedStays
<1> QED BY <1>1, <1>2, <1>3, <1>4 DEF PlannerStep

LEMMA HandoffAnnounces ==
  ASSUME TypeOK, Announced,
         NEW p \in Callers, HandoffStep(p) \/ Block(p) \/ Unblock(p) \/ Stops(p)
  PROVE  Announced'
<1>0. app \in Application /\ call[p] \in Call /\ app.rev \in Nat
  BY DEF TypeOK, Application
<1>1. app'.plan = app.plan /\ app'.planVersion = app.planVersion /\ notices' = notices
  BY <1>0 DEF HandoffStep, BeginHandoff, CheckAssign, Assign, OpenChat, SendHandoff, Block,
              Unblock, Stops, Reads, Application
<1>2. CASE Stops(p) /\ At(p, "notify")
  BY <1>2 DEF Stops, Announced
<1>3. CASE HandoffStep(p) \/ Block(p) \/ Unblock(p) \/ (Stops(p) /\ ~At(p, "notify"))
  <2>1. ~At(p, "notify") /\ unsaid' = unsaid
    BY <1>3 DEF HandoffStep, BeginHandoff, CheckAssign, Assign, OpenChat, SendHandoff, Block,
                Unblock, Stops, Reads, Free, At, TypeOK
  <2>2. \A pc \in {"assign", "open", "send"} : [call[p] EXCEPT !.pc = pc] \in Call
    BY <1>0 DEF Call
  <2>3. \A pc \in {"open", "check"} :
          [Idle EXCEPT !.pc = pc, !.host = DefaultHost, !.v = app.rev, !.handoff = TRUE] \in Call
    BY <1>0, RecordingAssumption DEF Idle, Call
  <2>4. Ends(p) \/ \E c \in Call : Goes(p, c)
    <3>1. CASE BeginHandoff(p)
      BY <2>3, <3>1 DEF BeginHandoff
    <3>2. CASE CheckAssign(p) \/ Assign(p) \/ OpenChat(p)
      BY <2>2, <3>2 DEF CheckAssign, Assign, OpenChat
    <3>3. CASE SendHandoff(p) \/ Block(p) \/ Unblock(p) \/ Stops(p)
      BY <3>3 DEF SendHandoff, Block, Unblock, Stops
    <3> QED BY <1>3, <3>1, <3>2, <3>3 DEF HandoffStep
  <2> QED BY <1>1, <2>1, <2>4, OthersStay, AnnouncedStays
<1> QED BY <1>2, <1>3

LEMMA AnnouncedAtStart == Init => Announced
BY StartsAssumption DEF Init, Announced

LEMMA AnnouncedKept == TypeOK /\ Announced /\ [Next]_vars => Announced'
<1> SUFFICES ASSUME TypeOK, Announced, [Next]_vars PROVE Announced'
  OBVIOUS
<1>1. CASE UNCHANGED vars
  BY <1>1, AnnouncedStays DEF vars
<1> QED
  BY <1>1, CandidateAnnounces, AdminAnnounces, PrepareAnnounces, PlannerAnnounces,
     HandoffAnnounces DEF Next

\* A plan that stands was announced under its own version, unless a call died
\* between its write and its notice: no reader is left to announce another.
THEOREM PlansAreTold == Spec => []ToldOfPlan
<1>1. Announced => ToldOfPlan
  BY DEF Announced, ToldOfPlan, Told, Announces
<1> QED BY <1>1, StartsOk, TypesKept, AnnouncedAtStart, AnnouncedKept, PTL DEF Spec

-----------------------------------------------------------------------------
(***************************************************************************)
(* Recording implements Portrait: what is seen of the application and the  *)
(* episode moves as the promise allows.                                    *)
(***************************************************************************)
LEMMA PromiseAtStart == Init => Portrait!Init
BY DEF Init, Portrait!Init, Portrait!Stages

LEMMA CandidatePromise ==
  ASSUME TypeOK, CandidateStep PROVE [Portrait!Next]_(Portrait!vars)
<1>0. app \in Application /\ episode \in Episode
  BY DEF TypeOK
<1>1. CASE Submit
  <2>1. Portrait!Submit
    BY <1>0, <1>1 DEF Submit, Application, Portrait!Submit, Portrait!Advance
  <2> QED BY <2>1 DEF Portrait!Next
<1>2. CASE RetryPreparation \/ RequestChanges \/ BeginWithdraw
  BY <1>0, <1>2
     DEF RetryPreparation, RequestChanges, BeginWithdraw, Reads, Application, Portrait!vars
<1>3. CASE Revise
  <2>1. Portrait!Revise
    BY <1>0, <1>3 DEF Revise, Application, Portrait!Revise, Portrait!Advance
  <2> QED BY <2>1 DEF Portrait!Next
<1>4. CASE Withdraw
  <2>0. app'.status = "WITHDRAWN" /\ episode' = episode
    BY <1>0, <1>4 DEF Withdraw, Withdrawn, Application
  <2>1. CASE app.status = "WITHDRAWN"
    BY <2>0, <2>1 DEF Portrait!vars
  <2>2. CASE app.status # "WITHDRAWN"
    <3>1. Portrait!Withdraw
      BY <1>0, <2>0, <2>2 DEF Application, Portrait!Withdraw, Portrait!Advance
    <3> QED BY <3>1 DEF Portrait!Next
  <2> QED BY <2>1, <2>2
<1>5. CASE Reopen
  <2>1. Portrait!Reopen
    BY <1>0, <1>5 DEF Reopen, Draft, Application, Portrait!Reopen, Portrait!Advance
  <2> QED BY <2>1 DEF Portrait!Next
<1>6. CASE Approve
  <2>1. app.review \in Versions
    BY <1>0, <1>6 DEF Approve, ApproveAccepted, Application
  <2>2. /\ app'.status = app.status /\ app'.prep = app.prep
        /\ episode'.accepted = episode.accepted \cup {app.review}
        /\ episode'.published = episode.published /\ episode'.version = episode.version
    BY <1>0, <1>6 DEF Approve, Application, Episode
  <2>3. Portrait!Agree
    BY <2>1, <2>2 DEF Portrait!Agree
  <2> QED BY <2>3 DEF Portrait!Next
<1> QED BY <1>1, <1>2, <1>3, <1>4, <1>5, <1>6 DEF CandidateStep

LEMMA StaffPromise ==
  ASSUME TypeOK, AdminStep \/ Prepare \/ \E p \in Planners : PlannerStep(p)
  PROVE  [Portrait!Next]_(Portrait!vars)
<1>0. app \in Application /\ episode \in Episode
  BY DEF TypeOK
<1>1. ASSUME NEW h \in Hosts, GrantHost(h) \/ RevokeHost(h) \/ BeginAssign(h)
      PROVE  UNCHANGED Portrait!vars
  BY <1>1 DEF GrantHost, RevokeHost, BeginAssign, Reads, Portrait!vars
<1>2. ASSUME NEW v \in Versions, EditEpisode(v)
      PROVE  UNCHANGED Portrait!vars
  BY <1>0, <1>2 DEF EditEpisode, Episode, Portrait!vars
<1>3. ASSUME Publish
      PROVE  Portrait!Publish
  BY <1>0, <1>3 DEF Publish, PublishAccepted, Episode, Portrait!Publish
<1>4. ASSUME Prepare
      PROVE  Portrait!Prepare \/ UNCHANGED Portrait!vars
  BY <1>0, <1>4 DEF Prepare, Application, Portrait!Prepare, Portrait!Advance, Portrait!vars
<1>5. ASSUME NEW p \in Planners, PlannerStep(p)
      PROVE  UNCHANGED Portrait!vars
  <2>1. app'.status = app.status /\ app'.prep = app.prep
    BY <1>0, <1>5 DEF PlannerStep, BeginSchedule, BeginCancel, WritePlan, TellPlan, SendReview, Reads,
                 Application
  <2>2. \/ episode' = episode
        \/ ~episode.published /\ ~episode'.published /\ episode'.accepted = episode.accepted
    BY <1>0, <1>5 DEF PlannerStep, BeginSchedule, BeginCancel, WritePlan, TellPlan, SendReview,
                 SendAccepted, Reads, Episode
  <2> QED BY <2>1, <2>2 DEF Portrait!vars
<1> QED BY <1>1, <1>2, <1>3, <1>4, <1>5 DEF AdminStep, Portrait!Next

LEMMA CallersPromise ==
  ASSUME TypeOK, NEW p \in Callers, HandoffStep(p) \/ Block(p) \/ Unblock(p) \/ Stops(p)
  PROVE  UNCHANGED Portrait!vars
<1>1. app'.status = app.status /\ app'.prep = app.prep /\ episode' = episode
  BY DEF HandoffStep, BeginHandoff, CheckAssign, Assign, OpenChat, SendHandoff, Block, Unblock,
         Stops, Reads, TypeOK, Application
<1> QED BY <1>1 DEF Portrait!vars

\* What the hosts, the staff and the worker do keeps the promise made to the
\* candidate: only a version the candidate agreed to is published, and for good.
THEOREM PromiseKept == Spec => KeepsPromise
<1>1. TypeOK /\ [Next]_vars => [Portrait!Next]_(Portrait!vars)
  <2> SUFFICES ASSUME TypeOK, [Next]_vars PROVE [Portrait!Next]_(Portrait!vars)
    OBVIOUS
  <2>1. CASE UNCHANGED vars
    BY <2>1 DEF vars, Portrait!vars
  <2> QED BY <2>1, CandidatePromise, StaffPromise, CallersPromise DEF Next
<1> QED
  BY <1>1, PromiseAtStart, StartsOk, TypesKept, PTL DEF Spec, KeepsPromise, Portrait!Spec

-----------------------------------------------------------------------------
(***************************************************************************)
(* The overview.  It reads a submitted application only while its          *)
(* preparation is at one of three stages.                                  *)
(***************************************************************************)
LEMMA ConsistentAtStart == Init => Consistent(app)
BY StartsAssumption DEF Init

LEMMA ConsistentKept ==
  ASSUME TypeOK, Consistent(app), [Next]_vars PROVE Consistent(app)'
<1>0. app \in Application /\ app.rev \in Nat
  BY DEF TypeOK, Application
<1>1. CASE app'.status = app.status /\ app'.rev = app.rev /\ app'.prep = app.prep
  BY <1>1 DEF Consistent
<1>2. CASE CandidateStep
  <2>1. CASE Submit
    <3>1. app'.rev = app.rev + 1 /\ app'.prep = "QUEUED"
      BY <1>0, <2>1 DEF Submit, Application
    <3> QED BY <1>0, <3>1 DEF Consistent
  <2>2. CASE RetryPreparation
    <3>1. app'.status = app.status /\ app'.rev = app.rev /\ app'.prep = "QUEUED"
      BY <1>0, <2>2 DEF RetryPreparation, Application
    <3> QED BY <3>1 DEF Consistent
  <2>3. CASE Revise \/ Withdraw \/ Reopen
    <3>1. app'.status # "SUBMITTED"
      BY <1>0, <2>3 DEF Revise, Withdraw, Withdrawn, Reopen, Draft, Application
    <3> QED BY <3>1 DEF Consistent
  <2>4. CASE BeginWithdraw \/ Approve \/ RequestChanges
    BY <1>0, <1>1, <2>4 DEF BeginWithdraw, Approve, RequestChanges, Reads, Application
  <2> QED BY <1>2, <2>1, <2>2, <2>3, <2>4 DEF CandidateStep
<1>3. CASE Prepare
  <2>1. app'.status = app.status /\ app'.rev = app.rev /\ app'.prep \in {"READY", "FAILED"}
    BY <1>0, <1>3 DEF Prepare, Application
  <2> QED BY <2>1 DEF Consistent
<1>4. CASE AdminStep
  BY <1>1, <1>4 DEF AdminStep, GrantHost, RevokeHost, BeginAssign, EditEpisode, Publish, Reads
<1>5. ASSUME NEW p \in Planners, PlannerStep(p)
      PROVE  Consistent(app)'
  BY <1>0, <1>1, <1>5 DEF PlannerStep, BeginSchedule, BeginCancel, WritePlan, TellPlan, SendReview,
                          Reads, Application
<1>6. ASSUME NEW p \in Callers, HandoffStep(p) \/ Block(p) \/ Unblock(p) \/ Stops(p)
      PROVE  Consistent(app)'
  BY <1>0, <1>1, <1>6 DEF HandoffStep, BeginHandoff, CheckAssign, Assign, OpenChat, SendHandoff, Block,
                          Unblock, Stops, Reads, Application
<1>7. CASE UNCHANGED vars
  BY <1>1, <1>7 DEF vars
<1> QED BY <1>2, <1>3, <1>4, <1>5, <1>6, <1>7 DEF Next

\* The first line that applies is the one whose predecessors do not.
LEMMA FirstOfIs ==
  ASSUME NEW len \in Nat, NEW table, DOMAIN table = 1..len, NEW n \in 1..len,
         table[n][1], \A k \in 1..(n - 1) : ~table[k][1]
  PROVE  FirstOf(table) = table[n][2]
<1> DEFINE Applies(m) == table[m][1] /\ \A k \in 1..(m - 1) : ~table[k][1]
<1>1. ASSUME NEW m \in 1..len, Applies(m)
      PROVE  m = n
  <2>1. ~ (m < n)
    <3>1. ASSUME m < n PROVE FALSE
      <4>1. m \in 1..(n - 1)
        BY <3>1
      <4> QED BY <1>1, <4>1, Zenon
    <3> QED BY <3>1
  <2>2. ~ (n < m)
    <3>1. ASSUME n < m PROVE FALSE
      <4>1. n \in 1..(m - 1)
        BY <3>1
      <4> QED BY <1>1, <4>1, Zenon
    <3> QED BY <3>1
  <2> QED BY <2>1, <2>2
<1>2. Applies(n)
  OBVIOUS
<1> HIDE DEF Applies
<1>3. (CHOOSE m \in DOMAIN table : Applies(m)) = n
  BY <1>1, <1>2
<1> QED BY <1>3, Zenon DEF FirstOf, Applies


\* Of the lines that apply there is a first one, if there is any.
LEMMA FirstOfFinds ==
  ASSUME NEW len \in Nat, NEW table, DOMAIN table = 1..len, NEW last \in 1..len, table[last][1]
  PROVE  \E n \in 1..len : /\ table[n][1] /\ \A k \in 1..(n - 1) : ~table[k][1]
                           /\ FirstOf(table) = table[n][2]
<1> DEFINE T == {k \in 1..len : table[k][1]}
<1>1. T \subseteq Nat /\ T # {}
  OBVIOUS
<1>2. PICK n \in T : \A k \in T : <<k, n>> \notin OpToRel(<, Nat)
  BY <1>1, WFMin, NatLessThanWellFounded
<1>3. \A k \in T : ~(k < n)
  BY <1>1, <1>2 DEF OpToRel
<1>4. \A k \in 1..(n - 1) : k \notin T /\ k \in 1..len
  BY <1>3
<1>5. \A k \in 1..(n - 1) : ~table[k][1]
  BY <1>4
<1>6. FirstOf(table) = table[n][2]
  BY <1>5, FirstOfIs
<1> QED BY <1>5, <1>6




\* What the first line that applies says of the application.
Line(p, next) ==
  \/ next = "withdrawn" /\ app.status = "WITHDRAWN"
  \/ next \in {"done", "notes"}
  \/ next = "retry" /\ PrepFailed
  \/ next = "preparing" /\ PrepWaiting
  \/ next = "handoff" /\ PrepReady /\ ~HandoffSent
  \/ /\ ~episode.published /\ ~PrepFailed /\ ~PrepWaiting
     /\ \/ next = "schedule" /\ PrepReady /\ ~Scheduled
        \/ next = "record" /\ PrepReady
        \/ next = "review" /\ app.changes
        \/ /\ ~app.changes
           /\ \/ next = "send" /\ HasEpisode /\ (~ReviewRequested \/ ~VersionMatches)
              \/ next = "approval" /\ ReviewRequested /\ VersionMatches /\ ~ApprovedCurrent
              \/ next = "publish" /\ ApprovedCurrent /\ p = Admin
              \/ next = "approved" /\ ApprovedCurrent

LEMMA NextActionLine ==
  ASSUME NEW p
  PROVE  Line(p, NextAction(p))
<1> DEFINE table == <<
         <<app.status = "WITHDRAWN", "withdrawn">>,
         <<episode.published, "done">>,
         <<PrepFailed, "retry">>,
         <<PrepWaiting, "preparing">>,
         <<PrepReady /\ ~HandoffSent, "handoff">>,
         <<PrepReady /\ ~Scheduled, "schedule">>,
         <<PrepReady /\ Scheduled /\ ~HasEpisode, "record">>,
         <<app.changes, "review">>,
         <<HasEpisode /\ (~ReviewRequested \/ ~VersionMatches), "send">>,
         <<ReviewRequested /\ VersionMatches /\ ~ApprovedCurrent, "approval">>,
         <<ApprovedCurrent /\ p = Admin, "publish">>,
         <<ApprovedCurrent, "approved">>,
         <<TRUE, "notes">> >>
<1>1. PICK l \in Nat : l = 13
  OBVIOUS
<1>2. DOMAIN table = 1..l /\ l \in 1..l /\ table[l][1]
  BY <1>1
<1>3. NextAction(p) = FirstOf(table)
  BY DEF NextAction
<1>5. /\ table[1][2] = "withdrawn"
      /\ table[2][2] = "done"
      /\ table[3][2] = "retry"
      /\ table[4][2] = "preparing"
      /\ table[5][2] = "handoff"
      /\ table[6][2] = "schedule"
      /\ table[7][2] = "record"
      /\ table[8][2] = "review"
      /\ table[9][2] = "send"
      /\ table[10][2] = "approval"
      /\ table[11][2] = "publish"
      /\ table[12][2] = "approved"
      /\ table[13][2] = "notes"
  OBVIOUS
<1>6. /\ table[1][1] <=> (app.status = "WITHDRAWN")
      /\ table[2][1] <=> episode.published
      /\ table[3][1] <=> PrepFailed
      /\ table[4][1] <=> PrepWaiting
      /\ table[5][1] <=> (PrepReady /\ ~HandoffSent)
      /\ table[6][1] <=> (PrepReady /\ ~Scheduled)
      /\ table[7][1] <=> (PrepReady /\ Scheduled /\ ~HasEpisode)
      /\ table[8][1] <=> app.changes
      /\ table[9][1] <=> (HasEpisode /\ (~ReviewRequested \/ ~VersionMatches))
      /\ table[10][1] <=> (ReviewRequested /\ VersionMatches /\ ~ApprovedCurrent)
      /\ table[11][1] <=> (ApprovedCurrent /\ p = Admin)
      /\ table[12][1] <=> ApprovedCurrent
  OBVIOUS
<1> HIDE DEF table
<1>7. PICK n \in 1..l : /\ table[n][1] /\ \A k \in 1..(n - 1) : ~table[k][1]
                        /\ FirstOf(table) = table[n][2]
  BY <1>2, FirstOfFinds, Zenon
<1>8. n \in 1..13
  BY <1>1
<1>9. CASE n = 1
  <2>1. NextAction(p) = "withdrawn" /\ (app.status = "WITHDRAWN")
    BY <1>3, <1>5, <1>6, <1>7, <1>9
  <2> QED BY <2>1 DEF Line
<1>10. CASE n = 2
  BY <1>3, <1>5, <1>7, <1>10 DEF Line
<1>11. CASE n = 3
  <2>1. NextAction(p) = "retry" /\ (PrepFailed)
    BY <1>3, <1>5, <1>6, <1>7, <1>11
  <2> QED BY <2>1 DEF Line
<1>12. CASE n = 4
  <2>1. NextAction(p) = "preparing" /\ (PrepWaiting)
    BY <1>3, <1>5, <1>6, <1>7, <1>12
  <2> QED BY <2>1 DEF Line
<1>13. CASE n = 5
  <2>1. NextAction(p) = "handoff" /\ (PrepReady /\ ~HandoffSent)
    BY <1>3, <1>5, <1>6, <1>7, <1>13
  <2> QED BY <2>1 DEF Line
<1>14. CASE n = 6
  <2>1. NextAction(p) = "schedule" /\ (PrepReady /\ ~Scheduled)
    BY <1>3, <1>5, <1>6, <1>7, <1>14
  <2>2. ~episode.published /\ ~PrepFailed /\ ~PrepWaiting
    BY <1>6, <1>7, <1>14
  <2> QED BY <2>1, <2>2 DEF Line
<1>15. CASE n = 7
  <2>1. NextAction(p) = "record" /\ (PrepReady /\ Scheduled /\ ~HasEpisode)
    BY <1>3, <1>5, <1>6, <1>7, <1>15
  <2>2. ~episode.published /\ ~PrepFailed /\ ~PrepWaiting
    BY <1>6, <1>7, <1>15
  <2> QED BY <2>1, <2>2 DEF Line
<1>16. CASE n = 8
  <2>1. NextAction(p) = "review" /\ (app.changes)
    BY <1>3, <1>5, <1>6, <1>7, <1>16
  <2>2. ~episode.published /\ ~PrepFailed /\ ~PrepWaiting
    BY <1>6, <1>7, <1>16
  <2> QED BY <2>1, <2>2 DEF Line
<1>17. CASE n = 9
  <2>1. NextAction(p) = "send" /\ (HasEpisode /\ (~ReviewRequested \/ ~VersionMatches))
    BY <1>3, <1>5, <1>6, <1>7, <1>17
  <2>2. ~episode.published /\ ~PrepFailed /\ ~PrepWaiting /\ ~app.changes
    BY <1>6, <1>7, <1>17
  <2> QED BY <2>1, <2>2 DEF Line
<1>18. CASE n = 10
  <2>1. NextAction(p) = "approval" /\ (ReviewRequested /\ VersionMatches /\ ~ApprovedCurrent)
    BY <1>3, <1>5, <1>6, <1>7, <1>18
  <2>2. ~episode.published /\ ~PrepFailed /\ ~PrepWaiting /\ ~app.changes
    BY <1>6, <1>7, <1>18
  <2> QED BY <2>1, <2>2 DEF Line
<1>19. CASE n = 11
  <2>1. NextAction(p) = "publish" /\ (ApprovedCurrent /\ p = Admin)
    BY <1>3, <1>5, <1>6, <1>7, <1>19
  <2>2. ~episode.published /\ ~PrepFailed /\ ~PrepWaiting /\ ~app.changes
    BY <1>6, <1>7, <1>19
  <2> QED BY <2>1, <2>2 DEF Line
<1>20. CASE n = 12
  <2>1. NextAction(p) = "approved" /\ (ApprovedCurrent)
    BY <1>3, <1>5, <1>6, <1>7, <1>20
  <2>2. ~episode.published /\ ~PrepFailed /\ ~PrepWaiting /\ ~app.changes
    BY <1>6, <1>7, <1>20
  <2> QED BY <2>1, <2>2 DEF Line
<1>21. CASE n = 13
  BY <1>3, <1>5, <1>7, <1>21 DEF Line
<1> QED
  BY <1>8, <1>9, <1>10, <1>11, <1>12, <1>13, <1>14, <1>15, <1>16, <1>17, <1>18, <1>19, <1>20, <1>21

\* A step that the overview sends somebody to, or waits for, is open.
LEMMA HostStepOpen ==
  PrepReady /\ ~HandoffSent
    => Progress("host") \in {"act", "waits"}
<1> SUFFICES ASSUME PrepReady /\ ~HandoffSent
             PROVE  Progress("host") \in {"act", "waits"}
  OBVIOUS
<1> DEFINE table == <<
         <<~PrepReady, "absent">>,
         <<HandoffSent, "complete">>,
         <<TRUE, "act">> >>
<1>1. DOMAIN table = 1..3 /\ 3 \in Nat /\ 3 \in 1..3 /\ table[3][1]
  OBVIOUS
<1>2. Progress("host") = FirstOf(table)
  BY DEF Progress
<1>3. /\ table[1][2] = "absent"
      /\ table[2][2] = "complete"
      /\ table[3][2] = "act"
  OBVIOUS
<1>4. /\ table[1][1] <=> (~PrepReady)
      /\ table[2][1] <=> HandoffSent
  OBVIOUS
<1> HIDE DEF table
<1>5. PICK n \in 1..3 : /\ table[n][1] /\ \A k \in 1..(n - 1) : ~table[k][1]
                        /\ FirstOf(table) = table[n][2]
  BY <1>1, FirstOfFinds, Zenon
<1>6. n # 1
  BY <1>4, <1>5
<1>7. n # 2
  BY <1>4, <1>5
<1>8. n \in {3}
  BY <1>6, <1>7
<1> QED BY <1>2, <1>3, <1>5, <1>8

LEMMA PlanStepOpen ==
  PrepReady /\ ~Scheduled
    => Progress("plan") \in {"act", "waits"}
<1> SUFFICES ASSUME PrepReady /\ ~Scheduled
             PROVE  Progress("plan") \in {"act", "waits"}
  OBVIOUS
<1> DEFINE table == <<
         <<~PrepReady, "absent">>,
         <<Scheduled, "complete">>,
         <<app.planVersion > 0, "act">>,
         <<TRUE, "waits">> >>
<1>1. DOMAIN table = 1..4 /\ 4 \in Nat /\ 4 \in 1..4 /\ table[4][1]
  OBVIOUS
<1>2. Progress("plan") = FirstOf(table)
  BY DEF Progress
<1>3. /\ table[1][2] = "absent"
      /\ table[2][2] = "complete"
      /\ table[3][2] = "act"
      /\ table[4][2] = "waits"
  OBVIOUS
<1>4. /\ table[1][1] <=> (~PrepReady)
      /\ table[2][1] <=> Scheduled
      /\ table[3][1] <=> (app.planVersion > 0)
  OBVIOUS
<1> HIDE DEF table
<1>5. PICK n \in 1..4 : /\ table[n][1] /\ \A k \in 1..(n - 1) : ~table[k][1]
                        /\ FirstOf(table) = table[n][2]
  BY <1>1, FirstOfFinds, Zenon
<1>6. n # 1
  BY <1>4, <1>5
<1>7. n # 2
  BY <1>4, <1>5
<1>8. n \in {3, 4}
  BY <1>6, <1>7
<1> QED BY <1>2, <1>3, <1>5, <1>8

LEMMA ApprovalStepOpen ==
  ~episode.published /\ (app.changes \/ (~ApprovedCurrent /\ (ReviewRequested \/ HasEpisode)))
    => Progress("approval") \in {"act", "waits"}
<1> SUFFICES ASSUME ~episode.published,
                    app.changes \/ (~ApprovedCurrent /\ (ReviewRequested \/ HasEpisode))
             PROVE  Progress("approval") \in {"act", "waits"}
  OBVIOUS
<1> DEFINE table == <<
         <<episode.published, "complete">>,
         <<app.changes, "act">>,
         <<ApprovedCurrent, "complete">>,
         <<ReviewRequested /\ VersionMatches, "waits">>,
         <<ReviewRequested \/ HasEpisode, "act">>,
         <<TRUE, "absent">> >>
<1>0. PICK l \in Nat : l = 6
  OBVIOUS
<1>1. DOMAIN table = 1..l /\ l \in 1..l /\ table[l][1]
  BY <1>0
<1>2. Progress("approval") = FirstOf(table)
  BY DEF Progress
<1>3. /\ table[1][2] = "complete"
      /\ table[2][2] = "act"
      /\ table[3][2] = "complete"
      /\ table[4][2] = "waits"
      /\ table[5][2] = "act"
      /\ table[6][2] = "absent"
  OBVIOUS
<1>4. /\ table[1][1] <=> episode.published
      /\ table[2][1] <=> app.changes
      /\ table[3][1] <=> ApprovedCurrent
      /\ table[4][1] <=> (ReviewRequested /\ VersionMatches)
      /\ table[5][1] <=> (ReviewRequested \/ HasEpisode)
  OBVIOUS
<1> HIDE DEF table
<1>5. PICK n \in 1..l : /\ table[n][1] /\ \A k \in 1..(n - 1) : ~table[k][1]
                        /\ FirstOf(table) = table[n][2]
  BY <1>1, FirstOfFinds, Zenon
<1>6. n # 1
  BY <1>4, <1>5
<1>7. n # 3
  BY <1>4, <1>5
<1>8. n # 6
  BY <1>4, <1>5
<1>9. n \in {2, 4, 5}
  BY <1>0, <1>6, <1>7, <1>8
<1> QED BY <1>2, <1>3, <1>5, <1>9

LEMMA PublicationStepOpen ==
  ~episode.published /\ ApprovedCurrent
    => Progress("publication") \in {"act", "waits"}
<1> SUFFICES ASSUME ~episode.published /\ ApprovedCurrent
             PROVE  Progress("publication") \in {"act", "waits"}
  OBVIOUS
<1> DEFINE table == <<
         <<episode.published, "complete">>,
         <<ApprovedCurrent, "act">>,
         <<ReviewRequested, "waits">>,
         <<TRUE, "absent">> >>
<1>1. DOMAIN table = 1..4 /\ 4 \in Nat /\ 4 \in 1..4 /\ table[4][1]
  OBVIOUS
<1>2. Progress("publication") = FirstOf(table)
  BY DEF Progress
<1>3. /\ table[1][2] = "complete"
      /\ table[2][2] = "act"
      /\ table[3][2] = "waits"
      /\ table[4][2] = "absent"
  OBVIOUS
<1>4. /\ table[1][1] <=> episode.published
      /\ table[2][1] <=> ApprovedCurrent
      /\ table[3][1] <=> ReviewRequested
  OBVIOUS
<1> HIDE DEF table
<1>5. PICK n \in 1..4 : /\ table[n][1] /\ \A k \in 1..(n - 1) : ~table[k][1]
                        /\ FirstOf(table) = table[n][2]
  BY <1>1, FirstOfFinds, Zenon
<1>6. n # 1
  BY <1>4, <1>5
<1>7. n # 4
  BY <1>4, <1>5
<1>8. n \in {2, 3}
  BY <1>6, <1>7
<1> QED BY <1>2, <1>3, <1>5, <1>8

LEMMA PreparationStepOpen ==
  ~PrepReady /\ (PrepFailed \/ PrepWaiting)
    => Progress("preparation") \in {"act", "waits"}
<1> SUFFICES ASSUME ~PrepReady /\ (PrepFailed \/ PrepWaiting)
             PROVE  Progress("preparation") \in {"act", "waits"}
  OBVIOUS
<1> DEFINE table == <<
         <<PrepReady, "complete">>,
         <<PrepFailed, "act">>,
         <<PrepWaiting, "waits">>,
         <<TRUE, "absent">> >>
<1>1. DOMAIN table = 1..4 /\ 4 \in Nat /\ 4 \in 1..4 /\ table[4][1]
  OBVIOUS
<1>2. Progress("preparation") = FirstOf(table)
  BY DEF Progress
<1>3. /\ table[1][2] = "complete"
      /\ table[2][2] = "act"
      /\ table[3][2] = "waits"
      /\ table[4][2] = "absent"
  OBVIOUS
<1>4. /\ table[1][1] <=> PrepReady
      /\ table[2][1] <=> PrepFailed
      /\ table[3][1] <=> PrepWaiting
  OBVIOUS
<1> HIDE DEF table
<1>5. PICK n \in 1..4 : /\ table[n][1] /\ \A k \in 1..(n - 1) : ~table[k][1]
                        /\ FirstOf(table) = table[n][2]
  BY <1>1, FirstOfFinds, Zenon
<1>6. n # 1
  BY <1>4, <1>5
<1>7. n # 4
  BY <1>4, <1>5
<1>8. n \in {2, 3}
  BY <1>6, <1>7
<1> QED BY <1>2, <1>3, <1>5, <1>8

\* Every line that can come first leads to an operation that takes it and to a
\* step that is still open.
LEMMA OffersHold == TypeOK /\ Consistent(app) => OffersAreAccepted
<1> SUFFICES ASSUME TypeOK, Consistent(app) PROVE OffersAreAccepted
  OBVIOUS
<1>1. ASSUME NEW p \in Planners, MayPlan(p)
      PROVE  /\ app.status = "SUBMITTED" => Accepted(p, NextAction(p))
             /\ NextAction(p) \in DOMAIN StepOf =>
                  Progress(StepOf[NextAction(p)]) \in {"act", "waits"}
  <2> DEFINE next == NextAction(p)
  <2>1. app.status # "WITHDRAWN" /\ Line(p, next)
    BY <1>1, NextActionLine DEF MayPlan
  <2> HIDE DEF next
  <2>2. app.status = "SUBMITTED" /\ ~PrepFailed /\ ~PrepWaiting => Ready
    BY DEF Consistent, PrepFailed, PrepWaiting, Ready
  <2>3. ASSUME app.status = "SUBMITTED"
        PROVE  Accepted(p, next)
    <3>1. CASE next \in {"done", "notes", "retry"}
      BY <3>1 DEF Accepted
    <3>2. CASE next = "preparing" /\ PrepWaiting
      BY <2>3, <3>2 DEF Accepted, PrepWaiting, Consistent
    <3>3. CASE next = "handoff" /\ PrepReady /\ ~HandoffSent
      BY <2>3, <3>3 DEF Accepted, PrepReady, HandoffAccepted, HostUnavailable, Consistent
    <3>4. CASE next = "schedule"
      BY <1>1, <2>1, <2>2, <2>3, <3>4 DEF Accepted, ScheduleAccepted, Line
    <3>5. CASE next \in {"record", "review", "send"}
      BY <1>1, <2>1, <2>2, <2>3, <3>5 DEF Accepted, SendAccepted, Line
    <3>6. CASE next = "approval"
      BY <2>1, <3>6 DEF Accepted, ApproveAccepted, ReviewRequested, VersionMatches,
                        ApprovedCurrent, Line
    <3>7. CASE next \in {"publish", "approved"}
      BY <2>1, <3>7 DEF Accepted, PublishAccepted, VersionMatches, HasEpisode, ApprovedCurrent, Line
    <3> QED BY <2>1, <3>1, <3>2, <3>3, <3>4, <3>5, <3>6, <3>7 DEF Line
  <2>4. ASSUME next \in DOMAIN StepOf
        PROVE  Progress(StepOf[next]) \in {"act", "waits"}
    <3>1. CASE next = "retry" \/ next = "preparing"
      <4>1. ~PrepReady /\ (PrepFailed \/ PrepWaiting)
        BY <2>1, <3>1 DEF Line, PrepReady, PrepFailed, PrepWaiting, Ready
      <4> QED BY <3>1, <4>1, PreparationStepOpen DEF StepOf
    <3>2. CASE next = "handoff"
      BY <2>1, <3>2, HostStepOpen DEF Line, StepOf
    <3>3. CASE next = "schedule"
      BY <2>1, <3>3, PlanStepOpen DEF Line, StepOf
    <3>4. CASE next \in {"review", "send", "approval"}
      <4>1. ~episode.published /\ (app.changes \/ (~ApprovedCurrent /\ (ReviewRequested \/ HasEpisode)))
        <5>1. CASE next = "review"
          BY <2>1, <5>1 DEF Line
        <5>2. CASE next = "send"
          <6>1. ~VersionMatches
            BY <2>1, <5>2 DEF Line, ReviewRequested, VersionMatches, HasEpisode
          <6> QED BY <2>1, <5>2, <6>1 DEF Line, ApprovedCurrent
        <5>3. CASE next = "approval"
          BY <2>1, <5>3 DEF Line
        <5> QED BY <3>4, <5>1, <5>2, <5>3
      <4> QED BY <3>4, <4>1, ApprovalStepOpen DEF StepOf
    <3>5. CASE next \in {"publish", "approved"}
      BY <2>1, <3>5, PublicationStepOpen DEF Line, StepOf
    <3>6. DOMAIN StepOf = {"handoff", "schedule", "review", "send", "approval", "publish",
                           "approved", "retry", "preparing"}
      BY DEF StepOf
    <3> QED BY <2>4, <3>1, <3>2, <3>3, <3>4, <3>5, <3>6
  <2> QED BY <2>3, <2>4 DEF next
<1>2. PanelPublishes /\ app.status # "WITHDRAWN" => PublishAccepted(Admin)
  BY DEF PanelPublishes, PublishAccepted, HasEpisode
<1>3. PageAsks /\ VersionMatches => ApproveAccepted
  BY DEF PageAsks, ApproveAccepted, VersionMatches, ApprovedCurrent, ReviewRequested
<1> QED BY <1>1, <1>2, <1>3 DEF OffersAreAccepted

\* Whatever the overview offers or waits for is accepted by the operation behind
\* it and is a step shown as open, in every state the recording can reach.
THEOREM OffersAccepted == Spec => []OffersAreAccepted
BY OffersHold, StartsOk, TypesKept, ConsistentAtStart, ConsistentKept, PTL DEF Spec

=============================================================================
