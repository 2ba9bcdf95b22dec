------------------------ MODULE ProfileAssistProofs ------------------------
(***************************************************************************)
(* Theorems of ProfileAssist: its types, that the panel is never busy with *)
(* nothing under way, and, with one reviewer, that what the public sees    *)
(* was approved.                                                           *)
(***************************************************************************)
EXTENDS ProfileAssist, TLAPS

-----------------------------------------------------------------------------
(***************************************************************************)
(* The inductive invariant.                                                *)
(***************************************************************************)
\* A job that is seen is one there is.
Seen(v) == v \in View /\ (v.status # "none" => v.id \in Jobs)

\* What a call holds between its steps, given the reviews there are.
Fits(c, rows) ==
  /\ c \in Call /\ Seen(c.view)
  /\ c.pc \in {"cancel", "retry"} => c.view.id \in Jobs
  /\ c.pc = "store" => c.cv \in Cvs
  /\ c.pc \in {"decide", "tell"} => c.decision \in {"APPROVED", "REJECTED"}
  /\ c.pc \in {"auto", "decide", "tell"} =>
       c.review \in Reviews /\ rows[c.review].status # "none"

RowsOk ==
  /\ cast \in Casts /\ cvs \in [Cvs -> {"none", "ok", "unread", "deleted"}] /\ accepted \subseteq Ticks
  /\ draft \in [rev : Nat, text : Nat]
  /\ public \in [text : Nat, published : BOOLEAN,
                 status : {"DRAFT", "PENDING_REVIEW", "APPROVED", "REJECTED", "UNPUBLISHED"}]
  /\ reviews \in [Reviews -> Review] /\ told \subseteq Reviews \X {"APPROVED", "REJECTED"}

\* There is one credit: it is free, or one job holds it.
JobsOk ==
  /\ jobs \in [Jobs -> Job] /\ working \subseteq Jobs /\ wallet \in 0..1
  /\ \A j \in Jobs : jobs[j].hold = "held" => wallet = 0
  /\ \A j, k \in Jobs : jobs[j].hold = "held" /\ jobs[k].hold = "held" => j = k

Holds(p) == p \in PanelState /\ Seen(p.job)
PageOk ==
  /\ Holds(panel) /\ polls \in [Slots -> View] /\ \A s \in Slots : Seen(polls[s])
  /\ mount \in [asked : BOOLEAN, view : View, rev : Nat] /\ Seen(mount.view)

CallsOk == call \in [Callers -> Call] /\ \A p \in Callers : Fits(call[p], reviews)

\* The phase a panel shows follows the job it shows, but while a request that
\* starts one is under way.
Follows(p, c) ==
  /\ p.phase \in {"queued", "running"} => p.job.status \in Waiting
  /\ p.phase = "starting" =>
       p.job.status = "FAILED" \/ (c.pc \notin {"idle", "quote"} /\ c.for = "start")
PhaseOk == Follows(panel, call[Panel])

Inv == RowsOk /\ JobsOk /\ PageOk /\ CallsOk /\ PhaseOk

-----------------------------------------------------------------------------
(***************************************************************************)
(* Calls.                                                                  *)
(***************************************************************************)
LEMMA Actors == Panel \in Callers /\ Form \in Callers /\ Reviewers \subseteq Callers
BY DEF Callers

LEMMA Values ==
  /\ NoView \in View /\ Seen(NoView) /\ Idle \in Call /\ Idle.pc = "idle"
  /\ \A rows : Fits(Idle, rows)
<1>1. NoView \in View /\ NoView.status = "none"
  BY DEF NoView, View, JobStatus
<1>2. Idle \in Call /\ Idle.pc = "idle" /\ Idle.view = NoView
  BY <1>1, ProfileAssistAssumption DEF Idle, Call
<1> QED BY <1>1, <1>2 DEF Fits, Seen

\* A caller goes on with c, and the others are left where they are.
LEMMA Moved ==
  ASSUME CallsOk, NEW p \in Callers, NEW c, Fits(c, reviews'), Goes(p, c) \/ Begins(p, c),
         \A r \in Reviews : reviews[r].status # "none" => reviews'[r].status # "none"
  PROVE  /\ CallsOk' /\ call'[p].pc = c.pc /\ call'[p].for = c.for
         /\ \A q \in Callers : q # p => call'[q] = call[q]
<1>0. call[p].n \in Nat
  BY DEF CallsOk, Call
<1>1. PICK n \in Nat : call' = [call EXCEPT ![p] = [c EXCEPT !.n = n]]
  <2>1. CASE Goes(p, c)
    BY <1>0, <2>1 DEF Goes
  <2>2. CASE Begins(p, c)
    <3>1. call[p].n + 1 \in Nat
      BY <1>0
    <3> QED BY <2>2, <3>1 DEF Begins
  <2> QED BY <2>1, <2>2
<1> PICK d : d = [c EXCEPT !.n = n]
  OBVIOUS
<1>2. /\ d \in Call /\ d.pc = c.pc /\ d.for = c.for /\ d.view = c.view /\ d.cv = c.cv
      /\ d.review = c.review /\ d.decision = c.decision
  BY DEF Fits, Call
<1>3. call' \in [Callers -> Call] /\ call'[p] = d /\ \A q \in Callers : q # p => call'[q] = call[q]
  BY <1>1, <1>2 DEF CallsOk
<1>4. Fits(call'[p], reviews')
  BY <1>2, <1>3 DEF Fits
<1>5. ASSUME NEW q \in Callers, q # p PROVE Fits(call'[q], reviews')
  BY <1>3, <1>5 DEF CallsOk, Fits
<1> QED BY <1>2, <1>3, <1>4, <1>5 DEF CallsOk

LEMMA Stays ==
  ASSUME CallsOk, UNCHANGED call,
         \A r \in Reviews : reviews[r].status # "none" => reviews'[r].status # "none"
  PROVE  CallsOk'
BY DEF CallsOk, Fits

\* A caller that ends its call.
LEMMA Ended ==
  ASSUME CallsOk, NEW p \in Callers, Ends(p) \/ Begins(p, Idle),
         \A r \in Reviews : reviews[r].status # "none" => reviews'[r].status # "none"
  PROVE  /\ CallsOk' /\ call'[p].pc = "idle"
         /\ \A q \in Callers : q # p => call'[q] = call[q]
<1>1. Fits(Idle, reviews')
  BY Values
<1>2. CallsOk' /\ call'[p].pc = Idle.pc /\ \A q \in Callers : q # p => call'[q] = call[q]
  BY <1>1, Moved DEF Ends
<1> QED BY <1>2, Values

-----------------------------------------------------------------------------
(***************************************************************************)
(* The page.                                                               *)
(***************************************************************************)
LEMMA PageStep ==
  ASSUME Inv, UNCHANGED <<cast, server>>, PageOk', CallsOk', PhaseOk'
  PROVE  Inv'
BY DEF Inv, server, RowsOk, JobsOk

LEMMA FreshOk ==
  ASSUME RowsOk
  PROVE  /\ Holds(Fresh) /\ Holds([Fresh EXCEPT !.ticks = {}])
         /\ Fresh.phase = "idle" /\ [Fresh EXCEPT !.ticks = {}].phase = "idle"
<1>1. draft.rev \in Nat /\ (wallet > 0) \in BOOLEAN
  BY DEF RowsOk
<1>2. Fresh \in PanelState /\ [Fresh EXCEPT !.ticks = {}] \in PanelState
  BY <1>1, Values DEF Fresh, PanelState, Phases
<1> QED BY <1>2, Values DEF Holds, Fresh

LEMMA Initially == Init => Inv
<1> SUFFICES ASSUME Init PROVE Inv
  OBVIOUS
<1>1. RowsOk
  BY ProfileAssistAssumption DEF Init, RowsOk, Ticks, Review
<1>2. JobsOk
  BY ProfileAssistAssumption DEF Init, JobsOk, Job, JobStatus
<1>3. Holds(panel) /\ panel.phase = "idle"
  BY <1>1, FreshOk DEF Init
<1>4. PageOk
  BY <1>3, Values DEF Init, PageOk, NoMount
<1>5. CallsOk
  BY Values DEF Init, CallsOk
<1> QED BY <1>1, <1>2, <1>3, <1>4, <1>5 DEF Inv, Init, PhaseOk, Follows

\* A panel whose phase and job stay, or that shows a job.
LEMMA ShowsOk ==
  ASSUME NEW p, Holds(p), NEW v, Seen(v)
  PROVE  /\ Holds(Shows(p, v)) /\ \A c : Follows(Shows(p, v), c)
         /\ Shows(p, v).edits = p.edits
<1>1. PhaseOf[v.status] \in Phases \ {"starting"} /\ v.status \in JobStatus
  BY DEF Seen, View, JobStatus, PhaseOf, Phases
<1>2. /\ Shows(p, v) \in PanelState /\ Shows(p, v).job = v /\ Shows(p, v).phase = PhaseOf[v.status]
      /\ Shows(p, v).edits = p.edits
  BY <1>1 DEF Holds, Seen, Shows, PanelState
<1>3. PhaseOf[v.status] \in {"queued", "running"} => v.status \in Waiting
  BY <1>1 DEF PhaseOf, Waiting, JobStatus
<1> QED BY <1>1, <1>2, <1>3 DEF Holds, Follows

LEMMA SameShown ==
  ASSUME NEW p, NEW q, q.phase = p.phase, q.job = p.job, NEW c, Follows(p, c), NEW d,
         c.pc \notin {"idle", "quote"} /\ c.for = "start" => d.pc \notin {"idle", "quote"} /\ d.for = "start"
  PROVE  Follows(q, d)
BY DEF Follows

LEMMA QuotedOk ==
  ASSUME NEW p, Holds(p)
  PROVE  Holds(Quoted(p)) /\ Quoted(p).phase = p.phase /\ Quoted(p).job = p.job
<1>0. (wallet > 0) \in BOOLEAN
  OBVIOUS
<1>1. PICK b \in BOOLEAN : b = (wallet > 0)
  BY <1>0, Zenon
<1>2. Quoted(p) = [p EXCEPT !.affords = b]
  BY <1>1 DEF Quoted
<1> QED BY <1>2 DEF Holds, PanelState

LEMMA SuggestsOk ==
  ASSUME NEW p, Holds(p), NEW j \in Jobs \cup {0}, NEW pick \in BOOLEAN
  PROVE  /\ Holds(Suggests(p, j, pick)) /\ Suggests(p, j, pick).phase = p.phase
         /\ Suggests(p, j, pick).job = p.job
BY DEF Holds, Suggests, PanelState

\* The panel's clicks that send something, or only mark a box.
LEMMA SendsOk ==
  ASSUME Inv, NEW c, Fits(c, reviews), NEW p, Holds(p), Sends(c, p), Follows(p, c)
  PROVE  Inv'
<1>1. UNCHANGED <<cast, server, polls, mount>> /\ panel' = p /\ Begins(Panel, c) /\ reviews' = reviews
  BY DEF Sends, server
<1>2. CallsOk' /\ call'[Panel].pc = c.pc /\ call'[Panel].for = c.for
  BY <1>1, Moved, Actors DEF Inv
<1>3. PageOk'
  BY <1>1 DEF Inv, PageOk
<1>4. PhaseOk'
  BY <1>1, <1>2 DEF PhaseOk, Follows
<1> QED BY <1>1, <1>2, <1>3, <1>4, PageStep

LEMMA ClicksKeep ==
  ASSUME Inv, Clicks PROVE Inv'
<1>0. /\ panel \in PanelState /\ Holds(panel) /\ Seen(panel.job) /\ CallsOk /\ RowsOk
      /\ PhaseOk /\ PageOk
  BY DEF Inv, PageOk, Holds
<1>1. ASSUME NEW t \in Ticks, Tick(t) PROVE Inv'
  <2>1. UNCHANGED <<cast, server, polls, mount>> /\ Free(Panel) /\ Begins(Panel, Idle) /\ reviews' = reviews
        /\ panel' = [panel EXCEPT !.ticks = IF t \in panel.ticks THEN panel.ticks \ {t}
                                                                ELSE panel.ticks \cup {t}]
    BY <1>1 DEF Tick, server
  <2>2. panel' \in PanelState /\ panel'.job = panel.job /\ panel'.phase = panel.phase
    BY <1>0, <1>1, <2>1 DEF PanelState
  <2>3. CallsOk' /\ PageOk'
    BY <1>0, <2>1, <2>2, Ended, Actors DEF PageOk, Holds
  <2>4. PhaseOk'
    BY <1>0, <2>1, <2>2 DEF PhaseOk, Follows, Free
  <2> QED BY <2>1, <2>3, <2>4, PageStep
<1>2. ASSUME NEW pick \in BOOLEAN, Type(pick) PROVE Inv'
  <2>1. UNCHANGED <<cast, server, polls, mount, call>> /\ reviews' = reviews
        /\ panel' = [panel EXCEPT !.own = TRUE, !.picked = pick]
    BY <1>2 DEF Type, server
  <2>2. panel' \in PanelState /\ panel'.job = panel.job /\ panel'.phase = panel.phase
    BY <1>0, <2>1 DEF PanelState
  <2>3. CallsOk' /\ PageOk'
    BY <1>0, <2>1, <2>2, Stays DEF PageOk, Holds
  <2>4. PhaseOk'
    BY <1>0, <2>1, <2>2 DEF PhaseOk, Follows
  <2> QED BY <2>1, <2>3, <2>4, PageStep
<1>3. ASSUME NEW x \in Cvs, BeginUpload(x) PROVE Inv'
  <2> PICK c : c = [Idle EXCEPT !.pc = "store", !.for = "upload", !.cv = x]
    OBVIOUS
  <2> PICK p : p = [panel EXCEPT !.cv = 0, !.upload = "uploading", !.phase = "idle", !.job = NoView]
    OBVIOUS
  <2>1. Sends(c, p)
    BY <1>3 DEF BeginUpload
  <2>2. Fits(c, reviews)
    BY Values DEF Idle, Call, Fits
  <2>3. Holds(p) /\ Follows(p, c)
    BY <1>0, Values DEF PanelState, Phases, Holds, Follows
  <2> QED BY <2>1, <2>2, <2>3, SendsOk
<1>4. CASE BeginStart
  <2> PICK c : c = [Idle EXCEPT !.pc = "agree", !.for = "start", !.cv = panel.cv]
    OBVIOUS
  <2> PICK p : p = [panel EXCEPT !.phase = "starting"]
    OBVIOUS
  <2>1. Sends(c, p)
    BY <1>4 DEF BeginStart
  <2>2. Fits(c, reviews) /\ c.pc = "agree" /\ c.for = "start"
    BY <1>0, Values DEF Idle, Call, Fits, PanelState
  <2>3. Holds(p) /\ Follows(p, c)
    BY <1>0, <2>2 DEF PanelState, Phases, Holds, Follows
  <2> QED BY <2>1, <2>2, <2>3, SendsOk
<1>5. CASE BeginCancel
  <2> PICK c : c = [Idle EXCEPT !.pc = "cancel", !.for = "cancel", !.view = panel.job]
    OBVIOUS
  <2>1. Sends(c, panel) /\ panel.job.status \in Waiting /\ call[Panel].pc = "idle"
    BY <1>5 DEF BeginCancel, OffersCancel, Sends, Free
  <2>2. Fits(c, reviews)
    BY <1>0, <2>1, Values DEF Idle, Call, Fits, Seen, Waiting
  <2>3. Follows(panel, c)
    BY <1>0, <2>1 DEF PhaseOk, Follows
  <2> QED BY <1>0, <2>1, <2>2, <2>3, SendsOk
<1>6. CASE BeginRetry
  <2> PICK c : c = [Idle EXCEPT !.pc = "retry", !.for = "retry", !.view = panel.job]
    OBVIOUS
  <2> PICK p : p = [panel EXCEPT !.phase = "starting"]
    OBVIOUS
  <2>1. Sends(c, p) /\ panel.job.status = "FAILED"
    BY <1>6 DEF BeginRetry, OffersRetry
  <2>2. Fits(c, reviews)
    BY <1>0, <2>1, Values DEF Idle, Call, Fits, Seen
  <2>3. Holds(p) /\ Follows(p, c)
    BY <1>0, <2>1 DEF PanelState, Phases, Holds, Follows
  <2> QED BY <2>1, <2>2, <2>3, SendsOk
<1>7. CASE BeginApply
  <2> PICK c : c = [Idle EXCEPT !.pc = "check", !.for = "apply", !.view = panel.job, !.rev = panel.rev]
    OBVIOUS
  <2>1. Sends(c, panel) /\ call[Panel].pc = "idle"
    BY <1>7 DEF BeginApply, Sends, Free
  <2>2. Fits(c, reviews)
    BY <1>0, <2>1, Values DEF Idle, Call, Fits, Seen, PanelState
  <2>3. Follows(panel, c)
    BY <1>0, <2>1 DEF PhaseOk, Follows
  <2> QED BY <1>0, <2>1, <2>2, <2>3, SendsOk
<1>8. CASE Reload
  <2>1. UNCHANGED <<cast, server>> /\ Begins(Panel, Idle) /\ Loads /\ reviews' = reviews
    BY <1>8 DEF Reload, server
  <2>2. Holds(panel') /\ panel'.phase = "idle"
    BY <1>0, <2>1, FreshOk DEF Loads
  <2>3. CallsOk'
    BY <1>0, <2>1, Ended, Actors
  <2>4. PageOk'
    BY <2>1, <2>2, Values DEF PageOk, Loads, NoMount
  <2> QED BY <2>1, <2>2, <2>3, <2>4, PageStep DEF PhaseOk, Follows
<1> QED BY <1>1, <1>2, <1>3, <1>4, <1>5, <1>6, <1>7, <1>8 DEF Clicks

LEMMA ComebackKeeps ==
  ASSUME Inv, Comeback \/ Lost PROVE Inv'
<1>0. /\ panel \in PanelState /\ Holds(panel) /\ Seen(panel.job) /\ CallsOk /\ RowsOk
      /\ PhaseOk /\ PageOk
  BY DEF Inv, PageOk, Holds
<1> PICK c : c = call[Panel]
  OBVIOUS
<1>1. c \in Call /\ Seen(c.view)
  BY <1>0, Actors DEF CallsOk, Fits
<1>2. UNCHANGED <<cast, server>> /\ reviews' = reviews
  BY DEF Comeback, UploadBack, StartBack, CancelBack, QuoteBack, RetryBack, ApplyBack, Comes, Arrives,
         Lost, server
<1>3. CallsOk' /\ (Ends(Panel) => call'[Panel].pc = "idle")
  <2>1. CASE Ends(Panel)
    BY <1>0, <1>2, <2>1, Ended, Actors
  <2>2. CASE ~Ends(Panel)
    <3> PICK d : d = [c EXCEPT !.pc = "quote"]
      OBVIOUS
    <3>1. Goes(Panel, d)
      BY <2>2 DEF Comeback, UploadBack, StartBack, CancelBack, QuoteBack, RetryBack, ApplyBack, Comes,
                  Arrives, AsksQuote, Lost
    <3>2. Fits(d, reviews')
      BY <1>1 DEF Fits, Call
    <3> QED BY <1>0, <1>2, <2>2, <3>1, <3>2, Moved, Actors
  <2> QED BY <2>1, <2>2
<1>4. CASE Lost
  <2>1. /\ panel' \in PanelState /\ polls' = polls /\ mount' = mount
        /\ panel'.job = panel.job
        /\ \/ panel'.phase = panel.phase /\ c.for # "start"
           \/ panel'.phase = "failed"
    BY <1>0, <1>4 DEF Lost, Fails, PanelState, Phases
  <2>2. PageOk'
    BY <1>0, <2>1 DEF PageOk, Holds
  <2>3. PhaseOk'
    BY <1>0, <2>1 DEF PhaseOk, Follows
  <2> QED BY <1>2, <1>3, <2>2, <2>3, PageStep
<1>5. CASE UploadBack
  <2>1. /\ panel' \in PanelState /\ polls' = polls /\ mount' = mount
        /\ panel'.job = panel.job /\ panel'.phase = panel.phase /\ c.for # "start"
    BY <1>0, <1>1, <1>5 DEF UploadBack, Comes, Arrives, PanelState, Call
  <2>2. PageOk'
    BY <1>0, <2>1 DEF PageOk, Holds
  <2>3. PhaseOk'
    BY <1>0, <2>1 DEF PhaseOk, Follows
  <2> QED BY <1>2, <1>3, <2>2, <2>3, PageStep
<1>6. CASE ApplyBack
  <2>1. CASE c.ok
    <3>1. Loads
      BY <1>6, <2>1 DEF ApplyBack
    <3>2. Holds(panel') /\ panel'.phase = "idle"
      BY <1>0, <3>1, FreshOk DEF Loads
    <3>3. PageOk'
      BY <3>1, <3>2, Values DEF PageOk, Loads, NoMount
    <3> QED BY <1>2, <1>3, <3>2, <3>3, PageStep DEF PhaseOk, Follows
  <2>2. CASE ~c.ok
    <3>1. /\ panel' \in PanelState /\ polls' = polls /\ mount' = mount
          /\ panel'.job = panel.job /\ panel'.phase = panel.phase /\ c.for # "start"
      BY <1>0, <1>1, <1>6, <2>2 DEF ApplyBack, Comes, Arrives, PanelState, Call
    <3>2. PageOk'
      BY <1>0, <3>1 DEF PageOk, Holds
    <3>3. PhaseOk'
      BY <1>0, <3>1 DEF PhaseOk, Follows
    <3> QED BY <1>2, <1>3, <3>2, <3>3, PageStep
  <2> QED BY <2>1, <2>2
<1>7. CASE StartBack \/ CancelBack \/ QuoteBack \/ RetryBack
  <2>1. polls' = polls /\ mount' = mount
    BY <1>7 DEF StartBack, CancelBack, QuoteBack, RetryBack
  <2>2. \/ panel' = Shows(panel, c.view)
        \/ panel' \in {panel, Quoted(panel)} /\ c.pc = "quote" /\ Ends(Panel)
        \/ panel' = [panel EXCEPT !.phase = "failed"]
    BY <1>7 DEF StartBack, CancelBack, QuoteBack, RetryBack, AsksQuote, At
  <2>3. Holds(panel') /\ Follows(panel', call'[Panel])
    <3> PICK d : d = call'[Panel]
      OBVIOUS
    <3> PICK p : p = Shows(panel, c.view)
      OBVIOUS
    <3>1. Holds(p) /\ Follows(p, d)
      BY <1>0, <1>1, ShowsOk
    <3>2. CASE panel' \in {panel, Quoted(panel)} /\ c.pc = "quote" /\ Ends(Panel)
      <4>1. Holds(panel') /\ panel'.phase = panel.phase /\ panel'.job = panel.job
        BY <1>0, <3>2, QuotedOk
      <4> QED BY <1>0, <3>2, <4>1 DEF PhaseOk, Follows
    <3>3. CASE panel' = [panel EXCEPT !.phase = "failed"]
      BY <1>0, <3>3 DEF Holds, PanelState, Phases, Follows
    <3> QED BY <2>2, <3>1, <3>2, <3>3
  <2>4. PageOk' /\ PhaseOk'
    BY <1>0, <2>1, <2>3 DEF PageOk, PhaseOk
  <2> QED BY <1>2, <1>3, <2>4, PageStep
<1> QED BY <1>4, <1>5, <1>6, <1>7 DEF Comeback

-----------------------------------------------------------------------------
(***************************************************************************)
(* Polls, and the request of a page that was just loaded.                  *)
(***************************************************************************)
LEMMA PanelOnly ==
  ASSUME Inv, UNCHANGED <<cast, server, call>>, Holds(panel'), Follows(panel', call[Panel]),
         polls' \in [Slots -> View], \A s \in Slots : Seen(polls'[s]),
         mount' \in [asked : BOOLEAN, view : View, rev : Nat], Seen(mount'.view)
  PROVE  Inv'
<1>1. PageOk' /\ PhaseOk'
  BY DEF PageOk, PhaseOk
<1>2. CallsOk'
  BY Stays DEF Inv, server
<1> QED BY <1>1, <1>2, PageStep

LEMMA ViewSeen ==
  ASSUME Inv, NEW j \in Jobs PROVE Seen(ViewOf(j))
BY DEF Inv, JobsOk, Job, JobStatus, View, ViewOf, Seen

LEMMA PollsKeep ==
  ASSUME Inv, NEW s \in Slots, Poll(s) \/ PollBack(s) \/ PollLost(s) PROVE Inv'
<1>0. /\ Holds(panel) /\ Seen(panel.job) /\ polls \in [Slots -> View] /\ Seen(polls[s])
      /\ \A t \in Slots : Seen(polls[t])
      /\ mount \in [asked : BOOLEAN, view : View, rev : Nat] /\ Seen(mount.view)
      /\ Follows(panel, call[Panel])
  BY DEF Inv, PageOk, Holds, PhaseOk
<1>1. UNCHANGED <<cast, server, mount, call>>
  BY DEF Poll, PollBack, PollLost
<1>2. ASSUME NEW v, Seen(v), polls' = [polls EXCEPT ![s] = v]
      PROVE  polls' \in [Slots -> View] /\ \A t \in Slots : Seen(polls'[t])
  BY <1>0, <1>2 DEF Seen
<1>3. CASE Poll(s)
  <2>1. panel.job.id \in Jobs
    BY <1>0, <1>3 DEF Poll, Polled, Waiting, Seen
  <2>2. Seen(ViewOf(panel.job.id))
    BY <2>1, ViewSeen
  <2>3. panel' = panel /\ polls' = [polls EXCEPT ![s] = ViewOf(panel.job.id)]
    BY <1>3 DEF Poll
  <2>4. polls' \in [Slots -> View] /\ \A t \in Slots : Seen(polls'[t])
    BY <1>2, <2>2, <2>3
  <2> QED BY <1>0, <1>1, <2>3, <2>4, PanelOnly
<1>4. CASE PollBack(s)
  <2>1. polls' \in [Slots -> View] /\ \A t \in Slots : Seen(polls'[t])
    BY <1>2, <1>4, Values DEF PollBack
  <2> PICK v : v = polls[s]
    OBVIOUS
  <2> PICK p : p = Shows(panel, v)
    OBVIOUS
  <2>2. Holds(p) /\ Follows(p, call[Panel])
    BY <1>0, ShowsOk
  <2>3. PICK pick \in BOOLEAN : panel' = IF v.status = "READY" THEN Suggests(p, v.id, pick) ELSE p
    BY <1>4 DEF PollBack
  <2>4. v.id \in Jobs \cup {0}
    BY <1>0 DEF Seen, View
  <2>5. /\ Holds(Suggests(p, v.id, pick)) /\ Suggests(p, v.id, pick).phase = p.phase
        /\ Suggests(p, v.id, pick).job = p.job
    BY <2>2, <2>4, SuggestsOk
  <2>6. Holds(panel') /\ Follows(panel', call[Panel])
    BY <2>2, <2>3, <2>5 DEF Follows
  <2>7. mount' = mount
    BY <1>1
  <2> QED BY <1>0, <1>1, <2>1, <2>6, <2>7, PanelOnly
<1>5. CASE PollLost(s)
  <2>1. polls' \in [Slots -> View] /\ \A t \in Slots : Seen(polls'[t])
    BY <1>2, <1>5, Values DEF PollLost
  <2>2. panel' = panel /\ mount' = mount
    BY <1>5 DEF PollLost
  <2> QED BY <1>0, <1>1, <2>1, <2>2, PanelOnly
<1> QED BY <1>3, <1>4, <1>5

LEMMA MountsKeep ==
  ASSUME Inv, Mounts PROVE Inv'
<1>0. /\ Holds(panel) /\ Seen(panel.job) /\ polls \in [Slots -> View]
      /\ \A t \in Slots : Seen(polls[t])
      /\ mount \in [asked : BOOLEAN, view : View, rev : Nat] /\ Seen(mount.view)
      /\ Follows(panel, call[Panel]) /\ draft.rev \in Nat
  BY DEF Inv, PageOk, Holds, PhaseOk, RowsOk
<1>1. UNCHANGED <<cast, server, polls, call>>
  BY DEF Mounts, MountRead, MountBack, MountLost
<1>2. NoMount \in [asked : BOOLEAN, view : View, rev : Nat] /\ Seen(NoMount.view)
  BY Values DEF NoMount
<1>3. CASE MountRead
  <2>1. PICK v : v = IF Restorable = {} THEN NoView ELSE ViewOf(CHOOSE j \in Restorable : TRUE)
    OBVIOUS
  <2>2. Seen(v)
    <3>1. CASE Restorable = {}
      BY <2>1, <3>1, Values
    <3>2. CASE Restorable # {}
      <4>1. PICK j \in Restorable : v = ViewOf(j)
        BY <2>1, <3>2
      <4>2. j \in Jobs
        BY <4>1 DEF Restorable
      <4> QED BY <4>1, <4>2, ViewSeen
    <3> QED BY <3>1, <3>2
  <2>3. mount' = [asked |-> TRUE, rev |-> draft.rev, view |-> v] /\ panel' = panel
    BY <1>3, <2>1 DEF MountRead
  <2>4. mount' \in [asked : BOOLEAN, view : View, rev : Nat] /\ Seen(mount'.view)
    BY <1>0, <2>2, <2>3 DEF Seen
  <2> QED BY <1>0, <1>1, <2>3, <2>4, PanelOnly
<1>4. CASE MountBack
  <2> PICK v : v = mount.view
    OBVIOUS
  <2> PICK p : p = [panel EXCEPT !.rev = mount.rev]
    OBVIOUS
  <2>1. Holds(p) /\ p.job = panel.job /\ p.phase = panel.phase
    BY <1>0 DEF Holds, PanelState
  <2>2. Follows(p, call[Panel])
    BY <1>0, <2>1 DEF Follows
  <2> PICK q : q = Shows(p, v)
    OBVIOUS
  <2>3. Holds(q) /\ Follows(q, call[Panel])
    BY <1>0, <2>1, ShowsOk
  <2>4. \/ panel' = p \/ panel' = q
        \/ \E pick \in BOOLEAN : panel' = Suggests(q, v.id, pick)
    BY <1>4 DEF MountBack
  <2>5. v.id \in Jobs \cup {0}
    BY <1>0 DEF Seen, View
  <2>6. ASSUME NEW pick \in BOOLEAN, panel' = Suggests(q, v.id, pick)
        PROVE  Holds(panel') /\ Follows(panel', call[Panel])
    <3>1. /\ Holds(Suggests(q, v.id, pick)) /\ Suggests(q, v.id, pick).phase = q.phase
          /\ Suggests(q, v.id, pick).job = q.job
      BY <2>3, <2>5, SuggestsOk
    <3> QED BY <2>3, <2>6, <3>1 DEF Follows
  <2>7. Holds(panel') /\ Follows(panel', call[Panel])
    BY <2>1, <2>2, <2>3, <2>4, <2>6
  <2>8. mount' = NoMount
    BY <1>4 DEF MountBack
  <2> QED BY <1>0, <1>1, <1>2, <2>7, <2>8, PanelOnly
<1>5. CASE MountLost
  <2>1. mount' = NoMount /\ panel' = panel
    BY <1>5 DEF MountLost
  <2> QED BY <1>0, <1>1, <1>2, <2>1, PanelOnly
<1> QED BY <1>3, <1>4, <1>5 DEF Mounts

-----------------------------------------------------------------------------
(***************************************************************************)
(* Jobs and the credit.                                                    *)
(***************************************************************************)
LEMMA OneCredit ==
  ASSUME JobsOk, NEW j \in Jobs, NEW row \in Job, jobs' = [jobs EXCEPT ![j] = row],
         working' \subseteq Jobs,
         \/ row.hold = jobs[j].hold /\ wallet' = wallet
         \/ row.hold # "held" /\ wallet' = IF jobs[j].hold = "held" THEN wallet + 1 ELSE wallet
         \/ row.hold # "held" /\ wallet' = wallet
         \/ wallet # 0 /\ wallet' = wallet - 1
  PROVE  JobsOk'
<1>1. /\ jobs' \in [Jobs -> Job] /\ jobs'[j] = row
      /\ \A k \in Jobs : k # j => jobs'[k] = jobs[k]
  BY DEF JobsOk
<1>2. wallet' \in 0..1 /\ \A k \in Jobs : jobs'[k].hold = "held" => wallet' = 0
  BY <1>1 DEF JobsOk
<1>3. \A k, l \in Jobs : jobs'[k].hold = "held" /\ jobs'[l].hold = "held" => k = l
  BY <1>1 DEF JobsOk
<1> QED BY <1>1, <1>2, <1>3 DEF JobsOk

LEMMA FreedRow ==
  ASSUME NEW row \in Job
  PROVE  /\ Freed(row) \in Job /\ Freed(row).hold # "held" /\ Freed(row).status = row.status
         /\ row.hold # "held" => Freed(row) = row
BY DEF Freed, Job

-----------------------------------------------------------------------------
(***************************************************************************)
(* The server's part of the panel's requests.                              *)
(***************************************************************************)
LEMMA ServerStep ==
  ASSUME Inv, RowsOk', JobsOk', UNCHANGED <<public, reviews, page>>,
         NEW c, Fits(c, reviews), c.pc \notin {"idle", "quote"}, c.for = call[Panel].for, Goes(Panel, c)
  PROVE  Inv'
<1>1. CallsOk' /\ call'[Panel].pc = c.pc /\ call'[Panel].for = c.for
  BY Moved, Actors DEF Inv
<1>2. PageOk'
  BY DEF Inv, PageOk, page
<1>3. PhaseOk'
  BY <1>1 DEF Inv, PhaseOk, Follows, page
<1> QED BY <1>1, <1>2, <1>3 DEF Inv

\* Refuses, and the answers that carry nothing else.
LEMMA AnswerOk ==
  ASSUME Inv, NEW ok \in BOOLEAN, ~At(Panel, "idle")
  PROVE  /\ Fits([call[Panel] EXCEPT !.pc = "back", !.ok = ok], reviews)
         /\ [call[Panel] EXCEPT !.pc = "back", !.ok = ok].for = call[Panel].for
<1>1. call[Panel] \in Call /\ Seen(call[Panel].view)
  BY Actors DEF Inv, CallsOk, Fits
<1> QED BY <1>1 DEF Fits, Call

LEMMA GoesOn ==
  ASSUME Inv, NEW pc \in {"accept", "gate", "insert", "write"}
  PROVE  /\ Fits([call[Panel] EXCEPT !.pc = pc], reviews)
         /\ [call[Panel] EXCEPT !.pc = pc].for = call[Panel].for
<1>1. call[Panel] \in Call /\ Seen(call[Panel].view)
  BY Actors DEF Inv, CallsOk, Fits
<1> QED BY <1>1 DEF Fits, Call

LEMMA HandlesKeep ==
  ASSUME Inv, Handles PROVE Inv'
<1>0. /\ RowsOk /\ JobsOk /\ CallsOk /\ call[Panel] \in Call /\ Fits(call[Panel], reviews)
      /\ Seen(call[Panel].view)
  BY Actors DEF Inv, CallsOk, Fits
<1>1. ~At(Panel, "idle")
  BY DEF Handles, Store, AcceptNotices, Agree, Gate, Insert, Cancel, Retry, Check, Write, At
<1>2. UNCHANGED <<public, reviews, page, cast, working, told>>
  BY DEF Handles, Store, AcceptNotices, Agree, Gate, Insert, Cancel, Retry, Check, Write, Refuses, server
<1>3. ASSUME NEW ok \in BOOLEAN, RowsOk', JobsOk', Goes(Panel, [call[Panel] EXCEPT !.pc = "back", !.ok = ok])
      PROVE  Inv'
  <2> PICK c : c = [call[Panel] EXCEPT !.pc = "back", !.ok = ok]
    OBVIOUS
  <2>1. Fits(c, reviews) /\ c.for = call[Panel].for /\ c.pc \notin {"idle", "quote"}
    BY <1>0, <1>1, AnswerOk DEF Call
  <2> QED BY <1>2, <1>3, <2>1, ServerStep
<1>4. ASSUME NEW pc \in {"accept", "gate", "insert", "write"}, RowsOk', JobsOk',
             Goes(Panel, [call[Panel] EXCEPT !.pc = pc])
      PROVE  Inv'
  <2> PICK c : c = [call[Panel] EXCEPT !.pc = pc]
    OBVIOUS
  <2>1. Fits(c, reviews) /\ c.for = call[Panel].for /\ c.pc \notin {"idle", "quote"}
    BY <1>0, GoesOn DEF Call
  <2> QED BY <1>2, <1>4, <2>1, ServerStep
<1>5. ASSUME UNCHANGED <<jobs, wallet>> PROVE JobsOk'
  BY <1>0, <1>2, <1>5 DEF JobsOk
<1>6. ASSUME UNCHANGED <<cvs, accepted, draft>> PROVE RowsOk'
  BY <1>0, <1>2, <1>6 DEF RowsOk
<1>7. CASE Refuses
  <2>1. /\ Goes(Panel, [call[Panel] EXCEPT !.pc = "back", !.ok = FALSE])
        /\ UNCHANGED <<cvs, accepted, draft>> /\ UNCHANGED <<jobs, wallet>>
    BY <1>0, <1>7 DEF Refuses, Answers, server, Call
  <2> QED BY <1>3, <1>5, <1>6, <2>1
<1>8. CASE Store
  <2>1. call[Panel].cv \in Cvs /\ UNCHANGED <<jobs, wallet>>
    BY <1>0, <1>8 DEF Store, At, Fits, Refuses, server
  <2>2. RowsOk'
    BY <1>0, <1>2, <1>8, <2>1 DEF RowsOk, Store, Refuses, server
  <2>3. \/ Goes(Panel, [call[Panel] EXCEPT !.pc = "back", !.ok = FALSE])
        \/ Goes(Panel, [call[Panel] EXCEPT !.pc = "accept"])
    BY <1>0, <1>8 DEF Store, Answers, Call, Refuses
  <2> QED BY <1>3, <1>4, <1>5, <2>1, <2>2, <2>3
<1>9. CASE AcceptNotices
  <2>1. RowsOk' /\ UNCHANGED <<jobs, wallet>>
    BY <1>0, <1>2, <1>9 DEF RowsOk, AcceptNotices, Ticks
  <2>2. Goes(Panel, [call[Panel] EXCEPT !.pc = "back", !.ok = TRUE])
    BY <1>0, <1>9 DEF AcceptNotices, Answers, Call
  <2> QED BY <1>3, <1>5, <2>1, <2>2
<1>10. CASE Agree
  <2>1. RowsOk' /\ UNCHANGED <<jobs, wallet>>
    BY <1>0, <1>2, <1>10 DEF RowsOk, Agree, Ticks
  <2>2. Goes(Panel, [call[Panel] EXCEPT !.pc = "gate"])
    BY <1>10 DEF Agree
  <2> QED BY <1>4, <1>5, <2>1, <2>2
<1>11. CASE Gate
  <2>1. CASE Goes(Panel, [call[Panel] EXCEPT !.pc = "insert"])
    <3>1. UNCHANGED <<cvs, accepted, draft>> /\ UNCHANGED <<jobs, wallet>>
      BY <1>11 DEF Gate, Refuses, server
    <3> QED BY <1>4, <1>5, <1>6, <2>1, <3>1
  <2> QED BY <1>7, <1>11, <2>1 DEF Gate
<1>12. CASE Insert
  <2>1. CASE wallet # 0
    <3>1. PICK j \in Jobs :
            /\ jobs' = [jobs EXCEPT ![j] = [status |-> "QUEUED", cv |-> call[Panel].cv, attempts |-> 0,
                                            hold |-> "held"]]
            /\ wallet' = wallet - 1
            /\ Answers([call[Panel] EXCEPT !.ok = TRUE, !.view = [id |-> j, status |-> "QUEUED"]])
            /\ UNCHANGED <<cvs, accepted, draft>>
      BY <1>12, <2>1 DEF Insert
    <3> PICK row : row = [status |-> "QUEUED", cv |-> call[Panel].cv, attempts |-> 0, hold |-> "held"]
      OBVIOUS
    <3>2. row \in Job
      BY <1>0, ProfileAssistAssumption DEF Job, JobStatus, Call
    <3>3. JobsOk'
      BY <1>0, <1>2, <2>1, <3>1, <3>2, OneCredit DEF JobsOk
    <3> PICK v : v = [id |-> j, status |-> "QUEUED"]
      OBVIOUS
    <3>4. Seen(v)
      BY DEF Seen, View, JobStatus
    <3> PICK c : c = [call[Panel] EXCEPT !.pc = "back", !.ok = TRUE, !.view = v]
      OBVIOUS
    <3>5. Goes(Panel, c)
      BY <1>0, <3>1 DEF Answers, Call
    <3>6. Fits(c, reviews) /\ c.for = call[Panel].for /\ c.pc \notin {"idle", "quote"}
      BY <1>0, <3>4 DEF Fits, Call, Seen
    <3> QED BY <1>2, <1>6, <3>1, <3>3, <3>5, <3>6, ServerStep
  <2> QED BY <1>7, <1>12, <2>1 DEF Insert
<1>13. CASE Cancel
  <2> PICK j : j = call[Panel].view.id
    OBVIOUS
  <2>1. j \in Jobs /\ jobs[j] \in Job
    BY <1>0, <1>13 DEF Cancel, At, Fits, JobsOk
  <2> PICK row : row = IF jobs[j].status \in Waiting
                       THEN Freed([jobs[j] EXCEPT !.status = "CANCELLED"])
                       ELSE IF jobs[j].status = "FAILED" THEN Freed(jobs[j]) ELSE jobs[j]
    OBVIOUS
  <2>2. /\ jobs' = [jobs EXCEPT ![j] = row]
        /\ wallet' = IF row.hold # jobs[j].hold THEN wallet + 1 ELSE wallet
        /\ Answers([call[Panel] EXCEPT !.ok = TRUE, !.view.status = row.status])
        /\ UNCHANGED <<cvs, accepted, draft>>
    BY <1>13 DEF Cancel
  <2>3. row \in Job /\ (row.hold = jobs[j].hold \/ (row.hold # "held" /\ jobs[j].hold = "held"))
    <3>1. PICK mid : mid = [jobs[j] EXCEPT !.status = "CANCELLED"]
      OBVIOUS
    <3>2. mid \in Job /\ mid.hold = jobs[j].hold
      BY <2>1, <3>1 DEF Job, JobStatus
    <3>3. /\ Freed(mid) \in Job /\ Freed(mid).hold # "held"
          /\ mid.hold # "held" => Freed(mid) = mid
          /\ Freed(jobs[j]) \in Job /\ Freed(jobs[j]).hold # "held"
          /\ jobs[j].hold # "held" => Freed(jobs[j]) = jobs[j]
      BY <2>1, <3>2, FreedRow
    <3> QED BY <2>1, <3>1, <3>2, <3>3
  <2>4. JobsOk'
    BY <1>0, <1>2, <2>1, <2>2, <2>3, OneCredit DEF JobsOk
  <2>5. PICK st \in JobStatus : st = row.status
    BY <2>3 DEF Job
  <2> PICK c : c = [call[Panel] EXCEPT !.pc = "back", !.ok = TRUE, !.view.status = st]
    OBVIOUS
  <2>6. Goes(Panel, c)
    BY <1>0, <2>2, <2>5 DEF Answers, Call
  <2>7. Fits(c, reviews) /\ c.for = call[Panel].for /\ c.pc \notin {"idle", "quote"}
    BY <1>0, <2>1, <2>5 DEF Fits, Call, Seen, View
  <2> QED BY <1>2, <1>6, <2>2, <2>4, <2>6, <2>7, ServerStep
<1>14. CASE Retry
  <2> PICK j : j = call[Panel].view.id
    OBVIOUS
  <2>1. j \in Jobs /\ jobs[j] \in Job
    BY <1>0, <1>14 DEF Retry, At, Fits, JobsOk
  <2>2. CASE /\ jobs' = [jobs EXCEPT ![j].status = "QUEUED"] /\ UNCHANGED <<wallet, cvs, accepted, draft>>
             /\ Answers([call[Panel] EXCEPT !.ok = TRUE, !.view.status = "QUEUED"])
    <3> PICK row : row = [jobs[j] EXCEPT !.status = "QUEUED"]
      OBVIOUS
    <3>1. row \in Job /\ row.hold = jobs[j].hold /\ jobs' = [jobs EXCEPT ![j] = row]
      BY <2>1, <2>2 DEF Job, JobStatus
    <3>2. JobsOk'
      BY <1>0, <1>2, <2>1, <2>2, <3>1, OneCredit DEF JobsOk
    <3> PICK c : c = [call[Panel] EXCEPT !.pc = "back", !.ok = TRUE, !.view.status = "QUEUED"]
      OBVIOUS
    <3>3. Goes(Panel, c)
      BY <1>0, <2>2 DEF Answers, Call
    <3>4. Fits(c, reviews) /\ c.for = call[Panel].for /\ c.pc \notin {"idle", "quote"}
      BY <1>0, <2>1 DEF Fits, Call, Seen, View, JobStatus
    <3> QED BY <1>2, <1>6, <2>2, <3>2, <3>3, <3>4, ServerStep
  <2> QED BY <1>7, <1>14, <2>2 DEF Retry
<1>15. CASE Check
  <2>1. UNCHANGED <<cvs, accepted, draft>> /\ UNCHANGED <<jobs, wallet>>
    BY <1>15 DEF Check, server
  <2>2. CASE Goes(Panel, [call[Panel] EXCEPT !.pc = "write"])
    BY <1>4, <1>5, <1>6, <2>1, <2>2
  <2>3. CASE Answers([call[Panel] EXCEPT !.ok = FALSE, !.rev = draft.rev])
    <3> PICK c : c = [call[Panel] EXCEPT !.pc = "back", !.ok = FALSE, !.rev = draft.rev]
      OBVIOUS
    <3>1. Goes(Panel, c)
      BY <1>0, <2>3 DEF Answers, Call
    <3>2. draft.rev \in Nat
      BY <1>0 DEF RowsOk
    <3>3. Fits(c, reviews) /\ c.for = call[Panel].for /\ c.pc \notin {"idle", "quote"}
      BY <1>0, <3>2 DEF Fits, Call
    <3> QED BY <1>2, <1>5, <1>6, <2>1, <3>1, <3>3, ServerStep
  <2> QED BY <1>15, <2>2, <2>3 DEF Check
<1>16. CASE Write
  <2>1. PICK n \in Nat : n = draft.rev + 1
    BY <1>0 DEF RowsOk
  <2>2. draft' = [rev |-> n, text |-> n] /\ UNCHANGED <<jobs, wallet>>
    BY <1>16, <2>1 DEF Write, Saved
  <2>3. RowsOk'
    BY <1>0, <1>2, <1>16, <2>2 DEF RowsOk, Write
  <2> PICK c : c = [call[Panel] EXCEPT !.pc = "back", !.ok = TRUE, !.rev = n]
    OBVIOUS
  <2>4. Answers([call[Panel] EXCEPT !.ok = TRUE, !.rev = n])
    BY <1>16, <2>1 DEF Write
  <2>5. Goes(Panel, c)
    BY <1>0, <2>4 DEF Answers, Call
  <2>6. Fits(c, reviews) /\ c.for = call[Panel].for /\ c.pc \notin {"idle", "quote"}
    BY <1>0 DEF Fits, Call
  <2> QED BY <1>2, <1>5, <2>2, <2>3, <2>5, <2>6, ServerStep
<1> QED
  BY <1>8, <1>9, <1>10, <1>11, <1>12, <1>13, <1>14, <1>15, <1>16 DEF Handles

-----------------------------------------------------------------------------
(***************************************************************************)
(* The worker.                                                             *)
(***************************************************************************)
LEMMA WorkOk ==
  ASSUME Inv, JobsOk', UNCHANGED <<cast, cvs, accepted, draft, public, reviews, told, page, call>>
  PROVE  Inv'
<1>1. CallsOk'
  BY Stays DEF Inv
<1> QED
  BY <1>1 DEF Inv, RowsOk, PageOk, PhaseOk, page

LEMMA WorksKeep ==
  ASSUME Inv, NEW j \in Jobs, Works(j) PROVE Inv'
<1>0. JobsOk /\ jobs[j] \in Job
  BY DEF Inv, JobsOk
<1>1. UNCHANGED <<cast, cvs, accepted, draft, public, reviews, told, page, call>>
  BY DEF Works, Claim, Finish
<1>2. working' \subseteq Jobs
  BY <1>0 DEF Works, Claim, Finish, JobsOk
<1>3. CASE Claim(j)
  <2> PICK n : n = jobs[j].attempts + 1
    OBVIOUS
  <2>1. n \in 0..MaxAttempts
    BY <1>0, <1>3, ProfileAssistAssumption DEF Claim, Job
  <2> PICK row : row = [jobs[j] EXCEPT !.status = "RUNNING", !.attempts = n]
    OBVIOUS
  <2>2. row \in Job /\ row.hold = jobs[j].hold
    BY <1>0, <2>1 DEF Job, JobStatus
  <2>3. jobs' = [jobs EXCEPT ![j] = row] /\ wallet' = wallet
    BY <1>0, <1>3 DEF Claim, JobsOk
  <2>4. JobsOk'
    BY <1>0, <1>2, <2>2, <2>3, OneCredit
  <2> QED BY <1>1, <2>4, WorkOk
<1>4. CASE Finish(j)
  <2>1. ASSUME jobs[j].status = "CANCELLED", jobs' = [jobs EXCEPT ![j] = Freed(jobs[j])], Refund(j)
        PROVE  JobsOk'
    <3>1. Freed(jobs[j]) \in Job /\ Freed(jobs[j]).hold # "held"
      BY <1>0, FreedRow
    <3> QED BY <1>0, <1>2, <2>1, <3>1, OneCredit DEF Refund
  <2>2. ASSUME jobs' = [jobs EXCEPT ![j] = Settled(j)], UNCHANGED wallet
        PROVE  JobsOk'
    <3>1. Settled(j) \in Job /\ Settled(j).hold # "held"
      BY <1>0 DEF Settled, Job, JobStatus
    <3> QED BY <1>0, <1>2, <2>2, <3>1, OneCredit
  <2>3. ASSUME NEW status \in {"QUEUED", "FAILED"}, jobs' = [jobs EXCEPT ![j].status = status],
               UNCHANGED wallet
        PROVE  JobsOk'
    <3> PICK row : row = [jobs[j] EXCEPT !.status = status]
      OBVIOUS
    <3>1. row \in Job /\ row.hold = jobs[j].hold
      BY <1>0 DEF Job, JobStatus
    <3>2. jobs' = [jobs EXCEPT ![j] = row]
      BY <2>3
    <3> QED BY <1>0, <1>2, <2>3, <3>1, <3>2, OneCredit
  <2>4. ASSUME jobs' = [jobs EXCEPT ![j] = Freed([jobs[j] EXCEPT !.status = "FAILED"])], Refund(j)
        PROVE  JobsOk'
    <3> PICK row : row = [jobs[j] EXCEPT !.status = "FAILED"]
      OBVIOUS
    <3>1. row \in Job /\ row.hold = jobs[j].hold
      BY <1>0 DEF Job, JobStatus
    <3>2. Freed(row) \in Job /\ Freed(row).hold # "held"
      BY <3>1, FreedRow
    <3> QED BY <1>0, <1>2, <2>4, <3>2, OneCredit DEF Refund
  <2>5. jobs \in [Jobs -> Job]
    BY <1>0 DEF JobsOk
  <2>6. JobsOk'
    BY <1>4, <2>1, <2>2, <2>3, <2>4, <2>5 DEF Finish
  <2> QED BY <1>1, <2>6, WorkOk
<1> QED BY <1>3, <1>4 DEF Works

-----------------------------------------------------------------------------
(***************************************************************************)
(* The member elsewhere, and the staff.                                    *)
(***************************************************************************)
\* Reviews that are there stay.
ReviewsStay == \A r \in Reviews : reviews[r].status # "none" => reviews'[r].status # "none"

LEMMA OthersStep ==
  ASSUME Inv, RowsOk', JobsOk', UNCHANGED page, ReviewsStay,
         NEW p \in Callers \ {Panel}, NEW c, Fits(c, reviews'), Goes(p, c) \/ Begins(p, c)
  PROVE  Inv' /\ call'[p].pc = c.pc
<1>1. CallsOk' /\ call'[p].pc = c.pc /\ \A q \in Callers : q # p => call'[q] = call[q]
  BY Moved DEF Inv, ReviewsStay
<1>2. call'[Panel] = call[Panel]
  BY <1>1, Actors
<1>3. PageOk' /\ PhaseOk'
  BY <1>2 DEF Inv, PageOk, PhaseOk, page, Follows
<1> QED BY <1>1, <1>3 DEF Inv

LEMMA DiesKeep ==
  ASSUME Inv, NEW p \in Callers, Dies(p) PROVE Inv'
<1>1. UNCHANGED <<cast, server, page>> /\ Goes(p, Idle) /\ p # Panel
  BY DEF Dies, Ends
<1>2. RowsOk' /\ JobsOk' /\ ReviewsStay /\ Fits(Idle, reviews')
  BY <1>1, Values DEF Inv, server, RowsOk, JobsOk, ReviewsStay
<1> QED BY <1>1, <1>2, OthersStep

LEMMA ElsewhereKeeps ==
  ASSUME Inv, Elsewhere PROVE Inv'
<1>0. RowsOk /\ JobsOk /\ Form \in Callers \ {Panel} /\ call[Form] \in Call
      /\ Fits(call[Form], reviews)
  BY Actors, ProfileAssistAssumption DEF Inv, CallsOk
<1>1. UNCHANGED <<page, cast, accepted, working, wallet, told>>
  BY DEF Elsewhere, Save, BeginSubmit, Submit, AutoReview, BeginHide, Hide, BeginDelete, StopJobs,
         Remove, server
<1>2. ASSUME UNCHANGED jobs PROVE JobsOk'
  BY <1>0, <1>1, <1>2 DEF JobsOk
<1>3. ASSUME UNCHANGED reviews PROVE ReviewsStay
  BY <1>3 DEF ReviewsStay
<1>4. Fits(Idle, reviews')
  BY Values
<1>5. CASE Save
  <2>1. RowsOk' /\ UNCHANGED <<jobs, reviews, public>> /\ Begins(Form, Idle)
    BY <1>0, <1>1, <1>5 DEF Save, Saved, RowsOk
  <2> QED BY <1>0, <1>1, <1>2, <1>3, <1>4, <2>1, OthersStep
<1>6. CASE BeginSubmit \/ BeginHide \/ \E x \in Cvs : BeginDelete(x)
  <2>1. UNCHANGED <<cast, server>>
    BY <1>6 DEF BeginSubmit, BeginHide, BeginDelete
  <2>2. RowsOk' /\ JobsOk' /\ ReviewsStay /\ reviews' = reviews
    BY <1>0, <2>1 DEF server, RowsOk, JobsOk, ReviewsStay
  <2>3. draft.text \in Nat
    BY <1>0 DEF RowsOk
  <2>4. PICK h \in BOOLEAN : h = (public.text # 0)
    BY Zenon
  <2>5. PICK c : /\ Begins(Form, c)
                 /\ \/ c = [Idle EXCEPT !.pc = "submit", !.rev = draft.text]
                    \/ c = [Idle EXCEPT !.pc = "hide", !.had = h]
                    \/ \E x \in Cvs : c = [Idle EXCEPT !.pc = "stop", !.cv = x]
    BY <1>6, <2>4 DEF BeginSubmit, BeginHide, BeginDelete
  <2>6. Fits(c, reviews')
    BY <2>3, <2>5, Values DEF Fits, Call, Idle
  <2> QED BY <1>0, <1>1, <2>2, <2>5, <2>6, OthersStep
<1>7. CASE Submit
  <2>1. PICK r \in Reviews :
          /\ \A k \in Reviews : reviews[k].status = "none" <=> k >= r
          /\ reviews' = [k \in Reviews |->
               IF k = r THEN [status |-> "PENDING", text |-> call[Form].rev, by |-> Panel, auto |-> "none"]
               ELSE IF reviews[k].status = "PENDING" THEN [reviews[k] EXCEPT !.status = "REJECTED"]
               ELSE reviews[k]]
          /\ Goes(Form, [call[Form] EXCEPT !.pc = "auto", !.review = r])
    BY <1>7 DEF Submit
  <2>2. public' = [public EXCEPT !.status = "PENDING_REVIEW"] /\ UNCHANGED <<cvs, jobs, draft>>
    BY <1>7 DEF Submit
  <2>3. reviews[r].status = "none"
    BY <2>1, ProfileAssistAssumption
  <2>4. ASSUME NEW k \in Reviews PROVE reviews'[k] \in Review
    BY <1>0, <2>1 DEF RowsOk, Review, Call
  <2>5. reviews' \in [Reviews -> Review] /\ reviews'[r].status = "PENDING"
    BY <2>1, <2>4
  <2>6. ReviewsStay
    BY <1>0, <2>1, <2>3 DEF ReviewsStay, RowsOk, Review
  <2>7. RowsOk' /\ public'.text = public.text
    BY <1>0, <1>1, <2>2, <2>5 DEF RowsOk
  <2> PICK c : c = [call[Form] EXCEPT !.pc = "auto", !.review = r]
    OBVIOUS
  <2>8. Fits(c, reviews')
    BY <1>0, <2>5 DEF Fits, Call
  <2>9. JobsOk'
    BY <1>2, <2>2
  <2> QED BY <1>0, <1>1, <2>1, <2>6, <2>7, <2>8, <2>9, OthersStep
<1>8. CASE AutoReview
  <2> PICK r : r = call[Form].review
    OBVIOUS
  <2>1. r \in Reviews
    BY <1>0, <1>8 DEF AutoReview, At, Fits
  <2>2. PICK o \in {"none", "CLEAR", "FLAGGED"} : reviews' = [reviews EXCEPT ![r].auto = o]
    BY <1>8 DEF AutoReview
  <2>3. UNCHANGED <<cvs, jobs, draft, public>> /\ Goes(Form, Idle)
    BY <1>8 DEF AutoReview, Ends
  <2>4. reviews' \in [Reviews -> Review] /\ ReviewsStay
    BY <1>0, <2>1, <2>2 DEF RowsOk, Review, ReviewsStay
  <2>5. RowsOk' /\ JobsOk'
    BY <1>0, <1>1, <1>2, <2>3, <2>4 DEF RowsOk
  <2> QED BY <1>0, <1>1, <1>4, <2>3, <2>4, <2>5, OthersStep
<1>9. CASE Hide
  <2>1. /\ public' = [public EXCEPT !.published = FALSE,
                                    !.status = IF call[Form].had THEN "UNPUBLISHED" ELSE "DRAFT"]
        /\ UNCHANGED <<cvs, jobs, draft, reviews>> /\ Goes(Form, Idle)
    BY <1>9 DEF Hide, Ends
  <2>2. RowsOk' /\ public'.text = public.text
    BY <1>0, <1>1, <2>1 DEF RowsOk
  <2> QED BY <1>0, <1>1, <1>2, <1>3, <1>4, <2>1, <2>2, OthersStep
<1>10. CASE StopJobs
  <2>1. /\ jobs' = [j \in Jobs |-> IF jobs[j].cv = call[Form].cv /\ jobs[j].status \in Waiting
                                   THEN [jobs[j] EXCEPT !.status = "CANCELLED"] ELSE jobs[j]]
        /\ UNCHANGED <<cvs, draft, public, reviews>>
        /\ Goes(Form, [call[Form] EXCEPT !.pc = "remove"])
    BY <1>10 DEF StopJobs
  <2>2. ASSUME NEW j \in Jobs PROVE jobs'[j] \in Job /\ jobs'[j].hold = jobs[j].hold
    BY <1>0, <2>1 DEF JobsOk, Job, JobStatus
  <2>3. JobsOk'
    BY <1>0, <1>1, <2>1, <2>2 DEF JobsOk
  <2>4. RowsOk'
    BY <1>0, <1>1, <2>1 DEF RowsOk
  <2> PICK c : c = [call[Form] EXCEPT !.pc = "remove"]
    OBVIOUS
  <2>6. Fits(c, reviews')
    BY <1>0 DEF Fits, Call
  <2> QED BY <1>0, <1>1, <1>3, <2>1, <2>3, <2>4, <2>6, OthersStep
<1>11. CASE Remove
  <2>1. /\ cvs' = [cvs EXCEPT ![call[Form].cv] = "deleted"] /\ UNCHANGED <<jobs, draft, public, reviews>>
        /\ Goes(Form, Idle)
    BY <1>11 DEF Remove, Ends
  <2>2. RowsOk'
    BY <1>0, <1>1, <2>1 DEF RowsOk
  <2> QED BY <1>0, <1>1, <1>2, <1>3, <1>4, <2>1, <2>2, OthersStep
<1> QED
  BY <1>5, <1>6, <1>7, <1>8, <1>9, <1>10, <1>11 DEF Elsewhere

LEMMA StaffKeep ==
  ASSUME Inv, NEW p \in Reviewers, Staff(p)
  PROVE  Inv' /\ (Decide(p) => call'[p].pc = "tell")
<1>0. RowsOk /\ JobsOk /\ p \in Callers \ {Panel} /\ call[p] \in Call
      /\ Fits(call[p], reviews)
  BY Actors, ProfileAssistAssumption DEF Inv, CallsOk
<1>1. UNCHANGED <<page, cast, cvs, accepted, jobs, working, wallet>>
  BY DEF Staff, BeginDecide, Decide, TellDecision, server
<1>2. JobsOk'
  BY <1>0, <1>1 DEF JobsOk
<1>3. ASSUME UNCHANGED reviews PROVE ReviewsStay
  BY <1>3 DEF ReviewsStay
<1>4. ASSUME NEW r \in Reviews, NEW d \in {"APPROVED", "REJECTED"}, BeginDecide(p, r, d)
      PROVE  Inv' /\ (Decide(p) => call'[p].pc = "tell")
  <2>1. UNCHANGED <<draft, public, reviews, told>> /\ reviews[r].status # "none" /\ ~Decide(p)
    BY <1>4 DEF BeginDecide, server, Free, Decide, At
  <2>2. RowsOk' /\ ReviewsStay
    BY <1>0, <1>1, <1>3, <2>1 DEF RowsOk
  <2>3. PICK h \in BOOLEAN : h = (public.text # 0)
    BY Zenon
  <2>4. PICK o \in BOOLEAN : o = public.published
    BY <1>0 DEF RowsOk
  <2> PICK c : c = [Idle EXCEPT !.pc = "decide", !.review = r, !.decision = d, !.had = h, !.out = o]
    OBVIOUS
  <2>5. Begins(p, c)
    BY <1>4, <2>3, <2>4 DEF BeginDecide
  <2>6. Fits(c, reviews')
    BY <2>1, Values DEF Fits, Call, Idle
  <2> QED BY <1>0, <1>1, <1>2, <2>1, <2>2, <2>5, <2>6, OthersStep
<1>5. CASE Decide(p)
  <2> PICK c : c = call[p]
    OBVIOUS
  <2>1. /\ c \in Call /\ c.review \in Reviews /\ c.decision \in {"APPROVED", "REJECTED"}
        /\ reviews[c.review].status # "none" /\ reviews[c.review] \in Review
    BY <1>0, <1>5 DEF Decide, At, Fits, RowsOk
  <2>2. /\ reviews' = [reviews EXCEPT ![c.review].status = c.decision, ![c.review].by = p]
        /\ public' = IF c.decision = "APPROVED" THEN Approved(c.review) ELSE Rejected(c)
        /\ draft' = IF c.decision = "APPROVED" THEN [draft EXCEPT !.text = reviews[c.review].text] ELSE draft
        /\ told' = told
    BY <1>5 DEF Decide
  <2>3. /\ reviews' \in [Reviews -> Review]
        /\ reviews'[c.review].status # "none" /\ reviews'[c.review].by = p
        /\ reviews'[c.review].text = reviews[c.review].text
        /\ \A k \in Reviews : k # c.review => reviews'[k] = reviews[k]
    BY <1>0, <2>1, <2>2 DEF RowsOk, Review
  <2>4. ReviewsStay
    BY <2>3 DEF ReviewsStay
  <2>5. draft' \in [rev : Nat, text : Nat]
    BY <1>0, <2>1, <2>2 DEF RowsOk, Review
  <2>6. /\ public' \in [text : Nat, published : BOOLEAN,
                        status : {"DRAFT", "PENDING_REVIEW", "APPROVED", "REJECTED", "UNPUBLISHED"}]
    <3>1. CASE c.decision = "APPROVED"
      <4>1. public' = [text |-> reviews[c.review].text, status |-> "APPROVED", published |-> TRUE]
        BY <2>2, <3>1 DEF Approved
      <4> QED BY <2>1, <2>3, <4>1 DEF Review
    <3>2. CASE c.decision # "APPROVED"
      <4>1. PICK b \in BOOLEAN : b = (c.had /\ c.out)
        BY Zenon
      <4>2. public' = [text |-> public.text, status |-> IF c.had THEN "APPROVED" ELSE "REJECTED",
                       published |-> b]
        BY <2>2, <3>2, <4>1 DEF Rejected
      <4> QED BY <1>0, <4>2 DEF RowsOk
    <3> QED BY <3>1, <3>2
  <2>7. RowsOk'
    BY <1>0, <1>1, <2>2, <2>3, <2>5, <2>6 DEF RowsOk
  <2> PICK d : d = [c EXCEPT !.pc = "tell"]
    OBVIOUS
  <2>8. Goes(p, d)
    BY <1>5 DEF Decide
  <2>9. Fits(d, reviews') /\ d.pc = "tell"
    BY <1>0, <2>1, <2>3 DEF Fits, Call
  <2> QED BY <1>0, <1>1, <1>2, <2>4, <2>6, <2>7, <2>8, <2>9, OthersStep
<1>6. CASE TellDecision(p)
  <2>1. /\ told' = told \cup {<<call[p].review, call[p].decision>>} /\ Goes(p, Idle)
        /\ UNCHANGED <<draft, public, reviews>> /\ ~Decide(p)
        /\ call[p].review \in Reviews /\ call[p].decision \in {"APPROVED", "REJECTED"}
    BY <1>0, <1>6 DEF TellDecision, Ends, At, Fits, Decide
  <2>2. RowsOk' /\ ReviewsStay
    BY <1>0, <1>1, <1>3, <2>1 DEF RowsOk
  <2> QED BY <1>0, <1>1, <1>2, <2>1, <2>2, Values, OthersStep
<1> QED BY <1>4, <1>5, <1>6 DEF Staff

-----------------------------------------------------------------------------
(***************************************************************************)
(* The theorems.                                                           *)
(***************************************************************************)
LEMMA StepKeeps ==
  ASSUME Inv, [Next]_vars PROVE Inv'
<1>1. CASE UNCHANGED vars
  <2>1. UNCHANGED <<cast, server, panel, polls, mount, call>>
    BY <1>1 DEF vars, page
  <2>2. CallsOk'
    BY <2>1, Stays DEF Inv, server
  <2> QED BY <2>1, <2>2, PageStep DEF Inv, PageOk, PhaseOk, page
<1>2. CASE Next
  <2>1. ASSUME NEW s \in Slots, Poll(s) \/ PollBack(s) \/ PollLost(s) PROVE Inv'
    BY <2>1, PollsKeep
  <2>2. ASSUME NEW j \in Jobs, Works(j) PROVE Inv'
    BY <2>2, WorksKeep
  <2>3. ASSUME NEW p \in Reviewers, Staff(p) PROVE Inv'
    BY <2>3, StaffKeep
  <2>4. ASSUME NEW p \in Callers, Dies(p) PROVE Inv'
    BY <2>4, DiesKeep
  <2> QED
    BY <1>2, <2>1, <2>2, <2>3, <2>4, ClicksKeep, HandlesKeep, ComebackKeeps, MountsKeep, ElsewhereKeeps
    DEF Next
<1> QED BY <1>1, <1>2

LEMMA Always == Spec => []Inv
BY Initially, StepKeeps, PTL DEF Spec

\* Every variable keeps its type.
THEOREM Types == Spec => []TypeOK
<1>1. Inv => TypeOK
  BY DEF Inv, RowsOk, JobsOk, PageOk, Holds, CallsOk, TypeOK
<1> QED BY <1>1, Always, PTL

\* The panel is never busy with nothing under way, whichever requests are lost
\* and whatever its polls answer (startJob, retryJob and their catch blocks).
THEOREM PanelNeverStuck == Spec => []NeverStuck
<1>1. Inv => NeverStuck
  BY DEF Inv, PhaseOk, Follows, NeverStuck, JobBusy, At, OffersRetry
<1> QED BY <1>1, Always, PTL

-----------------------------------------------------------------------------
(***************************************************************************)
(* One reviewer.                                                           *)
(***************************************************************************)
\* What was public came of an approval that stands, and a review that is being
\* decided has not been approved: with one reviewer nobody else decides it.
Stands ==
  public.text # 0 => \E r \in Reviews : /\ reviews[r].status = "APPROVED" /\ reviews[r].by \in Reviewers
                                        /\ reviews[r].text = public.text
Undecided == \A p \in Reviewers : At(p, "decide") => reviews[call[p].review].status # "APPROVED"

\* What is neither a submission, nor hiding, nor the staff's leaves all this alone.
LEMMA Unrelated ==
  ASSUME Inv, [Next]_vars, ~Submit, ~Hide, ~AutoReview, \A p \in Reviewers : ~Staff(p)
  PROVE  /\ UNCHANGED <<public, reviews>>
         /\ \A p \in Reviewers : call'[p] = call[p] \/ ~At(p, "decide")'
<1>0. /\ Panel \in Callers /\ Form \in Callers /\ Reviewers \subseteq Callers
      /\ Panel \notin Reviewers /\ Form \notin Reviewers /\ call \in [Callers -> Call]
  BY Actors, ProfileAssistAssumption DEF Inv, CallsOk
<1>1. CASE UNCHANGED vars
  BY <1>1 DEF vars, server
<1>2. CASE Clicks \/ Comeback \/ Lost \/ Mounts
  <2>1. UNCHANGED server
    BY <1>2 DEF Clicks, Tick, Type, BeginUpload, BeginStart, BeginCancel, BeginRetry, BeginApply, Reload,
       Sends, Comeback, UploadBack, StartBack, CancelBack, QuoteBack, RetryBack, ApplyBack, Comes,
       Arrives, Lost, Mounts, MountRead, MountBack, MountLost
  <2>2. UNCHANGED call \/ \E c : call' = [call EXCEPT ![Panel] = c]
    BY <1>2 DEF Clicks, Tick, Type, BeginUpload, BeginStart, BeginCancel, BeginRetry, BeginApply, Reload,
       Sends, Begins, Comeback, UploadBack, StartBack, CancelBack, QuoteBack, RetryBack, ApplyBack,
       Comes, Ends, Goes, AsksQuote, Lost, Mounts, MountRead, MountBack, MountLost
  <2> QED BY <1>0, <2>1, <2>2 DEF server
<1>3. CASE Handles
  <2>1. UNCHANGED <<public, reviews>>
    BY <1>3 DEF server, Handles, Store, AcceptNotices, Agree, Gate, Insert, Cancel, Retry, Check, Write,
       Refuses
  <2>2. \E c : call' = [call EXCEPT ![Panel] = c]
    BY <1>3 DEF Handles, Store, AcceptNotices, Agree, Gate, Insert, Cancel, Retry, Check, Write, Refuses,
       Answers, Goes
  <2> QED BY <1>0, <2>1, <2>2
<1>4. ASSUME NEW s \in Slots, Poll(s) \/ PollBack(s) \/ PollLost(s)
      PROVE  UNCHANGED <<public, reviews, call>>
  BY <1>4 DEF server, Poll, PollBack, PollLost
<1>5. ASSUME NEW j \in Jobs, Works(j) PROVE UNCHANGED <<public, reviews, call>>
  BY <1>5 DEF Works, Claim, Finish
<1>6. ASSUME NEW p \in Callers, Dies(p)
      PROVE  UNCHANGED <<public, reviews>> /\ ~At(p, "decide")' /\ \A q \in Callers : q # p => call'[q] = call[q]
  <2>1. UNCHANGED server /\ Ends(p)
    BY <1>6 DEF Dies
  <2>2. CallsOk /\ UNCHANGED reviews
    BY <2>1 DEF Inv, server
  <2> QED BY <2>1, <2>2, Ended DEF server, At
<1>7. CASE Elsewhere
  <2>1. UNCHANGED <<public, reviews>>
    BY <1>7 DEF server, Elsewhere, Save, BeginSubmit, BeginHide, BeginDelete, StopJobs, Remove
  <2>2. \E c : call' = [call EXCEPT ![Form] = c]
    BY <1>7 DEF Elsewhere, Save, BeginSubmit, BeginHide, BeginDelete, StopJobs, Remove, Begins, Ends, Goes
  <2> QED BY <1>0, <2>1, <2>2
<1> QED
  BY <1>0, <1>1, <1>2, <1>3, <1>4, <1>5, <1>6, <1>7 DEF Next

\* The member submits or hides while the reviewer decides.
LEMMA MembersKeepIt ==
  ASSUME Inv, Stands, Undecided, Submit \/ Hide \/ AutoReview
  PROVE  Stands' /\ Undecided'
<1>1. /\ public \in [text : Nat, published : BOOLEAN,
                     status : {"DRAFT", "PENDING_REVIEW", "APPROVED", "REJECTED", "UNPUBLISHED"}]
      /\ reviews \in [Reviews -> Review] /\ \A p \in Callers : Fits(call[p], reviews)
      /\ call \in [Callers -> Call] /\ Form \in Callers \ Reviewers /\ Reviewers \subseteq Callers
  BY Actors, ProfileAssistAssumption DEF Inv, RowsOk, CallsOk
<1>2. public'.text = public.text
  BY <1>1 DEF Submit, Hide, AutoReview
<1>3. /\ \A r \in Reviews : reviews[r].status = "APPROVED" => /\ reviews'[r].status = "APPROVED"
                                                             /\ reviews'[r].text = reviews[r].text
                                                             /\ reviews'[r].by = reviews[r].by
      /\ \A r \in Reviews : reviews'[r].status = "APPROVED" => reviews[r].status = "APPROVED"
  <2>1. CASE Submit
    <3>1. PICK r \in Reviews :
            /\ \A k \in Reviews : reviews[k].status = "none" <=> k >= r
            /\ reviews' = [k \in Reviews |->
                 IF k = r THEN [status |-> "PENDING", text |-> call[Form].rev, by |-> Panel, auto |-> "none"]
                 ELSE IF reviews[k].status = "PENDING" THEN [reviews[k] EXCEPT !.status = "REJECTED"]
                 ELSE reviews[k]]
      BY <2>1 DEF Submit
    <3>2. reviews[r].status = "none"
      BY <3>1, ProfileAssistAssumption
    <3> QED BY <1>1, <3>1, <3>2 DEF Review
  <2>2. CASE Hide
    BY <2>2 DEF Hide
  <2>3. CASE AutoReview
    <3>1. PICK o : reviews' = [reviews EXCEPT ![call[Form].review].auto = o]
      BY <2>3 DEF AutoReview
    <3> QED BY <1>1, <3>1 DEF Review
  <2> QED BY <2>1, <2>2, <2>3
<1>4. \A p \in Reviewers : call'[p] = call[p]
  BY <1>1 DEF Submit, Hide, AutoReview, Ends, Goes
<1> QED BY <1>1, <1>2, <1>3, <1>4 DEF Stands, Undecided, At, Fits

\* The one reviewer reads a review that pends, and approves or rejects it: what
\* was approved before is not the review of this decision.
LEMMA OneDecides ==
  ASSUME NEW me, Reviewers = {me}, Inv, Stands, Undecided, Staff(me)
  PROVE  Stands' /\ Undecided'
<1>0. /\ public \in [text : Nat, published : BOOLEAN,
                     status : {"DRAFT", "PENDING_REVIEW", "APPROVED", "REJECTED", "UNPUBLISHED"}]
      /\ reviews \in [Reviews -> Review] /\ Fits(call[me], reviews) /\ me \in Callers
      /\ call \in [Callers -> Call]
  BY Actors DEF Inv, RowsOk, CallsOk
<1>1. ASSUME NEW r \in Reviews, NEW d \in {"APPROVED", "REJECTED"}, BeginDecide(me, r, d)
      PROVE  Stands' /\ Undecided'
  <2>1. /\ UNCHANGED <<public, reviews>> /\ reviews[r].status = "PENDING"
        /\ \E c : Begins(me, c) /\ c = [Idle EXCEPT !.pc = "decide", !.review = r, !.decision = d,
                                         !.had = public.text # 0, !.out = public.published]
    BY <1>1 DEF BeginDecide, server
  <2>2. call'[me].review = r
    BY <1>0, <2>1 DEF Begins, Idle
  <2> QED BY <1>0, <2>1, <2>2 DEF Stands, Undecided
<1>2. CASE Decide(me)
  <2> PICK c : c = call[me]
    OBVIOUS
  <2>1. /\ c.review \in Reviews /\ c.decision \in {"APPROVED", "REJECTED"}
        /\ reviews[c.review].status # "APPROVED" /\ reviews[c.review] \in Review
    BY <1>0, <1>2 DEF Decide, At, Fits, Undecided
  <2>2. /\ reviews' = [reviews EXCEPT ![c.review].status = c.decision, ![c.review].by = me]
        /\ public' = IF c.decision = "APPROVED" THEN Approved(c.review) ELSE Rejected(c)
        /\ Goes(me, [c EXCEPT !.pc = "tell"])
    BY <1>2 DEF Decide
  <2>3. call'[me].pc = "tell"
    BY <1>0, <2>2 DEF Goes, Call
  <2>4. Stands'
    <3>1. CASE c.decision = "APPROVED"
      <4>1. public'.text = reviews[c.review].text
        BY <2>2, <3>1 DEF Approved
      <4>2. /\ reviews'[c.review].status = "APPROVED" /\ reviews'[c.review].by \in Reviewers
            /\ reviews'[c.review].text = reviews[c.review].text
        BY <1>0, <2>1, <2>2, <3>1 DEF Review
      <4> QED BY <2>1, <4>1, <4>2 DEF Stands
    <3>2. CASE c.decision # "APPROVED"
      <4>1. public'.text = public.text
        BY <2>2, <3>2 DEF Rejected
      <4>2. \A r \in Reviews : reviews[r].status = "APPROVED" => reviews'[r] = reviews[r]
        BY <1>0, <2>1, <2>2
      <4> QED BY <4>1, <4>2 DEF Stands
    <3> QED BY <3>1, <3>2
  <2> QED BY <2>3, <2>4 DEF Undecided, At
<1>3. CASE TellDecision(me)
  <2>1. UNCHANGED <<public, reviews>> /\ Ends(me)
    BY <1>3 DEF TellDecision
  <2>2. call'[me].pc = "idle"
    BY <1>0, <2>1 DEF Ends, Goes, Idle
  <2> QED BY <2>1, <2>2 DEF Stands, Undecided, At
<1> QED BY <1>1, <1>2, <1>3 DEF Staff

\* With one reviewer, what the public sees is a text that the staff approved and
\* whose approval stands, whatever the member saves, submits again or hides while
\* it is decided (submitProfileForReview, resolvePublicationReview).
THEOREM ApprovedIsPublic ==
  ASSUME NEW me, Reviewers = {me}
  PROVE  Spec => []PublicIsApproved
<1>1. Init => Stands /\ Undecided
  BY Actors DEF Init, Stands, Undecided, At, Idle
<1>2. Inv /\ Stands /\ Undecided /\ [Next]_vars => Stands' /\ Undecided'
  <2> SUFFICES ASSUME Inv, Stands, Undecided, [Next]_vars PROVE Stands' /\ Undecided'
    OBVIOUS
  <2>1. CASE Submit \/ Hide \/ AutoReview
    BY <2>1, MembersKeepIt
  <2>2. CASE Staff(me)
    BY <2>2, OneDecides
  <2>3. CASE ~Submit /\ ~Hide /\ ~AutoReview /\ ~Staff(me)
    <3>1. /\ UNCHANGED <<public, reviews>>
          /\ \A p \in Reviewers : call'[p] = call[p] \/ ~At(p, "decide")'
      BY <2>3, Unrelated
    <3> QED BY <3>1 DEF Stands, Undecided, At
  <2> QED BY <2>1, <2>2, <2>3
<1>3. Stands => PublicIsApproved
  BY DEF Stands, PublicIsApproved, Visible
<1> QED BY <1>1, <1>2, <1>3, Always, PTL DEF Spec

=============================================================================
