---------------------------- MODULE Publication ----------------------------
(***************************************************************************)
(* Podcast episodes, their guests and the approval of what is published:   *)
(* the catalogue (src/lib/community/episodes.ts), the RSS import (podcast/ *)
(* rss-import.ts), the review of a Kariyer Portresi episode by its         *)
(* candidate (arayanlar/publication.ts) and the acceptances all of them    *)
(* ask for (legal/service.ts).                                             *)
(*                                                                         *)
(* An episode's publication version is a hash of its content, so here it   *)
(* is the content itself.  Requests run outside transactions: each is a    *)
(* call with what it read, and any other may run between two of its steps. *)
(***************************************************************************)
EXTENDS Integers, FiniteSets, Sequences

CONSTANTS
  Episodes, Staff, Hosts, Importers,
  Members, Candidate,   \* the member whose application is under review
  Casts,                \* bound of the model: how often each may call, a choice per behaviour
  Choice,               \* Choice[f]: the values of a field; 0 is null
  Guids, NoGuid,
  Recent,               \* hasCurrentAcceptance reads this many acceptances (5)
  NoEpisode, NoMember, NoContent,
  MaxApprovals          \* bound of the model: acceptances of a member per episode

(***************************************************************************)
(* text: title, description, artwork, publication date.  link: audioUrl    *)
(* and listeningUrl, by which an RSS item finds an episode.                *)
(***************************************************************************)
Fields == {"text", "link", "spotify"}
Contents == {c \in [Fields -> UNION {Choice[f] : f \in Fields}] : \A f \in Fields : c[f] \in Choice[f]}
Given == {"text", "link"}    \* the fields that the routes pass on
Drafts == {c \in Contents : c["spotify"] = 0}
Callers == Staff \cup Hosts \cup Importers \cup Members

ASSUME PublicationAssumption ==
  /\ Candidate \in Members /\ NoMember \notin Members
  /\ Casts \subseteq [Callers -> Nat]
  /\ Choice \in [Fields -> SUBSET Nat]
  /\ NoEpisode \notin Episodes /\ NoContent \notin Contents /\ NoGuid \notin Guids
  /\ Recent \in Nat /\ MaxApprovals \in Nat

VARIABLES
  cast,         \* how often each caller may call in this behaviour
  episode,      \* PodcastEpisode rows
  appearance,   \* appearance[e][m]: EpisodeAppearance
  approvals,    \* approvals[e][m]: PUBLICATION acceptances, oldest first
  recording,    \* <<e, m>>: RECORDING consents in force
  app,          \* what the candidate's application says of the review
  feeds,        \* how many PodcastFeedConfig rows there are
  call          \* where each caller is

vars == <<cast, episode, appearance, approvals, recording, app, feeds, call>>

States == {"none", "DRAFT", "PUBLISHED", "REMOVED"}
Row == [state : States, content : Contents \cup {NoContent}, over : SUBSET Fields,
        guid : Guids \cup {NoGuid}, feed : Nat]
NoRow == [state |-> "none", content |-> NoContent, over |-> {}, guid |-> NoGuid, feed |-> 0]

\* verified: who set adminVerifiedAt; proposed: proposedById is set.
Appearance == [status : {"none", "PENDING_ADMIN", "PENDING_MEMBER", "CONFIRMED", "REJECTED"},
               verified : {"no", "staff", "accept"}, proposed : BOOLEAN]
NoAppearance == [status |-> "none", verified |-> "no", proposed |-> FALSE]

Acceptance == [version : Contents, withdrawn : BOOLEAN]
Application == [episode : Episodes \cup {NoEpisode}, version : Contents \cup {NoContent},
                changes : BOOLEAN, withdrawn : BOOLEAN]

\* fields, to: what the call will write, and where; state: the state it will
\* set; over, guests, stale: what it read.
Call == [pc : {"idle", "guests", "gate", "linked", "update", "publish", "verify", "accept",
               "edit", "create", "appear", "review", "approve", "clear", "changes", "withdraw",
               "fetched", "refresh", "attach", "insert"},
         e : Episodes \cup {NoEpisode}, m : Members \cup {NoMember}, to : Contents \cup {NoContent},
         fields : SUBSET Fields, state : States \cup {"keep"}, over : SUBSET Fields,
         guests : SUBSET Members, guid : Guids \cup {NoGuid}, feed : Nat, stale : BOOLEAN,
         n : Nat]     \* the calls it has made
Idle == [pc |-> "idle", e |-> NoEpisode, m |-> NoMember, to |-> NoContent, fields |-> {},
         state |-> "keep", over |-> {}, guests |-> {}, guid |-> NoGuid, feed |-> 0, stale |-> FALSE,
         n |-> 0]

Init ==
  /\ cast \in Casts
  /\ episode = [e \in Episodes |-> NoRow]
  /\ appearance = [e \in Episodes |-> [m \in Members |-> NoAppearance]]
  /\ approvals = [e \in Episodes |-> [m \in Members |-> << >>]]
  /\ recording = {}
  /\ app = [episode |-> NoEpisode, version |-> NoContent, changes |-> FALSE, withdrawn |-> FALSE]
  /\ feeds \in {0, 1}
  /\ call = [p \in Callers |-> Idle]

-----------------------------------------------------------------------------
Free(p) == call[p].pc = "idle" /\ call[p].n < cast[p]
At(p, pc) == call[p].pc = pc
Goes(p, c) == call' = [call EXCEPT ![p] = [c EXCEPT !.n = call[p].n]]
Ends(p) == call' = [call EXCEPT ![p] = [Idle EXCEPT !.n = call[p].n + 1]]
Reads == UNCHANGED <<cast, episode, appearance, approvals, recording, app, feeds>>
Exists(e) == episode[e].state # "none"
Fresh(e) == ~Exists(e)
Linked(e) == app.episode = e

Confirmed(e) == {m \in Members : appearance[e][m].status = "CONFIRMED"}
Pending(e) == {m \in Members : appearance[e][m].status \in {"PENDING_ADMIN", "PENDING_MEMBER"}}

Merged(c, fields, old) == [f \in Fields |-> IF f \in fields THEN c[f] ELSE old[f]]

\* hasCurrentAcceptance: among the most recent acceptances in force.
InForce(e, m) == SelectSeq(approvals[e][m], LAMBDA a : ~a.withdrawn)
Approved(e, m, version) ==
  LET rows == InForce(e, m)
  IN  \E n \in DOMAIN rows : n > Len(rows) - Recent /\ rows[n].version = version

-----------------------------------------------------------------------------
(***************************************************************************)
(* The catalogue.                                                          *)
(***************************************************************************)
\* createPodcastEpisode
CreateEpisode(s, e, c, state) ==
  /\ Free(s) /\ Fresh(e)
  /\ episode' = [episode EXCEPT ![e] = [NoRow EXCEPT !.state = state, !.content = c]]
  /\ Ends(s) /\ UNCHANGED <<cast, appearance, approvals, recording, app, feeds>>

\* Does an update need its guests' approval?  With no state given it keeps the
\* state that was read, and a change of the series alone is not material.
Gated(e, fields, state) ==
  \/ state = "PUBLISHED" /\ episode[e].state # "PUBLISHED"
  \/ episode[e].state = "PUBLISHED" /\ state \in {"keep", "PUBLISHED"} /\ fields # {}

\* updatePodcastEpisode reads the episode ...
Update(e, c, fields, state) ==
  [Idle EXCEPT !.pc = IF Gated(e, fields, state) THEN "guests" ELSE "update", !.e = e,
               !.to = Merged(c, fields, episode[e].content), !.fields = fields,
               !.state = state, !.over = episode[e].over]

BeginUpdate(s, e, c, fields, state) ==
  /\ Free(s) /\ Exists(e)
  /\ Goes(s, Update(e, c, fields, state))
  /\ Reads

\* ... its appearances, none of which may be pending ...
ReadGuests(s) ==
  /\ At(s, "guests") /\ Pending(call[s].e) = {}
  /\ Goes(s, [call[s] EXCEPT !.pc = "gate", !.guests = Confirmed(call[s].e)])
  /\ Reads

\* ... one after another their approvals of the version it is about to publish ...
ReadApproval(s, m) ==
  /\ At(s, "gate") /\ m \in call[s].guests
  /\ Approved(call[s].e, m, call[s].to)
  /\ Goes(s, [call[s] EXCEPT !.guests = @ \ {m}])
  /\ Reads

\* ... and whether an application is linked, which needs its candidate's,
\* whatever became of the appearance, ...
ReadLink(s) ==
  /\ At(s, "gate") /\ call[s].guests = {}
  /\ Goes(s, [call[s] EXCEPT !.pc = IF Linked(call[s].e) THEN "linked" ELSE "update"])
  /\ Reads

ReadCandidate(s) ==
  /\ At(s, "linked") /\ Approved(call[s].e, Candidate, call[s].to)
  /\ Goes(s, [call[s] EXCEPT !.pc = "update"])
  /\ Reads

\* ... then writes the given fields by id.
UpdateEpisode(s) ==
  LET e == call[s].e
  IN  /\ At(s, "update") /\ Ends(s)
      /\ episode' = [episode EXCEPT
           ![e].content = Merged(call[s].to, call[s].fields, @),
           ![e].state = IF call[s].state = "keep" THEN @ ELSE call[s].state,
           ![e].over = call[s].over \cup call[s].fields]
      /\ UNCHANGED <<cast, appearance, approvals, recording, app, feeds>>

\* setEpisodeSpotifyUrl: the same write with no gate.
BeginSetSpotify(s, e, url) ==
  LET c == [episode[e].content EXCEPT !["spotify"] = url]
  IN  /\ Free(s) /\ Exists(e)
      /\ Goes(s, [Update(e, c, {"spotify"}, "keep") EXCEPT !.pc = "update"])
      /\ Reads

\* publishKariyerPortresiEpisode: the candidate's approval of the version it
\* reads, then an update that reads again.
BeginPublish(s) ==
  LET e == app.episode
  IN  /\ Free(s) /\ ~app.withdrawn
      /\ e # NoEpisode /\ episode[e].state # "PUBLISHED"
      /\ Approved(e, Candidate, episode[e].content)
      /\ Goes(s, [Idle EXCEPT !.pc = "publish", !.e = e])
      /\ Reads

Publish(s) ==
  LET e == call[s].e
  IN  /\ At(s, "publish")
      /\ Goes(s, Update(e, episode[e].content, {}, "PUBLISHED"))
      /\ Reads

-----------------------------------------------------------------------------
(***************************************************************************)
(* Appearances.                                                            *)
(***************************************************************************)
SetAppearance(e, m, a) ==
  /\ appearance' = [appearance EXCEPT ![e][m] = a]
  /\ UNCHANGED <<cast, episode, approvals, recording, app, feeds>>

\* An upsert: whatever the appearance was, it is pending again.
RequestAppearance(m, e) ==
  /\ Free(m) /\ episode[e].state = "PUBLISHED"
  /\ SetAppearance(e, m, [appearance[e][m] EXCEPT !.status = "PENDING_ADMIN", !.verified = "no"])
  /\ Ends(m)

ProposeAppearance(s, e, m) ==
  /\ Free(s) /\ Exists(e) /\ episode[e].state # "REMOVED"
  /\ SetAppearance(e, m, [status |-> "PENDING_MEMBER", verified |-> "no", proposed |-> TRUE])
  /\ Ends(s)

\* adminVerifyAppearance and memberAcceptAppearance read the status, then
\* confirm by id.
BeginVerify(s, e, m) ==
  /\ Free(s) /\ appearance[e][m].status = "PENDING_ADMIN"
  /\ Goes(s, [Idle EXCEPT !.pc = "verify", !.e = e, !.m = m])
  /\ Reads

BeginAcceptOwn(m, e) ==
  /\ Free(m) /\ Pending(e) # {} /\ m \in Pending(e)
  /\ <<e, m>> \in recording
  /\ Goes(m, [Idle EXCEPT !.pc = "accept", !.e = e, !.m = m])
  /\ Reads

BeginAccept(m, e) ==
  /\ Free(m) /\ appearance[e][m].status = "PENDING_MEMBER"
  /\ <<e, m>> \in recording
  /\ Goes(m, [Idle EXCEPT !.pc = "accept", !.e = e, !.m = m])
  /\ Reads

Confirm(p) ==
  LET e == call[p].e
      m == call[p].m
  IN  /\ call[p].pc \in {"verify", "accept"} /\ Ends(p)
      /\ SetAppearance(e, m, [appearance[e][m] EXCEPT !.status = "CONFIRMED",
                                !.verified = IF At(p, "verify") THEN "staff" ELSE "accept"])

\* rejectAppearance, by an admin or by the member, from any status.
RejectAppearance(p, e, m) ==
  /\ Free(p) /\ p \in Staff \cup {m} /\ appearance[e][m].status # "none"
  /\ SetAppearance(e, m, [appearance[e][m] EXCEPT !.status = "REJECTED"])
  /\ Ends(p)

-----------------------------------------------------------------------------
(***************************************************************************)
(* Acceptances.                                                            *)
(***************************************************************************)
BeginApproveAny(m, e) ==
  /\ Free(m)
  /\ Goes(m, [Idle EXCEPT !.pc = "approve", !.e = e, !.m = m, !.to = episode[e].content])
  /\ Reads

\* A guest's page shows the version (GET /api/bolumler) and records its approval.
BeginApproveOwn(m, e) ==
  /\ Free(m) /\ m \in Confirmed(e)
  /\ Goes(m, [Idle EXCEPT !.pc = "approve", !.e = e, !.m = m, !.to = episode[e].content])
  /\ Reads

\* approveKariyerPublication: the version under review must be the current one.
BeginApprove(m) ==
  LET e == app.episode
  IN  /\ Free(m) /\ m = Candidate
      /\ e # NoEpisode /\ app.version = episode[e].content
      /\ episode[e].state # "PUBLISHED"
      /\ ~Approved(e, m, app.version)
      /\ Goes(m, [Idle EXCEPT !.pc = "approve", !.e = e, !.m = m, !.to = app.version,
                              !.stale = app.changes])
      /\ Reads

\* recordAcceptance
RecordApproval(m) ==
  LET e == call[m].e
  IN  /\ At(m, "approve") /\ Len(approvals[e][m]) < MaxApprovals
      /\ approvals' = [approvals EXCEPT ![e][m] =
                         Append(@, [version |-> call[m].to, withdrawn |-> FALSE])]
      /\ IF call[m].stale THEN Goes(m, [Idle EXCEPT !.pc = "clear"]) ELSE Ends(m)
      /\ UNCHANGED <<cast, episode, appearance, recording, app, feeds>>

ClearChanges(m) ==
  /\ At(m, "clear") /\ Ends(m)
  /\ app' = [app EXCEPT !.changes = FALSE]
  /\ UNCHANGED <<cast, episode, appearance, approvals, recording, feeds>>

\* withdrawAcceptance: an episode that is published stays published.
WithdrawApproval(m, e, n) ==
  /\ Free(m) /\ n \in DOMAIN approvals[e][m] /\ ~approvals[e][m][n].withdrawn
  /\ approvals' = [approvals EXCEPT ![e][m][n].withdrawn = TRUE]
  /\ Ends(m) /\ UNCHANGED <<cast, episode, appearance, recording, app, feeds>>

\* recordAcceptance and withdrawAcceptance of a RECORDING_CONSENT
ConsentToRecording(m, e) ==
  /\ Free(m) /\ appearance[e][m].status # "none"
  /\ recording' = IF <<e, m>> \in recording THEN recording \ {<<e, m>>} ELSE recording \cup {<<e, m>>}
  /\ Ends(m) /\ UNCHANGED <<cast, episode, appearance, approvals, app, feeds>>

-----------------------------------------------------------------------------
(***************************************************************************)
(* The candidate's review.                                                 *)
(***************************************************************************)
\* sendKariyerPublicationForApproval reads the application and its episode.
\* An edit always writes the listening link, given or as it was read.
BeginSend(h, c, fields) ==
  LET e == app.episode
  IN  /\ Free(h) /\ ~app.withdrawn
      /\ \/ /\ e = NoEpisode /\ fields = Given
            /\ Goes(h, [Idle EXCEPT !.pc = "create", !.to = c])
         \/ /\ e # NoEpisode /\ episode[e].state # "PUBLISHED"
            /\ Goes(h, [Idle EXCEPT !.pc = IF fields = {} THEN "appear" ELSE "edit", !.e = e,
                          !.to = Merged(c, fields, episode[e].content),
                          !.fields = fields \cup {"link"}])
      /\ Reads

SendCreate(h, e) ==
  /\ At(h, "create") /\ Fresh(e)
  /\ episode' = [episode EXCEPT ![e] = [NoRow EXCEPT !.state = "DRAFT", !.content = call[h].to]]
  /\ Goes(h, [Idle EXCEPT !.pc = "appear", !.e = e])
  /\ UNCHANGED <<cast, appearance, approvals, recording, app, feeds>>

SendEdit(h) ==
  LET e == call[h].e
  IN  /\ At(h, "edit")
      /\ episode' = [episode EXCEPT ![e].content = Merged(call[h].to, call[h].fields, @)]
      /\ Goes(h, [Idle EXCEPT !.pc = "appear", !.e = e])
      /\ UNCHANGED <<cast, appearance, approvals, recording, app, feeds>>

SendAppearUnseen(h) ==
  LET e == call[h].e
  IN  /\ At(h, "appear")
      /\ Goes(h, [Idle EXCEPT !.pc = "review", !.e = e, !.to = episode[e].content])
      /\ Reads

\* The version is read again and the candidate's appearance upserted ...
SendAppear(h) ==
  LET e == call[h].e
      a == appearance[e][Candidate]
  IN  /\ At(h, "appear")
      /\ Goes(h, [Idle EXCEPT !.pc = "review", !.e = e, !.to = episode[e].content])
      /\ SetAppearance(e, Candidate, [status |-> "CONFIRMED", verified |-> "staff",
                                      proposed |-> a.proposed \/ a.status = "none"])

\* ... before the application is linked, whatever became of it.
SendReview(h) ==
  /\ At(h, "review") /\ Ends(h)
  /\ app' = [app EXCEPT !.episode = call[h].e, !.version = call[h].to, !.changes = FALSE]
  /\ UNCHANGED <<cast, episode, appearance, approvals, recording, feeds>>

\* requestKariyerPublicationChanges
BeginChanges(m) ==
  /\ Free(m) /\ m = Candidate
  /\ app.episode # NoEpisode /\ app.version # NoContent
  /\ episode[app.episode].state # "PUBLISHED"
  /\ Goes(m, [Idle EXCEPT !.pc = "changes"])
  /\ Reads

RequestChanges(m) ==
  /\ At(m, "changes") /\ Ends(m)
  /\ app' = [app EXCEPT !.changes = TRUE]
  /\ UNCHANGED <<cast, episode, appearance, approvals, recording, feeds>>

\* withdrawApplication is refused once the episode is published ...
BeginWithdraw(m) ==
  /\ Free(m) /\ m = Candidate /\ ~app.withdrawn
  /\ app.episode # NoEpisode => episode[app.episode].state # "PUBLISHED"
  /\ Goes(m, [Idle EXCEPT !.pc = "withdraw"])
  /\ Reads

\* ... and keeps the link, which reopening keeps too.
Withdraw(m) ==
  /\ At(m, "withdraw") /\ Ends(m)
  /\ app' = [app EXCEPT !.version = NoContent, !.changes = FALSE, !.withdrawn = TRUE]
  /\ UNCHANGED <<cast, episode, appearance, approvals, recording, feeds>>

Reopen(m) ==
  /\ Free(m) /\ m = Candidate /\ app.withdrawn
  /\ app' = [app EXCEPT !.version = NoContent, !.changes = FALSE, !.withdrawn = FALSE]
  /\ Ends(m) /\ UNCHANGED <<cast, episode, appearance, approvals, recording, feeds>>

-----------------------------------------------------------------------------
(***************************************************************************)
(* RSS.  A feed has one item here: an import handles its items one by one  *)
(* under one advisory lock.                                                *)
(***************************************************************************)
\* saveFeedUrl creates the configuration if there is none.
SaveFeedUrl(s) ==
  /\ Free(s) /\ feeds = 0 /\ feeds' = 1
  /\ Ends(s) /\ UNCHANGED <<cast, episode, appearance, approvals, recording, app>>

\* importRssFeed reads the oldest configuration before it fetches ...
BeginImport(i, g, c) ==
  /\ Free(i)
  /\ Goes(i, [Idle EXCEPT !.pc = "fetched", !.guid = g, !.to = c,
                          !.feed = IF feeds = 0 THEN 0 ELSE 1])
  /\ Reads

\* ... and creates one afterwards if it found none.
CreateFeed(i) ==
  /\ At(i, "fetched") /\ call[i].feed = 0
  /\ feeds' = feeds + 1
  /\ Goes(i, [call[i] EXCEPT !.feed = feeds + 1])
  /\ UNCHANGED <<cast, episode, appearance, approvals, recording, app>>

ImportLocked == \E i \in Importers : call[i].pc \in {"refresh", "attach", "insert"}
ByGuid(i) == {e \in Episodes : Exists(e) /\ episode[e].guid = call[i].guid
                               /\ episode[e].feed = call[i].feed}
ByUrl(i) == {e \in Episodes : Exists(e) /\ episode[e].guid = NoGuid
                              /\ call[i].to["link"] \notin {0} /\ episode[e].content["link"] = call[i].to["link"]}

\* Fields the admins have not edited, of an episode with no confirmed guest.
Refreshable(e, fields) == IF Confirmed(e) = {} THEN fields \ episode[e].over ELSE {}

FindItemUnlocked(i) ==
  /\ At(i, "fetched") /\ call[i].feed # 0
  /\ \/ \E e \in ByGuid(i) :
          Goes(i, [call[i] EXCEPT !.pc = "refresh", !.e = e, !.fields = Refreshable(e, Given)])
     \/ /\ ByGuid(i) = {} /\ ByUrl(i) = {}
        /\ Goes(i, [call[i] EXCEPT !.pc = "insert"])
  /\ Reads

\* Under the lock: the episode with the item's identity is refreshed; one that
\* only shares its URL is attached if the admin asked for that, two are left
\* alone; else the item is new.
FindItem(i) ==
  /\ At(i, "fetched") /\ call[i].feed # 0 /\ ~ImportLocked
  /\ \/ \E e \in ByGuid(i) :
          Goes(i, [call[i] EXCEPT !.pc = "refresh", !.e = e, !.fields = Refreshable(e, Given)])
     \/ \E e \in ByUrl(i) :
          /\ ByGuid(i) = {} /\ ByUrl(i) = {e}
          /\ Goes(i, [call[i] EXCEPT !.pc = "attach", !.e = e, !.fields = Refreshable(e, {"text"})])
     \/ /\ ByGuid(i) = {} /\ ByUrl(i) = {}
        /\ Goes(i, [call[i] EXCEPT !.pc = "insert"])
  /\ Reads

\* A refresh never touches publicationState.
Refresh(i) ==
  LET e == call[i].e
  IN  /\ call[i].pc \in {"refresh", "attach"} /\ Ends(i)
      /\ episode' = [episode EXCEPT
           ![e].content = Merged(call[i].to, call[i].fields, @),
           ![e].guid = call[i].guid, ![e].feed = call[i].feed]
      /\ UNCHANGED <<cast, appearance, approvals, recording, app, feeds>>

Insert(i, e, state) ==
  /\ At(i, "insert") /\ Fresh(e) /\ state \in {"DRAFT", "PUBLISHED"} /\ Ends(i)
  /\ episode' = [episode EXCEPT ![e] =
                   [NoRow EXCEPT !.state = state, !.content = call[i].to,
                                 !.guid = call[i].guid, !.feed = call[i].feed]]
  /\ UNCHANGED <<cast, appearance, approvals, recording, app, feeds>>

-----------------------------------------------------------------------------
\* A call that is refused, fails or dies leaves what it has written.
Stops(p) == ~At(p, "idle") /\ Ends(p) /\ Reads

StaffStep(s) ==
  \/ \E e \in Episodes, c \in Drafts, state \in States \ {"none"} : CreateEpisode(s, e, c, state)
  \/ \E e \in Episodes, c \in Drafts, fields \in SUBSET Given,
        state \in {"keep", "DRAFT", "PUBLISHED", "REMOVED"} : BeginUpdate(s, e, c, fields, state)
  \/ ReadGuests(s) \/ ReadLink(s) \/ ReadCandidate(s) \/ UpdateEpisode(s) \/ BeginPublish(s) \/ Publish(s)
  \/ \E e \in Episodes, m \in Members :
        ProposeAppearance(s, e, m) \/ ReadApproval(s, m) \/ BeginVerify(s, e, m) \/ RejectAppearance(s, e, m)
  \/ Confirm(s) \/ SaveFeedUrl(s)
  \/ \E e \in Episodes, url \in Choice["spotify"] : BeginSetSpotify(s, e, url)

HostStep(h) ==
  \/ \E c \in Drafts, fields \in SUBSET Given : BeginSend(h, c, fields)
  \/ \E e \in Episodes : SendCreate(h, e)
  \/ SendEdit(h) \/ SendAppear(h) \/ SendReview(h)

MemberStep(m) ==
  \/ \E e \in Episodes : RequestAppearance(m, e) \/ BeginAccept(m, e) \/ RejectAppearance(m, e, m)
                         \/ BeginApproveOwn(m, e) \/ ConsentToRecording(m, e)
  \/ \E e \in Episodes, n \in 1..MaxApprovals : WithdrawApproval(m, e, n)
  \/ Confirm(m) \/ BeginApprove(m) \/ RecordApproval(m) \/ ClearChanges(m)
  \/ BeginChanges(m) \/ RequestChanges(m) \/ BeginWithdraw(m) \/ Withdraw(m) \/ Reopen(m)

ImportStep(i) ==
  \/ \E g \in Guids, c \in Drafts : BeginImport(i, g, c)
  \/ CreateFeed(i) \/ FindItem(i) \/ Refresh(i)
  \/ \E e \in Episodes, state \in States : Insert(i, e, state)

Next ==
  \/ \E s \in Staff : StaffStep(s)
  \/ \E h \in Hosts : HostStep(h)
  \/ \E m \in Members : MemberStep(m)
  \/ \E i \in Importers : ImportStep(i)
  \/ \E p \in Callers : Stops(p)

Spec == Init /\ [][Next]_vars

-----------------------------------------------------------------------------
(***************************************************************************)
(* Properties.                                                             *)
(***************************************************************************)
\* Every variable has its type.
TypeOK ==
  /\ cast \in Casts
  /\ episode \in [Episodes -> Row]
  /\ appearance \in [Episodes -> [Members -> Appearance]]
  /\ approvals \in [Episodes -> [Members -> Seq(Acceptance)]]
  /\ recording \subseteq Episodes \X Members
  /\ app \in Application /\ feeds \in Nat
  /\ call \in [Callers -> Call]

\* An application is linked only to an episode on which its candidate has an
\* appearance, so that the ordinary gate covers it from then on
\* (sendKariyerPublicationForApproval upserts before it links).
LinkedHasGuest == app.episode # NoEpisode => appearance[app.episode][Candidate].status # "none"

\* Nobody confirms an appearance of their own: one that is confirmed was
\* proposed or verified by the staff (memberAcceptAppearance, adminVerifyAppearance).
StaffTookPart ==
  \A e \in Episodes, m \in Members :
    LET a == appearance[e][m] IN a.status = "CONFIRMED" => a.proposed \/ a.verified = "staff"

\* An import about to insert or attach an item finds no episode of its feed
\* that has the item's identity: the unique key never has to refuse, so one
\* item never makes two episodes (importRssFeed's advisory lock).
ImportNeverCollides ==
  \A i \in Importers : call[i].pc \in {"attach", "insert"} => ByGuid(i) = {}

Accepted(e) ==
  \E n \in DOMAIN approvals[e][Candidate] : approvals[e][Candidate][n].version = episode[e].content

\* A change of the Spotify link, which is part of the version, on a candidate's
\* published and approved episode is approved too: documents.ts says that a
\* material change needs a new approval, and setEpisodeSpotifyUrl asks for none.
MaterialChangeApproved ==
  [][\A e \in Episodes :
       /\ Linked(e) /\ episode[e].state = "PUBLISHED" /\ Accepted(e)
       /\ episode'[e].content["spotify"] # episode[e].content["spotify"]
       => Accepted(e)']_vars

\* "Linked episodes always require the candidate's current-version approval"
\* (episodes.ts:202): one that is published was approved in the version that is
\* published.  The gate judges the version read at the start, and the update
\* writes its own fields into whatever the row holds by then.
PublishedAsApproved ==
  [][\A e \in Episodes :
       Linked(e) /\ episode[e].state # "PUBLISHED" /\ episode'[e].state = "PUBLISHED"
       => Accepted(e)']_vars

=============================================================================
