------------------------- MODULE PublicationProofs -------------------------
(***************************************************************************)
(* Theorems of Publication: its types, that a linked application has a     *)
(* guest, that the staff took part in every confirmation, and that an RSS  *)
(* import never collides with its own feed.                                *)
(***************************************************************************)
EXTENDS Publication, TLAPS, SequenceTheorems

-----------------------------------------------------------------------------
(***************************************************************************)
(* The inductive invariant.                                                *)
(***************************************************************************)
\* The calls that are about an episode, that carry a content, and that hold
\* the advisory lock of the import.
OnEpisode == {"guests", "gate", "linked", "update", "publish", "verify", "accept", "edit",
              "appear", "review", "approve", "refresh", "attach"}
Carrying == {"guests", "gate", "linked", "update", "edit", "create", "approve",
             "fetched", "refresh", "attach", "insert"}
Locking == {"refresh", "attach", "insert"}

Rows == \A e \in Episodes : Exists(e) => episode[e].content \in Contents

Guests ==
  \A e \in Episodes, m \in Members :
    /\ appearance[e][m].status # "none" => Exists(e)
    /\ appearance[e][m].status = "PENDING_MEMBER" => appearance[e][m].proposed

\* What a call holds between its steps stays true, whoever runs meanwhile.
Holds(p, c) ==
  /\ c.pc \in OnEpisode => c.e \in Episodes /\ Exists(c.e)
  /\ c.pc \in Carrying => c.to \in Contents
  /\ c.pc \in {"guests", "gate", "linked", "update"} => c.state # "none"
  /\ c.pc \in {"verify", "accept"} => c.m \in Members
  /\ c.pc = "accept" => appearance[c.e][c.m].proposed
  /\ c.pc = "review" => appearance[c.e][Candidate].status # "none"
  /\ c.pc \in Locking \cup {"fetched"} => c.guid \in Guids
  /\ c.pc \in Locking => p \in Importers
Fitting == \A p \in Callers : Holds(p, call[p])

OneImport ==
  \A i, j \in Importers : call[i].pc \in Locking /\ call[j].pc \in Locking => i = j

Inv ==
  /\ TypeOK /\ Rows /\ Guests /\ Fitting /\ OneImport
  /\ LinkedHasGuest /\ StaffTookPart /\ ImportNeverCollides

-----------------------------------------------------------------------------
(***************************************************************************)
(* Data.                                                                   *)
(***************************************************************************)
LEMMA Actors ==
  /\ Staff \subseteq Callers /\ Hosts \subseteq Callers
  /\ Members \subseteq Callers /\ Importers \subseteq Callers
  /\ Candidate \in Members
BY PublicationAssumption DEF Callers

LEMMA DraftOk == Drafts \subseteq Contents
BY DEF Drafts

\* Taking some fields of one content over another leaves a content.
LEMMA MergedOk ==
  ASSUME NEW c \in Contents, NEW old \in Contents, NEW fields
  PROVE  Merged(c, fields, old) \in Contents
<1>1. \A f \in Fields : Merged(c, fields, old)[f] \in Choice[f]
  BY DEF Merged, Contents
<1>2. Merged(c, fields, old) \in [Fields -> UNION {Choice[f] : f \in Fields}]
  <2>1. \A f \in Fields : Merged(c, fields, old)[f] \in UNION {Choice[g] : g \in Fields}
    BY <1>1
  <2> QED BY <2>1 DEF Merged
<1> QED BY <1>1, <1>2 DEF Contents

LEMMA SpotifyOk ==
  ASSUME NEW c \in Contents, NEW url \in Choice["spotify"]
  PROVE  [c EXCEPT !["spotify"] = url] \in Contents
<1>0. "spotify" \in Fields
  BY DEF Fields
<1>1. \A f \in Fields : [c EXCEPT !["spotify"] = url][f] \in Choice[f]
  BY <1>0 DEF Contents
<1>2. [c EXCEPT !["spotify"] = url] \in [Fields -> UNION {Choice[f] : f \in Fields}]
  <2>1. \A f \in Fields : [c EXCEPT !["spotify"] = url][f] \in UNION {Choice[g] : g \in Fields}
    BY <1>1
  <2> QED BY <2>1 DEF Contents
<1> QED BY <1>1, <1>2 DEF Contents

LEMMA NoRowOk == NoRow \in Row /\ NoRow.guid = NoGuid
BY DEF NoRow, Row, States

LEMMA IdleOk == Idle \in Call /\ Idle.pc = "idle"
BY DEF Idle, Call, States

-----------------------------------------------------------------------------
(***************************************************************************)
(* Steps of a call.                                                        *)
(***************************************************************************)
\* A caller that goes on keeps the type, and the other callers stay where they are.
LEMMA GoesOk ==
  ASSUME TypeOK, NEW p \in Callers, NEW c \in Call, Goes(p, c)
  PROVE  /\ call' \in [Callers -> Call]
         /\ call'[p].pc = c.pc /\ call'[p].e = c.e /\ call'[p].m = c.m /\ call'[p].to = c.to
         /\ call'[p].state = c.state /\ call'[p].guid = c.guid
         /\ \A q \in Callers : q # p => call'[q] = call[q]
<1>1. call \in [Callers -> Call]
  BY DEF TypeOK
<1>2. [c EXCEPT !.n = call[p].n] \in Call
  BY <1>1 DEF Call
<1>3. call'[p] = [c EXCEPT !.n = call[p].n]
  BY <1>1 DEF Goes
<1> QED BY <1>1, <1>2, <1>3 DEF Goes, Call

LEMMA EndsOk ==
  ASSUME TypeOK, NEW p \in Callers, Ends(p)
  PROVE  /\ call' \in [Callers -> Call] /\ call'[p].pc = "idle"
         /\ \A q \in Callers : q # p => call'[q] = call[q]
<1>1. call \in [Callers -> Call]
  BY DEF TypeOK
<1>2. [Idle EXCEPT !.n = call[p].n + 1] \in Call
  BY <1>1, IdleOk DEF Call
<1>3. call'[p] = [Idle EXCEPT !.n = call[p].n + 1]
  BY <1>1 DEF Ends
<1> QED BY <1>1, <1>2, <1>3, IdleOk DEF Ends, Call

\* An idle caller holds nothing.
LEMMA IdleHolds ==
  ASSUME NEW p, NEW c, c.pc = "idle" PROVE Holds(p, c)
BY DEF Holds, OnEpisode, Carrying, Locking

\* Rows and appearances only come into being, and a proposal stays one.
Grows ==
  /\ \A e \in Episodes : Exists(e) => Exists(e)'
  /\ \A e \in Episodes, m \in Members :
       /\ appearance[e][m].status # "none" => appearance'[e][m].status # "none"
       /\ appearance[e][m].proposed => appearance'[e][m].proposed

\* The identities of the feed's items: what is new has none, or is the same.
KeepsIds ==
  \A e \in Episodes : Exists(e)' =>
    \/ episode'[e].guid = NoGuid
    \/ Exists(e) /\ episode'[e].guid = episode[e].guid /\ episode'[e].feed = episode[e].feed

\* What a step of p asks of the calls: those of the others are left alone, and
\* p takes no lock.
Steps(p) ==
  /\ \A q \in Callers : q # p => call'[q] = call[q]
  /\ call'[p].pc \notin Locking
  /\ Grows
  /\ KeepsIds \/ call[p].pc \in Locking

LEMMA StepsKeep ==
  ASSUME Inv, NEW p \in Callers, Steps(p), Holds(p, call[p])'
  PROVE  Fitting' /\ OneImport' /\ ImportNeverCollides'
<1>1. Fitting'
  <2> SUFFICES ASSUME NEW q \in Callers, q # p PROVE Holds(q, call[q])'
    BY DEF Fitting
  <2>1. Holds(q, call[q]) /\ call'[q] = call[q]
    BY DEF Inv, Fitting, Steps
  <2>2. PICK c \in Call : c = call[q]
    BY DEF Inv, TypeOK
  <2>3. Holds(q, c)
    BY <2>1, <2>2
  <2>4. c.pc \in OnEpisode => Exists(c.e)'
    BY <2>3 DEF Holds, Steps, Grows
  <2>5. c.pc = "accept" => appearance'[c.e][c.m].proposed
    BY <2>3 DEF Holds, Steps, Grows, OnEpisode
  <2>6. c.pc = "review" => appearance'[c.e][Candidate].status # "none"
    BY <2>3, Actors DEF Holds, Steps, Grows, OnEpisode
  <2>7. Holds(q, c)'
    BY <2>3, <2>4, <2>5, <2>6 DEF Holds
  <2> QED BY <2>1, <2>2, <2>7
<1>2. OneImport'
  BY Actors DEF Inv, OneImport, Steps
<1>3. ImportNeverCollides'
  <2> SUFFICES ASSUME NEW i \in Importers, call'[i].pc \in {"attach", "insert"},
                      NEW e \in Episodes, Exists(e)', episode'[e].guid = call'[i].guid,
                      episode'[e].feed = call'[i].feed
               PROVE  FALSE
    BY DEF ImportNeverCollides, ByGuid
  <2>1. i \in Callers /\ i # p /\ call'[i] = call[i]
    BY Actors DEF Steps, Locking
  <2>2. call[i].guid \in Guids /\ call[i].guid # NoGuid
    BY <2>1, PublicationAssumption DEF Inv, Fitting, Holds, Locking
  <2>3. CASE call[p].pc \in Locking
    <3>1. p \in Importers
      BY <2>3 DEF Inv, Fitting, Holds
    <3> QED BY <2>1, <2>3, <3>1 DEF Inv, OneImport, Locking
  <2>4. CASE KeepsIds
    <3>1. Exists(e) /\ episode[e].guid = call[i].guid /\ episode[e].feed = call[i].feed
      BY <2>1, <2>2, <2>4 DEF KeepsIds
    <3> QED BY <2>1, <3>1 DEF Inv, ImportNeverCollides, ByGuid
  <2> QED BY <2>3, <2>4 DEF Steps
<1> QED BY <1>1, <1>2, <1>3

\* A step that only reads and takes no lock.
LEMMA MovesOk ==
  ASSUME Inv, NEW p \in Callers, NEW c \in Call, Goes(p, c), Reads,
         Holds(p, c), c.pc \notin Locking
  PROVE  Inv'
<1>0. TypeOK
  BY DEF Inv
<1>1. /\ call' \in [Callers -> Call]
      /\ call'[p].pc = c.pc /\ call'[p].e = c.e /\ call'[p].m = c.m /\ call'[p].to = c.to
      /\ call'[p].state = c.state /\ call'[p].guid = c.guid
      /\ \A q \in Callers : q # p => call'[q] = call[q]
  BY <1>0, GoesOk
<1>2. /\ cast' = cast /\ episode' = episode /\ appearance' = appearance
      /\ approvals' = approvals /\ recording' = recording /\ app' = app /\ feeds' = feeds
  BY DEF Reads
<1>3. TypeOK'
  BY <1>0, <1>1, <1>2 DEF TypeOK
<1>4. Steps(p)
  BY <1>1, <1>2 DEF Steps, Grows, KeepsIds, Exists
<1>5. Holds(p, call[p])'
  BY <1>1, <1>2 DEF Holds, Exists
<1>6. Fitting' /\ OneImport' /\ ImportNeverCollides'
  BY <1>4, <1>5, StepsKeep
<1>7. Rows' /\ Guests' /\ LinkedHasGuest' /\ StaffTookPart'
  BY <1>2 DEF Inv, Rows, Guests, LinkedHasGuest, StaffTookPart, Exists
<1> QED BY <1>3, <1>6, <1>7 DEF Inv

\* A caller that returns leaves no call behind.
LEMMA ReturnsOk ==
  ASSUME Inv, NEW p \in Callers, Ends(p), Grows, KeepsIds \/ call[p].pc \in Locking
  PROVE  /\ call' \in [Callers -> Call]
         /\ Fitting' /\ OneImport' /\ ImportNeverCollides'
<1>1. /\ call' \in [Callers -> Call] /\ call'[p].pc = "idle"
      /\ \A q \in Callers : q # p => call'[q] = call[q]
  BY EndsOk DEF Inv
<1>2. Steps(p)
  BY <1>1 DEF Steps, Locking
<1>3. Holds(p, call[p])'
  BY <1>1 DEF Holds, OnEpisode, Carrying, Locking
<1> QED BY <1>1, <1>2, <1>3, StepsKeep

\* A caller that goes on after a write, with what it may hold by then.
LEMMA GoesOnOk ==
  ASSUME Inv, NEW p \in Callers, NEW c \in Call, Goes(p, c), c.pc \notin Locking,
         Grows, KeepsIds, Holds(p, c)'
  PROVE  /\ call' \in [Callers -> Call]
         /\ Fitting' /\ OneImport' /\ ImportNeverCollides'
<1>1. /\ call' \in [Callers -> Call]
      /\ call'[p].pc = c.pc /\ call'[p].e = c.e /\ call'[p].m = c.m /\ call'[p].to = c.to
      /\ call'[p].state = c.state /\ call'[p].guid = c.guid
      /\ \A q \in Callers : q # p => call'[q] = call[q]
  BY GoesOk DEF Inv
<1>2. Steps(p)
  BY <1>1 DEF Steps
<1>3. Holds(p, call[p])'
  BY <1>1 DEF Holds
<1> QED BY <1>1, <1>2, <1>3, StepsKeep

\* One row is written: with a content, never back to "none".
LEMMA EpisodeOk ==
  ASSUME Inv, NEW e \in Episodes, NEW r \in Row, r.state # "none", r.content \in Contents,
         episode' = [episode EXCEPT ![e] = r], appearance' = appearance, app' = app
  PROVE  /\ episode' \in [Episodes -> Row]
         /\ Rows' /\ Guests' /\ LinkedHasGuest' /\ StaffTookPart' /\ Grows /\ Exists(e)'
         /\ \/ r.guid = NoGuid
            \/ Exists(e) /\ r.guid = episode[e].guid /\ r.feed = episode[e].feed
            => KeepsIds
<1>0. episode \in [Episodes -> Row]
  BY DEF Inv, TypeOK
<1>1. /\ episode' \in [Episodes -> Row] /\ episode'[e] = r
      /\ \A d \in Episodes : d # e => episode'[d] = episode[d]
  BY <1>0
<1>2. \A d \in Episodes : Exists(d) => Exists(d)'
  BY <1>1 DEF Exists
<1>3. Rows'
  BY <1>1 DEF Inv, Rows, Exists
<1>4. Guests'
  BY <1>2 DEF Inv, Guests
<1>5. Grows /\ Exists(e)'
  BY <1>1, <1>2 DEF Grows, Exists
<1>6. LinkedHasGuest' /\ StaffTookPart'
  BY DEF Inv, LinkedHasGuest, StaffTookPart
<1>7. ASSUME \/ r.guid = NoGuid
             \/ Exists(e) /\ r.guid = episode[e].guid /\ r.feed = episode[e].feed
      PROVE  KeepsIds
  BY <1>1, <1>7 DEF KeepsIds, Exists
<1> QED BY <1>1, <1>3, <1>4, <1>5, <1>6, <1>7

\* One appearance is written, of an episode that exists.
LEMMA AppearanceOk ==
  ASSUME Inv, NEW e \in Episodes, NEW m \in Members, NEW a \in Appearance, Exists(e),
         a.status # "none", a.status = "PENDING_MEMBER" => a.proposed,
         a.status = "CONFIRMED" => a.proposed \/ a.verified = "staff",
         appearance[e][m].proposed => a.proposed,
         SetAppearance(e, m, a)
  PROVE  /\ appearance' \in [Episodes -> [Members -> Appearance]]
         /\ Rows' /\ Guests' /\ LinkedHasGuest' /\ StaffTookPart' /\ Grows /\ KeepsIds
         /\ appearance'[e][m] = a /\ Exists(e)'
<1>0. appearance \in [Episodes -> [Members -> Appearance]]
  BY DEF Inv, TypeOK
<1>1. /\ appearance' \in [Episodes -> [Members -> Appearance]] /\ appearance'[e][m] = a
      /\ \A d \in Episodes, l \in Members : d # e \/ l # m => appearance'[d][l] = appearance[d][l]
  BY <1>0 DEF SetAppearance
<1>2. episode' = episode /\ app' = app
  BY DEF SetAppearance
<1>3. Grows
  BY <1>1, <1>2 DEF Grows, Exists
<1>4. Rows' /\ KeepsIds /\ Exists(e)'
  BY <1>2 DEF Inv, Rows, KeepsIds, Exists
<1>5. Guests'
  BY <1>1, <1>2 DEF Inv, Guests, Exists
<1>6. StaffTookPart'
  BY <1>1 DEF Inv, StaffTookPart
<1>7. LinkedHasGuest'
  <2>1. app.episode \in Episodes \cup {NoEpisode} /\ Candidate \in Members
    BY Actors DEF Inv, TypeOK, Application
  <2> QED BY <1>2, <1>3, <2>1 DEF Inv, LinkedHasGuest, Grows
<1> QED BY <1>1, <1>3, <1>4, <1>5, <1>6, <1>7

\* An episode and its appearances are left alone.
LEMMA QuietOk ==
  ASSUME Inv, episode' = episode, appearance' = appearance
  PROVE  Rows' /\ Guests' /\ StaffTookPart' /\ Grows /\ KeepsIds
BY DEF Inv, Rows, Guests, StaffTookPart, Grows, KeepsIds, Exists

-----------------------------------------------------------------------------
(***************************************************************************)
(* The catalogue.                                                          *)
(***************************************************************************)
LEMMA CreateKeeps ==
  ASSUME Inv, NEW s \in Staff, NEW e \in Episodes, NEW c \in Drafts,
         NEW state \in States \ {"none"}, CreateEpisode(s, e, c, state)
  PROVE  Inv'
<1>0. s \in Callers /\ c \in Contents
  BY Actors, DraftOk
<1>1. PICK r : r = [NoRow EXCEPT !.state = state, !.content = c]
  OBVIOUS
<1>2. r \in Row /\ r.state # "none" /\ r.content \in Contents /\ r.guid = NoGuid
  BY <1>0, <1>1, NoRowOk DEF Row
<1>3. episode' = [episode EXCEPT ![e] = r] /\ appearance' = appearance /\ app' = app
  BY <1>1 DEF CreateEpisode
<1>4. /\ episode' \in [Episodes -> Row]
      /\ Rows' /\ Guests' /\ LinkedHasGuest' /\ StaffTookPart' /\ Grows /\ KeepsIds
  BY <1>2, <1>3, EpisodeOk
<1>5. call' \in [Callers -> Call] /\ Fitting' /\ OneImport' /\ ImportNeverCollides'
  BY <1>0, <1>4, ReturnsOk DEF CreateEpisode
<1>6. TypeOK'
  BY <1>4, <1>5 DEF CreateEpisode, Inv, TypeOK
<1> QED BY <1>4, <1>5, <1>6 DEF Inv

\* What updatePodcastEpisode goes on with.
LEMMA UpdateOk ==
  ASSUME Inv, NEW p, NEW e \in Episodes, Exists(e), NEW c \in Contents,
         NEW fields \in SUBSET Fields, NEW state \in (States \ {"none"}) \cup {"keep"}
  PROVE  /\ Update(e, c, fields, state) \in Call
         /\ Holds(p, Update(e, c, fields, state))
         /\ Update(e, c, fields, state).pc \notin Locking
<1> DEFINE to == Merged(c, fields, episode[e].content)
           over == episode[e].over
           pc == IF Gated(e, fields, state) THEN "guests" ELSE "update"
           u == [Idle EXCEPT !.pc = pc, !.e = e, !.to = to, !.fields = fields,
                             !.state = state, !.over = over]
<1>1. to \in Contents /\ over \in SUBSET Fields
  BY MergedOk DEF Inv, Rows, TypeOK, Row
<1>2. Update(e, c, fields, state) = u
  BY DEF Update
<1>3. pc \in {"guests", "update"}
  OBVIOUS
<1> HIDE DEF to, over, pc
<1>4. u \in Call
  BY <1>1, <1>3, IdleOk DEF Call
<1>5. u.pc = pc /\ u.e = e /\ u.to = to /\ u.state = state
  BY DEF Idle
<1>6. state # "none"
  BY DEF States
<1>7. Holds(p, u) /\ u.pc \notin Locking
  <2> HIDE DEF u
  <2>1. u.pc \in {"guests", "update"}
    BY <1>3, <1>5
  <2> QED BY <1>1, <1>5, <1>6, <2>1 DEF Holds, OnEpisode, Carrying, Locking
<1> QED BY <1>2, <1>4, <1>7

LEMMA BeginUpdateKeeps ==
  ASSUME Inv, NEW s \in Staff, NEW e \in Episodes, NEW c \in Drafts, NEW fields \in SUBSET Given,
         NEW state \in {"keep", "DRAFT", "PUBLISHED", "REMOVED"}, BeginUpdate(s, e, c, fields, state)
  PROVE  Inv'
<1>1. s \in Callers /\ c \in Contents /\ fields \in SUBSET Fields
      /\ state \in (States \ {"none"}) \cup {"keep"} /\ Exists(e)
  BY Actors, DraftOk DEF Given, Fields, States, BeginUpdate
<1>2. PICK u : u = Update(e, c, fields, state)
  OBVIOUS
<1>3. u \in Call /\ Holds(s, u) /\ u.pc \notin Locking
  BY <1>1, <1>2, UpdateOk
<1> QED BY <1>1, <1>2, <1>3, MovesOk DEF BeginUpdate

\* What the gate of an update reads.
LEMMA GateKeeps ==
  ASSUME Inv, NEW s \in Staff,
         \/ ReadGuests(s) \/ ReadLink(s) \/ ReadCandidate(s)
         \/ \E m \in Members : ReadApproval(s, m)
  PROVE  Inv'
<1>1. /\ s \in Callers /\ call[s] \in Call /\ Holds(s, call[s])
      /\ call[s].pc \in {"guests", "gate", "linked"}
  BY Actors DEF Inv, Fitting, TypeOK, ReadGuests, ReadApproval, ReadLink, ReadCandidate, At
<1>2. PICK c \in Call : c = call[s]
  BY <1>1
<1>3. c.e \in Episodes /\ Exists(c.e) /\ c.to \in Contents /\ c.state # "none" /\ Holds(s, c)
  BY <1>1, <1>2 DEF Holds, OnEpisode, Carrying
<1>4. ASSUME NEW pc \in {"gate", "linked", "update"}, NEW guests \in SUBSET Members,
             Goes(s, [call[s] EXCEPT !.pc = pc, !.guests = guests]), Reads
      PROVE  Inv'
  <2>1. PICK d : d = [c EXCEPT !.pc = pc, !.guests = guests]
    OBVIOUS
  <2>2. /\ d \in Call /\ d.pc = pc /\ d.e = c.e /\ d.to = c.to /\ d.state = c.state
    BY <2>1 DEF Call
  <2>3. Holds(s, d) /\ d.pc \notin Locking
    BY <1>3, <2>2 DEF Holds, OnEpisode, Carrying, Locking
  <2> QED BY <1>1, <1>2, <1>4, <2>1, <2>2, <2>3, MovesOk
<1>5. CASE ReadGuests(s)
  <2>1. Confirmed(call[s].e) \in SUBSET Members
    BY DEF Confirmed
  <2> QED BY <1>4, <1>5, <2>1 DEF ReadGuests
<1>6. call[s].guests \in SUBSET Members
  BY <1>1 DEF Call
<1>7. ASSUME NEW m \in Members, ReadApproval(s, m)
      PROVE  Inv'
  <2> DEFINE guests == call[s].guests \ {m}
  <2>1. guests \in SUBSET Members
    BY <1>6
  <2>2. Reads /\ Goes(s, [call[s] EXCEPT !.pc = "gate", !.guests = guests])
    <3>1. /\ Reads /\ call[s].pc = "gate"
          /\ Goes(s, [call[s] EXCEPT !.guests = call[s].guests \ {m}])
      BY <1>7 DEF ReadApproval, At
    <3>2. [call[s] EXCEPT !.guests = guests] = [call[s] EXCEPT !.pc = "gate", !.guests = guests]
      BY <1>1, <3>1 DEF Call
    <3> QED BY <3>1, <3>2
  <2> HIDE DEF guests
  <2> QED BY <1>4, <2>1, <2>2
<1>8. ASSUME NEW pc \in {"linked", "update"}, Goes(s, [call[s] EXCEPT !.pc = pc]), Reads
      PROVE  Inv'
  <2>1. [call[s] EXCEPT !.pc = pc] = [call[s] EXCEPT !.pc = pc, !.guests = call[s].guests]
    BY <1>1 DEF Call
  <2> QED BY <1>4, <1>6, <1>8, <2>1
<1>9. CASE ReadLink(s)
  <2> DEFINE pc == IF Linked(call[s].e) THEN "linked" ELSE "update"
  <2>1. pc \in {"linked", "update"} /\ Reads
    BY <1>9 DEF ReadLink
  <2>2. Goes(s, [call[s] EXCEPT !.pc = pc])
    BY <1>9 DEF ReadLink
  <2> HIDE DEF pc
  <2> QED BY <1>8, <2>1, <2>2
<1>10. CASE ReadCandidate(s)
  BY <1>8, <1>10 DEF ReadCandidate
<1> QED BY <1>5, <1>7, <1>9, <1>10

LEMMA UpdateEpisodeKeeps ==
  ASSUME Inv, NEW s \in Staff, UpdateEpisode(s)
  PROVE  Inv'
<1>1. /\ s \in Callers /\ call[s] \in Call /\ Holds(s, call[s]) /\ call[s].pc = "update"
  BY Actors DEF Inv, Fitting, TypeOK, UpdateEpisode, At
<1>2. PICK e \in Episodes : e = call[s].e
  BY <1>1 DEF Holds, OnEpisode
<1>3. /\ Exists(e) /\ call[s].to \in Contents /\ call[s].state # "none"
      /\ call[s].state \in States \cup {"keep"} /\ call[s].over \cup call[s].fields \in SUBSET Fields
  BY <1>1, <1>2 DEF Holds, OnEpisode, Carrying, Call
<1>4. episode \in [Episodes -> Row] /\ episode[e] \in Row /\ episode[e].content \in Contents
  BY <1>3 DEF Inv, TypeOK, Rows
<1>5. Merged(call[s].to, call[s].fields, episode[e].content) \in Contents
  BY <1>3, <1>4, MergedOk
<1>6. PICK r : r = [episode[e] EXCEPT
                     !.content = Merged(call[s].to, call[s].fields, @),
                     !.state = IF call[s].state = "keep" THEN @ ELSE call[s].state,
                     !.over = call[s].over \cup call[s].fields]
  OBVIOUS
<1>7. /\ r \in Row /\ r.state # "none" /\ r.content \in Contents
      /\ r.guid = episode[e].guid /\ r.feed = episode[e].feed
  BY <1>3, <1>4, <1>5, <1>6 DEF Row, Exists
<1>8. episode' = [episode EXCEPT ![e] = r] /\ appearance' = appearance /\ app' = app
  BY <1>2, <1>4, <1>6 DEF UpdateEpisode
<1>9. /\ episode' \in [Episodes -> Row]
      /\ Rows' /\ Guests' /\ LinkedHasGuest' /\ StaffTookPart' /\ Grows /\ KeepsIds
  BY <1>3, <1>7, <1>8, EpisodeOk
<1>10. call' \in [Callers -> Call] /\ Fitting' /\ OneImport' /\ ImportNeverCollides'
  BY <1>1, <1>9, ReturnsOk DEF UpdateEpisode
<1>11. TypeOK'
  BY <1>9, <1>10 DEF UpdateEpisode, Inv, TypeOK
<1> QED BY <1>9, <1>10, <1>11 DEF Inv

LEMMA BeginSetSpotifyKeeps ==
  ASSUME Inv, NEW s \in Staff, NEW e \in Episodes, NEW url \in Choice["spotify"],
         BeginSetSpotify(s, e, url)
  PROVE  Inv'
<1>1. s \in Callers /\ Exists(e) /\ episode[e].content \in Contents
  BY Actors DEF BeginSetSpotify, Inv, Rows
<1>2. PICK c \in Contents : c = [episode[e].content EXCEPT !["spotify"] = url]
  BY <1>1, SpotifyOk
<1>3. PICK u : u = Update(e, c, {"spotify"}, "keep")
  OBVIOUS
<1>4. PICK fields \in SUBSET Fields : fields = {"spotify"}
  BY DEF Fields
<1>5. PICK state \in (States \ {"none"}) \cup {"keep"} : state = "keep"
  OBVIOUS
<1>6. u \in Call /\ Holds(s, u) /\ u.pc \in {"guests", "update"}
  <2>1. u = Update(e, c, fields, state)
    BY <1>3, <1>4, <1>5
  <2>2. u.pc \in {"guests", "update"}
    BY <2>1 DEF Update, Idle
  <2> QED BY <1>1, <2>1, <2>2, UpdateOk
<1>7. PICK d : d = [u EXCEPT !.pc = "update"]
  OBVIOUS
<1>8. d \in Call /\ d.pc = "update" /\ d.e = u.e /\ d.to = u.to /\ d.state = u.state
  BY <1>6, <1>7 DEF Call
<1>9. Holds(s, d) /\ d.pc \notin Locking
  BY <1>6, <1>8 DEF Holds, OnEpisode, Carrying, Locking
<1>10. Goes(s, d) /\ Reads
  BY <1>2, <1>3, <1>7 DEF BeginSetSpotify
<1> QED BY <1>1, <1>8, <1>9, <1>10, MovesOk

LEMMA PublishKeeps ==
  ASSUME Inv, NEW s \in Staff, BeginPublish(s) \/ Publish(s)
  PROVE  Inv'
<1>0. s \in Callers
  BY Actors
<1>1. CASE BeginPublish(s)
  <2>1. PICK e \in Episodes : e = app.episode
    BY <1>1 DEF BeginPublish, Inv, TypeOK, Application
  <2>2. Exists(e)
    BY <2>1, Actors, PublicationAssumption DEF Inv, LinkedHasGuest, Guests
  <2>3. PICK c : c = [Idle EXCEPT !.pc = "publish", !.e = e]
    OBVIOUS
  <2>4. c \in Call /\ c.pc = "publish" /\ c.e = e
    BY <2>3, IdleOk DEF Call
  <2>5. Holds(s, c) /\ c.pc \notin Locking
    BY <2>2, <2>4 DEF Holds, OnEpisode, Carrying, Locking
  <2>6. Goes(s, c) /\ Reads
    BY <1>1, <2>1, <2>3 DEF BeginPublish
  <2> QED BY <1>0, <2>4, <2>5, <2>6, MovesOk
<1>2. CASE Publish(s)
  <2>1. Holds(s, call[s]) /\ call[s].pc = "publish"
    BY <1>0, <1>2 DEF Publish, At, Inv, Fitting
  <2>2. PICK e \in Episodes : e = call[s].e /\ Exists(e)
    BY <2>1 DEF Holds, OnEpisode
  <2>3. PICK c \in Contents : c = episode[e].content
    BY <2>2 DEF Inv, Rows
  <2>4. PICK fields \in SUBSET Fields : fields = {}
    OBVIOUS
  <2>5. PICK state \in (States \ {"none"}) \cup {"keep"} : state = "PUBLISHED"
    BY DEF States
  <2>6. PICK u : u = Update(e, c, fields, state)
    OBVIOUS
  <2>7. u \in Call /\ Holds(s, u) /\ u.pc \notin Locking
    BY <2>2, <2>6, UpdateOk
  <2>8. Goes(s, u) /\ Reads
    BY <1>2, <2>2, <2>3, <2>4, <2>5, <2>6 DEF Publish
  <2> QED BY <1>0, <2>7, <2>8, MovesOk
<1> QED BY <1>1, <1>2

-----------------------------------------------------------------------------
(***************************************************************************)
(* Appearances.                                                            *)
(***************************************************************************)
\* An appearance that is written leads to a state of the invariant again.
LEMMA SetKeeps ==
  ASSUME Inv, NEW p \in Callers, Ends(p), NEW e \in Episodes, NEW m \in Members,
         NEW a \in Appearance, SetAppearance(e, m, a), Exists(e),
         a.status # "none", a.status = "PENDING_MEMBER" => a.proposed,
         a.status = "CONFIRMED" => a.proposed \/ a.verified = "staff",
         appearance[e][m].proposed => a.proposed
  PROVE  Inv'
<1>1. /\ appearance' \in [Episodes -> [Members -> Appearance]]
      /\ Rows' /\ Guests' /\ LinkedHasGuest' /\ StaffTookPart' /\ Grows /\ KeepsIds
  BY AppearanceOk
<1>2. call' \in [Callers -> Call] /\ Fitting' /\ OneImport' /\ ImportNeverCollides'
  BY <1>1, ReturnsOk
<1>3. TypeOK'
  BY <1>1, <1>2 DEF SetAppearance, Inv, TypeOK
<1> QED BY <1>1, <1>2, <1>3 DEF Inv

LEMMA RequestAppearanceKeeps ==
  ASSUME Inv, NEW m \in Members, NEW e \in Episodes, RequestAppearance(m, e)
  PROVE  Inv'
<1>1. m \in Callers /\ appearance[e][m] \in Appearance /\ Exists(e)
  BY Actors DEF Inv, TypeOK, RequestAppearance, Exists
<1>2. PICK a : a = [appearance[e][m] EXCEPT !.status = "PENDING_ADMIN", !.verified = "no"]
  OBVIOUS
<1>3. a \in Appearance /\ a.status = "PENDING_ADMIN" /\ a.proposed = appearance[e][m].proposed
  BY <1>1, <1>2 DEF Appearance
<1> QED BY <1>1, <1>2, <1>3, SetKeeps DEF RequestAppearance

LEMMA ProposeAppearanceKeeps ==
  ASSUME Inv, NEW s \in Staff, NEW m \in Members, NEW e \in Episodes, ProposeAppearance(s, e, m)
  PROVE  Inv'
<1>1. s \in Callers /\ Exists(e)
  BY Actors DEF ProposeAppearance
<1>2. PICK a : a = [status |-> "PENDING_MEMBER", verified |-> "no", proposed |-> TRUE]
  OBVIOUS
<1>3. a \in Appearance /\ a.status = "PENDING_MEMBER" /\ a.proposed
  BY <1>2 DEF Appearance
<1> QED BY <1>1, <1>2, <1>3, SetKeeps DEF ProposeAppearance

LEMMA RejectAppearanceKeeps ==
  ASSUME Inv, NEW p \in Callers, NEW m \in Members, NEW e \in Episodes, RejectAppearance(p, e, m)
  PROVE  Inv'
<1>1. appearance[e][m] \in Appearance /\ Exists(e)
  BY DEF Inv, TypeOK, Guests, RejectAppearance
<1>2. PICK a : a = [appearance[e][m] EXCEPT !.status = "REJECTED"]
  OBVIOUS
<1>3. a \in Appearance /\ a.status = "REJECTED" /\ a.proposed = appearance[e][m].proposed
  BY <1>1, <1>2 DEF Appearance
<1> QED BY <1>1, <1>2, <1>3, SetKeeps DEF RejectAppearance

\* What adminVerifyAppearance and memberAcceptAppearance read.
LEMMA BeginConfirmKeeps ==
  ASSUME Inv, NEW p \in Callers, NEW m \in Members, NEW e \in Episodes,
         BeginVerify(p, e, m) \/ (p = m /\ BeginAccept(p, e))
  PROVE  Inv'
<1>1. PICK pc \in {"verify", "accept"} :
        /\ Goes(p, [Idle EXCEPT !.pc = pc, !.e = e, !.m = m]) /\ Reads
        /\ appearance[e][m].status # "none"
        /\ pc = "accept" => appearance[e][m].status = "PENDING_MEMBER"
  BY DEF BeginVerify, BeginAccept
<1>2. Exists(e) /\ (pc = "accept" => appearance[e][m].proposed)
  BY <1>1 DEF Inv, Guests
<1>3. PICK c : c = [Idle EXCEPT !.pc = pc, !.e = e, !.m = m]
  OBVIOUS
<1>4. c \in Call /\ c.pc = pc /\ c.e = e /\ c.m = m
  BY <1>3, IdleOk DEF Call
<1>5. Holds(p, c) /\ c.pc \notin Locking
  BY <1>2, <1>4 DEF Holds, OnEpisode, Carrying, Locking
<1> QED BY <1>1, <1>3, <1>4, <1>5, MovesOk

LEMMA ConfirmKeeps ==
  ASSUME Inv, NEW p \in Callers, Confirm(p)
  PROVE  Inv'
<1>1. Holds(p, call[p]) /\ call[p].pc \in {"verify", "accept"}
  BY DEF Inv, Fitting, Confirm
<1>2. PICK e \in Episodes : e = call[p].e
  BY <1>1 DEF Holds, OnEpisode
<1>3. PICK m \in Members : m = call[p].m
  BY <1>1 DEF Holds
<1>4. Exists(e) /\ (call[p].pc = "accept" => appearance[e][m].proposed)
  BY <1>1, <1>2, <1>3 DEF Holds, OnEpisode
<1>5. PICK who \in {"staff", "accept"} : who = IF At(p, "verify") THEN "staff" ELSE "accept"
  OBVIOUS
<1>6. PICK a : a = [appearance[e][m] EXCEPT !.status = "CONFIRMED", !.verified = who]
  OBVIOUS
<1>7. /\ a \in Appearance /\ a.status = "CONFIRMED" /\ a.verified = who
      /\ a.proposed = appearance[e][m].proposed
  <2>1. appearance[e][m] \in Appearance
    BY DEF Inv, TypeOK
  <2> QED BY <1>6, <2>1 DEF Appearance
<1>8. SetAppearance(e, m, a) /\ Ends(p)
  BY <1>2, <1>3, <1>5, <1>6 DEF Confirm
<1>9. a.proposed \/ a.verified = "staff"
  BY <1>1, <1>4, <1>5, <1>7 DEF At
<1> QED BY <1>4, <1>7, <1>8, <1>9, SetKeeps

-----------------------------------------------------------------------------
(***************************************************************************)
(* Acceptances and the configuration of the feed.                          *)
(***************************************************************************)
\* Neither episodes, appearances nor the application change.
LEMMA AsideOk ==
  ASSUME Inv, NEW p \in Callers, Ends(p),
         episode' = episode, appearance' = appearance, app' = app
  PROVE  /\ call' \in [Callers -> Call] /\ Fitting' /\ OneImport' /\ ImportNeverCollides'
         /\ Rows' /\ Guests' /\ LinkedHasGuest' /\ StaffTookPart'
<1>1. Rows' /\ Guests' /\ StaffTookPart' /\ Grows /\ KeepsIds
  BY QuietOk
<1>2. LinkedHasGuest'
  BY DEF Inv, LinkedHasGuest
<1> QED BY <1>1, <1>2, ReturnsOk

LEMMA SaveFeedUrlKeeps ==
  ASSUME Inv, NEW s \in Staff, SaveFeedUrl(s)
  PROVE  Inv'
<1>0. s \in Callers
  BY Actors
<1>1. episode' = episode /\ appearance' = appearance /\ app' = app /\ Ends(s) /\ feeds' \in Nat
  BY DEF SaveFeedUrl
<1>2. /\ call' \in [Callers -> Call] /\ Fitting' /\ OneImport' /\ ImportNeverCollides'
      /\ Rows' /\ Guests' /\ LinkedHasGuest' /\ StaffTookPart'
  BY <1>0, <1>1, AsideOk
<1>3. TypeOK'
  BY <1>1, <1>2 DEF SaveFeedUrl, Inv, TypeOK
<1> QED BY <1>2, <1>3 DEF Inv

LEMMA ConsentKeeps ==
  ASSUME Inv, NEW m \in Members, NEW e \in Episodes, ConsentToRecording(m, e)
  PROVE  Inv'
<1>0. m \in Callers
  BY Actors
<1>1. episode' = episode /\ appearance' = appearance /\ app' = app /\ Ends(m)
  BY DEF ConsentToRecording
<1>2. recording' \subseteq Episodes \X Members
  BY DEF ConsentToRecording, Inv, TypeOK
<1>3. /\ call' \in [Callers -> Call] /\ Fitting' /\ OneImport' /\ ImportNeverCollides'
      /\ Rows' /\ Guests' /\ LinkedHasGuest' /\ StaffTookPart'
  BY <1>0, <1>1, AsideOk
<1>4. TypeOK'
  BY <1>1, <1>2, <1>3 DEF ConsentToRecording, Inv, TypeOK
<1> QED BY <1>3, <1>4 DEF Inv

LEMMA WithdrawApprovalKeeps ==
  ASSUME Inv, NEW m \in Members, NEW e \in Episodes, NEW n \in 1..MaxApprovals,
         WithdrawApproval(m, e, n)
  PROVE  Inv'
<1>0. m \in Callers /\ approvals[e][m] \in Seq(Acceptance)
  BY Actors DEF Inv, TypeOK
<1>1. episode' = episode /\ appearance' = appearance /\ app' = app /\ Ends(m)
  BY DEF WithdrawApproval
<1>2. approvals' \in [Episodes -> [Members -> Seq(Acceptance)]]
  <2>1. n \in 1..Len(approvals[e][m]) /\ approvals[e][m][n] \in Acceptance
    BY <1>0, LenProperties DEF WithdrawApproval
  <2>2. PICK row \in Acceptance : row = [approvals[e][m][n] EXCEPT !.withdrawn = TRUE]
    BY <2>1 DEF Acceptance
  <2>3. PICK rows \in Seq(Acceptance) : rows = [approvals[e][m] EXCEPT ![n] = row]
    BY <1>0, <2>1, ExceptSeq
  <2>4. approvals' = [approvals EXCEPT ![e][m] = rows]
    BY <2>2, <2>3 DEF WithdrawApproval, Inv, TypeOK
  <2> QED BY <2>4 DEF Inv, TypeOK
<1>3. /\ call' \in [Callers -> Call] /\ Fitting' /\ OneImport' /\ ImportNeverCollides'
      /\ Rows' /\ Guests' /\ LinkedHasGuest' /\ StaffTookPart'
  BY <1>0, <1>1, AsideOk
<1>4. TypeOK'
  BY <1>1, <1>2, <1>3 DEF WithdrawApproval, Inv, TypeOK
<1> QED BY <1>3, <1>4 DEF Inv

\* A guest's approval, from the page or from the candidate's review.
LEMMA BeginApproveKeeps ==
  ASSUME Inv, NEW m \in Members,
         BeginApprove(m) \/ \E e \in Episodes : BeginApproveOwn(m, e)
  PROVE  Inv'
<1>0. m \in Callers
  BY Actors
<1>1. ASSUME NEW e \in Episodes, Exists(e), NEW c \in Call, c.pc = "approve", c.e = e,
             c.to = episode[e].content, Goes(m, c), Reads
      PROVE  Inv'
  <2>1. Holds(m, c) /\ c.pc \notin Locking
    BY <1>1 DEF Inv, Rows, Holds, OnEpisode, Carrying, Locking
  <2> QED BY <1>0, <1>1, <2>1, MovesOk
<1>2. ASSUME NEW e \in Episodes, BeginApproveOwn(m, e) PROVE Inv'
  <2>1. Exists(e)
    BY <1>2 DEF BeginApproveOwn, Confirmed, Inv, Guests
  <2>2. PICK to \in Contents : to = episode[e].content
    BY <2>1 DEF Inv, Rows
  <2>3. PICK c : c = [Idle EXCEPT !.pc = "approve", !.e = e, !.m = m, !.to = to]
    OBVIOUS
  <2>4. c \in Call /\ c.pc = "approve" /\ c.e = e /\ c.to = to
    BY <2>3, IdleOk DEF Call
  <2> QED BY <1>1, <1>2, <2>1, <2>2, <2>3, <2>4 DEF BeginApproveOwn
<1>3. CASE BeginApprove(m)
  <2>1. PICK e \in Episodes : e = app.episode
    BY <1>3 DEF BeginApprove, Inv, TypeOK, Application
  <2>2. Exists(e)
    BY <2>1, Actors, PublicationAssumption DEF Inv, LinkedHasGuest, Guests
  <2>3. PICK to \in Contents : to = episode[e].content
    BY <2>2 DEF Inv, Rows
  <2>4. app.version = to /\ app.changes \in BOOLEAN
    BY <1>3, <2>1, <2>3 DEF BeginApprove, Inv, TypeOK, Application
  <2>5. PICK c : c = [Idle EXCEPT !.pc = "approve", !.e = e, !.m = m, !.to = to,
                                  !.stale = app.changes]
    OBVIOUS
  <2>6. c \in Call /\ c.pc = "approve" /\ c.e = e /\ c.to = to
    BY <2>4, <2>5, IdleOk DEF Call
  <2> QED BY <1>1, <1>3, <2>1, <2>2, <2>3, <2>4, <2>5, <2>6 DEF BeginApprove
<1> QED BY <1>2, <1>3

LEMMA RecordApprovalKeeps ==
  ASSUME Inv, NEW m \in Members, RecordApproval(m)
  PROVE  Inv'
<1>0. m \in Callers
  BY Actors
<1>1. Holds(m, call[m]) /\ call[m].pc = "approve"
  BY <1>0 DEF Inv, Fitting, RecordApproval, At
<1>2. PICK e \in Episodes : e = call[m].e
  BY <1>1 DEF Holds, OnEpisode
<1>3. call[m].to \in Contents
  BY <1>1 DEF Holds, Carrying
<1>4. approvals' \in [Episodes -> [Members -> Seq(Acceptance)]]
  <2>1. PICK row \in Acceptance : row = [version |-> call[m].to, withdrawn |-> FALSE]
    BY <1>3 DEF Acceptance
  <2>2. PICK rows \in Seq(Acceptance) : rows = Append(approvals[e][m], row)
    BY AppendProperties DEF Inv, TypeOK
  <2>3. approvals' = [approvals EXCEPT ![e][m] = rows]
    BY <1>2, <2>1, <2>2 DEF RecordApproval, Inv, TypeOK
  <2> QED BY <2>3 DEF Inv, TypeOK
<1>5. episode' = episode /\ appearance' = appearance /\ app' = app
  BY DEF RecordApproval
<1>6. Rows' /\ Guests' /\ StaffTookPart' /\ Grows /\ KeepsIds
  BY <1>5, QuietOk
<1>7. LinkedHasGuest'
  BY <1>5 DEF Inv, LinkedHasGuest
<1>8. call' \in [Callers -> Call] /\ Fitting' /\ OneImport' /\ ImportNeverCollides'
  <2>1. CASE Ends(m)
    BY <1>0, <1>6, <2>1, ReturnsOk
  <2>2. CASE Goes(m, [Idle EXCEPT !.pc = "clear"])
    <3>1. PICK c : c = [Idle EXCEPT !.pc = "clear"]
      OBVIOUS
    <3>2. c \in Call /\ c.pc = "clear"
      BY <3>1, IdleOk DEF Call
    <3>3. Holds(m, c)' /\ c.pc \notin Locking
      BY <3>2 DEF Holds, OnEpisode, Carrying, Locking
    <3> QED BY <1>0, <1>6, <2>2, <3>1, <3>2, <3>3, GoesOnOk
  <2> QED BY <2>1, <2>2 DEF RecordApproval
<1>9. TypeOK'
  BY <1>4, <1>8 DEF RecordApproval, Inv, TypeOK
<1> QED BY <1>6, <1>7, <1>8, <1>9 DEF Inv

-----------------------------------------------------------------------------
(***************************************************************************)
(* The candidate's review.                                                 *)
(***************************************************************************)
\* The application is written, linked to an episode of its candidate's or not.
LEMMA AppKeeps ==
  ASSUME Inv, NEW p \in Callers, Ends(p), app' \in Application,
         app'.episode # NoEpisode => appearance[app'.episode][Candidate].status # "none",
         UNCHANGED <<cast, episode, appearance, approvals, recording, feeds>>
  PROVE  Inv'
<1>1. /\ episode' = episode /\ appearance' = appearance /\ cast' = cast
      /\ approvals' = approvals /\ recording' = recording /\ feeds' = feeds
  OBVIOUS
<1>2. Rows' /\ Guests' /\ StaffTookPart' /\ Grows /\ KeepsIds
  BY <1>1, QuietOk
<1>3. call' \in [Callers -> Call] /\ Fitting' /\ OneImport' /\ ImportNeverCollides'
  BY <1>2, ReturnsOk
<1>4. LinkedHasGuest'
  BY <1>1 DEF LinkedHasGuest
<1>5. TypeOK'
  BY <1>1, <1>3 DEF Inv, TypeOK
<1> QED BY <1>2, <1>3, <1>4, <1>5 DEF Inv

\* Of the candidate's own writes none changes the link.
LEMMA ReviewWritesKeep ==
  ASSUME Inv, NEW m \in Members,
         ClearChanges(m) \/ RequestChanges(m) \/ Withdraw(m) \/ Reopen(m)
  PROVE  Inv'
<1>0. m \in Callers /\ app \in Application
  BY Actors DEF Inv, TypeOK
<1>1. app' \in Application /\ app'.episode = app.episode
  BY <1>0 DEF Application, ClearChanges, RequestChanges, Withdraw, Reopen
<1>2. UNCHANGED <<cast, episode, appearance, approvals, recording, feeds>> /\ Ends(m)
  BY DEF ClearChanges, RequestChanges, Withdraw, Reopen
<1>3. app'.episode # NoEpisode => appearance[app'.episode][Candidate].status # "none"
  BY <1>1 DEF Inv, LinkedHasGuest
<1> QED BY <1>0, <1>1, <1>2, <1>3, AppKeeps

LEMMA BeginReviewKeeps ==
  ASSUME Inv, NEW m \in Members, BeginChanges(m) \/ BeginWithdraw(m)
  PROVE  Inv'
<1>1. PICK pc \in {"changes", "withdraw"} : Goes(m, [Idle EXCEPT !.pc = pc]) /\ Reads
  BY DEF BeginChanges, BeginWithdraw
<1>2. PICK c : c = [Idle EXCEPT !.pc = pc]
  OBVIOUS
<1>3. c \in Call /\ c.pc = pc
  BY <1>2, IdleOk DEF Call
<1>4. Holds(m, c) /\ c.pc \notin Locking
  BY <1>3 DEF Holds, OnEpisode, Carrying, Locking
<1> QED BY <1>1, <1>2, <1>3, <1>4, Actors, MovesOk

LEMMA BeginSendKeeps ==
  ASSUME Inv, NEW h \in Hosts, NEW c \in Drafts, NEW fields \in SUBSET Given, BeginSend(h, c, fields)
  PROVE  Inv'
<1>0. h \in Callers /\ c \in Contents
  BY Actors, DraftOk
<1>1. CASE app.episode = NoEpisode
  <2>1. PICK d : d = [Idle EXCEPT !.pc = "create", !.to = c]
    OBVIOUS
  <2>2. d \in Call /\ d.pc = "create" /\ d.to = c
    BY <1>0, <2>1, IdleOk DEF Call
  <2>3. Holds(h, d) /\ d.pc \notin Locking
    BY <1>0, <2>2 DEF Holds, OnEpisode, Carrying, Locking
  <2>4. Goes(h, d) /\ Reads
    BY <1>1, <2>1 DEF BeginSend
  <2> QED BY <1>0, <2>2, <2>3, <2>4, MovesOk
<1>2. CASE app.episode # NoEpisode
  <2>1. PICK e \in Episodes : e = app.episode
    BY <1>2 DEF Inv, TypeOK, Application
  <2>2. Exists(e) /\ episode[e].content \in Contents
    BY <1>2, <2>1, Actors DEF Inv, LinkedHasGuest, Guests, Rows
  <2>3. PICK to \in Contents : to = Merged(c, fields, episode[e].content)
    BY <1>0, <2>2, MergedOk
  <2>4. PICK written \in SUBSET Fields : written = fields \cup {"link"}
    BY DEF Given, Fields
  <2>5. PICK pc \in {"appear", "edit"} : pc = IF fields = {} THEN "appear" ELSE "edit"
    OBVIOUS
  <2>6. PICK d : d = [Idle EXCEPT !.pc = pc, !.e = e, !.to = to, !.fields = written]
    OBVIOUS
  <2>7. d \in Call /\ d.pc = pc /\ d.e = e /\ d.to = to
    BY <2>6, IdleOk DEF Call
  <2>8. Holds(h, d) /\ d.pc \notin Locking
    BY <2>2, <2>7 DEF Holds, OnEpisode, Carrying, Locking
  <2>9. Goes(h, d) /\ Reads
    BY <1>2, <2>1, <2>3, <2>4, <2>5, <2>6 DEF BeginSend
  <2> QED BY <1>0, <2>7, <2>8, <2>9, MovesOk
<1> QED BY <1>1, <1>2

\* The draft that a review creates or edits is then read again.
LEMMA SendWriteKeeps ==
  ASSUME Inv, NEW h \in Hosts, SendEdit(h) \/ \E e \in Episodes : SendCreate(h, e)
  PROVE  Inv'
<1>0. h \in Callers
  BY Actors
<1>1. ASSUME NEW e \in Episodes, NEW r \in Row, r.state # "none", r.content \in Contents,
             \/ r.guid = NoGuid
             \/ Exists(e) /\ r.guid = episode[e].guid /\ r.feed = episode[e].feed,
             episode' = [episode EXCEPT ![e] = r],
             Goes(h, [Idle EXCEPT !.pc = "appear", !.e = e]),
             UNCHANGED <<cast, appearance, approvals, recording, app, feeds>>
      PROVE  Inv'
  <2>1. appearance' = appearance /\ app' = app
    BY <1>1
  <2>2. /\ episode' \in [Episodes -> Row]
        /\ Rows' /\ Guests' /\ LinkedHasGuest' /\ StaffTookPart' /\ Grows /\ KeepsIds /\ Exists(e)'
    BY <1>1, <2>1, EpisodeOk
  <2>3. PICK c : c = [Idle EXCEPT !.pc = "appear", !.e = e]
    OBVIOUS
  <2>4. c \in Call /\ c.pc = "appear" /\ c.e = e
    BY <2>3, IdleOk DEF Call
  <2>5. Holds(h, c)' /\ c.pc \notin Locking
    BY <2>2, <2>4 DEF Holds, OnEpisode, Carrying, Locking
  <2>6. call' \in [Callers -> Call] /\ Fitting' /\ OneImport' /\ ImportNeverCollides'
    BY <1>0, <1>1, <2>2, <2>3, <2>4, <2>5, GoesOnOk
  <2>7. TypeOK'
    BY <1>1, <2>2, <2>6 DEF Inv, TypeOK
  <2> QED BY <2>2, <2>6, <2>7 DEF Inv
<1>2. call[h] \in Call /\ Holds(h, call[h])
  BY <1>0 DEF Inv, TypeOK, Fitting
<1>3. ASSUME NEW e \in Episodes, SendCreate(h, e) PROVE Inv'
  <2>1. call[h].to \in Contents
    BY <1>2, <1>3 DEF SendCreate, At, Holds, Carrying
  <2>2. PICK r : r = [NoRow EXCEPT !.state = "DRAFT", !.content = call[h].to]
    OBVIOUS
  <2>3. r \in Row /\ r.state = "DRAFT" /\ r.content \in Contents /\ r.guid = NoGuid
    BY <2>1, <2>2, NoRowOk DEF Row, States
  <2> QED BY <1>1, <1>3, <2>2, <2>3 DEF SendCreate
<1>4. CASE SendEdit(h)
  <2>1. PICK e \in Episodes : e = call[h].e
    BY <1>2, <1>4 DEF SendEdit, At, Holds, OnEpisode
  <2>2. Exists(e) /\ call[h].to \in Contents
    BY <1>2, <1>4, <2>1 DEF SendEdit, At, Holds, OnEpisode, Carrying
  <2>3. episode[e] \in Row /\ episode[e].content \in Contents
    BY <2>2 DEF Inv, TypeOK, Rows
  <2>4. Merged(call[h].to, call[h].fields, episode[e].content) \in Contents
    BY <2>2, <2>3, MergedOk
  <2>5. PICK r : r = [episode[e] EXCEPT !.content = Merged(call[h].to, call[h].fields, @)]
    OBVIOUS
  <2>6. /\ r \in Row /\ r.state # "none" /\ r.content \in Contents
        /\ r.guid = episode[e].guid /\ r.feed = episode[e].feed
    BY <2>2, <2>3, <2>4, <2>5 DEF Row, Exists
  <2>7. episode' = [episode EXCEPT ![e] = r]
    BY <1>4, <2>1, <2>5 DEF SendEdit, Inv, TypeOK
  <2> QED BY <1>1, <1>4, <2>1, <2>2, <2>6, <2>7 DEF SendEdit
<1> QED BY <1>3, <1>4

LEMMA SendAppearKeeps ==
  ASSUME Inv, NEW h \in Hosts, SendAppear(h)
  PROVE  Inv'
<1>0. h \in Callers /\ Candidate \in Members /\ Holds(h, call[h])
  BY Actors DEF Inv, Fitting
<1>1. PICK e \in Episodes : e = call[h].e /\ Exists(e)
  BY <1>0 DEF SendAppear, At, Holds, OnEpisode
<1>2. appearance[e][Candidate] \in Appearance
  BY <1>0 DEF Inv, TypeOK
<1>3. PICK shown \in BOOLEAN : shown = (\/ appearance[e][Candidate].proposed
                                        \/ appearance[e][Candidate].status = "none")
  OBVIOUS
<1>4. PICK a : a = [status |-> "CONFIRMED", verified |-> "staff", proposed |-> shown]
  OBVIOUS
<1>5. a \in Appearance /\ a.status = "CONFIRMED" /\ a.verified = "staff" /\ a.proposed = shown
  BY <1>4 DEF Appearance
<1>6. SetAppearance(e, Candidate, a)
  BY <1>1, <1>3, <1>4 DEF SendAppear
<1>7. appearance[e][Candidate].proposed => a.proposed
  BY <1>3, <1>5
<1>8. /\ appearance' \in [Episodes -> [Members -> Appearance]]
      /\ Rows' /\ Guests' /\ LinkedHasGuest' /\ StaffTookPart' /\ Grows /\ KeepsIds
      /\ appearance'[e][Candidate] = a /\ Exists(e)'
  BY <1>0, <1>1, <1>5, <1>6, <1>7, AppearanceOk
<1>9. PICK to \in Contents : to = episode[e].content
  BY <1>1 DEF Inv, Rows
<1>10. PICK c : c = [Idle EXCEPT !.pc = "review", !.e = e, !.to = to]
  OBVIOUS
<1>11. c \in Call /\ c.pc = "review" /\ c.e = e
  BY <1>10, IdleOk DEF Call
<1>12. Holds(h, c)' /\ c.pc \notin Locking
  BY <1>5, <1>8, <1>11 DEF Holds, OnEpisode, Carrying, Locking
<1>13. Goes(h, c)
  BY <1>1, <1>9, <1>10 DEF SendAppear
<1>14. call' \in [Callers -> Call] /\ Fitting' /\ OneImport' /\ ImportNeverCollides'
  BY <1>0, <1>8, <1>11, <1>12, <1>13, GoesOnOk
<1>15. TypeOK'
  BY <1>6, <1>8, <1>14 DEF SetAppearance, Inv, TypeOK
<1> QED BY <1>8, <1>14, <1>15 DEF Inv

LEMMA SendReviewKeeps ==
  ASSUME Inv, NEW h \in Hosts, SendReview(h)
  PROVE  Inv'
<1>0. h \in Callers /\ call[h] \in Call /\ Holds(h, call[h]) /\ app \in Application
  BY Actors DEF Inv, Fitting, TypeOK
<1>1. /\ call[h].e \in Episodes /\ call[h].to \in Contents \cup {NoContent}
      /\ appearance[call[h].e][Candidate].status # "none"
  BY <1>0 DEF SendReview, At, Holds, OnEpisode, Call
<1>2. app' \in Application /\ app'.episode = call[h].e
  BY <1>0, <1>1 DEF SendReview, Application
<1>3. UNCHANGED <<cast, episode, appearance, approvals, recording, feeds>> /\ Ends(h)
  BY DEF SendReview
<1> QED BY <1>0, <1>1, <1>2, <1>3, AppKeeps

-----------------------------------------------------------------------------
(***************************************************************************)
(* RSS.                                                                    *)
(***************************************************************************)
LEMMA BeginImportKeeps ==
  ASSUME Inv, NEW i \in Importers, NEW g \in Guids, NEW c \in Drafts, BeginImport(i, g, c)
  PROVE  Inv'
<1>0. i \in Callers /\ c \in Contents
  BY Actors, DraftOk
<1>1. PICK feed \in Nat : feed = IF feeds = 0 THEN 0 ELSE 1
  OBVIOUS
<1>2. PICK d : d = [Idle EXCEPT !.pc = "fetched", !.guid = g, !.to = c, !.feed = feed]
  OBVIOUS
<1>3. d \in Call /\ d.pc = "fetched" /\ d.guid = g /\ d.to = c
  BY <1>0, <1>2, IdleOk DEF Call
<1>4. Holds(i, d) /\ d.pc \notin Locking
  BY <1>0, <1>3 DEF Holds, OnEpisode, Carrying, Locking
<1>5. Goes(i, d) /\ Reads
  BY <1>1, <1>2 DEF BeginImport
<1> QED BY <1>0, <1>3, <1>4, <1>5, MovesOk

LEMMA CreateFeedKeeps ==
  ASSUME Inv, NEW i \in Importers, CreateFeed(i)
  PROVE  Inv'
<1>0. i \in Callers
  BY Actors
<1>1. call[i] \in Call /\ Holds(i, call[i]) /\ call[i].pc = "fetched" /\ feeds \in Nat
  BY <1>0 DEF CreateFeed, At, Inv, TypeOK, Fitting
<1>2. PICK feed \in Nat : feed = feeds + 1
  BY <1>1
<1>3. PICK d : d = [call[i] EXCEPT !.feed = feed]
  OBVIOUS
<1>4. d \in Call /\ d.pc = "fetched" /\ d.guid = call[i].guid /\ d.to = call[i].to
  BY <1>1, <1>3 DEF Call
<1>5. Holds(i, d)' /\ d.pc \notin Locking
  BY <1>1, <1>4 DEF Holds, OnEpisode, Carrying, Locking
<1>6. episode' = episode /\ appearance' = appearance /\ app' = app /\ Goes(i, d) /\ feeds' = feed
  BY <1>2, <1>3 DEF CreateFeed
<1>7. Rows' /\ Guests' /\ StaffTookPart' /\ Grows /\ KeepsIds
  BY <1>6, QuietOk
<1>8. call' \in [Callers -> Call] /\ Fitting' /\ OneImport' /\ ImportNeverCollides'
  BY <1>0, <1>4, <1>5, <1>6, <1>7, GoesOnOk
<1>9. TypeOK' /\ LinkedHasGuest'
  BY <1>6, <1>8 DEF CreateFeed, Inv, TypeOK, LinkedHasGuest
<1> QED BY <1>7, <1>8, <1>9 DEF Inv

\* An import takes the lock when nobody holds it, and goes on to insert or to
\* attach only if its item is not there.
LEMMA FindItemKeeps ==
  ASSUME Inv, NEW i \in Importers, FindItem(i)
  PROVE  Inv'
<1>0. i \in Callers
  BY Actors
<1>1. /\ call[i] \in Call /\ Holds(i, call[i]) /\ call[i].pc = "fetched"
      /\ ~ImportLocked /\ Reads
  BY <1>0 DEF FindItem, At, Inv, TypeOK, Fitting
<1>2. call[i].to \in Contents /\ call[i].guid \in Guids
  BY <1>1 DEF Holds, Carrying
<1>3. ASSUME NEW d \in Call, Goes(i, d), d.pc \in Locking, d.to = call[i].to,
             d.guid = call[i].guid, d.feed = call[i].feed,
             d.pc # "insert" => d.e \in Episodes /\ Exists(d.e),
             d.pc # "refresh" => ByGuid(i) = {}
      PROVE  Inv'
  <2>1. Holds(i, d)
    BY <1>2, <1>3 DEF Holds, OnEpisode, Carrying, Locking
  <2>2. /\ call' \in [Callers -> Call]
        /\ call'[i].pc = d.pc /\ call'[i].e = d.e /\ call'[i].m = d.m /\ call'[i].to = d.to
        /\ call'[i].state = d.state /\ call'[i].guid = d.guid
        /\ \A q \in Callers : q # i => call'[q] = call[q]
    BY <1>0, <1>3, GoesOk DEF Inv
  <2>3. call'[i].feed = d.feed
    BY <1>0, <1>3 DEF Goes, Inv, TypeOK, Call
  <2>4. /\ cast' = cast /\ episode' = episode /\ appearance' = appearance
        /\ approvals' = approvals /\ recording' = recording /\ app' = app /\ feeds' = feeds
    BY <1>1 DEF Reads
  <2>5. TypeOK'
    BY <2>2, <2>4 DEF Inv, TypeOK
  <2>6. Rows' /\ Guests' /\ StaffTookPart' /\ LinkedHasGuest'
    BY <2>4, QuietOk DEF Inv, LinkedHasGuest
  <2>7. Fitting'
    <3>1. Holds(i, call[i])'
      BY <2>1, <2>2, <2>4 DEF Holds, Exists
    <3>2. ASSUME NEW q \in Callers, q # i PROVE Holds(q, call[q])'
      <4>1. call'[q] = call[q] /\ Holds(q, call[q])
        BY <2>2, <3>2 DEF Inv, Fitting
      <4> QED BY <2>4, <4>1 DEF Holds, Exists
    <3> QED BY <3>1, <3>2 DEF Fitting
  <2>8. OneImport'
    <3>1. \A j \in Importers : j # i => call'[j].pc \notin Locking
      BY <1>1, <2>2, Actors DEF ImportLocked, Locking
    <3> QED BY <3>1 DEF OneImport
  <2>9. ImportNeverCollides'
    <3>1. ASSUME NEW j \in Importers, call'[j].pc \in {"attach", "insert"} PROVE ByGuid(j)' = {}
      <4>1. j = i
        BY <1>1, <2>2, <3>1, Actors DEF ImportLocked
      <4>2. ByGuid(i) = {}
        BY <1>3, <2>2, <3>1, <4>1
      <4>3. \A e \in Episodes : ~(Exists(e) /\ episode[e].guid = d.guid /\ episode[e].feed = d.feed)
        BY <1>3, <4>2 DEF ByGuid
      <4> QED BY <2>2, <2>3, <2>4, <4>1, <4>3 DEF ByGuid, Exists
    <3> QED BY <3>1 DEF ImportNeverCollides
  <2> QED BY <2>5, <2>6, <2>7, <2>8, <2>9 DEF Inv
<1>4. \A e, given : Refreshable(e, given) \subseteq given
  BY DEF Refreshable
<1>5. ASSUME NEW e \in ByGuid(i),
             Goes(i, [call[i] EXCEPT !.pc = "refresh", !.e = e, !.fields = Refreshable(e, Given)])
      PROVE  Inv'
  <2>1. PICK fields \in SUBSET Fields : fields = Refreshable(e, Given)
    BY <1>4 DEF Given, Fields
  <2>2. PICK d : d = [call[i] EXCEPT !.pc = "refresh", !.e = e, !.fields = fields]
    OBVIOUS
  <2>3. e \in Episodes /\ Exists(e)
    BY DEF ByGuid
  <2>4. /\ d \in Call /\ d.pc = "refresh" /\ d.e = e
        /\ d.to = call[i].to /\ d.guid = call[i].guid /\ d.feed = call[i].feed
    BY <1>1, <2>2, <2>3 DEF Call
  <2> QED BY <1>3, <1>5, <2>1, <2>2, <2>3, <2>4 DEF Locking
<1>6. ASSUME NEW e \in ByUrl(i), ByGuid(i) = {},
             Goes(i, [call[i] EXCEPT !.pc = "attach", !.e = e, !.fields = Refreshable(e, {"text"})])
      PROVE  Inv'
  <2>1. PICK fields \in SUBSET Fields : fields = Refreshable(e, {"text"})
    BY <1>4 DEF Fields
  <2>2. PICK d : d = [call[i] EXCEPT !.pc = "attach", !.e = e, !.fields = fields]
    OBVIOUS
  <2>3. e \in Episodes /\ Exists(e)
    BY DEF ByUrl
  <2>4. /\ d \in Call /\ d.pc = "attach" /\ d.e = e
        /\ d.to = call[i].to /\ d.guid = call[i].guid /\ d.feed = call[i].feed
    BY <1>1, <2>2, <2>3 DEF Call
  <2> QED BY <1>3, <1>6, <2>1, <2>2, <2>3, <2>4 DEF Locking
<1>7. ASSUME ByGuid(i) = {}, Goes(i, [call[i] EXCEPT !.pc = "insert"])
      PROVE  Inv'
  <2>1. PICK d : d = [call[i] EXCEPT !.pc = "insert"]
    OBVIOUS
  <2>2. /\ d \in Call /\ d.pc = "insert"
        /\ d.to = call[i].to /\ d.guid = call[i].guid /\ d.feed = call[i].feed
    BY <1>1, <2>1 DEF Call
  <2> QED BY <1>3, <1>7, <2>1, <2>2 DEF Locking
<1> QED BY <1>5, <1>6, <1>7 DEF FindItem

\* The holder of the lock writes its row and lets the lock go.
LEMMA ImportWriteKeeps ==
  ASSUME Inv, NEW i \in Importers,
         Refresh(i) \/ \E e \in Episodes, state \in States : Insert(i, e, state)
  PROVE  Inv'
<1>0. i \in Callers
  BY Actors
<1>1. /\ call[i] \in Call /\ Holds(i, call[i]) /\ call[i].pc \in Locking /\ Ends(i)
      /\ appearance' = appearance /\ app' = app
  BY <1>0 DEF Refresh, Insert, At, Locking, Inv, TypeOK, Fitting
<1>2. call[i].to \in Contents /\ call[i].guid \in Guids /\ call[i].feed \in Nat
  BY <1>1 DEF Holds, Carrying, Locking, Call
<1>3. ASSUME NEW e \in Episodes, NEW r \in Row, r.state # "none", r.content \in Contents,
             episode' = [episode EXCEPT ![e] = r]
      PROVE  Inv'
  <2>1. /\ episode' \in [Episodes -> Row]
        /\ Rows' /\ Guests' /\ LinkedHasGuest' /\ StaffTookPart' /\ Grows
    BY <1>1, <1>3, EpisodeOk
  <2>2. call' \in [Callers -> Call] /\ Fitting' /\ OneImport' /\ ImportNeverCollides'
    BY <1>0, <1>1, <2>1, ReturnsOk
  <2>3. TypeOK'
    BY <2>1, <2>2 DEF Refresh, Insert, Inv, TypeOK
  <2> QED BY <2>1, <2>2, <2>3 DEF Inv
<1>4. CASE Refresh(i)
  <2>1. PICK e \in Episodes : e = call[i].e /\ Exists(e)
    BY <1>1, <1>4 DEF Refresh, Holds, OnEpisode
  <2>2. episode[e] \in Row /\ episode[e].content \in Contents
    BY <2>1 DEF Inv, TypeOK, Rows
  <2>3. Merged(call[i].to, call[i].fields, episode[e].content) \in Contents
    BY <1>2, <2>2, MergedOk
  <2>4. PICK r : r = [episode[e] EXCEPT !.content = Merged(call[i].to, call[i].fields, @),
                                        !.guid = call[i].guid, !.feed = call[i].feed]
    OBVIOUS
  <2>5. r \in Row /\ r.state # "none" /\ r.content \in Contents
    BY <1>2, <2>1, <2>2, <2>3, <2>4 DEF Row, Exists
  <2>6. episode' = [episode EXCEPT ![e] = r]
    BY <1>4, <2>1, <2>4 DEF Refresh, Inv, TypeOK
  <2> QED BY <1>3, <2>5, <2>6
<1>5. ASSUME NEW e \in Episodes, NEW state \in States, Insert(i, e, state) PROVE Inv'
  <2>1. PICK r : r = [NoRow EXCEPT !.state = state, !.content = call[i].to,
                                   !.guid = call[i].guid, !.feed = call[i].feed]
    OBVIOUS
  <2>2. r \in Row /\ r.state # "none" /\ r.content \in Contents
    BY <1>2, <1>5, <2>1, NoRowOk DEF Insert, Row
  <2>3. episode' = [episode EXCEPT ![e] = r]
    BY <1>5, <2>1 DEF Insert
  <2> QED BY <1>3, <2>2, <2>3
<1> QED BY <1>4, <1>5

-----------------------------------------------------------------------------
(***************************************************************************)
(* The theorems.                                                           *)
(***************************************************************************)
LEMMA StopsKeeps ==
  ASSUME Inv, NEW p \in Callers, Stops(p)
  PROVE  Inv'
<1>1. /\ Ends(p) /\ cast' = cast /\ episode' = episode /\ appearance' = appearance
      /\ approvals' = approvals /\ recording' = recording /\ app' = app /\ feeds' = feeds
  BY DEF Stops, Reads
<1>2. /\ call' \in [Callers -> Call] /\ Fitting' /\ OneImport' /\ ImportNeverCollides'
      /\ Rows' /\ Guests' /\ LinkedHasGuest' /\ StaffTookPart'
  BY <1>1, AsideOk
<1>3. TypeOK'
  BY <1>1, <1>2 DEF Inv, TypeOK
<1> QED BY <1>2, <1>3 DEF Inv

LEMMA Kept == Inv /\ [Next]_vars => Inv'
<1> SUFFICES ASSUME Inv, [Next]_vars PROVE Inv'
  OBVIOUS
<1>1. ASSUME NEW s \in Staff, StaffStep(s) PROVE Inv'
  <2>0. s \in Callers
    BY Actors
  <2>1. ASSUME NEW e \in Episodes, NEW m \in Members,
               ProposeAppearance(s, e, m) \/ BeginVerify(s, e, m) \/ RejectAppearance(s, e, m)
        PROVE  Inv'
    BY <2>0, <2>1, ProposeAppearanceKeeps, BeginConfirmKeeps, RejectAppearanceKeeps
  <2> QED
    BY <1>1, <2>0, <2>1, CreateKeeps, BeginUpdateKeeps, GateKeeps, UpdateEpisodeKeeps,
       PublishKeeps, ConfirmKeeps, SaveFeedUrlKeeps, BeginSetSpotifyKeeps
    DEF StaffStep
<1>2. ASSUME NEW h \in Hosts, HostStep(h) PROVE Inv'
  BY <1>2, BeginSendKeeps, SendWriteKeeps, SendAppearKeeps, SendReviewKeeps DEF HostStep
<1>3. ASSUME NEW m \in Members, MemberStep(m) PROVE Inv'
  <2>0. m \in Callers
    BY Actors
  <2>1. ASSUME NEW e \in Episodes,
               \/ RequestAppearance(m, e) \/ BeginAccept(m, e) \/ RejectAppearance(m, e, m)
               \/ BeginApproveOwn(m, e) \/ ConsentToRecording(m, e)
        PROVE  Inv'
    BY <2>0, <2>1, RequestAppearanceKeeps, BeginConfirmKeeps, RejectAppearanceKeeps,
       BeginApproveKeeps, ConsentKeeps
  <2> QED
    BY <1>3, <2>0, <2>1, WithdrawApprovalKeeps, ConfirmKeeps, BeginApproveKeeps,
       RecordApprovalKeeps, ReviewWritesKeep, BeginReviewKeeps
    DEF MemberStep
<1>4. ASSUME NEW i \in Importers, ImportStep(i) PROVE Inv'
  BY <1>4, BeginImportKeeps, CreateFeedKeeps, FindItemKeeps, ImportWriteKeeps DEF ImportStep
<1>5. CASE UNCHANGED vars
  <2>1. /\ cast' = cast /\ episode' = episode /\ appearance' = appearance /\ call' = call
        /\ approvals' = approvals /\ recording' = recording /\ app' = app /\ feeds' = feeds
    BY <1>5 DEF vars
  <2>2. TypeOK' /\ Rows' /\ Guests' /\ StaffTookPart'
    BY <2>1, QuietOk DEF Inv, TypeOK
  <2>3. LinkedHasGuest' /\ OneImport'
    BY <2>1 DEF Inv, LinkedHasGuest, OneImport
  <2>4. ImportNeverCollides'
    BY <2>1 DEF Inv, ImportNeverCollides, ByGuid, Exists
  <2>5. Fitting'
    BY <2>1 DEF Inv, Fitting, Holds, Exists
  <2> QED BY <2>2, <2>3, <2>4, <2>5 DEF Inv
<1> QED BY <1>1, <1>2, <1>3, <1>4, <1>5, StopsKeeps DEF Next

LEMMA Initially == Init => Inv
<1> SUFFICES ASSUME Init PROVE Inv
  OBVIOUS
<1>1. \A p \in Callers : call[p] = Idle
  BY DEF Init
<1>2. \A e \in Episodes : episode[e].state = "none"
  BY DEF Init, NoRow
<1>3. \A e \in Episodes, m \in Members : appearance[e][m].status = "none"
  BY DEF Init, NoAppearance
<1>4. TypeOK
  <2>1. NoAppearance \in Appearance
    BY DEF NoAppearance, Appearance
  <2>2. << >> \in Seq(Acceptance)
    OBVIOUS
  <2>3. app \in Application
    BY DEF Init, Application
  <2> QED BY <2>1, <2>2, <2>3, NoRowOk, IdleOk DEF Init, TypeOK
<1>5. Rows /\ Guests /\ StaffTookPart
  BY <1>2, <1>3 DEF Rows, Guests, StaffTookPart, Exists
<1>6. LinkedHasGuest
  BY DEF Init, LinkedHasGuest
<1>7. Fitting
  BY <1>1, IdleOk, IdleHolds DEF Fitting
<1>8. OneImport /\ ImportNeverCollides
  <2>1. \A i \in Importers : call[i].pc = "idle"
    BY <1>1, IdleOk, Actors
  <2> QED BY <2>1 DEF OneImport, ImportNeverCollides, Locking
<1> QED BY <1>4, <1>5, <1>6, <1>7, <1>8 DEF Inv

\* Every variable has its type.
THEOREM Types == Spec => []TypeOK
<1>1. Inv => TypeOK
  BY DEF Inv
<1> QED BY Initially, Kept, <1>1, PTL DEF Spec

\* An application is linked only to an episode of which its candidate is a
\* guest (sendKariyerPublicationForApproval upserts the appearance, then
\* links): the gate of updatePodcastEpisode finds somebody to ask.
THEOREM LinksHaveGuests == Spec => []LinkedHasGuest
<1>1. Inv => LinkedHasGuest
  BY DEF Inv
<1> QED BY Initially, Kept, <1>1, PTL DEF Spec

\* Whatever is read before it is confirmed, an appearance that is confirmed was
\* proposed or verified by the staff (memberAcceptAppearance, adminVerifyAppearance).
THEOREM NobodyConfirmsAlone == Spec => []StaffTookPart
<1>1. Inv => StaffTookPart
  BY DEF Inv
<1> QED BY Initially, Kept, <1>1, PTL DEF Spec

\* However many imports, feeds and admins run, one that is about to insert or
\* to attach an item finds no episode with its identity (importRssFeed's lock).
THEOREM ImportsNeverCollide == Spec => []ImportNeverCollides
<1>1. Inv => ImportNeverCollides
  BY DEF Inv
<1> QED BY Initially, Kept, <1>1, PTL DEF Spec
=============================================================================
