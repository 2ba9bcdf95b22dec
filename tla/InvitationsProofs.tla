------------------------- MODULE InvitationsProofs -------------------------
(* What Invitations keeps for every set of accounts, workspaces, links and  *)
(* requests: its types, and that the rights a link gives are due.           *)
EXTENDS Invitations, TLAPS

\* A request under way has an account, and, when it is about a link, a link
\* that was written.
Busy ==
  \A c \in Callers : ~At(c, "idle") =>
    /\ call[c].user \in Members
    /\ call[c].pc \notin {"count", "create"} =>
         call[c].on \in Links /\ link[call[c].on] # Unwritten

\* What a transaction found true of the link it locked is true until it ends.
Holding ==
  \A c \in Callers : At(c, "grant") =>
    LET row == link[call[c].on] IN
      /\ lock[call[c].on] = c /\ row.usedBy = Nobody /\ ~row.revoked
      /\ row.to # Nobody => row.to = call[c].user /\ call[c].user \in verified

IInv == TypeOK /\ Busy /\ Holding /\ RightsAreDue

USE InvitationsAssumption

LEMMA Initially == Init => IInv
  BY DEF Init, IInv, TypeOK, Busy, Holding, RightsAreDue, At, Idle, Call, Unwritten,
         Invitation, Seats, SpeakerPurposes

LEMMA CallType ==
  ASSUME NEW r \in Call, NEW p \in {"create", "grant", "tell"}
  PROVE  [r EXCEPT !.pc = p] \in Call
  BY DEF Call, Idle

\* What a request under way does to its own row of call.
LEMMA GotoType ==
  ASSUME call \in [Callers -> Call], NEW c \in Callers,
         Goto(c, "create") \/ Goto(c, "grant") \/ Goto(c, "tell") \/ Return(c)
  PROVE call' \in [Callers -> Call] /\ served' = served
  <1>1. \A p \in {"create", "grant", "tell"} : [call[c] EXCEPT !.pc = p] \in Call
    BY CallType DEF Call
  <1>2. Idle \in Call
    BY DEF Idle, Call
  <1>3. CASE Goto(c, "create") BY <1>1, <1>3 DEF Goto
  <1>4. CASE Goto(c, "grant") BY <1>1, <1>4 DEF Goto
  <1>5. CASE Goto(c, "tell") BY <1>1, <1>5 DEF Goto
  <1>6. CASE Return(c) BY <1>2, <1>6 DEF Return
  <1> QED BY <1>3, <1>4, <1>5, <1>6

\* A request stays busy with a written link as long as no link is unwritten.
LEMMA BusyKept ==
  ASSUME Busy, \A k \in Links : link[k] # Unwritten => link'[k] # Unwritten,
         \A d \in Callers : \/ call'[d] = call[d] \/ call'[d] = Idle
                            \/ /\ call[d].pc \notin {"idle", "count", "create"}
                               /\ call'[d].user = call[d].user /\ call'[d].on = call[d].on
  PROVE  Busy'
  <1> SUFFICES ASSUME NEW d \in Callers, call'[d].pc # "idle"
               PROVE /\ call'[d].user \in Members
                     /\ call'[d].pc \notin {"count", "create"} =>
                          call'[d].on \in Links /\ link'[call'[d].on] # Unwritten
    BY DEF Busy, At
  <1>1. call'[d] # Idle
    BY DEF Idle
  <1>2. CASE call'[d] = call[d] BY <1>2 DEF Busy, At
  <1>3. CASE call'[d].user = call[d].user /\ call'[d].on = call[d].on
             /\ call[d].pc \notin {"idle", "count", "create"}
    BY <1>3 DEF Busy, At
  <1> QED BY <1>1, <1>2, <1>3

\* A request begins with a link that was written.
LEMMA BusyBegun ==
  ASSUME IInv, NEW c \in Callers, NEW u \in Members, NEW i \in Links,
         NEW p \in {"lock", "revoke"}, Begin(c, p, u, i), link[i] # Unwritten, link' = link
  PROVE  Busy'
  <1>1. call' = [call EXCEPT ![c] = [pc |-> p, user |-> u, on |-> i]]
    BY DEF Begin
  <1> SUFFICES ASSUME NEW d \in Callers, call'[d].pc # "idle"
               PROVE /\ call'[d].user \in Members
                     /\ call'[d].pc \notin {"count", "create"} =>
                          call'[d].on \in Links /\ link'[call'[d].on] # Unwritten
    BY DEF Busy, At
  <1>2. CASE d = c BY <1>1, <1>2 DEF IInv, TypeOK
  <1>3. CASE d # c BY <1>1, <1>3 DEF IInv, TypeOK, At, Busy
  <1> QED BY <1>2, <1>3

\* A step that gives nobody anything and names no other consumer or recipient.
LEMMA DueKept ==
  ASSUME IInv, granted' = granted, seat' = seat, speaker' = speaker,
         verified' = verified,
         \A k \in Links : /\ link'[k].usedBy = link[k].usedBy /\ link'[k].to = link[k].to
                          /\ link'[k].kind = link[k].kind /\ link'[k].ws = link[k].ws
  PROVE  RightsAreDue'
  <1>1. \A g \in granted : g[1] \in Links
    BY DEF IInv, TypeOK
  <1> QED BY <1>1 DEF RightsAreDue, IInv

-----------------------------------------------------------------------------
(* Every action keeps the invariant.  Where one step does not carry, the    *)
(* conjunct the action disturbs has a lemma of its own.                     *)

LEMMA KeptByRequestEmailVerification ==
  ASSUME IInv, NEW u \in Members, RequestEmailVerification(u)
  PROVE  IInv'
  BY DEF IInv, TypeOK, Busy, Holding, RightsAreDue, At, Call, Idle, Invitation,
         Seats, accounts, requests, team, stage, Goto, Return, Begin,
         RequestEmailVerification

LEMMA KeptByConfirmEmailVerification ==
  ASSUME IInv, NEW u \in Members, ConfirmEmailVerification(u)
  PROVE  IInv'
  BY DEF IInv, TypeOK, Busy, Holding, RightsAreDue, At, Call, Idle, Invitation,
         Seats, accounts, requests, team, stage, Goto, Return, Begin,
         ConfirmEmailVerification

LEMMA KeptByTokenExpires ==
  ASSUME IInv, NEW u \in Members, TokenExpires(u)
  PROVE  IInv'
  BY DEF IInv, TypeOK, Busy, Holding, RightsAreDue, At, Call, Idle, Invitation,
         Seats, accounts, requests, team, stage, Goto, Return, Begin, TokenExpires

LEMMA KeptByRevokePilot ==
  ASSUME IInv, NEW u \in Members, RevokePilot(u)
  PROVE  IInv'
  BY DEF IInv, TypeOK, Busy, Holding, RightsAreDue, At, Call, Idle, Invitation,
         Seats, accounts, requests, team, stage, Goto, Return, Begin, RevokePilot,
         Allowed

LEMMA KeptByRejectAppearance ==
  ASSUME IInv, NEW u \in Members, RejectAppearance(u)
  PROVE  IInv'
  BY DEF IInv, TypeOK, Busy, Holding, RightsAreDue, At, Call, Idle, Invitation,
         Seats, accounts, requests, team, stage, Goto, Return, Begin,
         RejectAppearance

LEMMA KeptByRemoveMember ==
  ASSUME IInv, NEW u \in Members, NEW w \in Workspaces, NEW target \in Members,
         RemoveMember(u, w, target)
  PROVE  IInv'
  BY DEF IInv, TypeOK, Busy, Holding, RightsAreDue, At, Call, Idle, Invitation,
         Seats, accounts, requests, team, stage, Goto, Return, Begin, RemoveMember,
         IsOwner

LEMMA KeptByBeginWorkspace ==
  ASSUME IInv, NEW u \in Members, NEW c \in Callers, BeginWorkspace(c, u)
  PROVE  IInv'
  BY DEF IInv, TypeOK, Busy, Holding, RightsAreDue, At, Call, Idle, Invitation,
         Seats, accounts, requests, team, stage, Goto, Return, Begin, BeginWorkspace

LEMMA KeptByBeginRevoke ==
  ASSUME IInv, NEW u \in Members, NEW c \in Callers, NEW i \in Links,
         BeginRevoke(c, u, i)
  PROVE  IInv'
  <1>1. TypeOK'
    BY DEF IInv, TypeOK, Busy, Invitation, Seats, BeginRevoke, SpeakerPurposes,
           Unwritten, At, Call, Idle, accounts, requests, team, stage, Goto, Return,
           Begin
  <1>2. Busy'
    <2>1. link[i] # Unwritten /\ link' = link /\ Begin(c, "revoke", u, i)
      BY DEF BeginRevoke, SpeakerPurposes, Unwritten
    <2> QED BY <2>1, BusyBegun
  <1>3. Holding'
    BY DEF IInv, TypeOK, Busy, Holding, Invitation, Seats, BeginRevoke,
           SpeakerPurposes, Unwritten, At, Call, Idle, accounts, requests, team,
           stage, Goto, Return, Begin
  <1>4. RightsAreDue'
    BY DEF IInv, TypeOK, Busy, Holding, RightsAreDue, Invitation, Seats,
           BeginRevoke, SpeakerPurposes, Unwritten, At, Call, Idle, accounts,
           requests, team, stage, Goto, Return, Begin
  <1> QED BY <1>1, <1>2, <1>3, <1>4 DEF IInv

LEMMA KeptByCreateWorkspace ==
  ASSUME IInv, NEW c \in Callers, NEW w \in Workspaces, CreateWorkspace(c, w)
  PROVE  IInv'
  BY DEF IInv, TypeOK, Busy, Holding, RightsAreDue, At, Call, Idle, Invitation,
         Seats, accounts, requests, team, stage, Goto, Return, Begin,
         CreateWorkspace

LEMMA KeptByTellCreator ==
  ASSUME IInv, NEW c \in Callers, TellCreator(c)
  PROVE  IInv'
  BY DEF IInv, TypeOK, Busy, Holding, RightsAreDue, At, Call, Idle, Invitation,
         Seats, accounts, requests, team, stage, Goto, Return, Begin, TellCreator

LEMMA KeptByInviteMember ==
  ASSUME IInv, NEW u \in Members, NEW w \in Workspaces, NEW i \in Links, NEW to \in Recipients,
         InviteMember(u, w, i, to)
  PROVE  IInv'
  <1>1. TypeOK'
    BY DEF IInv, TypeOK, Busy, Invitation, Seats, InviteMember, IsOwner, Write,
           Unwritten, Recipients, SpeakerPurposes, At, Call, Idle, accounts,
           requests, team, stage, Goto, Return, Begin
  <1>2. Busy'
    <2>1. \A k \in Links : link[k] # Unwritten => link'[k] # Unwritten
      BY DEF InviteMember, Write, Unwritten, IInv, TypeOK, Busy, At, Call,
             Invitation
    <2>2. \A d \in Callers : \/ call'[d] = call[d] \/ call'[d] = Idle
                            \/ /\ call[d].pc \notin {"idle", "count", "create"}
                               /\ call'[d].user = call[d].user /\ call'[d].on = call[d].on
      BY DEF InviteMember, Write, Goto, Return, requests, At, IInv, TypeOK, Call
    <2> QED BY <2>1, <2>2, BusyKept DEF IInv
  <1>3. Holding'
    <2>1. link[i] = Unwritten /\ call' = call /\ lock' = lock /\ verified' = verified
      BY DEF InviteMember, Write, requests, accounts
    <2>2. \A k \in Links : k # i => link'[k] = link[k]
      BY DEF InviteMember, Write, IInv, TypeOK
    <2>3. \A d \in Callers : At(d, "grant") => call[d].on \in Links /\ call[d].on # i
      BY <2>1 DEF IInv, Busy, At
    <2> QED BY <2>1, <2>2, <2>3 DEF Holding, IInv, At
  <1>4. RightsAreDue'
    BY DEF IInv, TypeOK, Busy, Holding, RightsAreDue, Invitation, Seats,
           InviteMember, IsOwner, Write, Unwritten, Recipients, SpeakerPurposes, At,
           Call, Idle, accounts, requests, team, stage, Goto, Return, Begin
  <1> QED BY <1>1, <1>2, <1>3, <1>4 DEF IInv

LEMMA KeptByInviteSpeaker ==
  ASSUME IInv, NEW u \in Members, NEW i \in Links,
         NEW purpose \in SpeakerPurposes, NEW to \in Recipients, InviteSpeaker(u, i, purpose, to)
  PROVE  IInv'
  <1>1. TypeOK'
    BY DEF IInv, TypeOK, Busy, Invitation, Seats, InviteSpeaker, Write, Unwritten,
           Recipients, SpeakerPurposes, At, Call, Idle, accounts, requests, team,
           stage, Goto, Return, Begin
  <1>2. Busy'
    <2>1. \A k \in Links : link[k] # Unwritten => link'[k] # Unwritten
      BY DEF InviteSpeaker, Write, Unwritten, IInv, TypeOK, Busy, At, Call,
             Invitation
    <2>2. \A d \in Callers : \/ call'[d] = call[d] \/ call'[d] = Idle
                            \/ /\ call[d].pc \notin {"idle", "count", "create"}
                               /\ call'[d].user = call[d].user /\ call'[d].on = call[d].on
      BY DEF InviteSpeaker, Write, Goto, Return, requests, At, IInv, TypeOK, Call
    <2> QED BY <2>1, <2>2, BusyKept DEF IInv
  <1>3. Holding'
    <2>1. link[i] = Unwritten /\ call' = call /\ lock' = lock /\ verified' = verified
      BY DEF InviteSpeaker, Write, requests, accounts
    <2>2. \A k \in Links : k # i => link'[k] = link[k]
      BY DEF InviteSpeaker, Write, IInv, TypeOK
    <2>3. \A d \in Callers : At(d, "grant") => call[d].on \in Links /\ call[d].on # i
      BY <2>1 DEF IInv, Busy, At
    <2> QED BY <2>1, <2>2, <2>3 DEF Holding, IInv, At
  <1>4. RightsAreDue'
    BY DEF IInv, TypeOK, Busy, Holding, RightsAreDue, Invitation, Seats,
           InviteSpeaker, Write, Unwritten, Recipients, SpeakerPurposes, At, Call,
           Idle, accounts, requests, team, stage, Goto, Return, Begin
  <1> QED BY <1>1, <1>2, <1>3, <1>4 DEF IInv

LEMMA KeptByDie ==
  ASSUME IInv, NEW c \in Callers, Die(c)
  PROVE  IInv'
  <1>1. TypeOK'
    BY DEF IInv, TypeOK, Busy, Invitation, Seats, Die, At, Call, Idle, accounts,
           requests, team, stage, Goto, Return, Begin
  <1>2. Busy'
    BY DEF IInv, TypeOK, Busy, Invitation, Seats, Die, At, Call, Idle, accounts,
           requests, team, stage, Goto, Return, Begin
  <1>3. Holding'
    BY DEF IInv, TypeOK, Busy, Holding, Invitation, Seats, Die, At, Call, Idle,
           accounts, requests, team, stage, Goto, Return, Begin
  <1>4. RightsAreDue'
    BY DEF IInv, TypeOK, Busy, Holding, RightsAreDue, Invitation, Seats, Die, At,
           Call, Idle, accounts, requests, team, stage, Goto, Return, Begin
  <1> QED BY <1>1, <1>2, <1>3, <1>4 DEF IInv

LEMMA KeptByRemoveEpisode ==
  ASSUME IInv, RemoveEpisode
  PROVE  IInv'
  <1>1. TypeOK'
    BY DEF IInv, TypeOK, Busy, Invitation, Seats, RemoveEpisode, At, Call, Idle,
           accounts, requests, team, stage, Goto, Return, Begin
  <1>2. Busy'
    BY DEF IInv, TypeOK, Busy, Invitation, Seats, RemoveEpisode, At, Call, Idle,
           accounts, requests, team, stage, Goto, Return, Begin
  <1>3. Holding'
    BY DEF IInv, TypeOK, Busy, Holding, Invitation, Seats, RemoveEpisode, At, Call,
           Idle, accounts, requests, team, stage, Goto, Return, Begin
  <1>4. RightsAreDue'
    BY DEF IInv, TypeOK, Busy, Holding, RightsAreDue, Invitation, Seats,
           RemoveEpisode, At, Call, Idle, accounts, requests, team, stage, Goto,
           Return, Begin
  <1> QED BY <1>1, <1>2, <1>3, <1>4 DEF IInv

LEMMA LinkExpiresTypes ==
  ASSUME IInv, NEW i \in Links, LinkExpires(i)
  PROVE  TypeOK'
  <1>0. link \in [Links -> Invitation]
    BY DEF IInv, TypeOK
  <1>1. [link[i] EXCEPT !.expired = TRUE] \in Invitation
    BY <1>0 DEF Invitation
  <1>2. link' \in [Links -> Invitation]
    BY <1>0, <1>1 DEF LinkExpires
  <1> QED BY <1>2 DEF IInv, TypeOK, LinkExpires, accounts, requests, team, stage

LEMMA KeptByLinkExpires ==
  ASSUME IInv, NEW i \in Links, LinkExpires(i)
  PROVE  IInv'
  <1>1. TypeOK'
    BY LinkExpiresTypes
  <1>2. Busy'
    <2>1. \A k \in Links : link[k] # Unwritten => link'[k] # Unwritten
      BY DEF LinkExpires, Unwritten, IInv, TypeOK, Busy, At, Call, Invitation
    <2>2. \A d \in Callers : \/ call'[d] = call[d] \/ call'[d] = Idle
                            \/ /\ call[d].pc \notin {"idle", "count", "create"}
                               /\ call'[d].user = call[d].user /\ call'[d].on = call[d].on
      BY DEF LinkExpires, Goto, Return, requests, At, IInv, TypeOK, Call
    <2> QED BY <2>1, <2>2, BusyKept DEF IInv
  <1>3. Holding'
    BY DEF IInv, TypeOK, Busy, Holding, Invitation, Seats, LinkExpires, Unwritten,
           At, Call, Idle, accounts, requests, team, stage, Goto, Return, Begin
  <1>4. RightsAreDue'
    <2>1. \A k \in Links : /\ link'[k].usedBy = link[k].usedBy /\ link'[k].to = link[k].to
                         /\ link'[k].kind = link[k].kind /\ link'[k].ws = link[k].ws
      BY DEF LinkExpires, IInv, TypeOK, Invitation
    <2> QED BY <2>1, DueKept DEF LinkExpires, accounts, team, stage
  <1> QED BY <1>1, <1>2, <1>3, <1>4 DEF IInv

LEMMA KeptByOpenLink ==
  ASSUME IInv, NEW u \in Members, NEW c \in Callers, NEW i \in Links, OpenLink(c, u, i)
  PROVE  IInv'
  <1>1. TypeOK'
    BY DEF IInv, TypeOK, Busy, Invitation, Seats, OpenLink, Unwritten, At, Call,
           Idle, accounts, requests, team, stage, Goto, Return, Begin
  <1>2. Busy'
    BY BusyBegun DEF OpenLink
  <1>3. Holding'
    BY DEF IInv, TypeOK, Busy, Holding, Invitation, Seats, OpenLink, Unwritten, At,
           Call, Idle, accounts, requests, team, stage, Goto, Return, Begin
  <1>4. RightsAreDue'
    BY DEF IInv, TypeOK, Busy, Holding, RightsAreDue, Invitation, Seats, OpenLink,
           Unwritten, At, Call, Idle, accounts, requests, team, stage, Goto, Return,
           Begin
  <1> QED BY <1>1, <1>2, <1>3, <1>4 DEF IInv

LEMMA CountWorkspacesCalls ==
  ASSUME IInv, NEW c \in Callers, CountWorkspaces(c)
  PROVE  TypeOK' /\ Busy'
  <1>0. (Goto(c, "create") \/ Return(c)) /\ At(c, "count") /\ link' = link
    BY DEF CountWorkspaces
  <1>1. call' \in [Callers -> Call] /\ served' = served
    BY <1>0, GotoType DEF IInv, TypeOK
  <1>3. TypeOK'
    BY <1>1 DEF CountWorkspaces, IInv, TypeOK, accounts, team, stage
  <1>4. Busy'
    <2>1. CASE Goto(c, "create")
      BY <1>0, <2>1 DEF Goto, At, IInv, TypeOK, Busy, Call
    <2>2. CASE Return(c)
      BY <1>0, <2>2 DEF Return, Idle, At, IInv, TypeOK, Busy, Call
    <2> QED BY <1>0, <2>1, <2>2
  <1> QED BY <1>3, <1>4

LEMMA KeptByCountWorkspaces ==
  ASSUME IInv, NEW c \in Callers, CountWorkspaces(c)
  PROVE  IInv'
  <1>1. TypeOK'
    BY CountWorkspacesCalls
  <1>2. Busy'
    BY CountWorkspacesCalls
  <1>3. Holding'
    <2>1. /\ link' = link /\ lock' = lock /\ verified' = verified
          /\ \A d \in Callers : call'[d].pc = "grant" => call'[d] = call[d]
      BY DEF CountWorkspaces, Goto, Return, Idle, accounts, IInv, TypeOK, Call
    <2> QED BY <2>1 DEF Holding, IInv, At
  <1>4. RightsAreDue'
    BY DEF IInv, TypeOK, Busy, Holding, RightsAreDue, Invitation, Seats,
           CountWorkspaces, At, Call, Idle, accounts, requests, team, stage, Goto,
           Return, Begin
  <1> QED BY <1>1, <1>2, <1>3, <1>4 DEF IInv

LEMMA WriteRevokeDue ==
  ASSUME IInv, NEW c \in Callers, WriteRevoke(c)
  PROVE  TypeOK' /\ RightsAreDue'
  <1>0. call[c].on \in Links /\ link \in [Links -> Invitation] /\ call \in [Callers -> Call]
    BY DEF IInv, Busy, WriteRevoke, At, TypeOK, Call
  <1> DEFINE i == call[c].on
  <1>1. link' = [link EXCEPT ![i] = [link[i] EXCEPT !.revoked = TRUE]]
    BY <1>0 DEF WriteRevoke
  <1>a. [link[i] EXCEPT !.revoked = TRUE] \in Invitation
    BY <1>0 DEF Invitation
  <1>b. link' \in [Links -> Invitation]
    BY <1>0, <1>1, <1>a
  <1>2. call' \in [Callers -> Call] /\ served' = served
    BY <1>0, GotoType DEF WriteRevoke
  <1>3. TypeOK'
    BY <1>b, <1>2 DEF IInv, TypeOK, WriteRevoke, Return, accounts, team, stage
  <1>4. \A k \in Links : /\ link'[k].usedBy = link[k].usedBy /\ link'[k].to = link[k].to
                         /\ link'[k].kind = link[k].kind /\ link'[k].ws = link[k].ws
    BY <1>0, <1>1 DEF Invitation
  <1>5. RightsAreDue'
    BY <1>4, DueKept DEF WriteRevoke, accounts, team, stage
  <1> QED BY <1>3, <1>5

LEMMA KeptByWriteRevoke ==
  ASSUME IInv, NEW c \in Callers, WriteRevoke(c)
  PROVE  IInv'
  <1>1. TypeOK'
    BY WriteRevokeDue
  <1>2. Busy'
    <2>1. \A k \in Links : link[k] # Unwritten => link'[k] # Unwritten
      BY DEF WriteRevoke, Unwritten, IInv, TypeOK, Busy, At, Call, Invitation
    <2>2. \A d \in Callers : \/ call'[d] = call[d] \/ call'[d] = Idle
                            \/ /\ call[d].pc \notin {"idle", "count", "create"}
                               /\ call'[d].user = call[d].user /\ call'[d].on = call[d].on
      BY DEF WriteRevoke, Goto, Return, requests, At, IInv, TypeOK, Call
    <2> QED BY <2>1, <2>2, BusyKept DEF IInv
  <1>3. Holding'
    BY DEF IInv, TypeOK, Busy, Holding, Invitation, Seats, WriteRevoke, Unwritten,
           At, Call, Idle, accounts, requests, team, stage, Goto, Return, Begin
  <1>4. RightsAreDue'
    BY WriteRevokeDue
  <1> QED BY <1>1, <1>2, <1>3, <1>4 DEF IInv

LEMMA LockLinkCalls ==
  ASSUME IInv, NEW c \in Callers, LockLink(c)
  PROVE  TypeOK' /\ Busy'
  <1>0. (Goto(c, "grant") \/ Return(c)) /\ At(c, "lock") /\ link' = link
    BY DEF LockLink
  <1>1. call' \in [Callers -> Call] /\ served' = served
    BY <1>0, GotoType DEF IInv, TypeOK
  <1>9. lock' \in [Links -> Callers \cup {Nobody}]
    BY DEF LockLink, IInv, TypeOK
  <1>3. TypeOK'
    BY <1>1, <1>9 DEF LockLink, IInv, TypeOK, accounts, team, stage
  <1>4. Busy'
    <2>1. CASE Goto(c, "grant")
      BY <1>0, <2>1 DEF Goto, At, IInv, TypeOK, Busy, Call
    <2>2. CASE Return(c)
      BY <1>0, <2>2 DEF Return, Idle, At, IInv, TypeOK, Busy, Call
    <2> QED BY <1>0, <2>1, <2>2
  <1> QED BY <1>3, <1>4

LEMMA KeptByLockLink ==
  ASSUME IInv, NEW c \in Callers, LockLink(c)
  PROVE  IInv'
  <1>1. TypeOK'
    BY LockLinkCalls
  <1>2. Busy'
    BY LockLinkCalls
  <1>3. Holding'
    <2> SUFFICES ASSUME NEW d \in Callers, call'[d].pc = "grant"
                 PROVE LET row == link'[call'[d].on] IN
                         /\ lock'[call'[d].on] = d /\ row.usedBy = Nobody /\ ~row.revoked
                         /\ row.to # Nobody => row.to = call'[d].user /\ call'[d].user \in verified'
      BY DEF Holding, At
    <2>1. link' = link /\ verified' = verified
      BY DEF LockLink, accounts
    <2>2. CASE d = c
      <3>1. Goto(c, "grant")
        BY <2>2 DEF LockLink, Return, Idle, IInv, TypeOK
      <3>2. Acceptable(call[c].user, call[c].on) /\ lock' = [lock EXCEPT ![call[c].on] = c]
        BY <3>1, <2>2 DEF LockLink, Goto, Return, Idle, IInv, TypeOK
      <3>3. call'[c].on = call[c].on /\ call'[c].user = call[c].user /\ call[c].on \in Links
        BY <3>1 DEF Goto, IInv, TypeOK, Busy, At, LockLink
      <3> QED BY <2>1, <2>2, <3>2, <3>3 DEF Acceptable, IInv, TypeOK
    <2>3. CASE d # c
      <3>1. call'[d] = call[d]
        BY <2>3 DEF LockLink, Goto, Return, IInv, TypeOK
      <3>2. lock[call[d].on] = d /\ call[d].on \in Links
        BY <3>1 DEF Holding, IInv, At, Busy
      <3>3. lock'[call[d].on] = d
        BY <3>2 DEF LockLink, IInv, TypeOK
      <3> QED BY <2>1, <3>1, <3>3 DEF Holding, IInv, At
    <2> QED BY <2>2, <2>3
  <1>4. RightsAreDue'
    BY DEF IInv, TypeOK, Busy, Holding, RightsAreDue, Invitation, Seats, LockLink,
           Acceptable, At, Call, Idle, accounts, requests, team, stage, Goto,
           Return, Begin
  <1> QED BY <1>1, <1>2, <1>3, <1>4 DEF IInv

LEMMA GrantRightsDue ==
  ASSUME IInv, NEW c \in Callers, GrantRights(c)
  PROVE  TypeOK' /\ RightsAreDue'
  <1> DEFINE u == call[c].user
             i == call[c].on
  <1>0. /\ u \in Members /\ i \in Links
        /\ link[i].usedBy = Nobody /\ (link[i].to # Nobody => link[i].to = u /\ u \in verified)
        /\ link \in [Links -> Invitation] /\ call \in [Callers -> Call]
    BY DEF IInv, Busy, Holding, GrantRights, At, TypeOK, Call
  <1>t. TypeOK
    BY DEF IInv
  <1>r. RightsAreDue
    BY DEF IInv
  <1>1. /\ call' \in [Callers -> Call] /\ served' = served
    BY <1>0, GotoType DEF GrantRights
  <1>l. link' = [link EXCEPT ![i] = [link[i] EXCEPT !.usedBy = u]]
    BY <1>0 DEF GrantRights
  <1>m. [link[i] EXCEPT !.usedBy = u] \in Invitation
    BY <1>0 DEF Invitation
  <1>2. link' \in [Links -> Invitation] /\ lock' \in [Links -> Callers \cup {Nobody}]
    BY <1>0, <1>l, <1>m, <1>t DEF GrantRights, TypeOK
  <1>s. \A w \in Workspaces, x \in Members :
          seat'[w][x] = IF link[i].kind = "MEMBERSHIP" /\ w = link[i].ws /\ x = u
                        THEN "RECRUITER" ELSE seat[w][x]
    BY <1>0, <1>t DEF GrantRights, GrantSeat, TypeOK
  <1>3. seat' \in [Workspaces -> [Members -> Seats]]
    <2>1. seat \in [Workspaces -> [Members -> Seats]] /\ "RECRUITER" \in Seats
      BY <1>t DEF TypeOK, Seats
    <2>2. CASE link[i].kind # "MEMBERSHIP" BY <2>1, <2>2 DEF GrantRights, GrantSeat
    <2>3. CASE link[i].kind = "MEMBERSHIP"
      <3>1. seat' = [seat EXCEPT ![link[i].ws] = [seat[link[i].ws] EXCEPT ![u] = "RECRUITER"]]
        BY <2>3 DEF GrantRights, GrantSeat
      <3>2. link[i].ws \in Workspaces => [seat[link[i].ws] EXCEPT ![u] = "RECRUITER"] \in [Members -> Seats]
        BY <2>1
      <3> QED BY <3>1, <3>2, <2>1
    <2> QED BY <2>2, <2>3
  <1>4. speaker' \subseteq Members /\ appearance' \in [Members -> {"none", "CONFIRMED", "REJECTED"}]
    BY <1>0, <1>t DEF GrantRights, GrantStage, TypeOK
  <1>5. granted' = granted \cup {<<i, u>>} /\ granted' \subseteq Links \X Members
    BY <1>0, <1>t DEF GrantRights, TypeOK
  <1>6. TypeOK'
    BY <1>1, <1>2, <1>3, <1>4, <1>5, <1>t DEF GrantRights, TypeOK, accounts
  <1>7. /\ link'[i].usedBy = u
        /\ \A k \in Links : /\ link'[k].to = link[k].to /\ link'[k].kind = link[k].kind
                            /\ link'[k].ws = link[k].ws
                            /\ k # i => link'[k].usedBy = link[k].usedBy
    BY <1>0, <1>l DEF Invitation
  <1>8. \A g \in granted : g \in Links \X Members /\ g[1] \in Links /\ g[1] # i
    BY <1>0, <1>t, <1>r DEF TypeOK, RightsAreDue
  <1>9. verified' = verified
    BY DEF GrantRights, accounts
  <1>k. speaker' \subseteq speaker \cup {u} /\ (link[i].kind \notin SpeakerPurposes => speaker' = speaker)
    BY DEF GrantRights, GrantStage
  <1>n. <<i, u>> \in granted' /\ <<i, u>>[1] = i /\ <<i, u>>[2] = u /\ granted \subseteq granted'
    BY <1>5
  <1> HIDE DEF u, i
  <1>10. \A g \in granted' : link'[g[1]].usedBy = g[2] /\
            (link'[g[1]].to # Nobody => link'[g[1]].to = g[2] /\ g[2] \in verified')
    <2> TAKE g \in granted'
    <2>1. CASE g = <<i, u>> BY <2>1, <1>0, <1>7, <1>9
    <2>2. CASE g \in granted BY <2>2, <1>7, <1>8, <1>9, <1>r DEF RightsAreDue
    <2> QED BY <2>1, <2>2, <1>5
  <1>11. \A w \in Workspaces, x \in Members : seat'[w][x] \in {"RECRUITER", "REMOVED"} =>
            \E g \in granted' : g[2] = x /\ link'[g[1]].kind = "MEMBERSHIP" /\ link'[g[1]].ws = w
    <2> TAKE w \in Workspaces, x \in Members
    <2> HAVE seat'[w][x] \in {"RECRUITER", "REMOVED"}
    <2>1. CASE link[i].kind = "MEMBERSHIP" /\ w = link[i].ws /\ x = u
      <3> QED BY <2>1, <1>0, <1>7, <1>n
    <2>2. CASE ~(link[i].kind = "MEMBERSHIP" /\ w = link[i].ws /\ x = u)
      <3>1. seat[w][x] \in {"RECRUITER", "REMOVED"}
        BY <2>2, <1>s
      <3>2. PICK g \in granted : g[2] = x /\ link[g[1]].kind = "MEMBERSHIP" /\ link[g[1]].ws = w
        BY <3>1, <1>r DEF RightsAreDue
      <3> QED BY <3>2, <1>n, <1>7, <1>8
    <2> QED BY <2>1, <2>2
  <1>12. \A x \in speaker' : \E g \in granted' : g[2] = x /\ link'[g[1]].kind \in SpeakerPurposes
    <2> TAKE x \in speaker'
    <2>1. CASE x \in speaker
      <3>2. PICK g \in granted : g[2] = x /\ link[g[1]].kind \in SpeakerPurposes
        BY <2>1, <1>r DEF RightsAreDue
      <3> QED BY <3>2, <1>n, <1>7, <1>8
    <2>2. CASE x \notin speaker
      <3> QED BY <2>2, <1>k, <1>0, <1>7, <1>n
    <2> QED BY <2>1, <2>2
  <1> QED BY <1>6, <1>10, <1>11, <1>12 DEF RightsAreDue

LEMMA KeptByGrantRights ==
  ASSUME IInv, NEW c \in Callers, GrantRights(c)
  PROVE  IInv'
  <1>1. TypeOK'
    BY GrantRightsDue
  <1>2. Busy'
    <2>1. \A k \in Links : link[k] # Unwritten => link'[k] # Unwritten
      BY DEF GrantRights, Unwritten, IInv, TypeOK, Busy, At, Call, Invitation
    <2>2. \A d \in Callers : \/ call'[d] = call[d] \/ call'[d] = Idle
                            \/ /\ call[d].pc \notin {"idle", "count", "create"}
                               /\ call'[d].user = call[d].user /\ call'[d].on = call[d].on
      BY DEF GrantRights, Goto, Return, requests, At, IInv, TypeOK, Call
    <2> QED BY <2>1, <2>2, BusyKept DEF IInv
  <1>3. Holding'
    BY DEF IInv, TypeOK, Busy, Holding, Invitation, Seats, GrantRights, Unwritten,
           At, Call, Idle, accounts, requests, team, stage, Goto, Return, Begin
  <1>4. RightsAreDue'
    BY GrantRightsDue
  <1> QED BY <1>1, <1>2, <1>3, <1>4 DEF IInv

-----------------------------------------------------------------------------
LEMMA Kept == IInv /\ [Next]_vars => IInv'
  <1>1. ASSUME IInv, UNCHANGED vars PROVE IInv'
    <2>1. TypeOK'
      BY <1>1 DEF IInv, TypeOK, vars
    <2>2. Busy'
      BY <1>1 DEF IInv, Busy, At, vars
    <2>3. Holding'
      BY <1>1 DEF IInv, Holding, At, vars
    <2>4. RightsAreDue'
      BY <1>1 DEF IInv, RightsAreDue, vars
    <2> QED BY <2>1, <2>2, <2>3, <2>4 DEF IInv
  <1>2. ASSUME IInv, Next PROVE IInv'
    BY <1>2, KeptByRequestEmailVerification, KeptByConfirmEmailVerification,
       KeptByTokenExpires, KeptByRevokePilot,
       KeptByRejectAppearance, KeptByRemoveMember,
       KeptByBeginWorkspace, KeptByBeginRevoke,
       KeptByCreateWorkspace, KeptByTellCreator,
       KeptByInviteMember, KeptByInviteSpeaker,
       KeptByDie, KeptByRemoveEpisode,
       KeptByLinkExpires, KeptByOpenLink,
       KeptByCountWorkspaces, KeptByWriteRevoke,
       KeptByLockLink, KeptByGrantRights
    DEF Next
  <1> QED BY <1>1, <1>2

(* The rows of the invitations hold what their columns can, for every set   *)
(* of accounts, workspaces, links and requests.                             *)
THEOREM InvitationsTypeCorrect == Spec => []TypeOK
  <1>1. IInv => TypeOK
    BY DEF IInv
  <1> QED BY Initially, Kept, <1>1, PTL DEF Spec

(* Whoever got something from a link is the account the link names as its   *)
(* consumer, and its verified recipient if it had one; every recruiter and  *)
(* every speaker came by such a link (acceptInvitation of both services).   *)
THEOREM LinkRightsAreDue == Spec => []RightsAreDue
  <1>1. IInv => RightsAreDue
    BY DEF IInv
  <1> QED BY Initially, Kept, <1>1, PTL DEF Spec

-----------------------------------------------------------------------------
(* A step that lets somebody in is the end of a transaction that holds the  *)
(* row of a link, which is neither used nor revoked.                        *)
LetIn(u) ==
  \/ \E w \in Workspaces : seat'[w][u] = "RECRUITER" /\ seat[w][u] # "RECRUITER"
  \/ appearance'[u] = "CONFIRMED" /\ appearance[u] # "CONFIRMED"
  \/ u \in speaker' \ speaker

LEMMA OnlyGrants ==
  ASSUME IInv, [Next]_vars, NEW u \in Members, LetIn(u)
  PROVE  \E c \in Callers : GrantRights(c)
  <1> SUFFICES ASSUME \A c \in Callers : ~GrantRights(c) PROVE FALSE
    OBVIOUS
  <1>0. /\ seat \in [Workspaces -> [Members -> Seats]]
        /\ appearance \in [Members -> {"none", "CONFIRMED", "REJECTED"}]
    BY DEF IInv, TypeOK
  <1>1. CASE seat' = seat /\ appearance' = appearance /\ speaker' = speaker
    BY <1>1 DEF LetIn
  <1>2. ASSUME NEW x \in Members, NEW w \in Workspaces, NEW target \in Members,
               RemoveMember(x, w, target)
        PROVE  FALSE
    BY <1>0, <1>2 DEF RemoveMember, stage, LetIn
  <1>3. ASSUME NEW c \in Callers, NEW w \in Workspaces, CreateWorkspace(c, w) PROVE FALSE
    BY <1>0, <1>3 DEF CreateWorkspace, stage, LetIn
  <1>4. ASSUME NEW x \in Members, RejectAppearance(x) PROVE FALSE
    BY <1>0, <1>4 DEF RejectAppearance, team, LetIn
  <1>5. CASE UNCHANGED vars
    BY <1>1, <1>5 DEF vars
  <1>6. CASE RemoveEpisode
    BY <1>1, <1>6 DEF RemoveEpisode, team
  <1>7. ASSUME NEW x \in Members,
               \/ RequestEmailVerification(x) \/ ConfirmEmailVerification(x)
               \/ TokenExpires(x) \/ RevokePilot(x)
        PROVE  FALSE
    BY <1>1, <1>7 DEF RequestEmailVerification, ConfirmEmailVerification, TokenExpires,
                      RevokePilot, team, stage
  <1>8. ASSUME NEW x \in Members, NEW w \in Workspaces, NEW i \in Links, NEW to \in Recipients,
               InviteMember(x, w, i, to)
        PROVE  FALSE
    BY <1>1, <1>8 DEF InviteMember, Write, team, stage
  <1>9. ASSUME NEW x \in Members, NEW i \in Links, NEW purpose \in SpeakerPurposes,
               NEW to \in Recipients, InviteSpeaker(x, i, purpose, to)
        PROVE  FALSE
    BY <1>1, <1>9 DEF InviteSpeaker, Write, team, stage
  <1>10. ASSUME NEW c \in Callers, NEW x \in Members, BeginWorkspace(c, x) PROVE FALSE
    BY <1>1, <1>10 DEF BeginWorkspace, team, stage
  <1>11. ASSUME NEW c \in Callers, NEW x \in Members, NEW i \in Links,
                OpenLink(c, x, i) \/ BeginRevoke(c, x, i)
         PROVE  FALSE
    BY <1>1, <1>11 DEF OpenLink, BeginRevoke, team, stage
  <1>12. ASSUME NEW c \in Callers,
                \/ CountWorkspaces(c) \/ WriteRevoke(c) \/ LockLink(c) \/ TellCreator(c) \/ Die(c)
         PROVE  FALSE
    BY <1>1, <1>12 DEF CountWorkspaces, WriteRevoke, LockLink, TellCreator, Die, team, stage
  <1>13. ASSUME NEW i \in Links, LinkExpires(i) PROVE FALSE
    BY <1>1, <1>13 DEF LinkExpires, team, stage
  <1>14. CASE Next
    <2>1. \A x \in Members : ~RejectAppearance(x) /\ ~RequestEmailVerification(x)
             /\ ~ConfirmEmailVerification(x) /\ ~TokenExpires(x) /\ ~RevokePilot(x)
      BY <1>4, <1>7
    <2>2. ~(\E x \in Members, w \in Workspaces :
              \/ \E target \in Members : RemoveMember(x, w, target)
              \/ \E i \in Links, to \in Recipients : InviteMember(x, w, i, to))
      BY <1>2, <1>8
    <2>3. ~(\E x \in Members, i \in Links, purpose \in SpeakerPurposes, to \in Recipients :
              InviteSpeaker(x, i, purpose, to))
      BY <1>9
    <2>4. ~(\E c \in Callers, x \in Members :
              \/ BeginWorkspace(c, x)
              \/ \E i \in Links : OpenLink(c, x, i) \/ BeginRevoke(c, x, i))
      BY <1>10, <1>11
    <2> QED
      BY <1>3, <1>6, <1>12, <1>13, <1>14, <2>1, <2>2, <2>3, <2>4 DEF Next
  <1> QED BY <1>5, <1>14

LEMMA GrantIsFresh ==
  ASSUME IInv, NEW c \in Callers, GrantRights(c), NEW u \in Members, LetIn(u)
  PROVE  \E i \in Links : link[i].usedBy = Nobody /\ ~link[i].revoked /\ link'[i].usedBy = u
  <1>1. /\ call[c].user \in Members /\ call[c].on \in Links
        /\ link[call[c].on].usedBy = Nobody /\ ~link[call[c].on].revoked
    BY DEF IInv, Busy, Holding, GrantRights, At
  <1>2. link'[call[c].on].usedBy = call[c].user
    BY <1>1 DEF GrantRights, IInv, TypeOK, Invitation
  <1>3. u = call[c].user
    BY <1>1 DEF LetIn, GrantRights, GrantSeat, GrantStage, IInv, TypeOK
  <1> QED BY <1>1, <1>2, <1>3

(* A removed member, a rejected guest, whoever was let in before: they come *)
(* back only by a step that consumes a link which was neither used nor      *)
(* revoked (acceptInvitation of both services holds the row until it ends). *)
THEOREM OnlyFreshLinksLetIn == Spec => OnlyFreshLinks
  <1> DEFINE Fresh ==
        \A u \in Members :
          \/ \E w \in Workspaces : seat'[w][u] = "RECRUITER" /\ seat[w][u] # "RECRUITER"
          \/ appearance'[u] = "CONFIRMED" /\ appearance[u] # "CONFIRMED"
          \/ u \in speaker' \ speaker
          => \E i \in Links : /\ link[i].usedBy = Nobody /\ ~link[i].revoked
                              /\ link'[i].usedBy = u
  <1>1. IInv /\ [Next]_vars => Fresh
    <2> SUFFICES ASSUME IInv, [Next]_vars, NEW u \in Members, LetIn(u)
                 PROVE  \E i \in Links : /\ link[i].usedBy = Nobody /\ ~link[i].revoked
                                         /\ link'[i].usedBy = u
      BY DEF LetIn
    <2>1. PICK c \in Callers : GrantRights(c)
      BY OnlyGrants
    <2> QED BY <2>1, GrantIsFresh
  <1>2. Spec => [][Fresh]_vars
    <2> HIDE DEF Fresh
    <2> QED BY Initially, Kept, <1>1, PTL DEF Spec
  <1> QED BY <1>2 DEF OnlyFreshLinks
=============================================================================
