---------------------------- MODULE Invitations ----------------------------
(* The links that carry rights from one account to another: an              *)
(* administrator's speaker invitations (src/src/lib/community/invitations.ts) *)
(* and a workspace owner's membership invitations                           *)
(* (src/src/lib/hiring/invitations.ts), with what stands around them: the   *)
(* verification of an address, the pilot grants, the workspaces and their   *)
(* members.  A token is opaque, so a link is its row; an address is the     *)
(* account it belongs to.                                                   *)
EXTENDS Naturals, FiniteSets

CONSTANTS
  Members,       \* accounts
  Admins,        \* those whose staffRole is ADMIN
  Workspaces,    \* employer workspaces that may come to be
  Links,         \* invitations that may come to be
  Callers,       \* requests that can be under way at once
  Nobody,        \* no account, no workspace, no caller
  Limit,         \* HIRING_WORKSPACES_PER_MEMBER
  MaxTokens,     \* bound: verification mails open at once for an account
  MaxCalls,      \* bound: requests of the kinds that take several steps
  Offers,        \* bound: link -> the kinds and recipients it may be written with
  Known,         \* accounts whose address is verified from the start
  Ended          \* bound: accounts whose pilot an operator may end

ASSUME InvitationsAssumption ==
  /\ Admins \subseteq Members
  /\ Nobody \notin Members \cup Workspaces \cup Links \cup Callers
  /\ Limit \in Nat /\ MaxTokens \in Nat /\ MaxCalls \in Nat
  /\ Known \subseteq Members /\ Ended \subseteq Members

VARIABLES
  verified,      \* the accounts with emailVerified
  tokens,        \* account -> how many verification tokens of its can be used
  pilot,         \* account -> which pilot grants it holds, live and revoked
  owner,         \* workspace -> ownerId, or Nobody before it is created
  seat,          \* workspace -> account -> role, REMOVED, or none
  speaker,       \* the accounts with speakerParticipation
  appearance,    \* account -> its row for the episode links are about
  episodeUp,     \* the episode has not been removed
  link,          \* invitation rows
  lock,          \* link -> the caller whose transaction holds its row
  call,          \* caller -> what its request is doing
  served,        \* how many such requests have begun
  told,          \* the links whose creator was notified
  granted        \* history: which account got something from which link

vars == <<verified, tokens, pilot, owner, seat, speaker, appearance, episodeUp,
          link, lock, call, served, told, granted>>
accounts == <<verified, tokens>>
requests == <<call, served>>
team == <<owner, seat>>
stage == <<speaker, appearance, episodeUp>>

SpeakerPurposes == {"SPEAKER_STATUS", "EPISODE_ASSOCIATION"}
Seats == {"none", "OWNER", "RECRUITER", "REMOVED"}

Invitation ==
  [kind : SpeakerPurposes \cup {"none", "MEMBERSHIP"},
   ws : Workspaces \cup {Nobody}, to : Members \cup {Nobody}, usedBy : Members \cup {Nobody},
   revoked : BOOLEAN, expired : BOOLEAN]

Unwritten == [kind |-> "none", ws |-> Nobody, to |-> Nobody, usedBy |-> Nobody,
              revoked |-> FALSE, expired |-> FALSE]

Call == [pc : {"idle", "count", "create", "lock", "grant", "tell", "revoke"},
         user : Members \cup {Nobody}, on : Links \cup {Nobody}]

Idle == [pc |-> "idle", user |-> Nobody, on |-> Nobody]
At(c, pc) == call[c].pc = pc
Goto(c, pc) == call' = [call EXCEPT ![c].pc = pc] /\ UNCHANGED served
Return(c) == call' = [call EXCEPT ![c] = Idle] /\ UNCHANGED served
Begin(c, pc, u, i) ==
  /\ At(c, "idle") /\ served < MaxCalls /\ served' = served + 1
  /\ call' = [call EXCEPT ![c] = [pc |-> pc, user |-> u, on |-> i]]

Init ==
  /\ verified = Known /\ tokens = [u \in Members |-> 0]
  /\ pilot = [u \in Members |-> {}]
  /\ owner = [w \in Workspaces |-> Nobody]
  /\ seat = [w \in Workspaces |-> [u \in Members |-> "none"]]
  /\ speaker = {} /\ appearance = [u \in Members |-> "none"] /\ episodeUp = TRUE
  /\ link = [i \in Links |-> Unwritten]
  /\ lock = [i \in Links |-> Nobody]
  /\ call = [c \in Callers |-> Idle] /\ served = 0
  /\ told = {} /\ granted = {}

-----------------------------------------------------------------------------
(* Verification of the account's address.                                   *)

RequestEmailVerification(u) ==
  /\ u \notin verified /\ tokens[u] < MaxTokens
  /\ tokens' = [tokens EXCEPT ![u] = @ + 1]
  /\ UNCHANGED <<verified, pilot, team, stage, link, lock, requests, told, granted>>

\* Two confirmations of one token end as one: both set the same flag.
ConfirmEmailVerification(u) ==
  /\ tokens[u] > 0
  /\ tokens' = [tokens EXCEPT ![u] = @ - 1]
  /\ verified' = verified \cup {u}
  /\ UNCHANGED <<pilot, team, stage, link, lock, requests, told, granted>>

TokenExpires(u) ==
  /\ tokens[u] > 0
  /\ tokens' = [tokens EXCEPT ![u] = @ - 1]
  /\ UNCHANGED <<verified, pilot, team, stage, link, lock, requests, told, granted>>

-----------------------------------------------------------------------------
(* Pilot grants and workspaces.                                             *)

\* A live grant decides; without one the hiring keys are in no free plan.
Allowed(u) == "active" \in pilot[u]

\* The route and the service both ensure the grants before anything is asked.
BeginWorkspace(c, u) ==
  /\ Begin(c, "count", u, Nobody)
  /\ pilot' = [pilot EXCEPT ![u] = @ \cup {"active"}]
  /\ UNCHANGED <<accounts, team, stage, link, lock, told, granted>>

Owned(u) == {w \in Workspaces : owner[w] = u}

CountWorkspaces(c) ==
  /\ At(c, "count")
  /\ LET u == call[c].user IN
       IF Allowed(u) /\ Cardinality(Owned(u)) < Limit THEN Goto(c, "create") ELSE Return(c)
  /\ UNCHANGED <<accounts, pilot, team, stage, link, lock, told, granted>>

CreateWorkspace(c, w) ==
  /\ At(c, "create") /\ owner[w] = Nobody
  /\ owner' = [owner EXCEPT ![w] = call[c].user]
  /\ seat' = [seat EXCEPT ![w][call[c].user] = "OWNER"]
  /\ Return(c)
  /\ UNCHANGED <<accounts, pilot, stage, link, lock, told, granted>>

\* An operator ends the pilot for an account (docs/hiring.md, "Downgrade behavior").
RevokePilot(u) ==
  /\ Allowed(u) /\ u \in Ended
  /\ pilot' = [pilot EXCEPT ![u] = {"revoked"}]
  /\ UNCHANGED <<accounts, team, stage, link, lock, requests, told, granted>>

IsOwner(u, w) == owner[w] # Nobody /\ seat[w][u] = "OWNER"

RemoveMember(u, w, target) ==
  /\ IsOwner(u, w) /\ target # u
  /\ seat[w][target] = "RECRUITER"
  /\ seat' = [seat EXCEPT ![w][target] = "REMOVED"]
  /\ UNCHANGED <<accounts, pilot, owner, stage, link, lock, requests, told, granted>>

-----------------------------------------------------------------------------
(* Writing a link, and taking it back.                                      *)

Write(i, row) ==
  /\ link[i] = Unwritten /\ <<row.kind, row.to>> \in Offers[i]
  /\ link' = [link EXCEPT ![i] = row]
  /\ UNCHANGED <<accounts, pilot, team, stage, lock, requests, told, granted>>

\* The route passes no role: every such link makes a RECRUITER.
InviteMember(u, w, i, to) ==
  /\ IsOwner(u, w)
  /\ Write(i, [Unwritten EXCEPT !.kind = "MEMBERSHIP", !.ws = w, !.to = to])

InviteSpeaker(u, i, purpose, to) ==
  /\ u \in Admins
  /\ purpose = "EPISODE_ASSOCIATION" => episodeUp
  /\ Write(i, [Unwritten EXCEPT !.kind = purpose, !.to = to])

\* Only speaker links can be revoked; the row is read without a lock ...
BeginRevoke(c, u, i) ==
  /\ u \in Admins
  /\ link[i].kind \in SpeakerPurposes /\ link[i].usedBy = Nobody
  /\ Begin(c, "revoke", u, i)
  /\ UNCHANGED <<accounts, pilot, team, stage, link, lock, told, granted>>

\* ... and written whatever has become of it, once no transaction holds it.
WriteRevoke(c) ==
  /\ At(c, "revoke") /\ lock[call[c].on] = Nobody
  /\ link' = [link EXCEPT ![call[c].on].revoked = TRUE]
  /\ Return(c)
  /\ UNCHANGED <<accounts, pilot, team, stage, lock, told, granted>>

\* A link that was used or revoked is refused for that, whether it is late or not.
LinkExpires(i) ==
  /\ link[i] # Unwritten /\ ~link[i].expired
  /\ ~link[i].revoked /\ link[i].usedBy = Nobody
  /\ link' = [link EXCEPT ![i].expired = TRUE]
  /\ UNCHANGED <<accounts, pilot, team, stage, lock, requests, told, granted>>

-----------------------------------------------------------------------------
(* Accepting: one transaction that holds the link's row, then a notice.     *)

OpenLink(c, u, i) ==
  /\ link[i] # Unwritten
  /\ Begin(c, "lock", u, i)
  /\ UNCHANGED <<accounts, pilot, team, stage, link, lock, told, granted>>

\* Variant: the consumer's second try is not told apart from a first one.
AcceptableAgain(u, i) ==
  /\ link[i].usedBy \in {u, Nobody} /\ ~link[i].revoked /\ ~link[i].expired
  /\ link[i].to # Nobody => link[i].to = u /\ u \in verified

\* Used, revoked, expired, another's, or the address not verified: refused.
\* The consumer's own second try is answered "already accepted", with nothing done.
Acceptable(u, i) ==
  /\ link[i].usedBy = Nobody /\ ~link[i].revoked /\ ~link[i].expired
  /\ link[i].to # Nobody => link[i].to = u /\ u \in verified

\* Variant: the row is read without FOR UPDATE.
LockLinkUnlocked(c) ==
  /\ At(c, "lock")
  /\ IF Acceptable(call[c].user, call[c].on) THEN Goto(c, "grant") ELSE Return(c)
  /\ UNCHANGED <<accounts, pilot, team, stage, link, lock, told, granted>>

LockLink(c) ==
  /\ At(c, "lock") /\ lock[call[c].on] = Nobody
  /\ IF Acceptable(call[c].user, call[c].on)
     THEN lock' = [lock EXCEPT ![call[c].on] = c] /\ Goto(c, "grant")
     ELSE Return(c) /\ UNCHANGED lock
  /\ UNCHANGED <<accounts, pilot, team, stage, link, told, granted>>

\* The member row is upserted: whatever role or status it had is overwritten.
GrantSeat(u, i) ==
  IF link[i].kind = "MEMBERSHIP" THEN seat' = [seat EXCEPT ![link[i].ws][u] = "RECRUITER"]
  ELSE UNCHANGED seat

GrantStage(u, i) ==
  /\ speaker' = IF link[i].kind \in SpeakerPurposes THEN speaker \cup {u} ELSE speaker
  /\ appearance' = IF link[i].kind = "EPISODE_ASSOCIATION"
                   THEN [appearance EXCEPT ![u] = "CONFIRMED"] ELSE appearance

GrantRights(c) ==
  /\ At(c, "grant")
  /\ LET u == call[c].user
         i == call[c].on
     IN  /\ link' = [link EXCEPT ![i].usedBy = u]
         /\ GrantSeat(u, i) /\ GrantStage(u, i)
         /\ granted' = granted \cup {<<i, u>>}
         /\ lock' = [lock EXCEPT ![i] = Nobody]
  /\ Goto(c, "tell")
  /\ UNCHANGED <<accounts, pilot, owner, episodeUp, told>>

TellCreator(c) ==
  /\ At(c, "tell")
  /\ told' = told \cup {call[c].on}
  /\ Return(c)
  /\ UNCHANGED <<accounts, pilot, team, stage, link, lock, granted>>

\* The server dies under a request; the database ends its transaction.
Die(c) ==
  /\ ~At(c, "idle")
  /\ lock' = [i \in Links |-> IF lock[i] = c THEN Nobody ELSE lock[i]]
  /\ Return(c)
  /\ UNCHANGED <<accounts, pilot, team, stage, link, told, granted>>

-----------------------------------------------------------------------------
(* What other services do to the rights a link gave.                        *)

\* By the member or an administrator, in whatever state the row is.
RejectAppearance(u) ==
  /\ appearance[u] # "none"
  /\ appearance' = [appearance EXCEPT ![u] = "REJECTED"]
  /\ UNCHANGED <<accounts, pilot, team, speaker, episodeUp, link, lock, requests, told, granted>>

RemoveEpisode ==
  /\ episodeUp /\ episodeUp' = FALSE
  /\ UNCHANGED <<accounts, pilot, team, speaker, appearance, link, lock, requests, told, granted>>

Recipients == Members \cup {Nobody}

Next ==
  \/ \E u \in Members : \/ RequestEmailVerification(u) \/ ConfirmEmailVerification(u)
                        \/ TokenExpires(u) \/ RevokePilot(u) \/ RejectAppearance(u)
  \/ \E u \in Members, w \in Workspaces :
       \/ \E target \in Members : RemoveMember(u, w, target)
       \/ \E i \in Links, to \in Recipients : InviteMember(u, w, i, to)
  \/ \E u \in Members, i \in Links, purpose \in SpeakerPurposes, to \in Recipients :
       InviteSpeaker(u, i, purpose, to)
  \/ \E c \in Callers, u \in Members : \/ BeginWorkspace(c, u)
                                       \/ \E i \in Links : OpenLink(c, u, i) \/ BeginRevoke(c, u, i)
  \/ \E c \in Callers : \/ CountWorkspaces(c) \/ \E w \in Workspaces : CreateWorkspace(c, w)
                        \/ WriteRevoke(c) \/ LockLink(c) \/ GrantRights(c) \/ TellCreator(c)
                        \/ Die(c)
  \/ \E i \in Links : LinkExpires(i)
  \/ RemoveEpisode

Spec == Init /\ [][Next]_vars

-----------------------------------------------------------------------------
(* The rows hold what their columns can.                                    *)
TypeOK ==
  /\ verified \subseteq Members /\ speaker \subseteq Members
  /\ tokens \in [Members -> 0..MaxTokens]
  /\ pilot \in [Members -> SUBSET {"active", "revoked"}]
  /\ owner \in [Workspaces -> Members \cup {Nobody}]
  /\ seat \in [Workspaces -> [Members -> Seats]]
  /\ appearance \in [Members -> {"none", "CONFIRMED", "REJECTED"}] /\ episodeUp \in BOOLEAN
  /\ link \in [Links -> Invitation]
  /\ lock \in [Links -> Callers \cup {Nobody}]
  /\ call \in [Callers -> Call] /\ served \in 0..MaxCalls
  /\ told \subseteq Links /\ granted \subseteq Links \X Members

(* A link is good for one account, however many open it at once: who got    *)
(* something from it is the consumer its row names, and the verified        *)
(* recipient if it was bound to one; and a recruiter's seat or a speaker's  *)
(* standing comes from a link of that workspace, or of that purpose.        *)
RightsAreDue ==
  /\ \A g \in granted :
       LET row == link[g[1]] IN
         row.usedBy = g[2] /\ (row.to # Nobody => row.to = g[2] /\ g[2] \in verified)
  /\ \A w \in Workspaces, u \in Members : seat[w][u] \in {"RECRUITER", "REMOVED"} =>
       \E g \in granted : g[2] = u /\ link[g[1]].kind = "MEMBERSHIP" /\ link[g[1]].ws = w
  /\ \A u \in speaker : \E g \in granted : g[2] = u /\ link[g[1]].kind \in SpeakerPurposes

(* Nobody is let in by a link that was used or revoked before: a removed    *)
(* member and a member whose appearance was rejected return only by a       *)
(* link that this very step consumes, however often the old one is opened.  *)
OnlyFreshLinks ==
  [][\A u \in Members :
       \/ \E w \in Workspaces : seat'[w][u] = "RECRUITER" /\ seat[w][u] # "RECRUITER"
       \/ appearance'[u] = "CONFIRMED" /\ appearance[u] # "CONFIRMED"
       \/ u \in speaker' \ speaker
       => \E i \in Links : /\ link[i].usedBy = Nobody /\ ~link[i].revoked
                           /\ link'[i].usedBy = u]_vars

(* docs/hiring.md says of the pilot: "Revoking pilot capabilities prevents  *)
(* new restricted actions".  So an account whose grants were all revoked    *)
(* does not get the capability back by asking for something that needs it.  *)
(* The code breaks it: the request for a workspace writes new grants first. *)
RevokedPilotStays ==
  [][\A u \in Members : pilot[u] = {"revoked"} => pilot'[u] = {"revoked"}]_vars
=============================================================================
