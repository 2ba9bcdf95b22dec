----------------------------- MODULE Messaging -----------------------------
(***************************************************************************)
(* Message requests, conversations, blocks and what the moderators hold:   *)
(* src/lib/messaging/requests.ts, conversations.ts, blocks.ts, quota.ts    *)
(* and the messaging half of reports.ts.                                   *)
(*                                                                         *)
(* A request of a member is a session; a transaction is the steps from its *)
(* first read to its commit, and nobody sees what it wrote before.  Rows   *)
(* that it locked on the way make others wait (RowLocked, QuotaLocked).    *)
(* A refusal or an error undoes the transaction: Abort.                    *)
(***************************************************************************)
EXTENDS Integers, FiniteSets

CONSTANTS
  Members, Moderators,
  Sessions,       \* what goes on at a time; Who[s] is the member behind session s
  Who,
  RequestKeys,    \* idempotency keys a member uses for requests ...
  MessageKeys,    \* ... and for messages
  Holds,          \* bound of the model: moderation holds
  Allowance,      \* MESSAGE_REQUEST_FREE_MONTHLY_ALLOWANCE
  NoId, NoOne, NoHold

RequestIds == Members \X RequestKeys
MessageIds == Members \X MessageKeys
Ids == RequestIds \cup MessageIds

ASSUME MessagingAssumption ==
  /\ Who \in [Sessions -> Members]
  /\ RequestKeys \cap MessageKeys = {}
  /\ Allowance \in Nat
  /\ NoId \notin Ids /\ NoOne \notin Members /\ NoHold \notin Holds

VARIABLES
  request,      \* request[<<m, k>>]: the MessageRequest m sent under key k
  message,      \* message[<<m, k>>]: the DirectMessage m sent under key k
  conv,         \* conv[p]: messagingState of the conversation of the pair p
  blocks,       \* <<blocker, blocked>>
  cooldown,     \* pairs whose cooldown runs
  uses,         \* request ids the month's allowance was used for
  hold,         \* hold[h]: the ModerationHold
  call,         \* where each session is
  mod           \* where each moderator is

vars == <<request, message, conv, blocks, cooldown, uses, hold, call, mod>>

Pairs == {p \in SUBSET Members : \E a, b \in p : a # b /\ p = {a, b}}

Request == [status : {"none", "PENDING", "ACCEPTED", "REJECTED", "CANCELLED"},
            to : Members \cup {NoOne}]
Message == [status : {"none", "DELIVERED", "REMOVED"}, to : Members \cup {NoOne}]
Unsent == [status |-> "none", to |-> NoOne]
Hold == [status : {"none", "HELD", "RELEASED", "REJECTED"}, id : Ids \cup {NoId},
         to : Members \cup {NoOne}, again : BOOLEAN]
NoHeld == [status |-> "none", id |-> NoId, to |-> NoOne, again |-> FALSE]

\* to: the other member; again: isResumption; rows: the requests a block will
\* cancel; locked: the quota rows were there to be locked.
Call == [pc : {"idle", "asked", "checked", "counted", "accepting", "rejecting", "cancelling",
               "blocking", "pausing", "alone", "typed", "sending"},
         id : Ids \cup {NoId}, to : Members \cup {NoOne}, again : BOOLEAN,
         rows : SUBSET RequestIds, locked : BOOLEAN]
Idle == [pc |-> "idle", id |-> NoId, to |-> NoOne, again |-> FALSE, rows |-> {}, locked |-> FALSE]

Mod == [pc : {"idle", "reject", "request", "counted", "message", "mark"},
        hold : Holds \cup {NoHold}, locked : BOOLEAN]
Away == [pc |-> "idle", hold |-> NoHold, locked |-> FALSE]

Init ==
  /\ request = [id \in RequestIds |-> Unsent]
  /\ message = [id \in MessageIds |-> Unsent]
  /\ conv = [p \in Pairs |-> "none"]
  /\ blocks = {} /\ cooldown = {} /\ uses = {}
  /\ hold = [h \in Holds |-> NoHeld]
  /\ call = [s \in Sessions |-> Idle]
  /\ mod = [d \in Moderators |-> Away]

-----------------------------------------------------------------------------
(***************************************************************************)
(* What is read.                                                           *)
(***************************************************************************)
\* isEitherBlocked
Blocked(p) == \E a, b \in p : <<a, b>> \in blocks
Between(id) == {id[1], request[id].to}
PendingOf(p) == {id \in RequestIds : request[id].status = "PENDING" /\ Between(id) = p}
Uses(m) == {id \in uses : id[1] = m}
Partners(s) == {Who[s], call[s].to}

\* A row is locked from the read FOR UPDATE, or from a block's update, to the
\* commit.
Locks(s) == CASE call[s].pc = "accepting" -> {call[s].id}
              [] call[s].pc \in {"blocking", "pausing", "alone"} -> call[s].rows
              [] OTHER -> {}
RowLocked(id) == \E s \in Sessions : id \in Locks(s)
ConvLocked(p) == \E s \in Sessions : call[s].pc = "pausing" /\ Partners(s) = p
\* The month's rows of a member are locked by whoever found any.
QuotaLocked(m) ==
  \/ \E s \in Sessions : call[s].pc = "counted" /\ call[s].locked /\ Who[s] = m
  \/ \E d \in Moderators : mod[d].pc = "counted" /\ mod[d].locked /\ hold[mod[d].hold].id[1] = m

\* consumeMessageRequestQuota, up to its insert.
MayUse(m) == /\ Uses(m) # {} => ~QuotaLocked(m)
             /\ Cardinality(Uses(m)) < Allowance

Free(s) == call[s] = Idle
At(s, pc) == call[s].pc = pc
Ends(s) == call' = [call EXCEPT ![s] = Idle]
Moves(s, pc) == call' = [call EXCEPT ![s].pc = pc]
Reads == UNCHANGED <<request, message, conv, blocks, cooldown, uses, hold, mod>>
NextHold(h) == hold[h].status = "none"
Held(id, to, again) == [status |-> "HELD", id |-> id, to |-> to, again |-> again]

-----------------------------------------------------------------------------
(***************************************************************************)
(* Message requests.                                                       *)
(***************************************************************************)
\* createMessageRequest before its transaction.
Ask(s, b, k, again) ==
  LET id == <<Who[s], k>>
      p == {Who[s], b}
  IN  /\ Free(s) /\ b # Who[s]
      /\ request[id].status = "none"
      /\ ~Blocked(p) /\ p \notin cooldown
      /\ IF again THEN conv[p] = "PAUSED" ELSE conv[p] # "ACTIVE"
      /\ PendingOf(p) = {}
      /\ call' = [call EXCEPT ![s] = [Idle EXCEPT !.pc = "asked", !.id = id, !.to = b, !.again = again]]
      /\ Reads

\* The classifier wants it held.
HoldRequest(s, h) ==
  /\ At(s, "asked") /\ Ends(s)
  /\ NextHold(h)
  /\ hold' = [hold EXCEPT ![h] = Held(call[s].id, call[s].to, call[s].again)]
  /\ UNCHANGED <<request, message, conv, blocks, cooldown, uses, mod>>

\* The transaction: blocks and pending requests are read again, ...
Recheck(s) ==
  /\ At(s, "asked") /\ Moves(s, "checked")
  /\ ~Blocked(Partners(s)) /\ PendingOf(Partners(s)) = {}
  /\ request[call[s].id].status = "none"
  /\ Reads

CountUseAtOnce(s) ==
  /\ At(s, "checked") /\ Moves(s, "counted")
  /\ MayUse(Who[s])
  /\ uses' = uses \cup {call[s].id}
  /\ UNCHANGED <<request, message, conv, blocks, cooldown, hold, mod>>

\* ... the month's requests counted, ...
CountUse(s) ==
  /\ At(s, "checked")
  /\ MayUse(Who[s])
  /\ call' = [call EXCEPT ![s].pc = "counted", ![s].locked = Uses(Who[s]) # {}]
  /\ Reads

\* ... and both rows inserted, unless their key has been used in the meantime.
Create(s) ==
  LET id == call[s].id
  IN  /\ At(s, "counted") /\ Ends(s)
      /\ request[id].status = "none" /\ id \notin uses
      /\ uses' = uses \cup {id}
      /\ request' = [request EXCEPT ![id] = [status |-> "PENDING", to |-> call[s].to]]
      /\ UNCHANGED <<message, conv, blocks, cooldown, hold, mod>>

BeginAcceptUnasked(s, id) ==
  /\ Free(s) /\ request[id].to = Who[s]
  /\ ~RowLocked(id) /\ request[id].status = "PENDING"
  /\ call' = [call EXCEPT ![s] = [Idle EXCEPT !.pc = "accepting", !.id = id, !.to = id[1]]]
  /\ Reads

\* acceptMessageRequest locks the request, checks, ...
BeginAccept(s, id) ==
  /\ Free(s) /\ request[id].to = Who[s]
  /\ ~RowLocked(id) /\ request[id].status = "PENDING"
  /\ ~Blocked(Between(id))
  /\ call' = [call EXCEPT ![s] = [Idle EXCEPT !.pc = "accepting", !.id = id, !.to = id[1]]]
  /\ Reads

\* ... creates or activates the conversation (ensureConversationForPair).
Accept(s) ==
  LET id == call[s].id
  IN  /\ At(s, "accepting") /\ Ends(s)
      /\ conv[Partners(s)] = "PAUSED" => ~ConvLocked(Partners(s))
      /\ request' = [request EXCEPT ![id].status = "ACCEPTED"]
      /\ conv' = [conv EXCEPT ![Partners(s)] = "ACTIVE"]
      /\ UNCHANGED <<message, blocks, cooldown, uses, hold, mod>>

\* rejectMessageRequest and cancelMessageRequest read without a lock; the update
\* is of a request still PENDING.
BeginReject(s, id) ==
  /\ Free(s) /\ request[id].to = Who[s] /\ request[id].status = "PENDING"
  /\ call' = [call EXCEPT ![s] = [Idle EXCEPT !.pc = "rejecting", !.id = id, !.to = id[1]]]
  /\ Reads

Reject(s) ==
  LET id == call[s].id
  IN  /\ At(s, "rejecting") /\ Ends(s)
      /\ ~RowLocked(id)
      /\ IF request[id].status = "PENDING"
           THEN /\ request' = [request EXCEPT ![id].status = "REJECTED"]
                /\ cooldown' = cooldown \cup {Partners(s)}
           ELSE UNCHANGED <<request, cooldown>>
      /\ UNCHANGED <<message, conv, blocks, uses, hold, mod>>

BeginCancel(s, id) ==
  /\ Free(s) /\ id[1] = Who[s] /\ request[id].status = "PENDING"
  /\ call' = [call EXCEPT ![s] = [Idle EXCEPT !.pc = "cancelling", !.id = id, !.to = request[id].to]]
  /\ Reads

CancelAnyway(s) ==
  LET id == call[s].id
  IN  /\ At(s, "cancelling") /\ Ends(s)
      /\ ~RowLocked(id)
      /\ request' = [request EXCEPT ![id].status = "CANCELLED"]
      /\ cooldown' = cooldown \cup {Partners(s)}
      /\ UNCHANGED <<message, conv, blocks, uses, hold, mod>>

\* The cooldown starts even if the request was no longer PENDING.
Cancel(s) ==
  LET id == call[s].id
  IN  /\ At(s, "cancelling") /\ Ends(s)
      /\ ~RowLocked(id)
      /\ request' = IF request[id].status = "PENDING"
                      THEN [request EXCEPT ![id].status = "CANCELLED"] ELSE request
      /\ cooldown' = cooldown \cup {Partners(s)}
      /\ UNCHANGED <<message, conv, blocks, uses, hold, mod>>

CooldownEnds(p) ==
  /\ p \in cooldown /\ cooldown' = cooldown \ {p}
  /\ UNCHANGED <<request, message, conv, blocks, uses, hold, call, mod>>

-----------------------------------------------------------------------------
(***************************************************************************)
(* Blocks and messages.                                                    *)
(***************************************************************************)
\* blockMember finds the requests to cancel and locks them, ...
BeginBlock(s, b) ==
  LET rows == PendingOf({Who[s], b})
  IN  /\ Free(s) /\ b # Who[s] /\ <<Who[s], b>> \notin blocks
      /\ \A id \in rows : ~RowLocked(id)
      /\ call' = [call EXCEPT ![s] = [Idle EXCEPT !.pc = "blocking", !.to = b, !.rows = rows]]
      /\ Reads

\* ... pauses the conversation, if it finds one, ...
PauseConversation(s) ==
  /\ At(s, "blocking") /\ ~ConvLocked(Partners(s))
  /\ Moves(s, IF conv[Partners(s)] = "none" THEN "alone" ELSE "pausing")
  /\ Reads

\* ... and commits.
Block(s) ==
  LET rows == call[s].rows
      p == Partners(s)
  IN  /\ call[s].pc \in {"pausing", "alone"} /\ Ends(s)
      /\ blocks' = blocks \cup {<<Who[s], call[s].to>>}
      /\ request' = [id \in RequestIds |->
                       IF id \in rows THEN [request[id] EXCEPT !.status = "CANCELLED"] ELSE request[id]]
      /\ conv' = IF At(s, "alone") THEN conv ELSE [conv EXCEPT ![p] = "PAUSED"]
      /\ UNCHANGED <<message, cooldown, uses, hold, mod>>

\* unblockMember
Unblock(s, b) ==
  /\ Free(s) /\ <<Who[s], b>> \in blocks
  /\ blocks' = blocks \ {<<Who[s], b>>}
  /\ UNCHANGED <<request, message, conv, cooldown, uses, hold, call, mod>>

\* sendMessage: the key is looked up, ...
Type(s, b, k) ==
  /\ Free(s) /\ b # Who[s]
  /\ message[<<Who[s], k>>].status = "none" /\ conv[{Who[s], b}] # "none"
  /\ call' = [call EXCEPT ![s] = [Idle EXCEPT !.pc = "typed", !.id = <<Who[s], k>>, !.to = b]]
  /\ Reads

\* ... the transaction reads the conversation and the blocks, ...
CheckSend(s) ==
  /\ At(s, "typed") /\ Moves(s, "sending")
  /\ ~Blocked(Partners(s)) /\ conv[Partners(s)] = "ACTIVE"
  /\ Reads

\* ... and the message is delivered, or held.
Deliver(s) ==
  LET id == call[s].id
  IN  /\ At(s, "sending") /\ Ends(s)
      /\ message[id].status = "none" /\ ~ConvLocked(Partners(s))
      /\ message' = [message EXCEPT ![id] = [status |-> "DELIVERED", to |-> call[s].to]]
      /\ UNCHANGED <<request, conv, blocks, cooldown, uses, hold, mod>>

HoldMessage(s, h) ==
  /\ At(s, "sending") /\ Ends(s)
  /\ NextHold(h)
  /\ hold' = [hold EXCEPT ![h] = Held(call[s].id, call[s].to, FALSE)]
  /\ UNCHANGED <<request, message, conv, blocks, cooldown, uses, mod>>

\* A refusal (also for a preference, a restriction, the profile or the rate of
\* sending, which are not modelled), a duplicate key, an error or a death.
Abort(s) == ~Free(s) /\ Ends(s) /\ Reads

SessionStep(s) ==
  \/ \E b \in Members, k \in RequestKeys, again \in BOOLEAN : Ask(s, b, k, again)
  \/ \E h \in Holds : HoldRequest(s, h) \/ HoldMessage(s, h)
  \/ Recheck(s) \/ CountUse(s) \/ Create(s)
  \/ \E id \in RequestIds : BeginAccept(s, id) \/ BeginReject(s, id) \/ BeginCancel(s, id)
  \/ Accept(s) \/ Reject(s) \/ Cancel(s)
  \/ \E b \in Members : BeginBlock(s, b) \/ Unblock(s, b)
  \/ PauseConversation(s) \/ Block(s)
  \/ \E b \in Members, k \in MessageKeys : Type(s, b, k)
  \/ CheckSend(s) \/ Deliver(s) \/ Abort(s)

-----------------------------------------------------------------------------
(***************************************************************************)
(* Moderators.                                                             *)
(***************************************************************************)
heldBy(d) == hold[mod[d].hold]
Parties(h) == {hold[h].id[1], hold[h].to}
Leaves(d) == mod' = [mod EXCEPT ![d] = Away]
Looks(d, h, pc) == mod' = [mod EXCEPT ![d] = [Away EXCEPT !.pc = pc, !.hold = h]]
Judges == UNCHANGED <<request, message, conv, blocks, cooldown, uses, hold, call>>

\* releaseModerationHold: a block, a paused conversation or, for a request, the
\* recipient's preferences reject the hold.
BeginRelease(d, h) ==
  /\ mod[d] = Away /\ hold[h].status = "HELD"
  /\ \/ (Blocked(Parties(h)) \/ hold[h].id \in RequestIds) /\ Looks(d, h, "reject")
     \/ hold[h].id \in MessageIds /\ conv[Parties(h)] # "ACTIVE" /\ Looks(d, h, "reject")
     \/ ~Blocked(Parties(h)) /\ hold[h].id \in RequestIds /\ Looks(d, h, "request")
     \/ /\ ~Blocked(Parties(h)) /\ hold[h].id \in MessageIds /\ conv[Parties(h)] = "ACTIVE"
        /\ Looks(d, h, "message")
  /\ Judges

Resolves(d, status) ==
  /\ Leaves(d) /\ hold' = [hold EXCEPT ![mod[d].hold].status = status]

RejectHold(d) ==
  /\ mod[d].pc = "reject" /\ Resolves(d, "REJECTED")
  /\ UNCHANGED <<request, message, conv, blocks, cooldown, uses, call>>

\* A held request uses the allowance when it is released, not before.  That the
\* allowance is spent undoes the transaction, and so the rejection.
CountHeldUse(d) ==
  LET m == heldBy(d).id[1]
  IN  /\ mod[d].pc = "request" /\ MayUse(m)
      /\ mod' = [mod EXCEPT ![d].pc = "counted", ![d].locked = Uses(m) # {}]
      /\ Judges

ReleaseRequestActivating(d) ==
  LET id == heldBy(d).id
      p == {id[1], heldBy(d).to}
  IN  /\ mod[d].pc = "counted" /\ Resolves(d, "RELEASED")
      /\ request[id].status = "none" /\ id \notin uses
      /\ uses' = uses \cup {id}
      /\ request' = [request EXCEPT ![id] = [status |-> "PENDING", to |-> heldBy(d).to]]
      /\ conv' = IF heldBy(d).again THEN [conv EXCEPT ![p] = "ACTIVE"] ELSE conv
      /\ UNCHANGED <<message, blocks, cooldown, call>>

\* For a resumption the conversation is created if there is none.
ReleaseRequest(d) ==
  LET id == heldBy(d).id
      p == {id[1], heldBy(d).to}
  IN  /\ mod[d].pc = "counted" /\ Resolves(d, "RELEASED")
      /\ request[id].status = "none" /\ id \notin uses
      /\ uses' = uses \cup {id}
      /\ request' = [request EXCEPT ![id] = [status |-> "PENDING", to |-> heldBy(d).to]]
      /\ conv' = IF heldBy(d).again /\ conv[p] = "none" THEN [conv EXCEPT ![p] = "ACTIVE"] ELSE conv
      /\ UNCHANGED <<message, blocks, cooldown, call>>

\* A held message is delivered and then its hold marked, in two statements.
ReleaseMessage(d) ==
  LET id == heldBy(d).id
  IN  /\ mod[d].pc = "message" /\ mod' = [mod EXCEPT ![d].pc = "mark"]
      /\ message[id].status = "none"
      /\ message' = [message EXCEPT ![id] = [status |-> "DELIVERED", to |-> heldBy(d).to]]
      /\ UNCHANGED <<request, conv, blocks, cooldown, uses, hold, call>>

MarkReleased(d) ==
  /\ mod[d].pc = "mark" /\ Resolves(d, "RELEASED")
  /\ UNCHANGED <<request, message, conv, blocks, cooldown, uses, call>>

GiveUp(d) == mod[d] # Away /\ Leaves(d) /\ Judges

\* removeReportedContent
RemoveMessage(id) ==
  /\ message[id].status = "DELIVERED"
  /\ message' = [message EXCEPT ![id].status = "REMOVED"]
  /\ UNCHANGED <<request, conv, blocks, cooldown, uses, hold, call, mod>>

RemoveRequest(id) ==
  /\ request[id].status = "PENDING" /\ ~RowLocked(id)
  /\ request' = [request EXCEPT ![id].status = "CANCELLED"]
  /\ UNCHANGED <<message, conv, blocks, cooldown, uses, hold, call, mod>>

ModeratorStep(d) ==
  \/ \E h \in Holds : BeginRelease(d, h)
  \/ RejectHold(d) \/ CountHeldUse(d) \/ ReleaseRequest(d)
  \/ ReleaseMessage(d) \/ MarkReleased(d) \/ GiveUp(d)

Next ==
  \/ \E s \in Sessions : SessionStep(s)
  \/ \E d \in Moderators : ModeratorStep(d)
  \/ \E id \in MessageIds : RemoveMessage(id)
  \/ \E id \in RequestIds : RemoveRequest(id)
  \/ \E p \in Pairs : CooldownEnds(p)

Spec == Init /\ [][Next]_vars

-----------------------------------------------------------------------------
(***************************************************************************)
(* Correctness.                                                            *)
(***************************************************************************)
TypeOK ==
  /\ request \in [RequestIds -> Request]
  /\ message \in [MessageIds -> Message]
  /\ conv \in [Pairs -> {"none", "ACTIVE", "PAUSED"}]
  /\ blocks \subseteq Members \X Members
  /\ cooldown \subseteq Pairs
  /\ uses \subseteq RequestIds
  /\ hold \in [Holds -> Hold]
  /\ call \in [Sessions -> Call]
  /\ mod \in [Moderators -> Mod]

\* "PENDING -> ACCEPTED | REJECTED | CANCELLED": whichever of an acceptance, a
\* rejection, a cancellation, a block and a removal comes first, the others find
\* the request resolved.
ResolvedStays ==
  [][\A id \in RequestIds :
       request[id].status \in {"ACCEPTED", "REJECTED", "CANCELLED"} => request'[id] = request[id]]_vars

\* "Rejected/cancelled requests do not refund.  Failed/blocked/moderated-out
\* creations do not consume": the allowance is used by the requests there are.
UsesMatchRequests == uses = {id \in RequestIds : request[id].status # "none"}

\* "Acceptance creates or returns the conversation", "Resume requires a new
\* resumption request + acceptance": nothing else opens one.
OpenedByConsent ==
  [][\A p \in Pairs : conv[p] # "ACTIVE" /\ conv'[p] = "ACTIVE" =>
       \E id \in PendingOf(p) : request'[id].status = "ACCEPTED"]_vars

\* "Existing conversation messaging paused": a blocked pair's conversation is
\* never open, whatever requests of the pair were under way when the block came.
\* (For members with one session each; and a request that a moderator releases
\* while the block is being written can be accepted beside it.)
WasHeld(id) == \E h \in Holds : hold[h].id = id
BlockedIsPaused ==
  \A p \in Pairs : Blocked(p) /\ conv[p] = "ACTIVE" =>
    \E id \in RequestIds : Between(id) = p /\ request[id].status = "ACCEPTED" /\ WasHeld(id)

\* conversations.ts: "send cannot race past a completed block".
NoSendPastBlock ==
  [][\A id \in MessageIds :
       message[id].status = "none" /\ message'[id].status = "DELIVERED" =>
         ~Blocked({id[1], message'[id].to})]_vars

=============================================================================
