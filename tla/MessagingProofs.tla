-------------------------- MODULE MessagingProofs --------------------------
(***************************************************************************)
(* What Messaging keeps for every number of members, sessions, moderators  *)
(* and keys: its types, that resolved requests stay resolved, that the     *)
(* allowance matches the requests, that only an acceptance opens a         *)
(* conversation and, if each member has one session, that a blocked pair's *)
(* conversation is paused.                                                 *)
(***************************************************************************)
EXTENDS Messaging, TLAPS

\* A session in the middle of something knows its pair and, but for a block,
\* its request or message.
Sound(s) ==
  /\ call[s].pc # "idle" => call[s].to \in Members /\ call[s].to # Who[s]
  /\ call[s].pc \in {"asked", "checked", "counted", "accepting", "rejecting", "cancelling"} =>
       call[s].id \in RequestIds
  /\ call[s].pc \in {"typed", "sending"} => call[s].id \in MessageIds
  /\ call[s].pc \in {"asked", "checked", "counted", "typed", "sending"} => call[s].id[1] = Who[s]
  /\ call[s].pc = "asked" /\ call[s].again => conv[Partners(s)] # "none"
  /\ call[s].pc = "pausing" => conv[Partners(s)] # "none"
  /\ call[s].pc = "accepting" =>
       call[s].to = call[s].id[1] /\ request[call[s].id].to = Who[s]

\* A request has a recipient other than its sender.
Sent(id) == request[id].status # "none" => request[id].to \in Members /\ request[id].to # id[1]

\* A hold is of a message or of a request, a resumption of one that there is a
\* conversation for.
Kept(h) ==
  hold[h].status # "none" =>
    /\ hold[h].id \in Ids /\ hold[h].to \in Members /\ hold[h].to # hold[h].id[1]
    /\ hold[h].again => conv[Parties(h)] # "none"

\* A moderator is at work on a hold.
Working(d) ==
  /\ mod[d].pc # "idle" => mod[d].hold \in Holds /\ hold[mod[d].hold].status # "none"
  /\ mod[d].pc \in {"request", "counted"} => hold[mod[d].hold].id \in RequestIds
  /\ mod[d].pc \in {"message", "mark"} => hold[mod[d].hold].id \in MessageIds

\* Locked requests are pending, and locked once.
LocksHold ==
  /\ \A s \in Sessions : \A id \in Locks(s) : id \in RequestIds /\ request[id].status = "PENDING"
  /\ \A s, t \in Sessions : s # t => Locks(s) \cap Locks(t) = {}

Inv == /\ TypeOK
       /\ \A s \in Sessions : Sound(s)
       /\ \A id \in RequestIds : Sent(id)
       /\ \A h \in Holds : Kept(h)
       /\ \A d \in Moderators : Working(d)
       /\ LocksHold
       /\ UsesMatchRequests

-----------------------------------------------------------------------------
(***************************************************************************)
(* What a step may do to the requests, the conversations and the holds.    *)
(***************************************************************************)
Resolved == {"ACCEPTED", "REJECTED", "CANCELLED"}

RequestStep ==
  \A id \in RequestIds :
    \/ request'[id] = request[id]
    \/ request[id].status = "none" /\ request'[id].status = "PENDING"
    \/ /\ request[id].status = "PENDING" /\ request'[id].status \in Resolved
       /\ request'[id].to = request[id].to

ConvStep ==
  \A p \in Pairs :
    \/ conv'[p] = conv[p]
    \/ conv[p] # "none" /\ conv'[p] = "PAUSED"
    \/ conv'[p] = "ACTIVE" /\ \E id \in PendingOf(p) : request'[id].status = "ACCEPTED"

HoldStep ==
  \A h \in Holds :
    hold[h].status # "none" =>
      /\ hold'[h].status # "none" /\ hold'[h].id = hold[h].id
      /\ hold'[h].to = hold[h].to /\ hold'[h].again = hold[h].again

\* Where there is no hold, none was.
FreshStep == \A h \in Holds : hold'[h].status = "none" => hold'[h] = hold[h]

Step == Inv' /\ RequestStep /\ ConvStep /\ HoldStep

LEMMA Records ==
  /\ Idle \in Call /\ Idle.pc = "idle" /\ Idle.rows = {}
  /\ Away \in Mod /\ Away.pc = "idle"
  /\ Unsent \in Request /\ Unsent \in Message /\ Unsent.status = "none"
  /\ NoHeld \in Hold /\ NoHeld.status = "none"
BY DEF Idle, Call, Away, Mod, Unsent, Request, Message, NoHeld, Hold

LEMMA PairsMade ==
  ASSUME NEW m \in Members, NEW n \in Members, m # n
  PROVE  {m, n} \in Pairs
BY DEF Pairs

\* A session's step: what has to be shown of the session itself.
LEMMA CallKept ==
  ASSUME Inv, NEW s \in Sessions, call'[s] = call[s], RequestStep, ConvStep, TypeOK'
  PROVE  Sound(s)'
<1>1. Sound(s) /\ call[s] \in Call /\ Locks(s)' = Locks(s)
  BY DEF Inv, TypeOK, Locks
<1>2. Who[s] \in Members /\ Partners(s)' = Partners(s)
  BY MessagingAssumption DEF Partners
<1>3. CASE call[s].pc = "accepting"
  <2>1. call[s].id \in RequestIds /\ request[call[s].id].status = "PENDING"
    BY <1>3 DEF Inv, LocksHold, Locks
  <2>2. request'[call[s].id].to = request[call[s].id].to
    BY <2>1 DEF RequestStep
  <2> QED BY <1>1, <1>3, <2>2 DEF Sound
<1>4. CASE call[s].pc \in {"asked", "pausing"}
  <2>1. Partners(s) \in Pairs
    BY <1>1, <1>2, <1>4, PairsMade DEF Sound, Partners
  <2>2. conv[Partners(s)] # "none" => conv'[Partners(s)] # "none"
    BY <2>1 DEF ConvStep
  <2> QED BY <1>1, <1>2, <1>4, <2>2 DEF Sound
<1> QED BY <1>1, <1>3, <1>4 DEF Sound

LEMMA HoldKept ==
  ASSUME Inv, NEW h \in Holds, hold[h].status # "none", HoldStep, ConvStep, TypeOK'
  PROVE  Kept(h)'
<1>1. Kept(h) /\ Parties(h)' = Parties(h)
  BY DEF Inv, HoldStep, Parties
<1>2. hold[h].id[1] \in Members
  BY <1>1 DEF Kept, Ids, RequestIds, MessageIds
<1>3. Parties(h) \in Pairs
  BY <1>1, <1>2, PairsMade DEF Kept, Parties
<1> QED BY <1>1, <1>3 DEF Kept, HoldStep, ConvStep

LEMMA ModKept ==
  ASSUME Inv, NEW d \in Moderators, mod'[d] = mod[d], HoldStep
  PROVE  Working(d)'
<1>1. Working(d)
  BY DEF Inv
<1> QED BY <1>1 DEF Working, HoldStep

LEMMA SentKept ==
  ASSUME Inv, RequestStep, NEW id \in RequestIds, request[id].status # "none"
  PROVE  Sent(id)'
BY DEF Inv, Sent, RequestStep

\* Whoever only releases locks, and whoever takes locks that are free.
LEMMA LocksKept ==
  ASSUME Inv, \A s \in Sessions : Locks(s)' \subseteq Locks(s),
         \A s \in Sessions : \A id \in Locks(s)' : request'[id] = request[id]
  PROVE  LocksHold'
BY DEF Inv, LocksHold

LEMMA LocksTaken ==
  ASSUME Inv, NEW s \in Sessions, UNCHANGED request,
         \A t \in Sessions \ {s} : call'[t] = call[t],
         \A id \in Locks(s)' : id \in RequestIds /\ request[id].status = "PENDING" /\ ~RowLocked(id)
  PROVE  LocksHold'
<1>1. \A t \in Sessions \ {s} : Locks(t)' = Locks(t)
  BY DEF Locks
<1>2. \A t \in Sessions \ {s} : Locks(s)' \cap Locks(t) = {}
  BY DEF RowLocked
<1> QED BY <1>1, <1>2 DEF Inv, LocksHold

\* The whole of it.
LEMMA Keeps ==
  ASSUME Inv, TypeOK', RequestStep, ConvStep, HoldStep, LocksHold', UsesMatchRequests',
         \A s \in Sessions : call'[s] = call[s] \/ Sound(s)',
         \A id \in RequestIds : request[id].status # "none" \/ Sent(id)',
         \A h \in Holds : hold[h].status # "none" \/ Kept(h)',
         \A d \in Moderators : mod'[d] = mod[d] \/ Working(d)'
  PROVE  Step
<1>1. \A s \in Sessions : Sound(s)'
  BY CallKept
<1>2. \A id \in RequestIds : Sent(id)'
  BY SentKept
<1>3. \A h \in Holds : Kept(h)'
  BY HoldKept
<1>4. \A d \in Moderators : Working(d)'
  BY ModKept
<1> QED BY <1>1, <1>2, <1>3, <1>4 DEF Step, Inv

-----------------------------------------------------------------------------
(***************************************************************************)
(* The steps of a session that only read.                                  *)
(***************************************************************************)
LEMMA CallSet ==
  ASSUME TypeOK, NEW s \in Sessions, NEW c \in Call, call' = [call EXCEPT ![s] = c]
  PROVE  /\ call' \in [Sessions -> Call] /\ call'[s] = c
         /\ \A t \in Sessions \ {s} : call'[t] = call[t]
BY DEF TypeOK

LEMMA CallMoves ==
  ASSUME TypeOK, NEW s \in Sessions,
         NEW pc \in {"checked", "counted", "sending"}, NEW locked \in BOOLEAN
  PROVE  LET c == [call[s] EXCEPT !.pc = pc, !.locked = locked]
         IN  /\ c \in Call /\ c.pc = pc /\ c.id = call[s].id /\ c.to = call[s].to
             /\ [call EXCEPT ![s].pc = pc, ![s].locked = locked] = [call EXCEPT ![s] = c]
             /\ [call EXCEPT ![s].pc = pc] =
                  [call EXCEPT ![s] = [call[s] EXCEPT !.pc = pc, !.locked = call[s].locked]]
<1>1. call[s] \in Call
  BY DEF TypeOK
<1>2. [call[s] EXCEPT !.pc = pc, !.locked = locked] \in Call
  BY <1>1 DEF Call
<1> QED BY <1>1, <1>2 DEF Call, TypeOK

LEMMA ReadsStep ==
  ASSUME Inv, Reads, NEW s \in Sessions, NEW c \in Call, call' = [call EXCEPT ![s] = c], Sound(s)',
         \A id \in Locks(s)' : id \in RequestIds /\ request[id].status = "PENDING" /\ ~RowLocked(id)
  PROVE  Step
<1>1. /\ call' \in [Sessions -> Call]
      /\ \A t \in Sessions \ {s} : call'[t] = call[t]
  BY CallSet DEF Inv
<1>2. TypeOK'
  BY <1>1 DEF Inv, TypeOK, Reads
<1>3. RequestStep /\ ConvStep /\ HoldStep /\ UsesMatchRequests'
  BY DEF Inv, Reads, RequestStep, ConvStep, HoldStep, UsesMatchRequests
<1>4. LocksHold'
  BY <1>1, LocksTaken DEF Reads
<1>5. \A id \in RequestIds : Sent(id)'
  BY DEF Inv, Reads, Sent
<1>6. \A h \in Holds : Kept(h)'
  BY DEF Inv, Reads, Kept, Parties
<1>7. \A d \in Moderators : mod'[d] = mod[d]
  BY DEF Reads
<1> QED BY <1>1, <1>2, <1>3, <1>4, <1>5, <1>6, <1>7, Keeps

LEMMA ReadingSteps ==
  ASSUME Inv, NEW s \in Sessions,
         \/ \E b \in Members, k \in RequestKeys, again \in BOOLEAN : Ask(s, b, k, again)
         \/ Recheck(s) \/ CountUse(s)
         \/ \E id \in RequestIds : BeginReject(s, id) \/ BeginCancel(s, id)
         \/ \E b \in Members, k \in MessageKeys : Type(s, b, k)
         \/ CheckSend(s) \/ Abort(s)
  PROVE  Step
<1> USE Records
<1>1. Who[s] \in Members /\ Sound(s) /\ TypeOK /\ call[s] \in Call
  BY MessagingAssumption DEF Inv, TypeOK
<1>2. ASSUME NEW b \in Members, NEW k \in RequestKeys, NEW again \in BOOLEAN, Ask(s, b, k, again)
      PROVE  Step
  <2> DEFINE c == [Idle EXCEPT !.pc = "asked", !.id = <<Who[s], k>>, !.to = b, !.again = again]
  <2>1. c \in Call /\ c.pc = "asked" /\ c.id = <<Who[s], k>> /\ c.to = b /\ c.again = again
    BY <1>1 DEF Idle, Call, Ids, RequestIds
  <2>2. call' = [call EXCEPT ![s] = c] /\ Reads /\ b # Who[s]
        /\ (again => conv[{Who[s], b}] = "PAUSED")
    BY <1>2 DEF Ask
  <2> HIDE DEF c
  <2>3. call'[s] = c
    BY <1>1, <2>1, <2>2, CallSet
  <2>4. Locks(s)' = {} /\ c.id \in RequestIds /\ c.id[1] = Who[s]
    BY <1>1, <2>1, <2>3 DEF Locks, RequestIds
  <2>5. Partners(s)' = {Who[s], b} /\ conv' = conv
    BY <2>1, <2>2, <2>3 DEF Partners, Reads
  <2>6. Sound(s)'
    BY <2>1, <2>2, <2>3, <2>4, <2>5 DEF Sound
  <2> QED BY <2>1, <2>2, <2>4, <2>6, ReadsStep
<1>3. ASSUME NEW pc \in {"checked", "counted", "sending"}, NEW locked \in BOOLEAN, Reads,
             call' = [call EXCEPT ![s] = [call[s] EXCEPT !.pc = pc, !.locked = locked]],
             pc = "sending" => call[s].pc = "typed",
             pc # "sending" => call[s].pc \in {"asked", "checked"}
      PROVE  Step
  <2> DEFINE c == [call[s] EXCEPT !.pc = pc, !.locked = locked]
  <2>1. c \in Call /\ c.pc = pc /\ c.id = call[s].id /\ c.to = call[s].to
    BY <1>1 DEF Call
  <2>2. call' = [call EXCEPT ![s] = c]
    BY <1>3
  <2> HIDE DEF c
  <2>3. call'[s] = c
    BY <1>1, <2>1, <2>2, CallSet
  <2>4. Locks(s)' = {}
    BY <2>1, <2>3 DEF Locks
  <2>5. CASE pc = "sending"
    <3>1. c.id \in MessageIds /\ c.id[1] = Who[s] /\ c.to \in Members /\ c.to # Who[s]
      BY <1>1, <1>3, <2>1, <2>5 DEF Sound
    <3>2. Sound(s)'
      BY <2>1, <2>3, <2>5, <3>1 DEF Sound
    <3> QED BY <1>3, <2>1, <2>2, <2>4, <3>2, ReadsStep
  <2>6. CASE pc # "sending"
    <3>1. c.id \in RequestIds /\ c.id[1] = Who[s] /\ c.to \in Members /\ c.to # Who[s]
      BY <1>1, <1>3, <2>1, <2>6 DEF Sound
    <3>2. Sound(s)'
      BY <2>1, <2>3, <2>6, <3>1 DEF Sound
    <3> QED BY <1>3, <2>1, <2>2, <2>4, <3>2, ReadsStep
  <2> QED BY <2>5, <2>6
<1>l. call[s].locked \in BOOLEAN
  BY <1>1 DEF Call
<1>4. CASE Recheck(s)
  <2>1. /\ Reads /\ call[s].pc = "asked"
        /\ call' = [call EXCEPT ![s] = [call[s] EXCEPT !.pc = "checked", !.locked = call[s].locked]]
    BY <1>1, <1>l, <1>4, CallMoves DEF Recheck, Moves, At
  <2> QED BY <1>3, <1>l, <2>1
<1>5. CASE CheckSend(s)
  <2>1. /\ Reads /\ call[s].pc = "typed"
        /\ call' = [call EXCEPT ![s] = [call[s] EXCEPT !.pc = "sending", !.locked = call[s].locked]]
    BY <1>1, <1>l, <1>5, CallMoves DEF CheckSend, Moves, At
  <2> QED BY <1>3, <1>l, <2>1
<1>6. CASE CountUse(s)
  <2> DEFINE locked == Uses(Who[s]) # {}
  <2>1. locked \in BOOLEAN /\ Reads /\ call[s].pc = "checked"
    BY <1>6 DEF CountUse, At
  <2>2. call' = [call EXCEPT ![s].pc = "counted", ![s].locked = locked]
    BY <1>6 DEF CountUse
  <2> HIDE DEF locked
  <2>3. call' = [call EXCEPT ![s] = [call[s] EXCEPT !.pc = "counted", !.locked = locked]]
    BY <1>1, <2>1, <2>2, CallMoves
  <2> QED BY <1>3, <2>1, <2>3
<1>7. ASSUME NEW id \in RequestIds, BeginReject(s, id) \/ BeginCancel(s, id)
      PROVE  Step
  <2>1. PICK pc \in {"rejecting", "cancelling"}, to \in Members \ {Who[s]} :
          Reads /\ call' = [call EXCEPT ![s] = [Idle EXCEPT !.pc = pc, !.id = id, !.to = to]]
    <3>1. id[1] \in Members /\ request[id].status = "PENDING" /\ Sent(id)
      BY <1>7 DEF BeginReject, BeginCancel, Inv, RequestIds
    <3> QED BY <1>7, <3>1 DEF BeginReject, BeginCancel, Sent
  <2> DEFINE c == [Idle EXCEPT !.pc = pc, !.id = id, !.to = to]
  <2>2. c \in Call /\ c.pc = pc /\ c.id = id /\ c.to = to
    BY <1>7 DEF Idle, Call, Ids
  <2>3. call' = [call EXCEPT ![s] = c]
    BY <2>1
  <2> HIDE DEF c
  <2>4. call'[s] = c
    BY <1>1, <2>2, <2>3, CallSet
  <2>5. Sound(s)' /\ Locks(s)' = {}
    BY <1>7, <2>2, <2>4 DEF Sound, Locks
  <2> QED BY <2>1, <2>2, <2>3, <2>5, ReadsStep
<1>8. ASSUME NEW b \in Members, NEW k \in MessageKeys, Type(s, b, k)
      PROVE  Step
  <2> DEFINE c == [Idle EXCEPT !.pc = "typed", !.id = <<Who[s], k>>, !.to = b]
  <2>1. c \in Call /\ c.pc = "typed" /\ c.id = <<Who[s], k>> /\ c.to = b
    BY <1>1 DEF Idle, Call, Ids, MessageIds
  <2>2. call' = [call EXCEPT ![s] = c] /\ Reads /\ b # Who[s]
    BY <1>8 DEF Type
  <2> HIDE DEF c
  <2>3. call'[s] = c
    BY <1>1, <2>1, <2>2, CallSet
  <2>4. Sound(s)' /\ Locks(s)' = {}
    BY <1>1, <2>1, <2>2, <2>3 DEF Sound, Locks, MessageIds
  <2> QED BY <2>1, <2>2, <2>4, ReadsStep
<1>9. CASE Abort(s)
  <2>1. call'[s] = Idle /\ Reads /\ call' = [call EXCEPT ![s] = Idle]
    BY <1>1, <1>9, CallSet DEF Abort, Ends
  <2>2. Sound(s)' /\ Locks(s)' = {}
    BY <2>1 DEF Sound, Locks
  <2> QED BY <2>1, <2>2, ReadsStep
<1> QED BY <1>2, <1>4, <1>5, <1>6, <1>7, <1>8, <1>9

LEMMA LockingSteps ==
  ASSUME Inv, NEW s \in Sessions,
         \/ \E id \in RequestIds : BeginAccept(s, id)
         \/ \E b \in Members : BeginBlock(s, b)
  PROVE  Step
<1> USE Records
<1>1. Who[s] \in Members /\ TypeOK
  BY MessagingAssumption DEF Inv
<1>2. ASSUME NEW id \in RequestIds, BeginAccept(s, id)
      PROVE  Step
  <2> DEFINE c == [Idle EXCEPT !.pc = "accepting", !.id = id, !.to = id[1]]
  <2>1. id[1] \in Members /\ id[1] # Who[s]
    BY <1>2 DEF BeginAccept, Inv, Sent, RequestIds
  <2>2. c \in Call /\ c.pc = "accepting" /\ c.id = id /\ c.to = id[1]
    BY <1>2, <2>1 DEF Idle, Call, Ids
  <2>3. /\ call' = [call EXCEPT ![s] = c] /\ Reads /\ request[id].to = Who[s]
        /\ request[id].status = "PENDING" /\ ~RowLocked(id)
    BY <1>2 DEF BeginAccept
  <2> HIDE DEF c
  <2>4. call'[s] = c
    BY <1>1, <2>2, <2>3, CallSet
  <2>5. Sound(s)' /\ Locks(s)' = {id}
    BY <1>2, <2>1, <2>2, <2>3, <2>4 DEF Sound, Locks, Reads
  <2> QED BY <2>2, <2>3, <2>5, ReadsStep
<1>3. ASSUME NEW b \in Members, BeginBlock(s, b)
      PROVE  Step
  <2> DEFINE rows == PendingOf({Who[s], b})
             c == [Idle EXCEPT !.pc = "blocking", !.to = b, !.rows = rows]
  <2>1. rows \subseteq RequestIds /\ \A id \in rows : request[id].status = "PENDING"
    BY DEF PendingOf
  <2>2. c \in Call /\ c.pc = "blocking" /\ c.rows = rows /\ c.to = b
    BY <1>3, <2>1 DEF Idle, Call
  <2>3. /\ call' = [call EXCEPT ![s] = c] /\ Reads /\ b # Who[s] /\ \A id \in rows : ~RowLocked(id)
    BY <1>3 DEF BeginBlock
  <2> HIDE DEF rows, c
  <2>4. call'[s] = c
    BY <1>1, <2>2, <2>3, CallSet
  <2>5. Sound(s)' /\ Locks(s)' = rows
    BY <1>3, <2>2, <2>3, <2>4 DEF Sound, Locks
  <2> QED BY <2>1, <2>2, <2>3, <2>5, ReadsStep
<1> QED BY <1>2, <1>3

\* A block keeps its locks and takes, if there is one, the conversation's.
LEMMA PauseStep ==
  ASSUME Inv, NEW s \in Sessions, PauseConversation(s)
  PROVE  Step
<1> DEFINE pc == IF conv[Partners(s)] = "none" THEN "alone" ELSE "pausing"
           c == [call[s] EXCEPT !.pc = pc]
<1>1. call[s].pc = "blocking" /\ Reads /\ call[s] \in Call /\ Sound(s) /\ TypeOK
  BY DEF PauseConversation, At, Inv, TypeOK
<1>2. pc \in {"alone", "pausing"} /\ (pc = "pausing" => conv[Partners(s)] # "none")
  OBVIOUS
<1>3. call' = [call EXCEPT ![s].pc = pc]
  BY DEF PauseConversation, Moves
<1> HIDE DEF pc
<1>4. c \in Call /\ c.pc = pc /\ c.to = call[s].to /\ c.rows = call[s].rows
  BY <1>1, <1>2 DEF Call
<1>5. call' = [call EXCEPT ![s] = c]
  BY <1>3
<1> HIDE DEF c
<1>6. /\ call' \in [Sessions -> Call] /\ call'[s] = c
      /\ \A t \in Sessions \ {s} : call'[t] = call[t]
  BY <1>1, <1>4, <1>5, CallSet
<1>7. Sound(s)'
  BY <1>1, <1>2, <1>4, <1>6 DEF Sound, Partners, Reads
<1>8. \A t \in Sessions : Locks(t)' = Locks(t)
  BY <1>1, <1>2, <1>4, <1>6 DEF Locks
<1>9. LocksHold'
  BY <1>1, <1>8, LocksKept DEF Reads
<1>10. TypeOK' /\ RequestStep /\ ConvStep /\ HoldStep /\ UsesMatchRequests'
  BY <1>1, <1>6 DEF Inv, TypeOK, Reads, RequestStep, ConvStep, HoldStep, UsesMatchRequests
<1>11. \A id \in RequestIds : Sent(id)'
  BY <1>1 DEF Inv, Reads, Sent
<1>12. \A h \in Holds : Kept(h)'
  BY <1>1 DEF Inv, Reads, Kept, Parties
<1>13. \A d \in Moderators : mod'[d] = mod[d]
  BY <1>1 DEF Reads
<1> QED BY <1>6, <1>7, <1>9, <1>10, <1>11, <1>12, <1>13, Keeps

-----------------------------------------------------------------------------
(***************************************************************************)
(* The steps of a session that write.                                      *)
(***************************************************************************)
LEMMA Ended ==
  ASSUME Inv, NEW s \in Sessions, Ends(s)
  PROVE  /\ call' \in [Sessions -> Call] /\ Locks(s)' = {}
         /\ \A t \in Sessions \ {s} : call'[t] = call[t] /\ Locks(t)' = Locks(t)
         /\ \A t \in Sessions : call'[t] = call[t] \/ Sound(t)'
<1> USE Records
<1>1. /\ call' \in [Sessions -> Call] /\ call'[s] = Idle
      /\ \A t \in Sessions \ {s} : call'[t] = call[t]
  BY CallSet DEF Inv, Ends
<1>2. Sound(s)' /\ Locks(s)' = {}
  BY <1>1 DEF Sound, Locks
<1>3. \A t \in Sessions \ {s} : Locks(t)' = Locks(t)
  BY <1>1 DEF Locks
<1> QED BY <1>1, <1>2, <1>3

\* What a session knows of its pair, its request and its locks.
LEMMA Knows ==
  ASSUME Inv, NEW s \in Sessions, call[s].pc # "idle"
  PROVE  /\ Who[s] \in Members /\ call[s].to \in Members /\ call[s].to # Who[s]
         /\ Partners(s) = {Who[s], call[s].to} /\ Partners(s) \in Pairs
<1>1. Who[s] \in Members
  BY MessagingAssumption
<1>2. call[s].to \in Members /\ call[s].to # Who[s]
  BY DEF Inv, Sound
<1> QED BY <1>1, <1>2, PairsMade DEF Partners

LEMMA StatusSet ==
  ASSUME TypeOK, NEW id \in RequestIds, NEW status \in Resolved, request[id].status = "PENDING",
         request' = [request EXCEPT ![id].status = status]
  PROVE  /\ request' \in [RequestIds -> Request] /\ RequestStep
         /\ request'[id].status = status /\ request'[id].to = request[id].to
         /\ \A i \in RequestIds \ {id} : request'[i] = request[i]
<1>1. request[id] \in Request
  BY DEF TypeOK
<1>2. [request[id] EXCEPT !.status = status] \in Request
  BY <1>1 DEF Request, Resolved
<1>3. /\ request' \in [RequestIds -> Request]
      /\ request'[id].status = status /\ request'[id].to = request[id].to
      /\ \A i \in RequestIds \ {id} : request'[i] = request[i]
  BY <1>1, <1>2 DEF TypeOK, Request
<1> QED BY <1>3 DEF RequestStep

LEMMA RequestMade ==
  ASSUME TypeOK, NEW id \in RequestIds, NEW m \in Members, m # id[1], request[id].status = "none",
         request' = [request EXCEPT ![id] = [status |-> "PENDING", to |-> m]]
  PROVE  /\ request' \in [RequestIds -> Request] /\ RequestStep /\ Sent(id)'
         /\ request'[id].status = "PENDING"
         /\ \A i \in RequestIds \ {id} : request'[i] = request[i]
<1>1. [status |-> "PENDING", to |-> m] \in Request
  BY DEF Request
<1>2. /\ request' \in [RequestIds -> Request]
      /\ request'[id].status = "PENDING" /\ request'[id].to = m
      /\ \A i \in RequestIds \ {id} : request'[i] = request[i]
  BY <1>1 DEF TypeOK
<1> QED BY <1>2 DEF RequestStep, Sent

LEMMA UsesKept ==
  ASSUME Inv, RequestStep, UNCHANGED uses, TypeOK',
         \A id \in RequestIds : request[id].status = "none" => request'[id] = request[id]
  PROVE  UsesMatchRequests'
<1>1. \A id \in RequestIds : request'[id].status = "none" <=> request[id].status = "none"
  BY DEF RequestStep, Resolved
<1> QED BY <1>1 DEF Inv, UsesMatchRequests

LEMMA UsesGrow ==
  ASSUME Inv, NEW id \in RequestIds, uses' = uses \cup {id},
         request'[id].status = "PENDING", \A i \in RequestIds \ {id} : request'[i] = request[i]
  PROVE  UsesMatchRequests'
BY DEF Inv, UsesMatchRequests

LEMMA HoldingSteps ==
  ASSUME Inv, NEW s \in Sessions, NEW h \in Holds, HoldRequest(s, h) \/ HoldMessage(s, h)
  PROVE  Step
<1>1. /\ call[s].pc \in {"asked", "sending"} /\ Ends(s) /\ hold[h].status = "none"
      /\ UNCHANGED <<request, message, conv, blocks, cooldown, uses, mod>>
  BY DEF HoldRequest, HoldMessage, At, NextHold
<1>2. PICK again \in BOOLEAN :
        /\ hold' = [hold EXCEPT ![h] = Held(call[s].id, call[s].to, again)]
        /\ again => call[s].pc = "asked" /\ call[s].again
  <2>1. call[s].again \in BOOLEAN
    BY DEF Inv, TypeOK, Call
  <2> QED BY <2>1 DEF HoldRequest, HoldMessage, At
<1>3. /\ call[s].id \in Ids /\ call[s].id[1] = Who[s]
      /\ again => conv[Partners(s)] # "none"
  BY <1>1, <1>2 DEF Inv, Sound, Ids
<1>4. call[s].to \in Members /\ call[s].to # Who[s] /\ Partners(s) = {Who[s], call[s].to}
  BY <1>1, Knows
<1> DEFINE new == Held(call[s].id, call[s].to, again)
<1>5. /\ new \in Hold /\ new.status = "HELD" /\ new.id = call[s].id /\ new.to = call[s].to
      /\ new.again = again
  BY <1>3, <1>4 DEF Held, Hold
<1>6. hold' = [hold EXCEPT ![h] = new]
  BY <1>2
<1> HIDE DEF new
<1>7. /\ hold' \in [Holds -> Hold] /\ hold'[h] = new
      /\ \A g \in Holds \ {h} : hold'[g] = hold[g]
  BY <1>5, <1>6 DEF Inv, TypeOK
<1>8. HoldStep
  BY <1>1, <1>7 DEF HoldStep
<1>9. Kept(h)'
  <2>1. Parties(h)' = Partners(s)
    BY <1>3, <1>4, <1>5, <1>7 DEF Parties
  <2> QED BY <1>1, <1>3, <1>4, <1>5, <1>7, <2>1 DEF Kept
<1>10. \A g \in Holds : hold[g].status # "none" \/ Kept(g)'
  <2>1. ASSUME NEW g \in Holds, g # h PROVE hold[g].status # "none" \/ Kept(g)'
    BY <1>7, <2>1 DEF Kept
  <2> QED BY <1>9, <2>1
<1>11. TypeOK' /\ RequestStep /\ ConvStep /\ UsesMatchRequests' /\ LocksHold'
  <2>1. TypeOK' /\ RequestStep /\ ConvStep /\ UsesMatchRequests'
    BY <1>1, <1>7, Ended DEF Inv, TypeOK, RequestStep, ConvStep, UsesMatchRequests
  <2>2. \A t \in Sessions : Locks(t)' \subseteq Locks(t)
    BY <1>1, Ended
  <2> QED BY <1>1, <2>1, <2>2, LocksKept, Ended DEF Inv, LocksHold
<1>12. \A id \in RequestIds : request[id].status # "none" \/ Sent(id)'
  BY <1>1 DEF Sent
<1> QED BY <1>1, <1>8, <1>10, <1>11, <1>12, Ended, Keeps

\* A session commits: what has to be shown of what it wrote.
LEMMA Commits ==
  ASSUME Inv, NEW s \in Sessions, Ends(s), UNCHANGED <<hold, mod>>,
         request' \in [RequestIds -> Request], message' \in [MessageIds -> Message],
         conv' \in [Pairs -> {"none", "ACTIVE", "PAUSED"}], blocks' \subseteq Members \X Members,
         cooldown' \subseteq Pairs, uses' \subseteq RequestIds,
         RequestStep, ConvStep, UsesMatchRequests',
         \A t \in Sessions \ {s} : \A id \in Locks(t) : request'[id] = request[id],
         \A id \in RequestIds : request[id].status # "none" \/ Sent(id)'
  PROVE  Step
<1>1. TypeOK'
  BY Ended DEF Inv, TypeOK
<1>2. HoldStep
  BY DEF HoldStep
<1>3. LocksHold'
  <2>1. \A t \in Sessions : Locks(t)' \subseteq Locks(t)
    BY Ended
  <2>2. \A t \in Sessions : \A id \in Locks(t)' : request'[id] = request[id]
    BY Ended
  <2> QED BY <2>1, <2>2, LocksKept
<1>4. \A h \in Holds : hold[h].status # "none" \/ Kept(h)'
  BY DEF Kept
<1> QED BY <1>1, <1>2, <1>3, <1>4, Ended, Keeps

LEMMA NoSentChange ==
  ASSUME \A id \in RequestIds : request[id].status = "none" => request'[id] = request[id]
  PROVE  \A id \in RequestIds : request[id].status # "none" \/ Sent(id)'
BY DEF Sent

LEMMA CreateStep ==
  ASSUME Inv, NEW s \in Sessions, Create(s)
  PROVE  Step
<1>1. PICK id \in RequestIds :
        /\ call[s].pc = "counted" /\ Ends(s) /\ request[id].status = "none"
        /\ id[1] = Who[s] /\ uses' = uses \cup {id}
        /\ request' = [request EXCEPT ![id] = [status |-> "PENDING", to |-> call[s].to]]
        /\ UNCHANGED <<message, conv, blocks, cooldown, hold, mod>>
  <2>1. call[s].pc = "counted"
    BY DEF Create, At
  <2>2. call[s].id \in RequestIds /\ call[s].id[1] = Who[s]
    BY <2>1 DEF Inv, Sound
  <2> QED BY <2>1, <2>2 DEF Create
<1>3. call[s].to \in Members /\ call[s].to # Who[s]
  BY <1>1, Knows
<1>4. TypeOK
  BY DEF Inv
<1>5. /\ request' \in [RequestIds -> Request] /\ RequestStep /\ Sent(id)'
      /\ request'[id].status = "PENDING"
      /\ \A i \in RequestIds \ {id} : request'[i] = request[i]
  BY <1>1, <1>3, <1>4, RequestMade
<1>6. UsesMatchRequests' /\ uses' \subseteq RequestIds
  BY <1>1, <1>4, <1>5, UsesGrow DEF TypeOK
<1>7. \A t \in Sessions : \A i \in Locks(t) : request'[i] = request[i]
  BY <1>1, <1>5 DEF Inv, LocksHold
<1>8. \A i \in RequestIds : request[i].status # "none" \/ Sent(i)'
  <2>1. \A i \in RequestIds \ {id} : request[i].status # "none" \/ Sent(i)'
    BY <1>5 DEF Sent
  <2> QED BY <1>5, <2>1
<1>9. ConvStep
  BY <1>1 DEF ConvStep
<1> QED BY <1>1, <1>4, <1>5, <1>6, <1>7, <1>8, <1>9, Commits DEF TypeOK

LEMMA AcceptStep ==
  ASSUME Inv, NEW s \in Sessions, Accept(s)
  PROVE  Step
<1> DEFINE id == call[s].id
<1>1. /\ call[s].pc = "accepting" /\ Ends(s)
      /\ request' = [request EXCEPT ![id].status = "ACCEPTED"]
      /\ conv' = [conv EXCEPT ![Partners(s)] = "ACTIVE"]
      /\ UNCHANGED <<message, blocks, cooldown, uses, hold, mod>>
  BY DEF Accept, At
<1>2. /\ id \in Locks(s) /\ id \in RequestIds /\ request[id].status = "PENDING"
      /\ call[s].to = id[1] /\ request[id].to = Who[s]
  BY <1>1 DEF Inv, LocksHold, Locks, Sound
<1>3. Partners(s) \in Pairs /\ Partners(s) = Between(id)
  BY <1>1, <1>2, Knows DEF Between
<1> HIDE DEF id
<1>4. TypeOK /\ "ACCEPTED" \in Resolved
  BY DEF Inv, Resolved
<1>5. /\ request' \in [RequestIds -> Request] /\ RequestStep
      /\ request'[id].status = "ACCEPTED"
      /\ \A i \in RequestIds \ {id} : request'[i] = request[i]
  BY <1>1, <1>2, <1>4, StatusSet
<1>6. conv' \in [Pairs -> {"none", "ACTIVE", "PAUSED"}] /\ ConvStep
  <2>1. id \in PendingOf(Partners(s))
    BY <1>2, <1>3 DEF PendingOf
  <2>2. /\ conv' \in [Pairs -> {"none", "ACTIVE", "PAUSED"}]
        /\ conv'[Partners(s)] = "ACTIVE" /\ \A p \in Pairs \ {Partners(s)} : conv'[p] = conv[p]
    BY <1>1, <1>3, <1>4 DEF TypeOK
  <2> QED BY <1>5, <2>1, <2>2 DEF ConvStep
<1>7. \A i \in RequestIds : request[i].status = "none" => request'[i] = request[i]
  BY <1>2, <1>5
<1>8. \A t \in Sessions \ {s} : \A i \in Locks(t) : request'[i] = request[i]
  BY <1>2, <1>5 DEF Inv, LocksHold
<1>9. UsesMatchRequests'
  <2>1. \A i \in RequestIds : request'[i].status = "none" <=> request[i].status = "none"
    BY <1>2, <1>5
  <2> QED BY <1>1, <2>1 DEF Inv, UsesMatchRequests
<1> QED BY <1>1, <1>4, <1>5, <1>6, <1>7, <1>8, <1>9, NoSentChange, Commits DEF TypeOK

LEMMA RefusingSteps ==
  ASSUME Inv, NEW s \in Sessions, Reject(s) \/ Cancel(s)
  PROVE  Step
<1> DEFINE id == call[s].id
<1>1. /\ call[s].pc \in {"rejecting", "cancelling"} /\ Ends(s) /\ ~RowLocked(id)
      /\ cooldown' \in {cooldown, cooldown \cup {Partners(s)}}
      /\ UNCHANGED <<message, conv, blocks, uses, hold, mod>>
  BY DEF Reject, Cancel, At
<1>2. \/ UNCHANGED request
      \/ /\ request[id].status = "PENDING"
         /\ \E status \in Resolved : request' = [request EXCEPT ![id].status = status]
  BY DEF Reject, Cancel, Resolved
<1>3. id \in RequestIds /\ Partners(s) \in Pairs
  BY <1>1, Knows DEF Inv, Sound
<1> HIDE DEF id
<1>4. TypeOK
  BY DEF Inv
<1>5. /\ request' \in [RequestIds -> Request] /\ RequestStep
      /\ \A i \in RequestIds \ {id} : request'[i] = request[i]
      /\ request[id].status = "none" => request'[id] = request[id]
      /\ request'[id].status = "none" <=> request[id].status = "none"
  <2>1. CASE UNCHANGED request
    BY <1>4, <2>1 DEF TypeOK, RequestStep
  <2>2. ASSUME NEW status \in Resolved, request[id].status = "PENDING",
               request' = [request EXCEPT ![id].status = status]
        PROVE  <1>5!1 /\ <1>5!2 /\ <1>5!3 /\ <1>5!4
    BY <1>3, <1>4, <2>2, StatusSet DEF Resolved
  <2> QED BY <1>2, <2>1, <2>2
<1>6. \A i \in RequestIds : request[i].status = "none" => request'[i] = request[i]
  BY <1>5
<1>7. \A t \in Sessions : \A i \in Locks(t) : request'[i] = request[i]
  BY <1>1, <1>5 DEF RowLocked, Inv, LocksHold
<1>8. UsesMatchRequests'
  <2>1. \A i \in RequestIds : request'[i].status = "none" <=> request[i].status = "none"
    BY <1>5
  <2> QED BY <1>1, <2>1 DEF Inv, UsesMatchRequests
<1>9. ConvStep /\ cooldown' \subseteq Pairs
  BY <1>1, <1>3, <1>4 DEF ConvStep, TypeOK
<1> QED BY <1>1, <1>4, <1>5, <1>6, <1>7, <1>8, <1>9, NoSentChange, Commits DEF TypeOK

LEMMA BlockStep ==
  ASSUME Inv, NEW s \in Sessions, Block(s)
  PROVE  Step
<1> DEFINE rows == call[s].rows
           p == Partners(s)
<1>1. /\ call[s].pc \in {"pausing", "alone"} /\ Ends(s)
      /\ blocks' = blocks \cup {<<Who[s], call[s].to>>}
      /\ request' = [id \in RequestIds |->
                       IF id \in rows THEN [request[id] EXCEPT !.status = "CANCELLED"] ELSE request[id]]
      /\ conv' = IF call[s].pc = "alone" THEN conv ELSE [conv EXCEPT ![p] = "PAUSED"]
      /\ call[s].pc = "pausing" => conv[p] # "none"
      /\ UNCHANGED <<message, cooldown, uses, hold, mod>>
  BY DEF Block, At, Inv, Sound
<1>2. /\ p \in Pairs /\ Who[s] \in Members /\ call[s].to \in Members
      /\ Locks(s) = rows /\ rows \subseteq RequestIds
      /\ \A id \in rows : request[id].status = "PENDING"
  BY <1>1, Knows DEF Locks, Inv, LocksHold
<1> HIDE DEF rows, p
<1>3. TypeOK
  BY DEF Inv
<1>4. \A id \in RequestIds \ rows : request'[id] = request[id]
  BY <1>1
<1>5. ASSUME NEW id \in rows
      PROVE  /\ request'[id] \in Request /\ request'[id].status = "CANCELLED"
             /\ request'[id].to = request[id].to
  <2>1. request[id] \in Request /\ request'[id] = [request[id] EXCEPT !.status = "CANCELLED"]
    BY <1>1, <1>2, <1>3 DEF TypeOK
  <2> QED BY <2>1 DEF Request
<1>6. request' \in [RequestIds -> Request]
  <2>1. \A id \in RequestIds : request'[id] \in Request
    BY <1>3, <1>4, <1>5 DEF TypeOK
  <2>2. request' = [id \in RequestIds |-> request'[id]]
    BY <1>1
  <2> QED BY <2>1, <2>2
<1>7. RequestStep
  BY <1>2, <1>4, <1>5 DEF RequestStep, Resolved
<1>8. conv' \in [Pairs -> {"none", "ACTIVE", "PAUSED"}] /\ ConvStep
  BY <1>1, <1>2, <1>3 DEF TypeOK, ConvStep
<1>9. \A id \in RequestIds : request[id].status = "none" => request'[id] = request[id]
  BY <1>2, <1>4
<1>10. UsesMatchRequests'
  <2>1. \A id \in RequestIds : request'[id].status = "none" <=> request[id].status = "none"
    BY <1>2, <1>4, <1>5
  <2> QED BY <1>1, <2>1 DEF Inv, UsesMatchRequests
<1>11. \A t \in Sessions \ {s} : \A id \in Locks(t) : request'[id] = request[id]
  BY <1>2, <1>4 DEF Inv, LocksHold
<1>12. blocks' \subseteq Members \X Members
  BY <1>1, <1>2, <1>3 DEF TypeOK
<1> QED BY <1>1, <1>3, <1>6, <1>7, <1>8, <1>9, <1>10, <1>11, <1>12, NoSentChange, Commits DEF TypeOK

LEMMA DeliverStep ==
  ASSUME Inv, NEW s \in Sessions, Deliver(s)
  PROVE  Step
<1>1. /\ call[s].pc = "sending" /\ Ends(s)
      /\ message' = [message EXCEPT ![call[s].id] = [status |-> "DELIVERED", to |-> call[s].to]]
      /\ UNCHANGED <<request, conv, blocks, cooldown, uses, hold, mod>>
  BY DEF Deliver, At
<1>2. [status |-> "DELIVERED", to |-> call[s].to] \in Message
  BY <1>1, Knows DEF Message
<1>3. message' \in [MessageIds -> Message]
  BY <1>1, <1>2 DEF Inv, TypeOK
<1>4. RequestStep /\ ConvStep /\ UsesMatchRequests'
  BY <1>1 DEF RequestStep, ConvStep, Inv, UsesMatchRequests
<1> QED BY <1>1, <1>3, <1>4, NoSentChange, Commits DEF Inv, TypeOK

LEMMA UnblockStep ==
  ASSUME Inv, NEW s \in Sessions, NEW b \in Members, Unblock(s, b)
  PROVE  Step
<1>1. /\ blocks' = blocks \ {<<Who[s], b>>}
      /\ UNCHANGED <<request, message, conv, cooldown, uses, hold, call, mod>>
  BY DEF Unblock
<1>2. TypeOK' /\ RequestStep /\ ConvStep /\ HoldStep /\ UsesMatchRequests'
  BY <1>1 DEF Inv, TypeOK, RequestStep, ConvStep, HoldStep, UsesMatchRequests
<1>3. LocksHold'
  BY <1>1 DEF Inv, LocksHold, Locks
<1>4. /\ \A id \in RequestIds : request[id].status # "none" \/ Sent(id)'
      /\ \A h \in Holds : hold[h].status # "none" \/ Kept(h)'
  BY <1>1 DEF Sent, Kept
<1> QED BY <1>1, <1>2, <1>3, <1>4, Keeps

LEMMA SessionSteps ==
  ASSUME Inv, NEW s \in Sessions, SessionStep(s)
  PROVE  Step
<1>1. \/ \E b \in Members, k \in RequestKeys, again \in BOOLEAN : Ask(s, b, k, again)
      \/ \E h \in Holds : HoldRequest(s, h) \/ HoldMessage(s, h)
      \/ Recheck(s) \/ CountUse(s) \/ Create(s)
      \/ \E id \in RequestIds : BeginAccept(s, id) \/ BeginReject(s, id) \/ BeginCancel(s, id)
      \/ Accept(s) \/ Reject(s) \/ Cancel(s)
      \/ \E b \in Members : BeginBlock(s, b) \/ Unblock(s, b)
      \/ PauseConversation(s) \/ Block(s)
      \/ \E b \in Members, k \in MessageKeys : Type(s, b, k)
      \/ CheckSend(s) \/ Deliver(s) \/ Abort(s)
  BY DEF SessionStep
<1> QED BY <1>1, ReadingSteps, LockingSteps, PauseStep, HoldingSteps, CreateStep, AcceptStep,
           RefusingSteps, BlockStep, DeliverStep, UnblockStep

-----------------------------------------------------------------------------
(***************************************************************************)
(* The moderators and the cooldown.                                        *)
(***************************************************************************)
\* No session moves: what has to be shown of the rest.
LEMMA Moderates ==
  ASSUME Inv, UNCHANGED <<blocks, call>>,
         request' \in [RequestIds -> Request], message' \in [MessageIds -> Message],
         cooldown' \subseteq Pairs, uses' \subseteq RequestIds,
         conv' \in [Pairs -> {"none", "ACTIVE", "PAUSED"}],
         hold' \in [Holds -> Hold], mod' \in [Moderators -> Mod],
         RequestStep, ConvStep, HoldStep, UsesMatchRequests',
         \A s \in Sessions : \A id \in Locks(s) : request'[id] = request[id],
         \A id \in RequestIds : request[id].status # "none" \/ Sent(id)',
         \A h \in Holds : hold[h].status = "none" => hold'[h] = hold[h],
         \A d \in Moderators : mod'[d] = mod[d] \/ Working(d)'
  PROVE  Step
<1>1. TypeOK'
  BY DEF Inv, TypeOK
<1>2. LocksHold'
  <2>1. \A s \in Sessions : Locks(s)' = Locks(s)
    BY DEF Locks
  <2> QED BY <2>1, LocksKept
<1>3. \A h \in Holds : hold[h].status # "none" \/ Kept(h)'
  BY DEF Kept
<1> QED BY <1>1, <1>2, <1>3, Keeps

LEMMA ModSet ==
  ASSUME TypeOK, NEW d \in Moderators, NEW m \in Mod, mod' = [mod EXCEPT ![d] = m]
  PROVE  /\ mod' \in [Moderators -> Mod] /\ mod'[d] = m
         /\ \A e \in Moderators \ {d} : mod'[e] = mod[e]
BY DEF TypeOK

LEMMA Left ==
  ASSUME Inv, NEW d \in Moderators, Leaves(d)
  PROVE  /\ mod' \in [Moderators -> Mod]
         /\ \A e \in Moderators : mod'[e] = mod[e] \/ Working(e)'
<1>1. /\ mod' \in [Moderators -> Mod] /\ mod'[d] = Away
      /\ \A e \in Moderators \ {d} : mod'[e] = mod[e]
  BY Records, ModSet DEF Inv, Leaves
<1>2. Working(d)'
  BY Records, <1>1 DEF Working
<1> QED BY <1>1, <1>2

LEMMA NothingWritten ==
  ASSUME Inv, UNCHANGED <<request, conv, uses>>
  PROVE  /\ RequestStep /\ ConvStep /\ UsesMatchRequests'
         /\ \A s \in Sessions : \A id \in Locks(s) : request'[id] = request[id]
         /\ \A id \in RequestIds : request[id].status # "none" \/ Sent(id)'
BY DEF RequestStep, ConvStep, Inv, UsesMatchRequests, Sent

LEMMA JudgingSteps ==
  ASSUME Inv, NEW d \in Moderators,
         (\E h \in Holds : BeginRelease(d, h)) \/ CountHeldUse(d) \/ GiveUp(d)
  PROVE  Step
<1>1. Judges
  BY DEF BeginRelease, CountHeldUse, GiveUp
<1>2. ASSUME mod' \in [Moderators -> Mod],
             \A e \in Moderators : mod'[e] = mod[e] \/ Working(e)'
      PROVE  Step
  <2>1. HoldStep /\ \A h \in Holds : hold[h].status = "none" => hold'[h] = hold[h]
    BY <1>1 DEF Judges, HoldStep
  <2> QED BY <1>1, <1>2, <2>1, NothingWritten, Moderates DEF Judges, Inv, TypeOK
<1>3. ASSUME NEW m \in Mod, mod' = [mod EXCEPT ![d] = m], Working(d)'
      PROVE  Step
  <2>1. /\ mod' \in [Moderators -> Mod]
        /\ \A e \in Moderators \ {d} : mod'[e] = mod[e]
    BY <1>3, ModSet DEF Inv
  <2> QED BY <1>2, <1>3, <2>1
<1>4. ASSUME NEW h \in Holds, BeginRelease(d, h)
      PROVE  Step
  <2>1. PICK pc \in {"reject", "request", "message"} :
          /\ mod' = [mod EXCEPT ![d] = [Away EXCEPT !.pc = pc, !.hold = h]]
          /\ pc = "request" => hold[h].id \in RequestIds
          /\ pc = "message" => hold[h].id \in MessageIds
    BY <1>4 DEF BeginRelease, Looks
  <2> DEFINE m == [Away EXCEPT !.pc = pc, !.hold = h]
  <2>2. m \in Mod /\ m.pc = pc /\ m.hold = h
    BY DEF Away, Mod
  <2>3. mod' = [mod EXCEPT ![d] = m]
    BY <2>1
  <2> HIDE DEF m
  <2>4. mod'[d] = m
    BY <2>2, <2>3, ModSet DEF Inv
  <2>5. Working(d)'
    BY <1>1, <1>4, <2>1, <2>2, <2>4 DEF Working, Judges, BeginRelease
  <2> QED BY <1>3, <2>2, <2>3, <2>5
<1>5. CASE CountHeldUse(d)
  <2> DEFINE locked == Uses(heldBy(d).id[1]) # {}
             m == [mod[d] EXCEPT !.pc = "counted", !.locked = locked]
  <2>1. mod[d] \in Mod /\ mod[d].pc = "request" /\ Working(d)
    BY <1>5 DEF CountHeldUse, Inv, TypeOK
  <2>2. mod' = [mod EXCEPT ![d] = m]
    BY <1>5, <2>1 DEF CountHeldUse, Inv, TypeOK
  <2>3. m \in Mod /\ m.pc = "counted" /\ m.hold = mod[d].hold
    BY <2>1 DEF Mod
  <2> HIDE DEF m, locked
  <2>4. mod'[d] = m
    BY <2>2, <2>3, ModSet DEF Inv
  <2>5. Working(d)'
    BY <1>1, <2>1, <2>3, <2>4 DEF Working, Judges
  <2> QED BY <1>3, <2>2, <2>3, <2>5
<1>6. CASE GiveUp(d)
  BY <1>2, <1>6, Left DEF GiveUp
<1> QED BY <1>4, <1>5, <1>6

\* A hold that is resolved remains the same hold.
LEMMA Resolving ==
  ASSUME Inv, NEW d \in Moderators, NEW status \in {"RELEASED", "REJECTED"},
         mod[d].pc # "idle", Resolves(d, status)
  PROVE  /\ hold' \in [Holds -> Hold] /\ HoldStep
         /\ \A h \in Holds : hold[h].status = "none" => hold'[h] = hold[h]
         /\ mod' \in [Moderators -> Mod]
         /\ \A e \in Moderators : mod'[e] = mod[e] \/ Working(e)'
<1> DEFINE h == mod[d].hold
<1>1. h \in Holds /\ hold[h].status # "none" /\ hold[h] \in Hold /\ TypeOK
  BY DEF Inv, Working, TypeOK
<1>2. hold' = [hold EXCEPT ![h].status = status]
  BY DEF Resolves
<1>3. Leaves(d)
  BY DEF Resolves
<1> HIDE DEF h
<1>4. [hold[h] EXCEPT !.status = status] \in Hold
  BY <1>1 DEF Hold
<1>5. /\ hold' \in [Holds -> Hold]
      /\ hold'[h].status = status /\ hold'[h].id = hold[h].id
      /\ hold'[h].to = hold[h].to /\ hold'[h].again = hold[h].again
      /\ \A g \in Holds \ {h} : hold'[g] = hold[g]
  BY <1>1, <1>2, <1>4 DEF TypeOK, Hold
<1>6. HoldStep /\ \A g \in Holds : hold[g].status = "none" => hold'[g] = hold[g]
  BY <1>1, <1>5 DEF HoldStep
<1> QED BY <1>3, <1>5, <1>6, Left

LEMMA ResolvingSteps ==
  ASSUME Inv, NEW d \in Moderators, RejectHold(d) \/ MarkReleased(d)
  PROVE  Step
<1>1. /\ mod[d].pc # "idle"
      /\ \E status \in {"RELEASED", "REJECTED"} : Resolves(d, status)
      /\ UNCHANGED <<request, message, conv, blocks, cooldown, uses, call>>
  BY DEF RejectHold, MarkReleased
<1>2. TypeOK
  BY DEF Inv
<1> QED BY <1>1, <1>2, Resolving, NothingWritten, Moderates DEF TypeOK

LEMMA ReleaseRequestStep ==
  ASSUME Inv, NEW d \in Moderators, ReleaseRequest(d)
  PROVE  Step
<1>1. PICK id \in RequestIds, to \in Members :
        /\ id = heldBy(d).id /\ to = heldBy(d).to /\ to # id[1]
        /\ request[id].status = "none" /\ uses' = uses \cup {id}
        /\ request' = [request EXCEPT ![id] = [status |-> "PENDING", to |-> to]]
        /\ UNCHANGED <<message, blocks, cooldown, call>>
        /\ mod[d].pc # "idle" /\ Resolves(d, "RELEASED")
        /\ heldBy(d).again => conv[{id[1], to}] # "none"
        /\ conv' = IF heldBy(d).again /\ conv[{id[1], to}] = "none"
                     THEN [conv EXCEPT ![{id[1], to}] = "ACTIVE"] ELSE conv
  <2>1. mod[d].pc = "counted"
    BY DEF ReleaseRequest
  <2>2. mod[d].hold \in Holds /\ heldBy(d).status # "none" /\ heldBy(d).id \in RequestIds
    BY <2>1 DEF Inv, Working, heldBy
  <2>3. /\ heldBy(d).to \in Members /\ heldBy(d).to # heldBy(d).id[1]
        /\ heldBy(d).again => conv[{heldBy(d).id[1], heldBy(d).to}] # "none"
    BY <2>2 DEF Inv, Kept, heldBy, Parties
  <2> QED BY <2>1, <2>2, <2>3 DEF ReleaseRequest
<1>2. UNCHANGED conv
  BY <1>1
<1>3. TypeOK
  BY DEF Inv
<1>4. /\ request' \in [RequestIds -> Request] /\ RequestStep /\ Sent(id)'
      /\ request'[id].status = "PENDING"
      /\ \A i \in RequestIds \ {id} : request'[i] = request[i]
  BY <1>1, <1>3, RequestMade
<1>5. UsesMatchRequests' /\ uses' \subseteq RequestIds
  BY <1>1, <1>3, <1>4, UsesGrow DEF TypeOK
<1>6. \A s \in Sessions : \A i \in Locks(s) : request'[i] = request[i]
  BY <1>1, <1>4 DEF Inv, LocksHold
<1>7. \A i \in RequestIds : request[i].status # "none" \/ Sent(i)'
  <2>1. \A i \in RequestIds \ {id} : request[i].status # "none" \/ Sent(i)'
    BY <1>4 DEF Sent
  <2> QED BY <1>4, <2>1
<1>8. ConvStep
  BY <1>2 DEF ConvStep
<1>9. /\ hold' \in [Holds -> Hold] /\ HoldStep
      /\ \A h \in Holds : hold[h].status = "none" => hold'[h] = hold[h]
      /\ mod' \in [Moderators -> Mod]
      /\ \A e \in Moderators : mod'[e] = mod[e] \/ Working(e)'
  BY <1>1, Resolving
<1> QED BY <1>1, <1>2, <1>3, <1>4, <1>5, <1>6, <1>7, <1>8, <1>9, Moderates DEF TypeOK

LEMMA ReleaseMessageStep ==
  ASSUME Inv, NEW d \in Moderators, ReleaseMessage(d)
  PROVE  Step
<1> DEFINE m == [mod[d] EXCEPT !.pc = "mark"]
           new == [status |-> "DELIVERED", to |-> heldBy(d).to]
<1>1. /\ mod[d] \in Mod /\ mod[d].pc = "message" /\ TypeOK /\ Working(d)
      /\ mod' = [mod EXCEPT ![d].pc = "mark"]
      /\ message' = [message EXCEPT ![heldBy(d).id] = new]
      /\ UNCHANGED <<request, conv, blocks, cooldown, uses, hold, call>>
  BY DEF ReleaseMessage, Inv, TypeOK
<1>2. m \in Mod /\ m.pc = "mark" /\ m.hold = mod[d].hold
  BY <1>1 DEF Mod
<1>3. mod' = [mod EXCEPT ![d] = m]
  BY <1>1 DEF TypeOK
<1>4. new \in Message
  BY <1>1 DEF Message, Working, Inv, Kept, heldBy
<1> HIDE DEF m, new
<1>5. /\ mod' \in [Moderators -> Mod] /\ mod'[d] = m
      /\ \A e \in Moderators \ {d} : mod'[e] = mod[e]
  BY <1>1, <1>2, <1>3, ModSet
<1>6. Working(d)'
  BY <1>1, <1>2, <1>5 DEF Working
<1>7. message' \in [MessageIds -> Message]
  BY <1>1, <1>4 DEF TypeOK
<1>8. HoldStep
  BY <1>1 DEF HoldStep
<1> QED BY <1>1, <1>5, <1>6, <1>7, <1>8, NothingWritten, Moderates DEF TypeOK

LEMMA RemovalSteps ==
  ASSUME Inv,
         \/ \E id \in MessageIds : RemoveMessage(id)
         \/ \E id \in RequestIds : RemoveRequest(id)
         \/ \E p \in Pairs : CooldownEnds(p)
  PROVE  Step
<1>1. TypeOK
  BY DEF Inv
<1>2. ASSUME UNCHANGED <<hold, mod>>
      PROVE  /\ HoldStep /\ \A h \in Holds : hold[h].status = "none" => hold'[h] = hold[h]
             /\ hold' \in [Holds -> Hold] /\ mod' \in [Moderators -> Mod]
  BY <1>1, <1>2 DEF HoldStep, TypeOK
<1>3. ASSUME NEW id \in MessageIds, RemoveMessage(id)
      PROVE  Step
  <2>1. /\ message' = [message EXCEPT ![id].status = "REMOVED"]
        /\ UNCHANGED <<request, conv, blocks, cooldown, uses, hold, call, mod>>
    BY <1>3 DEF RemoveMessage
  <2>2. [message[id] EXCEPT !.status = "REMOVED"] \in Message
    BY <1>1, <1>3 DEF TypeOK, Message
  <2>3. message' \in [MessageIds -> Message]
    BY <1>1, <2>1, <2>2 DEF TypeOK
  <2> QED BY <1>1, <1>2, <2>1, <2>3, NothingWritten, Moderates DEF TypeOK
<1>4. ASSUME NEW p \in Pairs, CooldownEnds(p)
      PROVE  Step
  <2>1. /\ cooldown' = cooldown \ {p}
        /\ UNCHANGED <<request, message, conv, blocks, uses, hold, call, mod>>
    BY <1>4 DEF CooldownEnds
  <2> QED BY <1>1, <1>2, <2>1, NothingWritten, Moderates DEF TypeOK
<1>5. ASSUME NEW id \in RequestIds, RemoveRequest(id)
      PROVE  Step
  <2>1. /\ request[id].status = "PENDING" /\ ~RowLocked(id)
        /\ request' = [request EXCEPT ![id].status = "CANCELLED"]
        /\ UNCHANGED <<message, conv, blocks, cooldown, uses, hold, call, mod>>
    BY <1>5 DEF RemoveRequest
  <2>2. /\ request' \in [RequestIds -> Request] /\ RequestStep
        /\ request'[id].status = "CANCELLED"
        /\ \A i \in RequestIds \ {id} : request'[i] = request[i]
    BY <1>1, <1>5, <2>1, StatusSet DEF Resolved
  <2>3. \A i \in RequestIds : request[i].status = "none" => request'[i] = request[i]
    BY <2>1, <2>2
  <2>4. \A s \in Sessions : \A i \in Locks(s) : request'[i] = request[i]
    BY <2>1, <2>2 DEF RowLocked, Inv, LocksHold
  <2>5. UsesMatchRequests'
    <3>1. \A i \in RequestIds : request'[i].status = "none" <=> request[i].status = "none"
      BY <2>1, <2>2
    <3> QED BY <2>1, <3>1 DEF Inv, UsesMatchRequests
  <2>6. ConvStep
    BY <2>1 DEF ConvStep
  <2> QED BY <1>1, <1>2, <2>1, <2>2, <2>3, <2>4, <2>5, <2>6, NoSentChange, Moderates DEF TypeOK
<1> QED BY <1>3, <1>4, <1>5

-----------------------------------------------------------------------------
(***************************************************************************)
(* The theorems.                                                           *)
(***************************************************************************)
LEMMA InitInv == Init => Inv
<1> SUFFICES ASSUME Init PROVE Inv
  OBVIOUS
<1> USE Records DEF Init
<1>1. TypeOK /\ UsesMatchRequests
  BY DEF TypeOK, UsesMatchRequests
<1>2. /\ \A s \in Sessions : Sound(s) /\ Locks(s) = {}
      /\ \A id \in RequestIds : Sent(id)
      /\ \A h \in Holds : Kept(h)
      /\ \A d \in Moderators : Working(d)
  BY DEF Sound, Locks, Sent, Kept, Working
<1> QED BY <1>1, <1>2 DEF Inv, LocksHold

LEMMA Steps == Inv /\ Next => Step
<1> SUFFICES ASSUME Inv, Next PROVE Step
  OBVIOUS
<1>1. ASSUME NEW d \in Moderators, ModeratorStep(d)
      PROVE  Step
  BY <1>1, JudgingSteps, ResolvingSteps, ReleaseRequestStep, ReleaseMessageStep DEF ModeratorStep
<1> QED BY <1>1, SessionSteps, RemovalSteps DEF Next

LEMMA Stutter == Inv /\ UNCHANGED vars => Inv'
<1> SUFFICES ASSUME Inv, UNCHANGED vars PROVE Inv'
  OBVIOUS
<1>1. TypeOK' /\ UsesMatchRequests'
  BY DEF Inv, TypeOK, UsesMatchRequests, vars
<1>2. /\ \A s \in Sessions : Sound(s)' /\ Locks(s)' = Locks(s)
      /\ \A id \in RequestIds : Sent(id)'
      /\ \A h \in Holds : Kept(h)'
      /\ \A d \in Moderators : Working(d)'
  BY DEF Inv, Sound, Partners, Locks, Sent, Kept, Parties, Working, vars
<1> QED BY <1>1, <1>2 DEF Inv, LocksHold, vars

THEOREM Invariance == Spec => []Inv
<1>1. Inv /\ [Next]_vars => Inv'
  BY Steps, Stutter DEF Step
<1> QED BY <1>1, InitInv, PTL DEF Spec

\* Every request, message, conversation, hold and session keeps its type.
THEOREM MessagingTypeCorrect == Spec => []TypeOK
<1>1. Inv => TypeOK
  BY DEF Inv
<1> QED BY <1>1, Invariance, PTL

\* The month's allowance is used by the requests there are and by nothing else,
\* whichever of an asker and a moderator creates them, and however they race.
THEOREM AllowanceMatches == Spec => []UsesMatchRequests
<1>1. Inv => UsesMatchRequests
  BY DEF Inv
<1> QED BY <1>1, Invariance, PTL

\* A request is resolved once.
THEOREM ResolvedIsFinal == Spec => ResolvedStays
<1>1. Inv /\ [Next]_vars =>
        [\A id \in RequestIds :
           request[id].status \in {"ACCEPTED", "REJECTED", "CANCELLED"} => request'[id] = request[id]]_vars
  BY Steps DEF Step, RequestStep
<1> QED BY <1>1, Invariance, PTL DEF Spec, ResolvedStays

\* Only the acceptance of a pending request of the pair opens a conversation.
THEOREM OpenedOnlyByConsent == Spec => OpenedByConsent
<1>1. Inv /\ [Next]_vars =>
        [\A p \in Pairs : conv[p] # "ACTIVE" /\ conv'[p] = "ACTIVE" =>
           \E id \in PendingOf(p) : request'[id].status = "ACCEPTED"]_vars
  <2>1. Step => \A p \in Pairs : conv[p] # "ACTIVE" /\ conv'[p] = "ACTIVE" =>
                  \E id \in PendingOf(p) : request'[id].status = "ACCEPTED"
    BY DEF Step, ConvStep
  <2> QED BY <2>1, Steps
<1> QED BY <1>1, Invariance, PTL DEF Spec, OpenedByConsent

-----------------------------------------------------------------------------
(***************************************************************************)
(* Blocks, when every member has one session.                              *)
(***************************************************************************)
OneSession == \A s, t \in Sessions : Who[s] = Who[t] => s = t

\* A block that is being written has locked what its member has asked of the
\* other, ...
BlockSees(s) ==
  call[s].pc \in {"blocking", "pausing", "alone"} =>
    \A id \in RequestIds :
      request[id].status = "PENDING" /\ id[1] = Who[s] /\ Between(id) = Partners(s) =>
        id \in call[s].rows \/ WasHeld(id)

\* ... a conversation that it did not find was opened by a request that was held,
HeldOpened(p) ==
  \E id \in RequestIds : Between(id) = p /\ request[id].status = "ACCEPTED" /\ WasHeld(id)
AloneSees(s) ==
  call[s].pc = "alone" /\ conv[Partners(s)] = "ACTIVE" => HeldOpened(Partners(s))

\* ... so that a request is not being accepted beside it, but for one that was
\* held.
Guarded(s) ==
  call[s].pc = "accepting" /\ Blocked(Between(call[s].id)) => WasHeld(call[s].id)

Fresh(h) == hold[h].status = "none" => hold[h].id = NoId

BlockInv == /\ \A s \in Sessions : BlockSees(s) /\ AloneSees(s) /\ Guarded(s)
            /\ \A h \in Holds : Fresh(h)
            /\ BlockedIsPaused

\* Who creates a request, who begins to block or to accept, who blocks and who
\* opens a conversation.
Creates ==
  \A id \in RequestIds : request[id].status = "none" /\ request'[id].status # "none" =>
    WasHeld(id) \/ \E s \in Sessions : call[s].pc = "counted" /\ Who[s] = id[1]

Begins ==
  \A s \in Sessions :
    \/ call'[s] = call[s]
    \/ call'[s].pc \notin {"blocking", "pausing", "alone", "accepting"}
    \/ \E id \in RequestIds : BeginAccept(s, id)
    \/ \E b \in Members : BeginBlock(s, b)
    \/ PauseConversation(s)

Blocks == blocks' \subseteq blocks \/ \E s \in Sessions : Block(s)

Opens ==
  \A p \in Pairs : conv[p] # "ACTIVE" /\ conv'[p] = "ACTIVE" =>
    \E s \in Sessions : Accept(s) /\ Partners(s) = p

LEMMA Frames ==
  ASSUME Inv
  PROVE  /\ UNCHANGED request => Creates
         /\ (\A id \in RequestIds : request[id].status = "none" => request'[id] = request[id]) => Creates
         /\ UNCHANGED call => Begins
         /\ UNCHANGED blocks => Blocks
         /\ UNCHANGED conv => Opens
         /\ UNCHANGED hold => FreshStep
BY DEF Creates, Begins, Blocks, Opens, FreshStep

\* What a session is at after its step.
LEMMA BeginsEnds ==
  ASSUME Inv, NEW s \in Sessions, Ends(s)
  PROVE  Begins
<1>1. call'[s] = Idle /\ \A t \in Sessions \ {s} : call'[t] = call[t]
  BY Records, CallSet DEF Inv, Ends
<1> QED BY <1>1, Records DEF Begins

LEMMA BeginsOther ==
  ASSUME Inv, NEW s \in Sessions, NEW c \in Call,
         c.pc \notin {"blocking", "pausing", "alone", "accepting"},
         call' = [call EXCEPT ![s] = c]
  PROVE  Begins
<1>1. call'[s] = c /\ \A t \in Sessions \ {s} : call'[t] = call[t]
  BY CallSet DEF Inv
<1> QED BY <1>1 DEF Begins

LEMMA SessionHappens ==
  ASSUME Inv, NEW s \in Sessions, SessionStep(s)
  PROVE  Creates /\ Begins /\ Blocks /\ Opens /\ FreshStep
<1>1. Who[s] \in Members /\ call \in [Sessions -> Call]
  BY MessagingAssumption DEF Inv, TypeOK
<1>2. ASSUME Reads, Begins PROVE Creates /\ Blocks /\ Opens /\ FreshStep
  BY <1>2, Frames DEF Reads
<1>3. ASSUME NEW b \in Members, NEW k \in RequestKeys, NEW again \in BOOLEAN, Ask(s, b, k, again)
      PROVE  Reads /\ Begins
  <2> DEFINE c == [Idle EXCEPT !.pc = "asked", !.id = <<Who[s], k>>, !.to = b, !.again = again]
  <2>1. c \in Call /\ c.pc = "asked"
    BY <1>1 DEF Idle, Call, Ids, RequestIds
  <2>2. Reads /\ call' = [call EXCEPT ![s] = c]
    BY <1>3 DEF Ask
  <2> HIDE DEF c
  <2> QED BY <2>1, <2>2, BeginsOther
<1>4. ASSUME NEW b \in Members, NEW k \in MessageKeys, Type(s, b, k)
      PROVE  Reads /\ Begins
  <2> DEFINE c == [Idle EXCEPT !.pc = "typed", !.id = <<Who[s], k>>, !.to = b]
  <2>1. c \in Call /\ c.pc = "typed"
    BY <1>1 DEF Idle, Call, Ids, MessageIds
  <2>2. Reads /\ call' = [call EXCEPT ![s] = c]
    BY <1>4 DEF Type
  <2> HIDE DEF c
  <2> QED BY <2>1, <2>2, BeginsOther
<1>5. ASSUME NEW id \in RequestIds, BeginReject(s, id) \/ BeginCancel(s, id)
      PROVE  Reads /\ Begins
  <2>1. PICK pc \in {"rejecting", "cancelling"}, to \in Members :
          Reads /\ call' = [call EXCEPT ![s] = [Idle EXCEPT !.pc = pc, !.id = id, !.to = to]]
    <3>1. id[1] \in Members /\ request[id].status = "PENDING" /\ Sent(id)
      BY <1>5 DEF BeginReject, BeginCancel, Inv, RequestIds
    <3> QED BY <1>5, <3>1 DEF BeginReject, BeginCancel, Sent
  <2> DEFINE c == [Idle EXCEPT !.pc = pc, !.id = id, !.to = to]
  <2>2. c \in Call /\ c.pc = pc
    BY DEF Idle, Call, Ids
  <2>3. call' = [call EXCEPT ![s] = c]
    BY <2>1
  <2> HIDE DEF c
  <2> QED BY <2>1, <2>2, <2>3, BeginsOther
<1>6. ASSUME Recheck(s) \/ CountUse(s) \/ CheckSend(s)
      PROVE  Reads /\ Begins
  <2>1. /\ Reads /\ call'[s].pc \in {"checked", "counted", "sending"}
        /\ \A t \in Sessions \ {s} : call'[t] = call[t]
    BY <1>1, <1>6 DEF Recheck, CountUse, CheckSend, Moves, Call
  <2> QED BY <2>1 DEF Begins
<1>7. ASSUME (\E id \in RequestIds : BeginAccept(s, id)) \/ (\E b \in Members : BeginBlock(s, b))
      PROVE  Reads /\ Begins
  <2>1. Reads /\ \A t \in Sessions \ {s} : call'[t] = call[t]
    BY <1>1, <1>7 DEF BeginAccept, BeginBlock
  <2> QED BY <1>7, <2>1 DEF Begins
<1>8. CASE Abort(s)
  BY <1>2, <1>8, BeginsEnds DEF Abort
<1>16. CASE PauseConversation(s)
  <2>1. Reads /\ \A t \in Sessions \ {s} : call'[t] = call[t]
    BY <1>1, <1>16 DEF PauseConversation, Moves
  <2>2. Begins
    BY <1>16, <2>1 DEF Begins
  <2> QED BY <1>2, <2>1, <2>2
<1>9. CASE \E h \in Holds : HoldRequest(s, h) \/ HoldMessage(s, h)
  <2>1. PICK h \in Holds :
          /\ Ends(s) /\ UNCHANGED <<request, conv, blocks>>
          /\ \E again \in BOOLEAN : hold' = [hold EXCEPT ![h] = Held(call[s].id, call[s].to, again)]
    <3>1. call[s].again \in BOOLEAN
      BY <1>1 DEF Call
    <3> QED BY <1>9, <3>1 DEF HoldRequest, HoldMessage
  <2>2. FreshStep
    BY <2>1 DEF FreshStep, Held, Inv, TypeOK
  <2> QED BY <2>1, <2>2, BeginsEnds, Frames
<1>10. CASE Create(s)
  <2>1. /\ Ends(s) /\ UNCHANGED <<conv, blocks, hold>> /\ call[s].pc = "counted"
        /\ call[s].id \in RequestIds /\ call[s].id[1] = Who[s]
        /\ \A i \in RequestIds \ {call[s].id} : request'[i] = request[i]
    BY <1>10 DEF Create, At, Inv, Sound, TypeOK
  <2>2. Creates
    BY <2>1 DEF Creates
  <2> QED BY <2>1, <2>2, BeginsEnds, Frames
<1>11. CASE Accept(s)
  <2>1. /\ Ends(s) /\ UNCHANGED <<blocks, hold>> /\ call[s].pc = "accepting"
        /\ call[s].id \in RequestIds /\ request[call[s].id].status = "PENDING"
        /\ \A i \in RequestIds \ {call[s].id} : request'[i] = request[i]
        /\ \A p \in Pairs \ {Partners(s)} : conv'[p] = conv[p]
    BY <1>11 DEF Accept, At, Inv, LocksHold, Locks, TypeOK
  <2>2. Creates /\ Opens
    BY <1>11, <2>1 DEF Creates, Opens
  <2> QED BY <2>1, <2>2, BeginsEnds, Frames
<1>12. CASE Reject(s) \/ Cancel(s)
  <2>1. /\ Ends(s) /\ UNCHANGED <<conv, blocks, hold>>
        /\ \A id \in RequestIds : request[id].status = "none" => request'[id] = request[id]
    BY <1>12 DEF Reject, Cancel, Inv, TypeOK
  <2> QED BY <2>1, BeginsEnds, Frames
<1>13. CASE Block(s)
  <2>1. /\ Ends(s) /\ UNCHANGED hold /\ call[s].pc \in {"pausing", "alone"}
        /\ \A id \in RequestIds \ call[s].rows : request'[id] = request[id]
        /\ \A p \in Pairs : conv'[p] \in {conv[p], "PAUSED"}
    BY <1>13 DEF Block, At, Inv, TypeOK
  <2>2. \A id \in call[s].rows : request[id].status = "PENDING"
    BY <2>1 DEF Inv, LocksHold, Locks
  <2>3. \A id \in RequestIds : request[id].status = "none" => request'[id] = request[id]
    BY <2>1, <2>2
  <2>4. Opens /\ Blocks
    BY <1>13, <2>1 DEF Opens, Blocks
  <2> QED BY <2>1, <2>3, <2>4, BeginsEnds, Frames
<1>14. CASE Deliver(s)
  BY <1>14, BeginsEnds, Frames DEF Deliver
<1>15. CASE \E b \in Members : Unblock(s, b)
  <2>1. UNCHANGED <<request, conv, hold, call>> /\ blocks' \subseteq blocks
    BY <1>15 DEF Unblock
  <2> QED BY <2>1, Frames DEF Blocks
<1> QED BY <1>2, <1>3, <1>4, <1>5, <1>6, <1>7, <1>8, <1>9, <1>10, <1>11, <1>12, <1>13, <1>14,
           <1>15, <1>16 DEF SessionStep

LEMMA RestHappens ==
  ASSUME Inv,
         \/ \E d \in Moderators : ModeratorStep(d)
         \/ \E id \in MessageIds : RemoveMessage(id)
         \/ \E id \in RequestIds : RemoveRequest(id)
         \/ \E p \in Pairs : CooldownEnds(p)
  PROVE  Creates /\ Begins /\ Blocks /\ Opens /\ FreshStep
<1>1. ASSUME UNCHANGED <<request, conv, blocks, call, hold>>
      PROVE  Creates /\ Begins /\ Blocks /\ Opens /\ FreshStep
  BY <1>1, Frames
<1>2. CASE (\E id \in MessageIds : RemoveMessage(id)) \/ (\E p \in Pairs : CooldownEnds(p))
  BY <1>1, <1>2 DEF RemoveMessage, CooldownEnds
<1>3. CASE \E id \in RequestIds : RemoveRequest(id)
  <2>1. /\ UNCHANGED <<conv, blocks, call, hold>>
        /\ \A id \in RequestIds : request[id].status = "none" => request'[id] = request[id]
    BY <1>3 DEF RemoveRequest, Inv, TypeOK
  <2> QED BY <2>1, Frames
<1>4. ASSUME NEW d \in Moderators, NEW status \in {"RELEASED", "REJECTED"}, Resolves(d, status),
             mod[d].pc # "idle"
      PROVE  FreshStep
  <2>1. mod[d].hold \in Holds /\ hold[mod[d].hold] \in Hold /\ hold \in [Holds -> Hold]
    BY <1>4 DEF Inv, Working, TypeOK
  <2>2. hold' = [hold EXCEPT ![mod[d].hold].status = status]
    BY <1>4 DEF Resolves
  <2> QED BY <2>1, <2>2 DEF FreshStep, Hold
<1>5. ASSUME NEW d \in Moderators, ReleaseRequest(d)
      PROVE  Creates /\ Begins /\ Blocks /\ Opens /\ FreshStep
  <2>1. /\ UNCHANGED <<blocks, call>> /\ Resolves(d, "RELEASED") /\ mod[d].pc = "counted"
        /\ \A i \in RequestIds \ {heldBy(d).id} : request'[i] = request[i]
    BY <1>5 DEF ReleaseRequest, Inv, TypeOK
  <2>2. mod[d].hold \in Holds /\ heldBy(d).status # "none" /\ heldBy(d).id \in RequestIds
    BY <2>1 DEF Inv, Working, heldBy
  <2>3. heldBy(d).again => conv[{heldBy(d).id[1], heldBy(d).to}] # "none"
    BY <2>2 DEF Inv, Kept, heldBy, Parties
  <2>4. UNCHANGED conv
    BY <1>5, <2>3 DEF ReleaseRequest
  <2>5. WasHeld(heldBy(d).id)
    BY <2>2 DEF WasHeld, heldBy
  <2>6. Creates
    BY <2>1, <2>5 DEF Creates
  <2> QED BY <1>4, <2>1, <2>4, <2>6, Frames
<1>6. ASSUME NEW d \in Moderators, RejectHold(d) \/ MarkReleased(d)
      PROVE  Creates /\ Begins /\ Blocks /\ Opens /\ FreshStep
  BY <1>4, <1>6, Frames DEF RejectHold, MarkReleased
<1>7. ASSUME NEW d \in Moderators,
             (\E h \in Holds : BeginRelease(d, h)) \/ CountHeldUse(d) \/ GiveUp(d) \/ ReleaseMessage(d)
      PROVE  Creates /\ Begins /\ Blocks /\ Opens /\ FreshStep
  BY <1>1, <1>7 DEF BeginRelease, CountHeldUse, GiveUp, ReleaseMessage, Judges
<1> QED BY <1>2, <1>3, <1>5, <1>6, <1>7 DEF ModeratorStep

LEMMA Happens == Inv /\ Next => Creates /\ Begins /\ Blocks /\ Opens /\ FreshStep
BY SessionHappens, RestHappens DEF Next

\* What a hold was of stays what it was of.
LEMMA HeldStays ==
  ASSUME Inv, BlockInv, HoldStep, NEW id \in RequestIds, WasHeld(id)
  PROVE  WasHeld(id)'
<1>1. PICK h \in Holds : hold[h].id = id
  BY DEF WasHeld
<1>2. hold[h].status # "none"
  BY <1>1, MessagingAssumption DEF BlockInv, Fresh, Ids
<1> QED BY <1>1, <1>2 DEF HoldStep, WasHeld

LEMMA FreshKept ==
  ASSUME BlockInv, FreshStep
  PROVE  \A h \in Holds : Fresh(h)'
BY DEF BlockInv, Fresh, FreshStep

\* The pair of a block is that of whoever it concerns.
LEMMA PairOfBlock ==
  ASSUME Inv, NEW s \in Sessions, Block(s), NEW p \in Pairs, Blocked(p)', ~Blocked(p)
  PROVE  p = Partners(s)
<1>1. call[s].pc # "idle" /\ blocks' = blocks \cup {<<Who[s], call[s].to>>}
  BY DEF Block, At
<1>2. Who[s] # call[s].to /\ Partners(s) = {Who[s], call[s].to}
  BY <1>1, Knows
<1>3. Who[s] \in p /\ call[s].to \in p
  BY <1>1 DEF Blocked
<1>4. PICK a \in p, b \in p : p = {a, b}
  BY DEF Pairs
<1> QED BY <1>2, <1>3, <1>4

LEMMA StillBlocked ==
  ASSUME blocks' \subseteq blocks, NEW p, Blocked(p)'
  PROVE  Blocked(p)
BY DEF Blocked

LEMMA Paused ==
  ASSUME Inv, NEW s \in Sessions, PauseConversation(s)
  PROVE  /\ call[s].pc = "blocking" /\ call'[s].pc \in {"pausing", "alone"} /\ Reads
         /\ call'[s].to = call[s].to /\ call'[s].rows = call[s].rows
         /\ call'[s].pc = "alone" => conv[Partners(s)] = "none"
<1> DEFINE pc == IF conv[Partners(s)] = "none" THEN "alone" ELSE "pausing"
<1>1. call[s] \in Call /\ call \in [Sessions -> Call]
  BY DEF Inv, TypeOK
<1>2. pc \in {"pausing", "alone"} /\ (pc = "alone" => conv[Partners(s)] = "none")
  OBVIOUS
<1>3. call[s].pc = "blocking" /\ call' = [call EXCEPT ![s].pc = pc] /\ Reads
  BY DEF PauseConversation, At, Moves
<1> HIDE DEF pc
<1> QED BY <1>1, <1>2, <1>3 DEF Call

LEMMA BlockSeesKept ==
  ASSUME OneSession, Inv, BlockInv, Step, Creates, Begins, NEW s \in Sessions
  PROVE  BlockSees(s)'
<1> SUFFICES ASSUME (call[s].pc \in {"blocking", "pausing", "alone"})', NEW id \in RequestIds,
                    request'[id].status = "PENDING", id[1] = Who[s], Between(id)' = Partners(s)'
             PROVE  (id \in call[s].rows)' \/ WasHeld(id)'
  BY DEF BlockSees
<1>1. CASE call'[s] = call[s] \/ PauseConversation(s)
  <2>0. /\ call[s].pc \in {"blocking", "pausing", "alone"}
        /\ call'[s].to = call[s].to /\ call'[s].rows = call[s].rows
    BY <1>1, Paused
  <2>1. CASE request'[id] = request[id]
    <3>1. Between(id)' = Between(id) /\ Partners(s)' = Partners(s)
      BY <2>0, <2>1 DEF Between, Partners
    <3>2. id \in call[s].rows \/ WasHeld(id)
      BY <2>0, <2>1, <3>1 DEF BlockInv, BlockSees
    <3> QED BY <2>0, <3>2, HeldStays DEF Step
  <2>2. CASE request[id].status = "none"
    <3>1. WasHeld(id) \/ \E t \in Sessions : call[t].pc = "counted" /\ Who[t] = Who[s]
      BY <2>2 DEF Creates
    <3>2. WasHeld(id)
      BY <2>0, <3>1 DEF OneSession
    <3> QED BY <3>2, HeldStays DEF Step
  <2> QED BY <2>1, <2>2 DEF Step, RequestStep, Resolved
<1>2. CASE \E b \in Members : BeginBlock(s, b)
  <2>1. PICK b \in Members : BeginBlock(s, b)
    BY <1>2
  <2> DEFINE rows == PendingOf({Who[s], b})
             c == [Idle EXCEPT !.pc = "blocking", !.to = b, !.rows = rows]
  <2>2. c \in Call /\ c.rows = rows /\ c.to = b
    BY DEF Idle, Call, PendingOf
  <2>3. call' = [call EXCEPT ![s] = c] /\ Reads
    BY <2>1 DEF BeginBlock
  <2>4. id \in rows <=> request[id].status = "PENDING" /\ Between(id) = {Who[s], b}
    BY DEF PendingOf
  <2> HIDE DEF rows, c
  <2>5. call'[s] = c
    BY <2>2, <2>3, CallSet DEF Inv
  <2>6. Between(id)' = Between(id) /\ Partners(s)' = {Who[s], b}
    BY <2>2, <2>3, <2>5 DEF Reads, Between, Partners
  <2> QED BY <2>2, <2>3, <2>4, <2>5, <2>6 DEF Reads
<1>3. CASE \E i \in RequestIds : BeginAccept(s, i)
  <2>1. PICK i \in RequestIds : call' = [call EXCEPT ![s] = [Idle EXCEPT !.pc = "accepting", !.id = i, !.to = i[1]]]
    BY <1>3 DEF BeginAccept
  <2>2. call'[s].pc = "accepting"
    BY <2>1 DEF Inv, TypeOK, Idle
  <2> QED BY <2>2
<1> QED BY <1>1, <1>2, <1>3 DEF Begins

LEMMA GuardedKept ==
  ASSUME OneSession, Inv, BlockInv, Step, Begins, Blocks, NEW t \in Sessions
  PROVE  Guarded(t)'
<1> SUFFICES ASSUME (call[t].pc = "accepting")', Blocked(Between(call[t].id))'
             PROVE  WasHeld(call[t].id)'
  BY DEF Guarded
<1>1. CASE call'[t] = call[t]
  <2>1. PICK id \in RequestIds : id = call[t].id /\ id = call'[t].id
    BY <1>1 DEF Inv, Sound
  <2>2. /\ id \in Locks(t) /\ request[id].status = "PENDING" /\ request[id].to = Who[t]
        /\ call[t].pc = "accepting" /\ id \in Locks(t)'
    BY <1>1, <2>1 DEF Locks, Inv, LocksHold, Sound
  <2>3. Between(id)' = Between(id) /\ Between(id) = Partners(t) /\ Between(id) \in Pairs
    <3>1. request'[id].to = request[id].to
      BY <2>2 DEF Step, RequestStep
    <3>2. Between(id)' = Between(id)
      BY <3>1 DEF Between
    <3>3. Between(id) = Partners(t)
      BY <1>1, <2>1, <2>2 DEF Between, Partners, Inv, Sound
    <3> QED BY <2>2, <3>2, <3>3, Knows
  <2>4. Blocked(Between(id))'
    BY <2>1
  <2>5. CASE Blocked(Between(id))
    <3>1. WasHeld(id)
      BY <2>1, <2>2, <2>5 DEF BlockInv, Guarded
    <3>2. WasHeld(id)'
      BY <3>1, HeldStays DEF Step
    <3> QED BY <2>1, <3>2
  <2>6. CASE ~Blocked(Between(id))
    <3>1. PICK p \in Pairs : p = Between(id)
      BY <2>3
    <3>2. Blocked(p)' /\ ~Blocked(p)
      BY <2>3, <2>4, <2>6, <3>1
    <3>3. PICK s \in Sessions : Block(s)
      BY <3>2, StillBlocked DEF Blocks
    <3>4. p = Partners(s) /\ call[s].pc \in {"pausing", "alone"}
      BY <3>2, <3>3, PairOfBlock DEF Block, At
    <3>5. s # t /\ Locks(s) = call[s].rows
      BY <2>2, <3>4 DEF Locks
    <3>6. Partners(s) = {Who[s], call[s].to} /\ Partners(t) = {Who[t], id[1]} /\ Who[s] # Who[t]
      BY <2>1, <2>2, <3>5 DEF Partners, OneSession, Inv, Sound
    <3>7. id[1] = Who[s]
      BY <2>3, <3>1, <3>4, <3>6
    <3>8. id \in call[s].rows \/ WasHeld(id)
      BY <2>2, <3>1, <3>4, <3>7 DEF BlockInv, BlockSees
    <3>9. id \notin call[s].rows
      BY <2>2, <3>5 DEF Inv, LocksHold
    <3>10. WasHeld(id)'
      BY <3>8, <3>9, HeldStays DEF Step
    <3> QED BY <2>1, <3>10
  <2> QED BY <2>5, <2>6
<1>2. CASE \E i \in RequestIds : BeginAccept(t, i)
  <2>1. PICK i \in RequestIds : BeginAccept(t, i)
    BY <1>2
  <2>2. ~Blocked(Between(i)) /\ Reads /\ call'[t].id = i
    BY <2>1 DEF BeginAccept, Inv, TypeOK, Idle
  <2> QED BY <2>2 DEF Reads, Blocked, Between
<1>3. CASE \E b \in Members : BeginBlock(t, b)
  <2>1. call'[t].pc = "blocking"
    BY <1>3 DEF BeginBlock, Inv, TypeOK, Idle
  <2> QED BY <2>1
<1>4. CASE PauseConversation(t)
  BY <1>4, Paused
<1> QED BY <1>1, <1>2, <1>3, <1>4 DEF Begins

\* A conversation that opens beside a block is opened by a request it does not
\* see, so by one that was held.
LEMMA AloneSeesKept ==
  ASSUME OneSession, Inv, BlockInv, Step, Begins, Opens, NEW s \in Sessions
  PROVE  AloneSees(s)'
<1> SUFFICES ASSUME (call[s].pc = "alone")', (conv[Partners(s)] = "ACTIVE")'
             PROVE  HeldOpened(Partners(s))'
  BY DEF AloneSees
<1>1. CASE call'[s] = call[s]
  <2>1. call[s].pc = "alone" /\ Partners(s)' = Partners(s)
    BY <1>1 DEF Partners
  <2>2. PICK p \in Pairs : p = Partners(s)
    BY <2>1, Knows
  <2>3. conv'[p] = "ACTIVE"
    BY <2>1, <2>2
  <2>4. ASSUME HeldOpened(p) PROVE HeldOpened(p)'
    <3>1. PICK id \in RequestIds : Between(id) = p /\ request[id].status = "ACCEPTED" /\ WasHeld(id)
      BY <2>4 DEF HeldOpened
    <3>2. request'[id] = request[id] /\ WasHeld(id)'
      BY <3>1, HeldStays DEF Step, RequestStep
    <3> QED BY <3>1, <3>2 DEF HeldOpened, Between
  <2>5. CASE conv[p] = "ACTIVE"
    BY <2>1, <2>2, <2>4, <2>5 DEF BlockInv, AloneSees
  <2>6. CASE conv[p] # "ACTIVE"
    <3>1. PICK t \in Sessions : Accept(t) /\ Partners(t) = p
      BY <2>3, <2>6 DEF Opens
    <3>2. PICK id \in RequestIds :
            /\ id = call[t].id /\ call[t].pc = "accepting" /\ call[t].to = id[1]
            /\ request[id].status = "PENDING" /\ request[id].to = Who[t] /\ id \in Locks(t)
      BY <3>1 DEF Accept, At, Inv, Sound, LocksHold, Locks
    <3>3. request'[id].status = "ACCEPTED" /\ request'[id].to = request[id].to
      <4>1. request' = [request EXCEPT ![id].status = "ACCEPTED"]
        BY <3>1, <3>2 DEF Accept
      <4> QED BY <3>2, <4>1, StatusSet DEF Inv, Resolved
    <3>4. Between(id) = p /\ Between(id)' = p
      BY <3>1, <3>2, <3>3 DEF Between, Partners
    <3>5. s # t /\ Locks(s) = call[s].rows
      BY <2>1, <3>2 DEF Locks
    <3>6. Partners(s) = {Who[s], call[s].to} /\ Partners(t) = {Who[t], id[1]} /\ Who[s] # Who[t]
      BY <3>2, <3>5 DEF Partners, OneSession
    <3>7. id[1] = Who[s]
      BY <2>2, <3>1, <3>6
    <3>8. id \in call[s].rows \/ WasHeld(id)
      BY <2>1, <2>2, <3>2, <3>4, <3>7 DEF BlockInv, BlockSees
    <3>9. id \notin call[s].rows
      BY <3>2, <3>5 DEF Inv, LocksHold
    <3>10. WasHeld(id)'
      BY <3>8, <3>9, HeldStays DEF Step
    <3>11. HeldOpened(p)'
      BY <3>3, <3>4, <3>10 DEF HeldOpened
    <3> QED BY <2>1, <2>2, <3>11
  <2> QED BY <2>5, <2>6
<1>2. CASE PauseConversation(s)
  <2>1. conv'[Partners(s)'] = "none"
    BY <1>2, Paused DEF Reads, Partners
  <2> QED BY <2>1
<1>3. CASE (\E b \in Members : BeginBlock(s, b)) \/ (\E i \in RequestIds : BeginAccept(s, i))
  <2>1. call'[s].pc \in {"blocking", "accepting"}
    BY <1>3 DEF BeginBlock, BeginAccept, Inv, TypeOK, Idle
  <2> QED BY <2>1
<1> QED BY <1>1, <1>2, <1>3 DEF Begins

LEMMA PausedKept ==
  ASSUME Inv, BlockInv, Step, Blocks, Opens
  PROVE  BlockedIsPaused'
<1> SUFFICES ASSUME NEW p \in Pairs, Blocked(p)', conv'[p] = "ACTIVE"
             PROVE  \E id \in RequestIds :
                      Between(id)' = p /\ request'[id].status = "ACCEPTED" /\ WasHeld(id)'
  BY DEF BlockedIsPaused
<1>1. CASE conv[p] = "ACTIVE" /\ Blocked(p)
  <2>1. PICK id \in RequestIds : Between(id) = p /\ request[id].status = "ACCEPTED" /\ WasHeld(id)
    BY <1>1 DEF BlockInv, BlockedIsPaused
  <2>2. request'[id] = request[id]
    BY <2>1 DEF Step, RequestStep
  <2> QED BY <2>1, <2>2, HeldStays DEF Step, Between
<1>2. CASE conv[p] = "ACTIVE" /\ ~Blocked(p)
  <2>1. PICK s \in Sessions : Block(s)
    BY <1>2, StillBlocked DEF Blocks
  <2>2. p = Partners(s)
    BY <1>2, <2>1, PairOfBlock
  <2>3. call[s].pc = "alone" /\ UNCHANGED conv
    BY <1>2, <2>1, <2>2 DEF Block, At, Inv, TypeOK
  <2>4. PICK id \in RequestIds : Between(id) = p /\ request[id].status = "ACCEPTED" /\ WasHeld(id)
    BY <1>2, <2>2, <2>3 DEF BlockInv, AloneSees, HeldOpened
  <2>5. request'[id] = request[id] /\ WasHeld(id)'
    BY <2>4, HeldStays DEF Step, RequestStep
  <2> QED BY <2>4, <2>5 DEF Between
<1>3. CASE conv[p] # "ACTIVE"
  <2>1. PICK s \in Sessions : Accept(s) /\ Partners(s) = p
    BY <1>3 DEF Opens
  <2>2. PICK id \in RequestIds :
          /\ id = call[s].id /\ call[s].pc = "accepting" /\ call[s].to = id[1]
          /\ request[id].status = "PENDING" /\ request[id].to = Who[s]
    BY <2>1 DEF Accept, At, Inv, Sound, LocksHold, Locks
  <2>3. /\ request'[id].status = "ACCEPTED" /\ request'[id].to = request[id].to
        /\ UNCHANGED blocks
    <3>1. /\ request' = [request EXCEPT ![id].status = "ACCEPTED"] /\ UNCHANGED blocks
      BY <2>1, <2>2 DEF Accept
    <3> QED BY <2>2, <3>1, StatusSet DEF Inv, Resolved
  <2>4. Between(id) = p /\ Between(id)' = p
    BY <2>1, <2>2, <2>3 DEF Between, Partners
  <2>5. WasHeld(id)
    BY <2>2, <2>3, <2>4 DEF BlockInv, Guarded, Blocked
  <2> QED BY <2>3, <2>4, <2>5, HeldStays DEF Step
<1> QED BY <1>1, <1>2, <1>3

LEMMA BlockInvSteps ==
  ASSUME OneSession
  PROVE  Inv /\ BlockInv /\ [Next]_vars => BlockInv'
<1>1. ASSUME Inv, BlockInv, Next PROVE BlockInv'
  <2>1. Step /\ Creates /\ Begins /\ Blocks /\ Opens /\ FreshStep
    BY <1>1, Steps, Happens
  <2> QED BY <1>1, <2>1, BlockSeesKept, AloneSeesKept, GuardedKept, FreshKept, PausedKept DEF BlockInv
<1>2. ASSUME BlockInv, UNCHANGED vars PROVE BlockInv'
  <2>1. /\ \A s \in Sessions : BlockSees(s)' /\ Guarded(s)'
        /\ \A h \in Holds : Fresh(h)'
    BY <1>2 DEF BlockInv, BlockSees, Guarded, Fresh, Between, Partners, Blocked, WasHeld, vars
  <2>3. \A s \in Sessions : AloneSees(s)'
    BY <1>2 DEF BlockInv, AloneSees, HeldOpened, Between, Partners, WasHeld, vars
  <2>2. BlockedIsPaused'
    BY <1>2 DEF BlockInv, BlockedIsPaused, Between, Blocked, WasHeld, vars
  <2> QED BY <2>1, <2>2, <2>3 DEF BlockInv
<1> QED BY <1>1, <1>2

LEMMA BlockInvInit == Init => BlockInv
<1> SUFFICES ASSUME Init PROVE BlockInv
  OBVIOUS
<1>1. \A s \in Sessions : call[s].pc = "idle"
  BY DEF Init, Idle
<1>2. \A h \in Holds : hold[h].id = NoId
  BY DEF Init, NoHeld
<1>3. \A p \in Pairs : conv[p] = "none"
  BY DEF Init
<1> QED BY <1>1, <1>2, <1>3 DEF BlockInv, BlockSees, AloneSees, Guarded, Fresh, BlockedIsPaused

\* If every member has one session, a blocked pair's conversation is never open,
\* but by a request that a moderator had held.
THEOREM BlockedPairsPaused ==
  ASSUME OneSession
  PROVE  Spec => []BlockedIsPaused
<1>1. BlockInv => BlockedIsPaused
  BY DEF BlockInv
<1>2. Inv /\ BlockInv /\ [Next]_vars => BlockInv'
  BY BlockInvSteps
<1> QED BY <1>1, <1>2, BlockInvInit, Invariance, PTL DEF Spec

=============================================================================
