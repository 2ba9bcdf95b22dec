---------------------------- MODULE AiJobsProofs ----------------------------
(***************************************************************************)
(* What the credit ledger and the job queue above it keep for every number *)
(* of lots, jobs, callers, workers, requests and attempts.                 *)
(*                                                                         *)
(* The ledger, in the first part: its types, that a closing entry repeats  *)
(* its reservation, that the wallet agrees with the ledger and is solvent, *)
(* and that quotes are honest.  The queue, in the second: its types, that  *)
(* it implements the ledger, that an attempt is spent on the provider      *)
(* once, that only a stored result is charged, and that a cancel is final. *)
(***************************************************************************)
EXTENDS AiJobs, FiniteSetTheorems, TLAPS

-----------------------------------------------------------------------------
(***************************************************************************)
(* The ledger.                                                             *)
(*                                                                         *)
(* A write takes its lot and amount from the RESERVE entry a previous read *)
(* of the same call found.  The entry is still there: the ledger is        *)
(* append-only.  That is the strengthening LedgerInv needs.  WalletInv,    *)
(* below, adds what the sums need.                                         *)
(***************************************************************************)
WritersFoundReservation ==
  \A c \in Callers : call[c].phase = "write" => HasEntry("RESERVE", call[c].job)

LedgerInv == LedgerTypeOK /\ WritersFoundReservation /\ ClosesWhatWasReserved

\* What a call that reached its write copies is a RESERVE entry of its job.
LEMMA ReservationIsEntry ==
  ASSUME LedgerTypeOK, NEW j \in Jobs \cup {NoJob}, HasEntry("RESERVE", j)
  PROVE  /\ Reservation(j) \in ledger
         /\ Reservation(j) \in Entry
         /\ Reservation(j).type = "RESERVE"
         /\ Reservation(j).job = j
BY DEF HasEntry, Reservation, LedgerTypeOK

\* An append-only ledger loses no entry.
LEMMA EntriesStay ==
  ASSUME ledger \subseteq ledger', NEW type, NEW j, HasEntry(type, j)
  PROVE  HasEntry(type, j)'
BY DEF HasEntry

LEMMA LedgerInitInv == LedgerInit => LedgerInv
BY DEF LedgerInit, LedgerInv, LedgerTypeOK, WritersFoundReservation,
       ClosesWhatWasReserved, NoCall, Call, Entry

LEMMA LedgerNextInv == LedgerInv /\ [LedgerNext]_ledgerVars => LedgerInv'
<1> SUFFICES ASSUME LedgerInv, [LedgerNext]_ledgerVars PROVE LedgerInv'
  OBVIOUS
<1> USE DEF LedgerInv
<1>1. ASSUME NEW l \in Lots, EnsureSponsoredGrant(l) PROVE LedgerInv'
  <2>1. LedgerTypeOK'
    <3>1. GrantAmount[l] \in Nat
      BY LedgerAssumption
    <3>2. lotOrder' \in Seq(Lots)
      BY <1>1 DEF EnsureSponsoredGrant, LedgerTypeOK
    <3>3. remaining' \in [Lots -> Int]
      BY <1>1, <3>1 DEF EnsureSponsoredGrant, LedgerTypeOK
    <3>4. ledger' \subseteq Entry
      BY <1>1, <3>1 DEF EnsureSponsoredGrant, LedgerTypeOK, Entry
    <3> QED BY <1>1, <3>2, <3>3, <3>4 DEF EnsureSponsoredGrant, LedgerTypeOK
  <2>2. WritersFoundReservation'
    BY <1>1 DEF EnsureSponsoredGrant, WritersFoundReservation, HasEntry
  <2>3. ClosesWhatWasReserved'
    BY <1>1 DEF EnsureSponsoredGrant, ClosesWhatWasReserved
  <2> QED BY <2>1, <2>2, <2>3
<1>2. ASSUME NEW j \in Jobs, NEW amount \in Costs, Reserve(j, amount) PROVE LedgerInv'
  <2> PICK take \in [Lots -> 0..amount], primary \in Lots :
        /\ reserved' = [l \in Lots |-> reserved[l] + take[l]]
        /\ ledger' = ledger \cup
             {[type |-> "RESERVE", job |-> j, lot |-> primary, amount |-> amount]}
    BY <1>2 DEF Reserve
  <2> amount \in Nat
    BY LedgerAssumption
  <2>1. LedgerTypeOK'
    <3>1. reserved' \in [Lots -> Int]
      BY DEF LedgerTypeOK
    <3>2. ledger' \subseteq Entry
      BY DEF LedgerTypeOK, Entry
    <3> QED BY <1>2, <3>1, <3>2 DEF Reserve, LedgerTypeOK
  <2>2. WritersFoundReservation'
    BY <1>2 DEF Reserve, WritersFoundReservation, HasEntry
  <2>3. ClosesWhatWasReserved'
    BY DEF ClosesWhatWasReserved
  <2> QED BY <2>1, <2>2, <2>3
<1>3. ASSUME NEW c \in Callers, NEW op \in {"settle", "release"}, NEW j \in Jobs,
             BeginCall(c, op, j)
      PROVE  LedgerInv'
  <2>1. LedgerTypeOK'
    BY <1>3 DEF BeginCall, Begin, LedgerTypeOK, Call
  <2>2. WritersFoundReservation'
    <3>1. ledger' = ledger /\ \A d \in Callers : call'[d] = call[d] \/ call'[d].phase # "write"
      BY <1>3 DEF BeginCall, Begin, LedgerTypeOK
    <3> QED BY <3>1 DEF WritersFoundReservation, HasEntry
  <2>3. ClosesWhatWasReserved'
    BY <1>3 DEF BeginCall, ClosesWhatWasReserved
  <2> QED BY <2>1, <2>2, <2>3
<1>4. ASSUME NEW c \in Callers, ReadKeys(c) PROVE LedgerInv'
  <2>1. LedgerTypeOK'
    <3> call[c] \in Call
      BY DEF LedgerTypeOK
    <3>1. [call[c] EXCEPT !.phase = "write"] \in Call /\ NoCall \in Call
      BY DEF Call, NoCall
    <3>2. call' \in [Callers -> Call]
      BY <1>4, <3>1 DEF ReadKeys, LedgerTypeOK
    <3> QED BY <1>4, <3>2 DEF ReadKeys, LedgerTypeOK
  <2>2. WritersFoundReservation'
    <3>1. /\ ledger' = ledger
          /\ \A d \in Callers :
               \/ call'[d] = call[d] \/ call'[d].phase # "write"
               \/ call'[d].job = call[d].job /\ HasEntry("RESERVE", call[d].job)
      BY <1>4 DEF ReadKeys, Held, HasEntry, NoCall, LedgerTypeOK, Call
    <3> QED BY <3>1 DEF WritersFoundReservation, HasEntry
  <2>3. ClosesWhatWasReserved'
    BY <1>4 DEF ReadKeys, ClosesWhatWasReserved
  <2> QED BY <2>1, <2>2, <2>3
<1>5. ASSUME NEW c \in Callers, DuplicateKey(c) \/ CallDies(c) PROVE LedgerInv'
  <2>1. LedgerTypeOK'
    <3>1. NoCall \in Call
      BY DEF Call, NoCall
    <3> QED BY <1>5, <3>1 DEF DuplicateKey, CallDies, LedgerTypeOK
  <2>2. WritersFoundReservation'
    <3>1. ledger' = ledger /\ \A d \in Callers : call'[d] = call[d] \/ call'[d].phase # "write"
      BY <1>5 DEF DuplicateKey, CallDies, NoCall, LedgerTypeOK
    <3> QED BY <3>1 DEF WritersFoundReservation, HasEntry
  <2>3. ClosesWhatWasReserved'
    BY <1>5 DEF DuplicateKey, CallDies, ClosesWhatWasReserved
  <2> QED BY <2>1, <2>2, <2>3
<1>6. ASSUME NEW c \in Callers, SettleWrite(c) \/ ReleaseWrite(c) PROVE LedgerInv'
  <2> DEFINE j == call[c].job
             r == Reservation(j)
             Closes(type, paid) ==
               /\ reserved' = [reserved EXCEPT ![r.lot] = @ - r.amount]
               /\ remaining' = [remaining EXCEPT ![r.lot] = @ - paid]
               /\ ledger' = ledger \cup {[r EXCEPT !.type = type]}
               /\ call' = [call EXCEPT ![c] = NoCall]
               /\ lotOrder' = lotOrder
  <2>0. /\ j \in Jobs \cup {NoJob}
        /\ HasEntry("RESERVE", j)
    BY <1>6 DEF SettleWrite, ReleaseWrite, Close, WritersFoundReservation, LedgerTypeOK, Call
  <2>1. /\ r \in ledger /\ r \in Entry /\ r.type = "RESERVE"
    BY <2>0, ReservationIsEntry
  <2>2. PICK type \in {"SETTLE", "RELEASE"}, paid \in Int : Closes(type, paid)
    <3>1. CASE SettleWrite(c)
      <4>1. r.amount \in Int
        BY <2>1 DEF Entry
      <4>2. /\ Closing(c, "SETTLE") = [r EXCEPT !.type = "SETTLE"]
            /\ Closing(c, "SETTLE").lot = r.lot /\ Closing(c, "SETTLE").amount = r.amount
        BY <2>1 DEF Closing, Entry
      <4>3. Closes("SETTLE", r.amount)
        BY <3>1, <4>2 DEF SettleWrite, Close
      <4> QED BY <4>1, <4>3
    <3>2. CASE ReleaseWrite(c)
      <4>1. /\ Closing(c, "RELEASE") = [r EXCEPT !.type = "RELEASE"]
            /\ Closing(c, "RELEASE").lot = r.lot /\ Closing(c, "RELEASE").amount = r.amount
        BY <2>1 DEF Closing, Entry
      <4>2. Closes("RELEASE", 0)
        BY <3>2, <4>1 DEF ReleaseWrite, Close
      <4> HIDE DEF Closes
      <4> QED BY <4>2
    <3> QED BY <1>6, <3>1, <3>2
  <2> HIDE DEF j, r
  <2>3. LedgerTypeOK'
    <3>1. [r EXCEPT !.type = type] \in Entry
      BY <2>1 DEF Entry
    <3>2. ledger' \subseteq Entry
      BY <2>2, <3>1 DEF LedgerTypeOK
    <3>3. r.lot \in Lots /\ r.amount \in Nat
      BY <2>1 DEF Entry
    <3>4. reserved' \in [Lots -> Int] /\ remaining' \in [Lots -> Int]
      BY <2>2, <3>3 DEF LedgerTypeOK
    <3>5. call' \in [Callers -> Call]
      BY <2>2 DEF LedgerTypeOK, Call, NoCall
    <3> QED BY <2>2, <3>2, <3>4, <3>5 DEF LedgerTypeOK
  <2>4. WritersFoundReservation'
    <3>1. ASSUME NEW d \in Callers, call'[d].phase = "write"
          PROVE  HasEntry("RESERVE", call[d].job)' /\ call'[d] = call[d]
      <4>1. d # c /\ call'[d] = call[d]
        BY <2>2, <3>1 DEF LedgerTypeOK, NoCall
      <4>2. HasEntry("RESERVE", call[d].job)
        BY <3>1, <4>1 DEF WritersFoundReservation
      <4> QED BY <2>2, <4>1, <4>2 DEF HasEntry
    <3> QED BY <3>1 DEF WritersFoundReservation, HasEntry
  <2>5. ClosesWhatWasReserved'
    <3>1. [[r EXCEPT !.type = type] EXCEPT !.type = "RESERVE"] = r
      BY <2>1 DEF Entry
    <3> QED BY <2>1, <2>2, <3>1 DEF ClosesWhatWasReserved
  <2> QED BY <2>3, <2>4, <2>5
<1>7. CASE UNCHANGED ledgerVars
  BY <1>7 DEF ledgerVars, LedgerTypeOK, WritersFoundReservation, ClosesWhatWasReserved, HasEntry
<1> QED
  BY <1>1, <1>2, <1>3, <1>4, <1>5, <1>6, <1>7 DEF LedgerNext, CallStep

\* Rows and the state of the callers keep their types.
THEOREM LedgerTypeCorrect == LedgerSpec => []LedgerTypeOK
BY LedgerInitInv, LedgerNextInv, PTL DEF LedgerSpec, LedgerInv

\* Whatever is settled or released is exactly what was reserved, on the lot it
\* was reserved on, whatever the interleaving of the callers.
THEOREM ClosesOnlyReservations == LedgerSpec => []ClosesWhatWasReserved
BY LedgerInitInv, LedgerNextInv, PTL DEF LedgerSpec, LedgerInv

\* A closed job that no caller is about to close keeps its closing entries in
\* every step.  A write closes the job of its caller, which is another one,
\* and a read of the keys finds the job closed and does not go on to a write.
LEMMA EndingStays ==
  ASSUME LedgerInv, [LedgerNext]_ledgerVars, NEW j \in Jobs, Closed(j), ~AboutToClose(j)
  PROVE  Ending(j)' = Ending(j) /\ ~AboutToClose(j)'
<1> DEFINE Others == {e \in ledger' : e.job # j \/ e.type \notin {"SETTLE", "RELEASE"}}
           Grows == ledger \subseteq ledger' /\ ledger' \subseteq ledger \cup Others
           NoWriter == \A c \in Callers : call'[c].phase = "write" => call'[c].job # j
<1>0. SUFFICES Grows /\ NoWriter
  <2>1. Ending(j)' = {e \in ledger' : e.job = j /\ e.type \in {"SETTLE", "RELEASE"}}
    BY DEF Ending
  <2> QED BY <2>1 DEF Ending, AboutToClose
<1>a. /\ call \in [Callers -> Call]
      /\ \A c \in Callers : call[c].phase = "write" => call[c].job # j
  BY DEF LedgerInv, LedgerTypeOK, AboutToClose
<1>1. ASSUME NEW l \in Lots, EnsureSponsoredGrant(l) PROVE Grows /\ NoWriter
  BY <1>1, <1>a DEF EnsureSponsoredGrant
<1>2. ASSUME NEW i \in Jobs, NEW amount \in Costs, Reserve(i, amount) PROVE Grows /\ NoWriter
  BY <1>2, <1>a DEF Reserve
<1>3. ASSUME NEW c \in Callers, NEW op \in {"settle", "release"}, NEW i \in Jobs,
             BeginCall(c, op, i)
      PROVE  Grows /\ NoWriter
  BY <1>3, <1>a DEF BeginCall, Begin
<1>4. ASSUME NEW c \in Callers, ReadKeys(c) PROVE Grows /\ NoWriter
  <2>1. Held(call[c].job) => call[c].job # j
    BY DEF Closed, Held
  <2>2. \A d \in Callers \ {c} : call'[d] = call[d]
    BY <1>4, <1>a DEF ReadKeys
  <2>3. call'[c].phase = "write" => call'[c].job # j
    BY <1>4, <1>a, <2>1 DEF ReadKeys, NoCall, Call
  <2> QED BY <1>4, <1>a, <2>2, <2>3 DEF ReadKeys
<1>5. ASSUME NEW c \in Callers, DuplicateKey(c) \/ CallDies(c) PROVE Grows /\ NoWriter
  BY <1>5, <1>a DEF DuplicateKey, CallDies, NoCall
<1>6. ASSUME NEW c \in Callers, SettleWrite(c) \/ ReleaseWrite(c) PROVE Grows /\ NoWriter
  <2>1. PICK type \in {"SETTLE", "RELEASE"} :
          /\ call[c].phase = "write"
          /\ ledger' = ledger \cup {Closing(c, type)}
          /\ call' = [call EXCEPT ![c] = NoCall]
    BY <1>6 DEF SettleWrite, ReleaseWrite, Close
  <2>2. call[c].job # j /\ call[c].job \in Jobs \cup {NoJob} /\ HasEntry("RESERVE", call[c].job)
    BY <1>a, <2>1 DEF LedgerInv, WritersFoundReservation, Call
  <2>3. Closing(c, type).job # j
    BY <2>2, ReservationIsEntry DEF LedgerInv, Closing, Entry
  <2>4. NoWriter
    BY <1>a, <2>1 DEF NoCall
  <2> QED BY <2>1, <2>3, <2>4
<1>7. CASE UNCHANGED ledgerVars
  BY <1>7, <1>a DEF ledgerVars
<1> QED
  BY <1>1, <1>2, <1>3, <1>4, <1>5, <1>6, <1>7 DEF LedgerNext, CallStep

\* A job that was settled or released stays as it ended, unless two calls were
\* past their reads at the same time.
THEOREM EndingsAreFinal == LedgerSpec => EndingIsFinal
<1>1. LedgerInv /\ [LedgerNext]_ledgerVars =>
        [\A j \in Jobs : Closed(j) /\ ~AboutToClose(j)
           => Ending(j)' = Ending(j) /\ ~AboutToClose(j)']_ledgerVars
  BY EndingStays
<1> QED BY <1>1, LedgerInitInv, LedgerNextInv, PTL DEF LedgerSpec, EndingIsFinal

-----------------------------------------------------------------------------
(***************************************************************************)
(* Sums.  SumFunction adds up what a function takes its values to, one     *)
(* element after the other; an induction on the subsets of its domain      *)
(* says that it does, and that no order of the elements matters.           *)
(***************************************************************************)
LEMMA WellFounded ==
  ASSUME NEW S, IsFiniteSet(S) PROVE IsWellFoundedOn(StrictSubsetOrdering(S), SUBSET S)
<1>1. IsWellFoundedOn(StrictSubsetOrdering(S), FiniteSubsetsOf(S))
  BY FS_StrictSubsetOrderingWellFounded
<1>2. FiniteSubsetsOf(S) = SUBSET S
  BY FS_FiniteSubsetsOfFinite
<1> QED BY <1>1, <1>2

\* Induction on a finite set: G holds the subsets of which the claim is true.
LEMMA SetInduction ==
  ASSUME NEW S, IsFiniteSet(S), NEW G \in SUBSET (SUBSET S), {} \in G,
         \A s \in SUBSET S : s # {} /\ (\A x \in s : s \ {x} \in G) => s \in G
  PROVE  \A s \in SUBSET S : s \in G
<1> SUFFICES ASSUME NEW s0 \in SUBSET S, s0 \notin G PROVE FALSE
  OBVIOUS
<1> DEFINE R == StrictSubsetOrdering(S)
           T == (SUBSET S) \ G
<1>1. IsWellFoundedOn(R, SUBSET S)
  BY WellFounded
<1>2. T \subseteq SUBSET S /\ T # {}
  OBVIOUS
<1>3. \E s \in T : \A t \in T : <<t, s>> \notin R
  <2> HIDE DEF R, T
  <2> QED BY <1>1, <1>2, WFMin
<1> HIDE DEF R
<1>4. PICK s \in T : \A t \in T : <<t, s>> \notin R
  BY <1>3
<1>5. \A x \in s : <<s \ {x}, s>> \in R
  BY DEF R, StrictSubsetOrdering
<1>6. \A x \in s : s \ {x} \in G
  BY <1>4, <1>5
<1> QED BY <1>6

\* What SumFunction picks next, and the table of partial sums it is read from.
PickNext(s) == CHOOSE x \in s : TRUE
Sums(f, S, g) ==
  g = [s \in SUBSET S |-> IF s = {} THEN 0 ELSE f[PickNext(s)] + g[s \ {PickNext(s)}]]

LEMMA NextIn == ASSUME NEW s, s # {} PROVE PickNext(s) \in s
BY DEF PickNext

\* The table exists: its graph is the least set that is closed under the equation.
LEMMA SumsExist ==
  ASSUME NEW S, IsFiniteSet(S), NEW f, \A x \in S : f[x] \in Int
  PROVE  \E g \in [SUBSET S -> Int] : Sums(f, S, g)
<1> DEFINE P == (SUBSET S) \X Int
           Rests(s) == s \ {PickNext(s)}
           Rooted(R) ==
             /\ <<{}, 0>> \in R
             /\ \A s \in SUBSET S, v \in Int :
                  s # {} /\ <<Rests(s), v>> \in R => <<s, f[PickNext(s)] + v>> \in R
           Graph == {p \in P : \A R \in SUBSET P : Rooted(R) => p \in R}
           Good == {s \in SUBSET S : \E v \in Int : \A w \in Int : <<s, w>> \in Graph <=> w = v}
<1>1. \A s \in SUBSET S : s # {} =>
        PickNext(s) \in s /\ f[PickNext(s)] \in Int /\ Rests(s) \in SUBSET S
  BY NextIn
<1>2. <<{}, 0>> \in Graph
  OBVIOUS
<1>3. ASSUME NEW s \in SUBSET S, NEW v \in Int, s # {}, <<Rests(s), v>> \in Graph
      PROVE  <<s, f[PickNext(s)] + v>> \in Graph
  <2>1. <<s, f[PickNext(s)] + v>> \in P
    BY <1>1, <1>3
  <2>2. ASSUME NEW R \in SUBSET P, Rooted(R) PROVE <<s, f[PickNext(s)] + v>> \in R
    BY <1>3, <2>2
  <2> QED BY <2>1, <2>2
<1>4. Rooted(Graph)
  BY <1>2, <1>3
<1>5. ASSUME NEW s \in SUBSET S, NEW w \in Int, <<s, w>> \in Graph, s = {} => w # 0,
             s # {} => \A v \in Int : <<Rests(s), v>> \in Graph => w # f[PickNext(s)] + v
      PROVE  FALSE
  <2> DEFINE R == Graph \ {<<s, w>>}
  <2>1. R \in SUBSET P
    OBVIOUS
  <2>2. Rooted(R)
    <3>1. <<{}, 0>> \in R
      BY <1>2, <1>5
    <3>2. ASSUME NEW t \in SUBSET S, NEW v \in Int, t # {}, <<Rests(t), v>> \in R
          PROVE  <<t, f[PickNext(t)] + v>> \in R
      <4>1. <<t, f[PickNext(t)] + v>> \in Graph
        BY <1>3, <3>2
      <4>2. ~(t = s /\ f[PickNext(t)] + v = w)
        BY <1>5, <3>2
      <4> QED BY <4>1, <4>2
    <3> QED BY <3>1, <3>2
  <2> QED BY <1>5, <2>1, <2>2
<1>6. {} \in Good
  <2>1. \A w \in Int : <<{}, w>> \in Graph => w = 0
    BY <1>5
  <2> QED BY <1>2, <2>1
<1>7. ASSUME NEW s \in SUBSET S, s # {}, Rests(s) \in Good
      PROVE  s \in Good
  <2>1. PICK v \in Int : \A w \in Int : <<Rests(s), w>> \in Graph <=> w = v
    BY <1>7
  <2>2. f[PickNext(s)] + v \in Int /\ <<s, f[PickNext(s)] + v>> \in Graph
    BY <1>1, <1>3, <1>7, <2>1
  <2>3. ASSUME NEW w \in Int, <<s, w>> \in Graph, w # f[PickNext(s)] + v PROVE FALSE
    <3>1. \A u \in Int : <<Rests(s), u>> \in Graph => w # f[PickNext(s)] + u
      BY <2>1, <2>3
    <3> QED BY <1>5, <1>7, <2>3, <3>1
  <2> QED BY <2>2, <2>3
<1> HIDE DEF Graph
<1>8. \A s \in SUBSET S : s \in Good
  <2> HIDE DEF Good
  <2>1. Good \in SUBSET (SUBSET S)
    BY DEF Good
  <2> QED BY <1>1, <1>6, <1>7, <2>1, SetInduction
<1> DEFINE value(s) == CHOOSE v \in Int : <<s, v>> \in Graph
<1>9. \A s \in SUBSET S : value(s) \in Int /\ \A w \in Int : <<s, w>> \in Graph <=> w = value(s)
  BY <1>8
<1> HIDE DEF value
<1>10. PICK g : g = [s \in SUBSET S |-> value(s)]
  OBVIOUS
<1>11. \A s \in SUBSET S, w \in Int : g[s] \in Int /\ (<<s, w>> \in Graph <=> w = g[s])
  BY <1>9, <1>10
<1>12. g = [s \in SUBSET S |-> g[s]]
  BY <1>10
<1>13. \A s \in SUBSET S : g[s] = IF s = {} THEN 0 ELSE f[PickNext(s)] + g[s \ {PickNext(s)}]
  <2> TAKE s \in SUBSET S
  <2>1. CASE s = {}
    <3>1. <<s, 0>> \in Graph
      BY <1>2, <2>1
    <3>2. g[s] = 0
      BY <1>11, <3>1
    <3> QED BY <2>1, <3>2
  <2>2. CASE s # {}
    <3>1. Rests(s) \in SUBSET S /\ g[Rests(s)] \in Int /\ <<Rests(s), g[Rests(s)]>> \in Graph
      BY <1>1, <1>11, <2>2
    <3>2. f[PickNext(s)] + g[Rests(s)] \in Int /\ <<s, f[PickNext(s)] + g[Rests(s)]>> \in Graph
      BY <1>1, <1>3, <2>2, <3>1
    <3> QED BY <1>11, <2>2, <3>2
  <2> QED BY <2>1, <2>2
<1>14. g \in [SUBSET S -> Int]
  BY <1>9, <1>10
<1>15. Sums(f, S, g)
  BY <1>12, <1>13 DEF Sums
<1> QED BY <1>14, <1>15

\* The order in which the elements are picked does not matter.
AnyOrder(f, S, g) == \A s \in SUBSET S : \A x \in s : g[s] = f[x] + g[s \ {x}]

LEMMA SumsAnyOrder ==
  ASSUME NEW S, NEW f, NEW g, Sums(f, S, g), g \in [SUBSET S -> Int],
         IsFiniteSet(S), \A x \in S : f[x] \in Int
  PROVE  AnyOrder(f, S, g)
<1> DEFINE Good == {s \in SUBSET S : \A x \in s : g[s] = f[x] + g[s \ {x}]}
<1>1. \A s \in SUBSET S : g[s] = IF s = {} THEN 0 ELSE f[PickNext(s)] + g[s \ {PickNext(s)}]
  BY DEF Sums
<1>2. {} \in Good
  OBVIOUS
<1>3. ASSUME NEW s \in SUBSET S, s # {}, \A x \in s : s \ {x} \in Good
      PROVE  s \in Good
  <2> SUFFICES ASSUME NEW x \in s, x # PickNext(s) PROVE g[s] = f[x] + g[s \ {x}]
    BY <1>1, <1>3
  <2> DEFINE c == PickNext(s)
             rest == s \ {c, x}
  <2>1. c \in s
    BY <1>3, NextIn
  <2>2. /\ (s \ {c}) \ {x} = rest /\ (s \ {x}) \ {c} = rest
        /\ s \ {c} \in SUBSET S /\ s \ {x} \in SUBSET S /\ rest \in SUBSET S
        /\ x \in s \ {c} /\ c \in s \ {x}
    BY <2>1
  <2>3. g[s] = f[c] + g[s \ {c}]
    BY <1>1, <1>3
  <2>4. g[s \ {c}] = f[x] + g[rest]
    BY <1>3, <2>1, <2>2
  <2>5. g[s \ {x}] = f[c] + g[rest]
    BY <1>3, <2>2
  <2>6. f[x] \in Int /\ f[c] \in Int /\ g[rest] \in Int
    BY <2>1, <2>2
  <2> HIDE DEF c, rest
  <2> QED BY <2>3, <2>4, <2>5, <2>6
<1> HIDE DEF Good
<1>4. \A s \in SUBSET S : s \in Good
  <2>1. Good \in SUBSET (SUBSET S)
    BY DEF Good
  <2> QED BY <1>2, <1>3, <2>1, SetInduction
<1> QED BY <1>4 DEF Good, AnyOrder

\* SumFunction of a function's restriction to s is the entry of s in the table.
LEMMA SumIsEntry ==
  ASSUME NEW S, IsFiniteSet(S), NEW f, \A x \in S : f[x] \in Int,
         NEW g \in [SUBSET S -> Int], Sums(f, S, g), NEW s \in SUBSET S
  PROVE  SumFunction(Restrict(f, s)) = g[s]
<1> DEFINE h == Restrict(f, s)
           own == CHOOSE k : k = [t \in SUBSET s |-> IF t = {} THEN 0
                                                     ELSE h[PickNext(t)] + k[t \ {PickNext(t)}]]
<1>1. DOMAIN h = s /\ \A x \in s : h[x] = f[x]
  BY DEF Restrict
<1>2. SumFunction(h) = own[s]
  <2> HIDE DEF h
  <2> QED BY <1>1 DEF SumFunction, SumFunctionOnSet, FoldFunctionOnSet, MapThenFoldSet, PickNext
<1> HIDE DEF h
<1>3. IsFiniteSet(s)
  BY FS_Subset
<1>4. \E k : Sums(h, s, k)
  BY <1>1, <1>3, SumsExist
<1>5. own = [t \in SUBSET s |-> IF t = {} THEN 0 ELSE h[PickNext(t)] + own[t \ {PickNext(t)}]]
  BY <1>4 DEF Sums
<1> HIDE DEF own
<1> DEFINE Good == {t \in SUBSET s : own[t] = g[t]}
<1>6. {} \in Good
  <2>1. own[{}] = 0
    BY <1>5
  <2>2. g[{}] = 0
    BY DEF Sums
  <2> QED BY <2>1, <2>2
<1>7. ASSUME NEW t \in SUBSET s, t # {}, \A x \in t : t \ {x} \in Good
      PROVE  t \in Good
  <2>1. PickNext(t) \in t /\ t \in SUBSET S
    BY <1>7, NextIn
  <2>2. own[t] = h[PickNext(t)] + own[t \ {PickNext(t)}]
    BY <1>5, <1>7
  <2>3. g[t] = f[PickNext(t)] + g[t \ {PickNext(t)}]
    BY <1>7, <2>1 DEF Sums
  <2>4. own[t \ {PickNext(t)}] = g[t \ {PickNext(t)}]
    BY <1>7, <2>1
  <2> QED BY <1>1, <2>1, <2>2, <2>3, <2>4
<1> HIDE DEF Good
<1>8. s \in Good
  <2>1. Good \in SUBSET (SUBSET s)
    BY DEF Good
  <2> QED BY <1>3, <1>6, <1>7, <2>1, SetInduction
<1> QED BY <1>2, <1>8 DEF Good, h

\* What a sum is made of.
LEMMA SumParts ==
  ASSUME NEW S, IsFiniteSet(S), NEW f, \A x \in S : f[x] \in Int
  PROVE  /\ \A s \in SUBSET S : SumFunction(Restrict(f, s)) \in Int
         /\ SumFunction(Restrict(f, {})) = 0
         /\ \A s \in SUBSET S : \A x \in s :
              SumFunction(Restrict(f, s)) = f[x] + SumFunction(Restrict(f, s \ {x}))
<1>1. PICK g \in [SUBSET S -> Int] : Sums(f, S, g)
  BY SumsExist
<1>2. \A s \in SUBSET S : SumFunction(Restrict(f, s)) = g[s]
  BY <1>1, SumIsEntry
<1>3. g[{}] = 0
  BY <1>1 DEF Sums
<1>4. \A s \in SUBSET S : \A x \in s : g[s] = f[x] + g[s \ {x}]
  <2>1. AnyOrder(f, S, g)
    BY <1>1, SumsAnyOrder
  <2> QED BY <2>1 DEF AnyOrder
<1>5. ASSUME NEW s \in SUBSET S, NEW x \in s
      PROVE  SumFunction(Restrict(f, s)) = f[x] + SumFunction(Restrict(f, s \ {x}))
  <2>1. s \ {x} \in SUBSET S
    OBVIOUS
  <2>2. SumFunction(Restrict(f, s)) = g[s] /\ SumFunction(Restrict(f, s \ {x})) = g[s \ {x}]
    BY <1>2, <2>1
  <2> QED BY <1>4, <2>2
<1>6. \A s \in SUBSET S : SumFunction(Restrict(f, s)) \in Int
  BY <1>2
<1>7. SumFunction(Restrict(f, {})) = 0
  BY <1>2, <1>3
<1> QED BY <1>5, <1>6, <1>7

LEMMA WholeIsRestriction ==
  ASSUME NEW S, NEW T, NEW f \in [S -> T] PROVE Restrict(f, S) = f
BY DEF Restrict

\* A function that is below another one everywhere has the smaller sum.
LEMMA SumMonotone ==
  ASSUME NEW S, IsFiniteSet(S), NEW f \in [S -> Int], NEW h \in [S -> Int],
         \A x \in S : f[x] <= h[x]
  PROVE  SumFunction(f) <= SumFunction(h)
<1> DEFINE F(s) == SumFunction(Restrict(f, s))
           H(s) == SumFunction(Restrict(h, s))
           Good == {s \in SUBSET S : F(s) <= H(s)}
<1>1. /\ \A s \in SUBSET S : F(s) \in Int
      /\ F({}) = 0
      /\ \A s \in SUBSET S : \A x \in s : F(s) = f[x] + F(s \ {x})
  BY SumParts
<1>2. /\ \A s \in SUBSET S : H(s) \in Int
      /\ H({}) = 0
      /\ \A s \in SUBSET S : \A x \in s : H(s) = h[x] + H(s \ {x})
  BY SumParts
<1> HIDE DEF F, H
<1>3. {} \in Good
  BY <1>1, <1>2
<1>4. ASSUME NEW s \in SUBSET S, s # {}, \A x \in s : s \ {x} \in Good
      PROVE  s \in Good
  <2>1. PICK x \in s : s \ {x} \in Good
    BY <1>4
  <2>2. /\ F(s) = f[x] + F(s \ {x}) /\ H(s) = h[x] + H(s \ {x})
        /\ F(s \ {x}) <= H(s \ {x}) /\ F(s \ {x}) \in Int /\ H(s \ {x}) \in Int
        /\ f[x] <= h[x] /\ f[x] \in Int /\ h[x] \in Int
    BY <1>1, <1>2, <2>1
  <2>3. F(s) <= H(s)
    BY <2>2
  <2> QED BY <2>3
<1> HIDE DEF Good
<1>5. S \in Good
  <2>1. Good \in SUBSET (SUBSET S) /\ S \in SUBSET S
    BY DEF Good
  <2> QED BY <1>3, <1>4, <2>1, SetInduction
<1>6. F(S) <= H(S)
  BY <1>5 DEF Good
<1> QED BY <1>6, WholeIsRestriction DEF F, H

\* The sum of a pointwise sum.
LEMMA SumAdds ==
  ASSUME NEW S, IsFiniteSet(S), NEW f \in [S -> Int], NEW h \in [S -> Int],
         NEW k \in [S -> Int], \A x \in S : k[x] = f[x] + h[x]
  PROVE  SumFunction(k) = SumFunction(f) + SumFunction(h)
<1> DEFINE F(s) == SumFunction(Restrict(f, s))
           H(s) == SumFunction(Restrict(h, s))
           K(s) == SumFunction(Restrict(k, s))
           Good == {s \in SUBSET S : K(s) = F(s) + H(s)}
<1>1. /\ \A s \in SUBSET S : F(s) \in Int
      /\ F({}) = 0
      /\ \A s \in SUBSET S : \A x \in s : F(s) = f[x] + F(s \ {x})
  BY SumParts
<1>2. /\ \A s \in SUBSET S : H(s) \in Int
      /\ H({}) = 0
      /\ \A s \in SUBSET S : \A x \in s : H(s) = h[x] + H(s \ {x})
  BY SumParts
<1>3. /\ \A s \in SUBSET S : K(s) \in Int
      /\ K({}) = 0
      /\ \A s \in SUBSET S : \A x \in s : K(s) = k[x] + K(s \ {x})
  BY SumParts
<1> HIDE DEF F, H, K
<1>4. {} \in Good
  BY <1>1, <1>2, <1>3
<1>5. ASSUME NEW s \in SUBSET S, s # {}, \A x \in s : s \ {x} \in Good
      PROVE  s \in Good
  <2>1. PICK x \in s : s \ {x} \in Good
    BY <1>5
  <2>2. /\ F(s) = f[x] + F(s \ {x}) /\ H(s) = h[x] + H(s \ {x}) /\ K(s) = k[x] + K(s \ {x})
        /\ K(s \ {x}) = F(s \ {x}) + H(s \ {x})
        /\ F(s \ {x}) \in Int /\ H(s \ {x}) \in Int
        /\ k[x] = f[x] + h[x] /\ f[x] \in Int /\ h[x] \in Int
    BY <1>1, <1>2, <1>3, <2>1
  <2>3. K(s) = F(s) + H(s)
    BY <2>2
  <2> QED BY <2>3
<1> HIDE DEF Good
<1>6. S \in Good
  <2>1. Good \in SUBSET (SUBSET S) /\ S \in SUBSET S
    BY DEF Good
  <2> QED BY <1>4, <1>5, <2>1, SetInduction
<1>7. K(S) = F(S) + H(S)
  BY <1>6 DEF Good
<1> QED BY <1>7, WholeIsRestriction DEF F, H, K

LEMMA SumIsInt ==
  ASSUME NEW S, IsFiniteSet(S), NEW f \in [S -> Int]
  PROVE  SumFunction(f) \in Int
<1>1. (\A x \in S : f[x] \in Int) /\ S \in SUBSET S /\ Restrict(f, S) = f
  BY WholeIsRestriction
<1>2. SumFunction(Restrict(f, S)) \in Int
  BY <1>1, SumParts
<1> QED BY <1>1, <1>2

\* One value changes.
LEMMA SumUpdate ==
  ASSUME NEW S, IsFiniteSet(S), NEW f \in [S -> Int], NEW x \in S, NEW h \in [S -> Int],
         \A y \in S \ {x} : h[y] = f[y]
  PROVE  SumFunction(h) = SumFunction(f) - f[x] + h[x]
<1>1. Restrict(h, S \ {x}) = Restrict(f, S \ {x})
  BY DEF Restrict
<1>2. /\ \A y \in S : f[y] \in Int /\ h[y] \in Int
      /\ S \in SUBSET S /\ S \ {x} \in SUBSET S
      /\ Restrict(f, S) = f /\ Restrict(h, S) = h
  BY WholeIsRestriction
<1>3. PICK rest \in Int : rest = SumFunction(Restrict(f, S \ {x}))
  BY <1>2, SumParts
<1>4. SumFunction(Restrict(f, S)) = f[x] + rest
  BY <1>2, <1>3, SumParts
<1>5. SumFunction(Restrict(h, S)) = h[x] + rest
  BY <1>1, <1>2, <1>3, SumParts
<1> QED BY <1>2, <1>3, <1>4, <1>5

\* All values are zero.
LEMMA SumOfZeros ==
  ASSUME NEW S, IsFiniteSet(S), NEW f \in [S -> Int], \A x \in S : f[x] = 0
  PROVE  SumFunction(f) = 0
<1>1. \A x \in S : f[x] = f[x] + f[x]
  OBVIOUS
<1>2. SumFunction(f) = SumFunction(f) + SumFunction(f)
  BY <1>1, SumAdds
<1> QED BY <1>2, SumIsInt

\* Some values are left out that are zero.
LEMMA SumOfSome ==
  ASSUME NEW S, IsFiniteSet(S), NEW f \in [S -> Int], NEW s \in SUBSET S,
         \A x \in S \ s : f[x] = 0
  PROVE  SumFunction(Restrict(f, s)) = SumFunction(f)
<1> DEFINE F(t) == SumFunction(Restrict(f, s \cup t))
           D == S \ s
           Good == {t \in SUBSET D : F(t) = F({})}
<1>0. IsFiniteSet(D) /\ s \cup D = S /\ s \cup {} = s
  BY FS_Subset
<1>1. {} \in Good
  OBVIOUS
<1>2. ASSUME NEW t \in SUBSET D, t # {}, \A x \in t : t \ {x} \in Good
      PROVE  t \in Good
  <2>1. PICK x \in t : t \ {x} \in Good
    BY <1>2
  <2>2. s \cup t \in SUBSET S /\ x \in s \cup t /\ (s \cup t) \ {x} = s \cup (t \ {x}) /\ f[x] = 0
    OBVIOUS
  <2>3. PICK rest \in Int : rest = F(t \ {x})
    <3>1. s \cup (t \ {x}) \in SUBSET S
      BY <2>2
    <3> QED BY <3>1, SumParts
  <2>4. F(t) = f[x] + F(t \ {x})
    BY <2>2, SumParts
  <2> HIDE DEF F
  <2>5. F(t) = F({})
    BY <2>1, <2>2, <2>3, <2>4
  <2> QED BY <2>5
<1> HIDE DEF Good
<1>3. D \in Good
  <2>1. Good \in SUBSET (SUBSET D) /\ D \in SUBSET D
    BY DEF Good
  <2> HIDE DEF D
  <2> QED BY <1>0, <1>1, <1>2, <2>1, SetInduction
<1>4. F(D) = F({})
  BY <1>3 DEF Good
<1> QED BY <1>0, <1>4, WholeIsRestriction

-----------------------------------------------------------------------------
(***************************************************************************)
(* The wallet matches the ledger.  A write moves the lots and adds an      *)
(* entry the ledger did not have: each sum changes by the same amount on   *)
(* both sides.  A lot that was not granted yet is empty, and no            *)
(* reservation names one.                                                  *)
(***************************************************************************)
UngrantedIsEmpty == \A l \in Lots \ Granted : remaining[l] = 0 /\ reserved[l] = 0
ReservedIsThere == \A l \in Lots : reserved[l] <= remaining[l]
LedgerIsGrown ==
  /\ IsFiniteSet(ledger)
  /\ \A e \in ledger : e.lot \in Granted /\ (e.type # "GRANT" => e.job \in Jobs)
GrantedOnce == \A m, n \in DOMAIN lotOrder : lotOrder[m] = lotOrder[n] => m = n

WalletInv ==
  /\ LedgerInv
  /\ UngrantedIsEmpty
  /\ ReservedIsThere
  /\ LedgerIsGrown
  /\ GrantedOnce
  /\ WalletMatchesLedger

\* What the entries of a type in a ledger L add up to.
TotalOf(L, type) == SumFunction([e \in {x \in L : x.type = type} |-> e.amount])

\* Total is a total over the ledger of the state it is read in.
LEMMA TotalIsTotalOf ==
  /\ \A type : Total(type) = TotalOf(ledger, type)
  /\ \A type : Total(type)' = TotalOf(ledger', type)
BY DEF Total, TotalOf, EntriesOf

\* An entry the ledger did not have counts in the total of its type only.
LEMMA NewEntry ==
  ASSUME NEW L \in SUBSET Entry, IsFiniteSet(L), NEW e \in Entry \ L, NEW type
  PROVE  /\ TotalOf(L, type) \in Int
         /\ IsFiniteSet(L \cup {e})
         /\ e.type = type => TotalOf(L \cup {e}, type) = TotalOf(L, type) + e.amount
         /\ e.type # type => TotalOf(L \cup {e}, type) = TotalOf(L, type)
<1> DEFINE of(M) == {x \in M : x.type = type}
           amounts == [x \in Entry |-> x.amount]
           all == of(L \cup {e})
<1>0. \A M \in SUBSET Entry : TotalOf(M, type) = SumFunction(Restrict(amounts, of(M)))
  <2> TAKE M \in SUBSET Entry
  <2>1. of(M) \in SUBSET Entry
    OBVIOUS
  <2>2. Restrict(amounts, of(M)) = [x \in of(M) |-> x.amount]
    BY <2>1 DEF Restrict
  <2> QED BY <2>2 DEF TotalOf
<1>1. IsFiniteSet(L \cup {e})
  BY FS_AddElement
<1>2. IsFiniteSet(all)
  <2>1. all \in SUBSET (L \cup {e})
    OBVIOUS
  <2> QED BY <1>1, <2>1, FS_Subset
<1>3. \A x \in all : amounts[x] \in Int
  BY DEF Entry
<1>4. of(L) \in SUBSET all /\ all \in SUBSET all
  OBVIOUS
<1> HIDE DEF amounts, all
<1>5. SumFunction(Restrict(amounts, of(L))) \in Int
  BY <1>2, <1>3, <1>4, SumParts
<1>6. ASSUME e.type = type
      PROVE  SumFunction(Restrict(amounts, all)) = SumFunction(Restrict(amounts, of(L))) + e.amount
  <2>1. e \in all /\ all \ {e} = of(L)
    BY <1>6 DEF all
  <2>2. SumFunction(Restrict(amounts, all)) = amounts[e] + SumFunction(Restrict(amounts, all \ {e}))
    BY <1>2, <1>3, <1>4, <2>1, SumParts
  <2>3. amounts[e] = e.amount /\ e.amount \in Int
    BY DEF amounts, Entry
  <2>4. Restrict(amounts, all \ {e}) = Restrict(amounts, of(L))
    BY <2>1
  <2>5. SumFunction(Restrict(amounts, all \ {e})) = SumFunction(Restrict(amounts, of(L)))
    BY <2>4
  <2> HIDE DEF of
  <2> QED BY <1>5, <2>2, <2>3, <2>5
<1>7. ASSUME e.type # type PROVE all = of(L)
  BY <1>7 DEF all
<1>8. L \cup {e} \in SUBSET Entry /\ L \in SUBSET Entry
  OBVIOUS
<1> HIDE DEF of
<1>9. TotalOf(L, type) = SumFunction(Restrict(amounts, of(L)))
      /\ TotalOf(L \cup {e}, type) = SumFunction(Restrict(amounts, all))
  BY <1>0, <1>8 DEF all
<1> QED BY <1>1, <1>5, <1>6, <1>7, <1>9

\* A new entry moves the total of its type and no other.
LEMMA Balanced ==
  ASSUME WalletInv, NEW e \in Entry \ ledger, ledger' = ledger \cup {e}
  PROVE  /\ IsFiniteSet(ledger')
         /\ \A type : /\ Total(type) \in Int /\ Total(type)' \in Int
                      /\ e.type = type => Total(type)' = Total(type) + e.amount
                      /\ e.type # type => Total(type)' = Total(type)
<1>1. ledger \in SUBSET Entry /\ IsFiniteSet(ledger)
  BY DEF WalletInv, LedgerInv, LedgerTypeOK, LedgerIsGrown
<1>2. e.amount \in Int
  BY DEF Entry
<1>3. IsFiniteSet(ledger')
  BY <1>1, FS_AddElement
<1>4. ASSUME NEW type
      PROVE  /\ TotalOf(ledger, type) \in Int
             /\ e.type = type => TotalOf(ledger', type) = TotalOf(ledger, type) + e.amount
             /\ e.type # type => TotalOf(ledger', type) = TotalOf(ledger, type)
  BY <1>1, NewEntry
<1>5. ASSUME NEW type
      PROVE  /\ Total(type) \in Int /\ Total(type)' \in Int
             /\ e.type = type => Total(type)' = Total(type) + e.amount
             /\ e.type # type => Total(type)' = Total(type)
  <2>1. Total(type) = TotalOf(ledger, type) /\ Total(type)' = TotalOf(ledger', type)
    BY TotalIsTotalOf
  <2> QED BY <1>2, <1>4, <2>1
<1> QED BY <1>3, <1>5

\* A settle that writes closes a RESERVE entry of the ledger: it takes the
\* amount from what its lot has remaining and reserved.
LEMMA SettleDoes ==
  ASSUME LedgerInv, NEW c \in Callers, SettleWrite(c)
  PROVE  \E r \in ledger :
           /\ r.type = "RESERVE" /\ [r EXCEPT !.type = "SETTLE"] \notin ledger
           /\ reserved' = [reserved EXCEPT ![r.lot] = @ - r.amount]
           /\ remaining' = [remaining EXCEPT ![r.lot] = @ - r.amount]
           /\ ledger' = ledger \cup {[r EXCEPT !.type = "SETTLE"]}
           /\ lotOrder' = lotOrder
<1> DEFINE r == Reservation(call[c].job)
<1>1. call[c].job \in Jobs \cup {NoJob} /\ HasEntry("RESERVE", call[c].job)
  BY DEF SettleWrite, Close, LedgerInv, WritersFoundReservation, LedgerTypeOK, Call
<1>2. r \in ledger /\ r \in Entry /\ r.type = "RESERVE" /\ r.job = call[c].job
  BY <1>1, ReservationIsEntry DEF LedgerInv
<1>3. /\ Closing(c, "SETTLE") = [r EXCEPT !.type = "SETTLE"]
      /\ Closing(c, "SETTLE").lot = r.lot /\ Closing(c, "SETTLE").amount = r.amount
      /\ Closing(c, "SETTLE").type = "SETTLE" /\ Closing(c, "SETTLE").job = r.job
  BY <1>2 DEF Closing, Entry
<1> HIDE DEF r
<1>4. Closing(c, "SETTLE") \notin ledger
  BY <1>2, <1>3 DEF SettleWrite, HasEntry
<1> QED BY <1>2, <1>3, <1>4 DEF SettleWrite, Close

\* A release that writes leaves what the lot has remaining alone.
LEMMA ReleaseDoes ==
  ASSUME LedgerInv, NEW c \in Callers, ReleaseWrite(c)
  PROVE  \E r \in ledger :
           /\ r.type = "RESERVE" /\ [r EXCEPT !.type = "RELEASE"] \notin ledger
           /\ reserved' = [reserved EXCEPT ![r.lot] = @ - r.amount]
           /\ remaining' = [remaining EXCEPT ![r.lot] = @ - 0]
           /\ ledger' = ledger \cup {[r EXCEPT !.type = "RELEASE"]}
           /\ lotOrder' = lotOrder
<1> DEFINE r == Reservation(call[c].job)
<1>1. call[c].job \in Jobs \cup {NoJob} /\ HasEntry("RESERVE", call[c].job)
  BY DEF ReleaseWrite, Close, LedgerInv, WritersFoundReservation, LedgerTypeOK, Call
<1>2. r \in ledger /\ r \in Entry /\ r.type = "RESERVE" /\ r.job = call[c].job
  BY <1>1, ReservationIsEntry DEF LedgerInv
<1>3. /\ Closing(c, "RELEASE") = [r EXCEPT !.type = "RELEASE"]
      /\ Closing(c, "RELEASE").lot = r.lot /\ Closing(c, "RELEASE").amount = r.amount
      /\ Closing(c, "RELEASE").type = "RELEASE" /\ Closing(c, "RELEASE").job = r.job
  BY <1>2 DEF Closing, Entry
<1> HIDE DEF r
<1>4. Closing(c, "RELEASE") \notin ledger
  BY <1>2, <1>3 DEF ReleaseWrite, HasEntry
<1> QED BY <1>2, <1>3, <1>4 DEF ReleaseWrite, Close

\* What is granted stays granted, the newest last.
LEMMA GrantAppends ==
  ASSUME LedgerTypeOK, GrantedOnce, NEW l \in Lots, l \notin Granted, lotOrder' = Append(lotOrder, l)
  PROVE  Granted' = Granted \cup {l} /\ GrantedOnce'
<1>1. /\ DOMAIN lotOrder = 1..Len(lotOrder) /\ Len(lotOrder) \in Nat
      /\ DOMAIN lotOrder' = 1..(Len(lotOrder) + 1)
      /\ \A n \in 1..Len(lotOrder) : lotOrder'[n] = lotOrder[n]
      /\ lotOrder'[Len(lotOrder) + 1] = l
  BY DEF LedgerTypeOK
<1>2. \A n \in 1..(Len(lotOrder) + 1) : n \in 1..Len(lotOrder) \/ n = Len(lotOrder) + 1
  BY <1>1
<1>3. \A n \in 1..Len(lotOrder) : lotOrder[n] # l /\ n \in 1..(Len(lotOrder) + 1)
  BY <1>1 DEF Granted, Range
<1>3a. Len(lotOrder) + 1 \in 1..(Len(lotOrder) + 1)
  BY <1>1
<1>4. Granted' = Granted \cup {l}
  BY <1>1, <1>2, <1>3, <1>3a DEF Granted, Range
<1>5. GrantedOnce'
  BY <1>1, <1>2, <1>3 DEF GrantedOnce
<1> QED BY <1>4, <1>5

\* The empty wallet matches the empty ledger.
LEMMA WalletInitInv == LedgerInit => WalletInv
<1> SUFFICES ASSUME LedgerInit PROVE WalletInv
  OBVIOUS
<1>1. LedgerInv
  BY LedgerInitInv
<1>2. UngrantedIsEmpty /\ ReservedIsThere /\ GrantedOnce
  BY DEF LedgerInit, UngrantedIsEmpty, ReservedIsThere, GrantedOnce
<1>3. LedgerIsGrown
  BY FS_EmptySet DEF LedgerInit, LedgerIsGrown
<1>4. WalletMatchesLedger
  <2>1. SumFunction(remaining) = 0 /\ SumFunction(reserved) = 0
    <3>1. remaining \in [Lots -> Int] /\ reserved \in [Lots -> Int] /\ IsFiniteSet(Lots)
          /\ \A l \in Lots : remaining[l] = 0 /\ reserved[l] = 0
      BY LedgerAssumption DEF LedgerInit
    <3> QED BY <3>1, SumOfZeros
  <2>2. ASSUME NEW type PROVE Total(type) = 0
    <3>1. Total(type) = SumFunction([e \in {} |-> 0])
      <4>1. EntriesOf(type) = {}
        BY DEF LedgerInit, EntriesOf
      <4> QED BY <4>1 DEF Total
    <3>2. [e \in {} |-> 0] \in [{} -> Int]
      OBVIOUS
    <3> QED BY <3>1, <3>2, FS_EmptySet, SumOfZeros
  <2> QED BY <2>1, <2>2 DEF WalletMatchesLedger
<1> QED BY <1>1, <1>2, <1>3, <1>4 DEF WalletInv

\* A grant adds its amount to what remains and to the GRANT entries.
LEMMA WalletGrant ==
  ASSUME WalletInv, LedgerInv', NEW l \in Lots, EnsureSponsoredGrant(l)
  PROVE  WalletInv'
<1> PICK e : e = [type |-> "GRANT", job |-> NoJob, lot |-> l, amount |-> GrantAmount[l]]
  OBVIOUS
<1>1. /\ remaining \in [Lots -> Int] /\ reserved \in [Lots -> Int]
      /\ remaining' \in [Lots -> Int] /\ reserved' = reserved /\ IsFiniteSet(Lots)
      /\ remaining[l] = 0 /\ reserved[l] = 0
      /\ remaining'[l] = GrantAmount[l] /\ GrantAmount[l] \in Nat
      /\ \A k \in Lots \ {l} : remaining'[k] = remaining[k]
  BY LedgerAssumption
  DEF EnsureSponsoredGrant, WalletInv, LedgerInv, LedgerTypeOK, UngrantedIsEmpty
<1>2. /\ e.type = "GRANT" /\ e.lot = l /\ e.amount = GrantAmount[l] /\ ledger' = ledger \cup {e}
  BY DEF EnsureSponsoredGrant
<1>3. e \in Entry \ ledger
  BY <1>1, <1>2 DEF EnsureSponsoredGrant, WalletInv, LedgerIsGrown, Entry
<1>4. Granted' = Granted \cup {l} /\ GrantedOnce'
  BY GrantAppends DEF EnsureSponsoredGrant, WalletInv, LedgerInv
<1>5. /\ IsFiniteSet(ledger')
      /\ Total("GRANT")' = Total("GRANT") + GrantAmount[l]
      /\ Total("SETTLE")' = Total("SETTLE") /\ Total("RELEASE")' = Total("RELEASE")
      /\ Total("RESERVE")' = Total("RESERVE")
      /\ Total("GRANT") \in Int /\ Total("SETTLE") \in Int
  BY <1>2, <1>3, Balanced
<1>6. UngrantedIsEmpty' /\ ReservedIsThere'
  BY <1>1, <1>4 DEF WalletInv, UngrantedIsEmpty, ReservedIsThere
<1>7. LedgerIsGrown'
  BY <1>2, <1>4, <1>5 DEF WalletInv, LedgerIsGrown
<1>8. WalletMatchesLedger'
  <2>1. SumFunction(remaining') = SumFunction(remaining) - remaining[l] + remaining'[l]
    BY <1>1, SumUpdate
  <2>2. SumFunction(remaining) \in Int
    BY <1>1, SumIsInt
  <2> QED BY <1>1, <1>5, <2>1, <2>2 DEF WalletInv, WalletMatchesLedger
<1> QED BY <1>4, <1>6, <1>7, <1>8 DEF WalletInv

\* A reservation adds what it takes, over all its lots, and its one entry says
\* as much.
LEMMA WalletReserve ==
  ASSUME WalletInv, LedgerInv', NEW j \in Jobs, NEW amount \in Costs, Reserve(j, amount)
  PROVE  WalletInv'
<1> PICK take \in [Lots -> 0..amount], primary \in Lots :
      /\ Allocates(take, amount)
      /\ IsPrimary(primary, take)
      /\ reserved' = [l \in Lots |-> reserved[l] + take[l]]
      /\ ledger' = ledger \cup
           {[type |-> "RESERVE", job |-> j, lot |-> primary, amount |-> amount]}
  BY DEF Reserve
<1> PICK e : e = [type |-> "RESERVE", job |-> j, lot |-> primary, amount |-> amount]
  OBVIOUS
<1>0. /\ e.type = "RESERVE" /\ e.lot = primary /\ e.amount = amount /\ e.job = j
      /\ ledger' = ledger \cup {e} /\ amount \in Nat
  BY LedgerAssumption
<1>1. /\ remaining \in [Lots -> Int] /\ reserved \in [Lots -> Int] /\ take \in [Lots -> Int]
      /\ reserved' \in [Lots -> Int] /\ remaining' = remaining /\ IsFiniteSet(Lots)
      /\ \A l \in Lots : reserved'[l] = reserved[l] + take[l] /\ take[l] >= 0
  BY LedgerAssumption, <1>0 DEF Reserve, WalletInv, LedgerInv, LedgerTypeOK
<1>2. e \in Entry \ ledger
  BY <1>0 DEF Reserve, HasEntry, Entry
<1>3. Granted' = Granted /\ GrantedOnce'
  BY DEF Reserve, Granted, WalletInv, GrantedOnce
<1>4. /\ IsFiniteSet(ledger')
      /\ Total("RESERVE")' = Total("RESERVE") + amount
      /\ Total("GRANT")' = Total("GRANT")
      /\ Total("SETTLE")' = Total("SETTLE") /\ Total("RELEASE")' = Total("RELEASE")
      /\ Total("RESERVE") \in Int /\ Total("SETTLE") \in Int /\ Total("RELEASE") \in Int
  BY <1>0, <1>2, Balanced
<1>5. ASSUME NEW l \in Lots
      PROVE  /\ reserved'[l] <= remaining[l]
             /\ l \notin Granted => take[l] = 0
  <2>1. take[l] <= Available(l) /\ take[l] \in Int /\ take[l] >= 0
    BY <1>1 DEF Allocates
  <2>2. reserved[l] <= remaining[l] /\ reserved[l] \in Int /\ remaining[l] \in Int
    BY <1>1 DEF WalletInv, ReservedIsThere
  <2>3. l \notin Granted => Available(l) = 0
    BY DEF Available, Eligible
  <2>4. Available(l) = 0 \/ Available(l) = remaining[l] - reserved[l]
    BY DEF Available
  <2> QED BY <1>1, <2>1, <2>2, <2>3, <2>4
<1>6. ReservedIsThere'
  BY <1>1, <1>5 DEF ReservedIsThere
<1>7. UngrantedIsEmpty'
  BY <1>1, <1>3, <1>5 DEF WalletInv, UngrantedIsEmpty
<1>8. LedgerIsGrown'
  <2>1. primary \in Granted
    BY <1>1, <1>5 DEF IsPrimary
  <2> QED BY <1>0, <1>3, <1>4, <2>1 DEF WalletInv, LedgerIsGrown
<1>9. WalletMatchesLedger'
  <2>1. SumFunction(reserved') = SumFunction(reserved) + SumFunction(take)
    BY <1>1, SumAdds
  <2>2. SumFunction(reserved) \in Int /\ SumFunction(take) = amount
    BY <1>1, SumIsInt DEF Allocates
  <2> QED BY <1>0, <1>1, <1>4, <2>1, <2>2 DEF WalletInv, WalletMatchesLedger
<1> QED BY <1>3, <1>6, <1>7, <1>8, <1>9 DEF WalletInv

\* A write that closes a reservation takes its amount from both sums, or from
\* the reserved one alone.
LEMMA WalletClose ==
  ASSUME WalletInv, LedgerInv', NEW type \in {"SETTLE", "RELEASE"}, NEW r \in ledger, NEW paid \in Nat,
         type = "SETTLE" => paid = r.amount, type = "RELEASE" => paid = 0,
         r.type = "RESERVE", [r EXCEPT !.type = type] \notin ledger,
         reserved' = [reserved EXCEPT ![r.lot] = @ - r.amount],
         remaining' = [remaining EXCEPT ![r.lot] = @ - paid],
         ledger' = ledger \cup {[r EXCEPT !.type = type]},
         lotOrder' = lotOrder
  PROVE  WalletInv'
<1> PICK e : e = [r EXCEPT !.type = type]
  OBVIOUS
<1> PICK l : l = r.lot
  OBVIOUS
<1> PICK amount : amount = r.amount
  OBVIOUS
<1>0. /\ r \in Entry /\ l \in Lots /\ amount \in Nat /\ paid \in Int
      /\ paid <= amount
      /\ e.type = type /\ e.lot = l /\ e.amount = amount /\ e.job = r.job
      /\ ledger' = ledger \cup {e}
  BY DEF WalletInv, LedgerInv, LedgerTypeOK, Entry
<1>1. /\ remaining \in [Lots -> Int] /\ reserved \in [Lots -> Int]
      /\ reserved' \in [Lots -> Int] /\ remaining' \in [Lots -> Int] /\ IsFiniteSet(Lots)
      /\ reserved'[l] = reserved[l] - amount /\ remaining'[l] = remaining[l] - paid
      /\ \A k \in Lots \ {l} : reserved'[k] = reserved[k] /\ remaining'[k] = remaining[k]
  BY LedgerAssumption, <1>0 DEF WalletInv, LedgerInv, LedgerTypeOK
<1>2. e \in Entry \ ledger
  BY <1>0 DEF Entry
<1>3. Granted' = Granted /\ GrantedOnce' /\ l \in Granted
  BY DEF Granted, WalletInv, GrantedOnce, LedgerIsGrown
<1>4. /\ IsFiniteSet(ledger')
      /\ type = "SETTLE" => Total("SETTLE")' = Total("SETTLE") + amount
                            /\ Total("RELEASE")' = Total("RELEASE")
      /\ type = "RELEASE" => Total("RELEASE")' = Total("RELEASE") + amount
                             /\ Total("SETTLE")' = Total("SETTLE")
      /\ Total("GRANT")' = Total("GRANT") /\ Total("RESERVE")' = Total("RESERVE")
      /\ Total("RESERVE") \in Int /\ Total("SETTLE") \in Int /\ Total("RELEASE") \in Int
      /\ Total("GRANT") \in Int
  BY <1>0, <1>2, Balanced
<1>6. ReservedIsThere'
  <2> SUFFICES ASSUME NEW k \in Lots PROVE reserved'[k] <= remaining'[k]
    BY DEF ReservedIsThere
  <2>1. reserved[k] <= remaining[k] /\ reserved[k] \in Int /\ remaining[k] \in Int
    BY <1>1 DEF WalletInv, ReservedIsThere
  <2>2. CASE k = l
    BY <1>0, <1>1, <2>1, <2>2
  <2>3. CASE k # l
    BY <1>1, <2>1, <2>3
  <2> QED BY <2>2, <2>3
<1>7. UngrantedIsEmpty'
  BY <1>1, <1>3 DEF WalletInv, UngrantedIsEmpty
<1>8. LedgerIsGrown'
  BY <1>0, <1>3, <1>4 DEF WalletInv, LedgerIsGrown
<1>9. WalletMatchesLedger'
  <2>0. l \in Lots /\ \A k \in Lots \ {l} : reserved'[k] = reserved[k] /\ remaining'[k] = remaining[k]
    BY <1>0, <1>1
  <2>1. SumFunction(reserved') = SumFunction(reserved) - reserved[l] + reserved'[l]
    <3>1. \A k \in Lots \ {l} : reserved'[k] = reserved[k]
      BY <2>0
    <3> QED BY ONLY <1>1, <2>0, <3>1, SumUpdate
  <2>2. SumFunction(remaining') = SumFunction(remaining) - remaining[l] + remaining'[l]
    <3>1. \A k \in Lots \ {l} : remaining'[k] = remaining[k]
      BY <2>0
    <3> QED BY ONLY <1>1, <2>0, <3>1, SumUpdate
  <2>3. SumFunction(reserved) \in Int /\ SumFunction(remaining) \in Int
    BY <1>1, SumIsInt
  <2>4. reserved[l] \in Int /\ remaining[l] \in Int
    BY <1>0, <1>1
  <2>5. SumFunction(reserved') = SumFunction(reserved) - amount
        /\ SumFunction(remaining') = SumFunction(remaining) - paid
    BY <1>0, <1>1, <2>1, <2>2, <2>3, <2>4
  <2>6. WalletMatchesLedger
    BY DEF WalletInv
  <2> QED BY <1>0, <1>4, <2>3, <2>5, <2>6 DEF WalletMatchesLedger
<1> QED BY <1>3, <1>6, <1>7, <1>8, <1>9 DEF WalletInv

\* Every other step leaves lots and ledger alone.
LEMMA WalletNextInv == WalletInv /\ [LedgerNext]_ledgerVars => WalletInv'
<1> SUFFICES ASSUME WalletInv, [LedgerNext]_ledgerVars PROVE WalletInv'
  OBVIOUS
<1>0. LedgerInv /\ LedgerInv'
  BY LedgerNextInv DEF WalletInv
<1>1. ASSUME NEW l \in Lots, EnsureSponsoredGrant(l) PROVE WalletInv'
  BY <1>0, <1>1, WalletGrant
<1>2. ASSUME NEW j \in Jobs, NEW amount \in Costs, Reserve(j, amount) PROVE WalletInv'
  BY <1>0, <1>2, WalletReserve
<1>3. ASSUME NEW c \in Callers, SettleWrite(c) PROVE WalletInv'
  <2>1. PICK r \in ledger :
          /\ r.type = "RESERVE" /\ [r EXCEPT !.type = "SETTLE"] \notin ledger
          /\ reserved' = [reserved EXCEPT ![r.lot] = @ - r.amount]
          /\ remaining' = [remaining EXCEPT ![r.lot] = @ - r.amount]
          /\ ledger' = ledger \cup {[r EXCEPT !.type = "SETTLE"]}
          /\ lotOrder' = lotOrder
    BY <1>0, <1>3, SettleDoes
  <2>2. PICK paid \in Nat : paid = r.amount
    BY <1>0 DEF LedgerInv, LedgerTypeOK, Entry
  <2>3. PICK type \in {"SETTLE", "RELEASE"} : type = "SETTLE"
    OBVIOUS
  <2> QED BY <1>0, <2>1, <2>2, <2>3, WalletClose
<1>4. ASSUME NEW c \in Callers, ReleaseWrite(c) PROVE WalletInv'
  <2>1. PICK r \in ledger :
          /\ r.type = "RESERVE" /\ [r EXCEPT !.type = "RELEASE"] \notin ledger
          /\ reserved' = [reserved EXCEPT ![r.lot] = @ - r.amount]
          /\ remaining' = [remaining EXCEPT ![r.lot] = @ - 0]
          /\ ledger' = ledger \cup {[r EXCEPT !.type = "RELEASE"]}
          /\ lotOrder' = lotOrder
    BY <1>0, <1>4, ReleaseDoes
  <2>2. PICK paid \in Nat : paid = 0
    OBVIOUS
  <2>3. PICK type \in {"SETTLE", "RELEASE"} : type = "RELEASE"
    OBVIOUS
  <2> QED BY <1>0, <2>1, <2>2, <2>3, WalletClose
<1>5. CASE /\ lotOrder' = lotOrder /\ remaining' = remaining
           /\ reserved' = reserved /\ ledger' = ledger
  <2>1. UngrantedIsEmpty' /\ ReservedIsThere' /\ LedgerIsGrown' /\ GrantedOnce'
    BY <1>5 DEF WalletInv, UngrantedIsEmpty, ReservedIsThere, LedgerIsGrown, GrantedOnce, Granted
  <2>2. WalletMatchesLedger'
    BY <1>5 DEF WalletInv, WalletMatchesLedger, Total, EntriesOf
  <2> QED BY <1>0, <2>1, <2>2 DEF WalletInv
<1> QED
  BY <1>1, <1>2, <1>3, <1>4, <1>5
  DEF LedgerNext, CallStep, BeginCall, ReadKeys, DuplicateKey, CallDies, ledgerVars

-----------------------------------------------------------------------------
(***************************************************************************)
(* Solvency.                                                               *)
(***************************************************************************)
\* The elements are renamed, one to one.
LEMMA SumImage ==
  ASSUME NEW S, IsFiniteSet(S), NEW T, IsFiniteSet(T), NEW f \in [S -> Int], NEW h \in [T -> Int],
         NEW m \in [S -> T], \A x, y \in S : m[x] = m[y] => x = y, \A x \in S : h[m[x]] = f[x]
  PROVE  SumFunction(f) = SumFunction(Restrict(h, {m[x] : x \in S}))
<1> DEFINE F(s) == SumFunction(Restrict(f, s))
           H(t) == SumFunction(Restrict(h, t))
           image(s) == {m[x] : x \in s}
           Good == {s \in SUBSET S : F(s) = H(image(s))}
<1>1. /\ \A s \in SUBSET S : F(s) \in Int
      /\ F({}) = 0
      /\ \A s \in SUBSET S : \A x \in s : F(s) = f[x] + F(s \ {x})
  BY SumParts
<1>2. /\ \A t \in SUBSET T : H(t) \in Int
      /\ H({}) = 0
      /\ \A t \in SUBSET T : \A y \in t : H(t) = h[y] + H(t \ {y})
  BY SumParts
<1> HIDE DEF F, H
<1>3. {} \in Good
  BY <1>1, <1>2
<1>4. ASSUME NEW s \in SUBSET S, s # {}, \A x \in s : s \ {x} \in Good
      PROVE  s \in Good
  <2>1. PICK x \in s : s \ {x} \in Good
    BY <1>4
  <2>2. /\ image(s) \in SUBSET T /\ m[x] \in image(s)
        /\ image(s) \ {m[x]} = image(s \ {x})
    OBVIOUS
  <2>3. F(s) = f[x] + F(s \ {x})
    BY <1>1
  <2>4. H(image(s)) = h[m[x]] + H(image(s \ {x}))
    BY <1>2, <2>2
  <2>5. F(s \ {x}) = H(image(s \ {x})) /\ h[m[x]] = f[x]
    BY <2>1
  <2> QED BY <2>3, <2>4, <2>5
<1> HIDE DEF Good
<1>5. S \in Good
  <2>1. Good \in SUBSET (SUBSET S) /\ S \in SUBSET S
    BY DEF Good
  <2> QED BY <1>3, <1>4, <2>1, SetInduction
<1>6. F(S) = H({m[x] : x \in S})
  BY <1>5 DEF Good
<1> QED BY <1>6, WholeIsRestriction DEF F, H

\* What the reservations that have a closing entry of a type add up to is the
\* total of that type.
ClosedBy(type) ==
  [r \in EntriesOf("RESERVE") |-> IF [r EXCEPT !.type = type] \in ledger THEN r.amount ELSE 0]

LEMMA ClosedTotal ==
  ASSUME WalletInv, NEW type \in {"SETTLE", "RELEASE"}
  PROVE  SumFunction(ClosedBy(type)) = Total(type)
<1> DEFINE S == EntriesOf(type)
           T == EntriesOf("RESERVE")
           f == [e \in S |-> e.amount]
           h == ClosedBy(type)
           m == [e \in S |-> [e EXCEPT !.type = "RESERVE"]]
<1>1. IsFiniteSet(S) /\ IsFiniteSet(T) /\ S \subseteq Entry /\ T \subseteq Entry
      /\ S \subseteq ledger /\ T \subseteq ledger
  <2>1. S \in SUBSET ledger /\ T \in SUBSET ledger /\ IsFiniteSet(ledger) /\ ledger \subseteq Entry
    BY DEF EntriesOf, WalletInv, LedgerInv, LedgerTypeOK, LedgerIsGrown
  <2>2. IsFiniteSet(S) /\ IsFiniteSet(T)
    BY <2>1, FS_Subset
  <2> QED BY <2>1, <2>2
<1>2. f \in [S -> Int] /\ h \in [T -> Int]
  BY <1>1 DEF Entry, ClosedBy
<1>3. ASSUME NEW e \in S
      PROVE  /\ m[e] \in T /\ [m[e] EXCEPT !.type = type] = e
             /\ m[e].amount = e.amount
  <2>1. e \in Entry /\ e \in ledger /\ e.type = type
    BY <1>1 DEF EntriesOf
  <2>2. m[e] = [e EXCEPT !.type = "RESERVE"]
    OBVIOUS
  <2>3. [e EXCEPT !.type = "RESERVE"] \in ledger
    BY <2>1 DEF WalletInv, LedgerInv, ClosesWhatWasReserved
  <2>4. [e EXCEPT !.type = "RESERVE"].type = "RESERVE" /\ [e EXCEPT !.type = "RESERVE"].amount = e.amount
        /\ [[e EXCEPT !.type = "RESERVE"] EXCEPT !.type = type] = e
    BY <2>1 DEF Entry
  <2> QED BY <2>2, <2>3, <2>4 DEF EntriesOf
<1>4. m \in [S -> T]
  BY <1>3
<1>5. \A x, y \in S : m[x] = m[y] => x = y
  <2> HIDE DEF m
  <2> QED BY <1>3
<1>6. \A x \in S : h[m[x]] = f[x]
  <2> SUFFICES ASSUME NEW x \in S PROVE h[m[x]] = f[x]
    OBVIOUS
  <2>1. x \in ledger /\ f[x] = x.amount
    BY <1>1
  <2> HIDE DEF m
  <2>2. h[m[x]] = m[x].amount
    BY <1>3, <2>1 DEF ClosedBy
  <2> QED BY <1>3, <2>1, <2>2
<1>7. SumFunction(f) = SumFunction(Restrict(h, {m[x] : x \in S}))
  <2> HIDE DEF S, T, f, h, m
  <2> QED BY <1>1, <1>2, <1>4, <1>5, <1>6, SumImage
<1>8. SumFunction(Restrict(h, {m[x] : x \in S})) = SumFunction(h)
  <2>1. {m[x] : x \in S} \in SUBSET T
    BY <1>4
  <2>2. \A r \in T \ {m[x] : x \in S} : h[r] = 0
    <3> SUFFICES ASSUME NEW r \in T, h[r] # 0 PROVE \E x \in S : r = m[x]
      OBVIOUS
    <3>1. [r EXCEPT !.type = type] \in ledger
      BY DEF ClosedBy
    <3>2. r \in Entry /\ r.type = "RESERVE"
      BY <1>1 DEF EntriesOf
    <3>3. [r EXCEPT !.type = type].type = type
          /\ [[r EXCEPT !.type = type] EXCEPT !.type = "RESERVE"] = r
      BY <3>2 DEF Entry
    <3>4. [r EXCEPT !.type = type] \in S
      BY <3>1, <3>3 DEF EntriesOf
    <3> QED BY <3>3, <3>4
  <2> HIDE DEF S, T, f, h, m
  <2> QED BY <1>1, <1>2, <2>1, <2>2, SumOfSome
<1>9. Total(type) = SumFunction(f)
  BY DEF Total
<1> QED BY <1>7, <1>8, <1>9

\* Every closing entry pairs with the reservation it repeats and, if no job has
\* both, every reservation with at most one closing entry.
LEMMA InvSolvent == WalletInv => WalletSolvent
<1> SUFFICES ASSUME WalletInv, SettledOrReleased
             PROVE  0 <= SumFunction(reserved) /\ SumFunction(reserved) <= SumFunction(remaining)
  BY DEF WalletSolvent
<1>1. SumFunction(reserved) <= SumFunction(remaining)
  <2>1. /\ reserved \in [Lots -> Int] /\ remaining \in [Lots -> Int] /\ IsFiniteSet(Lots)
        /\ \A l \in Lots : reserved[l] <= remaining[l]
    BY LedgerAssumption DEF WalletInv, LedgerInv, LedgerTypeOK, ReservedIsThere
  <2> QED BY <2>1, SumMonotone
<1>2. PICK S : S = EntriesOf("RESERVE")
  OBVIOUS
<1>3. PICK all : all = [r \in S |-> r.amount]
  OBVIOUS
<1>4. PICK settled : settled = ClosedBy("SETTLE")
  OBVIOUS
<1>5. PICK released : released = ClosedBy("RELEASE")
  OBVIOUS
<1>6. PICK both : both = [r \in S |-> settled[r] + released[r]]
  OBVIOUS
<1>7. IsFiniteSet(S) /\ S \subseteq ledger /\ \A r \in S : r \in Entry /\ r.amount \in Nat
  <2>1. S \in SUBSET ledger /\ IsFiniteSet(ledger) /\ ledger \subseteq Entry
    BY <1>2 DEF EntriesOf, WalletInv, LedgerInv, LedgerTypeOK, LedgerIsGrown
  <2>2. IsFiniteSet(S)
    BY <2>1, FS_Subset
  <2> QED BY <2>1, <2>2 DEF Entry
<1>8. all \in [S -> Int] /\ settled \in [S -> Int] /\ released \in [S -> Int]
  BY <1>2, <1>3, <1>4, <1>5, <1>7 DEF ClosedBy
<1>9. both \in [S -> Int] /\ \A r \in S : both[r] = settled[r] + released[r]
  BY <1>6, <1>8
<1>10. ASSUME NEW r \in S PROVE both[r] <= all[r]
  <2>1. r \in ledger /\ r \in Entry /\ r.type = "RESERVE" /\ r.job \in Jobs /\ all[r] = r.amount
    BY <1>2, <1>3, <1>7 DEF EntriesOf, WalletInv, LedgerIsGrown
  <2>2. settled[r] = (IF [r EXCEPT !.type = "SETTLE"] \in ledger THEN r.amount ELSE 0)
    BY <1>2, <1>4 DEF ClosedBy
  <2>3. released[r] = (IF [r EXCEPT !.type = "RELEASE"] \in ledger THEN r.amount ELSE 0)
    BY <1>2, <1>5 DEF ClosedBy
  <2>4. /\ [r EXCEPT !.type = "SETTLE"].type = "SETTLE" /\ [r EXCEPT !.type = "SETTLE"].job = r.job
        /\ [r EXCEPT !.type = "RELEASE"].type = "RELEASE" /\ [r EXCEPT !.type = "RELEASE"].job = r.job
    BY <2>1 DEF Entry
  <2>5. ~([r EXCEPT !.type = "SETTLE"] \in ledger /\ [r EXCEPT !.type = "RELEASE"] \in ledger)
    BY <2>1, <2>4 DEF SettledOrReleased, HasEntry
  <2>6. r.amount \in Nat
    BY <1>7
  <2> QED BY <1>9, <2>1, <2>2, <2>3, <2>5, <2>6
<1>11. SumFunction(both) = SumFunction(settled) + SumFunction(released)
  BY ONLY <1>7, <1>8, <1>9, SumAdds
<1>12. SumFunction(both) <= SumFunction(all)
  BY ONLY <1>7, <1>8, <1>9, <1>10, SumMonotone
<1>13. SumFunction(settled) = Total("SETTLE") /\ SumFunction(released) = Total("RELEASE")
  <2>1. \A type \in {"SETTLE", "RELEASE"} : SumFunction(ClosedBy(type)) = Total(type)
    BY ClosedTotal
  <2> QED BY <1>4, <1>5, <2>1
<1>14. SumFunction(all) = Total("RESERVE")
  BY <1>2, <1>3 DEF Total
<1>15. /\ SumFunction(both) \in Int /\ SumFunction(all) \in Int
       /\ SumFunction(settled) \in Int /\ SumFunction(released) \in Int
  BY ONLY <1>7, <1>8, <1>9, SumIsInt
<1>16. SumFunction(reserved) = Total("RESERVE") - Total("SETTLE") - Total("RELEASE")
  BY DEF WalletInv, WalletMatchesLedger
<1>17. 0 <= SumFunction(reserved)
  BY ONLY <1>11, <1>12, <1>13, <1>14, <1>15, <1>16
<1> QED BY <1>1, <1>17

-----------------------------------------------------------------------------
(***************************************************************************)
(* The quote.  The balance is the sum of what the lots have available, and *)
(* one more credit than an allocation takes comes from the oldest lot that *)
(* has one left: that keeps the order the reservation loop fills lots in.  *)
(***************************************************************************)
\* A sum of natural numbers is one, and no smaller than any of them.
LEMMA SumOfNats ==
  ASSUME NEW S, IsFiniteSet(S), NEW f \in [S -> Nat] PROVE SumFunction(f) \in Nat
<1> PICK zero : zero = [x \in S |-> 0]
  OBVIOUS
<1>1. zero \in [S -> Int] /\ f \in [S -> Int] /\ (\A x \in S : zero[x] = 0)
      /\ \A x \in S : zero[x] <= f[x]
  OBVIOUS
<1>2. SumFunction(zero) = 0
  BY <1>1, SumOfZeros
<1>3. SumFunction(zero) <= SumFunction(f)
  BY <1>1, SumMonotone
<1>4. SumFunction(f) \in Int
  BY <1>1, SumIsInt
<1> QED BY <1>2, <1>3, <1>4

LEMMA PartOfSum ==
  ASSUME NEW S, IsFiniteSet(S), NEW f \in [S -> Nat], NEW x \in S
  PROVE  f[x] <= SumFunction(f)
<1> PICK part : part = [y \in S |-> IF y = x THEN f[x] ELSE 0]
  OBVIOUS
<1> PICK zero : zero = [y \in S |-> 0]
  OBVIOUS
<1>1. /\ zero \in [S -> Int] /\ part \in [S -> Int] /\ f \in [S -> Int]
      /\ \A y \in S : zero[y] = 0
      /\ \A y \in S \ {x} : part[y] = zero[y]
      /\ \A y \in S : part[y] <= f[y]
      /\ part[x] = f[x] /\ zero[x] = 0 /\ f[x] \in Nat
  OBVIOUS
<1>2. SumFunction(zero) = 0
  BY <1>1, SumOfZeros
<1>3. SumFunction(part) = SumFunction(zero) - zero[x] + part[x]
  BY <1>1, SumUpdate
<1>4. SumFunction(part) <= SumFunction(f)
  BY <1>1, SumMonotone
<1> QED BY <1>1, <1>2, <1>3, <1>4

\* The balance is what the lots have available.
LEMMA BalanceIsAvailable ==
  ASSUME WalletInv
  PROVE  /\ \A l \in Lots : Available(l) \in Nat
         /\ AvailableBalance = SumFunction([l \in Lots |-> Available(l)])
<1>1. IsFiniteSet(Lots)
  BY LedgerAssumption
<1>2. ASSUME NEW l \in Lots
      PROVE  /\ Available(l) \in Nat
             /\ Available(l) = IF Eligible(l) THEN remaining[l] - reserved[l] ELSE 0
  <2>1. reserved[l] <= remaining[l] /\ reserved[l] \in Int /\ remaining[l] \in Int
    BY DEF WalletInv, LedgerInv, LedgerTypeOK, ReservedIsThere
  <2> QED BY <2>1 DEF Available
<1> PICK f : f = [l \in Lots |-> Available(l)]
  OBVIOUS
<1> PICK s : s = {k \in Lots : Eligible(k)}
  OBVIOUS
<1>3. f \in [Lots -> Int] /\ s \in SUBSET Lots /\ \A l \in Lots \ s : f[l] = 0
  BY <1>2
<1>4. SumFunction(Restrict(f, s)) = SumFunction(f)
  BY ONLY <1>1, <1>3, SumOfSome
<1>5. Restrict(f, s) = [l \in s |-> remaining[l] - reserved[l]]
  <2>1. Restrict(f, s) = [l \in s |-> f[l]]
    BY DEF Restrict
  <2>2. \A l \in s : f[l] = remaining[l] - reserved[l]
    BY <1>2
  <2> QED BY <2>1, <2>2
<1> QED BY <1>2, <1>4, <1>5 DEF AvailableBalance

\* The oldest lot of a set of granted lots.
LEMMA OldestLot ==
  ASSUME LedgerTypeOK, GrantedOnce, NEW Some \in SUBSET Granted, Some # {}
  PROVE  \E l \in Some : \A k \in Some : ~Older(k, l)
<1> DEFINE places == {n \in DOMAIN lotOrder : lotOrder[n] \in Some}
           R == OpToRel(<, Nat)
<1>1. DOMAIN lotOrder \subseteq Nat
  BY DEF LedgerTypeOK
<1>2. places # {} /\ places \subseteq Nat
  BY <1>1 DEF Granted, Range
<1>3. IsWellFoundedOn(R, Nat)
  BY NatLessThanWellFounded
<1>4. PICK n \in places : \A m \in places : <<m, n>> \notin R
  <2> HIDE DEF places, R
  <2> QED BY <1>2, <1>3, WFMin
<1>5. \A m \in places : ~(m < n)
  BY <1>2, <1>4 DEF OpToRel
<1>6. lotOrder[n] \in Some
  OBVIOUS
<1>7. \A k \in Some : ~Older(k, lotOrder[n])
  BY <1>5 DEF GrantedOnce, Older
<1> QED BY <1>6, <1>7

\* One more credit: it comes from the oldest lot that has one left.
LEMMA OneMore ==
  ASSUME WalletInv, NEW n \in Nat, n < AvailableBalance,
         NEW take \in [Lots -> Nat], Allocates(take, n)
  PROVE  \E more \in [Lots -> Nat] : Allocates(more, n + 1)
<1>0. IsFiniteSet(Lots) /\ LedgerTypeOK /\ GrantedOnce
  BY LedgerAssumption DEF WalletInv, LedgerInv
<1> PICK available : available = [l \in Lots |-> Available(l)]
  OBVIOUS
<1>1. /\ available \in [Lots -> Nat] /\ available \in [Lots -> Int] /\ take \in [Lots -> Int]
      /\ AvailableBalance = SumFunction(available)
      /\ \A l \in Lots : take[l] <= available[l] /\ available[l] = Available(l)
  BY BalanceIsAvailable DEF Allocates
<1> PICK Some : Some = {l \in Lots : take[l] < available[l]}
  OBVIOUS
<1>2. Some # {}
  <2> SUFFICES ASSUME Some = {} PROVE FALSE
    OBVIOUS
  <2>1. ASSUME NEW l \in Lots PROVE available[l] <= take[l]
    <3>1. ~(take[l] < available[l]) /\ take[l] \in Int /\ available[l] \in Int
      BY <1>1
    <3> QED BY <3>1
  <2>2. SumFunction(available) <= SumFunction(take)
    BY ONLY <1>0, <1>1, <2>1, SumMonotone
  <2>3. SumFunction(take) = n /\ SumFunction(available) \in Int
    BY <1>0, <1>1, SumIsInt DEF Allocates
  <2> QED BY <1>1, <2>2, <2>3
<1>3. Some \in SUBSET Granted
  BY <1>1 DEF Available, Eligible
<1>4. PICK l \in Some : \A k \in Some : ~Older(k, l)
  BY <1>0, <1>2, <1>3, OldestLot
<1> PICK more : more = [take EXCEPT ![l] = @ + 1]
  OBVIOUS
<1>5. /\ l \in Lots /\ more \in [Lots -> Nat] /\ more \in [Lots -> Int]
      /\ more[l] = take[l] + 1 /\ take[l] < available[l]
      /\ \A k \in Lots \ {l} : more[k] = take[k]
  OBVIOUS
<1>6. SumFunction(more) = n + 1
  <2>1. SumFunction(more) = SumFunction(take) - take[l] + more[l]
    BY ONLY <1>0, <1>1, <1>5, SumUpdate
  <2>2. SumFunction(take) = n /\ take[l] \in Int
    BY <1>1, <1>5 DEF Allocates
  <2> QED BY <1>5, <2>1, <2>2
<1>7. ASSUME NEW k \in Lots PROVE more[k] <= Available(k)
  <2>1. take[k] \in Nat /\ available[k] \in Nat /\ take[k] <= available[k] /\ available[k] = Available(k)
    BY <1>1
  <2>2. CASE k = l
    BY <1>5, <2>1, <2>2
  <2>3. CASE k # l
    BY <1>5, <2>1, <2>3
  <2> QED BY <2>2, <2>3
<1>8. ASSUME NEW k \in Lots, NEW x \in Lots, Older(k, x), more[x] > 0
      PROVE  more[k] = Available(k)
  <2>0. k # x
    BY <1>0, <1>8 DEF Older, GrantedOnce, LedgerTypeOK
  <2>1. take[k] \in Nat /\ available[k] \in Nat /\ take[k] <= available[k] /\ available[k] = Available(k)
    BY <1>1
  <2>2. CASE x = l
    <3>1. k \notin Some
      BY <1>4, <1>8, <2>2
    <3> QED BY <1>5, <2>0, <2>1, <2>2, <3>1
  <2>3. CASE x # l
    <3>1. take[x] > 0
      BY <1>5, <1>8, <2>3
    <3>2. take[k] = Available(k)
      BY <1>8, <3>1 DEF Allocates
    <3>3. k # l
      BY <1>5, <2>1, <3>2
    <3> QED BY <1>5, <3>2, <3>3
  <2> QED BY <2>2, <2>3
<1> QED BY <1>5, <1>6, <1>7, <1>8 DEF Allocates

\* The least amount that could not be allocated would be one more than an
\* amount that can.
LEMMA AllocationExists ==
  ASSUME WalletInv, NEW amount \in Nat, amount <= AvailableBalance
  PROVE  \E take \in [Lots -> Nat] : Allocates(take, amount)
<1> DEFINE Bad == {n \in Nat : n <= AvailableBalance
                               /\ \A take \in [Lots -> Nat] : ~Allocates(take, n)}
           R == OpToRel(<, Nat)
<1> SUFFICES ASSUME amount \in Bad PROVE FALSE
  OBVIOUS
<1>0. AvailableBalance \in Nat
  <2>1. IsFiniteSet(Lots) /\ [l \in Lots |-> Available(l)] \in [Lots -> Nat]
    BY LedgerAssumption, BalanceIsAvailable
  <2> QED BY <2>1, SumOfNats, BalanceIsAvailable
<1>1. IsWellFoundedOn(R, Nat)
  BY NatLessThanWellFounded
<1>2. PICK n \in Bad : \A m \in Bad : <<m, n>> \notin R
  <2>1. Bad \subseteq Nat /\ Bad # {}
    OBVIOUS
  <2> HIDE DEF Bad, R
  <2> QED BY <1>1, <2>1, WFMin
<1>3. \A m \in Bad : ~(m < n)
  BY <1>2 DEF OpToRel
<1>4. n # 0
  <2> SUFFICES ASSUME n = 0 PROVE FALSE
    OBVIOUS
  <2> PICK zero : zero = [l \in Lots |-> 0]
    OBVIOUS
  <2>1. zero \in [Lots -> Int] /\ zero \in [Lots -> Nat] /\ \A l \in Lots : zero[l] = 0
    OBVIOUS
  <2>2. SumFunction(zero) = 0
    BY LedgerAssumption, <2>1, SumOfZeros
  <2>3. Allocates(zero, 0)
    BY <2>1, <2>2, BalanceIsAvailable DEF Allocates
  <2> QED BY <2>1, <2>3
<1>5. n - 1 \in Nat /\ n - 1 < AvailableBalance /\ (n - 1) + 1 = n /\ n - 1 < n
  BY <1>0, <1>4
<1>6. n - 1 \notin Bad
  BY <1>3, <1>5
<1>7. PICK take \in [Lots -> Nat] : Allocates(take, n - 1)
  BY <1>0, <1>5, <1>6
<1>8. \E more \in [Lots -> Nat] : Allocates(more, (n - 1) + 1)
  BY <1>5, <1>7, OneMore
<1> QED BY <1>5, <1>8

\* What is allocated is available, and what is available can be allocated.
LEMMA InvHonest == WalletInv => QuoteIsHonest
<1> SUFFICES ASSUME WalletInv, NEW amount \in Costs
             PROVE  AvailableBalance >= amount <=> \E take \in [Lots -> 0..amount] : Allocates(take, amount)
  BY DEF QuoteIsHonest
<1>0. amount \in Nat /\ IsFiniteSet(Lots)
  BY LedgerAssumption
<1> PICK available : available = [l \in Lots |-> Available(l)]
  OBVIOUS
<1>1. /\ available \in [Lots -> Nat] /\ available \in [Lots -> Int]
      /\ AvailableBalance = SumFunction(available)
      /\ \A l \in Lots : available[l] = Available(l)
  BY BalanceIsAvailable
<1>2. AvailableBalance \in Nat
  BY <1>0, <1>1, SumOfNats
<1>3. ASSUME AvailableBalance >= amount
      PROVE  \E take \in [Lots -> 0..amount] : Allocates(take, amount)
  <2>1. PICK take \in [Lots -> Nat] : Allocates(take, amount)
    BY <1>0, <1>2, <1>3, AllocationExists
  <2>2. SumFunction(take) = amount
    BY <2>1 DEF Allocates
  <2>3. \A l \in Lots : take[l] <= amount
    BY <1>0, <2>2, PartOfSum
  <2>4. take \in [Lots -> 0..amount]
    BY <1>0, <2>3
  <2> QED BY <2>1, <2>4
<1>4. ASSUME NEW take \in [Lots -> 0..amount], Allocates(take, amount)
      PROVE  AvailableBalance >= amount
  <2>1. take \in [Lots -> Int] /\ \A l \in Lots : take[l] <= available[l]
    BY <1>0, <1>1, <1>4 DEF Allocates
  <2>2. SumFunction(take) <= SumFunction(available)
    BY ONLY <1>0, <1>1, <2>1, SumMonotone
  <2>3. SumFunction(take) = amount
    BY <1>4 DEF Allocates
  <2> QED BY <1>0, <1>1, <1>2, <2>2, <2>3
<1> QED BY <1>3, <1>4

-----------------------------------------------------------------------------
LEMMA WalletAlways == LedgerSpec => []WalletInv
BY WalletInitInv, WalletNextInv, PTL DEF LedgerSpec

\* The remaining and reserved amounts of all lots, added up, are what the
\* append-only ledger says, for any number of lots, jobs and callers and
\* whatever settles and releases overlap.
THEOREM WalletAgrees == LedgerSpec => []WalletMatchesLedger
<1>1. WalletInv => WalletMatchesLedger
  BY DEF WalletInv
<1> QED BY <1>1, WalletAlways, PTL

\* As long as no job was both settled and released, what is reserved is never
\* negative and never more than what remains.
THEOREM WalletIsSolvent == LedgerSpec => []WalletSolvent
BY InvSolvent, WalletAlways, PTL

\* The balance shown to the member covers an amount exactly when the
\* reservation loop finds an allocation for it.
THEOREM QuotesAreHonest == LedgerSpec => []QuoteIsHonest
BY InvHonest, WalletAlways, PTL

-----------------------------------------------------------------------------
(***************************************************************************)
(* The job queue.                                                          *)
(***************************************************************************)
JobsTypeOK ==
  /\ job \in [Jobs -> Row]
  /\ results \subseteq Jobs
  /\ worker \in [Workers -> WorkerState]
  /\ request \in [Requests -> RequestState]
  /\ spent \subseteq Jobs \X (1..MaxAttempts)
  /\ deaths \in 0..MaxDeaths

\* Who is in the middle of something is so on a job, and a worker on an attempt
\* the job has counted.
Busy ==
  /\ \A w \in Workers : worker[w].pc = "idle" => worker[w].job = NoJob
  /\ \A w \in Workers : worker[w].pc # "idle" =>
       /\ worker[w].job \in Jobs
       /\ worker[w].attempt >= 1
       /\ worker[w].attempt <= job[worker[w].job].attempts
  /\ \A r \in Requests : request[r].pc # "idle" => request[r].job \in Jobs

\* No call to the provider is ahead of its job's count.
SpentCounted == \A s \in spent : s[2] <= job[s[1]].attempts

\* A worker settles what it has stored.
SettlesStored == \A c \in Callers : call[c].op = "settle" => call[c].job \in results

Inv ==
  /\ LedgerInv /\ JobsTypeOK /\ Busy /\ SpentCounted /\ AttemptSpentOnce
  /\ SettlesStored /\ ChargedOnlyForResult

-----------------------------------------------------------------------------
(***************************************************************************)
(* The updates of rows the actions are built from.                         *)
(***************************************************************************)
LEMMA UnleasedRow ==
  ASSUME JobsTypeOK, NEW j \in Jobs, NEW status \in Statuses
  PROVE  /\ Unleased(j, status) \in [Jobs -> Row]
         /\ \A i \in Jobs : Unleased(j, status)[i].attempts = job[i].attempts
<1>1. job[j] \in Row
  BY DEF JobsTypeOK
<1>2. /\ [job[j] EXCEPT !.status = status, !.owner = NoWorker, !.lapsed = FALSE] \in Row
      /\ [job[j] EXCEPT !.status = status, !.owner = NoWorker, !.lapsed = FALSE].attempts
           = job[j].attempts
  BY <1>1 DEF Row
<1> QED BY <1>2 DEF Unleased, JobsTypeOK

LEMMA IdleStates ==
  /\ AtRest \in WorkerState /\ AtRest.pc = "idle" /\ AtRest.job = NoJob
  /\ Done \in RequestState /\ Done.pc = "idle"
  /\ NoCall \in Call /\ NoCall.op = "none" /\ NoCall.phase = "read"
BY JobsAssumption DEF AtRest, Done, NoCall, WorkerState, RequestState, Call

LEMMA WorkerMoves ==
  ASSUME JobsTypeOK, NEW w \in Workers,
         NEW pc \in {"start", "refresh", "provider", "ready", "requeue", "fail"}, Moves(w, pc)
  PROVE  /\ worker' \in [Workers -> WorkerState]
         /\ worker'[w].pc = pc
         /\ worker'[w].job = worker[w].job /\ worker'[w].attempt = worker[w].attempt
         /\ \A v \in Workers \ {w} : worker'[v] = worker[v]
<1>1. worker[w] \in WorkerState
  BY DEF JobsTypeOK
<1>2. [worker[w] EXCEPT !.pc = pc] \in WorkerState
  BY <1>1 DEF WorkerState
<1>3. worker' = [worker EXCEPT ![w] = [worker[w] EXCEPT !.pc = pc]]
  BY DEF Moves, JobsTypeOK
<1> QED BY <1>1, <1>2, <1>3 DEF JobsTypeOK, WorkerState

LEMMA WorkerLeaves ==
  ASSUME JobsTypeOK, NEW w \in Workers, Leaves(w)
  PROVE  /\ worker' \in [Workers -> WorkerState]
         /\ worker'[w] = AtRest
         /\ \A v \in Workers \ {w} : worker'[v] = worker[v]
BY IdleStates DEF Leaves, JobsTypeOK


-----------------------------------------------------------------------------
(***************************************************************************)
(* What a step of the queue does to the ledger.                            *)
(***************************************************************************)
LedgerMove ==
  \/ UNCHANGED ledgerVars
  \/ \E l \in Lots : EnsureSponsoredGrant(l)
  \/ \E j \in Jobs, amount \in Costs : Reserve(j, amount)
  \/ \E c \in Callers, op \in {"settle", "release"}, j \in Jobs :
       BeginCall(c, op, j) /\ (op = "settle" => j \in results')
  \/ \E c \in Callers : CallStep(c) \/ CallDies(c)

LEMMA MoveIsLedgerStep == LedgerMove => [LedgerNext]_ledgerVars
BY DEF LedgerMove, LedgerNext

LEMMA MoveCharges ==
  ASSUME Inv, LedgerMove, results \subseteq results'
  PROVE  SettlesStored' /\ ChargedOnlyForResult'
<1> USE DEF Inv
<1>0. NoCall.op # "settle" /\ call \in [Callers -> Call]
  BY IdleStates DEF LedgerInv, LedgerTypeOK
<1>1. CASE UNCHANGED ledgerVars
  BY <1>1 DEF ledgerVars, SettlesStored, ChargedOnlyForResult, HasEntry
<1>2. ASSUME NEW l \in Lots, EnsureSponsoredGrant(l)
      PROVE  SettlesStored' /\ ChargedOnlyForResult'
  BY <1>2 DEF EnsureSponsoredGrant, SettlesStored, ChargedOnlyForResult, HasEntry
<1>3. ASSUME NEW j \in Jobs, NEW amount \in Costs, Reserve(j, amount)
      PROVE  SettlesStored' /\ ChargedOnlyForResult'
  BY <1>3 DEF Reserve, SettlesStored, ChargedOnlyForResult, HasEntry
<1>4. ASSUME NEW c \in Callers, NEW op \in {"settle", "release"}, NEW j \in Jobs,
             BeginCall(c, op, j), op = "settle" => j \in results'
      PROVE  SettlesStored' /\ ChargedOnlyForResult'
  BY <1>0, <1>4 DEF BeginCall, Begin, SettlesStored, ChargedOnlyForResult, HasEntry
<1>5. ASSUME NEW c \in Callers, ReadKeys(c) \/ DuplicateKey(c) \/ CallDies(c)
      PROVE  SettlesStored' /\ ChargedOnlyForResult'
  <2>1. ledger' = ledger
    BY <1>5 DEF ReadKeys, DuplicateKey, CallDies
  <2>2. \A d \in Callers : call'[d].op = "settle" =>
          call[d].op = "settle" /\ call'[d].job = call[d].job
    <3> call[c] \in Call
      BY <1>0
    <3>1. [call[c] EXCEPT !.phase = "write"].op = call[c].op
          /\ [call[c] EXCEPT !.phase = "write"].job = call[c].job
      BY DEF Call
    <3>2. \A d \in Callers \ {c} : call'[d] = call[d]
      BY <1>0, <1>5 DEF ReadKeys, DuplicateKey, CallDies
    <3>3. call'[c] = NoCall \/ call'[c] = [call[c] EXCEPT !.phase = "write"]
      BY <1>0, <1>5 DEF ReadKeys, DuplicateKey, CallDies
    <3> QED BY <1>0, <3>1, <3>2, <3>3
  <2> QED BY <2>1, <2>2 DEF SettlesStored, ChargedOnlyForResult, HasEntry
<1>6. ASSUME NEW c \in Callers, SettleWrite(c) \/ ReleaseWrite(c)
      PROVE  SettlesStored' /\ ChargedOnlyForResult'
  <2> DEFINE j == call[c].job
             r == Reservation(j)
  <2>1. /\ j \in Jobs \cup {NoJob} /\ HasEntry("RESERVE", j)
        /\ SettleWrite(c) => j \in results
    BY <1>0, <1>6 DEF SettleWrite, ReleaseWrite, Close, LedgerInv, WritersFoundReservation,
                      SettlesStored, Call
  <2>2. r \in Entry /\ r.job = j
    BY <2>1, ReservationIsEntry DEF LedgerInv
  <2>3. call' = [call EXCEPT ![c] = NoCall]
    BY <1>6 DEF SettleWrite, ReleaseWrite, Close
  <2>4. SettlesStored'
    BY <1>0, <2>3 DEF SettlesStored
  <2>5. /\ SettleWrite(c) => ledger' = ledger \cup {Closing(c, "SETTLE")}
        /\ ReleaseWrite(c) => ledger' = ledger \cup {Closing(c, "RELEASE")}
    BY DEF SettleWrite, ReleaseWrite, Close
  <2>6. Closing(c, "SETTLE").job = j /\ Closing(c, "RELEASE").type = "RELEASE"
    BY <2>2 DEF Closing, Entry
  <2> HIDE DEF j
  <2>7. ChargedOnlyForResult'
    BY <1>6, <2>1, <2>5, <2>6 DEF ChargedOnlyForResult, HasEntry
  <2> QED BY <2>4, <2>7
<1> QED BY <1>1, <1>2, <1>3, <1>4, <1>5, <1>6 DEF LedgerMove, CallStep

-----------------------------------------------------------------------------
(***************************************************************************)
(* What a step of the queue does to rows and workers.  A quiet step neither*)
(* claims a job nor calls the provider.                                    *)
(***************************************************************************)
RowsKept ==
  /\ job' \in [Jobs -> Row]
  /\ \A j \in Jobs : job'[j].attempts >= job[j].attempts

WorkerKept(w) ==
  \/ worker'[w] = worker[w]
  \/ worker'[w] = AtRest
  \/ /\ worker[w].pc # "idle" /\ worker'[w].pc # "idle"
     /\ worker'[w].pc \in {"start", "refresh"} => worker[w].pc \in {"start", "refresh"}
     /\ worker'[w].job = worker[w].job /\ worker'[w].attempt = worker[w].attempt

RequestKept(r) ==
  \/ request'[r] = request[r] \/ request'[r].pc = "idle"
  \/ request'[r].job \in Jobs

Quiet ==
  /\ RowsKept
  /\ worker' \in [Workers -> WorkerState] /\ \A w \in Workers : WorkerKept(w)
  /\ request' \in [Requests -> RequestState] /\ \A r \in Requests : RequestKept(r)
  /\ results' \in SUBSET Jobs /\ results \subseteq results'
  /\ spent' = spent
  /\ deaths' \in 0..MaxDeaths

\* A row counts attempts up to MaxAttempts.
LEMMA AttemptsInRange ==
  ASSUME JobsTypeOK PROVE \A j \in Jobs : job[j].attempts \in 0..MaxAttempts
BY DEF JobsTypeOK, Row

LEMMA WorkerTypes ==
  ASSUME JobsTypeOK, NEW w \in Workers
  PROVE  worker[w].attempt \in 0..MaxAttempts /\ worker[w].job \in Jobs \cup {NoJob}
BY DEF JobsTypeOK, WorkerState

LEMMA QuietStep ==
  ASSUME Inv, Quiet
  PROVE  JobsTypeOK' /\ Busy' /\ SpentCounted' /\ AttemptSpentOnce'
<1> USE DEF Inv
<1>0. MaxAttempts \in Nat
  BY JobsAssumption
<1>1. JobsTypeOK'
  BY DEF Quiet, RowsKept, JobsTypeOK
<1>2. \A j \in Jobs : /\ job[j].attempts \in Nat /\ job'[j].attempts \in Nat
                       /\ job'[j].attempts >= job[j].attempts
  BY <1>0, AttemptsInRange DEF Quiet, RowsKept, Row
<1>3. Busy'
  <2>1. ASSUME NEW w \in Workers, worker'[w].pc # "idle"
        PROVE  /\ worker'[w].job \in Jobs
               /\ worker'[w].attempt >= 1
               /\ worker'[w].attempt <= job'[worker'[w].job].attempts
    <3>1. /\ worker[w].pc # "idle"
          /\ worker'[w].job = worker[w].job /\ worker'[w].attempt = worker[w].attempt
      BY <2>1, IdleStates DEF Quiet, WorkerKept
    <3>2. /\ worker[w].job \in Jobs /\ worker[w].attempt >= 1
          /\ worker[w].attempt <= job[worker[w].job].attempts
      BY <3>1 DEF Busy
    <3>3. worker[w].attempt \in Nat
      BY <1>0, WorkerTypes
    <3> QED BY <1>2, <3>1, <3>2, <3>3
  <2>2. \A w \in Workers : worker'[w].pc = "idle" => worker'[w].job = NoJob
    BY IdleStates DEF Quiet, WorkerKept, Busy
  <2>3. \A r \in Requests : request'[r].pc # "idle" => request'[r].job \in Jobs
    BY DEF Quiet, RequestKept, Busy
  <2> QED BY <2>1, <2>2, <2>3 DEF Busy
<1>4. SpentCounted'
  <2> SUFFICES ASSUME NEW s \in spent PROVE s[2] <= job'[s[1]].attempts
    BY DEF Quiet, SpentCounted
  <2>1. s[1] \in Jobs /\ s[2] \in Nat /\ s[2] <= job[s[1]].attempts
    BY <1>0 DEF JobsTypeOK, SpentCounted
  <2> QED BY <1>2, <2>1
<1>5. AttemptSpentOnce'
  <2> SUFFICES ASSUME NEW w \in Workers, worker'[w].pc \in {"start", "refresh"}
               PROVE  /\ <<worker'[w].job, worker'[w].attempt>> \notin spent
                      /\ \A v \in Workers \ {w} : worker'[v].job = worker'[w].job =>
                           worker'[v].attempt # worker'[w].attempt
    BY DEF Quiet, AttemptSpentOnce
  <2>1. /\ worker[w].pc \in {"start", "refresh"}
        /\ worker'[w].job = worker[w].job /\ worker'[w].attempt = worker[w].attempt
    BY IdleStates DEF Quiet, WorkerKept
  <2>2. worker[w].job \in Jobs
    BY <2>1 DEF Busy
  <2>3. ASSUME NEW v \in Workers \ {w}, worker'[v].job = worker'[w].job
        PROVE  worker'[v].job = worker[v].job /\ worker'[v].attempt = worker[v].attempt
    <3>1. worker'[v] # AtRest
      BY <2>1, <2>2, <2>3, IdleStates, LedgerAssumption
    <3> QED BY <3>1 DEF Quiet, WorkerKept
  <2> QED BY <2>1, <2>3 DEF AttemptSpentOnce
<1> QED BY <1>1, <1>3, <1>4, <1>5

-----------------------------------------------------------------------------
(***************************************************************************)
(* The steps.                                                              *)
(***************************************************************************)
LEMMA InvInit == Init => Inv
<1> SUFFICES ASSUME Init PROVE Inv
  OBVIOUS
<1> USE IdleStates DEF Init
<1>1. LedgerInv
  BY LedgerInitInv
<1>2. JobsTypeOK
  BY JobsAssumption DEF JobsTypeOK, Row, Statuses
<1>3. Busy /\ SpentCounted
  BY DEF Busy, SpentCounted
<1>4. AttemptSpentOnce
  BY DEF AttemptSpentOnce
<1>5. SettlesStored /\ ChargedOnlyForResult
  BY DEF SettlesStored, ChargedOnlyForResult, HasEntry, LedgerInit
<1> QED BY <1>1, <1>2, <1>3, <1>4, <1>5 DEF Inv

LEMMA Quietly ==
  ASSUME Inv, Quiet, LedgerMove
  PROVE  Inv' /\ [LedgerNext]_ledgerVars
<1>1. LedgerInv'
  BY MoveIsLedgerStep, LedgerNextInv DEF Inv
<1> QED BY <1>1, QuietStep, MoveIsLedgerStep, MoveCharges DEF Inv, Quiet

\* The lease granted by a claim counts an attempt no worker is on.
LEMMA ClaimStep ==
  ASSUME Inv, NEW w \in Workers, Claim(w)
  PROVE  Inv' /\ [LedgerNext]_ledgerVars
<1> USE DEF Inv
<1>0. MaxAttempts \in Nat
  BY JobsAssumption
<1> PICK j \in Jobs :
      /\ ~Exhausted(j)
      /\ job' = [job EXCEPT ![j] = [@ EXCEPT !.status = "RUNNING", !.owner = w,
                                    !.lapsed = FALSE, !.attempts = job[j].attempts + 1]]
      /\ worker' = [worker EXCEPT ![w] =
                      [pc |-> "start", job |-> j, attempt |-> job[j].attempts + 1]]
  BY DEF Claim
<1> DEFINE a == job[j].attempts + 1
<1>1. a \in 1..MaxAttempts /\ job[j].attempts \in Nat
  BY <1>0, AttemptsInRange DEF Exhausted
<1>2. UNCHANGED <<ledgerVars, results, request, spent, deaths>>
  BY DEF Claim
<1>3. /\ job' \in [Jobs -> Row]
      /\ job'[j].attempts = a
      /\ \A i \in Jobs \ {j} : job'[i] = job[i]
  <2>1. job[j] \in Row
    BY DEF JobsTypeOK
  <2>2. /\ [job[j] EXCEPT !.status = "RUNNING", !.owner = w, !.lapsed = FALSE,
                          !.attempts = job[j].attempts + 1] \in Row
        /\ [job[j] EXCEPT !.status = "RUNNING", !.owner = w, !.lapsed = FALSE,
                          !.attempts = job[j].attempts + 1].attempts = a
    <3>1. a \in 0..MaxAttempts /\ "RUNNING" \in Statuses
      BY <1>0, <1>1 DEF Statuses
    <3> HIDE DEF Inv
    <3> QED BY <2>1, <3>1 DEF Row
  <2> QED BY <2>2 DEF JobsTypeOK
<1>4. /\ worker' \in [Workers -> WorkerState]
      /\ worker'[w].job = j /\ worker'[w].attempt = a /\ worker'[w].pc = "start"
      /\ \A v \in Workers \ {w} : worker'[v] = worker[v]
  BY <1>1 DEF JobsTypeOK, WorkerState
<1> HIDE DEF a
<1>5. \A i \in Jobs : job[i].attempts \in Nat /\ job'[i].attempts \in Nat
                      /\ job'[i].attempts >= job[i].attempts
  BY <1>0, <1>1, <1>3, AttemptsInRange DEF a
<1>6. JobsTypeOK'
  BY <1>2, <1>3, <1>4 DEF JobsTypeOK
<1>7. Busy'
  <2>1. ASSUME NEW v \in Workers \ {w}, worker[v].pc # "idle"
        PROVE  /\ worker[v].job \in Jobs /\ worker[v].attempt >= 1
               /\ worker[v].attempt <= job'[worker[v].job].attempts
    <3>1. /\ worker[v].job \in Jobs /\ worker[v].attempt >= 1
          /\ worker[v].attempt <= job[worker[v].job].attempts
      BY <2>1 DEF Busy
    <3>2. worker[v].attempt \in Nat
      BY <1>0, WorkerTypes
    <3> QED BY <1>5, <3>1, <3>2
  <2>2. a >= 1 /\ a <= job'[j].attempts
    BY <1>0, <1>1, <1>3
  <2>3. \A v \in Workers : worker'[v].pc = "idle" => worker'[v].job = NoJob
    BY <1>4 DEF Busy
  <2> QED BY <1>2, <1>4, <2>1, <2>2, <2>3 DEF Busy
<1>8. SpentCounted'
  <2> SUFFICES ASSUME NEW s \in spent PROVE s[2] <= job'[s[1]].attempts
    BY <1>2 DEF SpentCounted
  <2>1. s[1] \in Jobs /\ s[2] \in Nat /\ s[2] <= job[s[1]].attempts
    BY <1>0 DEF JobsTypeOK, SpentCounted
  <2> QED BY <1>5, <2>1
<1>9. AttemptSpentOnce'
  <2>1. <<j, a>> \notin spent
    <3>1. \A s \in spent : s[1] = j => s[2] < a
      <4> SUFFICES ASSUME NEW s \in spent, s[1] = j PROVE s[2] < a
        OBVIOUS
      <4>1. s[2] \in Nat /\ s[2] <= job[j].attempts
        BY <1>0 DEF JobsTypeOK, SpentCounted
      <4> QED BY <1>1, <4>1 DEF a
    <3> QED BY <1>0, <1>1, <3>1
  <2>2. ASSUME NEW v \in Workers \ {w}, worker[v].job = j PROVE worker[v].attempt # a
    <3>1. CASE worker[v].pc = "idle"
      BY <2>2, <3>1, LedgerAssumption DEF Busy
    <3>2. CASE worker[v].pc # "idle"
      <4>1. worker[v].attempt <= job[j].attempts /\ worker[v].attempt \in Nat
        BY <1>0, <2>2, <3>2, WorkerTypes DEF Busy
      <4> QED BY <1>1, <4>1 DEF a
    <3> QED BY <3>1, <3>2
  <2> QED BY <1>2, <1>4, <2>1, <2>2 DEF AttemptSpentOnce
<1>10. LedgerMove
  BY <1>2 DEF LedgerMove
<1>11. LedgerInv'
  BY <1>10, MoveIsLedgerStep, LedgerNextInv
<1> QED
  BY <1>2, <1>6, <1>7, <1>8, <1>9, <1>10, <1>11, MoveIsLedgerStep, MoveCharges

\* The attempt a provider call spends is nobody else's.
LEMMA CallProviderStep ==
  ASSUME Inv, NEW w \in Workers, CallProvider(w)
  PROVE  Inv' /\ [LedgerNext]_ledgerVars
<1> USE DEF Inv
<1> DEFINE j == worker[w].job
           a == worker[w].attempt
<1>0. MaxAttempts \in Nat
  BY JobsAssumption
<1>1. /\ worker[w].pc = "refresh" /\ Moves(w, "provider")
      /\ UNCHANGED <<ledgerVars, results, request, deaths>>
      /\ spent' = spent \cup {<<j, a>>}
  BY DEF CallProvider, AtPc
<1>2. j \in Jobs /\ a \in 1..MaxAttempts /\ a <= job[j].attempts
  BY <1>0, <1>1, WorkerTypes DEF Busy
<1>3. /\ worker' \in [Workers -> WorkerState]
      /\ worker'[w].pc = "provider" /\ worker'[w].job = j /\ worker'[w].attempt = a
      /\ \A v \in Workers \ {w} : worker'[v] = worker[v]
  BY <1>1, WorkerMoves
<1>4. /\ job' \in [Jobs -> Row]
      /\ \A i \in Jobs : job'[i].attempts = job[i].attempts
  <2>1. CASE job' = job
    BY <2>1 DEF JobsTypeOK
  <2>2. CASE job' = [job EXCEPT ![j].lapsed = FALSE]
    <3>1. job[j] \in Row
      BY <1>2 DEF JobsTypeOK
    <3>2. /\ [job[j] EXCEPT !.lapsed = FALSE] \in Row
          /\ [job[j] EXCEPT !.lapsed = FALSE].attempts = job[j].attempts
      BY <3>1 DEF Row
    <3> QED BY <1>2, <2>2, <3>2 DEF JobsTypeOK
  <2> QED BY <2>1, <2>2 DEF CallProvider
<1> HIDE DEF j, a
<1>5. JobsTypeOK'
  BY <1>1, <1>2, <1>3, <1>4 DEF JobsTypeOK
<1>6. Busy'
  <2>1. \A v \in Workers : /\ worker'[v].job = worker[v].job
                           /\ worker'[v].attempt = worker[v].attempt
                           /\ worker'[v].pc = "idle" <=> worker[v].pc = "idle"
    BY <1>1, <1>3 DEF j, a
  <2> QED BY <1>1, <1>4, <2>1 DEF Busy
<1>7. SpentCounted'
  <2> SUFFICES ASSUME NEW s \in spent' PROVE s[2] <= job'[s[1]].attempts
    BY DEF SpentCounted
  <2>1. CASE s \in spent
    <3>1. s[1] \in Jobs /\ s[2] <= job[s[1]].attempts
      BY <2>1 DEF JobsTypeOK, SpentCounted
    <3> QED BY <1>4, <3>1
  <2>2. CASE s = <<j, a>>
    BY <1>2, <1>4, <2>2
  <2> QED BY <1>1, <2>1, <2>2
<1>8. AttemptSpentOnce'
  <2> SUFFICES ASSUME NEW v \in Workers, worker'[v].pc \in {"start", "refresh"}
               PROVE  /\ <<worker'[v].job, worker'[v].attempt>> \notin spent'
                      /\ \A u \in Workers \ {v} : worker'[u].job = worker'[v].job =>
                           worker'[u].attempt # worker'[v].attempt
    BY DEF AttemptSpentOnce
  <2>1. v # w /\ worker'[v] = worker[v]
    BY <1>3
  <2>2. /\ <<worker[v].job, worker[v].attempt>> \notin spent
        /\ \A u \in Workers \ {v} : worker[u].job = worker[v].job =>
             worker[u].attempt # worker[v].attempt
    BY <2>1 DEF AttemptSpentOnce
  <2>3. \A u \in Workers : worker'[u].job = worker[u].job /\ worker'[u].attempt = worker[u].attempt
    BY <1>3 DEF j, a
  <2>4. <<worker[v].job, worker[v].attempt>> # <<j, a>>
    BY <2>1, <2>2 DEF j, a
  <2> QED BY <1>1, <2>1, <2>2, <2>3, <2>4
<1>9. LedgerMove
  BY <1>1 DEF LedgerMove
<1>10. LedgerInv'
  BY <1>9, MoveIsLedgerStep, LedgerNextInv
<1> QED
  BY <1>1, <1>5, <1>6, <1>7, <1>8, <1>9, <1>10, MoveIsLedgerStep, MoveCharges

LEMMA RowsUnleased ==
  ASSUME JobsTypeOK, NEW j \in Jobs, NEW status \in Statuses, job' = Unleased(j, status)
  PROVE  RowsKept
<1>1. \A i \in Jobs : job[i].attempts \in Nat
  BY JobsAssumption, AttemptsInRange
<1> QED BY <1>1, UnleasedRow DEF RowsKept

LEMMA RowsSame == ASSUME JobsTypeOK, job' = job PROVE RowsKept
<1>1. \A i \in Jobs : job[i].attempts \in Nat
  BY JobsAssumption, AttemptsInRange
<1> QED BY <1>1 DEF RowsKept, JobsTypeOK

\* A changed status or lease alone keeps a row's type and its attempts.
LEMMA RowsRelabelled ==
  ASSUME JobsTypeOK, NEW j \in Jobs, NEW status \in Statuses, NEW lapsed \in BOOLEAN,
         NEW cost \in Costs \cup {0},
         \/ job' = [job EXCEPT ![j].status = status]
         \/ job' = [job EXCEPT ![j].lapsed = lapsed]
         \/ job' = [job EXCEPT ![j] = [@ EXCEPT !.status = status, !.cost = cost]]
  PROVE  RowsKept
<1>1. \A i \in Jobs : job[i].attempts \in Nat
  BY JobsAssumption, AttemptsInRange
<1>2. job[j] \in Row
  BY DEF JobsTypeOK
<1>3. /\ [job[j] EXCEPT !.status = status] \in Row
      /\ [job[j] EXCEPT !.status = status].attempts = job[j].attempts
  BY <1>2 DEF Row
<1>4. /\ [job[j] EXCEPT !.lapsed = lapsed] \in Row
      /\ [job[j] EXCEPT !.lapsed = lapsed].attempts = job[j].attempts
  BY <1>2 DEF Row
<1>5. /\ [job[j] EXCEPT !.status = status, !.cost = cost] \in Row
      /\ [job[j] EXCEPT !.status = status, !.cost = cost].attempts = job[j].attempts
  BY <1>2 DEF Row
<1>6. CASE job' = [job EXCEPT ![j].status = status]
  BY <1>1, <1>3, <1>6 DEF RowsKept, JobsTypeOK
<1>7. CASE job' = [job EXCEPT ![j].lapsed = lapsed]
  BY <1>1, <1>4, <1>7 DEF RowsKept, JobsTypeOK
<1>8. CASE job' = [job EXCEPT ![j] = [@ EXCEPT !.status = status, !.cost = cost]]
  BY <1>1, <1>5, <1>8 DEF RowsKept, JobsTypeOK
<1> QED BY <1>6, <1>7, <1>8

\* What the workers' and the requests' own fields do in a step.
WorkersKept == worker' \in [Workers -> WorkerState] /\ \A w \in Workers : WorkerKept(w)
RequestsKept == request' \in [Requests -> RequestState] /\ \A r \in Requests : RequestKept(r)

LEMMA WorkersSame == ASSUME JobsTypeOK, worker' = worker PROVE WorkersKept
BY DEF WorkersKept, WorkerKept, JobsTypeOK

LEMMA WorkersLeave == ASSUME JobsTypeOK, NEW w \in Workers, Leaves(w) PROVE WorkersKept
BY WorkerLeaves DEF WorkersKept, WorkerKept

LEMMA WorkersMove ==
  ASSUME JobsTypeOK, NEW w \in Workers, worker[w].pc # "idle",
         NEW pc \in {"refresh", "provider", "ready", "requeue", "fail"}, Moves(w, pc),
         pc = "refresh" => worker[w].pc = "start"
  PROVE  WorkersKept
BY WorkerMoves DEF WorkersKept, WorkerKept

LEMMA RequestsSame == ASSUME JobsTypeOK, request' = request PROVE RequestsKept
BY DEF RequestsKept, RequestKept, JobsTypeOK

LEMMA RequestsGo ==
  ASSUME JobsTypeOK, NEW r \in Requests, NEW j \in Jobs,
         NEW pc \in {"cancel", "checkReleased", "requeue"},
         Goes(r, pc, j) \/ request' = [request EXCEPT ![r] = Done]
  PROVE  RequestsKept
<1>1. [pc |-> pc, job |-> j] \in RequestState
  BY DEF RequestState
<1> QED BY <1>1, IdleStates DEF RequestsKept, RequestKept, JobsTypeOK, Goes

\* A release or settle that begins, and a call that is forgotten.
LEMMA CallsMove ==
  ASSUME Inv, NEW c \in Callers, NEW j \in Jobs, NEW op \in {"settle", "release"},
         op = "settle" => j \in results', Calls(c, op, j)
  PROVE  LedgerMove
BY DEF Calls, LedgerMove

LEMMA CallsForgotten ==
  ASSUME Inv, NEW c \in Callers, call' = [call EXCEPT ![c] = NoCall],
         UNCHANGED <<lotOrder, remaining, reserved, ledger>>
  PROVE  LedgerMove
<1>1. CASE call[c] = NoCall
  BY <1>1 DEF LedgerMove, ledgerVars, Inv, LedgerInv, LedgerTypeOK
<1>2. CASE call[c] # NoCall
  BY <1>2 DEF LedgerMove, CallDies
<1> QED BY <1>1, <1>2

LEMMA QuietParts ==
  ASSUME Inv, RowsKept, WorkersKept, RequestsKept, LedgerMove, spent' = spent,
         results \subseteq results', results' \subseteq Jobs, deaths' \in 0..MaxDeaths
  PROVE  Inv' /\ [LedgerNext]_ledgerVars
BY Quietly DEF Quiet, WorkersKept, RequestsKept, Inv, JobsTypeOK

-----------------------------------------------------------------------------
LEMMA NextInv ==
  ASSUME Inv, [Next]_vars
  PROVE  Inv' /\ [LedgerNext]_ledgerVars
<1> USE DEF Inv
<1>0. /\ results \subseteq Jobs /\ deaths \in 0..MaxDeaths
      /\ Workers \subseteq Callers /\ Requests \subseteq Callers
      /\ {"QUEUED", "RUNNING", "READY", "FAILED", "CANCELLED"} \subseteq Statuses
  BY JobsAssumption DEF JobsTypeOK, Statuses
<1>1. ASSUME NEW l \in Lots, Grant(l)
      PROVE  Inv' /\ [LedgerNext]_ledgerVars
  <2>1. LedgerMove /\ UNCHANGED jobVars
    BY <1>1 DEF Grant, LedgerMove
  <2> QED BY <1>0, <2>1, RowsSame, WorkersSame, RequestsSame, QuietParts DEF jobVars
<1>2. ASSUME NEW j \in Jobs, NEW cost \in Costs \cup {0}, CreateJob(j, cost)
      PROVE  Inv' /\ [LedgerNext]_ledgerVars
  <2>1. LedgerMove
    BY <1>2 DEF CreateJob, LedgerMove
  <2>2. RowsKept
    BY <1>0, <1>2, RowsRelabelled DEF CreateJob
  <2> QED BY <1>0, <1>2, <2>1, <2>2, WorkersSame, RequestsSame, QuietParts DEF CreateJob
<1>3. ASSUME NEW w \in Workers, ClaimExhausted(w)
      PROVE  Inv' /\ [LedgerNext]_ledgerVars
  <2> PICK j \in Jobs : job' = Unleased(j, "FAILED") /\ Calls(w, "release", j)
    BY <1>3 DEF ClaimExhausted
  <2>1. LedgerMove
    BY <1>0, CallsMove
  <2>2. RowsKept
    BY <1>0, RowsUnleased
  <2> QED BY <1>0, <1>3, <2>1, <2>2, WorkersSame, RequestsSame, QuietParts DEF ClaimExhausted
<1>4. ASSUME NEW w \in Workers, Start(w) \/ Answer(w)
      PROVE  Inv' /\ [LedgerNext]_ledgerVars
  <2>1. /\ worker[w].pc \in {"start", "provider"} /\ worker[w].job \in Jobs
        /\ call[w] = NoCall
    BY <1>4 DEF Start, Answer, AtPc, Busy
  <2>2. UNCHANGED <<lotOrder, remaining, reserved, ledger, job, results, request, spent, deaths>>
    BY <1>4 DEF Start, Answer
  <2>3. call' = call \/ call' = [call EXCEPT ![w] = Begin("release", worker[w].job)]
    BY <1>4 DEF Start, Answer
  <2>4. LedgerMove
    <3>1. CASE call' = call
      BY <2>2, <3>1 DEF LedgerMove, ledgerVars
    <3>2. CASE call' = [call EXCEPT ![w] = Begin("release", worker[w].job)]
      <4>1. Calls(w, "release", worker[w].job)
        BY <2>1, <2>2, <3>2 DEF Calls, BeginCall
      <4> QED BY <1>0, <2>1, <4>1, CallsMove
    <3> QED BY <2>3, <3>1, <3>2
  <2>5. WorkersKept
    <3>1. CASE Start(w)
      <4>1. worker[w].pc = "start"
            /\ (Leaves(w) \/ Moves(w, "refresh") \/ Moves(w, "fail"))
        BY <3>1 DEF Start, AtPc
      <4> QED BY <4>1, WorkersLeave, WorkersMove
    <3>2. CASE Answer(w)
      <4>1. worker[w].pc = "provider"
            /\ (Leaves(w) \/ Moves(w, "ready") \/ Moves(w, "requeue") \/ Moves(w, "fail"))
        BY <3>2 DEF Answer, AtPc
      <4> QED BY <4>1, WorkersLeave, WorkersMove
    <3> QED BY <1>4, <3>1, <3>2
  <2> QED BY <1>0, <2>2, <2>4, <2>5, RowsSame, RequestsSame, QuietParts
<1>5. ASSUME NEW w \in Workers, WriteReady(w) \/ WriteRequeue(w) \/ WriteFailed(w)
      PROVE  Inv' /\ [LedgerNext]_ledgerVars
  <2> DEFINE j == worker[w].job
  <2>1. worker[w].pc \in {"ready", "requeue", "fail"} /\ j \in Jobs
    BY <1>5 DEF WriteReady, WriteRequeue, WriteFailed, AtPc, Busy
  <2>2. /\ Leaves(w)
        /\ \E status \in Statuses : job' = Unleased(j, status)
        /\ UNCHANGED <<request, spent, deaths>>
        /\ results \subseteq results' /\ results' \subseteq Jobs
    BY <1>0, <1>5, <2>1 DEF WriteReady, WriteRequeue, WriteFailed
  <2>3. LedgerMove
    <3>1. CASE WriteReady(w)
      <4>1. Calls(w, "settle", j) /\ j \in results'
        BY <3>1 DEF WriteReady
      <4> QED BY <1>0, <2>1, <4>1, CallsMove
    <3>2. CASE UNCHANGED ledgerVars
      BY <3>2 DEF LedgerMove
    <3>3. CASE Calls(w, "release", j)
      BY <1>0, <2>1, <3>3, CallsMove
    <3> QED BY <1>5, <3>1, <3>2, <3>3 DEF WriteRequeue, WriteFailed
  <2> HIDE DEF j
  <2>4. RowsKept
    BY <2>1, <2>2, RowsUnleased
  <2> QED BY <1>0, <2>2, <2>3, <2>4, WorkersLeave, RequestsSame, QuietParts
<1>6. ASSUME NEW r \in Requests, NEW j \in Jobs, BeginCancel(r, j) \/ BeginRetry(r, j)
      PROVE  Inv' /\ [LedgerNext]_ledgerVars
  <2>1. /\ UNCHANGED <<job, results, worker, spent, deaths>>
        /\ UNCHANGED ledgerVars \/ Calls(r, "release", j)
        /\ UNCHANGED request \/ Goes(r, "cancel", j) \/ Goes(r, "checkReleased", j)
    BY <1>6 DEF BeginCancel, BeginRetry
  <2>2. LedgerMove
    <3>1. CASE UNCHANGED ledgerVars
      BY <3>1 DEF LedgerMove
    <3>2. CASE Calls(r, "release", j)
      BY <1>0, <3>2, CallsMove
    <3> QED BY <2>1, <3>1, <3>2
  <2>3. RequestsKept
    BY <2>1, RequestsSame, RequestsGo
  <2> QED BY <1>0, <2>1, <2>2, <2>3, RowsSame, WorkersSame, QuietParts
<1>7. ASSUME NEW r \in Requests, CancelWrite(r) \/ CheckReleased(r) \/ RetryWrite(r)
      PROVE  Inv' /\ [LedgerNext]_ledgerVars
  <2> DEFINE j == request[r].job
  <2>1. j \in Jobs
    BY <1>7 DEF CancelWrite, CheckReleased, RetryWrite, Busy
  <2>2. UNCHANGED <<results, worker, spent, deaths>>
    BY <1>7 DEF CancelWrite, CheckReleased, RetryWrite
  <2>3. RequestsKept
    <3>1. request' = [request EXCEPT ![r] = Done] \/ Goes(r, "requeue", j)
      BY <1>7 DEF CancelWrite, CheckReleased, RetryWrite
    <3> QED BY <2>1, <3>1, RequestsGo
  <2>4. LedgerMove
    <3>1. CASE UNCHANGED ledgerVars
      BY <3>1 DEF LedgerMove
    <3>2. CASE Calls(r, "release", j)
      BY <1>0, <2>1, <3>2, CallsMove
    <3> QED BY <1>7, <3>1, <3>2 DEF CancelWrite, CheckReleased, RetryWrite
  <2>5. \/ job' = job
        \/ job' = [job EXCEPT ![j].status = "CANCELLED"]
        \/ job' = Unleased(j, "QUEUED")
    BY <1>7 DEF CancelWrite, CheckReleased, RetryWrite
  <2> HIDE DEF j
  <2>6. RowsKept
    BY <1>0, <2>1, <2>5, RowsSame, RowsRelabelled, RowsUnleased
  <2> QED BY <1>0, <2>2, <2>3, <2>4, <2>6, WorkersSame, QuietParts
<1>8. ASSUME NEW j \in Jobs, LeaseLapses(j)
      PROVE  Inv' /\ [LedgerNext]_ledgerVars
  <2>1. RowsKept
    BY <1>0, <1>8, RowsRelabelled DEF LeaseLapses
  <2>2. LedgerMove
    BY <1>8 DEF LeaseLapses, LedgerMove
  <2> QED BY <1>0, <1>8, <2>1, <2>2, WorkersSame, RequestsSame, QuietParts DEF LeaseLapses
<1>9. ASSUME NEW c \in Callers, LedgerStep(c)
      PROVE  Inv' /\ [LedgerNext]_ledgerVars
  <2>1. LedgerMove /\ UNCHANGED jobVars
    BY <1>9 DEF LedgerStep, LedgerMove
  <2> QED BY <1>0, <2>1, RowsSame, WorkersSame, RequestsSame, QuietParts DEF jobVars
<1>10. deaths < MaxDeaths /\ deaths' = deaths + 1 => deaths' \in 0..MaxDeaths
  BY <1>0, JobsAssumption
<1>11. ASSUME NEW w \in Workers, WorkerDies(w)
       PROVE  Inv' /\ [LedgerNext]_ledgerVars
  <2>1. LedgerMove
    BY <1>0, <1>11, CallsForgotten DEF WorkerDies
  <2> QED BY <1>0, <1>10, <1>11, <2>1, RowsSame, WorkersLeave, RequestsSame, QuietParts
          DEF WorkerDies
<1>12. ASSUME NEW r \in Requests, RequestDies(r)
       PROVE  Inv' /\ [LedgerNext]_ledgerVars
  <2>1. LedgerMove
    BY <1>0, <1>12, CallsForgotten DEF RequestDies
  <2>2. RequestsKept
    BY <1>12, IdleStates DEF RequestDies, RequestsKept, RequestKept, JobsTypeOK
  <2> QED BY <1>0, <1>10, <1>12, <2>1, <2>2, RowsSame, WorkersSame, QuietParts
          DEF RequestDies
<1>13. CASE UNCHANGED vars
  <2>1. LedgerMove
    BY <1>13 DEF vars, LedgerMove
  <2> QED BY <1>0, <1>13, <2>1, RowsSame, WorkersSame, RequestsSame, QuietParts
          DEF vars, jobVars
<1> QED
  BY <1>0, <1>1, <1>2, <1>3, <1>4, <1>5, <1>6, <1>7, <1>8, <1>9, <1>11, <1>12, <1>13,
     ClaimStep, CallProviderStep DEF Next, WorkerStep, RequestStep

-----------------------------------------------------------------------------
THEOREM Invariance == Spec => []Inv
<1>1. Inv /\ [Next]_vars => Inv'
  BY NextInv
<1> QED BY <1>1, InvInit, PTL DEF Spec

\* Rows, leases, calls and counters keep their types; in particular no job is
\* claimed more than MaxAttempts times.
THEOREM TypeCorrect == Spec => []TypeOK
<1>1. Inv => TypeOK
  BY DEF Inv, LedgerInv, JobsTypeOK, TypeOK
<1> QED BY <1>1, Invariance, PTL

\* The provider is called at most once for each attempt of a job, whatever the
\* leases, the number of workers and the requests do.
THEOREM AttemptsAreSpentOnce == Spec => []AttemptSpentOnce
<1>1. Inv => AttemptSpentOnce
  BY DEF Inv
<1> QED BY <1>1, Invariance, PTL

\* A member is charged only for a job whose suggestions were stored.
THEOREM ChargesAreForResults == Spec => []ChargedOnlyForResult
<1>1. Inv => ChargedOnlyForResult
  BY DEF Inv
<1> QED BY <1>1, Invariance, PTL

\* The queue touches the ledger only through the ledger's own operations: AiJobs
\* implements CreditLedger, so what is proved of the ledger holds in the queue.
THEOREM QueueKeepsLedger == Spec => LedgerSpec
<1>1. Init => LedgerInit
  BY DEF Init
<1>2. Inv /\ [Next]_vars => [LedgerNext]_ledgerVars
  BY NextInv
<1> QED BY <1>1, <1>2, Invariance, PTL DEF Spec, LedgerSpec

-----------------------------------------------------------------------------
(***************************************************************************)
(* A cancel is not overtaken by anything decided after it.                 *)
(***************************************************************************)
CancelledForGood(j) == job[j].status = "CANCELLED" /\ ~PendingWrite(j)

\* What keeps a cancelled job so: its row, and nobody who starts to write to it.
LEMMA CancelKept ==
  ASSUME NEW j \in Jobs, CancelledForGood(j), job'[j].status = "CANCELLED",
         \A w \in Workers :
            \/ worker'[w] = worker[w] \/ worker'[w].pc \notin {"ready", "requeue", "fail"}
            \/ worker'[w].job # j,
         \A r \in Requests :
            \/ request'[r] = request[r] \/ request'[r].pc \notin {"checkReleased", "requeue"}
            \/ request'[r].job # j
  PROVE  CancelledForGood(j)'
BY DEF CancelledForGood, PendingWrite

LEMMA CancelStep ==
  ASSUME Inv, [Next]_vars, NEW j \in Jobs, CancelledForGood(j)
  PROVE  CancelledForGood(j)'
<1> USE DEF Inv
<1>0. /\ job \in [Jobs -> Row]
      /\ worker \in [Workers -> WorkerState] /\ request \in [Requests -> RequestState]
      /\ job[j].status = "CANCELLED"
      /\ \A w \in Workers : worker[w].job = j => worker[w].pc \notin {"ready", "requeue", "fail"}
      /\ \A r \in Requests : request[r].job = j =>
           request[r].pc \notin {"checkReleased", "requeue"}
  BY DEF JobsTypeOK, CancelledForGood, PendingWrite
<1>1. CASE worker' = worker /\ request' = request /\ job' = job
  BY <1>0, <1>1, CancelKept
<1>2. ASSUME NEW i \in Jobs, NEW cost \in Costs \cup {0}, CreateJob(i, cost)
      PROVE  CancelledForGood(j)'
  <2>1. i # j /\ job'[j] = job[j] /\ worker' = worker /\ request' = request
    BY <1>0, <1>2 DEF CreateJob
  <2> QED BY <1>0, <2>1, CancelKept
<1>3. ASSUME NEW w \in Workers, Claim(w) \/ ClaimExhausted(w)
      PROVE  CancelledForGood(j)'
  <2>1. job'[j] = job[j] /\ request' = request
    BY <1>0, <1>3 DEF Claim, ClaimExhausted, Oldest, Claimable, Unleased
  <2>2. \A v \in Workers : worker'[v] = worker[v] \/ worker'[v].pc = "start"
    <3>1. CASE Claim(w)
      <4> PICK i \in Jobs : worker' = [worker EXCEPT ![w] =
                              [pc |-> "start", job |-> i, attempt |-> job[i].attempts + 1]]
        BY <3>1 DEF Claim
      <4> QED BY <1>0
    <3>2. CASE ClaimExhausted(w)
      BY <3>2 DEF ClaimExhausted
    <3> QED BY <1>3, <3>1, <3>2
  <2> QED BY <1>0, <2>1, <2>2, CancelKept
<1>4. ASSUME NEW w \in Workers, Start(w) \/ Answer(w)
      PROVE  CancelledForGood(j)'
  <2>1. job' = job /\ request' = request
    BY <1>4 DEF Start, Answer
  <2>2. CASE Leaves(w)
    BY <1>0, <2>1, <2>2, CancelKept, WorkerLeaves, IdleStates
  <2>3. CASE worker[w].job # j /\ \E pc \in {"refresh", "ready", "requeue", "fail"} : Moves(w, pc)
    BY <1>0, <2>1, <2>3, CancelKept, WorkerMoves
  <2>4. CASE Moves(w, "refresh")
    BY <1>0, <2>1, <2>4, CancelKept, WorkerMoves
  <2> QED BY <1>0, <1>4, <2>2, <2>3, <2>4 DEF Start, Answer
<1>5. ASSUME NEW w \in Workers, CallProvider(w)
      PROVE  CancelledForGood(j)'
  <2>1. job'[j] = job[j] /\ request' = request /\ Moves(w, "provider")
    BY <1>0, <1>5 DEF CallProvider
  <2> QED BY <1>0, <2>1, CancelKept, WorkerMoves
<1>6. ASSUME NEW w \in Workers, WriteReady(w) \/ WriteRequeue(w) \/ WriteFailed(w)
      PROVE  CancelledForGood(j)'
  <2>1. worker[w].job # j /\ Leaves(w) /\ request' = request
    BY <1>0, <1>6 DEF WriteReady, WriteRequeue, WriteFailed, AtPc
  <2>2. job'[j] = job[j]
    BY <1>0, <1>6, <2>1 DEF WriteReady, WriteRequeue, WriteFailed, Unleased
  <2> QED BY <1>0, <2>1, <2>2, CancelKept, WorkerLeaves, IdleStates
<1>7. ASSUME NEW r \in Requests, NEW i \in Jobs, BeginCancel(r, i) \/ BeginRetry(r, i)
      PROVE  CancelledForGood(j)'
  <2>1. job' = job /\ worker' = worker
    BY <1>7 DEF BeginCancel, BeginRetry
  <2>2. \/ request' = request
        \/ request' = [request EXCEPT ![r] = [pc |-> "cancel", job |-> i]]
        \/ i # j /\ request' = [request EXCEPT ![r] = [pc |-> "checkReleased", job |-> i]]
    BY <1>0, <1>7 DEF BeginCancel, BeginRetry, Goes
  <2>3. \A q \in Requests : \/ request'[q] = request[q]
                           \/ request'[q].pc = "cancel" \/ request'[q].job # j
    BY <1>0, <2>2
  <2> QED BY <1>0, <2>1, <2>3, CancelKept
<1>8. ASSUME NEW r \in Requests, CancelWrite(r) \/ CheckReleased(r) \/ RetryWrite(r)
      PROVE  CancelledForGood(j)'
  <2>1. worker' = worker
    BY <1>8 DEF CancelWrite, CheckReleased, RetryWrite
  <2>2. job'[j].status = "CANCELLED"
    BY <1>0, <1>8 DEF CancelWrite, CheckReleased, RetryWrite, Unleased
  <2>3. \/ request' = [request EXCEPT ![r] = Done]
        \/ /\ request[r].job # j
           /\ request' = [request EXCEPT ![r] = [pc |-> "requeue", job |-> request[r].job]]
    BY <1>0, <1>8 DEF CancelWrite, CheckReleased, RetryWrite, Goes
  <2>4. \A q \in Requests : \/ request'[q] = request[q]
                           \/ request'[q].pc = "idle" \/ request'[q].job # j
    BY <1>0, <2>3, IdleStates
  <2> QED BY <1>0, <2>1, <2>2, <2>4, CancelKept
<1>9. ASSUME NEW i \in Jobs, LeaseLapses(i)
      PROVE  CancelledForGood(j)'
  <2>1. i # j /\ job'[j] = job[j] /\ worker' = worker /\ request' = request
    BY <1>0, <1>9 DEF LeaseLapses
  <2> QED BY <1>0, <2>1, CancelKept
<1>10. ASSUME NEW w \in Workers, WorkerDies(w)
       PROVE  CancelledForGood(j)'
  BY <1>0, <1>10, CancelKept, WorkerLeaves, IdleStates DEF WorkerDies
<1>11. ASSUME NEW r \in Requests, RequestDies(r)
       PROVE  CancelledForGood(j)'
  <2>1. job' = job /\ worker' = worker /\ request' = [request EXCEPT ![r] = Done]
    BY <1>11 DEF RequestDies
  <2>2. \A q \in Requests : request'[q] = request[q] \/ request'[q].pc = "idle"
    BY <1>0, <2>1, IdleStates
  <2> QED BY <1>0, <2>1, <2>2, CancelKept
<1>12. CASE \/ \E l \in Lots : Grant(l)
            \/ \E c \in Callers : LedgerStep(c)
            \/ UNCHANGED vars
  BY <1>1, <1>12 DEF Grant, LedgerStep, jobVars, vars
<1>13. Workers \subseteq Callers /\ Requests \subseteq Callers
  BY JobsAssumption
<1> QED
  BY <1>2, <1>3, <1>4, <1>5, <1>6, <1>7, <1>8, <1>9, <1>10, <1>11, <1>12, <1>13
     DEF Next, WorkerStep, RequestStep

\* A late answer does not publish the results of a cancelled job, nor does
\* anything else bring the job back, unless it was decided before the cancel.
THEOREM CancelIsFinal == Spec => CancelSticks
<1>1. Inv /\ [Next]_vars =>
        [\A j \in Jobs : job[j].status = "CANCELLED" /\ ~PendingWrite(j)
            => job'[j].status = "CANCELLED" /\ ~PendingWrite(j)']_vars
  BY CancelStep DEF CancelledForGood
<1> QED BY <1>1, Invariance, PTL DEF Spec, CancelSticks

=============================================================================
