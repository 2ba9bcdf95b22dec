---------------------------- MODULE CreditLedger ----------------------------
(***************************************************************************)
(* The AI credit ledger of one member (src/lib/credits/ledger.ts).         *)
(*                                                                         *)
(* A member owns credit lots, each with a remaining and a reserved amount, *)
(* and an append-only ledger of GRANT, RESERVE, SETTLE and RELEASE         *)
(* entries.  A RESERVE, SETTLE or RELEASE entry carries the unique         *)
(* idempotency key `reserve:<job>', `settle:<job>' or `release:<job>', so  *)
(* a job has at most one entry of each type and the set `ledger' of        *)
(* records loses nothing.                                                  *)
(*                                                                         *)
(* The database runs at READ COMMITTED.  Settling or releasing a job is    *)
(* two steps of its caller: a read of the ledger keys, which locks         *)
(* nothing, and the lot update with the new entry, which takes the lot's   *)
(* row lock and commits.  An entry whose key exists by then violates the   *)
(* unique index and the whole transaction rolls back.                      *)
(***************************************************************************)
EXTENDS Integers, Sequences, FiniteSets, Functions

CONSTANTS
  Lots,         \* the sponsored grants a member can receive
  Jobs,         \* AI jobs of the member
  Callers,      \* processes that settle and release: workers and requests
  Costs,        \* amounts a job may reserve
  GrantAmount,  \* GrantAmount[l]: the amount of lot l
  NoJob         \* a value outside Jobs

ASSUME LedgerAssumption ==
  /\ Costs \subseteq Nat \ {0}
  /\ IsFiniteSet(Lots) /\ GrantAmount \in [Lots -> Nat]
  /\ NoJob \notin Jobs

VARIABLES
  lotOrder,     \* lots that exist, oldest first
  remaining,    \* remaining[l]: CreditLot.remainingAmount
  reserved,     \* reserved[l]: CreditLot.reservedAmount
  ledger,       \* the CreditLedgerEntry rows
  call          \* call[c]: the settle or release caller c is in the middle of

ledgerVars == <<lotOrder, remaining, reserved, ledger, call>>

Entry == [type : {"GRANT", "RESERVE", "SETTLE", "RELEASE"},
          job : Jobs \cup {NoJob}, lot : Lots, amount : Nat]

Call == [op : {"none", "settle", "release"}, phase : {"read", "write"},
         job : Jobs \cup {NoJob}]

NoCall == [op |-> "none", phase |-> "read", job |-> NoJob]

LedgerInit ==
  /\ lotOrder = <<>>
  /\ remaining = [l \in Lots |-> 0]
  /\ reserved = [l \in Lots |-> 0]
  /\ ledger = {}
  /\ call = [c \in Callers |-> NoCall]

EntriesOf(type) == {e \in ledger : e.type = type}
HasEntry(type, j) == \E e \in ledger : e.type = type /\ e.job = j
Reservation(j) == CHOOSE e \in ledger : e.type = "RESERVE" /\ e.job = j

-----------------------------------------------------------------------------
(***************************************************************************)
(* Grants and balances.                                                    *)
(***************************************************************************)

\* Existing lots are rows with a positive remaining amount, in the order of
\* the reservation query; no lot has an expiry date today.
Granted == Range(lotOrder)
Eligible(l) == l \in Granted /\ remaining[l] > 0
AvailableIgnoringReserved(l) == IF Eligible(l) THEN remaining[l] ELSE 0
Available(l) == IF Eligible(l) /\ remaining[l] > reserved[l]
                  THEN remaining[l] - reserved[l]
                  ELSE 0
Older(k, l) == \E m, n \in DOMAIN lotOrder :
                 m < n /\ lotOrder[m] = k /\ lotOrder[n] = l

\* A one-time sponsored grant: the lot and its GRANT entry in one transaction.
\* The lot's unique key makes a concurrent second grant lose and reread.
EnsureSponsoredGrant(l) ==
  /\ l \notin Granted
  /\ lotOrder' = Append(lotOrder, l)
  /\ remaining' = [remaining EXCEPT ![l] = GrantAmount[l]]
  /\ ledger' = ledger \cup
       {[type |-> "GRANT", job |-> NoJob, lot |-> l, amount |-> GrantAmount[l]]}
  /\ UNCHANGED <<reserved, call>>

AvailableBalanceIgnoringReserved ==
  SumFunction([l \in {k \in Lots : Eligible(k)} |-> remaining[l]])

\* The balance quoted to the member; unlike a reservation it also adds the
\* lots whose reserved amount exceeds the remaining one.
AvailableBalance ==
  SumFunction([l \in {k \in Lots : Eligible(k)} |-> remaining[l] - reserved[l]])

-----------------------------------------------------------------------------
(***************************************************************************)
(* Reservation, inside the transaction that creates the job: the lots are  *)
(* locked, so reading the balances and taking from them is one step.       *)
(***************************************************************************)

\* take is what the loop over the ordered lots allocates: it fills a lot
\* before it touches the next one, and stops at the amount needed.
Allocates(take, amount) ==
  /\ SumFunction(take) = amount
  /\ \A l \in Lots : take[l] <= Available(l)
  /\ \A k, l \in Lots :
       Older(k, l) /\ take[l] > 0 => take[k] = Available(k)

IsPrimary(l, take) == take[l] > 0 /\ \A k \in Lots : take[k] > 0 => ~Older(k, l)

\* Every allocation is added to its lot, and the single RESERVE entry names
\* the first lot and the total.
Reserve(j, amount) ==
  /\ ~HasEntry("RESERVE", j)
  /\ \E take \in [Lots -> 0..amount], primary \in Lots :
       /\ Allocates(take, amount)
       /\ IsPrimary(primary, take)
       /\ reserved' = [l \in Lots |-> reserved[l] + take[l]]
       /\ ledger' = ledger \cup
            {[type |-> "RESERVE", job |-> j, lot |-> primary, amount |-> amount]}
  /\ UNCHANGED <<lotOrder, remaining, call>>

-----------------------------------------------------------------------------
(***************************************************************************)
(* Settling and releasing.                                                 *)
(***************************************************************************)
Begin(op, j) == [op |-> op, phase |-> "read", job |-> j]

\* A caller enters settleJobReservation or releaseJobReservation.
BeginCall(c, op, j) ==
  /\ call[c] = NoCall
  /\ call' = [call EXCEPT ![c] = Begin(op, j)]
  /\ UNCHANGED <<lotOrder, remaining, reserved, ledger>>

\* A settle returns on an existing SETTLE, returns null without a RESERVE and
\* throws on a RELEASE; a release returns on an existing RELEASE or SETTLE and
\* returns null without a RESERVE.  Only a held reservation goes on to the write.
HeldUnlessSettled(j) == HasEntry("RESERVE", j) /\ ~HasEntry("SETTLE", j)
Held(j) == HasEntry("RESERVE", j) /\ ~HasEntry("SETTLE", j) /\ ~HasEntry("RELEASE", j)

ReadKeys(c) ==
  /\ call[c] # NoCall /\ call[c].phase = "read"
  /\ call' = [call EXCEPT ![c] =
                IF Held(call[c].job) THEN [@ EXCEPT !.phase = "write"] ELSE NoCall]
  /\ UNCHANGED <<lotOrder, remaining, reserved, ledger>>

\* A write whose key exists by now rolls back.
DuplicateKey(c) ==
  /\ call[c].phase = "write"
  /\ \/ call[c].op = "settle" /\ HasEntry("SETTLE", call[c].job)
     \/ call[c].op = "release" /\ HasEntry("RELEASE", call[c].job)
  /\ call' = [call EXCEPT ![c] = NoCall]
  /\ UNCHANGED <<lotOrder, remaining, reserved, ledger>>

\* The whole amount of an entry is taken from the one lot the entry names.
Close(c, op, entry, spent) ==
  /\ call[c].op = op /\ call[c].phase = "write"
  /\ reserved' = [reserved EXCEPT ![entry.lot] = @ - entry.amount]
  /\ remaining' = [remaining EXCEPT ![entry.lot] = @ - spent]
  /\ ledger' = ledger \cup {entry}
  /\ call' = [call EXCEPT ![c] = NoCall]
  /\ UNCHANGED lotOrder

Closing(c, type) == [Reservation(call[c].job) EXCEPT !.type = type]

SettleWriteTwice(c) == Close(c, "settle", Closing(c, "SETTLE"), Closing(c, "SETTLE").amount)
SettleWrite(c) ==
  /\ ~HasEntry("SETTLE", call[c].job)
  /\ Close(c, "settle", Closing(c, "SETTLE"), Closing(c, "SETTLE").amount)

ReleaseWriteOldestLot(c) ==
  /\ ~HasEntry("RELEASE", call[c].job)
  /\ Close(c, "release", [Closing(c, "RELEASE") EXCEPT !.lot = lotOrder[1]], 0)
ReleaseWrite(c) ==
  /\ ~HasEntry("RELEASE", call[c].job)
  /\ Close(c, "release", Closing(c, "RELEASE"), 0)

\* The calling process dies, or a statement fails: nothing is committed.
CallDies(c) ==
  /\ call[c] # NoCall
  /\ call' = [call EXCEPT ![c] = NoCall]
  /\ UNCHANGED <<lotOrder, remaining, reserved, ledger>>

CallStep(c) ==
  ReadKeys(c) \/ DuplicateKey(c) \/ SettleWrite(c) \/ ReleaseWrite(c)

LedgerNext ==
  \/ \E l \in Lots : EnsureSponsoredGrant(l)
  \/ \E j \in Jobs, amount \in Costs : Reserve(j, amount)
  \/ \E c \in Callers, op \in {"settle", "release"}, j \in Jobs : BeginCall(c, op, j)
  \/ \E c \in Callers : CallStep(c) \/ CallDies(c)

LedgerSpec == LedgerInit /\ [][LedgerNext]_ledgerVars

-----------------------------------------------------------------------------
(***************************************************************************)
(* Correctness.                                                            *)
(***************************************************************************)
LedgerTypeOK ==
  /\ lotOrder \in Seq(Lots)
  /\ remaining \in [Lots -> Int]
  /\ reserved \in [Lots -> Int]
  /\ ledger \subseteq Entry
  /\ call \in [Callers -> Call]

\* A job is settled or released only for exactly what its RESERVE entry
\* holds: the same lot and the same amount (settleJobReservation and
\* releaseJobReservation copy them from the entry they read).
ClosesWhatWasReserved ==
  \A e \in ledger : e.type \in {"SETTLE", "RELEASE"} =>
    [e EXCEPT !.type = "RESERVE"] \in ledger

Total(type) == LET es == EntriesOf(type) IN SumFunction([e \in es |-> e.amount])

\* The lots of the member, added up, are what the append-only ledger says:
\* nothing is taken twice, nothing is taken by a transaction that rolled
\* back, whatever the interleaving of settles and releases and on whichever
\* lots a reservation was spread.
WalletMatchesLedger ==
  /\ SumFunction(remaining) = Total("GRANT") - Total("SETTLE")
  /\ SumFunction(reserved) = Total("RESERVE") - Total("SETTLE") - Total("RELEASE")

\* docs/credits.md: success settles once, cancel and max-attempt failure
\* release once.  A job ends in one of the two.
SettledOrReleased ==
  \A j \in Jobs : ~(HasEntry("SETTLE", j) /\ HasEntry("RELEASE", j))

\* How a reservation ended is final, but for the calls that had looked at the
\* ledger before and will not look again: nothing else closes it a second
\* time (the reads of settleJobReservation and releaseJobReservation).
Closed(j) == HasEntry("SETTLE", j) \/ HasEntry("RELEASE", j)
AboutToClose(j) == \E c \in Callers : call[c].phase = "write" /\ call[c].job = j
Ending(j) == {e \in ledger : e.job = j /\ e.type \in {"SETTLE", "RELEASE"}}
EndingIsFinal ==
  [][\A j \in Jobs : Closed(j) /\ ~AboutToClose(j)
       => Ending(j)' = Ending(j) /\ ~AboutToClose(j)']_ledgerVars

\* As long as no job was both settled and released, the member cannot hold
\* more reservations than credits, however many jobs are created at once and
\* however the reservations were spread over the lots.
WalletSolvent ==
  SettledOrReleased =>
    /\ 0 <= SumFunction(reserved)
    /\ SumFunction(reserved) <= SumFunction(remaining)

\* Each lot by itself is in range, as the reservation loop, which takes from
\* every lot no more than it has, intends.
LotsInRange ==
  \A l \in Lots : 0 <= reserved[l] /\ reserved[l] <= remaining[l]

\* The quote and the reservation agree: the balance shown to the member covers
\* an amount exactly when reserving it succeeds (quoteProfilePrepare's
\* canAfford against reserveCreditsForJob).
QuoteIsHonest ==
  \A amount \in Costs :
    AvailableBalance >= amount <=> \E take \in [Lots -> 0..amount] : Allocates(take, amount)

=============================================================================
