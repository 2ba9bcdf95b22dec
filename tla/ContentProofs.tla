---------------------------- MODULE ContentProofs ----------------------------
(***************************************************************************)
(* Theorems of Content: its types, that what waits for review is in the    *)
(* moderators' queue, that what is published was let through, and that the *)
(* day's quota is kept.                                                    *)
(*                                                                         *)
(* One inductive invariant carries them all.  What it says of an item, of  *)
(* a request and of a moderator is apart, so that a step which touches one *)
(* item, or one request, is shown to leave the others as they are.         *)
(***************************************************************************)
EXTENDS Content, TLAPS, FiniteSetTheorems

\* An item: its revisions are numbered up to the row's, a hold is of one of them,
\* and the revision published was let through.
ItemOk(i) ==
  /\ revision[i] \in [1..Revisions[i] -> Texts \cup {NoText}]
  /\ hold[i] \in [1..Revisions[i] -> {"none", "HELD", "RELEASED"}]
  /\ \A n \in 1..Revisions[i] : /\ revision[i][n] # NoText <=> n <= row[i].cur
                                /\ hold[i][n] # "none" => n <= row[i].cur
  /\ row[i].cur <= Revisions[i] /\ row[i].pub <= row[i].cur
  /\ row[i].status = "none" => row[i] = NoRow
  /\ row[i].status # "none" => row[i].text \in Texts /\ kind[i] \in Kinds
  /\ kind[i] # "faq" /\ row[i].status = "PENDING_REVIEW" =>
       row[i].cur # 0 /\ hold[i][row[i].cur] = "HELD"
  /\ row[i].pub # 0 =>
       Verdict[revision[i][row[i].pub]] = "clear" \/ hold[i][row[i].pub] # "none"

\* A request: it read a row that existed, whose revisions can only have grown.
CallOk(s) ==
  LET c == call[s]
      i == c.item
  IN  c.pc # "idle" =>
        /\ i \in Items /\ row[i].status # "none" /\ c.text \in Texts /\ c.cur <= row[i].cur
        /\ c.pc = "editing" => c.was = "none" /\ (kind[i] = "faq" => c.cur < Revisions[i])
        /\ c.pc \in {"submitting", "counted"} =>
             /\ kind[i] # "faq" /\ (kind[i] = "job" \/ c.key \in Keys)
             /\ c.was = "REMOVED" => kind[i] = "job"
        /\ c.pc \in {"approving", "held"} => kind[i] = "faq"

\* A moderator: the revision has its hold, and once it is published the row
\* waits for review only with a later one.
ModOk(d) ==
  LET m == mod[d]
      i == m.item
  IN  m.pc # "idle" =>
        /\ i \in Items /\ m.rev \in 1..Revisions[i] /\ hold[i][m.rev] # "none"
        /\ m.pc = "mark" /\ kind[i] # "faq" /\ row[i].status = "PENDING_REVIEW" => m.rev < row[i].cur

\* The quota: between the count and the commit there is one request of a kind,
\* and room for its use.
Counting(s, k) == At(s, "counted") /\ kind[call[s].item] = k
QuotaOk ==
  /\ uses \subseteq Kinds \X Keys /\ IsFiniteSet(uses) /\ QuotaKept
  /\ \A s \in Sessions, k \in Kinds \ {"job"} : Counting(s, k) =>
       /\ Cardinality(Counted(k)) < Allowance
       /\ \A r \in Sessions : Counting(r, k) => r = s

Inv ==
  /\ kind \in KindMaps
  /\ row \in [Items -> Row] /\ DOMAIN revision = Items /\ DOMAIN hold = Items
  /\ \A i \in Items : ItemOk(i)
  /\ call \in [Sessions -> Call] /\ \A s \in Sessions : CallOk(s)
  /\ mod \in [Moderators -> Mod] /\ \A d \in Moderators : ModOk(d)
  /\ QuotaOk

LEMMA InvImplies ==
  Inv => TypeOK /\ PendingHasHold /\ PublishedRevisionPassed /\ QuotaKept
<1> SUFFICES ASSUME Inv PROVE TypeOK /\ PendingHasHold /\ PublishedRevisionPassed /\ QuotaKept
  OBVIOUS
<1>1. TypeOK
  BY DEF Inv, TypeOK, ItemOk, QuotaOk
<1>2. PendingHasHold /\ PublishedRevisionPassed
  BY DEF Inv, ItemOk, PendingHasHold, PublishedRevisionPassed
<1> QED BY <1>1, <1>2 DEF Inv, QuotaOk

-----------------------------------------------------------------------------
(***************************************************************************)
(* What a step may do to an item, and what it leaves as it was.            *)
(***************************************************************************)
Grows(i) ==
  /\ row[i].cur <= row'[i].cur
  /\ row[i].status # "none" => row'[i].status # "none"
  /\ kind[i] # "faq" /\ row'[i].status = "PENDING_REVIEW" =>
       row[i].status = "PENDING_REVIEW" \/ row[i].cur < row'[i].cur
  /\ \A n \in 1..Revisions[i] : hold[i][n] # "none" => hold'[i][n] # "none"

ItemSame(i) ==
  kind' = kind /\ row'[i] = row[i] /\ revision'[i] = revision[i] /\ hold'[i] = hold[i]

LEMMA RowType ==
  ASSUME Inv, NEW i \in Items
  PROVE  /\ row[i] \in Row /\ ItemOk(i)
         /\ row[i].cur \in Nat /\ row[i].pub \in Nat /\ Revisions[i] \in Nat \ {0}
BY ContentAssumption DEF Inv, Row, Rev

LEMMA Untouched ==
  ASSUME Inv, NEW i \in Items, ItemSame(i)
  PROVE  ItemOk(i)' /\ Grows(i)
<1>1. ItemOk(i) /\ row[i].cur \in Nat
  BY RowType
<1> QED BY <1>1 DEF ItemSame, ItemOk, Grows

\* Requests and moderators stand on what only grows.
LEMMA CallsKept ==
  ASSUME Inv, kind' = kind, \A i \in Items : Grows(i), row' \in [Items -> Row],
         \A s \in Sessions : call'[s] = call[s] \/ CallOk(s)'
  PROVE  \A s \in Sessions : CallOk(s)'
<1> SUFFICES ASSUME NEW s \in Sessions, call'[s] = call[s]
             PROVE  CallOk(s)'
  OBVIOUS
<1> SUFFICES ASSUME call[s].pc # "idle"
             PROVE  CallOk(s)'
  BY DEF CallOk
<1> DEFINE i == call[s].item
<1>1. CallOk(s) /\ i \in Items
  BY DEF Inv, CallOk
<1>2. row[i].cur \in Nat /\ row'[i].cur \in Nat /\ call[s].cur \in Nat
  BY <1>1 DEF Inv, Row, Rev, Call
<1>3. row[i].cur <= row'[i].cur /\ row'[i].status # "none"
  BY <1>1 DEF Grows, CallOk
<1> QED BY <1>1, <1>2, <1>3 DEF CallOk

LEMMA ModsKept ==
  ASSUME Inv, kind' = kind, \A i \in Items : Grows(i), row' \in [Items -> Row],
         \A d \in Moderators : mod'[d] = mod[d] \/ ModOk(d)'
  PROVE  \A d \in Moderators : ModOk(d)'
<1> SUFFICES ASSUME NEW d \in Moderators, mod'[d] = mod[d]
             PROVE  ModOk(d)'
  OBVIOUS
<1> SUFFICES ASSUME mod[d].pc # "idle"
             PROVE  ModOk(d)'
  BY DEF ModOk
<1> DEFINE i == mod[d].item
           n == mod[d].rev
<1>1. ModOk(d) /\ i \in Items /\ n \in 1..Revisions[i]
  BY DEF Inv, ModOk
<1>2. row[i].cur \in Nat /\ row'[i].cur \in Nat /\ n \in Nat /\ n <= row[i].cur
  BY <1>1, RowType DEF Inv, Row, Rev, Mod, ItemOk, ModOk
<1>3. hold'[i][n] # "none"
  BY <1>1 DEF Grows, ModOk
<1>4. ASSUME mod[d].pc = "mark", kind[i] # "faq", row'[i].status = "PENDING_REVIEW"
      PROVE  n < row'[i].cur
  BY <1>1, <1>2, <1>4 DEF Grows, ModOk
<1> QED BY <1>1, <1>3, <1>4 DEF ModOk

\* The quota is counted as before when nobody uses it, or starts or stops to count.
LEMMA QuotaSame ==
  ASSUME Inv, kind' = kind, uses' = uses,
         \A s \in Sessions : call'[s] = call[s] \/ call'[s].pc # "counted"
  PROVE  QuotaOk'
<1>1. \A k : Counted(k)' = Counted(k)
  BY DEF Counted
<1>2. \A s \in Sessions, k \in Kinds : Counting(s, k)' => Counting(s, k)
  BY DEF Counting, At
<1> QED BY <1>1, <1>2 DEF Inv, QuotaOk, QuotaKept

\* A step that writes one item.
LEMMA ItemWritten ==
  ASSUME Inv, NEW i \in Items, ItemOk(i)', Grows(i),
         row' \in [Items -> Row], DOMAIN revision' = Items, DOMAIN hold' = Items,
         \A j \in Items \ {i} : ItemSame(j),
         kind' = kind, QuotaOk',
         call' \in [Sessions -> Call], mod' \in [Moderators -> Mod],
         \A s \in Sessions : call'[s] = call[s] \/ CallOk(s)',
         \A d \in Moderators : mod'[d] = mod[d] \/ ModOk(d)'
  PROVE  Inv'
<1>1. \A j \in Items : ItemOk(j)' /\ Grows(j)
  BY Untouched
<1>2. \A s \in Sessions : CallOk(s)'
  BY <1>1, CallsKept
<1>3. \A d \in Moderators : ModOk(d)'
  BY <1>1, ModsKept
<1> QED BY <1>1, <1>2, <1>3 DEF Inv

\* The same, when no request starts to count or uses the quota.
LEMMA OneItemWritten ==
  ASSUME Inv, NEW i \in Items, ItemOk(i)', Grows(i),
         row' \in [Items -> Row], DOMAIN revision' = Items, DOMAIN hold' = Items,
         \A j \in Items \ {i} : ItemSame(j),
         kind' = kind, uses' = uses,
         call' \in [Sessions -> Call], mod' \in [Moderators -> Mod],
         \A s \in Sessions : call'[s] = call[s] \/ (call'[s].pc # "counted" /\ CallOk(s)'),
         \A d \in Moderators : mod'[d] = mod[d] \/ ModOk(d)'
  PROVE  Inv'
<1>1. QuotaOk'
  BY QuotaSame
<1> QED BY <1>1, ItemWritten

\* A step that writes none.
LEMMA NoItemWritten ==
  ASSUME Inv, UNCHANGED <<kind, row, revision, hold>>, QuotaOk',
         call' \in [Sessions -> Call], mod' \in [Moderators -> Mod],
         \A s \in Sessions : call'[s] = call[s] \/ CallOk(s)',
         \A d \in Moderators : mod'[d] = mod[d] \/ ModOk(d)'
  PROVE  Inv'
<1>1. \A j \in Items : ItemOk(j)' /\ Grows(j)
  BY Untouched DEF ItemSame
<1>2. row' \in [Items -> Row]
  BY DEF Inv
<1>3. \A s \in Sessions : CallOk(s)'
  BY <1>1, <1>2, CallsKept
<1>4. \A d \in Moderators : ModOk(d)'
  BY <1>1, <1>2, ModsKept
<1> QED BY <1>1, <1>2, <1>3, <1>4 DEF Inv

\* Where a request is when it ends, and a moderator when done.
LEMMA AtRest ==
  /\ Idle \in Call /\ Idle.pc = "idle" /\ Away \in Mod /\ Away.pc = "idle"
  /\ NoRow \in Row /\ NoRow.status = "none" /\ NoRow.cur = 0 /\ NoRow.pub = 0
BY DEF Idle, Call, Away, Mod, Rev, Statuses, NoRow, Row

LEMMA CallEnds ==
  ASSUME Inv, NEW s \in Sessions, Ends(s)
  PROVE  /\ call' \in [Sessions -> Call]
         /\ \A r \in Sessions : call'[r] = call[r] \/ (call'[r].pc # "counted" /\ CallOk(r)')
<1>1. call \in [Sessions -> Call]
  BY DEF Inv
<1>2. \A r \in Sessions : call'[r] = call[r] \/ call'[r] = Idle
  BY <1>1 DEF Ends
<1> QED BY <1>1, <1>2, AtRest DEF Ends, CallOk

\* A row written in one place: the others are untouched.
LEMMA RowWritten ==
  ASSUME Inv, NEW i \in Items, NEW r \in Row, row' = [row EXCEPT ![i] = r]
  PROVE  row' \in [Items -> Row] /\ row'[i] = r /\ \A j \in Items \ {i} : row'[j] = row[j]
BY DEF Inv

LEMMA RevisionWritten ==
  ASSUME Inv, NEW i \in Items, NEW n \in 1..Revisions[i], NEW t \in Texts,
         revision' = [revision EXCEPT ![i][n] = t]
  PROVE  /\ DOMAIN revision' = Items
         /\ revision'[i] = [revision[i] EXCEPT ![n] = t]
         /\ revision'[i] \in [1..Revisions[i] -> Texts \cup {NoText}]
         /\ revision'[i][n] = t
         /\ \A m \in 1..Revisions[i] : m # n => revision'[i][m] = revision[i][m]
         /\ \A j \in Items \ {i} : revision'[j] = revision[j]
<1>1. revision[i] \in [1..Revisions[i] -> Texts \cup {NoText}] /\ DOMAIN revision = Items
  BY DEF Inv, ItemOk
<1> QED BY <1>1

\* A row whose revision and publication stay, in a status that is no wait for
\* review unless it was one, keeps the item in order.
LEMMA StatusWritten ==
  ASSUME Inv, NEW i \in Items, row[i].status # "none",
         NEW status \in Statuses \ {"none"}, NEW text \in Texts, NEW approved \in Nat,
         status # "PENDING_REVIEW" \/ kind[i] = "faq",
         row' = [row EXCEPT ![i] = [row[i] EXCEPT !.status = status, !.text = text,
                                                  !.approved = approved]],
         kind' = kind, revision' = revision, hold' = hold
  PROVE  /\ row' \in [Items -> Row] /\ \A j \in Items \ {i} : ItemSame(j)
         /\ ItemOk(i)' /\ Grows(i)
<1> DEFINE r == [row[i] EXCEPT !.status = status, !.text = text, !.approved = approved]
<1>1. /\ r \in Row /\ r.status = status /\ r.text = text
      /\ r.cur = row[i].cur /\ r.pub = row[i].pub
  BY RowType DEF Row, Rev
<1> HIDE DEF r
<1>2. row' \in [Items -> Row] /\ row'[i] = r /\ \A j \in Items \ {i} : row'[j] = row[j]
  BY <1>1, RowWritten DEF r
<1>3. ItemOk(i) /\ row[i].cur \in Nat
  BY RowType
<1>4. ItemOk(i)'
  BY <1>1, <1>2, <1>3 DEF ItemOk
<1>5. Grows(i)
  BY <1>1, <1>2, <1>3 DEF Grows
<1> QED BY <1>2, <1>4, <1>5 DEF ItemSame

-----------------------------------------------------------------------------
(***************************************************************************)
(* The steps that only read.                                               *)
(***************************************************************************)
LEMMA NewCall ==
  ASSUME Inv, NEW s \in Sessions, NEW c \in Call, c.pc # "counted",
         call' = [call EXCEPT ![s] = c], Reads, CallOk(s)'
  PROVE  Inv'
<1>1. call' \in [Sessions -> Call] /\ \A r \in Sessions \ {s} : call'[r] = call[r]
  BY DEF Inv
<1>2. call'[s] = c
  BY DEF Inv
<1>3. QuotaOk'
  BY <1>1, <1>2, QuotaSame DEF Reads
<1>4. mod' \in [Moderators -> Mod] /\ \A d \in Moderators : mod'[d] = mod[d]
  BY DEF Inv, Reads
<1> QED BY <1>1, <1>3, <1>4, NoItemWritten DEF Reads

LEMMA ReadingKeeps ==
  ASSUME Inv, NEW s \in Sessions, NEW i \in Items, NEW t \in Texts, NEW k \in Keys \cup {NoKey},
         BeginEdit(s, i, t) \/ BeginEditFaq(s, i, t) \/ BeginSubmit(s, i, k) \/ BeginApprove(s, i)
  PROVE  Inv'
<1>0. /\ row[i] \in Row /\ ItemOk(i) /\ row[i].cur \in Nat /\ row[i].pub \in Nat
      /\ Revisions[i] \in Nat
  BY RowType
<1>1. CASE BeginEdit(s, i, t)
  <2> DEFINE c == [Idle EXCEPT !.pc = "editing", !.item = i, !.text = t]
  <2>1. c \in Call /\ c = [Idle EXCEPT !.pc = "editing", !.item = i, !.text = t]
    BY DEF Idle, Call, Rev, Statuses
  <2>2. /\ c.pc = "editing" /\ c.item = i /\ c.text = t /\ c.cur = 0 /\ c.was = "none"
    BY DEF Idle
  <2> HIDE DEF c
  <2>3. call' = [call EXCEPT ![s] = c] /\ Reads /\ kind[i] # "faq" /\ row[i].status # "none"
    BY <1>1 DEF BeginEdit, c
  <2>4. call'[s] = c
    BY <2>3 DEF Inv
  <2>5. CallOk(s)'
    BY <1>0, <2>2, <2>3, <2>4 DEF CallOk, Reads
  <2> QED BY <2>1, <2>2, <2>3, <2>5, NewCall
<1>2. CASE BeginEditFaq(s, i, t)
  <2> DEFINE c == [Idle EXCEPT !.pc = "editing", !.item = i, !.cur = row[i].cur, !.text = t]
  <2>1. c \in Call
    BY <1>0 DEF Idle, Call, Rev, Statuses
  <2>2. c.pc = "editing" /\ c.item = i /\ c.text = t /\ c.cur = row[i].cur /\ c.was = "none"
    BY DEF Idle
  <2> HIDE DEF c
  <2>3. /\ call' = [call EXCEPT ![s] = c] /\ Reads /\ row[i].status # "none"
        /\ row[i].cur < Revisions[i]
    BY <1>2 DEF BeginEditFaq, c
  <2>4. call'[s] = c
    BY <2>3 DEF Inv
  <2>5. CallOk(s)'
    BY <1>0, <2>2, <2>3, <2>4 DEF CallOk, Reads
  <2> QED BY <2>1, <2>2, <2>3, <2>5, NewCall
<1>3. CASE BeginSubmit(s, i, k)
  <2> DEFINE c == [pc |-> "submitting", item |-> i, text |-> row[i].text, cur |-> row[i].cur,
                   pub |-> row[i].pub, was |-> row[i].status, key |-> k]
  <2>1. c \in Call
    BY <1>0 DEF Call, Row
  <2>2. /\ c.pc = "submitting" /\ c.item = i /\ c.text = row[i].text /\ c.cur = row[i].cur
        /\ c.was = row[i].status /\ c.key = k
    OBVIOUS
  <2> HIDE DEF c
  <2>3. /\ call' = [call EXCEPT ![s] = c] /\ Reads /\ row[i].status # "none" /\ kind[i] # "faq"
        /\ kind[i] = "job" <=> k = NoKey
        /\ row[i].status = "REMOVED" => kind[i] = "job"
    BY <1>3 DEF BeginSubmit, Submits, c
  <2>4. call'[s] = c
    BY <2>3 DEF Inv
  <2>5. row[i].text \in Texts
    BY <1>0, <2>3 DEF ItemOk
  <2>6. CallOk(s)'
    BY <1>0, <2>2, <2>3, <2>4, <2>5 DEF CallOk, Reads
  <2> QED BY <2>1, <2>2, <2>3, <2>6, NewCall
<1>4. CASE BeginApprove(s, i)
  <2> DEFINE c == [Idle EXCEPT !.pc = "approving", !.item = i, !.cur = row[i].cur, !.text = row[i].text]
  <2>1. c \in Call
    BY <1>0 DEF Idle, Call, Row, Rev, Statuses
  <2>2. c.pc = "approving" /\ c.item = i /\ c.text = row[i].text /\ c.cur = row[i].cur
    BY DEF Idle
  <2> HIDE DEF c
  <2>3. call' = [call EXCEPT ![s] = c] /\ Reads /\ row[i].status # "none" /\ kind[i] = "faq"
    BY <1>4 DEF BeginApprove, c
  <2>4. call'[s] = c /\ row[i].text \in Texts
    BY <1>0, <2>3 DEF Inv, ItemOk
  <2>5. CallOk(s)'
    BY <1>0, <2>2, <2>3, <2>4 DEF CallOk, Reads
  <2> QED BY <2>1, <2>2, <2>3, <2>5, NewCall
<1> QED BY <1>1, <1>2, <1>3, <1>4

\* The count finds the lock free, so nobody of the kind has counted.
LEMMA CountKeeps ==
  ASSUME Inv, NEW s \in Sessions, Count(s)
  PROVE  Inv'
<1> DEFINE c == [call[s] EXCEPT !.pc = "counted"]
           i == call[s].item
<1>0. /\ call[s] \in Call /\ CallOk(s) /\ call[s].pc = "submitting"
      /\ call' = [call EXCEPT ![s].pc = "counted"] /\ Reads /\ Room(kind[i])
  BY DEF Inv, Count, At
<1>1. /\ c \in Call /\ c.pc = "counted" /\ c.item = i /\ c.text = call[s].text
      /\ c.cur = call[s].cur /\ c.was = call[s].was /\ c.key = call[s].key
  BY <1>0 DEF Call
<1>2. call'[s] = c /\ \A r \in Sessions \ {s} : call'[r] = call[r]
  BY <1>0 DEF Inv
<1>3. call' \in [Sessions -> Call]
  BY <1>0, <1>1 DEF Inv
<1>4. mod' = mod /\ UNCHANGED <<kind, row, revision, hold, uses>>
  BY <1>0 DEF Reads
<1> HIDE DEF c
<1>5. CallOk(s)'
  BY <1>0, <1>1, <1>2, <1>4 DEF CallOk
<1>6. QuotaOk'
  <2>1. \A k : Counted(k)' = Counted(k)
    BY <1>4 DEF Counted
  <2>2. \A r \in Sessions \ {s}, k \in Kinds : Counting(r, k)' <=> Counting(r, k)
    BY <1>2, <1>4 DEF Counting, At
  <2>3. \A k \in Kinds \ {"job"} : Counting(s, k)' =>
          /\ Cardinality(Counted(k)) < Allowance
          /\ \A r \in Sessions : ~Counting(r, k)
    BY <1>0, <1>1, <1>2, <1>4 DEF Counting, Room, Locked
  <2> QED BY <1>4, <2>1, <2>2, <2>3 DEF Inv, QuotaOk, QuotaKept
<1>7. mod' \in [Moderators -> Mod] /\ \A d \in Moderators : mod'[d] = mod[d]
  BY <1>4 DEF Inv
<1> QED BY <1>2, <1>3, <1>4, <1>5, <1>6, <1>7, NoItemWritten

LEMMA AbortKeeps ==
  ASSUME Inv, NEW s \in Sessions, Abort(s)
  PROVE  Inv'
<1>1. Ends(s) /\ Reads
  BY DEF Abort
<1>2. QuotaOk'
  BY <1>1, CallEnds, QuotaSame DEF Reads
<1>3. mod' \in [Moderators -> Mod] /\ \A d \in Moderators : mod'[d] = mod[d]
  BY <1>1 DEF Inv, Reads
<1> QED BY <1>1, <1>2, <1>3, CallEnds, NoItemWritten DEF Reads

-----------------------------------------------------------------------------
(***************************************************************************)
(* The steps that write an item.                                           *)
(***************************************************************************)
LEMMA CreateKeeps ==
  ASSUME Inv, NEW s \in Sessions, NEW i \in Items, NEW t \in Texts, CreateDraft(s, i, t)
  PROVE  Inv'
<1> DEFINE r == [NoRow EXCEPT !.status = "DRAFT", !.text = t]
<1>1. /\ r \in Row /\ r.status = "DRAFT" /\ r.text = t /\ r.cur = 0 /\ r.pub = 0
  BY DEF NoRow, Row, Rev, Statuses
<1>2. /\ row' = [row EXCEPT ![i] = r] /\ UNCHANGED <<kind, revision, hold, uses, call, mod>>
      /\ row[i].status = "none" /\ kind[i] \in Kinds
  BY DEF CreateDraft
<1> HIDE DEF r
<1>3. row' \in [Items -> Row] /\ row'[i] = r /\ \A j \in Items \ {i} : row'[j] = row[j]
  BY <1>1, <1>2, RowWritten
<1>4. ItemOk(i) /\ row[i].cur = 0 /\ Revisions[i] \in Nat
  BY <1>2, RowType, AtRest DEF ItemOk
<1>5. ItemOk(i)' /\ Grows(i)
  BY <1>1, <1>2, <1>3, <1>4 DEF ItemOk, Grows
<1> QED BY <1>2, <1>3, <1>5, OneItemWritten DEF ItemSame, Inv

LEMMA EditKeeps ==
  ASSUME Inv, NEW s \in Sessions, Edit(s)
  PROVE  Inv'
<1>1. /\ call[s] \in Call /\ CallOk(s) /\ call[s].pc = "editing" /\ Ends(s)
      /\ row' = [row EXCEPT ![call[s].item].text = call[s].text, ![call[s].item].status = "DRAFT"]
      /\ kind' = kind /\ revision' = revision /\ hold' = hold /\ uses' = uses /\ mod' = mod
  BY DEF Edit, At, Inv
<1>2. PICK i \in Items, t \in Texts :
        /\ i = call[s].item /\ t = call[s].text /\ row[i].status # "none"
        /\ row' = [row EXCEPT ![i].text = t, ![i].status = "DRAFT"]
  BY <1>1 DEF CallOk
<1>3. /\ row[i] \in Row /\ row[i].approved \in Nat /\ row[i].status # "none"
      /\ kind' = kind /\ revision' = revision /\ hold' = hold
  BY <1>1, <1>2, RowType DEF Row, Rev
<1>4. PICK status \in {"DRAFT"} : row' = [row EXCEPT ![i].text = t, ![i].status = status]
  BY <1>2
<1>5. row' = [row EXCEPT ![i] = [row[i] EXCEPT !.status = status, !.text = t,
                                               !.approved = row[i].approved]]
  BY <1>3, <1>4 DEF Inv, Row
<1>6. /\ row' \in [Items -> Row] /\ \A j \in Items \ {i} : ItemSame(j)
      /\ ItemOk(i)' /\ Grows(i)
  BY <1>3, <1>5, StatusWritten DEF Statuses
<1> QED BY <1>1, <1>6, CallEnds, OneItemWritten DEF Inv

LEMMA RemoveKeeps ==
  ASSUME Inv, NEW i \in Items, Remove(i) \/ CloseJob(i)
  PROVE  Inv'
<1>1. PICK status \in {"REMOVED", "CLOSED"} : row' = [row EXCEPT ![i].status = status]
  BY DEF Remove, CloseJob
<1>2. row[i].status # "none" /\ UNCHANGED <<kind, revision, hold, uses, call, mod>>
  BY DEF Remove, CloseJob
<1>3. row[i] \in Row /\ row[i].approved \in Nat /\ row[i].text \in Texts
  BY <1>2, RowType DEF Row, Rev, ItemOk
<1>4. row' = [row EXCEPT ![i] = [row[i] EXCEPT !.status = status, !.text = row[i].text,
                                               !.approved = row[i].approved]]
  BY <1>1, <1>3 DEF Inv, Row
<1>5. /\ row' \in [Items -> Row] /\ \A j \in Items \ {i} : ItemSame(j)
      /\ ItemOk(i)' /\ Grows(i)
  BY <1>2, <1>3, <1>4, StatusWritten DEF Statuses
<1> QED BY <1>2, <1>5, OneItemWritten DEF Inv

LEMMA CreateFaqKeeps ==
  ASSUME Inv, NEW s \in Sessions, NEW i \in Items, NEW t \in Texts, CreateFaq(s, i, t)
  PROVE  Inv'
<1> DEFINE r == [NoRow EXCEPT !.status = "DRAFT", !.text = t, !.cur = 1]
<1>1. /\ r \in Row /\ r.status = "DRAFT" /\ r.text = t /\ r.cur = 1 /\ r.pub = 0
  BY DEF NoRow, Row, Rev, Statuses
<1>2. /\ row' = [row EXCEPT ![i] = r] /\ UNCHANGED <<kind, hold, uses, call, mod>>
      /\ revision' = [revision EXCEPT ![i][1] = t]
      /\ row[i].status = "none" /\ kind[i] = "faq"
  BY DEF CreateFaq
<1> HIDE DEF r
<1>3. row' \in [Items -> Row] /\ row'[i] = r /\ \A j \in Items \ {i} : row'[j] = row[j]
  BY <1>1, <1>2, RowWritten
<1>4. ItemOk(i) /\ row[i].cur = 0 /\ Revisions[i] \in Nat \ {0} /\ 1 \in 1..Revisions[i]
  BY <1>2, RowType, AtRest DEF ItemOk
<1>5. /\ DOMAIN revision' = Items
      /\ revision'[i] \in [1..Revisions[i] -> Texts \cup {NoText}] /\ revision'[i][1] = t
      /\ \A m \in 1..Revisions[i] : m # 1 => revision'[i][m] = revision[i][m]
      /\ \A j \in Items \ {i} : revision'[j] = revision[j]
  <2>1. revision[i] \in [1..Revisions[i] -> Texts \cup {NoText}] /\ DOMAIN revision = Items
    BY <1>4 DEF Inv, ItemOk
  <2> QED BY <1>2, <1>4, <2>1
<1>6. t # NoText
  BY ContentAssumption
<1>7. \A n \in 1..Revisions[i] : /\ revision'[i][n] # NoText <=> n <= 1
                                 /\ hold'[i][n] = "none"
  BY <1>2, <1>4, <1>5, <1>6 DEF ItemOk
<1>8. ItemOk(i)'
  BY <1>1, <1>2, <1>3, <1>4, <1>5, <1>7 DEF ItemOk, Kinds
<1>9. Grows(i)
  BY <1>1, <1>2, <1>3, <1>4 DEF Grows
<1> QED BY <1>2, <1>3, <1>5, <1>8, <1>9, OneItemWritten DEF ItemSame, Inv

LEMMA EditFaqKeeps ==
  ASSUME Inv, NEW s \in Sessions, EditFaq(s)
  PROVE  Inv'
<1>1. /\ call[s] \in Call /\ CallOk(s) /\ call[s].pc = "editing" /\ Ends(s)
      /\ call[s].cur \in Nat /\ call[s].cur + 1 \in Nat
      /\ kind' = kind /\ hold' = hold /\ uses' = uses /\ mod' = mod
  BY DEF EditFaq, At, Inv, Call, Rev
<1>2. PICK i \in Items, t \in Texts, n \in Nat :
        /\ kind[i] = "faq" /\ row[i].status # "none"
        /\ n = call[s].cur + 1 /\ call[s].cur <= row[i].cur /\ n <= Revisions[i]
        /\ revision[i][n] = NoText /\ revision' = [revision EXCEPT ![i][n] = t]
        /\ row' = [row EXCEPT ![i] =
                     [status |-> "DRAFT", text |-> t, cur |-> n, pub |-> 0, approved |-> 0]]
  <2>1. /\ call[s].item \in Items /\ call[s].text \in Texts /\ kind[call[s].item] = "faq"
        /\ row[call[s].item].status # "none" /\ call[s].cur <= row[call[s].item].cur
        /\ call[s].cur < Revisions[call[s].item] /\ Revisions[call[s].item] \in Nat
    BY <1>1, RowType DEF EditFaq, CallOk
  <2>2. call[s].cur + 1 <= Revisions[call[s].item]
    BY <1>1, <2>1
  <2> QED BY <1>1, <2>1, <2>2 DEF EditFaq
<1> DEFINE r == [status |-> "DRAFT", text |-> t, cur |-> n, pub |-> 0, approved |-> 0]
<1>3. /\ ItemOk(i) /\ row[i].cur \in Nat /\ Revisions[i] \in Nat /\ n \in 1..Revisions[i]
      /\ t # NoText
  BY <1>1, <1>2, RowType, ContentAssumption
<1>4. n = row[i].cur + 1
  <2>1. ~(n <= row[i].cur)
    BY <1>2, <1>3 DEF ItemOk
  <2> QED BY <1>1, <1>2, <1>3, <2>1
<1>5. r \in Row /\ r.status = "DRAFT" /\ r.text = t /\ r.cur = n /\ r.pub = 0
  BY DEF Row, Rev, Statuses
<1>6. row' \in [Items -> Row] /\ row'[i] = r /\ \A j \in Items \ {i} : row'[j] = row[j]
  BY <1>2, <1>5, RowWritten
<1> HIDE DEF r
<1>7. /\ DOMAIN revision' = Items
      /\ revision'[i] \in [1..Revisions[i] -> Texts \cup {NoText}] /\ revision'[i][n] = t
      /\ \A m \in 1..Revisions[i] : m # n => revision'[i][m] = revision[i][m]
      /\ \A j \in Items \ {i} : revision'[j] = revision[j]
  BY <1>2, <1>3, RevisionWritten
<1>8. \A m \in 1..Revisions[i] : /\ revision'[i][m] # NoText <=> m <= n
                                 /\ hold'[i][m] # "none" => m <= n
  <2> SUFFICES ASSUME NEW m \in 1..Revisions[i]
               PROVE  /\ revision'[i][m] # NoText <=> m <= n
                      /\ hold'[i][m] # "none" => m <= n
    OBVIOUS
  <2>1. CASE m = n
    BY <1>3, <1>7, <2>1
  <2>2. CASE m # n
    BY <1>1, <1>3, <1>4, <1>7, <2>2 DEF ItemOk
  <2> QED BY <2>1, <2>2
<1>9. ItemOk(i)'
  <2>1. n <= Revisions[i] /\ 0 <= n
    BY <1>3
  <2> QED BY <1>1, <1>2, <1>3, <1>5, <1>6, <1>7, <1>8, <2>1 DEF ItemOk, Kinds
<1>10. Grows(i)
  BY <1>1, <1>2, <1>3, <1>4, <1>5, <1>6 DEF Grows
<1> QED BY <1>1, <1>6, <1>7, <1>9, <1>10, CallEnds, OneItemWritten DEF ItemSame, Inv

\* The commit of a submission: the revision is the row's next.
LEMMA NextRevision ==
  ASSUME Inv, NEW s \in Sessions, NEW i \in Items, NEW n \in Nat,
         CallOk(s), call[s].pc # "idle", i = call[s].item,
         n = call[s].cur + 1, n <= Revisions[i], revision[i][n] = NoText
  PROVE  n \in 1..Revisions[i] /\ n = row[i].cur + 1
<1>1. /\ ItemOk(i) /\ row[i].cur \in Nat /\ Revisions[i] \in Nat
      /\ call[s].cur \in Nat /\ call[s].cur <= row[i].cur
  BY RowType DEF CallOk, Inv, Call, Rev
<1>2. n \in 1..Revisions[i]
  BY <1>1
<1>3. ~(n <= row[i].cur)
  BY <1>1, <1>2 DEF ItemOk
<1> QED BY <1>1, <1>2, <1>3

\* What the row becomes keeps the item in order: published is what is cleared, and
\* what waits for review has its hold.
LEMMA SubmittedItem ==
  ASSUME Inv, NEW i \in Items, NEW n \in 1..Revisions[i], n = row[i].cur + 1,
         NEW t \in Texts, NEW pub \in Nat, NEW outcome \in Outcomes(t),
         kind[i] # "faq", row[i].status # "none", kind' = kind,
         revision' = [revision EXCEPT ![i][n] = t],
         row' = [row EXCEPT ![i] = Judged(i, pub, n, outcome)],
         hold' = IF outcome = "hold" THEN [hold EXCEPT ![i][n] = "HELD"] ELSE hold
  PROVE  /\ row' \in [Items -> Row] /\ DOMAIN revision' = Items /\ DOMAIN hold' = Items
         /\ \A j \in Items \ {i} : ItemSame(j)
         /\ ItemOk(i)' /\ Grows(i)
<1> DEFINE r == Judged(i, pub, n, outcome)
<1>0. /\ row[i] \in Row /\ ItemOk(i) /\ row[i].cur \in Nat /\ row[i].pub \in Nat
      /\ Revisions[i] \in Nat /\ n \in Nat /\ t # NoText
      /\ row[i].text \in Texts /\ kind[i] \in Kinds
      /\ outcome \in {"clear", "reject", "hold"} /\ (outcome = "clear" => Verdict[t] = "clear")
  BY RowType, ContentAssumption DEF Outcomes, ItemOk
<1>1. /\ r \in Row /\ r.cur = n /\ r.text = row[i].text /\ r.status # "none"
      /\ r.pub = IF outcome = "clear" THEN n ELSE row[i].pub
      /\ r.status = "PENDING_REVIEW" => outcome = "hold"
  <2>1. CASE outcome = "clear"
    BY <1>0, <2>1 DEF Judged, Row, Rev, Statuses
  <2>2. CASE outcome = "reject"
    <3>1. PICK status \in {"PUBLISHED", "REJECTED"} : r = [row[i] EXCEPT !.cur = n, !.status = status]
      BY <2>2 DEF Judged
    <3> HIDE DEF r
    <3> QED BY <1>0, <2>2, <3>1 DEF Row, Rev, Statuses
  <2>3. CASE outcome = "hold"
    <3>1. PICK status \in {"PUBLISHED", "PENDING_REVIEW"} :
            r = [row[i] EXCEPT !.cur = n, !.status = status]
      BY <2>3 DEF Judged
    <3> HIDE DEF r
    <3> QED BY <1>0, <2>3, <3>1 DEF Row, Rev, Statuses
  <2> QED BY <1>0, <2>1, <2>2, <2>3
<1>2. row' \in [Items -> Row] /\ row'[i] = r /\ \A j \in Items \ {i} : row'[j] = row[j]
  BY <1>1, RowWritten
<1> HIDE DEF r
<1>3. /\ DOMAIN revision' = Items
      /\ revision'[i] \in [1..Revisions[i] -> Texts \cup {NoText}] /\ revision'[i][n] = t
      /\ \A m \in 1..Revisions[i] : m # n => revision'[i][m] = revision[i][m]
      /\ \A j \in Items \ {i} : revision'[j] = revision[j]
  BY RevisionWritten
<1>4. /\ DOMAIN hold' = Items
      /\ hold'[i] \in [1..Revisions[i] -> {"none", "HELD", "RELEASED"}]
      /\ \A m \in 1..Revisions[i] : m # n => hold'[i][m] = hold[i][m]
      /\ outcome = "hold" => hold'[i][n] = "HELD"
      /\ outcome # "hold" => hold'[i] = hold[i]
      /\ \A j \in Items \ {i} : hold'[j] = hold[j]
  <2>1. CASE outcome = "hold"
    <3>1. hold' = [hold EXCEPT ![i][n] = "HELD"]
      BY <2>1
    <3>2. hold[i] \in [1..Revisions[i] -> {"none", "HELD", "RELEASED"}] /\ DOMAIN hold = Items
      BY <1>0 DEF Inv, ItemOk
    <3> QED BY <2>1, <3>1, <3>2
  <2>2. CASE outcome # "hold"
    BY <1>0, <2>2 DEF Inv, ItemOk
  <2> QED BY <2>1, <2>2
<1>5. ASSUME NEW m \in 1..Revisions[i]
      PROVE  /\ revision'[i][m] # NoText <=> m <= n
             /\ hold'[i][m] # "none" => m <= n
             /\ hold[i][m] # "none" => hold'[i][m] # "none"
  <2>1. CASE m = n
    BY <1>0, <1>3, <1>4, <2>1
  <2>2. CASE m # n
    BY <1>0, <1>3, <1>4, <2>2 DEF ItemOk
  <2> QED BY <2>1, <2>2
<1>6. r.pub # 0 => Verdict[revision'[i][r.pub]] = "clear" \/ hold'[i][r.pub] # "none"
  <2>1. CASE outcome = "clear"
    BY <1>0, <1>1, <1>3, <2>1
  <2>2. CASE outcome # "clear" /\ row[i].pub # 0
    <3>1. row[i].pub \in 1..Revisions[i] /\ row[i].pub # n
      BY <1>0, <2>2 DEF ItemOk
    <3>2. revision'[i][row[i].pub] = revision[i][row[i].pub]
          /\ hold'[i][row[i].pub] = hold[i][row[i].pub]
      BY <1>3, <1>4, <3>1
    <3> QED BY <1>0, <1>1, <2>2, <3>2 DEF ItemOk
  <2> QED BY <1>1, <2>1, <2>2
<1>7. ItemOk(i)'
  <2>1. n <= Revisions[i] /\ r.pub <= n /\ n # 0
    BY <1>0, <1>1 DEF ItemOk
  <2>2. r.status = "PENDING_REVIEW" => hold'[i][r.cur] = "HELD"
    BY <1>1, <1>4
  <2> QED BY <1>0, <1>1, <1>2, <1>3, <1>4, <1>5, <1>6, <2>1, <2>2 DEF ItemOk
<1>8. Grows(i)
  BY <1>0, <1>1, <1>2, <1>5 DEF Grows
<1> QED BY <1>2, <1>3, <1>4, <1>7, <1>8 DEF ItemSame

\* The use that a commit adds is the one it counted room for.
LEMMA UseAdded ==
  ASSUME Inv, NEW s \in Sessions, NEW k \in Kinds \ {"job"}, NEW key \in Keys,
         Counting(s, k), Ends(s), kind' = kind, uses' = uses \cup {<<k, key>>}
  PROVE  QuotaOk'
<1> PICK u \in Kinds \X Keys : u = <<k, key>> /\ u[1] = k
  <2>1. <<k, key>> \in Kinds \X Keys /\ <<k, key>>[1] = k
    OBVIOUS
  <2> QED BY <2>1
<1>0. /\ uses \subseteq Kinds \X Keys /\ IsFiniteSet(uses) /\ QuotaKept /\ Allowance \in Nat
      /\ Cardinality(Counted(k)) < Allowance
      /\ \A r \in Sessions : Counting(r, k) => r = s
  BY ContentAssumption DEF Inv, QuotaOk
<1>1. uses' \subseteq Kinds \X Keys /\ IsFiniteSet(uses')
  <2>1. uses' = uses \cup {u}
    OBVIOUS
  <2>2. IsFiniteSet(uses \cup {u})
    BY <1>0, FS_AddElement, Zenon
  <2> QED BY <1>0, <2>1, <2>2
<1>2. \A l \in Kinds : l # k => Counted(l)' = Counted(l)
  BY DEF Counted
<1>3. Cardinality(Counted(k)') <= Allowance
  <2>1. Counted(k)' = Counted(k) \cup {u}
    BY DEF Counted
  <2>2. IsFiniteSet(Counted(k))
    BY <1>0, FS_Subset DEF Counted
  <2>3. Cardinality(Counted(k)) \in Nat
    BY <2>2, FS_CardinalityType
  <2>4. Cardinality(Counted(k) \cup {u}) <= Cardinality(Counted(k)) + 1
    <3>1. \/ Cardinality(Counted(k) \cup {u}) = Cardinality(Counted(k))
          \/ Cardinality(Counted(k) \cup {u}) = Cardinality(Counted(k)) + 1
      BY <2>2, FS_AddElement, Zenon
    <3> QED BY <2>3, <3>1
  <2>5. Cardinality(Counted(k) \cup {u}) \in Nat
    BY <2>2, FS_AddElement, FS_CardinalityType
  <2> QED BY <1>0, <2>1, <2>3, <2>4, <2>5
<1>4. \A r \in Sessions, l \in Kinds : Counting(r, l)' => Counting(r, l) /\ r # s
  <2>1. \A r \in Sessions : r # s => call'[r] = call[r]
    BY DEF Ends, Inv
  <2>2. call'[s].pc = "idle"
    BY AtRest DEF Ends, Inv
  <2> QED BY <2>1, <2>2 DEF Counting, At
<1>5. \A r \in Sessions : ~Counting(r, k)'
  BY <1>0, <1>4
<1>6. QuotaKept'
  BY <1>0, <1>2, <1>3 DEF QuotaKept
<1> QED BY <1>1, <1>2, <1>4, <1>5, <1>6 DEF Inv, QuotaOk

LEMMA SubmitKeeps ==
  ASSUME Inv, NEW s \in Sessions, NEW outcome \in {"clear", "reject", "hold"}, Submit(s, outcome)
  PROVE  Inv'
<1>1. /\ call[s] \in Call /\ CallOk(s) /\ Ends(s) /\ kind' = kind /\ mod' = mod
      /\ call[s].pc \in {"submitting", "counted"}
      /\ call[s].cur \in Nat /\ call[s].cur + 1 \in Nat /\ call[s].pub \in Nat
      /\ call[s].item \in Items /\ call[s].text \in Texts
  <2>1. /\ call[s] \in Call /\ CallOk(s) /\ Ends(s) /\ kind' = kind /\ mod' = mod
        /\ call[s].pc \in {"submitting", "counted"}
    BY DEF Submit, Admitted, At, Inv
  <2> QED BY <2>1 DEF CallOk, Call, Rev
<1>2. PICK i \in Items, t \in Texts, n \in Nat, pub \in Nat :
        /\ i = call[s].item /\ t = call[s].text /\ n = call[s].cur + 1 /\ pub = call[s].pub
  BY <1>1
<1>3. /\ outcome \in Outcomes(t) /\ n <= Revisions[i] /\ revision[i][n] = NoText
      /\ revision' = [revision EXCEPT ![i][n] = t]
      /\ row' = [row EXCEPT ![i] = Judged(i, pub, n, outcome)]
      /\ hold' = IF outcome = "hold" THEN [hold EXCEPT ![i][n] = "HELD"] ELSE hold
      /\ uses' = IF At(s, "counted") /\ kind[i] # "job"
                   THEN uses \cup {<<kind[i], call[s].key>>} ELSE uses
  BY <1>2 DEF Submit
<1>4. /\ kind[i] # "faq" /\ row[i].status # "none" /\ (kind[i] = "job" \/ call[s].key \in Keys)
  BY <1>1, <1>2 DEF CallOk
<1>5. n \in 1..Revisions[i] /\ n = row[i].cur + 1
  BY <1>1, <1>2, <1>3, NextRevision
<1>6. /\ row' \in [Items -> Row] /\ DOMAIN revision' = Items /\ DOMAIN hold' = Items
      /\ \A j \in Items \ {i} : ItemSame(j)
      /\ ItemOk(i)' /\ Grows(i)
  BY <1>1, <1>3, <1>4, <1>5, SubmittedItem
<1>7. QuotaOk'
  <2>1. CASE At(s, "counted") /\ kind[i] # "job"
    <3>1. kind[i] \in Kinds \ {"job"}
      BY <1>4, <2>1, RowType DEF ItemOk
    <3>2. Counting(s, kind[i])
      BY <1>2, <2>1 DEF Counting
    <3> QED BY <1>1, <1>3, <1>4, <2>1, <3>1, <3>2, UseAdded
  <2>2. CASE ~(At(s, "counted") /\ kind[i] # "job")
    <3>1. uses' = uses
      BY <1>3, <2>2
    <3> QED BY <1>1, <3>1, CallEnds, QuotaSame
  <2> QED BY <2>1, <2>2
<1>8. mod' \in [Moderators -> Mod] /\ \A d \in Moderators : mod'[d] = mod[d]
  BY <1>1 DEF Inv
<1> QED BY <1>1, <1>6, <1>7, <1>8, CallEnds, ItemWritten

-----------------------------------------------------------------------------
(***************************************************************************)
(* The expert's approval, and the moderators.                              *)
(***************************************************************************)
LEMMA HoldFaqKeeps ==
  ASSUME Inv, NEW s \in Sessions, HoldFaq(s)
  PROVE  Inv'
<1>1. /\ call[s] \in Call /\ CallOk(s) /\ call[s].pc = "approving"
      /\ kind' = kind /\ row' = row /\ revision' = revision /\ uses' = uses /\ mod' = mod
      /\ call' = [call EXCEPT ![s].pc = "held"]
      /\ hold' = [hold EXCEPT ![call[s].item][call[s].cur] = "HELD"]
  BY DEF HoldFaq, At, Inv
<1>2. PICK i \in Items, n \in Nat :
        /\ i = call[s].item /\ n = call[s].cur /\ n <= row[i].cur /\ kind[i] = "faq"
        /\ hold' = [hold EXCEPT ![i][n] = "HELD"]
  BY <1>1 DEF CallOk, Call, Rev
<1>3. ItemOk(i) /\ row[i].cur \in Nat /\ DOMAIN hold = Items /\ Revisions[i] \in Nat
  BY RowType DEF Inv
<1>4. /\ DOMAIN hold' = Items
      /\ hold'[i] \in [1..Revisions[i] -> {"none", "HELD", "RELEASED"}]
      /\ \A m \in 1..Revisions[i] : hold'[i][m] = IF m = n THEN "HELD" ELSE hold[i][m]
      /\ \A j \in Items \ {i} : hold'[j] = hold[j]
  <2>1. hold[i] \in [1..Revisions[i] -> {"none", "HELD", "RELEASED"}]
    BY <1>3 DEF ItemOk
  <2> QED BY <1>2, <1>3, <2>1
<1>5. ASSUME NEW m \in 1..Revisions[i]
      PROVE  /\ hold'[i][m] # "none" => m <= row[i].cur
             /\ hold[i][m] # "none" => hold'[i][m] # "none"
  BY <1>2, <1>3, <1>4 DEF ItemOk
<1>6. row[i].pub # 0 => Verdict[revision[i][row[i].pub]] = "clear" \/ hold'[i][row[i].pub] # "none"
  <2>1. row[i].pub # 0 => row[i].pub \in 1..Revisions[i]
    BY <1>3, RowType DEF ItemOk
  <2> QED BY <1>3, <1>5, <2>1 DEF ItemOk
<1>7. ItemOk(i)' /\ Grows(i)
  <2>1. Grows(i)
    BY <1>1, <1>3, <1>5 DEF Grows
  <2>2. kind[i] # "faq" => FALSE
    BY <1>2
  <2>3. \A m \in 1..Revisions[i] : hold'[i][m] # "none" => m <= row'[i].cur
    BY <1>1, <1>5
  <2> QED BY <1>1, <1>3, <1>4, <1>6, <2>1, <2>2, <2>3 DEF ItemOk
<1> DEFINE c == [call[s] EXCEPT !.pc = "held"]
<1>8. /\ c \in Call /\ c.pc = "held" /\ c.item = i /\ c.text = call[s].text /\ c.cur = n
  BY <1>1, <1>2 DEF Call
<1>9. call'[s] = c /\ \A r \in Sessions \ {s} : call'[r] = call[r]
  BY <1>1 DEF Inv
<1>10. call' \in [Sessions -> Call]
  BY <1>1, <1>8 DEF Inv
<1> HIDE DEF c
<1>11. CallOk(s)'
  BY <1>1, <1>2, <1>8, <1>9 DEF CallOk
<1>12. \A r \in Sessions : call'[r] = call[r] \/ (call'[r].pc # "counted" /\ CallOk(r)')
  BY <1>8, <1>9, <1>11
<1>13. /\ row' \in [Items -> Row] /\ DOMAIN revision' = Items
       /\ \A j \in Items \ {i} : ItemSame(j)
       /\ mod' \in [Moderators -> Mod] /\ \A d \in Moderators : mod'[d] = mod[d]
  BY <1>1, <1>4 DEF Inv, ItemSame
<1> QED BY <1>1, <1>4, <1>7, <1>10, <1>12, <1>13, OneItemWritten

LEMMA ApproveKeeps ==
  ASSUME Inv, NEW s \in Sessions, Approve(s)
  PROVE  Inv'
<1>1. /\ call[s] \in Call /\ CallOk(s) /\ call[s].pc \in {"approving", "held"} /\ Ends(s)
      /\ kind' = kind /\ revision' = revision /\ hold' = hold /\ uses' = uses /\ mod' = mod
  BY DEF Approve, At, Inv
<1>2. PICK status \in {"PENDING_REVIEW", "REJECTED", "PUBLISHED"} :
        row' = [row EXCEPT ![call[s].item].approved = call[s].cur, ![call[s].item].status = status]
  <2> DEFINE status == CASE At(s, "held") -> "PENDING_REVIEW"
                         [] Verdict[call[s].text] = "reject" -> "REJECTED"
                         [] OTHER -> "PUBLISHED"
  <2>1. row' = [row EXCEPT ![call[s].item].approved = call[s].cur, ![call[s].item].status = status]
    BY DEF Approve
  <2>2. status \in {"PENDING_REVIEW", "REJECTED", "PUBLISHED"}
    <3>1. CASE At(s, "held")
      BY <3>1
    <3>2. CASE ~At(s, "held") /\ Verdict[call[s].text] = "reject"
      BY <3>2
    <3>3. CASE ~At(s, "held") /\ Verdict[call[s].text] # "reject"
      BY <3>3
    <3> QED BY <3>1, <3>2, <3>3
  <2> HIDE DEF status
  <2> QED BY <2>1, <2>2
<1>3. PICK i \in Items, n \in Nat :
        /\ i = call[s].item /\ n = call[s].cur /\ row[i].status # "none" /\ kind[i] = "faq"
        /\ row' = [row EXCEPT ![i].approved = n, ![i].status = status]
  BY <1>1, <1>2 DEF CallOk, Call, Rev
<1>4. row[i] \in Row /\ row[i].text \in Texts
  BY <1>3, RowType DEF ItemOk
<1>5. row' = [row EXCEPT ![i] = [row[i] EXCEPT !.status = status, !.text = row[i].text, !.approved = n]]
  BY <1>3, <1>4 DEF Inv, Row
<1>6. row[i].status # "none" /\ kind[i] = "faq"
  BY <1>3
<1>7. /\ row' \in [Items -> Row] /\ \A j \in Items \ {i} : ItemSame(j)
      /\ ItemOk(i)' /\ Grows(i)
  BY <1>1, <1>4, <1>5, <1>6, StatusWritten DEF Statuses
<1> QED BY <1>1, <1>7, CallEnds, OneItemWritten DEF Inv

\* A moderator that moves on, with no item written.
LEMMA NewMod ==
  ASSUME Inv, NEW d \in Moderators, NEW m \in Mod, mod' = [mod EXCEPT ![d] = m],
         UNCHANGED <<kind, row, revision, hold, uses, call>>, ModOk(d)'
  PROVE  Inv'
<1>1. mod' \in [Moderators -> Mod] /\ \A e \in Moderators \ {d} : mod'[e] = mod[e]
  BY DEF Inv
<1>2. QuotaOk'
  BY QuotaSame
<1>3. call' \in [Sessions -> Call] /\ \A s \in Sessions : call'[s] = call[s]
  BY DEF Inv
<1> QED BY <1>1, <1>2, <1>3, NoItemWritten

LEMMA ModLeaves ==
  ASSUME Inv, NEW d \in Moderators, Leaves(d)
  PROVE  /\ mod' \in [Moderators -> Mod] /\ ModOk(d)'
         /\ \A e \in Moderators : mod'[e] = mod[e] \/ ModOk(e)'
<1>1. mod'[d] = Away /\ \A e \in Moderators \ {d} : mod'[e] = mod[e]
  BY DEF Leaves, Inv
<1>2. ModOk(d)'
  BY <1>1, AtRest DEF ModOk
<1> QED BY <1>1, <1>2, AtRest DEF Leaves, Inv

LEMMA BeginReleaseKeeps ==
  ASSUME Inv, NEW d \in Moderators, NEW i \in Items, NEW n \in 1..Revisions[i], BeginRelease(d, i, n)
  PROVE  Inv'
<1> DEFINE m == [pc |-> "publish", item |-> i, rev |-> n, pub |-> row[i].pub]
<1>1. n \in Nat /\ row[i].pub \in Nat
  BY RowType
<1>2. m \in Mod /\ m.pc = "publish" /\ m.item = i /\ m.rev = n
  BY <1>1 DEF Mod, Rev
<1>3. /\ mod' = [mod EXCEPT ![d] = m] /\ hold[i][n] = "HELD"
      /\ UNCHANGED <<kind, row, revision, hold, uses, call>>
  BY DEF BeginRelease
<1> HIDE DEF m
<1>4. mod'[d] = m
  BY <1>3 DEF Inv
<1>5. ModOk(d)'
  BY <1>2, <1>3, <1>4 DEF ModOk
<1> QED BY <1>2, <1>3, <1>5, NewMod

LEMMA CountSlotKeeps ==
  ASSUME Inv, NEW d \in Moderators, CountSlot(d)
  PROVE  Inv'
<1> DEFINE m == [mod[d] EXCEPT !.pc = "counted"]
<1>1. /\ mod[d] \in Mod /\ ModOk(d) /\ mod[d].pc = "publish"
      /\ mod' = [mod EXCEPT ![d] = m] /\ UNCHANGED <<kind, row, revision, hold, uses, call>>
  BY DEF CountSlot, Inv
<1>2. m \in Mod /\ m.pc = "counted" /\ m.item = mod[d].item /\ m.rev = mod[d].rev
  BY <1>1 DEF Mod
<1> HIDE DEF m
<1>3. mod'[d] = m
  BY <1>1 DEF Inv
<1>4. ModOk(d)'
  BY <1>1, <1>2, <1>3 DEF ModOk
<1> QED BY <1>1, <1>2, <1>4, NewMod

LEMMA GiveUpKeeps ==
  ASSUME Inv, NEW d \in Moderators, GiveUp(d)
  PROVE  Inv'
BY ModLeaves, NewMod, AtRest DEF GiveUp, Leaves

\* The revision a moderator read still has its hold when it is put back.
LEMMA PublishKeeps ==
  ASSUME Inv, NEW d \in Moderators, Publish(d)
  PROVE  Inv'
<1>1. /\ mod[d] \in Mod /\ ModOk(d) /\ mod[d].pc # "idle"
      /\ mod' = [mod EXCEPT ![d].pc = "mark"]
      /\ kind' = kind /\ revision' = revision /\ hold' = hold /\ uses' = uses /\ call' = call
  BY DEF Publish, Inv
<1>2. PICK i \in Items, n \in Nat :
        /\ n \in 1..Revisions[i] /\ i = mod[d].item /\ n = mod[d].rev /\ hold[i][n] # "none"
        /\ row' = IF kind[i] = "faq" THEN [row EXCEPT ![i].status = "PUBLISHED"]
                                     ELSE [row EXCEPT ![i] = Restored(i, n)]
  BY <1>1 DEF ModOk, Publish, Mod, Rev
<1>3. /\ row[i] \in Row /\ ItemOk(i) /\ row[i].cur \in Nat /\ Revisions[i] \in Nat /\ n \in Nat
      /\ n # 0
  BY <1>2, RowType
<1>4. /\ n <= row[i].cur /\ revision[i][n] \in Texts /\ row[i].status # "none"
      /\ row[i].text \in Texts /\ kind[i] \in Kinds
  <2>1. n <= row[i].cur /\ revision[i][n] \in Texts
    BY <1>2, <1>3 DEF ItemOk
  <2>2. row[i].status # "none"
    BY <1>3, <2>1, AtRest DEF ItemOk
  <2> QED BY <1>3, <2>1, <2>2 DEF ItemOk
<1> DEFINE r == IF kind[i] = "faq" THEN [row[i] EXCEPT !.status = "PUBLISHED"] ELSE Restored(i, n)
<1>5. /\ r \in Row /\ r.status = "PUBLISHED" /\ r.cur = row[i].cur /\ r.text \in Texts
      /\ r.pub \in {n, row[i].pub}
  <2>1. CASE kind[i] = "faq"
    <3>1. r = [row[i] EXCEPT !.status = "PUBLISHED"]
      BY <2>1
    <3> HIDE DEF r
    <3> QED BY <1>3, <1>4, <3>1 DEF Row, Statuses
  <2>2. CASE kind[i] # "faq"
    <3>1. r = [row[i] EXCEPT !.status = "PUBLISHED", !.pub = n, !.text = revision[i][n]]
      BY <2>2 DEF Restored
    <3> HIDE DEF r
    <3> QED BY <1>3, <1>4, <3>1 DEF Row, Rev, Statuses
  <2> QED BY <2>1, <2>2
<1>6. row' = [row EXCEPT ![i] = r]
  BY <1>2
<1>7. row' \in [Items -> Row] /\ row'[i] = r /\ \A j \in Items \ {i} : row'[j] = row[j]
  BY <1>5, <1>6, RowWritten
<1> HIDE DEF r
<1>8. ItemOk(i)' /\ Grows(i)
  <2>1. Grows(i)
    BY <1>1, <1>3, <1>5, <1>7 DEF Grows
  <2>2. row'[i].pub <= row'[i].cur /\ row'[i].cur <= Revisions[i]
    BY <1>3, <1>4, <1>5, <1>7 DEF ItemOk
  <2>3. row'[i].pub # 0 =>
          Verdict[revision[i][row'[i].pub]] = "clear" \/ hold[i][row'[i].pub] # "none"
    BY <1>2, <1>3, <1>5, <1>7 DEF ItemOk
  <2> QED BY <1>1, <1>3, <1>4, <1>5, <1>7, <2>1, <2>2, <2>3 DEF ItemOk
<1> DEFINE m == [mod[d] EXCEPT !.pc = "mark"]
<1>9. m \in Mod /\ m.pc = "mark" /\ m.item = i /\ m.rev = n
  BY <1>1, <1>2 DEF Mod
<1>10. mod'[d] = m /\ \A e \in Moderators \ {d} : mod'[e] = mod[e]
  BY <1>1 DEF Inv
<1>11. mod' \in [Moderators -> Mod]
  BY <1>1, <1>9 DEF Inv
<1> HIDE DEF m
<1>12. ModOk(d)'
  BY <1>1, <1>2, <1>5, <1>7, <1>9, <1>10 DEF ModOk
<1>13. /\ DOMAIN revision' = Items /\ DOMAIN hold' = Items /\ \A j \in Items \ {i} : ItemSame(j)
       /\ call' \in [Sessions -> Call] /\ \A s \in Sessions : call'[s] = call[s]
  BY <1>1, <1>7 DEF Inv, ItemSame
<1> QED BY <1>1, <1>7, <1>8, <1>10, <1>11, <1>12, <1>13, OneItemWritten

\* The hold that is closed is not the one of a revision that waits.
LEMMA MarkKeeps ==
  ASSUME Inv, NEW d \in Moderators, Mark(d)
  PROVE  Inv'
<1>1. /\ mod[d] \in Mod /\ ModOk(d) /\ mod[d].pc = "mark" /\ Leaves(d)
      /\ kind' = kind /\ row' = row /\ revision' = revision /\ uses' = uses /\ call' = call
  BY DEF Mark, Inv
<1>2. PICK i \in Items, n \in Nat :
        /\ n \in 1..Revisions[i] /\ i = mod[d].item /\ n = mod[d].rev /\ hold[i][n] # "none"
        /\ hold' = [hold EXCEPT ![i][n] = "RELEASED"]
        /\ kind[i] # "faq" /\ row[i].status = "PENDING_REVIEW" => n < row[i].cur
  BY <1>1 DEF ModOk, Mark, Mod, Rev
<1>3. ItemOk(i) /\ row[i].cur \in Nat /\ row[i].pub \in Nat /\ Revisions[i] \in Nat /\ n \in Nat
  BY RowType
<1>4. /\ DOMAIN hold' = Items
      /\ hold'[i] \in [1..Revisions[i] -> {"none", "HELD", "RELEASED"}] /\ hold'[i][n] = "RELEASED"
      /\ \A m \in 1..Revisions[i] : m # n => hold'[i][m] = hold[i][m]
      /\ \A j \in Items \ {i} : hold'[j] = hold[j]
  <2>1. hold[i] \in [1..Revisions[i] -> {"none", "HELD", "RELEASED"}] /\ DOMAIN hold = Items
    BY <1>3 DEF Inv, ItemOk
  <2> QED BY <1>2, <2>1
<1>5. ASSUME NEW m \in 1..Revisions[i]
      PROVE  hold'[i][m] # "none" <=> hold[i][m] # "none"
  BY <1>2, <1>4
<1>6. kind[i] # "faq" /\ row[i].status = "PENDING_REVIEW" =>
        row[i].cur # 0 /\ hold'[i][row[i].cur] = "HELD"
  BY <1>2, <1>3, <1>4 DEF ItemOk
<1>7. row[i].pub # 0 => Verdict[revision[i][row[i].pub]] = "clear" \/ hold'[i][row[i].pub] # "none"
  <2>1. row[i].pub # 0 => row[i].pub \in 1..Revisions[i]
    BY <1>3 DEF ItemOk
  <2> QED BY <1>3, <1>5, <2>1 DEF ItemOk
<1>8. ItemOk(i)' /\ Grows(i)
  BY <1>1, <1>3, <1>4, <1>5, <1>6, <1>7 DEF ItemOk, Grows
<1>9. /\ row' \in [Items -> Row] /\ DOMAIN revision' = Items /\ \A j \in Items \ {i} : ItemSame(j)
      /\ call' \in [Sessions -> Call] /\ \A s \in Sessions : call'[s] = call[s]
  BY <1>1, <1>4 DEF Inv, ItemSame
<1> QED BY <1>1, <1>4, <1>8, <1>9, ModLeaves, OneItemWritten

-----------------------------------------------------------------------------
(***************************************************************************)
(* The theorems.                                                           *)
(***************************************************************************)
LEMMA Initially == Init => Inv
<1> SUFFICES ASSUME Init PROVE Inv
  OBVIOUS
<1>1. row \in [Items -> Row] /\ DOMAIN revision = Items /\ DOMAIN hold = Items
  BY AtRest DEF Init
<1>2. ASSUME NEW i \in Items
      PROVE  ItemOk(i)
  <2>1. Revisions[i] \in Nat
    BY ContentAssumption
  <2>2. /\ revision[i] = [n \in 1..Revisions[i] |-> NoText]
        /\ hold[i] = [n \in 1..Revisions[i] |-> "none"]
        /\ row[i] = NoRow
    BY DEF Init
  <2> QED BY <2>1, <2>2, AtRest DEF ItemOk
<1>3. call \in [Sessions -> Call] /\ \A s \in Sessions : CallOk(s) /\ \A k : ~Counting(s, k)
  BY AtRest DEF Init, CallOk, Counting, At
<1>4. mod \in [Moderators -> Mod] /\ \A d \in Moderators : ModOk(d)
  BY AtRest DEF Init, ModOk
<1>5. QuotaOk
  <2>1. \A k \in Kinds : Counted(k) = {}
    BY DEF Init, Counted
  <2>2. QuotaKept
    <3>1. Cardinality({}) = 0 /\ Allowance \in Nat
      BY FS_EmptySet, ContentAssumption, Zenon
    <3> QED BY <2>1, <3>1 DEF QuotaKept
  <2> QED BY <1>3, <2>2, FS_EmptySet DEF Init, QuotaOk
<1> QED BY <1>1, <1>2, <1>3, <1>4, <1>5 DEF Init, Inv

LEMMA InvKept == Inv /\ [Next]_vars => Inv'
<1> SUFFICES ASSUME Inv, [Next]_vars PROVE Inv'
  OBVIOUS
<1>1. ASSUME NEW s \in Sessions, SessionStep(s)
      PROVE  Inv'
  <2>1. ASSUME NEW i \in Items, NEW t \in Texts,
               CreateDraft(s, i, t) \/ BeginEdit(s, i, t) \/ CreateFaq(s, i, t) \/ BeginEditFaq(s, i, t)
        PROVE  Inv'
    <3>1. NoKey \in Keys \cup {NoKey}
      OBVIOUS
    <3> QED BY <2>1, <3>1, CreateKeeps, CreateFaqKeeps, ReadingKeeps
  <2>2. ASSUME NEW i \in Items, NEW k \in Keys \cup {NoKey}, BeginSubmit(s, i, k)
        PROVE  Inv'
    <3>1. row[i].text \in Texts
      BY <2>2, RowType DEF BeginSubmit, ItemOk
    <3> QED BY <2>2, <3>1, ReadingKeeps
  <2>3. ASSUME NEW i \in Items, BeginApprove(s, i)
        PROVE  Inv'
    <3>1. row[i].text \in Texts /\ NoKey \in Keys \cup {NoKey}
      BY <2>3, RowType DEF BeginApprove, ItemOk
    <3> QED BY <2>3, <3>1, ReadingKeeps
  <2> QED
    BY <1>1, <2>1, <2>2, <2>3, SubmitKeeps, EditKeeps, CountKeeps, EditFaqKeeps, HoldFaqKeeps,
       ApproveKeeps, AbortKeeps DEF SessionStep
<1>2. ASSUME NEW d \in Moderators, ModeratorStep(d)
      PROVE  Inv'
  BY <1>2, BeginReleaseKeeps, CountSlotKeeps, PublishKeeps, MarkKeeps, GiveUpKeeps DEF ModeratorStep
<1>3. CASE UNCHANGED vars
  <2>1. call' \in [Sessions -> Call] /\ mod' \in [Moderators -> Mod] /\ QuotaOk'
    BY <1>3, QuotaSame DEF Inv, vars
  <2> QED BY <1>3, <2>1, NoItemWritten DEF vars
<1> QED BY <1>1, <1>2, <1>3, RemoveKeeps DEF Next

LEMMA Invariance == Spec => []Inv
BY Initially, InvKept, PTL DEF Spec

\* Every variable has its type, and an item's revisions are numbered up to the
\* current one of its row.
THEOREM Types == Spec => []TypeOK
BY InvImplies, Invariance, PTL

\* What waits for review is in the moderators' queue, however submissions, edits,
\* removals and releases overlap: the hold a moderator closes is not the one of a
\* revision that was submitted since.
THEOREM PendingIsQueued == Spec => []PendingHasHold
BY InvImplies, Invariance, PTL

\* A revision that is published was cleared or held for a moderator, though the
\* row is written by id with what was read before.
THEOREM PublishedWasLetThrough == Spec => []PublishedRevisionPassed
BY InvImplies, Invariance, PTL

\* Requests that count at the same time do not use more than the day's quota.
THEOREM QuotaIsKept == Spec => []QuotaKept
BY InvImplies, Invariance, PTL

=============================================================================
