-------------------------- MODULE TableHeapProofs --------------------------
(***************************************************************************)
(* The table heap for any number of threads, rows and pages and any sizes  *)
(* of rows: pages stay sound under concurrent writers, and with one writer *)
(* beside any number of scans the table is exactly the rows put into it    *)
(* and every scan returns the rows that were there all along.              *)
(***************************************************************************)
EXTENDS TableHeap, WellFoundedInduction, NaturalsInduction, TLAPS

-----------------------------------------------------------------------------
(* Numbers.                                                                *)

\* A set of slot numbers that is not empty has a smallest one.
LEMMA SmallestSlot ==
  ASSUME NEW S \in SUBSET Nat, S # {}
  PROVE  \E m \in S : \A n \in S : m <= n
  <1>1. PICK m \in S : \A n \in S : ~(<<n, m>> \in OpToRel(<, Nat))
    BY NatLessThanWellFounded, WFMin
  <1>2. \A n \in S : n \in Nat /\ m \in Nat /\ <<n, m>> \in Nat \X Nat
    OBVIOUS
  <1>3. \A n \in S : ~(n < m)
    BY <1>1, <1>2 DEF OpToRel
  <1>4. m \in Nat
    OBVIOUS
  <1>5. \A n \in S : m <= n
    BY <1>3, <1>4
  <1>6. QED
    BY <1>5

\* A page has no more slots than bytes.
LEMMA SlotsTakeRoom ==
  ASSUME NEW a \in Nat, NEW b \in Nat \ {0}
  PROVE  /\ a * b \in Nat
         /\ (a + 1) * b = a * b + b
         /\ a <= a * b
  OBVIOUS

-----------------------------------------------------------------------------
(* One page.                                                               *)

Slot == [off : Nat, len : Nat]
Page == [next : Int, fsp : Nat, slots : Seq(Slot), bytes : [Offsets -> Rows \cup {NoRow}]]

\* Slot s of page p is in use.
Live(p, s) == p.slots[s].len > 0

\* The two halves of a page do not meet, and tuples in use do not overlap.
Sound(p) ==
  /\ SlotEnd(p) <= p.fsp
  /\ p.fsp <= ONEBASE_PAGE_SIZE
  /\ \A s \in 1 .. Len(p.slots) : Live(p, s) =>
       /\ p.fsp <= p.slots[s].off
       /\ p.slots[s].off + p.slots[s].len <= ONEBASE_PAGE_SIZE
  /\ \A s, u \in 1 .. Len(p.slots) : Live(p, s) /\ Live(p, u) /\ s # u =>
       \/ p.slots[s].off + p.slots[s].len <= p.slots[u].off
       \/ p.slots[u].off + p.slots[u].len <= p.slots[s].off

\* The extent of slot s is row r, byte for byte.
Keeps(p, s, r) ==
  /\ p.slots[s].len = SizeOf[r]
  /\ \A o \in p.slots[s].off .. p.slots[s].off + p.slots[s].len - 1 : p.bytes[o] = r

\* q is page p with row r put into slot s, where it was not before.
Puts(p, q, s, r) ==
  /\ q.next = p.next
  /\ s \in 1 .. Len(q.slots)
  /\ \A u \in 1 .. Len(p.slots) : u \in 1 .. Len(q.slots)
  /\ \A u \in 1 .. Len(q.slots) : u # s => u \in 1 .. Len(p.slots)
  /\ \A u \in 1 .. Len(p.slots) : u # s =>
       /\ q.slots[u] = p.slots[u]
       /\ \A x \in Rows : Live(p, u) /\ Keeps(p, u, x) => Keeps(q, u, x)
  /\ Live(q, s)
  /\ Keeps(q, s, r)

LEMMA SlotTypes ==
  ASSUME NEW p \in Page, NEW u \in 1 .. Len(p.slots)
  PROVE  p.slots[u].off \in Nat /\ p.slots[u].len \in Nat
  <1>1. p.slots[u] \in Slot
    BY DEF Page
  <1>2. QED
    BY <1>1 DEF Slot

LEMMA InitPageSound == InitPage \in Page /\ Sound(InitPage) /\ InitPage.slots = <<>>
  <1>1. /\ ONEBASE_PAGE_SIZE \in Nat /\ SIZE_TABLE_PAGE_HEADER \in Nat
        /\ SIZE_TABLE_PAGE_HEADER <= ONEBASE_PAGE_SIZE /\ SIZE_TUPLE_SLOT \in Nat
    BY TablePageAssumption
  <1>2. InitPage \in Page
    BY <1>1 DEF InitPage, Page, INVALID_PAGE_ID
  <1>3. /\ InitPage.slots = <<>> /\ InitPage.fsp = ONEBASE_PAGE_SIZE
        /\ Len(InitPage.slots) = 0
    BY DEF InitPage
  <1>4. 0 * SIZE_TUPLE_SLOT = 0
    BY <1>1
  <1>5. SlotEnd(InitPage) = SIZE_TABLE_PAGE_HEADER
    BY <1>1, <1>3, <1>4 DEF SlotEnd
  <1>6. 1 .. Len(InitPage.slots) = {}
    BY <1>3
  <1>7. Sound(InitPage)
    BY <1>1, <1>3, <1>5, <1>6 DEF Sound
  <1>8. QED
    BY <1>2, <1>3, <1>7

\* What was kept above the free space pointer outlives a copy below it.
LEMMA CopyKeeps ==
  ASSUME NEW p \in Page, Sound(p), NEW r \in Rows, SizeOf[r] <= p.fsp,
         NEW q \in Page, q.bytes = CopyIn(p.bytes, p.fsp - SizeOf[r], r),
         NEW u \in 1 .. Len(p.slots), q.slots[u] = p.slots[u],
         NEW x \in Rows, Live(p, u), Keeps(p, u, x)
  PROVE  Keeps(q, u, x)
  <1> DEFINE off == p.slots[u].off
             len == p.slots[u].len
             n == SizeOf[r]
             f == p.fsp
  <1>1. /\ n \in Nat \ {0} /\ ONEBASE_PAGE_SIZE \in Nat
    BY TablePageAssumption
  <1>2. p.slots[u] \in Slot /\ f \in Nat
    BY DEF Page
  <1>3. off \in Nat /\ len \in Nat
    BY <1>2 DEF Slot
  <1>4. f <= off /\ off + len <= ONEBASE_PAGE_SIZE
    BY DEF Sound
  <1> HIDE DEF off, len, n, f
  <1>5. ASSUME NEW o \in off .. off + len - 1
        PROVE  o \in 0 .. ONEBASE_PAGE_SIZE - 1 /\ o \notin f - n .. f - n + n - 1
    BY <1>1, <1>2, <1>3, <1>4
  <1>6. ASSUME NEW o \in off .. off + len - 1
        PROVE  q.bytes[o] = p.bytes[o]
    BY <1>5 DEF CopyIn, Offsets, f, n
  <1>7. \A o \in off .. off + len - 1 : p.bytes[o] = x
    BY DEF Keeps, off, len
  <1>8. \A o \in off .. off + len - 1 : q.bytes[o] = x
    BY <1>6, <1>7
  <1>9. QED
    BY <1>8 DEF Keeps, off, len


\* A row is copied below the others, and slot s is pointed to it.
LEMMA WriteRow ==
  ASSUME NEW p \in Page, Sound(p), NEW r \in Rows, NEW q \in Page, NEW s \in Nat,
         SizeOf[r] <= p.fsp,
         q.next = p.next, q.fsp = p.fsp - SizeOf[r],
         q.bytes = CopyIn(p.bytes, p.fsp - SizeOf[r], r),
         s \in 1 .. Len(q.slots),
         q.slots[s] = [off |-> p.fsp - SizeOf[r], len |-> SizeOf[r]],
         \A u \in 1 .. Len(p.slots) : u \in 1 .. Len(q.slots),
         \A u \in 1 .. Len(q.slots) : u # s => u \in 1 .. Len(p.slots),
         \A u \in 1 .. Len(p.slots) : u # s => q.slots[u] = p.slots[u],
         SlotEnd(q) <= q.fsp
  PROVE  Sound(q) /\ Puts(p, q, s, r)
  <1> DEFINE n == SizeOf[r]
             f == p.fsp
             g == f - n
  <1>1. n \in Nat \ {0} /\ ONEBASE_PAGE_SIZE \in Nat
    BY TablePageAssumption
  <1>2. f \in Nat /\ f <= ONEBASE_PAGE_SIZE /\ n <= f
    BY DEF Page, Sound
  <1>3. q.slots[s].off = g /\ q.slots[s].len = n /\ q.fsp = g
    OBVIOUS
  <1> HIDE DEF n, f
  <1>4. g \in Nat /\ g <= f /\ g + n = f
    BY <1>1, <1>2
  <1> HIDE DEF g
  <1>5. Live(q, s)
    BY <1>1, <1>3 DEF Live
  <1>6. Keeps(q, s, r)
    <2>1. ASSUME NEW o \in g .. g + n - 1
          PROVE  o \in 0 .. ONEBASE_PAGE_SIZE - 1
      BY <1>1, <1>2, <1>4
    <2>2. ASSUME NEW o \in g .. g + n - 1
          PROVE  q.bytes[o] = r
      BY <2>1 DEF CopyIn, Offsets, f, n, g
    <2>3. QED
      BY <1>3, <2>2 DEF Keeps, n
  <1>7. ASSUME NEW u \in 1 .. Len(p.slots), u # s
        PROVE  \A x \in Rows : Live(p, u) /\ Keeps(p, u, x) => Keeps(q, u, x)
    BY <1>7, CopyKeeps
  <1>8. Puts(p, q, s, r)
    BY <1>5, <1>6, <1>7 DEF Puts
  <1>9. \A u \in 1 .. Len(q.slots) : u # s =>
          /\ u \in 1 .. Len(p.slots)
          /\ q.slots[u].off = p.slots[u].off /\ q.slots[u].len = p.slots[u].len
    OBVIOUS
  <1>10. \A u \in 1 .. Len(p.slots) : p.slots[u].off \in Nat /\ p.slots[u].len \in Nat
    BY SlotTypes
  <1>11. \A u \in 1 .. Len(q.slots) : u # s /\ Live(q, u) =>
           /\ Live(p, u)
           /\ f <= q.slots[u].off
           /\ q.slots[u].off + q.slots[u].len <= ONEBASE_PAGE_SIZE
    BY <1>9 DEF Sound, Live, f
  <1>12. \A u \in 1 .. Len(q.slots) : u # s => q.slots[u].off \in Nat /\ q.slots[u].len \in Nat
    BY <1>9, <1>10
  <1>13. \A u \in 1 .. Len(q.slots) : Live(q, u) =>
           /\ g <= q.slots[u].off
           /\ q.slots[u].off + q.slots[u].len <= ONEBASE_PAGE_SIZE
    BY <1>1, <1>2, <1>3, <1>4, <1>11, <1>12
  <1>14. \A u, v \in 1 .. Len(q.slots) : Live(q, u) /\ Live(q, v) /\ u # v =>
           \/ q.slots[u].off + q.slots[u].len <= q.slots[v].off
           \/ q.slots[v].off + q.slots[v].len <= q.slots[u].off
    <2>1. ASSUME NEW u \in 1 .. Len(q.slots), NEW v \in 1 .. Len(q.slots),
                 Live(q, u), Live(q, v), u # s, v # s, u # v
          PROVE  \/ q.slots[u].off + q.slots[u].len <= q.slots[v].off
                 \/ q.slots[v].off + q.slots[v].len <= q.slots[u].off
      BY <2>1, <1>9, <1>11 DEF Sound
    <2>2. ASSUME NEW u \in 1 .. Len(q.slots), Live(q, u), u # s
          PROVE  q.slots[s].off + q.slots[s].len <= q.slots[u].off
      BY <2>2, <1>3, <1>4, <1>11
    <2>3. QED
      BY <2>1, <2>2
  <1>15. q.fsp = g /\ g <= ONEBASE_PAGE_SIZE
    BY <1>1, <1>2, <1>3, <1>4
  <1>16. QED
    BY <1>8, <1>13, <1>14, <1>15 DEF Sound

LEMMA SlotEndIsNat ==
  ASSUME NEW p \in Page
  PROVE  /\ Len(p.slots) \in Nat /\ SlotEnd(p) \in Nat /\ p.fsp \in Nat
         /\ Len(p.slots) <= SlotEnd(p)
         /\ SIZE_TABLE_PAGE_HEADER \in Nat /\ SIZE_TUPLE_SLOT \in Nat \ {0}
         /\ ONEBASE_PAGE_SIZE \in Nat
  <1>1. Len(p.slots) \in Nat /\ p.fsp \in Nat
    BY DEF Page
  <1>2. /\ SIZE_TABLE_PAGE_HEADER \in Nat /\ SIZE_TUPLE_SLOT \in Nat \ {0}
        /\ ONEBASE_PAGE_SIZE \in Nat
    BY TablePageAssumption
  <1>3. /\ Len(p.slots) * SIZE_TUPLE_SLOT \in Nat
        /\ Len(p.slots) <= Len(p.slots) * SIZE_TUPLE_SLOT
    BY <1>1, <1>2, SlotsTakeRoom
  <1>4. QED
    BY <1>1, <1>2, <1>3 DEF SlotEnd

\* InsertTuple writes the row behind a new slot and disturbs nothing.
LEMMA InsertTuplePuts ==
  ASSUME NEW p \in Page, Sound(p), NEW r \in Rows, Fits(p, r)
  PROVE  /\ InsertTuple(p, r) \in Page
         /\ Sound(InsertTuple(p, r))
         /\ Len(InsertTuple(p, r).slots) = Len(p.slots) + 1
         /\ Puts(p, InsertTuple(p, r), Len(p.slots) + 1, r)
  <1> DEFINE q == InsertTuple(p, r)
             n == SizeOf[r]
             f == p.fsp
             s == Len(p.slots) + 1
             new == [off |-> f - n, len |-> n]
  <1>1. n \in Nat \ {0} /\ f \in Nat
    BY TablePageAssumption DEF Page
  <1>2. /\ Len(p.slots) \in Nat /\ SlotEnd(p) \in Nat
        /\ SIZE_TABLE_PAGE_HEADER \in Nat /\ SIZE_TUPLE_SLOT \in Nat \ {0}
    BY SlotEndIsNat
  <1>3. f - SlotEnd(p) >= n + SIZE_TUPLE_SLOT
    BY DEF Fits, GetFreeSpaceRemaining
  <1>4. n <= f /\ f - n \in Nat /\ SlotEnd(p) + SIZE_TUPLE_SLOT <= f - n
    <2> HIDE DEF n, f
    <2>1. QED
      BY <1>1, <1>2, <1>3
  <1>5. /\ q.next = p.next /\ q.fsp = f - n /\ q.bytes = CopyIn(p.bytes, f - n, r)
        /\ q.slots = Append(p.slots, new)
    BY DEF InsertTuple, Page
  <1>6. new \in Slot /\ p.slots \in Seq(Slot) /\ p.bytes \in [Offsets -> Rows \cup {NoRow}]
    BY <1>1, <1>4 DEF Slot, Page
  <1>7. CopyIn(p.bytes, f - n, r) \in [Offsets -> Rows \cup {NoRow}]
    BY <1>6 DEF CopyIn
  <1>8. q \in Page
    <2> HIDE DEF new
    <2>1. Append(p.slots, new) \in Seq(Slot)
      BY <1>6
    <2>2. q = [p EXCEPT !.fsp = f - n, !.slots = Append(p.slots, new),
                        !.bytes = CopyIn(p.bytes, f - n, r)]
      BY DEF InsertTuple, new
    <2> HIDE DEF q
    <2>3. QED
      BY <1>4, <1>7, <2>1, <2>2 DEF Page
  <1>9. /\ Len(q.slots) = s /\ q.slots[s] = new
        /\ \A u \in 1 .. Len(p.slots) : q.slots[u] = p.slots[u]
    <2> HIDE DEF q, new
    <2>1. QED
      BY <1>5, <1>6
  <1>10. SlotEnd(q) = SlotEnd(p) + SIZE_TUPLE_SLOT
    <2>1. s * SIZE_TUPLE_SLOT = Len(p.slots) * SIZE_TUPLE_SLOT + SIZE_TUPLE_SLOT
      BY <1>2, SlotsTakeRoom
    <2>2. Len(p.slots) * SIZE_TUPLE_SLOT \in Nat
      BY <1>2, SlotsTakeRoom
    <2>3. SlotEnd(q) = SIZE_TABLE_PAGE_HEADER + s * SIZE_TUPLE_SLOT
      BY <1>9 DEF SlotEnd
    <2>4. SlotEnd(p) = SIZE_TABLE_PAGE_HEADER + Len(p.slots) * SIZE_TUPLE_SLOT
      BY DEF SlotEnd
    <2> HIDE DEF q, s
    <2>5. QED
      BY <1>2, <2>1, <2>2, <2>3, <2>4
  <1>11. SlotEnd(q) <= q.fsp
    BY <1>4, <1>5, <1>10
  <1>12. /\ s \in Nat /\ s \in 1 .. Len(q.slots)
         /\ \A u \in 1 .. Len(p.slots) : u \in 1 .. Len(q.slots)
         /\ \A u \in 1 .. Len(q.slots) : u # s => u \in 1 .. Len(p.slots)
    <2> HIDE DEF q
    <2>1. QED
      BY <1>2, <1>9
  <1> HIDE DEF q
  <1>13. Sound(q) /\ Puts(p, q, s, r)
    BY <1>4, <1>5, <1>8, <1>9, <1>11, <1>12, WriteRow
  <1>14. QED
    BY <1>8, <1>9, <1>13 DEF q

\* UpdateTuple, where the new tuple stays clear of the slots, does as much
\* for a slot that exists.
LEMMA UpdateTuplePuts ==
  ASSUME NEW p \in Page, Sound(p), NEW r \in Rows, NEW s \in 1 .. Len(p.slots),
         UpdateClear(p, r)
  PROVE  /\ UpdateTuple(p, s, r) \in Page
         /\ Sound(UpdateTuple(p, s, r))
         /\ Len(UpdateTuple(p, s, r).slots) = Len(p.slots)
         /\ Puts(p, UpdateTuple(p, s, r), s, r)
  <1> DEFINE q == UpdateTuple(p, s, r)
             n == SizeOf[r]
             f == p.fsp
             new == [off |-> f - n, len |-> n]
  <1>1. n \in Nat \ {0} /\ f \in Nat
    BY TablePageAssumption DEF Page
  <1>2. /\ Len(p.slots) \in Nat /\ SlotEnd(p) \in Nat
    BY SlotEndIsNat
  <1>3. n <= f - SlotEnd(p)
    BY DEF UpdateClear, GetFreeSpaceRemaining
  <1>4. n <= f /\ f - n \in Nat /\ SlotEnd(p) <= f - n
    <2> HIDE DEF n, f
    <2>1. QED
      BY <1>1, <1>2, <1>3
  <1>5. /\ q.next = p.next /\ q.fsp = f - n /\ q.bytes = CopyIn(p.bytes, f - n, r)
        /\ q.slots = [p.slots EXCEPT ![s] = new]
    BY DEF UpdateTuple, Page
  <1>6. new \in Slot /\ p.slots \in Seq(Slot) /\ p.bytes \in [Offsets -> Rows \cup {NoRow}]
    BY <1>1, <1>4 DEF Slot, Page
  <1>7. CopyIn(p.bytes, f - n, r) \in [Offsets -> Rows \cup {NoRow}]
    BY <1>6 DEF CopyIn
  <1>8. [p.slots EXCEPT ![s] = new] \in Seq(Slot)
    <2> HIDE DEF new
    <2>1. QED
      BY <1>6
  <1>9. q \in Page
    BY <1>4, <1>7, <1>8 DEF UpdateTuple, Page
  <1>10. /\ Len(q.slots) = Len(p.slots) /\ q.slots[s] = new
         /\ \A u \in 1 .. Len(p.slots) : u # s => q.slots[u] = p.slots[u]
    <2> HIDE DEF q, new
    <2>1. QED
      BY <1>5, <1>6
  <1>11. SlotEnd(q) <= q.fsp
    BY <1>4, <1>5, <1>10 DEF SlotEnd
  <1>12. /\ s \in Nat /\ s \in 1 .. Len(q.slots)
         /\ \A u \in 1 .. Len(p.slots) : u \in 1 .. Len(q.slots)
         /\ \A u \in 1 .. Len(q.slots) : u # s => u \in 1 .. Len(p.slots)
    <2> HIDE DEF q
    <2>1. QED
      BY <1>2, <1>10
  <1> HIDE DEF q
  <1>13. Sound(q) /\ Puts(p, q, s, r)
    BY <1>4, <1>5, <1>9, <1>10, <1>11, <1>12, WriteRow
  <1>14. QED
    BY <1>9, <1>10, <1>13 DEF q

\* DeleteTuple empties the slot and disturbs nothing else.
LEMMA DeleteTupleEmpties ==
  ASSUME NEW p \in Page, Sound(p), NEW s \in 1 .. Len(p.slots)
  PROVE  LET q == DeleteTuple(p, s) IN
         /\ q \in Page /\ Sound(q) /\ q.next = p.next
         /\ Len(q.slots) = Len(p.slots)
         /\ ~Live(q, s)
         /\ \A u \in 1 .. Len(p.slots) : u # s =>
              /\ q.slots[u] = p.slots[u]
              /\ \A x \in Rows : Keeps(p, u, x) => Keeps(q, u, x)
  <1> DEFINE q == DeleteTuple(p, s)
             new == [off |-> 0, len |-> 0]
  <1>1. /\ q.next = p.next /\ q.fsp = p.fsp /\ q.bytes = p.bytes
        /\ q.slots = [p.slots EXCEPT ![s] = new]
    BY DEF DeleteTuple, Page
  <1>2. new \in Slot /\ p.slots \in Seq(Slot)
    BY DEF Slot, Page
  <1>3. [p.slots EXCEPT ![s] = new] \in Seq(Slot)
    <2> HIDE DEF new
    <2>1. QED
      BY <1>2
  <1>4. q \in Page
    BY <1>3 DEF DeleteTuple, Page
  <1>5. /\ Len(q.slots) = Len(p.slots) /\ q.slots[s] = new
        /\ \A u \in 1 .. Len(p.slots) : u # s => q.slots[u] = p.slots[u]
    <2> HIDE DEF q, new
    <2>1. QED
      BY <1>1, <1>2
  <1>6. q.slots[s].len = 0
    BY <1>5
  <1>7. ~Live(q, s)
    BY <1>6 DEF Live
  <1> HIDE DEF q
  <1>8. SlotEnd(q) = SlotEnd(p)
    BY <1>5 DEF SlotEnd
  <1>9. \A u \in 1 .. Len(q.slots) : Live(q, u) => u # s /\ Live(p, u) /\ q.slots[u] = p.slots[u]
    BY <1>5, <1>7 DEF Live
  <1>10. Sound(q)
    BY <1>1, <1>5, <1>8, <1>9 DEF Sound
  <1>11. \A u \in 1 .. Len(p.slots) : u # s =>
           \A x \in Rows : Keeps(p, u, x) => Keeps(q, u, x)
    BY <1>1, <1>5 DEF Keeps
  <1>12. QED
    BY <1>1, <1>4, <1>5, <1>7, <1>10, <1>11 DEF q

\* A slot that keeps a row reads back as that row.
LEMMA GetTupleReads ==
  ASSUME NEW p \in Page, NEW s \in 1 .. Len(p.slots), NEW r \in Rows,
         Live(p, s), Keeps(p, s, r)
  PROVE  GetTuple(p, s) = r
  <1> DEFINE off == p.slots[s].off
             len == p.slots[s].len
  <1>1. off \in Nat /\ len \in Nat /\ len > 0
    BY SlotTypes DEF Live
  <1>2. SizeOf[r] = len /\ \A o \in off .. off + len - 1 : p.bytes[o] = r
    BY DEF Keeps
  <1>3. p.bytes[off] = r
    <2> HIDE DEF off, len
    <2>1. off \in off .. off + len - 1
      BY <1>1
    <2>2. QED
      BY <2>1, <1>2
  <1>4. QED
    BY <1>1, <1>2, <1>3 DEF GetTuple


-----------------------------------------------------------------------------
(* The pages of a table.                                                   *)

Places == Nat \X Nat

\* The pages ps are sound, the slots in use are those of the rows rs, and
\* each of them keeps its row.
Kept(ps, rs) ==
  /\ ps \in Seq(Page)
  /\ DOMAIN rs \subseteq Places
  /\ rs \in [DOMAIN rs -> Rows]
  /\ \A n \in 1 .. Len(ps) : Sound(ps[n])
  /\ \A n, s \in Nat : <<n, s>> \in DOMAIN rs =>
       n \in 1 .. Len(ps) /\ s \in 1 .. Len(ps[n].slots)
  /\ \A n \in 1 .. Len(ps) : \A s \in 1 .. Len(ps[n].slots) :
       /\ Live(ps[n], s) <=> <<n, s>> \in DOMAIN rs
       /\ <<n, s>> \in DOMAIN rs => Keeps(ps[n], s, rs[<<n, s>>])

Store(rs, rid, r) == [x \in DOMAIN rs \cup {rid} |-> IF x = rid THEN r ELSE rs[x]]

\* A row is put into one page.
LEMMA PutKept ==
  ASSUME NEW ps, NEW rs, Kept(ps, rs), NEW n \in 1 .. Len(ps), NEW q \in Page, Sound(q),
         NEW s \in Nat, NEW r \in Rows, Puts(ps[n], q, s, r)
  PROVE  /\ Kept([ps EXCEPT ![n] = q], Store(rs, <<n, s>>, r))
         /\ Len([ps EXCEPT ![n] = q]) = Len(ps)
         /\ \A m \in 1 .. Len(ps) : [ps EXCEPT ![n] = q][m].next = ps[m].next
  <1> DEFINE qs == [ps EXCEPT ![n] = q]
             D == DOMAIN rs \cup {<<n, s>>}
             ns == Store(rs, <<n, s>>, r)
  <1>1. /\ ps \in Seq(Page) /\ Len(ps) \in Nat /\ n \in Nat
    BY DEF Kept
  <1>2. /\ qs \in Seq(Page) /\ Len(qs) = Len(ps) /\ qs[n] = q
        /\ \A m \in 1 .. Len(ps) : m # n => qs[m] = ps[m]
    BY <1>1
  <1>3. /\ DOMAIN ns = D /\ ns[<<n, s>>] = r
        /\ \A x \in DOMAIN rs : x # <<n, s>> => ns[x] = rs[x]
        /\ ns = [x \in D |-> ns[x]]
    BY DEF Store
  <1>4. DOMAIN rs \subseteq Places /\ rs \in [DOMAIN rs -> Rows]
    BY DEF Kept
  <1>5. D \subseteq Places
    BY <1>1, <1>4 DEF Places
  <1> HIDE DEF qs, D, ns
  <1>6. ns \in [D -> Rows]
    BY <1>3, <1>4 DEF D
  <1>7. \A m \in 1 .. Len(qs) : Sound(qs[m])
    BY <1>2 DEF Kept
  <1>8. \A m, u : <<m, u>> = <<n, s>> <=> m = n /\ u = s
    OBVIOUS
  <1>9. /\ s \in 1 .. Len(q.slots)
        /\ \A u \in 1 .. Len(ps[n].slots) : u \in 1 .. Len(q.slots)
        /\ \A u \in 1 .. Len(q.slots) : u # s => u \in 1 .. Len(ps[n].slots)
        /\ \A u \in 1 .. Len(ps[n].slots) : u # s =>
             /\ q.slots[u] = ps[n].slots[u]
             /\ \A x \in Rows : Live(ps[n], u) /\ Keeps(ps[n], u, x) => Keeps(q, u, x)
        /\ Live(q, s) /\ Keeps(q, s, r) /\ q.next = ps[n].next
    BY DEF Puts
  <1>10. ASSUME NEW m \in Nat, NEW u \in Nat, <<m, u>> \in D
         PROVE  m \in 1 .. Len(qs) /\ u \in 1 .. Len(qs[m].slots)
    <2>1. CASE m = n /\ u = s
      BY <2>1, <1>2, <1>9
    <2>2. CASE ~(m = n /\ u = s)
      <3>1. <<m, u>> \in DOMAIN rs
        BY <2>2, <1>10, <1>8 DEF D
      <3>2. m \in 1 .. Len(ps) /\ u \in 1 .. Len(ps[m].slots)
        BY <3>1 DEF Kept
      <3>3. QED
        BY <3>2, <1>2, <1>9
    <2>3. QED
      BY <2>1, <2>2
  <1>11. ASSUME NEW m \in 1 .. Len(qs), NEW u \in 1 .. Len(qs[m].slots)
         PROVE  /\ Live(qs[m], u) <=> <<m, u>> \in D
                /\ <<m, u>> \in D => Keeps(qs[m], u, ns[<<m, u>>])
    <2>1. CASE m = n /\ u = s
      BY <2>1, <1>2, <1>3, <1>9 DEF D
    <2>2. CASE ~(m = n /\ u = s)
      <3>1. <<m, u>> \in D <=> <<m, u>> \in DOMAIN rs
        BY <2>2, <1>8 DEF D
      <3>2. <<m, u>> \in D => ns[<<m, u>>] = rs[<<m, u>>] /\ rs[<<m, u>>] \in Rows
        BY <3>1, <2>2, <1>3, <1>4, <1>8
      <3>3. m \in 1 .. Len(ps) /\ u \in 1 .. Len(ps[m].slots)
        BY <2>2, <1>2, <1>9
      <3>4. /\ Live(ps[m], u) <=> <<m, u>> \in DOMAIN rs
            /\ <<m, u>> \in DOMAIN rs => Keeps(ps[m], u, rs[<<m, u>>])
        BY <3>3 DEF Kept
      <3>5. CASE m # n
        BY <3>5, <3>1, <3>2, <3>3, <3>4, <1>2
      <3>6. CASE m = n
        <4>1. u # s /\ q.slots[u] = ps[n].slots[u] /\ qs[m] = q
          BY <2>2, <3>3, <3>6, <1>2, <1>9
        <4>2. Live(q, u) <=> Live(ps[n], u)
          BY <4>1 DEF Live
        <4>3. \A x \in Rows : Live(ps[n], u) /\ Keeps(ps[n], u, x) => Keeps(q, u, x)
          BY <4>1, <3>3, <3>6, <1>9
        <4>4. QED
          BY <4>1, <4>2, <4>3, <3>1, <3>2, <3>4, <3>6
      <3>7. QED
        BY <3>5, <3>6
    <2>3. QED
      BY <2>1, <2>2
  <1>12. Kept(qs, ns)
    BY <1>2, <1>3, <1>5, <1>6, <1>7, <1>10, <1>11 DEF Kept
  <1>13. \A m \in 1 .. Len(ps) : qs[m].next = ps[m].next
    BY <1>2, <1>9
  <1>14. QED
    BY <1>2, <1>12, <1>13 DEF qs, ns

\* A row is taken out of one page.
LEMMA RemoveKept ==
  ASSUME NEW ps, NEW rs, Kept(ps, rs), NEW n \in 1 .. Len(ps),
         NEW s \in 1 .. Len(ps[n].slots), NEW q, q = DeleteTuple(ps[n], s),
         NEW ns, ns = Restrict(rs, DOMAIN rs \ {<<n, s>>})
  PROVE  /\ Kept([ps EXCEPT ![n] = q], ns)
         /\ Len([ps EXCEPT ![n] = q]) = Len(ps)
         /\ \A m \in 1 .. Len(ps) : [ps EXCEPT ![n] = q][m].next = ps[m].next
  <1> DEFINE qs == [ps EXCEPT ![n] = q]
             D == DOMAIN rs \ {<<n, s>>}
  <1>1. /\ ps \in Seq(Page) /\ Len(ps) \in Nat /\ ps[n] \in Page /\ Sound(ps[n])
    BY DEF Kept
  <1>2. /\ q \in Page /\ Sound(q) /\ q.next = ps[n].next
        /\ Len(q.slots) = Len(ps[n].slots) /\ ~Live(q, s)
        /\ \A u \in 1 .. Len(ps[n].slots) : u # s =>
             /\ q.slots[u] = ps[n].slots[u]
             /\ \A x \in Rows : Keeps(ps[n], u, x) => Keeps(q, u, x)
    BY <1>1, DeleteTupleEmpties
  <1>3. /\ qs \in Seq(Page) /\ Len(qs) = Len(ps) /\ qs[n] = q
        /\ \A m \in 1 .. Len(ps) : m # n => qs[m] = ps[m]
    BY <1>1, <1>2
  <1>4. /\ DOMAIN ns = D
        /\ \A x \in D : ns[x] = rs[x]
        /\ ns = [x \in D |-> ns[x]]
    BY DEF Restrict
  <1>5. DOMAIN rs \subseteq Places /\ rs \in [DOMAIN rs -> Rows]
    BY DEF Kept
  <1>6. D \subseteq Places
    BY <1>5
  <1>7. \A m, u : <<m, u>> \in D <=> <<m, u>> \in DOMAIN rs /\ ~(m = n /\ u = s)
    OBVIOUS
  <1>8. \A x \in D : x \in DOMAIN rs
    OBVIOUS
  <1> HIDE DEF qs, D
  <1>9. ns \in [D -> Rows]
    BY <1>4, <1>5, <1>8
  <1>10. \A m \in 1 .. Len(qs) : Sound(qs[m])
    BY <1>2, <1>3 DEF Kept
  <1>11. \A m \in 1 .. Len(ps) : Len(qs[m].slots) = Len(ps[m].slots)
    BY <1>2, <1>3
  <1>12. ASSUME NEW m \in Nat, NEW u \in Nat, <<m, u>> \in D
         PROVE  m \in 1 .. Len(qs) /\ u \in 1 .. Len(qs[m].slots)
    <2>1. m \in 1 .. Len(ps) /\ u \in 1 .. Len(ps[m].slots)
      BY <1>7, <1>12 DEF Kept
    <2>2. QED
      BY <2>1, <1>3, <1>11
  <1>13. ASSUME NEW m \in 1 .. Len(qs), NEW u \in 1 .. Len(qs[m].slots)
         PROVE  /\ Live(qs[m], u) <=> <<m, u>> \in D
                /\ <<m, u>> \in D => Keeps(qs[m], u, ns[<<m, u>>])
    <2>1. m \in 1 .. Len(ps) /\ u \in 1 .. Len(ps[m].slots)
      BY <1>3, <1>11
    <2>2. /\ Live(ps[m], u) <=> <<m, u>> \in DOMAIN rs
          /\ <<m, u>> \in DOMAIN rs => Keeps(ps[m], u, rs[<<m, u>>])
      BY <2>1 DEF Kept
    <2>3. <<m, u>> \in D => ns[<<m, u>>] = rs[<<m, u>>] /\ rs[<<m, u>>] \in Rows
      BY <1>4, <1>5, <1>7
    <2>4. CASE m # n
      BY <2>1, <2>2, <2>3, <2>4, <1>3, <1>7
    <2>5. CASE m = n /\ u = s
      BY <2>5, <1>2, <1>3, <1>7
    <2>6. CASE m = n /\ u # s
      <3>1. qs[m] = q /\ q.slots[u] = ps[n].slots[u]
        BY <2>1, <2>6, <1>2, <1>3
      <3>2. Live(q, u) <=> Live(ps[n], u)
        BY <3>1 DEF Live
      <3>3. \A x \in Rows : Keeps(ps[n], u, x) => Keeps(q, u, x)
        BY <2>1, <2>6, <1>2
      <3>4. QED
        BY <3>1, <3>2, <3>3, <2>2, <2>3, <2>6, <1>7
    <2>7. QED
      BY <2>4, <2>5, <2>6
  <1>14. Kept(qs, ns)
    BY <1>3, <1>4, <1>6, <1>9, <1>10, <1>12, <1>13 DEF Kept
  <1>15. \A m \in 1 .. Len(ps) : qs[m].next = ps[m].next
    BY <1>2, <1>3
  <1>16. QED
    BY <1>3, <1>14, <1>15 DEF qs

LEMMA SetNextPageId ==
  ASSUME NEW p \in Page, NEW m \in Nat, NEW q, q = [p EXCEPT !.next = m]
  PROVE  /\ q \in Page /\ q.next = m /\ q.slots = p.slots
         /\ q.fsp = p.fsp /\ q.bytes = p.bytes
  BY DEF Page

\* An empty page is linked behind one of the pages.
LEMMA LinkKept ==
  ASSUME NEW ps, NEW rs, Kept(ps, rs), NEW n \in 1 .. Len(ps), NEW m \in Nat
  PROVE  LET qs == Append([ps EXCEPT ![n].next = m], InitPage) IN
         /\ Kept(qs, rs)
         /\ Len(qs) = Len(ps) + 1
         /\ qs[Len(ps) + 1] = InitPage
         /\ \A i \in 1 .. Len(ps) : qs[i].next = IF i = n THEN m ELSE ps[i].next
  <1> DEFINE q == [ps[n] EXCEPT !.next = m]
             es == [ps EXCEPT ![n] = q]
             qs == Append(es, InitPage)
  <1>1. /\ ps \in Seq(Page) /\ Len(ps) \in Nat /\ ps[n] \in Page /\ Sound(ps[n])
    BY DEF Kept
  <1>2. /\ q \in Page /\ q.next = m /\ q.slots = ps[n].slots
        /\ q.fsp = ps[n].fsp /\ q.bytes = ps[n].bytes
    BY <1>1, SetNextPageId
  <1>3. es = [ps EXCEPT ![n].next = m]
    OBVIOUS
  <1> HIDE DEF q
  <1>4. Sound(q)
    BY <1>1, <1>2 DEF Sound, SlotEnd, Live
  <1>5. /\ InitPage \in Page /\ Sound(InitPage) /\ InitPage.slots = <<>>
    BY InitPageSound
  <1>6. Len(InitPage.slots) = 0
    BY <1>5
  <1>7. /\ es \in Seq(Page) /\ Len(es) = Len(ps) /\ es[n] = q
        /\ \A i \in 1 .. Len(ps) : i # n => es[i] = ps[i]
    BY <1>1, <1>2
  <1> HIDE DEF es
  <1>8. /\ qs \in Seq(Page) /\ Len(qs) = Len(ps) + 1 /\ qs[Len(ps) + 1] = InitPage
        /\ \A i \in 1 .. Len(ps) : qs[i] = es[i]
    BY <1>1, <1>5, <1>7
  <1> HIDE DEF qs
  <1>9. \A i \in 1 .. Len(ps) :
          /\ qs[i].slots = ps[i].slots /\ qs[i].bytes = ps[i].bytes
          /\ qs[i].next = IF i = n THEN m ELSE ps[i].next
          /\ Sound(qs[i])
    <2>1. \A i \in 1 .. Len(ps) : Sound(ps[i])
      BY DEF Kept
    <2>2. QED
      BY <2>1, <1>2, <1>4, <1>7, <1>8
  <1>10. \A i \in 1 .. Len(qs) : i \in 1 .. Len(ps) \/ i = Len(ps) + 1
    BY <1>1, <1>8
  <1>11. \A i \in 1 .. Len(qs) : Sound(qs[i])
    BY <1>5, <1>8, <1>9, <1>10
  <1>12. ASSUME NEW i \in Nat, NEW u \in Nat, <<i, u>> \in DOMAIN rs
         PROVE  i \in 1 .. Len(qs) /\ u \in 1 .. Len(qs[i].slots)
    <2>1. i \in 1 .. Len(ps) /\ u \in 1 .. Len(ps[i].slots)
      BY <1>12 DEF Kept
    <2>2. QED
      BY <2>1, <1>1, <1>8, <1>9
  <1>13. ASSUME NEW i \in 1 .. Len(qs), NEW u \in 1 .. Len(qs[i].slots)
         PROVE  /\ Live(qs[i], u) <=> <<i, u>> \in DOMAIN rs
                /\ <<i, u>> \in DOMAIN rs => Keeps(qs[i], u, rs[<<i, u>>])
    <2>1. i \in 1 .. Len(ps)
      <3>1. ASSUME i = Len(ps) + 1 PROVE FALSE
        <4>1. u \in 1 .. 0
          BY <3>1, <1>6, <1>8
        <4>2. QED
          BY <4>1
      <3>2. QED
        BY <3>1, <1>10
    <2>2. u \in 1 .. Len(ps[i].slots)
      BY <2>1, <1>9
    <2>3. /\ Live(ps[i], u) <=> <<i, u>> \in DOMAIN rs
          /\ <<i, u>> \in DOMAIN rs => Keeps(ps[i], u, rs[<<i, u>>])
      BY <2>1, <2>2 DEF Kept
    <2>4. QED
      BY <2>1, <2>3, <1>9 DEF Live, Keeps
  <1>14. Kept(qs, rs)
    <2>1. DOMAIN rs \subseteq Places /\ rs \in [DOMAIN rs -> Rows]
      BY DEF Kept
    <2>2. QED
      BY <2>1, <1>8, <1>11, <1>12, <1>13 DEF Kept
  <1>15. QED
    BY <1>3, <1>8, <1>9, <1>14 DEF qs


-----------------------------------------------------------------------------
(* The inductive invariant for any number of writers.                      *)

Insertions == [op : {"insert"}, row : Rows, page : Nat, at : {"visit", "link"}]
Scans == [op : {"scan"}, at : {"search", "row", "end"}, page : Nat, slot : Nat,
          seen : Seq(Places), must : SUBSET Places, cut : BOOLEAN]
Calls == {Idle, Undefined} \cup Insertions \cup Scans

CallsTyped == call \in [Threads -> Calls]

\* The list leads on, to pages that exist, and so does every call.
LinksLeadOn ==
  /\ Len(pages) >= 1
  /\ \A n \in 1 .. Len(pages) :
       pages[n].next = INVALID_PAGE_ID \/ pages[n].next \in n + 1 .. Len(pages)
  /\ \A t \in Threads : call[t].op \in {"insert", "scan"} => call[t].page \in 1 .. Len(pages)

HInv == Kept(pages, rows) /\ CallsTyped /\ LinksLeadOn

LEMMA CallKinds ==
  ASSUME NEW c \in Calls
  PROVE  /\ c.op \in {"idle", "undefined", "insert", "scan"}
         /\ c.op = "insert" => c \in Insertions
         /\ c.op = "scan" => c \in Scans
         /\ c = Idle => c.op = "idle"
         /\ c = Undefined => c.op = "undefined"
  BY DEF Calls, Idle, Undefined, Insertions, Scans

LEMMA ScanTypes ==
  ASSUME NEW c \in Scans
  PROVE  /\ c.op = "scan" /\ c.at \in {"search", "row", "end"}
         /\ c.page \in Nat /\ c.slot \in Nat /\ c.seen \in Seq(Places)
         /\ c.must \in SUBSET Places /\ c.cut \in BOOLEAN
  BY DEF Scans

LEMMA InsertionTypes ==
  ASSUME NEW c \in Insertions
  PROVE  c.op = "insert" /\ c.row \in Rows /\ c.page \in Nat /\ c.at \in {"visit", "link"}
  BY DEF Insertions

\* The links of the pages stay as they are.
SameLinks ==
  /\ Len(pages') = Len(pages)
  /\ \A m \in 1 .. Len(pages) : pages'[m].next = pages[m].next

LEMMA InsertHereEffect ==
  ASSUME HInv, NEW t \in Threads, InsertHere(t)
  PROVE  /\ Kept(pages', rows') /\ SameLinks /\ DOMAIN rows \subseteq DOMAIN rows'
         /\ call' = [call EXCEPT ![t] = Idle]
  <1> DEFINE p == call[t].page
             r == call[t].row
             s == Len(pages[p].slots) + 1
             q == InsertTuple(pages[p], r)
  <1>1. /\ call[t].op = "insert" /\ Fits(pages[p], r)
        /\ pages' = [pages EXCEPT ![p] = q]
        /\ rows' = Store(rows, <<p, s>>, r)
        /\ call' = [call EXCEPT ![t] = Idle]
    BY DEF InsertHere, Stored, Store
  <1>2. call[t] \in Calls
    BY DEF HInv, CallsTyped
  <1>3. r \in Rows
    BY <1>1, <1>2, CallKinds, InsertionTypes
  <1>4. p \in 1 .. Len(pages)
    BY <1>1 DEF HInv, LinksLeadOn
  <1>5. Kept(pages, rows)
    BY DEF HInv
  <1>6. pages[p] \in Page /\ Sound(pages[p])
    BY <1>4, <1>5 DEF Kept
  <1>7. s \in Nat
    BY <1>6, SlotEndIsNat
  <1>8. q \in Page /\ Sound(q) /\ Puts(pages[p], q, s, r)
    BY <1>1, <1>3, <1>6, InsertTuplePuts
  <1> HIDE DEF p, r, s, q
  <1>9. /\ Kept(pages', rows')
        /\ Len(pages') = Len(pages)
        /\ \A m \in 1 .. Len(pages) : pages'[m].next = pages[m].next
    <2>1. /\ Kept([pages EXCEPT ![p] = q], Store(rows, <<p, s>>, r))
          /\ Len([pages EXCEPT ![p] = q]) = Len(pages)
          /\ \A m \in 1 .. Len(pages) : [pages EXCEPT ![p] = q][m].next = pages[m].next
      BY <1>3, <1>4, <1>5, <1>7, <1>8, PutKept
    <2>2. QED
      BY <2>1, <1>1
  <1>10. DOMAIN rows \subseteq DOMAIN rows'
    BY <1>1 DEF Store
  <1>11. QED
    BY <1>1, <1>9, <1>10 DEF SameLinks

LEMMA KnownPlace ==
  ASSUME HInv, NEW rid \in Known
  PROVE  /\ rid = <<rid[1], rid[2]>>
         /\ rid[1] \in 1 .. Len(pages)
         /\ rid[2] \in 1 .. Len(pages[rid[1]].slots)
         /\ pages[rid[1]] \in Page /\ Sound(pages[rid[1]])
  <1>1. PICK n \in 1 .. Len(pages), s \in 1 .. ONEBASE_PAGE_SIZE : rid = <<n, s>>
    BY DEF Known, Rids
  <1>2. rid[2] <= Len(pages[rid[1]].slots)
    BY DEF Known
  <1>3. rid[1] = n /\ rid[2] = s
    BY <1>1
  <1>4. pages[n] \in Page /\ Sound(pages[n])
    BY DEF HInv, Kept
  <1>5. Len(pages[n].slots) \in Nat
    BY <1>4, SlotEndIsNat
  <1>6. ONEBASE_PAGE_SIZE \in Nat
    BY TablePageAssumption
  <1>7. s \in 1 .. Len(pages[n].slots)
    BY <1>2, <1>3, <1>5, <1>6
  <1>8. QED
    BY <1>1, <1>3, <1>4, <1>7

LEMMA UpdateEffect ==
  ASSUME HInv, NEW t \in Threads, NEW rid \in Known, NEW r \in Rows, Update(t, rid, r)
  PROVE  /\ Kept(pages', rows') /\ SameLinks /\ DOMAIN rows \subseteq DOMAIN rows'
         /\ call' = [call EXCEPT ![t] = Idle]
  <1> DEFINE p == rid[1]
             s == rid[2]
             q == UpdateTuple(pages[p], s, r)
  <1>1. /\ UpdateClear(pages[p], r)
        /\ pages' = [pages EXCEPT ![p] = q]
        /\ rows' = Store(rows, <<p, s>>, r)
        /\ call' = [call EXCEPT ![t] = Idle]
    BY DEF Update, Stored, Store
  <1>2. /\ p \in 1 .. Len(pages) /\ s \in 1 .. Len(pages[p].slots)
        /\ pages[p] \in Page /\ Sound(pages[p])
    BY KnownPlace
  <1>3. Kept(pages, rows)
    BY DEF HInv
  <1>4. q \in Page /\ Sound(q) /\ Puts(pages[p], q, s, r)
    BY <1>1, <1>2, UpdateTuplePuts
  <1>5. s \in Nat
    BY <1>2
  <1> HIDE DEF p, s, q
  <1>6. /\ Kept(pages', rows')
        /\ Len(pages') = Len(pages)
        /\ \A m \in 1 .. Len(pages) : pages'[m].next = pages[m].next
    <2>1. /\ Kept([pages EXCEPT ![p] = q], Store(rows, <<p, s>>, r))
          /\ Len([pages EXCEPT ![p] = q]) = Len(pages)
          /\ \A m \in 1 .. Len(pages) : [pages EXCEPT ![p] = q][m].next = pages[m].next
      BY <1>2, <1>3, <1>4, <1>5, PutKept
    <2>2. QED
      BY <2>1, <1>1
  <1>7. DOMAIN rows \subseteq DOMAIN rows'
    BY <1>1 DEF Store
  <1>8. QED
    BY <1>1, <1>6, <1>7 DEF SameLinks

LEMMA DeleteEffect ==
  ASSUME HInv, NEW t \in Threads, NEW rid \in Known, Delete(t, rid)
  PROVE  /\ Kept(pages', rows') /\ SameLinks /\ DOMAIN rows' = DOMAIN rows \ {rid}
         /\ call' = [u \in Threads |->
              IF call[u].op = "scan" THEN [call[u] EXCEPT !.must = @ \ {rid}] ELSE call[u]]
  <1> DEFINE p == rid[1]
             s == rid[2]
             q == DeleteTuple(pages[p], s)
  <1>1. /\ p \in 1 .. Len(pages) /\ s \in 1 .. Len(pages[p].slots)
        /\ rid = <<p, s>>
    BY KnownPlace
  <1>2. /\ pages' = [pages EXCEPT ![p] = q]
        /\ rows' = Restrict(rows, DOMAIN rows \ {rid})
    BY DEF Delete
  <1>3. Kept(pages, rows)
    BY DEF HInv
  <1>4. rows' = Restrict(rows, DOMAIN rows \ {<<p, s>>})
    BY <1>1, <1>2
  <1> HIDE DEF p, s
  <1>5. /\ Kept(pages', rows')
        /\ Len(pages') = Len(pages)
        /\ \A m \in 1 .. Len(pages) : pages'[m].next = pages[m].next
    <2>0. /\ p \in 1 .. Len(pages) /\ s \in 1 .. Len(pages[p].slots)
          /\ q = DeleteTuple(pages[p], s)
      BY <1>1
    <2> HIDE DEF q
    <2>1. /\ Kept([pages EXCEPT ![p] = q], rows')
          /\ Len([pages EXCEPT ![p] = q]) = Len(pages)
          /\ \A m \in 1 .. Len(pages) : [pages EXCEPT ![p] = q][m].next = pages[m].next
      BY <2>0, <1>3, <1>4, RemoveKept
    <2>2. QED
      BY <2>1, <1>2
  <1>6. DOMAIN rows' = DOMAIN rows \ {rid}
    BY <1>2 DEF Restrict
  <1>7. QED
    BY <1>5, <1>6 DEF SameLinks, Delete

LEMMA AppendOver ==
  ASSUME NEW S, NEW fs \in Seq(S), NEW a \in S, NEW b \in S
  PROVE  Append(fs, b) = [Append(fs, a) EXCEPT ![Len(fs) + 1] = b]
  <1> DEFINE x == Append(fs, b)
             z == Append(fs, a)
             y == [z EXCEPT ![Len(fs) + 1] = b]
  <1>1. Len(fs) \in Nat
    OBVIOUS
  <1>2. /\ x \in Seq(S) /\ Len(x) = Len(fs) + 1 /\ x[Len(fs) + 1] = b
        /\ \A i \in 1 .. Len(fs) : x[i] = fs[i]
    OBVIOUS
  <1>3. /\ z \in Seq(S) /\ Len(z) = Len(fs) + 1
        /\ \A i \in 1 .. Len(fs) : z[i] = fs[i]
    OBVIOUS
  <1> HIDE DEF x, z
  <1>4. Len(fs) + 1 \in 1 .. Len(z)
    BY <1>1, <1>3
  <1>5. /\ y \in Seq(S) /\ Len(y) = Len(z) /\ y[Len(fs) + 1] = b
        /\ \A i \in 1 .. Len(z) : i # Len(fs) + 1 => y[i] = z[i]
    BY <1>3, <1>4
  <1> HIDE DEF y
  <1>6. \A i \in 1 .. Len(fs) + 1 : i # Len(fs) + 1 => i \in 1 .. Len(fs)
    BY <1>1
  <1>7. \A i \in 1 .. Len(fs) + 1 : x[i] = y[i]
    BY <1>2, <1>3, <1>5, <1>6
  <1>8. DOMAIN x = 1 .. Len(fs) + 1 /\ DOMAIN y = 1 .. Len(fs) + 1
    BY <1>2, <1>3, <1>5
  <1>9. x = y
    BY <1>2, <1>3, <1>5, <1>7, <1>8
  <1>10. QED
    BY <1>9 DEF x, y, z

LEMMA InsertLinkEffect ==
  ASSUME HInv, NEW t \in Threads, InsertLink(t)
  PROVE  /\ Kept(pages', rows')
         /\ Len(pages') = Len(pages) + 1
         /\ pages'[Len(pages) + 1].next = INVALID_PAGE_ID
         /\ \A i \in 1 .. Len(pages) :
              pages'[i].next = IF i = call[t].page THEN Len(pages) + 1 ELSE pages[i].next
         /\ DOMAIN rows \subseteq DOMAIN rows'
         /\ call' = [call EXCEPT ![t] = Idle]
  <1> DEFINE p == call[t].page
             r == call[t].row
             n == Len(pages) + 1
             es == Append([pages EXCEPT ![p].next = n], InitPage)
             q == InsertTuple(InitPage, r)
  <1>1. /\ call[t].op = "insert"
        /\ call' = [call EXCEPT ![t] = Idle]
    BY DEF InsertLink, Stored
  <1>2. call[t] \in Calls
    BY DEF HInv, CallsTyped
  <1>3. r \in Rows
    BY <1>1, <1>2, CallKinds, InsertionTypes
  <1>4. p \in 1 .. Len(pages)
    BY <1>1 DEF HInv, LinksLeadOn
  <1>5. Kept(pages, rows)
    BY DEF HInv
  <1>6. pages \in Seq(Page) /\ Len(pages) \in Nat /\ n \in Nat
    BY <1>5 DEF Kept
  <1>7. /\ Kept(es, rows) /\ Len(es) = n /\ es[n] = InitPage
        /\ \A i \in 1 .. Len(pages) : es[i].next = IF i = p THEN n ELSE pages[i].next
    BY <1>4, <1>5, <1>6, LinkKept
  <1>8. InitPage.next = INVALID_PAGE_ID
    BY DEF InitPage
  <1>9. InitPage \in Page /\ Sound(InitPage) /\ InitPage.slots = <<>>
    BY InitPageSound
  <1>10. CASE ~Fits(InitPage, r)
    <2>1. pages' = es /\ rows' = rows
      BY <1>10 DEF InsertLink
    <2>2. QED
      BY <2>1, <1>1, <1>7, <1>8
  <1>11. CASE Fits(InitPage, r)
    <2>1. /\ pages' = Append([pages EXCEPT ![p].next = n], q)
          /\ rows' = Store(rows, <<n, 1>>, r)
      BY <1>11 DEF InsertLink, Stored, Store
    <2>2. Len(InitPage.slots) + 1 = 1
      BY <1>9
    <2>3. q \in Page /\ Sound(q) /\ Puts(es[n], q, 1, r)
      BY <1>3, <1>7, <1>9, <1>11, <2>2, InsertTuplePuts
    <2>4. [pages EXCEPT ![p].next = n] \in Seq(Page) /\ Len([pages EXCEPT ![p].next = n]) = Len(pages)
      <3>1. pages[p] \in Page
        BY <1>4, <1>6
      <3>2. [pages[p] EXCEPT !.next = n] \in Page
        BY <3>1, <1>6, SetNextPageId
      <3>3. QED
        BY <3>2, <1>4, <1>6
    <2>5. n \in 1 .. Len(es)
      BY <1>6, <1>7
    <2>6. Append([pages EXCEPT ![p].next = n], q) = [es EXCEPT ![n] = q]
      <3> DEFINE fs == [pages EXCEPT ![p].next = n]
      <3>1. fs \in Seq(Page) /\ Len(fs) = Len(pages) /\ InitPage \in Page /\ q \in Page
        BY <2>3, <2>4, <1>9
      <3> HIDE DEF fs, q
      <3>2. Append(fs, q) = [Append(fs, InitPage) EXCEPT ![n] = q]
        BY <3>1, AppendOver
      <3>3. QED
        BY <3>2 DEF fs
    <2> HIDE DEF es, q, r
    <2>7. /\ Kept([es EXCEPT ![n] = q], Store(rows, <<n, 1>>, r))
          /\ Len([es EXCEPT ![n] = q]) = Len(es)
          /\ \A m \in 1 .. Len(es) : [es EXCEPT ![n] = q][m].next = es[m].next
      BY <1>3, <1>7, <2>3, <2>5, PutKept, ZenonT(60)
    <2>8. DOMAIN rows \subseteq DOMAIN rows'
      BY <2>1 DEF Store
    <2>9. \A i \in 1 .. Len(pages) : i \in 1 .. Len(es)
      BY <1>6, <1>7
    <2>10. /\ pages' = [es EXCEPT ![n] = q]
           /\ Len(pages') = n /\ Kept(pages', rows')
           /\ \A m \in 1 .. Len(es) : pages'[m].next = es[m].next
      BY <1>7, <2>1, <2>6, <2>7
    <2>11. QED
      BY <1>1, <1>7, <1>8, <2>5, <2>8, <2>9, <2>10
  <1>12. QED
    BY <1>10, <1>11


Placed(c) == c.op \in {"insert", "scan"} => c.page \in 1 .. Len(pages)

\* A step of thread t that changes no page.
LEMMA CallStep ==
  ASSUME HInv, pages' = pages, rows' = rows, NEW t \in Threads, NEW c \in Calls, Placed(c),
         call' = [call EXCEPT ![t] = c]
  PROVE  HInv'
  <1>1. CallsTyped'
    BY DEF HInv, CallsTyped
  <1>2. \A u \in Threads : call'[u] = IF u = t THEN c ELSE call[u]
    BY DEF HInv, CallsTyped
  <1>3. \A u \in Threads : call'[u].op \in {"insert", "scan"} => call'[u].page \in 1 .. Len(pages')
    BY <1>2 DEF HInv, LinksLeadOn, Placed
  <1>4. LinksLeadOn'
    BY <1>3 DEF HInv, LinksLeadOn
  <1>5. QED
    BY <1>1, <1>4 DEF HInv

LEMMA IdlePlaced == Idle \in Calls /\ Placed(Idle) /\ Idle.op = "idle"
  BY DEF Calls, Idle, Placed

\* A step that ends the call of t and keeps the links.
LEMMA PageStep ==
  ASSUME HInv, Kept(pages', rows'), SameLinks, NEW t \in Threads,
         call' = [call EXCEPT ![t] = Idle]
  PROVE  HInv'
  <1>1. CallsTyped'
    BY IdlePlaced DEF HInv, CallsTyped
  <1>2. \A u \in Threads : call'[u] = IF u = t THEN Idle ELSE call[u]
    BY DEF HInv, CallsTyped
  <1>3. \A u \in Threads : call'[u].op \in {"insert", "scan"} => call'[u].page \in 1 .. Len(pages')
    BY <1>2, IdlePlaced DEF HInv, LinksLeadOn, SameLinks
  <1>4. LinksLeadOn'
    BY <1>3 DEF HInv, LinksLeadOn, SameLinks
  <1>5. QED
    BY <1>1, <1>4 DEF HInv

LEMMA LinkStep ==
  ASSUME HInv, NEW t \in Threads, InsertLink(t)
  PROVE  HInv'
  <1> DEFINE n == Len(pages) + 1
  <1>1. /\ Kept(pages', rows') /\ Len(pages') = n
        /\ pages'[n].next = INVALID_PAGE_ID
        /\ \A i \in 1 .. Len(pages) :
             pages'[i].next = IF i = call[t].page THEN n ELSE pages[i].next
        /\ call' = [call EXCEPT ![t] = Idle]
    BY InsertLinkEffect
  <1>2. CallsTyped'
    BY <1>1, IdlePlaced DEF HInv, CallsTyped
  <1>3. \A u \in Threads : call'[u] = IF u = t THEN Idle ELSE call[u]
    BY <1>1 DEF HInv, CallsTyped
  <1>4. Len(pages) \in Nat
    BY DEF HInv, Kept
  <1>5. 1 .. Len(pages) \subseteq 1 .. Len(pages')
    BY <1>1, <1>4
  <1>6. \A u \in Threads : call'[u].op \in {"insert", "scan"} => call'[u].page \in 1 .. Len(pages')
    BY <1>3, <1>5, IdlePlaced DEF HInv, LinksLeadOn
  <1>7. ASSUME NEW i \in 1 .. Len(pages')
        PROVE  pages'[i].next = INVALID_PAGE_ID \/ pages'[i].next \in i + 1 .. Len(pages')
    <2>1. CASE i = n
      BY <2>1, <1>1
    <2>2. CASE i # n
      <3>1. i \in 1 .. Len(pages)
        BY <2>2, <1>1, <1>4
      <3>2. pages[i].next = INVALID_PAGE_ID \/ pages[i].next \in i + 1 .. Len(pages)
        BY <3>1 DEF HInv, LinksLeadOn
      <3>3. n \in i + 1 .. n
        BY <3>1, <1>4
      <3>4. \A m \in i + 1 .. Len(pages) : m \in i + 1 .. n
        BY <3>1, <1>4
      <3>5. QED
        BY <3>1, <3>2, <3>3, <3>4, <1>1
    <2>3. QED
      BY <2>1, <2>2
  <1>8. Len(pages') >= 1
    BY <1>1, <1>4
  <1>9. LinksLeadOn'
    BY <1>6, <1>7, <1>8 DEF LinksLeadOn
  <1>10. QED
    BY <1>1, <1>2, <1>9 DEF HInv

LEMMA DeleteStep ==
  ASSUME HInv, NEW t \in Threads, NEW rid \in Known, Delete(t, rid)
  PROVE  HInv'
  <1>1. /\ Kept(pages', rows') /\ SameLinks
        /\ call' = [u \in Threads |->
             IF call[u].op = "scan" THEN [call[u] EXCEPT !.must = @ \ {rid}] ELSE call[u]]
    BY DeleteEffect
  <1>2. ASSUME NEW c \in Scans
        PROVE  /\ [c EXCEPT !.must = @ \ {rid}] \in Scans
               /\ [c EXCEPT !.must = @ \ {rid}].page = c.page
    BY DEF Scans
  <1>3. ASSUME NEW u \in Threads
        PROVE  /\ call'[u] \in Calls
               /\ call'[u].op \in {"insert", "scan"} => call'[u].page \in 1 .. Len(pages')
    <2>1. call[u] \in Calls
      BY DEF HInv, CallsTyped
    <2>2. call[u].op \in {"insert", "scan"} => call[u].page \in 1 .. Len(pages')
      BY <1>1 DEF HInv, LinksLeadOn, SameLinks
    <2>3. CASE call[u].op = "scan"
      <3>1. call[u] \in Scans
        BY <2>1, <2>3, CallKinds
      <3>2. call'[u] \in Scans /\ call'[u].page = call[u].page
        BY <1>1, <1>2, <2>3, <3>1
      <3>3. QED
        BY <2>2, <2>3, <3>2 DEF Calls
    <2>4. CASE call[u].op # "scan"
      BY <1>1, <2>1, <2>2, <2>4
    <2>5. QED
      BY <2>3, <2>4
  <1>4. CallsTyped'
    BY <1>1, <1>3 DEF CallsTyped
  <1>5. LinksLeadOn'
    BY <1>1, <1>3 DEF HInv, LinksLeadOn, SameLinks
  <1>6. QED
    BY <1>1, <1>4, <1>5 DEF HInv

\* What a scan can become in one page of the search.
Searched(c, d) ==
  LET found == FromSlot(c.page, c.slot) IN
  IF found # {}
  THEN d = [c EXCEPT !.at = "row", !.slot = CHOOSE i \in found : \A j \in found : i <= j]
  ELSE IF pages[c.page].next # INVALID_PAGE_ID
  THEN d = [c EXCEPT !.page = pages[c.page].next, !.slot = 1]
  ELSE d = [c EXCEPT !.at = "end"]

\* The slot the search stops at is the first one in use from its position on.
LEMMA FirstFound ==
  ASSUME HInv, NEW n \in 1 .. Len(pages), NEW s \in Nat, FromSlot(n, s) # {},
         NEW m, m = CHOOSE i \in FromSlot(n, s) : \A j \in FromSlot(n, s) : i <= j
  PROVE  m \in FromSlot(n, s) /\ m \in Nat /\ s <= m /\ \A j \in FromSlot(n, s) : m <= j
  <1>1. pages[n] \in Page
    BY DEF HInv, Kept
  <1>2. Len(pages[n].slots) \in Nat
    BY <1>1, SlotEndIsNat
  <1>3. FromSlot(n, s) \subseteq s .. Len(pages[n].slots)
    BY DEF FromSlot
  <1>4. FromSlot(n, s) \in SUBSET Nat /\ \A i \in FromSlot(n, s) : s <= i
    BY <1>2, <1>3
  <1>5. \E i \in FromSlot(n, s) : \A j \in FromSlot(n, s) : i <= j
    BY <1>4, SmallestSlot
  <1>6. m \in FromSlot(n, s) /\ \A j \in FromSlot(n, s) : m <= j
    BY <1>5
  <1>7. QED
    BY <1>4, <1>6

LEMMA SearchStep ==
  ASSUME HInv, NEW t \in Threads, Search(t)
  PROVE  \E d \in Scans : /\ Searched(call[t], d) /\ Placed(d)
                          /\ call[t] \in Scans
                          /\ call' = [call EXCEPT ![t] = d]
                          /\ pages' = pages /\ rows' = rows
  <1> DEFINE c == call[t]
             found == FromSlot(c.page, c.slot)
             m == CHOOSE i \in found : \A j \in found : i <= j
             d == IF found # {} THEN [c EXCEPT !.at = "row", !.slot = m]
                  ELSE IF pages[c.page].next # INVALID_PAGE_ID
                  THEN [c EXCEPT !.page = pages[c.page].next, !.slot = 1]
                  ELSE [c EXCEPT !.at = "end"]
  <1>1. /\ c.op = "scan" /\ call' = [call EXCEPT ![t] = d]
        /\ pages' = pages /\ rows' = rows
    BY DEF Search
  <1>2. c \in Calls
    BY DEF HInv, CallsTyped
  <1>3. c \in Scans /\ c.page \in Nat /\ c.slot \in Nat
    BY <1>1, <1>2, CallKinds, ScanTypes
  <1>4. c.page \in 1 .. Len(pages)
    BY <1>1 DEF HInv, LinksLeadOn
  <1>5. Searched(c, d)
    BY DEF Searched
  <1>6. CASE found # {}
    <2>1. m \in Nat
      BY <1>3, <1>4, <1>6, FirstFound
    <2>2. d = [c EXCEPT !.at = "row", !.slot = m]
      BY <1>6
    <2> HIDE DEF m, found, c, d
    <2>3. d \in Scans /\ d.page = c.page
      BY <2>1, <2>2, <1>3 DEF Scans
    <2>4. Placed(d)
      BY <2>3, <1>4 DEF Placed
    <2>5. QED
      BY <2>3, <2>4, <1>1, <1>3, <1>5 DEF c
  <1>7. CASE found = {} /\ pages[c.page].next # INVALID_PAGE_ID
    <2>1. pages[c.page].next \in c.page + 1 .. Len(pages)
      BY <1>4, <1>7 DEF HInv, LinksLeadOn
    <2>2. Len(pages) \in Nat
      BY DEF HInv, Kept
    <2>3. d = [c EXCEPT !.page = pages[c.page].next, !.slot = 1]
      BY <1>7
    <2>4. pages[c.page].next \in Nat /\ pages[c.page].next \in 1 .. Len(pages)
      <3> HIDE DEF c
      <3>1. QED
        BY <1>3, <2>1, <2>2
    <2> HIDE DEF found, c, d
    <2>5. d \in Scans /\ d.page = pages[c.page].next
      BY <2>3, <2>4, <1>3 DEF Scans
    <2>6. Placed(d)
      BY <2>4, <2>5 DEF Placed
    <2>7. QED
      BY <2>5, <2>6, <1>1, <1>3, <1>5 DEF c
  <1>8. CASE found = {} /\ pages[c.page].next = INVALID_PAGE_ID
    <2>1. d = [c EXCEPT !.at = "end"]
      BY <1>8
    <2> HIDE DEF found, c, d
    <2>2. d \in Scans /\ d.page = c.page
      BY <2>1, <1>3 DEF Scans
    <2>3. Placed(d)
      BY <2>2, <1>4 DEF Placed
    <2>4. QED
      BY <2>2, <2>3, <1>1, <1>3, <1>5 DEF c
  <1>9. QED
    BY <1>6, <1>7, <1>8


\* What a scan becomes when it has read the row it found.
Read(c, d) ==
  d = [c EXCEPT !.at = "search", !.slot = c.slot + 1,
                !.seen = IF GetTuple(pages[c.page], c.slot) = NoRow THEN @
                         ELSE Append(@, <<c.page, c.slot>>)]

LEMMA DerefStep ==
  ASSUME HInv, NEW t \in Threads, Deref(t)
  PROVE  \E d \in Scans : /\ Read(call[t], d) /\ Placed(d)
                          /\ call[t] \in Scans
                          /\ call' = [call EXCEPT ![t] = d]
                          /\ pages' = pages /\ rows' = rows
  <1> DEFINE c == call[t]
             x == <<c.page, c.slot>>
             next == c.slot + 1
             seen == IF GetTuple(pages[c.page], c.slot) = NoRow THEN c.seen ELSE Append(c.seen, x)
             d == [c EXCEPT !.at = "search", !.slot = next, !.seen = seen]
  <1>1. c.op = "scan"
    BY DEF Deref
  <1>2. c \in Calls
    BY DEF HInv, CallsTyped
  <1>3. c \in Scans /\ c.page \in Nat /\ c.slot \in Nat /\ c.seen \in Seq(Places)
    BY <1>1, <1>2, CallKinds, ScanTypes
  <1>4. c.page \in 1 .. Len(pages)
    BY <1>1 DEF HInv, LinksLeadOn
  <1>5. d = [c EXCEPT !.at = "search", !.slot = c.slot + 1,
                !.seen = IF GetTuple(pages[c.page], c.slot) = NoRow THEN @
                         ELSE Append(@, <<c.page, c.slot>>)]
    BY <1>3 DEF Scans
  <1>6. call' = [call EXCEPT ![t] = d] /\ pages' = pages /\ rows' = rows
    BY <1>5 DEF Deref
  <1>7. x \in Places /\ next \in Nat
    BY <1>3 DEF Places
  <1>8. seen \in Seq(Places)
    <2> HIDE DEF x, c
    <2>1. Append(c.seen, x) \in Seq(Places)
      BY <1>3, <1>7
    <2>2. QED
      BY <2>1, <1>3
  <1>9. Read(c, d)
    BY <1>5 DEF Read
  <1> HIDE DEF x, c, next, seen
  <1>10. d \in Scans /\ d.page = c.page
    BY <1>3, <1>7, <1>8 DEF Scans
  <1> HIDE DEF d
  <1>11. Placed(d)
    BY <1>4, <1>10 DEF Placed
  <1>12. QED
    BY <1>3, <1>6, <1>9, <1>10, <1>11 DEF c

\* The scan that BeginScan starts.
FirstScan == Scan("search", firstPageId, 1, <<>>, DOMAIN rows, FALSE)

LEMMA FirstScanFacts ==
  ASSUME HInv
  PROVE  /\ FirstScan \in Scans /\ Placed(FirstScan)
         /\ FirstScan.at = "search" /\ FirstScan.page = 1 /\ FirstScan.slot = 1
         /\ FirstScan.seen = <<>> /\ FirstScan.must = DOMAIN rows
  <1>1. DOMAIN rows \subseteq Places /\ Len(pages) \in Nat /\ Len(pages) >= 1
    BY DEF HInv, Kept, LinksLeadOn
  <1>2. FirstScan = [op |-> "scan", at |-> "search", page |-> 1, slot |-> 1, seen |-> <<>>,
                     must |-> DOMAIN rows, cut |-> FALSE]
    BY DEF FirstScan, Scan, firstPageId
  <1>3. FirstScan \in Scans
    BY <1>1, <1>2 DEF Scans
  <1>4. 1 \in 1 .. Len(pages)
    BY <1>1
  <1>5. QED
    BY <1>2, <1>3, <1>4 DEF Placed

\* A scan that a page it cannot fetch ends.
LEMMA SearchCutStep ==
  ASSUME HInv, NEW t \in Threads, SearchCut(t)
  PROVE  \E d \in Scans : /\ d = [call[t] EXCEPT !.at = "end", !.cut = TRUE]
                          /\ Placed(d) /\ d.at = "end" /\ d.cut = TRUE
                          /\ d.slot = call[t].slot /\ d.seen = call[t].seen
                          /\ d.must = call[t].must
                          /\ call[t] \in Scans
                          /\ call' = [call EXCEPT ![t] = d]
                          /\ pages' = pages /\ rows' = rows
  <1> DEFINE c == call[t]
             d == [c EXCEPT !.at = "end", !.cut = TRUE]
  <1>1. c.op = "scan"
    BY DEF SearchCut
  <1>2. c \in Calls /\ call \in [Threads -> Calls]
    BY DEF HInv, CallsTyped
  <1>3. c \in Scans
    BY <1>1, <1>2, CallKinds
  <1>4. c.page \in 1 .. Len(pages)
    BY <1>1 DEF HInv, LinksLeadOn
  <1>5. call' = [call EXCEPT ![t] = d] /\ pages' = pages /\ rows' = rows
    BY <1>2 DEF SearchCut
  <1> HIDE DEF c
  <1>6. /\ d \in Scans /\ d.page = c.page /\ d.at = "end" /\ d.cut = TRUE
        /\ d.slot = c.slot /\ d.seen = c.seen /\ d.must = c.must
    BY <1>3 DEF Scans
  <1>7. Placed(d)
    BY <1>4, <1>6 DEF Placed
  <1>8. QED
    BY <1>3, <1>5, <1>6, <1>7 DEF c

\* An insertion that is begun or moves on.
LEMMA InsertionStep ==
  ASSUME HInv, NEW t \in Threads,
         InsertNextPage(t) \/ \E r \in Rows : BeginInsert(t, r)
  PROVE  \E d \in Insertions : /\ Placed(d)
                               /\ call' = [call EXCEPT ![t] = d]
                               /\ d.at = "link" =>
                                    /\ call[t].op = "insert" /\ d.page = call[t].page
                                    /\ pages[d.page].next = INVALID_PAGE_ID
                               /\ t \in Writers \/ call[t].op = "insert"
                               /\ pages' = pages /\ rows' = rows
  <1>0. Len(pages) \in Nat /\ Len(pages) >= 1
    BY DEF HInv, Kept, LinksLeadOn
  <1>1. CASE \E r \in Rows : BeginInsert(t, r)
    <2>1. PICK r \in Rows : BeginInsert(t, r)
      BY <1>1
    <2> DEFINE d == [op |-> "insert", row |-> r, page |-> 1, at |-> "visit"]
    <2>2. /\ call' = [call EXCEPT ![t] = d] /\ pages' = pages /\ rows' = rows
          /\ t \in Writers
      BY <2>1 DEF BeginInsert, Insertion, firstPageId
    <2>3. d \in Insertions /\ d.at # "link" /\ d.page = 1
      BY DEF Insertions
    <2> HIDE DEF d
    <2>4. Placed(d)
      BY <2>3, <1>0 DEF Placed
    <2>5. QED
      BY <2>2, <2>3, <2>4
  <1>2. CASE InsertNextPage(t)
    <2> DEFINE c == call[t]
    <2>1. c.op = "insert"
      BY <1>2 DEF InsertNextPage
    <2>2. c \in Calls
      BY DEF HInv, CallsTyped
    <2>3. c.row \in Rows /\ c.page \in Nat
      BY <2>1, <2>2, CallKinds, InsertionTypes
    <2>4. c.page \in 1 .. Len(pages)
      BY <2>1 DEF HInv, LinksLeadOn
    <2>5. CASE pages[c.page].next # INVALID_PAGE_ID
      <3> DEFINE n == pages[c.page].next
                 d == [op |-> "insert", row |-> c.row, page |-> n, at |-> "visit"]
      <3>1. n \in c.page + 1 .. Len(pages)
        BY <2>4, <2>5 DEF HInv, LinksLeadOn
      <3>2. call' = [call EXCEPT ![t] = d] /\ pages' = pages /\ rows' = rows
        BY <1>2, <2>5 DEF InsertNextPage, Insertion
      <3> HIDE DEF n, c
      <3>3. n \in Nat /\ n \in 1 .. Len(pages)
        BY <3>1, <2>3, <1>0
      <3>4. d \in Insertions /\ d.at # "link" /\ d.page = n
        BY <2>3, <3>3 DEF Insertions
      <3> HIDE DEF d
      <3>5. Placed(d)
        BY <3>3, <3>4 DEF Placed
      <3>6. QED
        BY <2>1, <3>2, <3>4, <3>5 DEF c
    <2>6. CASE pages[c.page].next = INVALID_PAGE_ID
      <3> DEFINE d == [op |-> "insert", row |-> c.row, page |-> c.page, at |-> "link"]
      <3>1. call' = [call EXCEPT ![t] = d] /\ pages' = pages /\ rows' = rows
        BY <1>2, <2>6 DEF InsertNextPage, Insertion
      <3>2. d \in Insertions /\ d.page = c.page
        BY <2>3 DEF Insertions
      <3> HIDE DEF d
      <3>3. Placed(d)
        BY <2>4, <3>2 DEF Placed
      <3>4. QED
        BY <2>1, <2>6, <3>1, <3>2, <3>3
    <2>7. QED
      BY <2>5, <2>6
  <1>3. QED
    BY <1>1, <1>2

LEMMA OverrunStep ==
  ASSUME HInv, NEW t \in Threads, NEW rid \in Known, NEW r \in Rows, UpdateOverruns(t, rid, r)
  PROVE  HInv'
  <1>1. call' = [u \in Threads |-> Undefined] /\ pages' = pages /\ rows' = rows
    BY DEF UpdateOverruns
  <1>2. Undefined \in Calls /\ Undefined.op = "undefined"
    BY DEF Calls, Undefined
  <1>3. CallsTyped'
    BY <1>1, <1>2 DEF CallsTyped
  <1>4. LinksLeadOn'
    BY <1>1, <1>2 DEF HInv, LinksLeadOn
  <1>5. QED
    BY <1>1, <1>3, <1>4 DEF HInv

LEMMA EndingStep ==
  ASSUME NEW t \in Threads, InsertFails(t) \/ DerefThrows(t) \/ EndScan(t)
  PROVE  call' = [call EXCEPT ![t] = Idle] /\ pages' = pages /\ rows' = rows
  BY DEF InsertFails, DerefThrows, EndScan

LEMMA BeginScanStep ==
  ASSUME NEW t \in Threads, BeginScan(t)
  PROVE  call' = [call EXCEPT ![t] = FirstScan] /\ pages' = pages /\ rows' = rows
  BY DEF BeginScan, FirstScan

LEMMA HStep == HInv /\ [Next]_vars => HInv'
  <1> SUFFICES ASSUME HInv, [Next]_vars PROVE HInv'
    OBVIOUS
  <1>1. CASE UNCHANGED vars
    BY <1>1 DEF vars, HInv, CallsTyped, LinksLeadOn
  <1>2. CASE Next
    <2>1. PICK t \in Threads :
            \/ \E r \in Rows : BeginInsert(t, r)
            \/ InsertHere(t) \/ InsertNextPage(t) \/ InsertLink(t) \/ InsertFails(t)
            \/ \E rid \in Known :
                 \/ \E r \in Rows : Update(t, rid, r) \/ UpdateOverruns(t, rid, r)
                 \/ Delete(t, rid)
            \/ BeginScan(t) \/ Search(t) \/ SearchCut(t) \/ Deref(t)
            \/ DerefThrows(t) \/ EndScan(t)
      BY <1>2 DEF Next
    <2>2. CASE InsertNextPage(t) \/ \E r \in Rows : BeginInsert(t, r)
      BY <2>2, InsertionStep, CallStep DEF Calls
    <2>3. CASE InsertHere(t)
      BY <2>3, InsertHereEffect, PageStep
    <2>4. CASE InsertLink(t)
      BY <2>4, LinkStep
    <2>5. CASE InsertFails(t) \/ DerefThrows(t) \/ EndScan(t)
      BY <2>5, EndingStep, IdlePlaced, CallStep
    <2>6. ASSUME NEW rid \in Known, NEW r \in Rows, Update(t, rid, r) PROVE HInv'
      BY <2>6, UpdateEffect, PageStep
    <2>7. ASSUME NEW rid \in Known, NEW r \in Rows, UpdateOverruns(t, rid, r) PROVE HInv'
      BY <2>7, OverrunStep
    <2>8. ASSUME NEW rid \in Known, Delete(t, rid) PROVE HInv'
      BY <2>8, DeleteStep
    <2>9. CASE BeginScan(t)
      BY <2>9, BeginScanStep, FirstScanFacts, CallStep DEF Calls
    <2>10. CASE Search(t)
      BY <2>10, SearchStep, CallStep DEF Calls
    <2>11. CASE SearchCut(t)
      BY <2>11, SearchCutStep, CallStep DEF Calls
    <2>12. CASE Deref(t)
      BY <2>12, DerefStep, CallStep DEF Calls
    <2>13. QED
      BY <2>1, <2>2, <2>3, <2>4, <2>5, <2>6, <2>7, <2>8, <2>9, <2>10, <2>11, <2>12
  <1>3. QED
    BY <1>1, <1>2

LEMMA HInit == Init => HInv
  <1> SUFFICES ASSUME Init PROVE HInv
    OBVIOUS
  <1>1. /\ pages = <<InitPage>> /\ call = [t \in Threads |-> Idle] /\ rows = << >>
    BY DEF Init
  <1>2. InitPage \in Page /\ Sound(InitPage) /\ InitPage.slots = <<>>
    BY InitPageSound
  <1>3. InitPage.next = INVALID_PAGE_ID
    BY DEF InitPage
  <1>4. /\ pages \in Seq(Page) /\ Len(pages) = 1 /\ pages[1] = InitPage
    BY <1>1, <1>2
  <1>5. DOMAIN rows = {}
    BY <1>1
  <1>6. rows \in [DOMAIN rows -> Rows]
    BY <1>1, <1>5
  <1>7. \A n \in 1 .. Len(pages) : n = 1
    BY <1>4
  <1>8. Len(InitPage.slots) = 0
    BY <1>2
  <1>9. 1 .. 0 = {}
    OBVIOUS
  <1>10. Kept(pages, rows)
    BY <1>2, <1>4, <1>5, <1>6, <1>7, <1>8, <1>9 DEF Kept
  <1>11. CallsTyped
    BY <1>1, IdlePlaced DEF CallsTyped
  <1>12. LinksLeadOn
    BY <1>1, <1>3, <1>4, <1>7, IdlePlaced DEF LinksLeadOn
  <1>13. QED
    BY <1>10, <1>11, <1>12 DEF HInv

LEMMA HInvariant == Spec => []HInv
  BY HInit, HStep, PTL DEF Spec

LEMMA SoundPages == HInv => PagesSound
  <1> SUFFICES ASSUME HInv, NEW n \in 1 .. Len(pages)
               PROVE  LET p == pages[n]
                          used == {s \in 1 .. Len(p.slots) : p.slots[s].len > 0}
                      IN /\ SlotEnd(p) <= p.fsp
                         /\ \A s \in used : p.slots[s].off >= p.fsp
                         /\ \A s, u \in used : s # u =>
                              \/ p.slots[s].off + p.slots[s].len <= p.slots[u].off
                              \/ p.slots[u].off + p.slots[u].len <= p.slots[s].off
    BY DEF PagesSound
  <1>1. pages[n] \in Page /\ Sound(pages[n])
    BY DEF HInv, Kept
  <1>2. \A s \in 1 .. Len(pages[n].slots) :
          pages[n].slots[s].off \in Nat /\ pages[n].slots[s].len \in Nat
    BY <1>1, SlotTypes
  <1>3. pages[n].fsp \in Nat
    BY <1>1, SlotEndIsNat
  <1>4. QED
    BY <1>1, <1>2, <1>3 DEF Sound, Live

\* The two halves of a page never meet, with any number of writers and any
\* sizes of rows, until the update that UpdateTuple should not have accepted
\* (table_page.cpp:UpdateTuple, UpdateOverruns): PagesSound is an invariant.
THEOREM PagesStaySound == Spec => []PagesSound
  BY HInvariant, SoundPages, PTL


-----------------------------------------------------------------------------
(* One writer, and any number of scans.                                    *)

\* Every page is linked behind the one before it, and a page that is to get
\* a successor is the last one.
OneChain ==
  /\ \A n \in 1 .. Len(pages) :
       pages[n].next = IF n < Len(pages) THEN n + 1 ELSE INVALID_PAGE_ID
  /\ \A t \in Threads : call[t].op = "insert" =>
       /\ t \in Writers
       /\ call[t].at = "link" => call[t].page = Len(pages)

Before(a, b) == a[1] < b[1] \/ (a[1] = b[1] /\ a[2] < b[2])

\* Scan c of a table whose rows are at the places D has returned rows before
\* its position, in order, among them all those that were there from its
\* beginning and still are.
OnCourse(c, D) ==
  /\ c.slot >= 1
  /\ c.must \subseteq D
  /\ \A i, j \in 1 .. Len(c.seen) : i < j => Before(c.seen[i], c.seen[j])
  /\ c.at # "end" =>
       /\ \A i \in 1 .. Len(c.seen) : Before(c.seen[i], <<c.page, c.slot>>)
       /\ \A x \in c.must : Before(x, <<c.page, c.slot>>) =>
            \E i \in 1 .. Len(c.seen) : c.seen[i] = x
  /\ c.at = "end" /\ c.cut = FALSE =>
       \A x \in c.must : \E i \in 1 .. Len(c.seen) : c.seen[i] = x

ScansOnCourse == \A t \in Threads : call[t].op = "scan" => OnCourse(call[t], DOMAIN rows)

WInv == HInv /\ OneChain /\ ScansOnCourse

\* OneChain when no page and no link changes.
LEMMA ChainKept ==
  ASSUME HInv, OneChain, SameLinks, NEW t \in Threads, NEW d \in Calls,
         d.op = "insert" => t \in Writers /\ (d.at = "link" => d.page = Len(pages)),
         call' = [call EXCEPT ![t] = d]
  PROVE  OneChain'
  <1>1. \A u \in Threads : call'[u] = IF u = t THEN d ELSE call[u]
    BY DEF HInv, CallsTyped
  <1>2. \A u \in Threads : call'[u].op = "insert" =>
          u \in Writers /\ (call'[u].at = "link" => call'[u].page = Len(pages'))
    BY <1>1 DEF OneChain, SameLinks
  <1>3. \A n \in 1 .. Len(pages') :
          pages'[n].next = IF n < Len(pages') THEN n + 1 ELSE INVALID_PAGE_ID
    BY DEF OneChain, SameLinks
  <1>4. QED
    BY <1>2, <1>3 DEF OneChain

LEMMA ChainLink ==
  ASSUME HInv, OneChain, NEW t \in Threads, InsertLink(t), \A x, y \in Writers : x = y
  PROVE  OneChain'
  <1> DEFINE n == Len(pages) + 1
  <1>1. /\ Len(pages') = n
        /\ pages'[n].next = INVALID_PAGE_ID
        /\ \A i \in 1 .. Len(pages) :
             pages'[i].next = IF i = call[t].page THEN n ELSE pages[i].next
        /\ call' = [call EXCEPT ![t] = Idle]
    BY InsertLinkEffect
  <1>2. call[t].op = "insert" /\ call[t].at = "link"
    BY DEF InsertLink
  <1>3. t \in Writers /\ call[t].page = Len(pages)
    BY <1>2 DEF OneChain
  <1>4. Len(pages) \in Nat
    BY DEF HInv, Kept
  <1>5. \A u \in Threads : call'[u] = IF u = t THEN Idle ELSE call[u]
    BY <1>1 DEF HInv, CallsTyped
  <1>6. \A u \in Threads : call'[u].op # "insert"
    <2>1. \A u \in Threads : call[u].op = "insert" => u = t
      BY <1>3 DEF OneChain
    <2>2. QED
      BY <2>1, <1>5, IdlePlaced
  <1>7. ASSUME NEW i \in 1 .. Len(pages')
        PROVE  pages'[i].next = IF i < Len(pages') THEN i + 1 ELSE INVALID_PAGE_ID
    <2>1. CASE i = n
      BY <2>1, <1>1, <1>4
    <2>2. CASE i # n
      <3>1. i \in 1 .. Len(pages)
        BY <2>2, <1>1, <1>4
      <3>2. pages[i].next = IF i < Len(pages) THEN i + 1 ELSE INVALID_PAGE_ID
        BY <3>1 DEF OneChain
      <3>3. i < Len(pages') /\ (i = Len(pages) \/ i < Len(pages))
        BY <3>1, <1>1, <1>4
      <3>4. i = Len(pages) => n = i + 1
        OBVIOUS
      <3>5. i < Len(pages) => i # Len(pages)
        BY <1>4
      <3>6. QED
        BY <3>1, <3>2, <3>3, <3>4, <3>5, <1>1, <1>3
    <2>3. QED
      BY <2>1, <2>2
  <1>8. QED
    BY <1>6, <1>7 DEF OneChain

\* The one page without a successor is the last one.
LEMMA LastPage ==
  ASSUME HInv, OneChain, NEW n \in 1 .. Len(pages)
  PROVE  /\ pages[n].next = INVALID_PAGE_ID => n = Len(pages)
         /\ pages[n].next # INVALID_PAGE_ID => pages[n].next = n + 1
  <1>1. Len(pages) \in Nat /\ n \in Nat
    BY DEF HInv, Kept
  <1>2. pages[n].next = IF n < Len(pages) THEN n + 1 ELSE -1
    BY DEF OneChain, INVALID_PAGE_ID
  <1>3. CASE n < Len(pages)
    <2>1. pages[n].next = n + 1
      BY <1>2, <1>3
    <2>2. n + 1 # -1
      BY <1>1
    <2>3. QED
      BY <2>1, <2>2 DEF INVALID_PAGE_ID
  <1>4. CASE ~(n < Len(pages))
    <2>1. pages[n].next = -1
      BY <1>2, <1>4
    <2>2. n = Len(pages)
      BY <1>1, <1>4
    <2>3. QED
      BY <2>1, <2>2 DEF INVALID_PAGE_ID
  <1>5. QED
    BY <1>3, <1>4

LEMMA CourseKept ==
  ASSUME HInv, ScansOnCourse, NEW t \in Threads, NEW d \in Calls,
         d.op = "scan" => OnCourse(d, DOMAIN rows'),
         DOMAIN rows \subseteq DOMAIN rows', call' = [call EXCEPT ![t] = d]
  PROVE  ScansOnCourse'
  <1>1. \A u \in Threads : call'[u] = IF u = t THEN d ELSE call[u]
    BY DEF HInv, CallsTyped
  <1>2. ASSUME NEW u \in Threads, call'[u].op = "scan"
        PROVE  OnCourse(call'[u], DOMAIN rows')
    <2>1. CASE u = t
      BY <2>1, <1>1, <1>2
    <2>2. CASE u # t
      <3>1. OnCourse(call[u], DOMAIN rows)
        BY <2>2, <1>1, <1>2 DEF ScansOnCourse
      <3>2. OnCourse(call[u], DOMAIN rows')
        BY <3>1 DEF OnCourse
      <3>3. QED
        BY <2>2, <3>2, <1>1
    <2>3. QED
      BY <2>1, <2>2
  <1>3. QED
    BY <1>2 DEF ScansOnCourse

\* A scan that begins has everything before it.
LEMMA FirstScanOnCourse ==
  ASSUME HInv
  PROVE  OnCourse(FirstScan, DOMAIN rows)
  <1> DEFINE c == FirstScan
  <1>1. /\ c.at = "search" /\ c.page = 1 /\ c.slot = 1
        /\ c.seen = <<>> /\ c.must = DOMAIN rows
    BY FirstScanFacts
  <1>2. 1 .. Len(c.seen) = {}
    <2>1. Len(c.seen) = 0
      BY <1>1
    <2>2. QED
      BY <2>1
  <1>3. \A x \in DOMAIN rows : ~Before(x, <<1, 1>>)
    <2>1. SUFFICES ASSUME NEW x \in DOMAIN rows PROVE ~Before(x, <<1, 1>>)
      OBVIOUS
    <2>2. PICK n \in Nat, s \in Nat : x = <<n, s>>
      BY DEF HInv, Kept, Places
    <2>3. n \in 1 .. Len(pages) /\ s \in 1 .. Len(pages[n].slots)
      BY <2>2 DEF HInv, Kept
    <2>4. n >= 1 /\ s >= 1
      BY <2>3
    <2>5. QED
      BY <2>2, <2>4 DEF Before
  <1> HIDE DEF c
  <1>4. OnCourse(c, DOMAIN rows)
    BY <1>1, <1>2, <1>3 DEF OnCourse
  <1>5. QED
    BY <1>4 DEF c

\* The rows of the table, as places that are in use.
LEMMA RowIsLive ==
  ASSUME HInv, NEW x \in DOMAIN rows
  PROVE  \E n, s \in Nat : /\ x = <<n, s>>
                           /\ n \in 1 .. Len(pages) /\ s \in 1 .. Len(pages[n].slots)
                           /\ n >= 1 /\ s >= 1 /\ n <= Len(pages) /\ Len(pages) \in Nat
                           /\ GetTupleSize(pages[n], s) > 0
                           /\ GetTuple(pages[n], s) = rows[x]
                           /\ rows[x] \in Rows
  <1>1. PICK n \in Nat, s \in Nat : x = <<n, s>>
    BY DEF HInv, Kept, Places
  <1>2. n \in 1 .. Len(pages) /\ s \in 1 .. Len(pages[n].slots)
    BY <1>1 DEF HInv, Kept
  <1>3. Live(pages[n], s) /\ Keeps(pages[n], s, rows[x]) /\ pages[n] \in Page
    BY <1>1, <1>2 DEF HInv, Kept
  <1>4. rows[x] \in Rows /\ Len(pages) \in Nat
    BY DEF HInv, Kept
  <1>5. GetTuple(pages[n], s) = rows[x]
    BY <1>2, <1>3, <1>4, GetTupleReads
  <1>6. GetTupleSize(pages[n], s) > 0
    BY <1>3 DEF Live, GetTupleSize
  <1>7. n >= 1 /\ s >= 1 /\ n <= Len(pages)
    BY <1>2, <1>4
  <1>8. QED
    BY <1>1, <1>2, <1>4, <1>5, <1>6, <1>7


LEMMA BeforeLater ==
  ASSUME NEW x \in Places, NEW n \in Nat, NEW s \in Nat, NEW m \in Nat, NEW u \in Nat,
         n < m \/ (n = m /\ s <= u), Before(x, <<n, s>>)
  PROVE  Before(x, <<m, u>>)
  <1>1. PICK a \in Nat, b \in Nat : x = <<a, b>>
    BY DEF Places
  <1>2. a < n \/ (a = n /\ b < s)
    BY <1>1 DEF Before
  <1>3. a < m \/ (a = m /\ b < u)
    BY <1>2
  <1>4. QED
    BY <1>1, <1>3 DEF Before

\* A row of the table that the scan must return and has not passed lies on a
\* later page, or is found on this one.
LEMMA NotPassed ==
  ASSUME HInv, NEW n \in 1 .. Len(pages), NEW s \in Nat, NEW x \in DOMAIN rows,
         ~Before(x, <<n, s>>)
  PROVE  \E a, b \in Nat : /\ x = <<a, b>> /\ a <= Len(pages) /\ Len(pages) \in Nat
                           /\ a > n \/ (a = n /\ b \in FromSlot(n, s) /\ s <= b)
  <1>1. PICK a \in Nat, b \in Nat :
               /\ x = <<a, b>> /\ a <= Len(pages) /\ Len(pages) \in Nat
               /\ a \in 1 .. Len(pages) /\ b \in 1 .. Len(pages[a].slots)
               /\ GetTupleSize(pages[a], b) > 0
    BY RowIsLive
  <1>2. ~(a < n) /\ ~(a = n /\ b < s)
    BY <1>1 DEF Before
  <1>3. CASE a # n
    BY <1>1, <1>2, <1>3
  <1>4. CASE a = n
    <2>1. pages[n] \in Page
      BY DEF HInv, Kept
    <2>2. Len(pages[n].slots) \in Nat
      BY <2>1, SlotEndIsNat
    <2>3. s <= b
      BY <1>2, <1>4
    <2>4. b \in s .. Len(pages[n].slots)
      BY <1>1, <1>4, <2>2, <2>3
    <2>5. b \in FromSlot(n, s)
      BY <1>1, <1>4, <2>4 DEF FromSlot
    <2>6. QED
      BY <1>1, <1>4, <2>3, <2>5
  <1>5. QED
    BY <1>3, <1>4

LEMMA SearchOnCourse ==
  ASSUME HInv, OneChain, NEW c \in Scans, c.at = "search", c.page \in 1 .. Len(pages),
         OnCourse(c, DOMAIN rows), NEW d, Searched(c, d)
  PROVE  OnCourse(d, DOMAIN rows)
  <1> DEFINE n == c.page
             s == c.slot
             found == FromSlot(n, s)
             m == CHOOSE i \in found : \A j \in found : i <= j
  <1>1. /\ n \in Nat /\ s \in Nat /\ c.seen \in Seq(Places) /\ c.must \in SUBSET Places
        /\ n \in 1 .. Len(pages)
    BY ScanTypes
  <1>2. /\ s >= 1 /\ c.must \subseteq DOMAIN rows
        /\ \A i, j \in 1 .. Len(c.seen) : i < j => Before(c.seen[i], c.seen[j])
        /\ \A i \in 1 .. Len(c.seen) : Before(c.seen[i], <<n, s>>)
        /\ \A x \in c.must : Before(x, <<n, s>>) => \E i \in 1 .. Len(c.seen) : c.seen[i] = x
    BY DEF OnCourse
  <1>3. \A i \in 1 .. Len(c.seen) : c.seen[i] \in Places
    BY <1>1
  <1>4. CASE found # {}
    <2>1. m \in Nat /\ s <= m /\ \A j \in found : m <= j
      BY <1>1, <1>4, FirstFound
    <2>2. d = [c EXCEPT !.at = "row", !.slot = m]
      BY <1>4 DEF Searched
    <2> HIDE DEF m
    <2>3. d.at = "row" /\ d.slot = m /\ d.page = n /\ d.seen = c.seen /\ d.must = c.must
      BY <2>2 DEF Scans
    <2>4. \A i \in 1 .. Len(c.seen) : Before(c.seen[i], <<n, m>>)
      BY <1>1, <1>2, <1>3, <2>1, BeforeLater
    <2>5. ASSUME NEW x \in c.must, Before(x, <<n, m>>)
          PROVE  Before(x, <<n, s>>)
      <3>1. SUFFICES ASSUME ~Before(x, <<n, s>>) PROVE FALSE
        OBVIOUS
      <3>2. x \in DOMAIN rows
        BY <1>2
      <3>3. PICK a \in Nat, b \in Nat : /\ x = <<a, b>>
                                        /\ a > n \/ (a = n /\ b \in FromSlot(n, s))
        BY <1>1, <3>1, <3>2, NotPassed
      <3>4. a < n \/ (a = n /\ b < m)
        BY <2>5, <3>3 DEF Before
      <3>5. b \in found => m <= b
        BY <2>1
      <3>6. a \in Nat /\ b \in Nat /\ n \in Nat /\ m \in Nat
        BY <1>1, <2>1
      <3> HIDE DEF n, s
      <3>7. QED
        BY <3>3, <3>4, <3>5, <3>6
    <2>6. d.slot >= 1
      BY <1>1, <1>2, <2>1, <2>3
    <2>7. d.at # "end"
      BY <2>3
    <2>8. \A x \in d.must : Before(x, <<n, m>>) => \E i \in 1 .. Len(c.seen) : c.seen[i] = x
      BY <1>2, <2>3, <2>5
    <2>9. QED
      BY <1>2, <2>3, <2>4, <2>6, <2>7, <2>8 DEF OnCourse
  <1>5. CASE found = {} /\ pages[n].next # INVALID_PAGE_ID
    <2>1. pages[n].next = n + 1
      BY <1>1, <1>5, LastPage
    <2>2. d = [c EXCEPT !.page = n + 1, !.slot = 1]
      BY <1>5, <2>1 DEF Searched
    <2>3. d.at = "search" /\ d.slot = 1 /\ d.page = n + 1 /\ d.seen = c.seen /\ d.must = c.must
      BY <2>2 DEF Scans
    <2>4. n + 1 \in Nat /\ n < n + 1
      BY <1>1
    <2>5. \A i \in 1 .. Len(c.seen) : Before(c.seen[i], <<n + 1, 1>>)
      BY <1>1, <1>2, <1>3, <2>4, BeforeLater
    <2>6. ASSUME NEW x \in c.must, Before(x, <<n + 1, 1>>)
          PROVE  Before(x, <<n, s>>)
      <3>1. SUFFICES ASSUME ~Before(x, <<n, s>>) PROVE FALSE
        OBVIOUS
      <3>2. x \in DOMAIN rows
        BY <1>2
      <3>0. ~\E b : b \in FromSlot(n, s)
        BY <1>5
      <3>3. PICK a \in Nat, b \in Nat : x = <<a, b>> /\ a > n
        <4> HIDE DEF n, s, found
        <4>1. \E a, b \in Nat : x = <<a, b>> /\ (a > n \/ (a = n /\ b \in FromSlot(n, s)))
          BY <1>1, <3>1, <3>2, NotPassed
        <4>2. QED
          BY <4>1, <3>0
      <3>4. PICK e \in Nat, f \in Nat : x = <<e, f>> /\ e >= 1 /\ f >= 1
        BY <3>2, RowIsLive
      <3>5. a = e /\ b = f
        BY <3>3, <3>4
      <3>6. a < n + 1 \/ (a = n + 1 /\ b < 1)
        BY <2>6, <3>3 DEF Before
      <3> HIDE DEF n
      <3>7. QED
        BY <1>1, <3>3, <3>4, <3>5, <3>6
    <2>7. \A x \in d.must : Before(x, <<n + 1, 1>>) => \E i \in 1 .. Len(c.seen) : c.seen[i] = x
      BY <1>2, <2>3, <2>6
    <2>8. d.slot >= 1 /\ d.at # "end"
      BY <2>3
    <2>9. QED
      BY <1>2, <2>3, <2>5, <2>7, <2>8 DEF OnCourse
  <1>6. CASE found = {} /\ pages[n].next = INVALID_PAGE_ID
    <2>1. n = Len(pages)
      BY <1>1, <1>6, LastPage
    <2>2. d = [c EXCEPT !.at = "end"]
      BY <1>6 DEF Searched
    <2>3. d.at = "end" /\ d.slot = s /\ d.seen = c.seen /\ d.must = c.must
      BY <2>2 DEF Scans
    <2>4. ASSUME NEW x \in c.must
          PROVE  Before(x, <<n, s>>)
      <3>1. SUFFICES ASSUME ~Before(x, <<n, s>>) PROVE FALSE
        OBVIOUS
      <3>2. x \in DOMAIN rows
        BY <1>2
      <3>3. PICK a \in Nat, b \in Nat : a <= Len(pages) /\ a > n
        BY <1>1, <1>6, <3>1, <3>2, NotPassed
      <3> HIDE DEF n
      <3>4. QED
        BY <1>1, <2>1, <3>3
    <2>5. \A x \in d.must : \E i \in 1 .. Len(d.seen) : d.seen[i] = x
      BY <1>2, <2>3, <2>4
    <2>6. QED
      BY <1>2, <2>3, <2>5 DEF OnCourse
  <1>7. QED
    BY <1>4, <1>5, <1>6

LEMMA ReadOnCourse ==
  ASSUME HInv, NEW c \in Scans, c.at = "row", c.page \in 1 .. Len(pages),
         OnCourse(c, DOMAIN rows), NEW d, Read(c, d)
  PROVE  OnCourse(d, DOMAIN rows)
  <1> DEFINE n == c.page
             s == c.slot
             here == <<n, s>>
             seen == IF GetTuple(pages[n], s) = NoRow THEN c.seen ELSE Append(c.seen, here)
  <1>1. /\ n \in Nat /\ s \in Nat /\ c.seen \in Seq(Places) /\ c.must \in SUBSET Places
        /\ n \in 1 .. Len(pages)
    BY ScanTypes
  <1>2. /\ s >= 1 /\ c.must \subseteq DOMAIN rows
        /\ \A i, j \in 1 .. Len(c.seen) : i < j => Before(c.seen[i], c.seen[j])
        /\ \A i \in 1 .. Len(c.seen) : Before(c.seen[i], here)
        /\ \A x \in c.must : Before(x, here) => \E i \in 1 .. Len(c.seen) : c.seen[i] = x
    BY DEF OnCourse
  <1>3. \A i \in 1 .. Len(c.seen) : c.seen[i] \in Places
    BY <1>1
  <1>4. d.at = "search" /\ d.slot = s + 1 /\ d.page = n /\ d.seen = seen /\ d.must = c.must
    BY DEF Read, Scans
  <1>5. s + 1 \in Nat /\ s <= s + 1 /\ s + 1 >= 1 /\ s < s + 1
    BY <1>1
  <1>6. \A i \in 1 .. Len(c.seen) : Before(c.seen[i], <<n, s + 1>>)
    BY <1>1, <1>2, <1>3, <1>5, BeforeLater, SMTT(60)
  <1>7. Before(here, <<n, s + 1>>)
    BY <1>1 DEF Before
  <1>8. \A x \in c.must : Before(x, <<n, s + 1>>) =>
          Before(x, here) \/ (x = here /\ GetTuple(pages[n], s) # NoRow)
    <2>1. SUFFICES ASSUME NEW x \in c.must, Before(x, <<n, s + 1>>), ~Before(x, here)
                   PROVE  x = here /\ GetTuple(pages[n], s) # NoRow
      OBVIOUS
    <2>2. x \in DOMAIN rows
      BY <1>2
    <2>3. PICK a \in Nat, b \in Nat : /\ x = <<a, b>> /\ GetTuple(pages[a], b) = rows[x]
                                      /\ rows[x] \in Rows
      BY <2>2, RowIsLive
    <2>4. (a < n \/ (a = n /\ b < s + 1)) /\ ~(a < n \/ (a = n /\ b < s))
      BY <2>1, <2>3 DEF Before
    <2>5. a = n /\ b = s
      <3> HIDE DEF n, s
      <3>1. QED
        BY <2>4, <1>1
    <2>6. QED
      BY <2>3, <2>5, TablePageAssumption
  <1>9. here \in Places
    BY <1>1 DEF Places
  <1> HIDE DEF n, s, here
  <1>10. /\ \A i, j \in 1 .. Len(seen) : i < j => Before(seen[i], seen[j])
         /\ \A i \in 1 .. Len(seen) : Before(seen[i], <<n, s + 1>>)
         /\ \A x \in c.must : Before(x, <<n, s + 1>>) => \E i \in 1 .. Len(seen) : seen[i] = x
    <2>1. CASE GetTuple(pages[n], s) = NoRow
      <3>1. seen = c.seen
        BY <2>1
      <3> HIDE DEF seen
      <3>2. QED
        BY <2>1, <3>1, <1>2, <1>6, <1>8
    <2>2. CASE GetTuple(pages[n], s) # NoRow
      <3> DEFINE l == Len(c.seen)
      <3>1. seen = Append(c.seen, here)
        BY <2>2
      <3> HIDE DEF seen
      <3>2. /\ l \in Nat /\ Len(seen) = l + 1 /\ seen[l + 1] = here
            /\ \A i \in 1 .. l : seen[i] = c.seen[i]
        BY <3>1, <1>1, <1>9
      <3>3. \A i \in 1 .. Len(seen) : i \in 1 .. l \/ i = l + 1
        BY <3>2
      <3>4. \A i \in 1 .. l : i \in 1 .. Len(seen)
        BY <3>2
      <3>5. l + 1 \in 1 .. Len(seen)
        BY <3>2
      <3>6. \A i, j \in 1 .. Len(seen) : i < j => i \in 1 .. l
        BY <3>2
      <3> HIDE DEF l
      <3>7. \A i, j \in 1 .. Len(seen) : i < j => Before(seen[i], seen[j])
        BY <3>2, <3>3, <3>6, <1>2 DEF l
      <3>8. \A i \in 1 .. Len(seen) : Before(seen[i], <<n, s + 1>>)
        BY <3>2, <3>3, <1>6, <1>7 DEF l
      <3>9. \A x \in c.must : Before(x, <<n, s + 1>>) => \E i \in 1 .. Len(seen) : seen[i] = x
        BY <3>2, <3>4, <3>5, <1>2, <1>8 DEF l
      <3>10. QED
        BY <3>7, <3>8, <3>9
    <2>3. QED
      BY <2>1, <2>2
  <1> HIDE DEF seen
  <1>11. d.at # "end"
    BY <1>4
  <1>12. QED
    BY <1>2, <1>4, <1>5, <1>10, <1>11 DEF OnCourse

LEMMA DeleteOnCourse ==
  ASSUME HInv, ScansOnCourse, OneChain, NEW t \in Threads, NEW rid \in Known, Delete(t, rid)
  PROVE  ScansOnCourse' /\ OneChain'
  <1>1. /\ SameLinks /\ DOMAIN rows' = DOMAIN rows \ {rid}
        /\ call' = [u \in Threads |->
             IF call[u].op = "scan" THEN [call[u] EXCEPT !.must = @ \ {rid}] ELSE call[u]]
    BY DeleteEffect
  <1>2. ASSUME NEW c \in Scans
        PROVE  LET d == [c EXCEPT !.must = @ \ {rid}] IN
               /\ d.op = "scan" /\ d.at = c.at /\ d.page = c.page /\ d.slot = c.slot
               /\ d.seen = c.seen /\ d.cut = c.cut /\ d.must = c.must \ {rid}
    BY DEF Scans
  <1>3. ASSUME NEW u \in Threads, call[u].op = "scan"
        PROVE  OnCourse(call'[u], DOMAIN rows') /\ call'[u].op = "scan"
    <2> DEFINE c == call[u]
               d == call'[u]
    <2>1. c \in Calls
      BY DEF HInv, CallsTyped
    <2>2. c \in Scans
      BY <1>3, <2>1, CallKinds
    <2>3. d = [c EXCEPT !.must = @ \ {rid}]
      BY <1>1, <1>3
    <2>4. OnCourse(c, DOMAIN rows)
      BY <1>3 DEF ScansOnCourse
    <2> HIDE DEF c, d
    <2>5. /\ d.op = "scan" /\ d.at = c.at /\ d.page = c.page /\ d.slot = c.slot
          /\ d.seen = c.seen /\ d.cut = c.cut /\ d.must = c.must \ {rid}
      BY <1>2, <2>2, <2>3
    <2>6. d.must \subseteq DOMAIN rows' /\ d.must \subseteq c.must
      BY <1>1, <2>4, <2>5 DEF OnCourse
    <2>7. OnCourse(d, DOMAIN rows')
      BY <2>4, <2>5, <2>6 DEF OnCourse
    <2>8. QED
      BY <2>5, <2>7 DEF d
  <1>4. ASSUME NEW u \in Threads, call[u].op # "scan"
        PROVE  call'[u] = call[u]
    BY <1>1, <1>4
  <1>5. ScansOnCourse'
    BY <1>3, <1>4 DEF ScansOnCourse
  <1>6. \A u \in Threads : call'[u].op = "insert" => call'[u] = call[u]
    BY <1>3, <1>4
  <1>7. OneChain'
    <2>1. \A u \in Threads : call'[u].op = "insert" =>
            u \in Writers /\ (call'[u].at = "link" => call'[u].page = Len(pages'))
      BY <1>1, <1>6 DEF OneChain, SameLinks
    <2>2. \A n \in 1 .. Len(pages') :
            pages'[n].next = IF n < Len(pages') THEN n + 1 ELSE INVALID_PAGE_ID
      BY <1>1 DEF OneChain, SameLinks
    <2>3. QED
      BY <2>1, <2>2 DEF OneChain
  <1>8. QED
    BY <1>5, <1>7


LEMMA WStep ==
  ASSUME \A x, y \in Writers : x = y
  PROVE  WInv /\ [Next]_vars => WInv'
  <1> SUFFICES ASSUME WInv, [Next]_vars PROVE WInv'
    OBVIOUS
  <1>1. HInv /\ OneChain /\ ScansOnCourse
    BY DEF WInv
  <1>2. HInv'
    BY <1>1, HStep
  <1>3. CASE UNCHANGED vars
    <2>1. OneChain' /\ ScansOnCourse'
      BY <1>1, <1>3 DEF vars, OneChain, ScansOnCourse
    <2>2. QED
      BY <2>1, <1>2 DEF WInv
  <1>4. CASE Next
    <2>1. PICK t \in Threads :
            \/ \E r \in Rows : BeginInsert(t, r)
            \/ InsertHere(t) \/ InsertNextPage(t) \/ InsertLink(t) \/ InsertFails(t)
            \/ \E rid \in Known :
                 \/ \E r \in Rows : Update(t, rid, r) \/ UpdateOverruns(t, rid, r)
                 \/ Delete(t, rid)
            \/ BeginScan(t) \/ Search(t) \/ SearchCut(t) \/ Deref(t)
            \/ DerefThrows(t) \/ EndScan(t)
      BY <1>4 DEF Next
    <2>2. call[t] \in Calls
      BY <1>1 DEF HInv, CallsTyped
    <2>3. pages' = pages => SameLinks
      BY DEF SameLinks
    <2>4. CASE InsertNextPage(t) \/ \E r \in Rows : BeginInsert(t, r)
      <3>1. PICK d \in Insertions : /\ Placed(d)
                                    /\ call' = [call EXCEPT ![t] = d]
                                    /\ d.at = "link" =>
                                         /\ call[t].op = "insert" /\ d.page = call[t].page
                                         /\ pages[d.page].next = INVALID_PAGE_ID
                                    /\ t \in Writers \/ call[t].op = "insert"
                                    /\ pages' = pages /\ rows' = rows
        BY <1>1, <2>4, InsertionStep
      <3>2. d \in Calls /\ d.op = "insert"
        BY InsertionTypes DEF Calls
      <3>3. t \in Writers
        BY <1>1, <3>1 DEF OneChain
      <3>4. d.page \in 1 .. Len(pages)
        BY <3>1, <3>2 DEF Placed
      <3>5. d.at = "link" => d.page = Len(pages)
        BY <1>1, <3>1, <3>4, LastPage
      <3>6. OneChain'
        BY <1>1, <2>3, <3>1, <3>2, <3>3, <3>5, ChainKept
      <3>7. ScansOnCourse'
        BY <1>1, <3>1, <3>2, CourseKept
      <3>8. QED
        BY <1>2, <3>6, <3>7 DEF WInv
    <2>5. CASE InsertHere(t) \/ \E rid \in Known, r \in Rows : Update(t, rid, r)
      <3>1. /\ SameLinks /\ DOMAIN rows \subseteq DOMAIN rows'
            /\ call' = [call EXCEPT ![t] = Idle]
        BY <1>1, <2>5, InsertHereEffect, UpdateEffect
      <3>2. Idle \in Calls /\ Idle.op = "idle"
        BY IdlePlaced
      <3>3. OneChain'
        BY <1>1, <3>1, <3>2, ChainKept
      <3>4. ScansOnCourse'
        BY <1>1, <3>1, <3>2, CourseKept
      <3>5. QED
        BY <1>2, <3>3, <3>4 DEF WInv
    <2>6. CASE InsertLink(t)
      <3>1. OneChain'
        BY <1>1, <2>6, ChainLink
      <3>2. DOMAIN rows \subseteq DOMAIN rows' /\ call' = [call EXCEPT ![t] = Idle]
        BY <1>1, <2>6, InsertLinkEffect
      <3>3. Idle \in Calls /\ Idle.op = "idle"
        BY IdlePlaced
      <3>4. ScansOnCourse'
        BY <1>1, <3>2, <3>3, CourseKept
      <3>5. QED
        BY <1>2, <3>1, <3>4 DEF WInv
    <2>7. CASE InsertFails(t) \/ DerefThrows(t) \/ EndScan(t)
      <3>1. call' = [call EXCEPT ![t] = Idle] /\ pages' = pages /\ rows' = rows
        BY <2>7, EndingStep
      <3>2. Idle \in Calls /\ Idle.op = "idle"
        BY IdlePlaced
      <3>3. OneChain'
        BY <1>1, <2>3, <3>1, <3>2, ChainKept
      <3>4. ScansOnCourse'
        BY <1>1, <3>1, <3>2, CourseKept
      <3>5. QED
        BY <1>2, <3>3, <3>4 DEF WInv
    <2>8. ASSUME NEW rid \in Known, NEW r \in Rows, UpdateOverruns(t, rid, r) PROVE WInv'
      <3>1. call' = [u \in Threads |-> Undefined] /\ pages' = pages
        BY <2>8 DEF UpdateOverruns
      <3>2. \A u \in Threads : call'[u].op = "undefined"
        BY <3>1 DEF Undefined
      <3>3. OneChain' /\ ScansOnCourse'
        BY <1>1, <3>1, <3>2 DEF OneChain, ScansOnCourse
      <3>4. QED
        BY <1>2, <3>3 DEF WInv
    <2>9. ASSUME NEW rid \in Known, Delete(t, rid) PROVE WInv'
      BY <1>1, <1>2, <2>9, DeleteOnCourse DEF WInv
    <2>10. CASE BeginScan(t) \/ Search(t) \/ SearchCut(t) \/ Deref(t)
      <3>1. \E d \in Scans : /\ OnCourse(d, DOMAIN rows)
                             /\ call' = [call EXCEPT ![t] = d]
                             /\ pages' = pages /\ rows' = rows
        <4>1. ASSUME call[t].op = "scan"
              PROVE  call[t] \in Scans /\ OnCourse(call[t], DOMAIN rows)
                     /\ call[t].page \in 1 .. Len(pages)
          BY <1>1, <2>2, <4>1, CallKinds DEF ScansOnCourse, HInv, LinksLeadOn
        <4>2. CASE BeginScan(t)
          BY <1>1, <4>2, BeginScanStep, FirstScanFacts, FirstScanOnCourse
        <4>3. CASE Search(t)
          <5>1. call[t].op = "scan" /\ call[t].at = "search"
            BY <4>3 DEF Search
          <5>2. PICK d \in Scans : /\ Searched(call[t], d)
                                   /\ call' = [call EXCEPT ![t] = d]
                                   /\ pages' = pages /\ rows' = rows
            BY <1>1, <4>3, SearchStep
          <5>3. OnCourse(d, DOMAIN rows)
            BY <1>1, <4>1, <5>1, <5>2, SearchOnCourse
          <5>4. QED
            BY <5>2, <5>3
        <4>4. CASE SearchCut(t)
          <5>1. call[t].op = "scan"
            BY <4>4 DEF SearchCut
          <5>2. PICK d \in Scans : /\ d.at = "end" /\ d.cut = TRUE
                                   /\ d.slot = call[t].slot /\ d.seen = call[t].seen
                                   /\ d.must = call[t].must
                                   /\ call' = [call EXCEPT ![t] = d]
                                   /\ pages' = pages /\ rows' = rows
            BY <1>1, <4>4, SearchCutStep
          <5>3. OnCourse(call[t], DOMAIN rows)
            BY <4>1, <5>1
          <5>4. d.cut # FALSE
            BY <5>2
          <5>5. OnCourse(d, DOMAIN rows)
            BY <5>2, <5>3, <5>4 DEF OnCourse
          <5>6. QED
            BY <5>2, <5>5
        <4>5. CASE Deref(t)
          <5>1. call[t].op = "scan" /\ call[t].at = "row"
            BY <4>5 DEF Deref
          <5>2. PICK d \in Scans : /\ Read(call[t], d)
                                   /\ call' = [call EXCEPT ![t] = d]
                                   /\ pages' = pages /\ rows' = rows
            BY <1>1, <4>5, DerefStep
          <5>3. OnCourse(d, DOMAIN rows)
            BY <1>1, <4>1, <5>1, <5>2, ReadOnCourse
          <5>4. QED
            BY <5>2, <5>3
        <4>6. QED
          BY <2>10, <4>2, <4>3, <4>4, <4>5
      <3>2. PICK d \in Scans : /\ OnCourse(d, DOMAIN rows)
                               /\ call' = [call EXCEPT ![t] = d]
                               /\ pages' = pages /\ rows' = rows
        BY <3>1
      <3>3. d \in Calls /\ d.op # "insert"
        BY ScanTypes DEF Calls
      <3>4. OneChain'
        BY <1>1, <2>3, <3>2, <3>3, ChainKept
      <3>5. ScansOnCourse'
        BY <1>1, <3>2, <3>3, CourseKept
      <3>6. QED
        BY <1>2, <3>4, <3>5 DEF WInv
    <2>11. QED
      BY <2>1, <2>4, <2>5, <2>6, <2>7, <2>8, <2>9, <2>10
  <1>5. QED
    BY <1>3, <1>4

LEMMA WInit == Init => WInv
  <1> SUFFICES ASSUME Init PROVE WInv
    OBVIOUS
  <1>1. pages = <<InitPage>> /\ call = [t \in Threads |-> Idle]
    BY DEF Init
  <1>2. InitPage.next = INVALID_PAGE_ID
    BY DEF InitPage
  <1>3. Len(pages) = 1 /\ pages[1] = InitPage /\ \A n \in 1 .. Len(pages) : n = 1
    BY <1>1
  <1>4. \A t \in Threads : call[t].op = "idle"
    BY <1>1, IdlePlaced
  <1>5. OneChain
    BY <1>2, <1>3, <1>4 DEF OneChain
  <1>6. ScansOnCourse
    BY <1>4 DEF ScansOnCourse
  <1>7. QED
    BY <1>5, <1>6, HInit DEF WInv

LEMMA WInvariant ==
  ASSUME \A x, y \in Writers : x = y
  PROVE  Spec => []WInv
  <1>1. WInv /\ [Next]_vars => WInv'
    BY WStep
  <1>2. QED
    BY <1>1, WInit, PTL DEF Spec

LEMMA ScansSee == WInv => ScanSeesStableRows
  <1> SUFFICES ASSUME WInv, NEW t \in Threads,
                      call[t].op = "scan", call[t].at = "end", ~call[t].cut
               PROVE  LET seen == call[t].seen IN
                      /\ call[t].must \subseteq {seen[i] : i \in 1 .. Len(seen)}
                      /\ \A i, j \in 1 .. Len(seen) : i # j => seen[i] # seen[j]
    BY DEF ScanSeesStableRows
  <1> DEFINE c == call[t]
  <1>1. OnCourse(c, DOMAIN rows)
    BY DEF WInv, ScansOnCourse
  <1>2. c \in Calls
    BY DEF WInv, HInv, CallsTyped
  <1>3. c.seen \in Seq(Places) /\ c.cut \in BOOLEAN
    BY <1>2, CallKinds, ScanTypes
  <1>4. c.cut = FALSE
    BY <1>3
  <1>5. \A x \in c.must : \E i \in 1 .. Len(c.seen) : c.seen[i] = x
    BY <1>1, <1>4 DEF OnCourse
  <1>6. \A i, j \in 1 .. Len(c.seen) : i < j => Before(c.seen[i], c.seen[j])
    BY <1>1 DEF OnCourse
  <1>7. \A x \in Places : ~Before(x, x)
    <2>1. SUFFICES ASSUME NEW n \in Nat, NEW s \in Nat PROVE ~Before(<<n, s>>, <<n, s>>)
      BY DEF Places
    <2>2. ~(n < n) /\ ~(s < s)
      OBVIOUS
    <2>3. QED
      BY <2>2 DEF Before
  <1>8. \A i, j \in 1 .. Len(c.seen) : i # j => i < j \/ j < i
    BY <1>3
  <1>9. \A i \in 1 .. Len(c.seen) : c.seen[i] \in Places
    BY <1>3
  <1>10. \A i, j \in 1 .. Len(c.seen) : i # j => c.seen[i] # c.seen[j]
    BY <1>6, <1>7, <1>8, <1>9
  <1>11. QED
    BY <1>5, <1>10

\* A scan that runs while one other thread inserts, updates and deletes
\* returns every row that was there all along, once, for any table and any
\* number of scans (table_heap.cpp:Iterator::operator++).
THEOREM ScansAreComplete ==
  ASSUME \A x, y \in Writers : x = y
  PROVE  Spec => []ScanSeesStableRows
  <1>1. Spec => []WInv
    BY WInvariant
  <1>2. QED
    BY <1>1, ScansSee, PTL


-----------------------------------------------------------------------------
(* The table is the rows.                                                  *)

\* The pages within n links of the first one, when page n is linked behind
\* page n - 1.
Within(n) == 1 .. (IF n < Len(pages) THEN n + 1 ELSE Len(pages))

LEMMA WithinStep ==
  ASSUME HInv, OneChain, NEW n \in 1 .. Len(pages)
  PROVE  Within(n) =
         Within(n - 1) \cup ({pages[p].next : p \in Within(n - 1)} \ {INVALID_PAGE_ID})
  <1> DEFINE N == Len(pages)
  <1>1. N \in Nat /\ n \in Nat /\ n >= 1 /\ n <= N
    BY DEF HInv, Kept
  <1>2. Within(n - 1) = 1 .. n
    BY <1>1 DEF Within
  <1>3. \A p \in 1 .. n : p \in 1 .. N /\ p \in Nat
    BY <1>1
  <1>4. \A p \in 1 .. n : /\ p < N => pages[p].next = p + 1
                          /\ p = N => pages[p].next = INVALID_PAGE_ID
    <2>1. \A p \in 1 .. n : pages[p].next = IF p < N THEN p + 1 ELSE INVALID_PAGE_ID
      BY <1>3 DEF OneChain
    <2>2. QED
      BY <2>1, <1>1, <1>3
  <1>5. CASE n = N
    <2>1. Within(n) = 1 .. n
      BY <1>1, <1>5 DEF Within
    <2>2. \A p \in 1 .. n : pages[p].next # INVALID_PAGE_ID => pages[p].next \in 1 .. n
      <3>1. \A p \in 1 .. n : p < N \/ p = N
        BY <1>1, <1>3
      <3>2. \A p \in 1 .. n : p < N => p + 1 \in 1 .. n
        BY <1>1, <1>5
      <3>3. QED
        BY <1>4, <3>1, <3>2
    <2>3. QED
      BY <1>2, <2>1, <2>2
  <1>6. CASE n < N
    <2>1. Within(n) = 1 .. n + 1
      BY <1>1, <1>6 DEF Within
    <2>2. \A p \in 1 .. n : pages[p].next = p + 1
      BY <1>1, <1>4, <1>6
    <2>3. \A p \in 1 .. n : p + 1 \in 1 .. n + 1
      BY <1>1
    <2>4. n \in 1 .. n /\ n + 1 # INVALID_PAGE_ID
      BY <1>1 DEF INVALID_PAGE_ID
    <2>5. \A i \in 1 .. n + 1 : i \in 1 .. n \/ i = n + 1
      BY <1>1
    <2>6. 1 .. n \subseteq 1 .. n + 1
      BY <1>1
    <2>7. n + 1 \in {pages[p].next : p \in 1 .. n} \ {INVALID_PAGE_ID}
      BY <2>2, <2>4
    <2>8. QED
      BY <1>2, <2>1, <2>2, <2>3, <2>5, <2>6, <2>7
  <1>7. QED
    BY <1>1, <1>5, <1>6

LEMMA ChainIsAll ==
  ASSUME HInv, OneChain
  PROVE  Chain = 1 .. Len(pages)
  <1> DEFINE N == Len(pages)
             F(f, n) == IF n = 0 THEN {firstPageId}
                        ELSE f[n - 1] \cup ({pages[p].next : p \in f[n - 1]} \ {INVALID_PAGE_ID})
             g == [n \in 0 .. N |-> Within(n)]
             step == CHOOSE f : f = [n \in 0 .. N |-> F(f, n)]
  <1>1. N \in Nat /\ N >= 1
    BY DEF HInv, Kept, LinksLeadOn
  <1>2. Chain = step[N]
    BY DEF Chain
  <1>3. Within(0) = {firstPageId}
    <2>1. Within(0) = 1 .. 1
      BY <1>1 DEF Within
    <2>2. 1 .. 1 = {1}
      OBVIOUS
    <2>3. QED
      BY <2>1, <2>2 DEF firstPageId
  <1>4. \A n \in 0 .. N : n # 0 => n \in 1 .. N /\ n - 1 \in 0 .. N
    BY <1>1
  <1>5. \A n \in 0 .. N : g[n] = F(g, n)
    <2>1. SUFFICES ASSUME NEW n \in 0 .. N PROVE g[n] = F(g, n)
      OBVIOUS
    <2>2. CASE n = 0
      BY <1>3, <2>2
    <2>3. CASE n # 0
      <3>1. g[n] = Within(n) /\ g[n - 1] = Within(n - 1)
        BY <1>4, <2>3
      <3>2. QED
        BY <1>4, <2>3, <3>1, WithinStep
    <2>4. QED
      BY <2>2, <2>3
  <1>6. g = [n \in 0 .. N |-> F(g, n)]
    BY <1>5
  <1>7. step = [n \in 0 .. N |-> F(step, n)]
    <2> HIDE DEF g, F
    <2>1. \E f : f = [n \in 0 .. N |-> F(f, n)]
      BY <1>6
    <2>2. QED
      BY <2>1
  <1>8. \A n \in 0 .. N : step[n] = F(step, n)
    <2> HIDE DEF step, F
    <2>1. QED
      BY <1>7
  <1> HIDE DEF step
  <1>9. \A n \in 0 .. N : step[n] = Within(n)
    <2> DEFINE S == {n \in 0 .. N : step[n] # Within(n)}
    <2>1. SUFFICES ASSUME S # {} PROVE FALSE
      OBVIOUS
    <2>2. S \in SUBSET Nat
      BY <1>1
    <2>3. PICK m \in S : \A n \in S : m <= n
      BY <2>1, <2>2, SmallestSlot
    <2>4. m \in 0 .. N /\ step[m] # Within(m)
      OBVIOUS
    <2>5. m # 0
      BY <1>3, <1>8, <2>4
    <2>6. m - 1 \in 0 .. N /\ m \in 1 .. N
      BY <1>4, <2>4, <2>5
    <2>7. ~(m <= m - 1)
      BY <2>6
    <2>8. step[m - 1] = Within(m - 1)
      BY <2>3, <2>6, <2>7
    <2>9. step[m] = Within(m)
      BY <1>8, <2>4, <2>5, <2>6, <2>8, WithinStep
    <2>10. QED
      BY <2>4, <2>9
  <1>10. N \in 0 .. N /\ Within(N) = 1 .. N
    BY <1>1 DEF Within
  <1>11. QED
    BY <1>2, <1>9, <1>10

LEMMA HeapHolds == WInv => HeapHoldsRows
  <1> SUFFICES ASSUME WInv PROVE Contents = rows
    BY DEF HeapHoldsRows
  <1>1. HInv /\ OneChain
    BY DEF WInv
  <1>2. Chain = 1 .. Len(pages)
    BY <1>1, ChainIsAll
  <1> DEFINE D == {x \in Rids : /\ x[1] \in Chain
                                /\ x[2] <= Len(pages[x[1]].slots)
                                /\ GetTupleSize(pages[x[1]], x[2]) > 0}
  <1>3. Contents = [x \in D |-> GetTuple(pages[x[1]], x[2])]
    BY DEF Contents
  <1>4. ONEBASE_PAGE_SIZE \in Nat
    BY TablePageAssumption
  <1>5. ASSUME NEW n \in 1 .. Len(pages)
        PROVE  Len(pages[n].slots) \in Nat /\ Len(pages[n].slots) <= ONEBASE_PAGE_SIZE
    <2>1. pages[n] \in Page /\ Sound(pages[n])
      BY <1>1 DEF HInv, Kept
    <2>2. /\ Len(pages[n].slots) \in Nat /\ SlotEnd(pages[n]) \in Nat /\ pages[n].fsp \in Nat
          /\ Len(pages[n].slots) <= SlotEnd(pages[n])
      BY <2>1, SlotEndIsNat
    <2>3. SlotEnd(pages[n]) <= pages[n].fsp /\ pages[n].fsp <= ONEBASE_PAGE_SIZE
      BY <2>1 DEF Sound
    <2>4. QED
      BY <1>4, <2>2, <2>3
  <1>6. ASSUME NEW x \in DOMAIN rows
        PROVE  x \in D /\ GetTuple(pages[x[1]], x[2]) = rows[x]
    <2>1. PICK n \in Nat, s \in Nat : /\ x = <<n, s>>
                                      /\ n \in 1 .. Len(pages) /\ s \in 1 .. Len(pages[n].slots)
                                      /\ GetTupleSize(pages[n], s) > 0
                                      /\ GetTuple(pages[n], s) = rows[x]
      BY <1>1, RowIsLive
    <2>2. x[1] = n /\ x[2] = s
      BY <2>1
    <2>3. s \in 1 .. ONEBASE_PAGE_SIZE /\ s <= Len(pages[n].slots)
      BY <1>4, <1>5, <2>1
    <2>4. x \in Rids
      BY <2>1, <2>3 DEF Rids
    <2>5. QED
      BY <1>2, <2>1, <2>2, <2>3, <2>4
  <1>7. ASSUME NEW x \in D
        PROVE  x \in DOMAIN rows
    <2>1. PICK n \in 1 .. Len(pages), s \in 1 .. ONEBASE_PAGE_SIZE : x = <<n, s>>
      BY DEF Rids
    <2>2. x[1] = n /\ x[2] = s
      BY <2>1
    <2>3. s <= Len(pages[n].slots) /\ GetTupleSize(pages[n], s) > 0
      BY <2>2
    <2>4. s \in 1 .. Len(pages[n].slots)
      BY <1>4, <1>5, <2>3
    <2>5. Live(pages[n], s)
      BY <2>3 DEF Live, GetTupleSize
    <2>6. QED
      BY <1>1, <2>1, <2>4, <2>5 DEF HInv, Kept
  <1>8. D = DOMAIN rows
    BY <1>6, <1>7
  <1>9. rows = [x \in DOMAIN rows |-> rows[x]]
    BY <1>1 DEF HInv, Kept
  <1> HIDE DEF D
  <1>10. \A x \in D : GetTuple(pages[x[1]], x[2]) = rows[x]
    BY <1>6, <1>8
  <1>11. QED
    BY <1>3, <1>8, <1>9, <1>10

\* A table with one writer is exactly the rows that were put into it, for
\* any sizes of rows and pages: every row is reached along the page list and
\* reads back as it was written (table_heap.cpp, table_page.cpp).
THEOREM TableHoldsItsRows ==
  ASSUME \A x, y \in Writers : x = y
  PROVE  Spec => []HeapHoldsRows
  <1>1. Spec => []WInv
    BY WInvariant
  <1>2. QED
    BY <1>1, HeapHolds, PTL
=============================================================================
