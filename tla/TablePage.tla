----------------------------- MODULE TablePage -----------------------------
(***************************************************************************)
(* storage/page/table_page.cpp: a slotted page as a value.  The slots grow *)
(* from the header upwards, the tuples from the end of the page downwards; *)
(* space below the free space pointer is never given back.  Every byte of  *)
(* a tuple is tagged with the row it was written for, so a tuple that was  *)
(* overwritten does not read back as its row.                              *)
(***************************************************************************)
EXTENDS Integers, Sequences

CONSTANTS
  Rows,               \* the tuples
  SizeOf,             \* SizeOf[r]: Tuple::GetLength, serialized
  ONEBASE_PAGE_SIZE,
  SIZE_TABLE_PAGE_HEADER,
  SIZE_TUPLE_SLOT,
  NoRow               \* what a slot reads as that holds no whole tuple

ASSUME TablePageAssumption ==
  /\ {ONEBASE_PAGE_SIZE, SIZE_TABLE_PAGE_HEADER} \subseteq Nat
  /\ SIZE_TABLE_PAGE_HEADER <= ONEBASE_PAGE_SIZE
  /\ SIZE_TUPLE_SLOT \in Nat \ {0}
  /\ SizeOf \in [Rows -> Nat \ {0}]
  /\ NoRow \notin Rows

INVALID_PAGE_ID == -1

Offsets == 0 .. ONEBASE_PAGE_SIZE - 1

\* A page: next page id, free space pointer, slots, bytes.  Slots are numbered
\* from 0 in the code and from 1 here.

\* Init(INVALID_PAGE_ID)
InitPage ==
  [next |-> INVALID_PAGE_ID, fsp |-> ONEBASE_PAGE_SIZE, slots |-> <<>>,
   bytes |-> [o \in Offsets |-> NoRow]]

SlotEnd(p) == SIZE_TABLE_PAGE_HEADER + Len(p.slots) * SIZE_TUPLE_SLOT

\* Unsigned in the code: it wraps once the tuples have run into the slots.
GetFreeSpaceRemaining(p) == p.fsp - SlotEnd(p)

\* memcpy of row r to offset off.
CopyIn(bytes, off, r) ==
  [o \in Offsets |-> IF o \in off .. off + SizeOf[r] - 1 THEN r ELSE bytes[o]]

\* Mutant: the new slot's own size is forgotten.
FitsWithoutSlot(p, r) == GetFreeSpaceRemaining(p) >= SizeOf[r]

\* Does InsertTuple find room?
Fits(p, r) == GetFreeSpaceRemaining(p) >= SizeOf[r] + SIZE_TUPLE_SLOT

\* InsertTuple, which returns the slot Len(p.slots) + 1.
InsertTuple(p, r) ==
  LET newFsp == p.fsp - SizeOf[r] IN
  [p EXCEPT !.fsp = newFsp,
            !.slots = Append(p.slots, [off |-> newFsp, len |-> SizeOf[r]]),
            !.bytes = CopyIn(p.bytes, newFsp, r)]

\* GetTuple: the row whose bytes the slot's extent holds, NoRow if they are
\* not one row's, or the slot is empty.
GetTuple(p, s) ==
  LET off == p.slots[s].off
      len == p.slots[s].len
  IN IF len > 0 /\ \E r \in Rows : SizeOf[r] = len
                     /\ \A o \in off .. off + len - 1 : p.bytes[o] = r
     THEN p.bytes[off] ELSE NoRow

GetTupleSize(p, s) == p.slots[s].len

DeleteTuple(p, s) == [p EXCEPT !.slots[s] = [off |-> 0, len |-> 0]]

\* UpdateTuple goes ahead: only the growth is compared with the free space,
\* although the whole new tuple will be written below the old ones.
UpdateAccepted(p, s, r) ==
  \/ SizeOf[r] <= GetTupleSize(p, s)
  \/ SizeOf[r] - GetTupleSize(p, s) <= GetFreeSpaceRemaining(p)

\* ... and the new tuple stays clear of the slots.
UpdateClear(p, r) == SizeOf[r] <= GetFreeSpaceRemaining(p)

\* UpdateTuple on a page with room: the slot points to a new copy.
UpdateTuple(p, s, r) ==
  LET newFsp == p.fsp - SizeOf[r] IN
  [p EXCEPT !.fsp = newFsp,
            !.slots[s] = [off |-> newFsp, len |-> SizeOf[r]],
            !.bytes = CopyIn(p.bytes, newFsp, r)]
=============================================================================
