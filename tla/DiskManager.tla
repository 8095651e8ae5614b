---------------------------- MODULE DiskManager ----------------------------
(***************************************************************************)
(* storage/disk/disk_manager.cpp: one database file behind one             *)
(* std::fstream.  The manager is a value `io' on which the operations are  *)
(* functions, because the buffer pool chains several of them inside one    *)
(* critical section:                                                       *)
(*   blocks  what the file holds in every page slot (Zero where the file   *)
(*           has a hole or has not grown yet),                             *)
(*   end     the file's length in pages,                                   *)
(*   failed  the stream's failbit, which no operation ever clears,         *)
(*   next    next_page_id_.                                                *)
(* num_pages_ is only read by the constructor, from the file's length, so  *)
(* `end' stands for it.                                                    *)
(***************************************************************************)
EXTENDS Integers

CONSTANTS
  MaxPages,     \* bound on next_page_id_
  Data,         \* page contents, told apart only by equality
  Zero          \* the contents of a page of zero bytes

ASSUME DiskAssumption ==
  /\ MaxPages \in Nat
  /\ Zero \in Data

PageIds == 0 .. MaxPages - 1

INVALID_PAGE_ID == -1

DiskManagers ==
  [blocks : [PageIds -> Data], end : 0 .. MaxPages, failed : BOOLEAN,
   next : 0 .. MaxPages]

\* A new file: DiskManager::DiskManager creates it empty.
NewDisk ==
  [blocks |-> [p \in PageIds |-> Zero], end |-> 0, failed |-> FALSE, next |-> 0]

\* Opening the file another DiskManager wrote: ids restart at its length.
Reopen(io) == [io EXCEPT !.failed = FALSE, !.next = io.end]

\* ReadPage, the bytes: nothing is read from a failed stream, a read past the
\* end is short, and what was not read is zero-filled.
ReadData(io, p) ==
  IF io.failed \/ p >= io.end THEN Zero ELSE io.blocks[p]

\* ReadPage, the stream: a short read sets failbit and nothing clears it.
ReadPage(io, p) == [io EXCEPT !.failed = io.failed \/ p >= io.end]

\* WritePage: bad() does not report failbit, so a write to a failed stream
\* is dropped without a word; otherwise the file grows to hold the page.
WritePage(io, p, d) ==
  IF io.failed THEN io
  ELSE [io EXCEPT !.blocks[p] = d,
                  !.end = IF p >= io.end THEN p + 1 ELSE io.end]

\* AllocatePage.  DeallocatePage is a no-op and has no definition.
AllocatePage(io) == [io EXCEPT !.next = io.next + 1]
=============================================================================
