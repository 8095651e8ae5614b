----------------------------- MODULE TableHeap -----------------------------
(***************************************************************************)
(* storage/table/table_heap.cpp: a table as a linked list of slotted pages.*)
(* A TableHeap has no latch.  Server threads share it, so a call is a      *)
(* sequence of page visits (FetchPage .. UnpinPage), each of them a step,  *)
(* and calls of different threads interleave between the visits.           *)
(* FetchPage and NewPage may return nullptr; a scan that meets one ends as *)
(* if the table did.                                                       *)
(*                                                                         *)
(* An update that overruns the slots of its page leaves slots that point   *)
(* anywhere.  What the threads do from then on is undefined, and nothing   *)
(* more is said about the table.                                           *)
(***************************************************************************)
EXTENDS TablePage, FiniteSets, Functions

CONSTANTS
  Threads,       \* the threads that use the table
  Writers,       \* those that insert, update and delete
  Scanners,      \* those that scan
  MaxPages,      \* bounds the pages the table grows to
  PoolMayFail    \* may FetchPage and NewPage return nullptr?

ASSUME TableHeapAssumption ==
  /\ Writers \cup Scanners \subseteq Threads
  /\ MaxPages \in Nat \ {0}
  /\ PoolMayFail \in BOOLEAN

VARIABLES
  pages,      \* the pages allocated to this table, by page id
  call,       \* call[t]: what thread t is doing
  rows        \* by rid, the rows that calls which succeeded have stored

vars == <<pages, call, rows>>

firstPageId == 1

Rids == {<<p, s>> : p \in 1 .. Len(pages), s \in 1 .. ONEBASE_PAGE_SIZE}

\* An insertion is about to visit a page, or to link a new one behind it.  A
\* scan looks for the next row, from a position on, or has found it there.
Idle == [op |-> "idle"]
Undefined == [op |-> "undefined"]
Insertion(r, p, at) == [op |-> "insert", row |-> r, page |-> p, at |-> at]
Scan(at, p, s, seen, must, cut) ==
  [op |-> "scan", at |-> at, page |-> p, slot |-> s, seen |-> seen,
   must |-> must, cut |-> cut]

Init ==
  /\ pages = <<InitPage>>
  /\ call = [t \in Threads |-> Idle]
  /\ rows = << >>

-----------------------------------------------------------------------------
(* InsertTuple.                                                            *)

BeginInsert(t, r) ==
  /\ t \in Writers /\ call[t] = Idle
  /\ Len(pages) < MaxPages
  /\ call' = [call EXCEPT ![t] = Insertion(r, firstPageId, "visit")]
  /\ UNCHANGED <<pages, rows>>

\* The rid <<p, s>> is returned for row r.
Stored(t, p, s, r) ==
  /\ rows' = [rid \in DOMAIN rows \cup {<<p, s>>} |->
                IF rid = <<p, s>> THEN r ELSE rows[rid]]
  /\ call' = [call EXCEPT ![t] = Idle]

InsertHere(t) ==
  LET p == call[t].page  r == call[t].row IN
  /\ call[t].op = "insert" /\ call[t].at = "visit"
  /\ Fits(pages[p], r)
  /\ pages' = [pages EXCEPT ![p] = InsertTuple(pages[p], r)]
  /\ Stored(t, p, Len(pages[p].slots) + 1, r)

\* The page is full: on to the next one, or to the end of the list, where the
\* page stays pinned while a new one is asked for.
InsertNextPage(t) ==
  LET p == call[t].page  r == call[t].row IN
  /\ call[t].op = "insert" /\ call[t].at = "visit"
  /\ ~Fits(pages[p], r)
  /\ call' = [call EXCEPT ![t] =
                IF pages[p].next # INVALID_PAGE_ID
                THEN Insertion(r, pages[p].next, "visit")
                ELSE Insertion(r, p, "link")]
  /\ UNCHANGED <<pages, rows>>

\* Mutant: the new page is not linked to the list.
InsertLinkForgets(t) ==
  LET p == call[t].page  r == call[t].row  n == Len(pages) + 1 IN
  /\ call[t].op = "insert" /\ call[t].at = "link"
  /\ n <= MaxPages
  /\ pages' = Append(pages, IF Fits(InitPage, r) THEN InsertTuple(InitPage, r) ELSE InitPage)
  /\ IF Fits(InitPage, r) THEN Stored(t, n, 1, r)
     ELSE call' = [call EXCEPT ![t] = Idle] /\ UNCHANGED rows

\* NewPage, Init, SetNextPageId, InsertTuple.  A tuple that fits no page
\* fails here, and leaves the empty page at the end of the list.
InsertLink(t) ==
  LET p == call[t].page  r == call[t].row  n == Len(pages) + 1 IN
  /\ call[t].op = "insert" /\ call[t].at = "link"
  /\ n <= MaxPages
  /\ pages' = Append([pages EXCEPT ![p].next = n],
                     IF Fits(InitPage, r) THEN InsertTuple(InitPage, r) ELSE InitPage)
  /\ IF Fits(InitPage, r) THEN Stored(t, n, 1, r)
     ELSE call' = [call EXCEPT ![t] = Idle] /\ UNCHANGED rows

\* FetchPage or NewPage returns nullptr: nullopt.
InsertFails(t) ==
  /\ call[t].op = "insert"
  /\ PoolMayFail
  /\ call' = [call EXCEPT ![t] = Idle]
  /\ UNCHANGED <<pages, rows>>

-----------------------------------------------------------------------------
(* UpdateTuple and DeleteTuple: one page visit each, none when FetchPage   *)
(* fails.  The rid is one that a call or a scan has returned, whatever has *)
(* become of its row since; updating a deleted row brings it back.         *)

Known == {rid \in Rids : rid[2] <= Len(pages[rid[1]].slots)}

Update(t, rid, r) ==
  LET p == rid[1]  s == rid[2] IN
  /\ t \in Writers /\ call[t] = Idle
  /\ UpdateAccepted(pages[p], s, r)
  /\ UpdateClear(pages[p], r)
  /\ pages' = [pages EXCEPT ![p] = UpdateTuple(pages[p], s, r)]
  /\ Stored(t, p, s, r)

UpdateOverruns(t, rid, r) ==
  /\ t \in Writers /\ call[t] = Idle
  /\ UpdateAccepted(pages[rid[1]], rid[2], r)
  /\ ~UpdateClear(pages[rid[1]], r)
  /\ call' = [u \in Threads |-> Undefined]
  /\ UNCHANGED <<pages, rows>>

Delete(t, rid) ==
  /\ t \in Writers /\ call[t] = Idle
  /\ pages' = [pages EXCEPT ![rid[1]] = DeleteTuple(pages[rid[1]], rid[2])]
  /\ rows' = Restrict(rows, DOMAIN rows \ {rid})
  /\ call' = [u \in Threads |->
                IF call[u].op = "scan" THEN [call[u] EXCEPT !.must = @ \ {rid}]
                ELSE call[u]]

-----------------------------------------------------------------------------
(* The iterator.  Begin and operator++ are the same search, from the first *)
(* slot of the table and from the slot after the current one.              *)

BeginScan(t) ==
  /\ t \in Scanners /\ call[t] = Idle
  /\ call' = [call EXCEPT ![t] =
                Scan("search", firstPageId, 1, <<>>, DOMAIN rows, FALSE)]
  /\ UNCHANGED <<pages, rows>>

\* The slots with a tuple at or after slot s of page p.
FromSlot(p, s) ==
  {i \in s .. Len(pages[p].slots) : GetTupleSize(pages[p], i) > 0}

\* Mutant: the slot number is kept across pages.
SearchKeepsSlot(t) ==
  LET c == call[t]
      found == FromSlot(c.page, c.slot)
  IN
  /\ c.op = "scan" /\ c.at = "search"
  /\ call' = [call EXCEPT ![t] =
                IF found # {}
                THEN [c EXCEPT !.at = "row",
                               !.slot = CHOOSE i \in found : \A j \in found : i <= j]
                ELSE IF pages[c.page].next # INVALID_PAGE_ID
                THEN [c EXCEPT !.page = pages[c.page].next]
                ELSE [c EXCEPT !.at = "end"]]
  /\ UNCHANGED <<pages, rows>>

\* One page of the search.
Search(t) ==
  LET c == call[t]
      found == FromSlot(c.page, c.slot)
  IN
  /\ c.op = "scan" /\ c.at = "search"
  /\ call' = [call EXCEPT ![t] =
                IF found # {}
                THEN [c EXCEPT !.at = "row",
                               !.slot = CHOOSE i \in found : \A j \in found : i <= j]
                ELSE IF pages[c.page].next # INVALID_PAGE_ID
                THEN [c EXCEPT !.page = pages[c.page].next, !.slot = 1]
                ELSE [c EXCEPT !.at = "end"]]
  /\ UNCHANGED <<pages, rows>>

\* FetchPage fails in Begin or operator++: the scan is at End().
SearchCut(t) ==
  /\ call[t].op = "scan" /\ call[t].at = "search"
  /\ PoolMayFail
  /\ call' = [call EXCEPT ![t].at = "end", ![t].cut = TRUE]
  /\ UNCHANGED <<pages, rows>>

\* operator* reads the row, and operator++ searches on.  A row deleted since
\* the search found it reads as an empty tuple.
Deref(t) ==
  LET c == call[t]
      row == GetTuple(pages[c.page], c.slot)
  IN
  /\ c.op = "scan" /\ c.at = "row"
  /\ call' = [call EXCEPT ![t] =
                [c EXCEPT !.at = "search", !.slot = c.slot + 1,
                          !.seen = IF row = NoRow THEN @
                                   ELSE Append(@, <<c.page, c.slot>>)]]
  /\ UNCHANGED <<pages, rows>>

\* GetTuple throws out of operator*: the statement fails.
DerefThrows(t) ==
  /\ call[t].op = "scan" /\ call[t].at = "row"
  /\ PoolMayFail
  /\ call' = [call EXCEPT ![t] = Idle]
  /\ UNCHANGED <<pages, rows>>

EndScan(t) ==
  /\ call[t].op = "scan" /\ call[t].at = "end"
  /\ call' = [call EXCEPT ![t] = Idle]
  /\ UNCHANGED <<pages, rows>>

-----------------------------------------------------------------------------
Next ==
  \E t \in Threads :
    \/ \E r \in Rows : BeginInsert(t, r)
    \/ InsertHere(t)
    \/ InsertNextPage(t)
    \/ InsertLink(t)
    \/ InsertFails(t)
    \/ \E rid \in Known :
         \/ \E r \in Rows : Update(t, rid, r) \/ UpdateOverruns(t, rid, r)
         \/ Delete(t, rid)
    \/ BeginScan(t)
    \/ Search(t)
    \/ SearchCut(t)
    \/ Deref(t)
    \/ DerefThrows(t)
    \/ EndScan(t)

Spec == Init /\ [][Next]_vars

-----------------------------------------------------------------------------
\* The pages that can be reached from the first page.
Chain ==
  LET step[n \in 0 .. Len(pages)] ==
        IF n = 0 THEN {firstPageId}
        ELSE step[n - 1] \cup ({pages[p].next : p \in step[n - 1]} \ {INVALID_PAGE_ID})
  IN step[Len(pages)]

Contents ==
  [rid \in {x \in Rids : /\ x[1] \in Chain
                         /\ x[2] <= Len(pages[x[1]].slots)
                         /\ GetTupleSize(pages[x[1]], x[2]) > 0}
   |-> GetTuple(pages[rid[1]], rid[2])]

Corrupt == \E t \in Threads : call[t] = Undefined

\* A table is the rows that were put into it: every row whose rid an insert
\* returned can be reached from the first page and reads back as last
\* written, until it is deleted, and nothing else is in the table.
HeapHoldsRows == ~Corrupt => Contents = rows

\* A scan of a table that others change meanwhile returns every row that was
\* there all along, exactly once; only a page that cannot be fetched makes
\* it end early.
ScanSeesStableRows ==
  \A t \in Threads :
    call[t].op = "scan" /\ call[t].at = "end" /\ ~call[t].cut =>
      LET seen == call[t].seen IN
      /\ call[t].must \subseteq {seen[i] : i \in 1 .. Len(seen)}
      /\ \A i, j \in 1 .. Len(seen) : i # j => seen[i] # seen[j]

\* The two halves of a page never meet: the slots end below the free space
\* pointer, and so the remaining space is never a wrapped number, and the
\* tuples in use lie above it without overlapping.
PagesSound ==
  ~Corrupt => \A n \in 1 .. Len(pages) :
    LET p == pages[n]
        used == {s \in 1 .. Len(p.slots) : p.slots[s].len > 0}
    IN /\ SlotEnd(p) <= p.fsp
       /\ \A s \in used : p.slots[s].off >= p.fsp
       /\ \A s, u \in used : s # u =>
            \/ p.slots[s].off + p.slots[s].len <= p.slots[u].off
            \/ p.slots[u].off + p.slots[u].len <= p.slots[s].off
=============================================================================
