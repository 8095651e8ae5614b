----------------------------- MODULE BufferPool -----------------------------
(***************************************************************************)
(* buffer/buffer_pool_manager.cpp over the disk manager and a replacer     *)
(* that keeps the contract of module Replacer.  Every operation runs under *)
(* latch_, so it is one action.  The callers are handles: a handle is one  *)
(* outstanding Page pointer, got from NewPage or FetchPage and given back  *)
(* by one UnpinPage.  Between the two its holder may change the page's     *)
(* bytes without the latch, so those writes interleave with every other    *)
(* operation, flushes of the same page included.                           *)
(***************************************************************************)
EXTENDS DiskManager, Sequences, FiniteSets

CONSTANTS
  PoolSize,      \* pool_size_
  Handles,       \* bounds the number of simultaneous pins
  InitNewPages,  \* do callers mark a new page dirty when they unpin it?
  NoPage         \* the contents of a page that does not exist

ASSUME PoolAssumption ==
  /\ PoolSize \in Nat
  /\ IsFiniteSet(Handles)
  /\ InitNewPages \in BOOLEAN
  /\ NoPage \notin Data

Frames == 0 .. PoolSize - 1

NoFrame == -1    \* no entry in page_table_

VARIABLES
  pageId, pinCount, isDirty, data,   \* pages_[f]: page_id_, pin_count_, ...
  pageTable,                         \* page_table_, NoFrame where absent
  freeList,                          \* free_list_
  replacer,                          \* *replacer_, as module Replacer sees it
  io,                                \* *disk_manager_
  held,                              \* held[h]: the page handle h has pinned
  modified,                          \* handles that must unpin with is_dirty
  live                               \* pages allocated and not yet deleted

R == INSTANCE Replacer

frameVars == <<pageId, pinCount, isDirty, data>>
callerVars == <<held, modified, live>>
vars == <<frameVars, pageTable, freeList, replacer, io, callerVars>>

TypeOK ==
  /\ pageId \in [Frames -> PageIds \cup {INVALID_PAGE_ID}]
  /\ pinCount \in [Frames -> Nat]
  /\ isDirty \in [Frames -> BOOLEAN]
  /\ data \in [Frames -> Data]
  /\ pageTable \in [PageIds -> Frames \cup {NoFrame}]
  /\ freeList \in Seq(Frames)
  /\ replacer \in R!Replacers
  /\ io \in DiskManagers
  /\ held \in [Handles -> PageIds \cup {INVALID_PAGE_ID}]
  /\ modified \in SUBSET Handles
  /\ live \in SUBSET PageIds

-----------------------------------------------------------------------------
(* The pool as its constructor leaves it: every frame on the free list.    *)

Init ==
  /\ pageId = [f \in Frames |-> INVALID_PAGE_ID]
  /\ pinCount = [f \in Frames |-> 0]
  /\ isDirty = [f \in Frames |-> FALSE]
  /\ data = [f \in Frames |-> Zero]
  /\ pageTable = [p \in PageIds |-> NoFrame]
  /\ freeList = [i \in 1 .. PoolSize |-> i - 1]
  /\ replacer = R!Empty
  /\ held = [h \in Handles |-> INVALID_PAGE_ID]
  /\ modified = {}
  /\ io = NewDisk
  /\ live = {}

-----------------------------------------------------------------------------
(* Getting a frame, the same lines in NewPage and in FetchPage.            *)

\* The frames the code may take: the front of the free list while there is
\* one, else any frame the replacer can evict.
Victims ==
  IF freeList # <<>> THEN {Head(freeList)} ELSE replacer.evictable

FreeListAfter == IF freeList # <<>> THEN Tail(freeList) ELSE freeList

ReplacerAfter(f) ==
  IF freeList # <<>> THEN replacer ELSE R!Erase(replacer, f)

\* Mutant: the dirty victim is dropped without being written.
WriteBackNever(f) == io

WriteBack(f) == IF isDirty[f] THEN WritePage(io, pageId[f], data[f]) ELSE io

\* Mutant: the victim's old mapping stays in page_table_.
UnmapNever(f) == pageTable

Unmap(f) ==
  IF pageId[f] # INVALID_PAGE_ID
  THEN [pageTable EXCEPT ![pageId[f]] = NoFrame]
  ELSE pageTable

\* Mutant: the new tenant is left evictable.
InstallEvictable(f, p, d) ==
  /\ pageId' = [pageId EXCEPT ![f] = p]
  /\ pinCount' = [pinCount EXCEPT ![f] = 1]
  /\ isDirty' = [isDirty EXCEPT ![f] = FALSE]
  /\ data' = [data EXCEPT ![f] = d]
  /\ pageTable' = [Unmap(f) EXCEPT ![p] = f]
  /\ freeList' = FreeListAfter
  /\ replacer' = R!SetEvictable(R!RecordAccess(ReplacerAfter(f), f), f, TRUE)

\* Frame f becomes the pinned, clean home of page p with contents d.
Install(f, p, d) ==
  /\ pageId' = [pageId EXCEPT ![f] = p]
  /\ pinCount' = [pinCount EXCEPT ![f] = 1]
  /\ isDirty' = [isDirty EXCEPT ![f] = FALSE]
  /\ data' = [data EXCEPT ![f] = d]
  /\ pageTable' = [Unmap(f) EXCEPT ![p] = f]
  /\ freeList' = FreeListAfter
  /\ replacer' = R!SetEvictable(R!RecordAccess(ReplacerAfter(f), f), f, FALSE)

-----------------------------------------------------------------------------
(* NewPage and FetchPage on behalf of a handle that holds nothing.         *)

NewPage(h) ==
  /\ held[h] = INVALID_PAGE_ID
  /\ io.next < MaxPages
  /\ \E f \in Victims :
       /\ io' = AllocatePage(WriteBack(f))
       /\ Install(f, io.next, Zero)
  /\ held' = [held EXCEPT ![h] = io.next]
  /\ modified' = IF InitNewPages THEN modified \cup {h} ELSE modified
  /\ live' = live \cup {io.next}

\* NewPage and FetchPage return nullptr: no free frame, none evictable.
NoFrameLeft(h) ==
  /\ held[h] = INVALID_PAGE_ID
  /\ Victims = {}
  /\ UNCHANGED vars

\* Mutant: a hit does not take the frame away from the replacer.
FetchHitStaysEvictable(h, p) ==
  LET f == pageTable[p] IN
  /\ held[h] = INVALID_PAGE_ID
  /\ f # NoFrame
  /\ pinCount' = [pinCount EXCEPT ![f] = pinCount[f] + 1]
  /\ replacer' = R!RecordAccess(replacer, f)
  /\ held' = [held EXCEPT ![h] = p]
  /\ UNCHANGED <<pageId, isDirty, data, pageTable, freeList, io, modified, live>>

FetchHit(h, p) ==
  LET f == pageTable[p] IN
  /\ held[h] = INVALID_PAGE_ID
  /\ f # NoFrame
  /\ pinCount' = [pinCount EXCEPT ![f] = pinCount[f] + 1]
  /\ replacer' = R!SetEvictable(R!RecordAccess(replacer, f), f, FALSE)
  /\ held' = [held EXCEPT ![h] = p]
  /\ UNCHANGED <<pageId, isDirty, data, pageTable, freeList, io, modified, live>>

FetchMiss(h, p) ==
  /\ held[h] = INVALID_PAGE_ID
  /\ pageTable[p] = NoFrame
  /\ \E f \in Victims :
       /\ io' = ReadPage(WriteBack(f), p)
       /\ Install(f, p, ReadData(WriteBack(f), p))
  /\ held' = [held EXCEPT ![h] = p]
  /\ UNCHANGED <<modified, live>>

-----------------------------------------------------------------------------
(* The holder of a page changes its bytes through the pointer.             *)

ChangeBytes(h, d) ==
  /\ held[h] # INVALID_PAGE_ID
  /\ data' = [data EXCEPT ![pageTable[held[h]]] = d]
  /\ modified' = modified \cup {h}
  /\ UNCHANGED <<pageId, pinCount, isDirty, pageTable, freeList, replacer, io,
                 held, live>>

-----------------------------------------------------------------------------
(* UnpinPage, in all its branches.                                         *)

UnpinPage(p, dirty) ==
  LET f == pageTable[p] IN
  IF f = NoFrame \/ (f # NoFrame /\ pinCount[f] <= 0)
  THEN UNCHANGED <<isDirty, pinCount, replacer>>
  ELSE /\ isDirty' = [isDirty EXCEPT ![f] = isDirty[f] \/ dirty]
       /\ pinCount' = [pinCount EXCEPT ![f] = pinCount[f] - 1]
       /\ replacer' = IF pinCount[f] = 1 THEN R!SetEvictable(replacer, f, TRUE)
                                         ELSE replacer

\* A handle gives its pin back, and says so when it changed the page.
Release(h, dirty) ==
  /\ held[h] # INVALID_PAGE_ID
  /\ h \in modified => dirty
  /\ UnpinPage(held[h], dirty)
  /\ held' = [held EXCEPT ![h] = INVALID_PAGE_ID]
  /\ modified' = modified \ {h}
  /\ UNCHANGED <<pageId, data, pageTable, freeList, io, live>>

\* A caller unpins a page once too often, when nobody has it pinned.
ReleaseTwice(p, dirty) ==
  /\ \A h \in Handles : held[h] # p
  /\ UnpinPage(p, dirty)
  /\ UNCHANGED <<pageId, data, pageTable, freeList, io, callerVars>>

-----------------------------------------------------------------------------
(* DeletePage, FlushPage, FlushAllPages, and the end of the process.       *)

\* Mutant: the pin count is not looked at.
DeletePageUnguarded(p) ==
  LET f == pageTable[p] IN
  /\ p \in live
  /\ live' = live \ {p}
  /\ IF f = NoFrame
     THEN UNCHANGED <<frameVars, pageTable, freeList, replacer>>
     ELSE /\ pageTable' = [pageTable EXCEPT ![p] = NoFrame]
          /\ replacer' = R!Erase(replacer, f)
          /\ data' = [data EXCEPT ![f] = Zero]
          /\ pageId' = [pageId EXCEPT ![f] = INVALID_PAGE_ID]
          /\ pinCount' = [pinCount EXCEPT ![f] = 0]
          /\ isDirty' = [isDirty EXCEPT ![f] = FALSE]
          /\ freeList' = Append(freeList, f)
  /\ UNCHANGED <<io, held, modified>>

\* DeletePage returns true: the page is not resident, or its frame is
\* reset and goes to the back of the free list.
DeletePage(p) ==
  LET f == pageTable[p] IN
  /\ p \in live
  /\ f # NoFrame => pinCount[f] <= 0
  /\ live' = live \ {p}
  /\ IF f = NoFrame
     THEN UNCHANGED <<frameVars, pageTable, freeList, replacer>>
     ELSE /\ pageTable' = [pageTable EXCEPT ![p] = NoFrame]
          /\ replacer' = R!Erase(replacer, f)
          /\ data' = [data EXCEPT ![f] = Zero]
          /\ pageId' = [pageId EXCEPT ![f] = INVALID_PAGE_ID]
          /\ pinCount' = [pinCount EXCEPT ![f] = 0]
          /\ isDirty' = [isDirty EXCEPT ![f] = FALSE]
          /\ freeList' = Append(freeList, f)
  /\ UNCHANGED <<io, held, modified>>

\* DeletePage returns false: somebody has the page pinned.
DeletePinned(p) ==
  /\ p \in live
  /\ pageTable[p] # NoFrame
  /\ pinCount[pageTable[p]] > 0
  /\ UNCHANGED vars

\* FlushPage writes whatever the frame holds, pinned or not, and marks it
\* clean.  For a page that is not resident it returns false.
FlushPage(p) ==
  LET f == pageTable[p] IN
  /\ p \in live
  /\ IF f = NoFrame THEN UNCHANGED <<io, isDirty>>
     ELSE /\ io' = WritePage(io, p, data[f])
          /\ isDirty' = [isDirty EXCEPT ![f] = FALSE]
  /\ UNCHANGED <<pageId, pinCount, data, pageTable, freeList, replacer, callerVars>>

Resident == {p \in PageIds : pageTable[p] # NoFrame}

\* The writes of distinct pages commute, so the order of the hash table's
\* iteration does not show.
FlushAllPages ==
  /\ \/ io.failed /\ UNCHANGED io
     \/ \E end \in io.end .. MaxPages :
          /\ ~io.failed
          /\ \A p \in Resident : p < end
          /\ end = io.end \/ end - 1 \in Resident
          /\ io' = [io EXCEPT
                     !.blocks = [p \in PageIds |-> IF p \in Resident
                                                   THEN data[pageTable[p]]
                                                   ELSE io.blocks[p]],
                     !.end = end]
  /\ isDirty' = [f \in Frames |->
                   isDirty[f] /\ \A p \in Resident : pageTable[p] # f]
  /\ UNCHANGED <<pageId, pinCount, data, pageTable, freeList, replacer, callerVars>>

\* The process ends, cleanly or not (~BufferPoolManager flushes nothing),
\* and a new one opens the file.  Ids past its end belong to nobody again.
Restart ==
  /\ pageId' = [f \in Frames |-> INVALID_PAGE_ID]
  /\ pinCount' = [f \in Frames |-> 0]
  /\ isDirty' = [f \in Frames |-> FALSE]
  /\ data' = [f \in Frames |-> Zero]
  /\ pageTable' = [p \in PageIds |-> NoFrame]
  /\ freeList' = [i \in 1 .. PoolSize |-> i - 1]
  /\ replacer' = R!Empty
  /\ held' = [h \in Handles |-> INVALID_PAGE_ID]
  /\ modified' = {}
  /\ io' = Reopen(io)
  /\ live' = {p \in live : p < io.end}

-----------------------------------------------------------------------------
Next ==
  \/ \E h \in Handles :
       \/ NewPage(h)
       \/ NoFrameLeft(h)
       \/ \E p \in live : FetchHit(h, p) \/ FetchMiss(h, p)
       \/ \E d \in Data : ChangeBytes(h, d)
       \/ \E dirty \in BOOLEAN : Release(h, dirty)
  \/ \E p \in PageIds :
       \/ \E dirty \in BOOLEAN : ReleaseTwice(p, dirty)
       \/ DeletePage(p)
       \/ DeletePinned(p)
       \/ FlushPage(p)
  \/ FlushAllPages
  \/ Restart

Spec == Init /\ [][Next]_vars

-----------------------------------------------------------------------------
\* page_table_ and the frames' page_id_ are inverse of each other.
TableMatchesFrames ==
  /\ \A p \in PageIds : pageTable[p] # NoFrame => pageId[pageTable[p]] = p
  /\ \A f \in Frames :
       pageId[f] # INVALID_PAGE_ID => pageTable[pageId[f]] = f

OnFreeList == {freeList[i] : i \in 1 .. Len(freeList)}

\* No frame is lost or owned twice: a frame is on the free list exactly once,
\* empty and unknown to the replacer, or it holds a page and the replacer
\* tracks it, evictable exactly when nobody has it pinned.  So NewPage and
\* FetchPage fail only when every frame is pinned.
EveryFrameAccounted ==
  /\ \A i, j \in 1 .. Len(freeList) : freeList[i] = freeList[j] => i = j
  /\ \A f \in Frames :
       IF f \in OnFreeList
       THEN /\ pageId[f] = INVALID_PAGE_ID /\ pinCount[f] = 0 /\ ~isDirty[f]
            /\ f \notin replacer.tracked /\ f \notin replacer.evictable
       ELSE /\ pageId[f] # INVALID_PAGE_ID /\ f \in replacer.tracked
            /\ f \in replacer.evictable <=> pinCount[f] = 0

Holders(f) == {h \in Handles : held[h] = pageId[f]}

\* A frame's pin count is the number of pointers outstanding on its page,
\* and the page of an outstanding pointer is resident.
PinsAreOutstanding ==
  /\ \A f \in Frames :
       pageId[f] # INVALID_PAGE_ID => pinCount[f] = Cardinality(Holders(f))
  /\ \A h \in Handles :
       held[h] # INVALID_PAGE_ID => pageTable[held[h]] # NoFrame

\* A resident page that is marked clean, and that no holder has changed
\* behind the pool's back, is on disk as it is in memory: whatever flushes
\* came between, evicting it without a write loses nothing, and a page that
\* was flushed or fetched is what the file holds.
CleanIsOnDisk ==
  \A f \in Frames :
    LET p == pageId[f] IN
    /\ p # INVALID_PAGE_ID
    /\ ~isDirty[f]
    /\ \A h \in modified : held[h] # p
    => data[f] = io.blocks[p]

\* The pointer FetchPage or NewPage returned stays valid until it is given
\* back: its page is not moved to another frame, nor its frame to another page.
PointersStayValid ==
  [][\A h \in Handles :
       held[h] # INVALID_PAGE_ID /\ held'[h] = held[h]
       => /\ pageTable'[held[h]] = pageTable[held[h]]
          /\ pageId'[pageTable[held[h]]] = held[h]]_vars

-----------------------------------------------------------------------------
\* The refinement mapping to PageStore.
Content ==
  [p \in PageIds |->
     IF p \notin live THEN NoPage
     ELSE IF pageTable[p] # NoFrame THEN data[pageTable[p]] ELSE io.blocks[p]]

Durable == [p \in PageIds |-> IF p < io.end THEN io.blocks[p] ELSE NoPage]

Store == INSTANCE PageStore WITH content <- Content, durable <- Durable

\* The pool is a page store: only a holder's write changes what a page holds,
\* never an eviction, a fetch, a flush or an unpin.
ImplementsPageStore == Store!Spec
=============================================================================
