----------------------------- MODULE PageGuard -----------------------------
(***************************************************************************)
(* buffer/page_guard.cpp over the buffer pool: a handle may wrap the page  *)
(* pointer it got into a guard, which gives the pin back when it is        *)
(* dropped.  Read and write guards also hold the frame's latch.  A guard   *)
(* keeps a pointer to the frame, not the page id: Drop unlatches the frame *)
(* and then unpins the page whose id the frame carries at that moment.     *)
(* The two are separate critical sections, so everything else runs between *)
(* them.  The pool itself ignores the latches: it flushes a page under a   *)
(* writer.                                                                 *)
(*                                                                         *)
(* A constructor that has to wait for the latch changes nothing until it   *)
(* gets it.  A move into an empty guard hands the pointers over; a move    *)
(* into a guard that holds a page is a Drop followed by that.              *)
(***************************************************************************)
EXTENDS BufferPool

VARIABLE guard    \* guard[h]: the guard wrapped around h's pointer

guardVars == <<vars, guard>>

Kinds == {"basic", "read", "write"}

\* Not wrapped: the pointer is used as it is.  at = "unlatched" is Drop
\* between its two calls.
NoGuard == [kind |-> "none", frame |-> NoFrame, dirty |-> FALSE, at |-> "out"]

Guards == [kind : Kinds, frame : Frames, dirty : BOOLEAN,
           at : {"in", "unlatched"}]

GuardTypeOK ==
  /\ TypeOK
  /\ guard \in [Handles -> Guards \cup {NoGuard}]

GuardInit == Init /\ guard = [h \in Handles |-> NoGuard]

-----------------------------------------------------------------------------
\* rwlatch_ of frame f: the guards that have it locked, in either mode.
Latched(f, kind) ==
  {h \in Handles : guard[h].frame = f /\ guard[h].kind = kind /\ guard[h].at = "in"}

\* Mutant: a writer waits for writers only.
CanLatchPastReaders(f, kind) == kind # "basic" => Latched(f, "write") = {}

\* lock_shared and lock return: no writer, respectively nobody at all.
CanLatch(f, kind) ==
  CASE kind = "basic" -> TRUE
    [] kind = "read"  -> Latched(f, "write") = {}
    [] kind = "write" -> Latched(f, "write") \cup Latched(f, "read") = {}

\* A holder that has changed the page wraps it in a write guard: the other
\* two know nothing of that change and would unpin the page as clean.
Construct(h, kind) ==
  LET f == pageTable[held[h]] IN
  /\ held[h] # INVALID_PAGE_ID
  /\ guard[h] = NoGuard
  /\ h \in modified => kind = "write"
  /\ CanLatch(f, kind)
  /\ guard' = [guard EXCEPT
                 ![h] = [kind |-> kind, frame |-> f, dirty |-> FALSE, at |-> "in"]]
  /\ UNCHANGED vars

\* GetDataMut and a write through it.  Only the basic guard keeps a flag.
GetDataMut(h, d) ==
  /\ guard[h].kind \in {"basic", "write"} /\ guard[h].at = "in"
  /\ data' = [data EXCEPT ![guard[h].frame] = d]
  /\ modified' = modified \cup {h}
  /\ guard' = [guard EXCEPT ![h].dirty = guard[h].kind = "basic"]
  /\ UNCHANGED <<pageId, pinCount, isDirty, pageTable, freeList, replacer, io,
                 held, live>>

\* The move constructor: h's guard becomes g's, h holds nothing.
Move(h, g) ==
  /\ guard[h].kind \in Kinds /\ guard[h].at = "in"
  /\ held[g] = INVALID_PAGE_ID
  /\ guard' = [guard EXCEPT ![g] = guard[h], ![h] = NoGuard]
  /\ held' = [held EXCEPT ![g] = held[h], ![h] = INVALID_PAGE_ID]
  /\ modified' = IF h \in modified THEN (modified \ {h}) \cup {g} ELSE modified
  /\ UNCHANGED <<frameVars, pageTable, freeList, replacer, io, live>>

-----------------------------------------------------------------------------
(* Drop: RUnlatch or WUnlatch, then UnpinPage.                             *)

Unlatch(h) ==
  /\ guard[h].kind \in {"read", "write"} /\ guard[h].at = "in"
  /\ guard' = [guard EXCEPT ![h].at = "unlatched"]
  /\ UNCHANGED vars

\* Mutant: a write guard unpins its page as clean.
UnpinDirtyNever(g) == g.kind = "basic" /\ g.dirty

\* The is_dirty argument: the basic guard's flag, false, true.
UnpinDirty(g) == g.kind = "write" \/ (g.kind = "basic" /\ g.dirty)

\* Mutant: Drop unpins the page before it unlatches the frame.
DropUnpinFirst(h) ==
  LET g == guard[h] IN
  /\ g.kind # "none" /\ held[h] # INVALID_PAGE_ID /\ g.at = "in"
  /\ UnpinPage(pageId[g.frame], UnpinDirty(g))
  /\ held' = [held EXCEPT ![h] = INVALID_PAGE_ID]
  /\ modified' = modified \ {h}
  /\ guard' = IF g.kind = "basic" THEN [guard EXCEPT ![h] = NoGuard] ELSE guard
  /\ UNCHANGED <<pageId, data, pageTable, freeList, io, live>>

Drop(h) ==
  LET g == guard[h] IN
  /\ g.at = IF g.kind = "basic" THEN "in" ELSE "unlatched"
  /\ UnpinPage(pageId[g.frame], UnpinDirty(g))
  /\ guard' = [guard EXCEPT ![h] = NoGuard]
  /\ held' = [held EXCEPT ![h] = INVALID_PAGE_ID]
  /\ modified' = modified \ {h}
  /\ UNCHANGED <<pageId, data, pageTable, freeList, io, live>>

-----------------------------------------------------------------------------
(* The pool's own operations, and holders that do not use guards.          *)

Pool ==
  \/ \E h \in Handles :
       /\ guard[h] = NoGuard
       /\ \/ NewPage(h)
          \/ NoFrameLeft(h)
          \/ \E p \in live : FetchHit(h, p) \/ FetchMiss(h, p)
          \/ \E d \in Data : ChangeBytes(h, d)
          \/ \E dirty \in BOOLEAN : Release(h, dirty)
  \/ \E p \in PageIds :
       \/ \E dirty \in BOOLEAN : ReleaseTwice(p, dirty)
       \/ DeletePage(p)
       \/ DeletePinned(p)
       \/ FlushPage(p)
  \/ FlushAllPages

GuardNext ==
  \/ Pool /\ UNCHANGED guard
  \/ Restart /\ guard' = [h \in Handles |-> NoGuard]
  \/ \E h \in Handles :
       \/ \E kind \in Kinds : Construct(h, kind)
       \/ \E d \in Data : GetDataMut(h, d)
       \/ \E g \in Handles : Move(h, g)
       \/ Unlatch(h)
       \/ Drop(h)

GuardSpec == GuardInit /\ [][GuardNext]_guardVars

-----------------------------------------------------------------------------
\* A guard's frame pointer stays the guarded page's: until Drop has unpinned
\* it, the frame carries the page the guard was made for, so the id Drop
\* reads from it after unlatching is the right one to unpin, and nobody ever
\* latches the frame on behalf of another page while this guard has it.
GuardsKeepTheirPage ==
  \A h \in Handles :
    guard[h] # NoGuard =>
      /\ held[h] # INVALID_PAGE_ID
      /\ pageId[guard[h].frame] = held[h]
      /\ pinCount[guard[h].frame] > 0
      /\ guard[h].at = "in" /\ guard[h].kind = "write" =>
           \A g \in Handles : guard[g].at = "in" /\ guard[g].frame = guard[h].frame
                              /\ guard[g].kind # "basic" => g = h

\* What a reader sees under a read guard does not move: its page's bytes
\* change only at the hands of a holder that took no latch.
ReadsAreStable ==
  [][\A h \in Handles :
       LET f == guard[h].frame IN
       /\ guard[h].kind = "read" /\ guard[h].at = "in" /\ guard'[h] = guard[h]
       /\ \A g \in Handles : held[g] = held[h] => guard[g].kind \in {"read", "write"}
       => data'[f] = data[f]]_guardVars
=============================================================================
