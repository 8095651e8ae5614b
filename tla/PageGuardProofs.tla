-------------------------- MODULE PageGuardProofs --------------------------
(***************************************************************************)
(* The buffer pool under guards and bare pointers, for any number of       *)
(* frames, pages, contents and handles.  PageGuard's steps are, seen from  *)
(* the pool, steps of BufferPool or the handing over of a pin, so the      *)
(* invariants of the pool are shown for those first.  What the guards add  *)
(* to them is in Guarded; with it every step of a guard is a step of the   *)
(* pool.                                                                   *)
(***************************************************************************)
EXTENDS PageGuard, SequenceTheorems, FiniteSetTheorems, TLAPS

-----------------------------------------------------------------------------
(* The pool.                                                               *)

\* The move of a guard, as the pool sees it: the pin changes hands.
HandOver(h, g) ==
  /\ held[h] # INVALID_PAGE_ID /\ held[g] = INVALID_PAGE_ID
  /\ held' = [held EXCEPT ![g] = held[h], ![h] = INVALID_PAGE_ID]
  /\ modified' = IF h \in modified THEN (modified \ {h}) \cup {g} ELSE modified
  /\ UNCHANGED <<frameVars, pageTable, freeList, replacer, io, live>>

PoolNext == Next \/ \E h, g \in Handles : HandOver(h, g)

\* What is resident or held exists, and what exists has an id that
\* AllocatePage has given out; the file never runs ahead of the ids.
IdsAreLive ==
  /\ \A p \in PageIds : pageTable[p] # NoFrame => p \in live
  /\ \A h \in Handles : held[h] # INVALID_PAGE_ID => held[h] \in live
  /\ \A p \in live : p < io.next
  /\ io.end <= io.next

\* The inductive invariant of the pool's own structures.
SInv ==
  TypeOK /\ TableMatchesFrames /\ EveryFrameAccounted /\ PinsAreOutstanding /\ IdsAreLive

-----------------------------------------------------------------------------
(* The free list as a sequence without repetitions.                        *)

Elements(q) == {q[i] : i \in 1 .. Len(q)}

Distinct(q) == \A i, j \in 1 .. Len(q) : q[i] = q[j] => i = j

LEMMA TailDistinct ==
  ASSUME NEW S, NEW q \in Seq(S), q # <<>>, Distinct(q)
  PROVE  /\ Tail(q) \in Seq(S) /\ Distinct(Tail(q))
         /\ Head(q) \in Elements(q) /\ Head(q) \in S
         /\ Elements(Tail(q)) = Elements(q) \ {Head(q)}
  <1> DEFINE t == Tail(q)
  <1>1. /\ t \in Seq(S) /\ Len(t) = Len(q) - 1 /\ Len(q) \in Nat \ {0}
        /\ \A i \in 1 .. Len(t) : t[i] = q[i + 1]
        /\ Head(q) = q[1] /\ Head(q) \in S
    BY HeadTailProperties
  <1> HIDE DEF t
  <1>2. \A i \in 1 .. Len(t) : i + 1 \in 1 .. Len(q)
    BY <1>1
  <1>3. 1 \in 1 .. Len(q)
    BY <1>1
  <1>4. ASSUME NEW i \in 1 .. Len(t), NEW j \in 1 .. Len(t), t[i] = t[j] PROVE i = j
    <2>1. q[i + 1] = q[j + 1] /\ i + 1 \in 1 .. Len(q) /\ j + 1 \in 1 .. Len(q)
      BY <1>1, <1>2, <1>4
    <2>2. i + 1 = j + 1
      BY <2>1 DEF Distinct
    <2>3. QED
      BY <2>2
  <1>5. ASSUME NEW x \in Elements(t) PROVE x \in Elements(q) \ {q[1]}
    <2>1. PICK i \in 1 .. Len(t) : x = t[i]
      BY DEF Elements
    <2>2. x = q[i + 1] /\ i + 1 \in 1 .. Len(q) /\ i + 1 # 1
      BY <1>1, <1>2, <2>1
    <2>3. q[i + 1] # q[1]
      BY <2>2, <1>3 DEF Distinct
    <2>4. QED
      BY <2>2, <2>3 DEF Elements
  <1>6. ASSUME NEW x \in Elements(q) \ {q[1]} PROVE x \in Elements(t)
    <2>1. PICK i \in 1 .. Len(q) : x = q[i]
      BY DEF Elements
    <2>2. i - 1 \in 1 .. Len(t) /\ (i - 1) + 1 = i
      BY <1>1, <2>1
    <2>3. t[i - 1] = q[(i - 1) + 1]
      BY <1>1, <2>2
    <2>4. QED
      BY <2>1, <2>2, <2>3 DEF Elements
  <1>7. QED
    BY <1>1, <1>3, <1>4, <1>5, <1>6 DEF Elements, Distinct, t

LEMMA AppendDistinct ==
  ASSUME NEW S, NEW q \in Seq(S), NEW x \in S, x \notin Elements(q), Distinct(q)
  PROVE  /\ Append(q, x) \in Seq(S) /\ Distinct(Append(q, x))
         /\ Elements(Append(q, x)) = Elements(q) \cup {x}
  <1> DEFINE a == Append(q, x)
  <1>1. /\ a \in Seq(S) /\ Len(a) = Len(q) + 1 /\ Len(q) \in Nat
        /\ \A i \in 1 .. Len(q) : a[i] = q[i]
        /\ a[Len(q) + 1] = x
    BY AppendProperties
  <1> HIDE DEF a
  <1>2. \A i \in 1 .. Len(a) : i \in 1 .. Len(q) \/ i = Len(q) + 1
    BY <1>1
  <1>3. Len(q) + 1 \in 1 .. Len(a) /\ \A i \in 1 .. Len(q) : i \in 1 .. Len(a)
    BY <1>1
  <1>4. Distinct(a)
    BY <1>1, <1>2 DEF Distinct, Elements
  <1>5. Elements(a) = Elements(q) \cup {x}
    BY <1>1, <1>2, <1>3 DEF Elements
  <1>6. QED
    BY <1>1, <1>4, <1>5 DEF a

LEMMA FreeListShape ==
  /\ OnFreeList = Elements(freeList)
  /\ EveryFrameAccounted => Distinct(freeList)
  BY DEF OnFreeList, Elements, EveryFrameAccounted, Distinct

-----------------------------------------------------------------------------
(* The frame that NewPage and FetchPage take.                              *)

LEMMA TakeFrame ==
  ASSUME SInv, NEW f \in Victims
  PROVE  /\ f \in Frames /\ pinCount[f] = 0
         /\ FreeListAfter \in Seq(Frames) /\ Distinct(FreeListAfter)
         /\ Elements(FreeListAfter) = Elements(freeList) \ {f}
         /\ ReplacerAfter(f) \in R!Replacers
         /\ \A g \in Frames : g # f =>
              /\ g \in ReplacerAfter(f).tracked <=> g \in replacer.tracked
              /\ g \in ReplacerAfter(f).evictable <=> g \in replacer.evictable
         /\ f \notin ReplacerAfter(f).evictable
         /\ \A h \in Handles : pageId[f] # INVALID_PAGE_ID => held[h] # pageId[f]
  <1>1. freeList \in Seq(Frames) /\ Distinct(freeList) /\ replacer \in R!Replacers
    BY FreeListShape DEF SInv, TypeOK
  <1>2. CASE freeList # <<>>
    <2>1. /\ f = Head(freeList) /\ FreeListAfter = Tail(freeList) /\ ReplacerAfter(f) = replacer
      BY <1>2 DEF Victims, FreeListAfter, ReplacerAfter
    <2>2. f \in OnFreeList /\ f \in Frames
      BY <1>1, <1>2, <2>1, TailDistinct, FreeListShape
    <2>3. pageId[f] = INVALID_PAGE_ID /\ pinCount[f] = 0 /\ f \notin replacer.evictable
      BY <2>2 DEF SInv, EveryFrameAccounted
    <2>4. QED
      BY <1>1, <1>2, <2>1, <2>2, <2>3, TailDistinct
  <1>3. CASE freeList = <<>>
    <2>1. f \in replacer.evictable /\ FreeListAfter = freeList
          /\ ReplacerAfter(f) = R!Erase(replacer, f)
      BY <1>3 DEF Victims, FreeListAfter, ReplacerAfter
    <2>2. Elements(freeList) = {}
      BY <1>3 DEF Elements
    <2>3. f \in Frames
      BY <1>1, <2>1 DEF R!Replacers
    <2>4. pageId[f] # INVALID_PAGE_ID /\ pinCount[f] = 0
      BY <2>1, <2>2, <2>3, FreeListShape DEF SInv, EveryFrameAccounted
    <2>5. \A h \in Handles : held[h] # pageId[f]
      <3>1. IsFiniteSet(Holders(f))
        BY PoolAssumption, FS_Subset DEF Holders
      <3>2. Holders(f) = {}
        BY <2>3, <2>4, <3>1, FS_EmptySet DEF SInv, PinsAreOutstanding
      <3>3. QED
        BY <3>2 DEF Holders
    <2>6. /\ ReplacerAfter(f) \in R!Replacers
          /\ ReplacerAfter(f).tracked = replacer.tracked \ {f}
          /\ ReplacerAfter(f).evictable = replacer.evictable \ {f}
      BY <1>1, <2>1 DEF R!Replacers, R!Erase
    <2>7. QED
      BY <1>1, <2>1, <2>2, <2>3, <2>4, <2>5, <2>6
  <1>4. QED
    BY <1>2, <1>3

\* The two markers of absence are no ids.
LEMMA Absent == INVALID_PAGE_ID \notin PageIds /\ NoFrame \notin Frames
  BY DEF INVALID_PAGE_ID, PageIds, NoFrame, Frames

LEMMA HoldersFinite ==
  ASSUME NEW f, NEW h
  PROVE  /\ IsFiniteSet(Holders(f)) /\ Cardinality(Holders(f)) \in Nat
         /\ Cardinality(Holders(f)) = 0 <=> Holders(f) = {}
         /\ h \notin Holders(f) => Cardinality(Holders(f) \cup {h}) = Cardinality(Holders(f)) + 1
         /\ h \in Holders(f) => Cardinality(Holders(f) \ {h}) = Cardinality(Holders(f)) - 1
  <1>1. IsFiniteSet(Holders(f))
    BY PoolAssumption, FS_Subset DEF Holders
  <1>2. QED
    BY <1>1, FS_CardinalityType, FS_EmptySet, FS_AddElement, FS_RemoveElement

\* Frame f takes in page p on behalf of handle h.
LEMMA InstallKeeps ==
  ASSUME SInv, NEW f \in Victims, NEW p \in PageIds, NEW d \in Data, NEW h \in Handles,
         Install(f, p, d), held[h] = INVALID_PAGE_ID, held' = [held EXCEPT ![h] = p],
         pageTable[p] = NoFrame, \A g \in Handles : held[g] # p
  PROVE  /\ pageId' \in [Frames -> PageIds \cup {INVALID_PAGE_ID}]
         /\ pinCount' \in [Frames -> Nat] /\ isDirty' \in [Frames -> BOOLEAN]
         /\ data' \in [Frames -> Data] /\ pageTable' \in [PageIds -> Frames \cup {NoFrame}]
         /\ freeList' \in Seq(Frames) /\ replacer' \in R!Replacers
         /\ held' \in [Handles -> PageIds \cup {INVALID_PAGE_ID}]
         /\ TableMatchesFrames' /\ EveryFrameAccounted' /\ PinsAreOutstanding'
         /\ \A q \in PageIds : q # p =>
              pageTable'[q] = IF q = pageId[f] THEN NoFrame ELSE pageTable[q]
         /\ pageTable'[p] = f
  <1>1. /\ f \in Frames /\ pinCount[f] = 0
        /\ freeList' \in Seq(Frames) /\ Distinct(freeList')
        /\ Elements(freeList') = Elements(freeList) \ {f}
        /\ ReplacerAfter(f) \in R!Replacers
        /\ \A g \in Frames : g # f =>
             /\ g \in ReplacerAfter(f).tracked <=> g \in replacer.tracked
             /\ g \in ReplacerAfter(f).evictable <=> g \in replacer.evictable
        /\ \A g \in Handles : pageId[f] # INVALID_PAGE_ID => held[g] # pageId[f]
    BY TakeFrame DEF Install
  <1>2. /\ replacer' \in R!Replacers
        /\ f \in replacer'.tracked /\ f \notin replacer'.evictable
        /\ \A g \in Frames : g # f =>
             /\ g \in replacer'.tracked <=> g \in replacer.tracked
             /\ g \in replacer'.evictable <=> g \in replacer.evictable
    <2> DEFINE r == ReplacerAfter(f)
    <2>1. replacer' = [tracked |-> r.tracked \cup {f}, evictable |-> r.evictable \ {f}]
      <3>1. r = [tracked |-> r.tracked, evictable |-> r.evictable]
        BY <1>1 DEF R!Replacers
      <3> HIDE DEF r
      <3>2. R!RecordAccess(r, f) = [tracked |-> r.tracked \cup {f}, evictable |-> r.evictable]
        BY <3>1 DEF R!RecordAccess
      <3>3. replacer' = R!SetEvictable(R!RecordAccess(r, f), f, FALSE)
        BY DEF Install, r
      <3>4. QED
        BY <3>2, <3>3 DEF R!SetEvictable
    <2>2. QED
      BY <1>1, <2>1 DEF R!Replacers
  <1>3. /\ pageId' \in [Frames -> PageIds \cup {INVALID_PAGE_ID}]
        /\ pinCount' \in [Frames -> Nat] /\ isDirty' \in [Frames -> BOOLEAN]
        /\ data' \in [Frames -> Data]
        /\ held' \in [Handles -> PageIds \cup {INVALID_PAGE_ID}]
    BY <1>1 DEF Install, SInv, TypeOK
  <1>4. /\ Unmap(f) \in [PageIds -> Frames \cup {NoFrame}]
        /\ \A q \in PageIds :
             Unmap(f)[q] = IF q = pageId[f] THEN NoFrame ELSE pageTable[q]
    BY <1>1, Absent DEF Unmap, SInv, TypeOK
  <1>5. /\ pageTable' \in [PageIds -> Frames \cup {NoFrame}] /\ pageTable'[p] = f
        /\ \A q \in PageIds : q # p =>
             pageTable'[q] = IF q = pageId[f] THEN NoFrame ELSE pageTable[q]
    BY <1>1, <1>4 DEF Install
  <1>6. /\ pageId'[f] = p /\ pinCount'[f] = 1 /\ ~isDirty'[f]
        /\ \A g \in Frames : g # f => /\ pageId'[g] = pageId[g] /\ pinCount'[g] = pinCount[g]
                                      /\ isDirty'[g] = isDirty[g]
        /\ held'[h] = p /\ \A g \in Handles : g # h => held'[g] = held[g]
    BY <1>1 DEF Install, SInv, TypeOK
  <1>7. p # INVALID_PAGE_ID /\ f # NoFrame /\ \A g \in Frames : pageId[g] # p
    BY <1>1, Absent DEF SInv, TypeOK, TableMatchesFrames
  <1>8. TableMatchesFrames'
    <2>1. ASSUME NEW q \in PageIds, pageTable'[q] # NoFrame PROVE pageId'[pageTable'[q]] = q
      <3>1. CASE q = p
        BY <3>1, <1>5, <1>6
      <3>2. CASE q # p
        <4>1. pageTable'[q] = pageTable[q] /\ q # pageId[f]
          BY <1>5, <2>1, <3>2
        <4>2. pageTable[q] \in Frames /\ pageId[pageTable[q]] = q
          BY <2>1, <4>1 DEF SInv, TypeOK, TableMatchesFrames
        <4>3. QED
          BY <1>6, <4>1, <4>2
      <3>3. QED
        BY <3>1, <3>2
    <2>2. ASSUME NEW g \in Frames, pageId'[g] # INVALID_PAGE_ID PROVE pageTable'[pageId'[g]] = g
      <3>1. CASE g = f
        BY <3>1, <1>5, <1>6
      <3>2. CASE g # f
        <4>1. pageId'[g] = pageId[g] /\ pageId[g] # INVALID_PAGE_ID /\ pageTable[pageId[g]] = g
          BY <1>6, <2>2, <3>2 DEF SInv, TableMatchesFrames
        <4>2. pageId[g] \in PageIds /\ pageId[g] # p
          BY <4>1, <1>7 DEF SInv, TypeOK
        <4>3. pageId[g] # pageId[f]
          BY <4>1, <1>1, <3>2 DEF SInv, TableMatchesFrames
        <4>4. QED
          BY <1>5, <4>1, <4>2, <4>3
      <3>3. QED
        BY <3>1, <3>2
    <2>3. QED
      BY <2>1, <2>2 DEF TableMatchesFrames
  <1>9. EveryFrameAccounted'
    <2>1. OnFreeList' = OnFreeList \ {f}
      BY <1>1, FreeListShape DEF OnFreeList, Elements
    <2>2. \A i, j \in 1 .. Len(freeList') : freeList'[i] = freeList'[j] => i = j
      BY <1>1 DEF Distinct
    <2>3. ASSUME NEW g \in Frames
          PROVE  IF g \in OnFreeList'
                 THEN /\ pageId'[g] = INVALID_PAGE_ID /\ pinCount'[g] = 0 /\ ~isDirty'[g]
                      /\ g \notin replacer'.tracked /\ g \notin replacer'.evictable
                 ELSE /\ pageId'[g] # INVALID_PAGE_ID /\ g \in replacer'.tracked
                      /\ g \in replacer'.evictable <=> pinCount'[g] = 0
      BY <1>2, <1>6, <1>7, <2>1 DEF SInv, EveryFrameAccounted
    <2>4. QED
      BY <2>2, <2>3 DEF EveryFrameAccounted
  <1>10. PinsAreOutstanding'
    <2>1. ASSUME NEW g \in Frames, pageId'[g] # INVALID_PAGE_ID
          PROVE  pinCount'[g] = Cardinality(Holders(g)')
      <3>1. CASE g = f
        <4>1. Holders(f)' = {h}
          BY <1>6 DEF Holders
        <4>2. QED
          BY <3>1, <4>1, <1>6, FS_Singleton, ZenonT(60)
      <3>2. CASE g # f
        <4>1. Holders(g)' = Holders(g)
          BY <2>1, <3>2, <1>6, <1>7 DEF Holders
        <4>2. QED
          BY <2>1, <3>2, <4>1, <1>6 DEF SInv, PinsAreOutstanding
      <3>3. QED
        BY <3>1, <3>2
    <2>2. ASSUME NEW g \in Handles, held'[g] # INVALID_PAGE_ID
          PROVE  pageTable'[held'[g]] # NoFrame
      <3>1. CASE g = h
        BY <3>1, <1>5, <1>6, <1>7
      <3>2. CASE g # h
        <4>1. held'[g] = held[g] /\ held[g] # p /\ held[g] \in PageIds /\ held[g] # pageId[f]
          BY <2>2, <3>2, <1>1, <1>6 DEF SInv, TypeOK
        <4>2. pageTable[held[g]] # NoFrame
          BY <2>2, <4>1 DEF SInv, PinsAreOutstanding
        <4>3. QED
          BY <1>5, <4>1, <4>2
      <3>3. QED
        BY <3>1, <3>2
    <2>3. QED
      BY <2>1, <2>2 DEF PinsAreOutstanding
  <1>11. QED
    BY <1>1, <1>2, <1>3, <1>5, <1>8, <1>9, <1>10

-----------------------------------------------------------------------------
(* The disk manager.                                                       *)

LEMMA DiskFields ==
  ASSUME NEW x \in DiskManagers
  PROVE  /\ x.blocks \in [PageIds -> Data] /\ x.end \in 0 .. MaxPages
         /\ x.failed \in BOOLEAN /\ x.next \in 0 .. MaxPages
  BY DEF DiskManagers

LEMMA PageIdRange == \A p \in PageIds : p \in Nat /\ p + 1 \in 0 .. MaxPages /\ p < MaxPages
  BY DiskAssumption DEF PageIds

\* What a write leaves behind, as the rest of the proofs need it.
LEMMA WriteFacts ==
  ASSUME NEW x \in DiskManagers, NEW p \in PageIds, NEW d \in Data
  PROVE  /\ WritePage(x, p, d) \in DiskManagers
         /\ WritePage(x, p, d).next = x.next /\ WritePage(x, p, d).failed = x.failed
         /\ WritePage(x, p, d).end \in {x.end, p + 1} /\ x.end <= WritePage(x, p, d).end
         /\ ~x.failed => /\ p < WritePage(x, p, d).end
                         /\ WritePage(x, p, d).blocks = [x.blocks EXCEPT ![p] = d]
  <1> DEFINE e == IF p >= x.end THEN p + 1 ELSE x.end
             b == [x.blocks EXCEPT ![p] = d]
  <1>1. /\ x.blocks \in [PageIds -> Data] /\ x.end \in 0 .. MaxPages
        /\ x.failed \in BOOLEAN /\ x.next \in 0 .. MaxPages
    BY DiskFields
  <1>2. /\ e \in 0 .. MaxPages /\ e \in {x.end, p + 1} /\ x.end <= e /\ p < e
    BY <1>1, PageIdRange, DiskAssumption
  <1>3. b \in [PageIds -> Data]
    BY <1>1
  <1>4. CASE x.failed
    <2>1. WritePage(x, p, d) = x
      BY <1>4 DEF WritePage
    <2>2. x.end <= x.end
      BY <1>1
    <2>3. QED
      BY <1>4, <2>1, <2>2
  <1>5. CASE ~x.failed
    <2>1. WritePage(x, p, d) = [x EXCEPT !.blocks = b, !.end = e]
      BY <1>5 DEF WritePage
    <2> HIDE DEF b, e
    <2>2. WritePage(x, p, d) = [blocks |-> b, end |-> e, failed |-> x.failed, next |-> x.next]
      BY <2>1 DEF DiskManagers
    <2>3. WritePage(x, p, d) \in DiskManagers
      BY <2>2, <1>1, <1>2, <1>3 DEF DiskManagers
    <2>4. QED
      BY <2>2, <2>3, <1>2 DEF b
  <1>6. QED
    BY <1>1, <1>4, <1>5

\* A dirty frame holds a page.
LEMMA DirtyHoldsPage ==
  ASSUME SInv, NEW f \in Frames, isDirty[f] \/ pinCount[f] # 0
  PROVE  pageId[f] \in PageIds /\ pageTable[pageId[f]] = f /\ pageId[f] \in live
  <1>1. pageId[f] # INVALID_PAGE_ID
    BY DEF SInv, EveryFrameAccounted
  <1>2. pageId[f] \in PageIds
    BY <1>1 DEF SInv, TypeOK
  <1>3. pageTable[pageId[f]] = f
    BY <1>1 DEF SInv, TableMatchesFrames
  <1>4. QED
    BY <1>2, <1>3, Absent DEF SInv, IdsAreLive

\* Getting rid of the victim.
LEMMA WriteBackFacts ==
  ASSUME SInv, NEW f \in Frames
  PROVE  /\ WriteBack(f) \in DiskManagers
         /\ WriteBack(f).next = io.next /\ WriteBack(f).failed = io.failed
         /\ io.end <= WriteBack(f).end /\ WriteBack(f).end <= io.next
         /\ isDirty[f] => pageId[f] \in PageIds /\ WriteBack(f) = WritePage(io, pageId[f], data[f])
         /\ ~isDirty[f] => WriteBack(f) = io
  <1>1. io \in DiskManagers /\ data[f] \in Data
    BY DEF SInv, TypeOK
  <1>2. io.end \in Int /\ io.next \in Int /\ io.end <= io.next
    BY <1>1, DiskFields DEF SInv, IdsAreLive
  <1>3. CASE ~isDirty[f]
    BY <1>1, <1>2, <1>3 DEF WriteBack
  <1>4. CASE isDirty[f]
    <2>1. pageId[f] \in PageIds /\ pageId[f] < io.next
      BY <1>4, DirtyHoldsPage DEF SInv, IdsAreLive
    <2>2. WriteBack(f) = WritePage(io, pageId[f], data[f])
      BY <1>4 DEF WriteBack
    <2>3. pageId[f] + 1 <= io.next
      BY <2>1, <1>2, PageIdRange
    <2> DEFINE w == WritePage(io, pageId[f], data[f])
    <2>4. /\ w \in DiskManagers /\ w.next = io.next /\ w.failed = io.failed
          /\ w.end \in {io.end, pageId[f] + 1} /\ io.end <= w.end
      BY <1>1, <2>1, WriteFacts
    <2> HIDE DEF w
    <2>5. w.end <= io.next
      BY <1>2, <2>3, <2>4
    <2>6. QED
      BY <1>4, <2>1, <2>2, <2>4, <2>5 DEF w
  <1>5. QED
    BY <1>3, <1>4

-----------------------------------------------------------------------------
(* The structures: one lemma for each step that changes them.              *)

LEMMA NewPageStructure ==
  ASSUME SInv, NEW h \in Handles, NewPage(h)
  PROVE  SInv'
  <1>1. PICK f \in Victims : io' = AllocatePage(WriteBack(f)) /\ Install(f, io.next, Zero)
    BY DEF NewPage
  <1>2. io \in DiskManagers /\ io.next < MaxPages /\ io.next \in Nat /\ io.next \in PageIds
    BY DiskFields, DiskAssumption DEF NewPage, SInv, TypeOK, PageIds
  <1>3. io.next \notin live
    BY <1>2 DEF SInv, IdsAreLive
  <1>4. pageTable[io.next] = NoFrame /\ \A g \in Handles : held[g] # io.next
    BY <1>2, <1>3, Absent DEF SInv, IdsAreLive
  <1>5. f \in Frames
    BY TakeFrame
  <1>6. held[h] = INVALID_PAGE_ID /\ held' = [held EXCEPT ![h] = io.next]
    BY DEF NewPage
  <1>7. /\ pageId' \in [Frames -> PageIds \cup {INVALID_PAGE_ID}]
        /\ pinCount' \in [Frames -> Nat] /\ isDirty' \in [Frames -> BOOLEAN]
        /\ data' \in [Frames -> Data] /\ pageTable' \in [PageIds -> Frames \cup {NoFrame}]
        /\ freeList' \in Seq(Frames) /\ replacer' \in R!Replacers
        /\ held' \in [Handles -> PageIds \cup {INVALID_PAGE_ID}]
        /\ TableMatchesFrames' /\ EveryFrameAccounted' /\ PinsAreOutstanding'
        /\ \A q \in PageIds : q # io.next =>
             pageTable'[q] = IF q = pageId[f] THEN NoFrame ELSE pageTable[q]
    <2> DEFINE n == io.next
    <2>1. Zero \in Data
      BY DiskAssumption
    <2>2. /\ n \in PageIds /\ Install(f, n, Zero) /\ pageTable[n] = NoFrame
          /\ \A g \in Handles : held[g] # n
          /\ held[h] = INVALID_PAGE_ID /\ held' = [held EXCEPT ![h] = n]
      BY <1>1, <1>2, <1>4, <1>6
    <2> HIDE DEF n
    <2>3. QED
      BY <2>1, <2>2, InstallKeeps, ZenonT(60) DEF n
  <1>8. /\ io' \in DiskManagers /\ io'.next = io.next + 1 /\ io'.end = WriteBack(f).end
    <2>1. /\ WriteBack(f) \in DiskManagers /\ WriteBack(f).next = io.next
      BY <1>5, WriteBackFacts
    <2>2. io.next + 1 \in 0 .. MaxPages
      BY <1>2, DiskAssumption
    <2> DEFINE w == WriteBack(f)
    <2> HIDE DEF w
    <2>3. io' = [w EXCEPT !.next = io.next + 1] /\ w \in DiskManagers
      BY <1>1, <2>1 DEF AllocatePage, w
    <2>4. io' = [blocks |-> w.blocks, end |-> w.end, failed |-> w.failed, next |-> io.next + 1]
      BY <2>3 DEF DiskManagers
    <2>5. QED
      BY <2>2, <2>3, <2>4 DEF DiskManagers, w
  <1>9. modified' \in SUBSET Handles /\ live' = live \cup {io.next} /\ live' \in SUBSET PageIds
    BY <1>2 DEF NewPage, SInv, TypeOK
  <1>10. IdsAreLive'
    <2>1. io'.end <= io'.next
      <3>1. WriteBack(f).end <= io.next /\ WriteBack(f).end \in Int
        BY <1>5, WriteBackFacts, DiskFields
      <3>2. QED
        BY <1>2, <1>8, <3>1
    <2>2. \A p \in live' : p < io'.next
      <3>1. \A p \in live : p \in Nat /\ p < io.next
        BY PageIdRange DEF SInv, TypeOK, IdsAreLive
      <3>2. QED
        BY <1>2, <1>8, <1>9, <3>1
    <2>3. \A p \in PageIds : pageTable'[p] # NoFrame => p \in live'
      BY <1>7, <1>9 DEF SInv, IdsAreLive
    <2>4. \A g \in Handles : held'[g] # INVALID_PAGE_ID => held'[g] \in live'
      BY <1>6, <1>9 DEF SInv, TypeOK, IdsAreLive
    <2>5. QED
      BY <2>1, <2>2, <2>3, <2>4 DEF IdsAreLive
  <1>11. QED
    BY <1>7, <1>8, <1>9, <1>10 DEF SInv, TypeOK

LEMMA FetchMissStructure ==
  ASSUME SInv, NEW h \in Handles, NEW p \in live, FetchMiss(h, p)
  PROVE  SInv'
  <1>1. PICK f \in Victims : /\ io' = ReadPage(WriteBack(f), p)
                             /\ Install(f, p, ReadData(WriteBack(f), p))
    BY DEF FetchMiss
  <1>2. f \in Frames /\ p \in PageIds
    BY TakeFrame DEF SInv, TypeOK
  <1>3. pageTable[p] = NoFrame /\ \A g \in Handles : held[g] # p
    BY <1>2, Absent DEF FetchMiss, SInv, PinsAreOutstanding
  <1>4. held[h] = INVALID_PAGE_ID /\ held' = [held EXCEPT ![h] = p]
    BY DEF FetchMiss
  <1> DEFINE w == WriteBack(f)
  <1>5. w \in DiskManagers /\ w.next = io.next /\ w.end <= io.next
    BY <1>2, WriteBackFacts
  <1> HIDE DEF w
  <1>6. ReadData(w, p) \in Data
    BY <1>2, <1>5, DiskFields, DiskAssumption DEF ReadData
  <1>7. /\ pageId' \in [Frames -> PageIds \cup {INVALID_PAGE_ID}]
        /\ pinCount' \in [Frames -> Nat] /\ isDirty' \in [Frames -> BOOLEAN]
        /\ data' \in [Frames -> Data] /\ pageTable' \in [PageIds -> Frames \cup {NoFrame}]
        /\ freeList' \in Seq(Frames) /\ replacer' \in R!Replacers
        /\ held' \in [Handles -> PageIds \cup {INVALID_PAGE_ID}]
        /\ TableMatchesFrames' /\ EveryFrameAccounted' /\ PinsAreOutstanding'
        /\ \A q \in PageIds : q # p =>
             pageTable'[q] = IF q = pageId[f] THEN NoFrame ELSE pageTable[q]
    BY <1>1, <1>2, <1>3, <1>4, <1>6, InstallKeeps, ZenonT(60) DEF w
  <1>8. io' \in DiskManagers /\ io'.next = io.next /\ io'.end = w.end
    <2>1. io' = [w EXCEPT !.failed = w.failed \/ p >= w.end]
      BY <1>1 DEF ReadPage, w
    <2>2. io' = [blocks |-> w.blocks, end |-> w.end, failed |-> w.failed \/ p >= w.end,
                 next |-> w.next]
      BY <2>1, <1>5 DEF DiskManagers
    <2>3. (w.failed \/ p >= w.end) \in BOOLEAN
      OBVIOUS
    <2>4. io' \in DiskManagers
      BY <2>2, <2>3, <1>5 DEF DiskManagers
    <2>5. QED
      BY <2>2, <2>4, <1>5
  <1>9. modified' = modified /\ live' = live
    BY DEF FetchMiss
  <1>10. IdsAreLive'
    <2>1. \A q \in PageIds : pageTable'[q] # NoFrame => q \in live
      BY <1>7 DEF SInv, IdsAreLive
    <2>2. \A g \in Handles : held'[g] # INVALID_PAGE_ID => held'[g] \in live
      BY <1>4 DEF SInv, TypeOK, IdsAreLive
    <2>3. QED
      BY <2>1, <2>2, <1>5, <1>8, <1>9 DEF SInv, IdsAreLive
  <1>11. QED
    BY <1>7, <1>8, <1>9, <1>10 DEF SInv, TypeOK

\* The pin count of a frame that holds a page changes, and the replacer is
\* told when it becomes or stops being zero.
LEMMA PinChange ==
  ASSUME SInv, NEW f \in Frames, NEW n \in Nat, pageId[f] # INVALID_PAGE_ID,
         pinCount' = [pinCount EXCEPT ![f] = n],
         isDirty' \in [Frames -> BOOLEAN], \A g \in Frames : g # f => isDirty'[g] = isDirty[g],
         replacer' = [tracked |-> replacer.tracked,
                      evictable |-> IF n = 0 THEN replacer.evictable \cup {f}
                                             ELSE replacer.evictable \ {f}],
         pageId' = pageId, pageTable' = pageTable, freeList' = freeList
  PROVE  /\ pinCount' \in [Frames -> Nat] /\ replacer' \in R!Replacers
         /\ TableMatchesFrames' /\ EveryFrameAccounted'
  <1>1. replacer \in R!Replacers /\ pinCount \in [Frames -> Nat]
    BY DEF SInv, TypeOK
  <1>2. replacer' \in R!Replacers
    BY <1>1 DEF R!Replacers
  <1>3. /\ pinCount' \in [Frames -> Nat] /\ pinCount'[f] = n
        /\ \A g \in Frames : g # f => pinCount'[g] = pinCount[g]
    BY <1>1
  <1>4. /\ replacer'.tracked = replacer.tracked
        /\ \A g \in Frames : g # f => (g \in replacer'.evictable <=> g \in replacer.evictable)
        /\ f \in replacer'.evictable <=> n = 0
    OBVIOUS
  <1>5. TableMatchesFrames'
    BY DEF SInv, TableMatchesFrames
  <1>6. OnFreeList' = OnFreeList
    BY DEF OnFreeList
  <1>7. EveryFrameAccounted'
    <2>1. \A i, j \in 1 .. Len(freeList') : freeList'[i] = freeList'[j] => i = j
      BY DEF SInv, EveryFrameAccounted
    <2>2. ASSUME NEW g \in Frames
          PROVE  IF g \in OnFreeList'
                 THEN /\ pageId'[g] = INVALID_PAGE_ID /\ pinCount'[g] = 0 /\ ~isDirty'[g]
                      /\ g \notin replacer'.tracked /\ g \notin replacer'.evictable
                 ELSE /\ pageId'[g] # INVALID_PAGE_ID /\ g \in replacer'.tracked
                      /\ g \in replacer'.evictable <=> pinCount'[g] = 0
      BY <1>3, <1>4, <1>6 DEF SInv, EveryFrameAccounted
    <2>3. QED
      BY <2>1, <2>2 DEF EveryFrameAccounted
  <1>8. QED
    BY <1>2, <1>3, <1>5, <1>7

\* The page of an outstanding pin, and where it is.
LEMMA ResidentFrame ==
  ASSUME SInv, NEW p \in PageIds, pageTable[p] # NoFrame
  PROVE  /\ pageTable[p] \in Frames /\ pageId[pageTable[p]] = p
         /\ p # INVALID_PAGE_ID /\ pageId[pageTable[p]] # INVALID_PAGE_ID
         /\ pageTable[p] \in replacer.tracked /\ pageTable[p] \notin OnFreeList
         /\ pinCount[pageTable[p]] = Cardinality(Holders(pageTable[p]))
         /\ pageTable[p] \in replacer.evictable <=> pinCount[pageTable[p]] = 0
         /\ \A g \in Frames : g # pageTable[p] => pageId[g] # p
  <1>1. pageTable[p] \in Frames /\ pageId[pageTable[p]] = p /\ p # INVALID_PAGE_ID
    BY Absent DEF SInv, TypeOK, TableMatchesFrames
  <1>2. QED
    BY <1>1 DEF SInv, EveryFrameAccounted, PinsAreOutstanding, TableMatchesFrames

LEMMA ReplacerIs ==
  ASSUME SInv
  PROVE  replacer = [tracked |-> replacer.tracked, evictable |-> replacer.evictable]
  BY DEF SInv, TypeOK, R!Replacers

LEMMA FetchHitStructure ==
  ASSUME SInv, NEW h \in Handles, NEW p \in live, FetchHit(h, p)
  PROVE  SInv'
  <1> DEFINE f == pageTable[p]
  <1>1. p \in PageIds /\ held[h] = INVALID_PAGE_ID /\ f # NoFrame
    BY DEF FetchHit, SInv, TypeOK
  <1>2. /\ f \in Frames /\ pageId[f] = p /\ p # INVALID_PAGE_ID /\ f \in replacer.tracked
        /\ pinCount[f] = Cardinality(Holders(f)) /\ \A g \in Frames : g # f => pageId[g] # p
    BY <1>1, ResidentFrame
  <1>3. /\ pinCount' = [pinCount EXCEPT ![f] = pinCount[f] + 1]
        /\ replacer' = R!SetEvictable(R!RecordAccess(replacer, f), f, FALSE)
        /\ held' = [held EXCEPT ![h] = p]
        /\ UNCHANGED <<pageId, isDirty, data, pageTable, freeList, io, modified, live>>
    BY DEF FetchHit
  <1>4. pageTable[p] = f
    OBVIOUS
  <1> HIDE DEF f
  <1>5. replacer' = [tracked |-> replacer.tracked, evictable |-> replacer.evictable \ {f}]
    <2>1. R!RecordAccess(replacer, f) =
            [tracked |-> replacer.tracked, evictable |-> replacer.evictable]
      BY <1>2, ReplacerIs DEF R!RecordAccess
    <2>2. f \in replacer.tracked /\ replacer' = R!SetEvictable(R!RecordAccess(replacer, f), f, FALSE)
      BY <1>2, <1>3
    <2>3. QED
      BY <2>1, <2>2 DEF R!SetEvictable
  <1>6. pinCount[f] + 1 \in Nat /\ pinCount[f] + 1 # 0
    BY <1>2 DEF SInv, TypeOK
  <1>7. /\ pinCount' \in [Frames -> Nat] /\ replacer' \in R!Replacers
        /\ TableMatchesFrames' /\ EveryFrameAccounted'
    <2>1. isDirty \in [Frames -> BOOLEAN]
      BY DEF SInv, TypeOK
    <2> DEFINE n == pinCount[f] + 1
    <2>2. n \in Nat /\ n # 0 /\ pinCount' = [pinCount EXCEPT ![f] = n]
      BY <1>3, <1>6
    <2> HIDE DEF n
    <2>3. QED
      BY <1>2, <1>3, <1>5, <2>1, <2>2, PinChange
  <1>8. held' \in [Handles -> PageIds \cup {INVALID_PAGE_ID}]
    BY <1>1, <1>3 DEF SInv, TypeOK
  <1>9. held'[h] = p /\ \A g \in Handles : g # h => held'[g] = held[g]
    BY <1>3 DEF SInv, TypeOK
  <1>10. PinsAreOutstanding'
    <2>1. ASSUME NEW g \in Frames, pageId'[g] # INVALID_PAGE_ID
          PROVE  pinCount'[g] = Cardinality(Holders(g)')
      <3>1. CASE g = f
        <4>1. Holders(g)' = Holders(g) \cup {h} /\ h \notin Holders(g)
          BY <1>1, <1>2, <1>3, <1>9, <3>1 DEF Holders
        <4>2. pinCount'[f] = pinCount[f] + 1
          BY <1>2, <1>3 DEF SInv, TypeOK
        <4>3. QED
          BY <3>1, <4>1, <4>2, <1>2, HoldersFinite
      <3>2. CASE g # f
        <4>1. Holders(g)' = Holders(g) /\ pinCount'[g] = pinCount[g]
          BY <1>1, <1>2, <1>3, <1>9, <2>1, <3>2 DEF Holders, SInv, TypeOK
        <4>2. QED
          BY <2>1, <4>1, <1>3 DEF SInv, PinsAreOutstanding
      <3>3. QED
        BY <3>1, <3>2
    <2>2. ASSUME NEW g \in Handles, held'[g] # INVALID_PAGE_ID
          PROVE  pageTable'[held'[g]] # NoFrame
      BY <2>2, <1>1, <1>3, <1>4, <1>9 DEF SInv, PinsAreOutstanding
    <2>3. QED
      BY <2>1, <2>2 DEF PinsAreOutstanding
  <1>11. IdsAreLive'
    BY <1>3, <1>9 DEF SInv, IdsAreLive
  <1>12. QED
    BY <1>3, <1>7, <1>8, <1>10, <1>11 DEF SInv, TypeOK

\* What Release does to the frame of its page.
LEMMA ReleaseEffect ==
  ASSUME SInv, NEW h \in Handles, NEW dirty \in BOOLEAN, Release(h, dirty)
  PROVE  LET f == pageTable[held[h]]
         IN  /\ held[h] \in PageIds /\ f \in Frames /\ pageId[f] = held[h]
             /\ pageId[f] # INVALID_PAGE_ID /\ pinCount[f] \in Nat \ {0}
             /\ pinCount[f] = Cardinality(Holders(f)) /\ h \in Holders(f)
             /\ isDirty' = [isDirty EXCEPT ![f] = isDirty[f] \/ dirty]
             /\ pinCount' = [pinCount EXCEPT ![f] = pinCount[f] - 1]
             /\ replacer' = [tracked |-> replacer.tracked,
                             evictable |-> IF pinCount[f] - 1 = 0
                                           THEN replacer.evictable \cup {f}
                                           ELSE replacer.evictable \ {f}]
             /\ \A g \in Frames : g # f => pageId[g] # held[h]
  <1> DEFINE f == pageTable[held[h]]
  <1>1. held[h] # INVALID_PAGE_ID /\ held[h] \in PageIds /\ f # NoFrame
    BY DEF Release, SInv, TypeOK, PinsAreOutstanding
  <1>2. /\ f \in Frames /\ pageId[f] = held[h] /\ f \in replacer.tracked
        /\ pinCount[f] = Cardinality(Holders(f))
        /\ f \in replacer.evictable <=> pinCount[f] = 0
        /\ \A g \in Frames : g # f => pageId[g] # held[h]
    BY <1>1, ResidentFrame
  <1>3. h \in Holders(f)
    BY <1>2 DEF Holders
  <1>4. pinCount[f] \in Nat \ {0}
    BY <1>2, <1>3, HoldersFinite
  <1>5. UnpinPage(held[h], dirty)
    BY DEF Release
  <1>6. /\ isDirty' = [isDirty EXCEPT ![f] = isDirty[f] \/ dirty]
        /\ pinCount' = [pinCount EXCEPT ![f] = pinCount[f] - 1]
        /\ replacer' = IF pinCount[f] = 1 THEN R!SetEvictable(replacer, f, TRUE) ELSE replacer
    <2>1. ~(pinCount[f] <= 0)
      BY <1>4
    <2>2. QED
      BY <1>1, <1>5, <2>1 DEF UnpinPage
  <1>7. replacer' = [tracked |-> replacer.tracked,
                     evictable |-> IF pinCount[f] - 1 = 0 THEN replacer.evictable \cup {f}
                                                          ELSE replacer.evictable \ {f}]
    <2> HIDE DEF f
    <2>1. CASE pinCount[f] = 1
      <3>1. R!SetEvictable(replacer, f, TRUE) =
              [tracked |-> replacer.tracked, evictable |-> replacer.evictable \cup {f}]
        BY <1>2, ReplacerIs DEF R!SetEvictable
      <3>2. pinCount[f] - 1 = 0
        BY <2>1
      <3>3. QED
        BY <1>6, <2>1, <3>1, <3>2
    <2>2. CASE pinCount[f] # 1
      <3>1. pinCount[f] - 1 # 0 /\ f \notin replacer.evictable
        BY <1>2, <1>4, <2>2
      <3>2. replacer.evictable \ {f} = replacer.evictable
        BY <3>1
      <3>3. QED
        BY <1>6, <2>2, <3>1, <3>2, ReplacerIs
    <2>3. QED
      BY <2>1, <2>2
  <1>8. QED
    BY <1>1, <1>2, <1>3, <1>4, <1>6, <1>7

LEMMA ReleaseStructure ==
  ASSUME SInv, NEW h \in Handles, NEW dirty \in BOOLEAN, Release(h, dirty)
  PROVE  SInv'
  <1> DEFINE f == pageTable[held[h]]
             n == pinCount[f] - 1
  <1>1. /\ held[h] \in PageIds /\ f \in Frames /\ pageId[f] = held[h]
        /\ pageId[f] # INVALID_PAGE_ID /\ pinCount[f] \in Nat \ {0}
        /\ pinCount[f] = Cardinality(Holders(f)) /\ h \in Holders(f)
        /\ isDirty' = [isDirty EXCEPT ![f] = isDirty[f] \/ dirty]
        /\ pinCount' = [pinCount EXCEPT ![f] = n]
        /\ replacer' = [tracked |-> replacer.tracked,
                        evictable |-> IF n = 0 THEN replacer.evictable \cup {f}
                                               ELSE replacer.evictable \ {f}]
        /\ \A g \in Frames : g # f => pageId[g] # held[h]
    BY ReleaseEffect
  <1>2. n \in Nat
    BY <1>1
  <1>3. /\ held' = [held EXCEPT ![h] = INVALID_PAGE_ID] /\ modified' = modified \ {h}
        /\ UNCHANGED <<pageId, data, pageTable, freeList, io, live>>
    BY DEF Release
  <1> HIDE DEF f, n
  <1>4. isDirty' \in [Frames -> BOOLEAN] /\ \A g \in Frames : g # f => isDirty'[g] = isDirty[g]
    BY <1>1 DEF SInv, TypeOK
  <1>5. /\ pinCount' \in [Frames -> Nat] /\ replacer' \in R!Replacers
        /\ TableMatchesFrames' /\ EveryFrameAccounted'
    BY <1>1, <1>2, <1>3, <1>4, PinChange
  <1>6. /\ held' \in [Handles -> PageIds \cup {INVALID_PAGE_ID}]
        /\ held'[h] = INVALID_PAGE_ID /\ \A g \in Handles : g # h => held'[g] = held[g]
    BY <1>3 DEF SInv, TypeOK
  <1>7. PinsAreOutstanding'
    <2>1. ASSUME NEW g \in Frames, pageId'[g] # INVALID_PAGE_ID
          PROVE  pinCount'[g] = Cardinality(Holders(g)')
      <3>1. CASE g = f
        <4>1. Holders(g)' = Holders(g) \ {h}
          BY <1>1, <1>3, <1>6, <3>1 DEF Holders
        <4>2. pinCount'[f] = pinCount[f] - 1
          BY <1>1 DEF SInv, TypeOK, n
        <4>3. QED
          BY <3>1, <4>1, <4>2, <1>1, HoldersFinite
      <3>2. CASE g # f
        <4>1. Holders(g)' = Holders(g) /\ pinCount'[g] = pinCount[g]
          BY <1>1, <1>3, <1>6, <2>1, <3>2 DEF Holders, SInv, TypeOK
        <4>2. QED
          BY <2>1, <4>1, <1>3 DEF SInv, PinsAreOutstanding
      <3>3. QED
        BY <3>1, <3>2
    <2>2. ASSUME NEW g \in Handles, held'[g] # INVALID_PAGE_ID
          PROVE  pageTable'[held'[g]] # NoFrame
      BY <2>2, <1>3, <1>6 DEF SInv, PinsAreOutstanding
    <2>3. QED
      BY <2>1, <2>2 DEF PinsAreOutstanding
  <1>8. IdsAreLive'
    BY <1>3, <1>6 DEF SInv, IdsAreLive
  <1>9. QED
    BY <1>3, <1>4, <1>5, <1>6, <1>7, <1>8 DEF SInv, TypeOK

\* Unpinning a page that nobody has pinned does nothing.
LEMMA ReleaseTwiceStutters ==
  ASSUME SInv, NEW p \in PageIds, NEW dirty \in BOOLEAN, ReleaseTwice(p, dirty)
  PROVE  UNCHANGED vars
  <1>1. pageTable[p] = NoFrame \/ pinCount[pageTable[p]] <= 0
    <2> SUFFICES ASSUME pageTable[p] # NoFrame PROVE pinCount[pageTable[p]] <= 0
      OBVIOUS
    <2>1. pageId[pageTable[p]] = p /\ pinCount[pageTable[p]] = Cardinality(Holders(pageTable[p]))
      BY ResidentFrame
    <2>2. Holders(pageTable[p]) = {}
      BY <2>1 DEF Holders, ReleaseTwice
    <2>3. QED
      BY <2>1, <2>2, FS_EmptySet
  <1>2. UnpinPage(p, dirty) /\ UNCHANGED <<pageId, data, pageTable, freeList, io, callerVars>>
    BY DEF ReleaseTwice
  <1>3. UNCHANGED <<isDirty, pinCount, replacer>>
    BY <1>1, <1>2 DEF UnpinPage
  <1>4. QED
    BY <1>2, <1>3 DEF vars, frameVars

LEMMA HandOverStructure ==
  ASSUME SInv, NEW h \in Handles, NEW g \in Handles, HandOver(h, g)
  PROVE  SInv'
  <1>1. /\ held[h] # INVALID_PAGE_ID /\ held[g] = INVALID_PAGE_ID
        /\ held' = [held EXCEPT ![g] = held[h], ![h] = INVALID_PAGE_ID]
        /\ UNCHANGED <<pageId, pinCount, isDirty, data, pageTable, freeList, replacer, io, live>>
    BY DEF HandOver, frameVars
  <1>2. /\ held' \in [Handles -> PageIds \cup {INVALID_PAGE_ID}] /\ h # g
        /\ held'[g] = held[h] /\ held'[h] = INVALID_PAGE_ID
        /\ \A k \in Handles : k # g /\ k # h => held'[k] = held[k]
    BY <1>1 DEF SInv, TypeOK
  <1>3. modified' \in SUBSET Handles
    BY DEF HandOver, SInv, TypeOK
  <1>4. TableMatchesFrames'
    BY <1>1 DEF SInv, TableMatchesFrames
  <1>5. EveryFrameAccounted'
    BY <1>1 DEF SInv, EveryFrameAccounted, OnFreeList
  <1>6. IdsAreLive'
    BY <1>1, <1>2 DEF SInv, IdsAreLive
  <1>7. PinsAreOutstanding'
    <2>1. ASSUME NEW f \in Frames, pageId'[f] # INVALID_PAGE_ID
          PROVE  pinCount'[f] = Cardinality(Holders(f)')
      <3>1. CASE pageId[f] = held[h]
        <4>1. Holders(f)' = (Holders(f) \ {h}) \cup {g} /\ h \in Holders(f) /\ g \notin Holders(f)
          BY <1>1, <1>2, <3>1 DEF Holders
        <4>2. IsFiniteSet(Holders(f)) /\ g \notin Holders(f) \ {h}
          BY <4>1, HoldersFinite
        <4>3. /\ IsFiniteSet(Holders(f) \ {h}) /\ Cardinality(Holders(f)) \in Nat
              /\ Cardinality(Holders(f) \ {h}) = Cardinality(Holders(f)) - 1
          BY <4>1, <4>2, FS_RemoveElement, FS_CardinalityType
        <4>4. Cardinality(Holders(f)') = Cardinality(Holders(f) \ {h}) + 1
          BY <4>1, <4>2, <4>3, FS_AddElement
        <4>5. pinCount[f] = Cardinality(Holders(f)) /\ pinCount'[f] = pinCount[f]
          BY <1>1, <2>1 DEF SInv, PinsAreOutstanding
        <4>6. QED
          BY <4>3, <4>4, <4>5
      <3>2. CASE pageId[f] # held[h]
        <4>1. Holders(f)' = Holders(f)
          BY <1>1, <1>2, <2>1, <3>2 DEF Holders
        <4>2. QED
          BY <1>1, <2>1, <4>1 DEF SInv, PinsAreOutstanding
      <3>3. QED
        BY <3>1, <3>2
    <2>2. ASSUME NEW k \in Handles, held'[k] # INVALID_PAGE_ID
          PROVE  pageTable'[held'[k]] # NoFrame
      BY <2>2, <1>1, <1>2 DEF SInv, PinsAreOutstanding
    <2>3. QED
      BY <2>1, <2>2 DEF PinsAreOutstanding
  <1>8. QED
    BY <1>1, <1>2, <1>3, <1>4, <1>5, <1>6, <1>7 DEF SInv, TypeOK

LEMMA DeletePageStructure ==
  ASSUME SInv, NEW p \in PageIds, DeletePage(p)
  PROVE  SInv' /\ \A h \in Handles : held[h] # p
  <1>1. /\ p \in live /\ live' = live \ {p} /\ UNCHANGED <<io, held, modified>>
        /\ pageTable[p] # NoFrame => pinCount[pageTable[p]] <= 0
    BY DEF DeletePage
  <1>2. CASE pageTable[p] = NoFrame
    <2>1. UNCHANGED <<pageId, pinCount, isDirty, data, pageTable, freeList, replacer>>
      BY <1>2 DEF DeletePage, frameVars
    <2>2. \A h \in Handles : held[h] # p
      BY <1>2, Absent DEF SInv, PinsAreOutstanding
    <2>3. TypeOK'
      BY <1>1, <2>1 DEF SInv, TypeOK
    <2>4. IdsAreLive'
      BY <1>1, <1>2, <2>1, <2>2 DEF SInv, IdsAreLive
    <2>5. QED
      BY <1>1, <2>1, <2>2, <2>3, <2>4
      DEF SInv, TableMatchesFrames, EveryFrameAccounted, OnFreeList, PinsAreOutstanding, Holders
  <1>3. CASE pageTable[p] # NoFrame
    <2>1. PICK f \in Frames : f = pageTable[p]
      BY <1>3, ResidentFrame
    <2>2. /\ pageId[f] = p /\ p # INVALID_PAGE_ID /\ f \notin OnFreeList
          /\ pinCount[f] = Cardinality(Holders(f)) /\ pinCount[f] <= 0
          /\ \A g \in Frames : g # f => pageId[g] # p
      BY <1>1, <1>3, <2>1, ResidentFrame
    <2>3. Holders(f) = {}
      <3>1. Cardinality(Holders(f)) \in Nat /\ Cardinality(Holders(f)) <= 0
        BY <2>2, HoldersFinite
      <3>2. Cardinality(Holders(f)) = 0
        BY <3>1
      <3>3. QED
        BY <3>2, HoldersFinite
    <2>4. \A h \in Handles : held[h] # p
      BY <2>2, <2>3 DEF Holders
    <2>5. /\ pageTable' = [pageTable EXCEPT ![p] = NoFrame]
          /\ replacer' = R!Erase(replacer, f)
          /\ data' = [data EXCEPT ![f] = Zero]
          /\ pageId' = [pageId EXCEPT ![f] = INVALID_PAGE_ID]
          /\ pinCount' = [pinCount EXCEPT ![f] = 0]
          /\ isDirty' = [isDirty EXCEPT ![f] = FALSE]
          /\ freeList' = Append(freeList, f)
      BY <1>3, <2>1 DEF DeletePage
    <2>6. /\ pageTable' \in [PageIds -> Frames \cup {NoFrame}]
          /\ data' \in [Frames -> Data] /\ pinCount' \in [Frames -> Nat]
          /\ pageId' \in [Frames -> PageIds \cup {INVALID_PAGE_ID}]
          /\ isDirty' \in [Frames -> BOOLEAN]
      BY <2>5, DiskAssumption DEF SInv, TypeOK
    <2>7. /\ replacer' \in R!Replacers /\ replacer'.tracked = replacer.tracked \ {f}
          /\ replacer'.evictable = replacer.evictable \ {f}
      BY <2>5 DEF SInv, TypeOK, R!Replacers, R!Erase
    <2>8. freeList' \in Seq(Frames) /\ Distinct(freeList') /\ OnFreeList' = OnFreeList \cup {f}
      <3>1. freeList \in Seq(Frames) /\ Distinct(freeList) /\ f \notin Elements(freeList)
        BY <2>2, FreeListShape DEF SInv, TypeOK
      <3>2. /\ freeList' \in Seq(Frames) /\ Distinct(freeList')
            /\ Elements(freeList') = Elements(freeList) \cup {f}
        BY <2>5, <3>1, AppendDistinct
      <3>3. QED
        BY <3>2 DEF OnFreeList, Elements
    <2>9. /\ pageTable'[p] = NoFrame /\ \A q \in PageIds : q # p => pageTable'[q] = pageTable[q]
          /\ pageId'[f] = INVALID_PAGE_ID /\ pinCount'[f] = 0 /\ ~isDirty'[f]
          /\ \A g \in Frames : g # f => /\ pageId'[g] = pageId[g] /\ pinCount'[g] = pinCount[g]
                                        /\ isDirty'[g] = isDirty[g]
      BY <2>5 DEF SInv, TypeOK
    <2>10. TableMatchesFrames'
      <3>1. ASSUME NEW q \in PageIds, pageTable'[q] # NoFrame PROVE pageId'[pageTable'[q]] = q
        <4>1. q # p /\ pageTable'[q] = pageTable[q]
          BY <2>9, <3>1
        <4>2. pageTable[q] \in Frames /\ pageId[pageTable[q]] = q
          BY <3>1, <4>1, ResidentFrame
        <4>3. QED
          BY <2>2, <2>9, <4>1, <4>2
      <3>2. ASSUME NEW g \in Frames, pageId'[g] # INVALID_PAGE_ID PROVE pageTable'[pageId'[g]] = g
        <4>1. g # f /\ pageId'[g] = pageId[g] /\ pageId[g] # p
          BY <2>2, <2>9, <3>2
        <4>2. pageTable[pageId[g]] = g /\ pageId[g] \in PageIds
          BY <3>2, <4>1 DEF SInv, TypeOK, TableMatchesFrames
        <4>3. QED
          BY <2>9, <4>1, <4>2
      <3>3. QED
        BY <3>1, <3>2 DEF TableMatchesFrames
    <2>11. EveryFrameAccounted'
      <3>1. \A i, j \in 1 .. Len(freeList') : freeList'[i] = freeList'[j] => i = j
        BY <2>8 DEF Distinct
      <3>2. ASSUME NEW g \in Frames
            PROVE  IF g \in OnFreeList'
                   THEN /\ pageId'[g] = INVALID_PAGE_ID /\ pinCount'[g] = 0 /\ ~isDirty'[g]
                        /\ g \notin replacer'.tracked /\ g \notin replacer'.evictable
                   ELSE /\ pageId'[g] # INVALID_PAGE_ID /\ g \in replacer'.tracked
                        /\ g \in replacer'.evictable <=> pinCount'[g] = 0
        BY <2>7, <2>8, <2>9 DEF SInv, EveryFrameAccounted
      <3>3. QED
        BY <3>1, <3>2 DEF EveryFrameAccounted
    <2>12. PinsAreOutstanding'
      <3>1. ASSUME NEW g \in Frames, pageId'[g] # INVALID_PAGE_ID
            PROVE  pinCount'[g] = Cardinality(Holders(g)')
        <4>1. g # f /\ Holders(g)' = Holders(g)
          BY <1>1, <2>9, <3>1 DEF Holders
        <4>2. QED
          BY <2>9, <3>1, <4>1 DEF SInv, PinsAreOutstanding
      <3>2. ASSUME NEW h \in Handles, held'[h] # INVALID_PAGE_ID
            PROVE  pageTable'[held'[h]] # NoFrame
        BY <1>1, <2>4, <2>9, <3>2 DEF SInv, TypeOK, PinsAreOutstanding
      <3>3. QED
        BY <3>1, <3>2 DEF PinsAreOutstanding
    <2>13. IdsAreLive'
      BY <1>1, <2>4, <2>9 DEF SInv, IdsAreLive
    <2>14. QED
      BY <1>1, <2>4, <2>6, <2>7, <2>8, <2>10, <2>11, <2>12, <2>13 DEF SInv, TypeOK
  <1>4. QED
    BY <1>2, <1>3

\* A step that only changes bytes and dirty flags, and the disk.
LEMMA ContentStructure ==
  ASSUME SInv,
         UNCHANGED <<pageId, pinCount, pageTable, freeList, replacer, held, live>>,
         data' \in [Frames -> Data], isDirty' \in [Frames -> BOOLEAN],
         \A f \in Frames : isDirty'[f] => isDirty[f],
         modified' \in SUBSET Handles,
         io' \in DiskManagers, io'.next = io.next, io'.end <= io.next
  PROVE  SInv'
  <1>1. TypeOK'
    BY DEF SInv, TypeOK
  <1>2. EveryFrameAccounted'
    BY DEF SInv, EveryFrameAccounted, OnFreeList
  <1>3. IdsAreLive'
    BY DEF SInv, IdsAreLive
  <1>4. QED
    BY <1>1, <1>2, <1>3 DEF SInv, TableMatchesFrames, PinsAreOutstanding, Holders

LEMMA ChangeBytesStructure ==
  ASSUME SInv, NEW h \in Handles, NEW d \in Data, ChangeBytes(h, d)
  PROVE  SInv'
  <1>1. data' \in [Frames -> Data] /\ modified' \in SUBSET Handles
    BY DEF ChangeBytes, SInv, TypeOK
  <1>2. isDirty' \in [Frames -> BOOLEAN] /\ io' \in DiskManagers /\ io'.end <= io.next
    BY DEF ChangeBytes, SInv, TypeOK, IdsAreLive
  <1>3. QED
    BY <1>1, <1>2, ContentStructure DEF ChangeBytes

LEMMA FlushPageStructure ==
  ASSUME SInv, NEW p \in PageIds, FlushPage(p)
  PROVE  SInv'
  <1>1. /\ UNCHANGED <<pageId, pinCount, data, pageTable, freeList, replacer, held, modified, live>>
        /\ p \in live
    BY DEF FlushPage, callerVars
  <1>2. io \in DiskManagers /\ io.end <= io.next /\ io.end \in Int /\ io.next \in Int /\ p < io.next
    BY <1>1, DiskFields DEF SInv, TypeOK, IdsAreLive
  <1>3. CASE pageTable[p] = NoFrame
    <2>1. UNCHANGED <<io, isDirty>>
      BY <1>3 DEF FlushPage
    <2>2. data' \in [Frames -> Data] /\ isDirty' \in [Frames -> BOOLEAN] /\ modified' \in SUBSET Handles
      BY <1>1, <2>1 DEF SInv, TypeOK
    <2>3. QED
      BY <1>1, <1>2, <2>1, <2>2, ContentStructure
  <1>4. CASE pageTable[p] # NoFrame
    <2>1. PICK f \in Frames : f = pageTable[p]
      BY <1>4, ResidentFrame
    <2>2. /\ io' = WritePage(io, p, data[f]) /\ isDirty' = [isDirty EXCEPT ![f] = FALSE]
          /\ data[f] \in Data
      BY <1>4, <2>1 DEF FlushPage, SInv, TypeOK
    <2>3. io' \in DiskManagers /\ io'.next = io.next /\ io'.end \in {io.end, p + 1}
      BY <1>2, <2>2, WriteFacts
    <2>4. io'.end <= io.next
      BY <1>2, <2>3, PageIdRange
    <2>5. /\ isDirty' \in [Frames -> BOOLEAN] /\ \A g \in Frames : isDirty'[g] => isDirty[g]
          /\ data' \in [Frames -> Data] /\ modified' \in SUBSET Handles
      BY <1>1, <2>2 DEF SInv, TypeOK
    <2>6. QED
      BY <1>1, <2>3, <2>4, <2>5, ContentStructure
  <1>5. QED
    BY <1>3, <1>4

\* What FlushAllPages leaves on the disk.
LEMMA FlushAllEffect ==
  ASSUME SInv, FlushAllPages
  PROVE  /\ io' \in DiskManagers /\ io'.next = io.next /\ io'.failed = io.failed
         /\ io.end <= io'.end /\ io'.end <= io.next
         /\ isDirty' \in [Frames -> BOOLEAN] /\ \A f \in Frames : isDirty'[f] => isDirty[f]
         /\ ~io.failed =>
              /\ \A p \in PageIds : pageTable[p] # NoFrame => p < io'.end
              /\ \A p \in PageIds : io'.blocks[p] = IF pageTable[p] # NoFrame
                                                    THEN data[pageTable[p]] ELSE io.blocks[p]
  <1>1. /\ io \in DiskManagers /\ io.blocks \in [PageIds -> Data] /\ io.end \in 0 .. MaxPages
        /\ io.next \in 0 .. MaxPages /\ io.end <= io.next /\ io.failed \in BOOLEAN
    BY DiskFields DEF SInv, TypeOK, IdsAreLive
  <1>2. isDirty' \in [Frames -> BOOLEAN] /\ \A f \in Frames : isDirty'[f] => isDirty[f]
    BY DEF FlushAllPages, SInv, TypeOK
  <1>3. CASE io.failed
    <2>1. io' = io
      BY <1>3 DEF FlushAllPages
    <2>2. io.end <= io.end
      BY <1>1
    <2>3. QED
      BY <1>1, <1>2, <1>3, <2>1, <2>2
  <1>4. CASE ~io.failed
    <2> DEFINE b == [p \in PageIds |-> IF p \in Resident THEN data[pageTable[p]] ELSE io.blocks[p]]
    <2>1. PICK end \in io.end .. MaxPages :
            /\ \A p \in Resident : p < end
            /\ end = io.end \/ end - 1 \in Resident
            /\ io' = [io EXCEPT !.blocks = b, !.end = end]
      BY <1>4 DEF FlushAllPages
    <2>2. \A p \in Resident : p \in PageIds /\ pageTable[p] \in Frames /\ p < io.next
      BY ResidentFrame DEF Resident, SInv, IdsAreLive
    <2>3. b \in [PageIds -> Data]
      BY <1>1, <2>2 DEF SInv, TypeOK
    <2>4. /\ end \in 0 .. MaxPages /\ io.end <= end
      BY <1>1, <2>1, DiskAssumption
    <2>5. end <= io.next
      BY <1>1, <2>1, <2>2, <2>4
    <2>6. \A p \in PageIds : b[p] = IF pageTable[p] # NoFrame
                                    THEN data[pageTable[p]] ELSE io.blocks[p]
      BY DEF Resident
    <2> HIDE DEF b
    <2>7. io' = [blocks |-> b, end |-> end, failed |-> io.failed, next |-> io.next]
      BY <1>1, <2>1 DEF DiskManagers
    <2>8. io' \in DiskManagers
      BY <1>1, <2>3, <2>4, <2>7 DEF DiskManagers
    <2>9. QED
      BY <1>2, <2>1, <2>4, <2>5, <2>6, <2>7, <2>8 DEF Resident
  <1>5. QED
    BY <1>3, <1>4

LEMMA FlushAllStructure ==
  ASSUME SInv, FlushAllPages
  PROVE  SInv'
  <1>1. UNCHANGED <<pageId, pinCount, data, pageTable, freeList, replacer, held, modified, live>>
    BY DEF FlushAllPages, callerVars
  <1>2. data' \in [Frames -> Data] /\ modified' \in SUBSET Handles
    BY <1>1 DEF SInv, TypeOK
  <1>3. QED
    BY <1>1, <1>2, FlushAllEffect, ContentStructure

\* The pool as the constructor leaves it, over whatever disk.
Fresh ==
  /\ pageId = [f \in Frames |-> INVALID_PAGE_ID]
  /\ pinCount = [f \in Frames |-> 0]
  /\ isDirty = [f \in Frames |-> FALSE]
  /\ data = [f \in Frames |-> Zero]
  /\ pageTable = [p \in PageIds |-> NoFrame]
  /\ freeList = [i \in 1 .. PoolSize |-> i - 1]
  /\ replacer = R!Empty
  /\ held = [h \in Handles |-> INVALID_PAGE_ID]
  /\ modified = {}

FreshIds ==
  /\ io \in DiskManagers /\ live \in SUBSET PageIds
  /\ \A p \in live : p < io.next
  /\ io.end <= io.next

LEMMA FreshStructure == Fresh /\ FreshIds => SInv
  <1> SUFFICES ASSUME Fresh, FreshIds PROVE SInv
    OBVIOUS
  <1>1. freeList \in Seq(Frames) /\ Len(freeList) = PoolSize
        /\ \A i \in 1 .. PoolSize : freeList[i] = i - 1
    <2>1. PoolSize \in Nat /\ \A i \in 1 .. PoolSize : i - 1 \in Frames
      BY PoolAssumption DEF Frames
    <2>2. QED
      BY <2>1, IsASeq DEF Fresh
  <1>2. \A f \in Frames : f + 1 \in 1 .. PoolSize /\ f = (f + 1) - 1
    BY PoolAssumption DEF Frames
  <1>3. \A f \in Frames : f \in OnFreeList
    <2> SUFFICES ASSUME NEW f \in Frames PROVE f \in OnFreeList
      OBVIOUS
    <2>1. f + 1 \in 1 .. Len(freeList) /\ freeList[f + 1] = f
      BY <1>1, <1>2
    <2>2. QED
      BY <2>1 DEF OnFreeList
  <1>4. \A i, j \in 1 .. Len(freeList) : freeList[i] = freeList[j] => i = j
    BY <1>1, PoolAssumption
  <1>5. replacer \in R!Replacers /\ replacer.tracked = {} /\ replacer.evictable = {}
    BY DEF Fresh, R!Empty, R!Replacers
  <1>6. TypeOK
    BY <1>1, <1>5, DiskAssumption DEF Fresh, FreshIds, TypeOK
  <1>7. TableMatchesFrames
    BY DEF Fresh, TableMatchesFrames
  <1>8. EveryFrameAccounted
    BY <1>3, <1>4, <1>5 DEF Fresh, EveryFrameAccounted
  <1>9. PinsAreOutstanding
    BY DEF Fresh, PinsAreOutstanding
  <1>10. IdsAreLive
    BY DEF Fresh, FreshIds, IdsAreLive
  <1>11. QED
    BY <1>6, <1>7, <1>8, <1>9, <1>10 DEF SInv

LEMMA InitStructure == Init => SInv
  <1> SUFFICES ASSUME Init PROVE SInv
    OBVIOUS
  <1>1. Fresh
    BY DEF Init, Fresh
  <1>2. io \in DiskManagers /\ io.end <= io.next
    BY DiskAssumption DEF Init, NewDisk, DiskManagers
  <1>3. live = {}
    BY DEF Init
  <1>4. QED
    BY <1>1, <1>2, <1>3, FreshStructure DEF FreshIds

LEMMA FreshNext == Fresh' /\ FreshIds' => SInv'
  BY FreshStructure, PTL

LEMMA RestartStructure ==
  ASSUME SInv, Restart
  PROVE  SInv' /\ io'.end = io.end /\ io'.blocks = io.blocks /\ ~io'.failed
  <1>1. Fresh'
    BY DEF Restart, Fresh
  <1>2. io \in DiskManagers
    BY DEF SInv, TypeOK
  <1>3. io' = [blocks |-> io.blocks, end |-> io.end, failed |-> FALSE, next |-> io.end]
    BY <1>2 DEF Restart, Reopen, DiskManagers
  <1>4. io' \in DiskManagers
    BY <1>2, <1>3 DEF DiskManagers
  <1>5. io'.end <= io'.next
    <2>1. io.end \in Int
      BY <1>2, DiskFields
    <2>2. QED
      BY <1>3, <2>1
  <1>6. live' \in SUBSET PageIds /\ \A p \in live' : p < io'.next
    BY <1>3 DEF Restart, SInv, TypeOK
  <1>7. FreshIds'
    BY <1>4, <1>5, <1>6 DEF FreshIds
  <1>8. QED
    BY <1>1, <1>3, <1>7, FreshNext

LEMMA StructureStep == SInv /\ [PoolNext]_vars => SInv'
  <1> SUFFICES ASSUME SInv, [PoolNext]_vars PROVE SInv'
    OBVIOUS
  <1>1. ASSUME UNCHANGED vars PROVE SInv'
    <2> USE <1>1 DEF vars, frameVars, callerVars, SInv
    <2>1. TypeOK'
      BY DEF TypeOK
    <2>2. TableMatchesFrames' /\ IdsAreLive'
      BY DEF TableMatchesFrames, IdsAreLive
    <2>3. EveryFrameAccounted'
      BY DEF EveryFrameAccounted, OnFreeList
    <2>4. PinsAreOutstanding'
      BY DEF PinsAreOutstanding, Holders
    <2>5. QED
      BY <2>1, <2>2, <2>3, <2>4
  <1>2. ASSUME NEW h \in Handles,
               NewPage(h) \/ NoFrameLeft(h) \/ (\E p \in live : FetchHit(h, p) \/ FetchMiss(h, p))
               \/ (\E d \in Data : ChangeBytes(h, d)) \/ (\E dirty \in BOOLEAN : Release(h, dirty))
        PROVE  SInv'
    BY <1>1, <1>2, NewPageStructure, FetchHitStructure, FetchMissStructure, ChangeBytesStructure,
       ReleaseStructure DEF NoFrameLeft
  <1>3. ASSUME NEW p \in PageIds,
               (\E dirty \in BOOLEAN : ReleaseTwice(p, dirty)) \/ DeletePage(p)
               \/ DeletePinned(p) \/ FlushPage(p)
        PROVE  SInv'
    BY <1>1, <1>3, ReleaseTwiceStutters, DeletePageStructure, FlushPageStructure DEF DeletePinned
  <1>4. QED
    BY <1>1, <1>2, <1>3, FlushAllStructure, RestartStructure, HandOverStructure
    DEF PoolNext, Next

-----------------------------------------------------------------------------
(* Memory and disk, where callers mark a new page dirty.                   *)

\* A page that is not in the file yet, or not as it is in memory: it is
\* resident, and marked dirty or about to be.
Unsaved(p) ==
  /\ pageTable[p] # NoFrame
  /\ isDirty[pageTable[p]] \/ \E h \in modified : held[h] = p

\* The inductive invariant: every page is in the file or Unsaved, so no read
\* is ever short and the stream never fails.
OnDisk ==
  /\ ~io.failed
  /\ CleanIsOnDisk
  /\ \A p \in PageIds : ~(p < io.end) => io.blocks[p] = Zero
  /\ \A p \in live : p < io.end \/ Unsaved(p)

\* A write, page by page.
LEMMA WriteBlocks ==
  ASSUME NEW x \in DiskManagers, ~x.failed, NEW p \in PageIds, NEW d \in Data
  PROVE  /\ ~WritePage(x, p, d).failed /\ p < WritePage(x, p, d).end
         /\ \A q \in PageIds :
              /\ WritePage(x, p, d).blocks[q] = IF q = p THEN d ELSE x.blocks[q]
              /\ q < x.end => q < WritePage(x, p, d).end
  <1> DEFINE w == WritePage(x, p, d)
  <1>1. /\ w \in DiskManagers /\ w.failed = x.failed /\ x.end <= w.end /\ p < w.end
        /\ w.blocks = [x.blocks EXCEPT ![p] = d]
    BY WriteFacts
  <1> HIDE DEF w
  <1>2. x.blocks \in [PageIds -> Data] /\ x.end \in Int /\ w.end \in Int
    BY <1>1, DiskFields
  <1>3. \A q \in PageIds : w.blocks[q] = IF q = p THEN d ELSE x.blocks[q]
    BY <1>1, <1>2
  <1>4. \A q \in PageIds : q < x.end => q < w.end
    BY <1>1, <1>2, PageIdRange
  <1>5. QED
    BY <1>1, <1>3, <1>4 DEF w

\* An eviction loses nothing: afterwards the victim's page is in the file as
\* it was in memory, and every other page of the file is as before.
LEMMA EvictLosesNothing ==
  ASSUME SInv, OnDisk, NEW f \in Victims
  PROVE  /\ f \in Frames /\ ~WriteBack(f).failed
         /\ \A q \in PageIds :
              /\ WriteBack(f).blocks[q] = IF q = pageId[f] THEN data[f] ELSE io.blocks[q]
              /\ q < io.end => q < WriteBack(f).end
              /\ q = pageId[f] => q < WriteBack(f).end /\ q \in live /\ pageTable[q] = f
  <1>1. f \in Frames /\ \A h \in Handles : pageId[f] # INVALID_PAGE_ID => held[h] # pageId[f]
    BY TakeFrame
  <1>2. io \in DiskManagers /\ ~io.failed /\ data[f] \in Data /\ modified \in SUBSET Handles
    BY <1>1 DEF SInv, TypeOK, OnDisk
  <1>3. ASSUME NEW q \in PageIds, q = pageId[f] PROVE q \in live /\ pageTable[q] = f
    <2>1. q # INVALID_PAGE_ID /\ pageTable[q] = f
      BY <1>1, <1>3, Absent DEF SInv, TableMatchesFrames
    <2>2. QED
      BY <1>1, <2>1, Absent DEF SInv, IdsAreLive
  <1>4. CASE isDirty[f]
    <2>1. pageId[f] \in PageIds /\ WriteBack(f) = WritePage(io, pageId[f], data[f])
      BY <1>1, <1>4, WriteBackFacts
    <2> DEFINE p == pageId[f]
               d == data[f]
    <2>2. p \in PageIds /\ d \in Data
      BY <1>2, <2>1
    <2> HIDE DEF p, d
    <2>3. /\ ~WritePage(io, p, d).failed /\ p < WritePage(io, p, d).end
          /\ \A q \in PageIds :
               /\ WritePage(io, p, d).blocks[q] = IF q = p THEN d ELSE io.blocks[q]
               /\ q < io.end => q < WritePage(io, p, d).end
      BY <1>2, <2>2, WriteBlocks
    <2>4. QED
      BY <1>1, <1>3, <2>1, <2>3 DEF p, d
  <1>5. CASE ~isDirty[f]
    <2>1. WriteBack(f) = io
      BY <1>5 DEF WriteBack
    <2>2. ASSUME NEW q \in PageIds, q = pageId[f] PROVE io.blocks[q] = data[f] /\ q < io.end
      <3>1. q # INVALID_PAGE_ID /\ \A h \in modified : held[h] # q
        BY <1>1, <1>2, <2>2, Absent
      <3>2. io.blocks[q] = data[f]
        BY <1>1, <1>5, <2>2, <3>1 DEF OnDisk, CleanIsOnDisk
      <3>3. ~Unsaved(q)
        BY <1>3, <1>5, <2>2, <3>1 DEF Unsaved
      <3>4. QED
        BY <1>3, <2>2, <3>2, <3>3 DEF OnDisk
    <2>3. QED
      BY <1>1, <1>2, <1>3, <2>1, <2>2
  <1>6. QED
    BY <1>4, <1>5

\* Taking in page p, either as the file has it or marked as changed.
LEMMA InstallOnDisk ==
  ASSUME SInv, OnDisk, NEW f \in Victims, NEW p \in PageIds, NEW d \in Data, NEW h \in Handles,
         Install(f, p, d), held[h] = INVALID_PAGE_ID, held' = [held EXCEPT ![h] = p],
         pageTable[p] = NoFrame, \A g \in Handles : held[g] # p,
         ~io'.failed, io'.blocks = WriteBack(f).blocks, io'.end = WriteBack(f).end,
         modified \subseteq modified', live' \subseteq live \cup {p},
         h \in modified' \/ (d = io'.blocks[p] /\ p < io'.end)
  PROVE  OnDisk'
  <1>1. /\ f \in Frames
        /\ \A q \in PageIds :
             /\ io'.blocks[q] = IF q = pageId[f] THEN data[f] ELSE io.blocks[q]
             /\ q < io.end => q < io'.end
             /\ q = pageId[f] => q < io'.end
    BY EvictLosesNothing
  <1>2. /\ pageTable'[p] = f
        /\ \A q \in PageIds : q # p =>
             pageTable'[q] = IF q = pageId[f] THEN NoFrame ELSE pageTable[q]
    <2>1. /\ Unmap(f) \in [PageIds -> Frames \cup {NoFrame}]
          /\ \A q \in PageIds :
               Unmap(f)[q] = IF q = pageId[f] THEN NoFrame ELSE pageTable[q]
      BY <1>1, Absent DEF Unmap, SInv, TypeOK
    <2>2. QED
      BY <1>1, <2>1 DEF Install
  <1>3. /\ pageId'[f] = p /\ data'[f] = d
        /\ \A g \in Frames : g # f => /\ pageId'[g] = pageId[g] /\ isDirty'[g] = isDirty[g]
                                      /\ data'[g] = data[g]
        /\ held'[h] = p /\ \A g \in Handles : g # h => held'[g] = held[g]
    BY <1>1 DEF Install, SInv, TypeOK
  <1>4. modified \in SUBSET Handles /\ live \in SUBSET PageIds /\ p # INVALID_PAGE_ID
    BY Absent DEF SInv, TypeOK
  <1>5. ASSUME NEW q, NEW k \in modified, held[k] = q, q # INVALID_PAGE_ID
        PROVE  k \in modified' /\ held'[k] = q
    BY <1>3, <1>4, <1>5
  <1>6. CleanIsOnDisk'
    <2> SUFFICES ASSUME NEW g \in Frames, pageId'[g] # INVALID_PAGE_ID, ~isDirty'[g],
                        \A k \in modified' : held'[k] # pageId'[g]
                 PROVE  data'[g] = io'.blocks[pageId'[g]]
      BY DEF CleanIsOnDisk
    <2>1. CASE g = f
      BY <1>3, <2>1
    <2>2. CASE g # f
      <3>1. /\ pageId'[g] = pageId[g] /\ pageId[g] # INVALID_PAGE_ID /\ ~isDirty[g]
            /\ data'[g] = data[g]
        BY <1>3, <2>2
      <3>2. \A k \in modified : held[k] # pageId[g]
        BY <1>5, <3>1
      <3>3. data[g] = io.blocks[pageId[g]]
        BY <3>1, <3>2 DEF OnDisk, CleanIsOnDisk
      <3>4. pageId[g] \in PageIds /\ pageId[g] # pageId[f]
        BY <1>1, <2>2, <3>1 DEF SInv, TypeOK, TableMatchesFrames
      <3>5. QED
        BY <1>1, <3>1, <3>3, <3>4
    <2>3. QED
      BY <2>1, <2>2
  <1>7. ASSUME NEW q \in PageIds, ~(q < io'.end) PROVE io'.blocks[q] = Zero
    BY <1>1, <1>7 DEF OnDisk
  <1>8. ASSUME NEW q \in live', ~(q < io'.end) PROVE Unsaved(q)'
    <2>1. CASE q = p
      <3>1. h \in modified' /\ held'[h] = p /\ pageTable'[p] # NoFrame
        BY <1>1, <1>2, <1>3, <1>8, <2>1, Absent
      <3>2. QED
        BY <2>1, <3>1 DEF Unsaved
    <2>2. CASE q # p
      <3>1. q \in live /\ q \in PageIds /\ Unsaved(q) /\ q # pageId[f]
        BY <1>1, <1>4, <1>8, <2>2 DEF OnDisk
      <3>2. /\ pageTable'[q] = pageTable[q] /\ pageTable[q] # NoFrame
            /\ isDirty[pageTable[q]] \/ \E k \in modified : held[k] = q
        BY <1>2, <2>2, <3>1 DEF Unsaved
      <3>3. pageTable[q] \in Frames /\ pageTable[q] # f /\ q # INVALID_PAGE_ID
        BY <3>1, <3>2, ResidentFrame
      <3>4. isDirty'[pageTable'[q]] \/ \E k \in modified' : held'[k] = q
        BY <1>3, <1>5, <3>2, <3>3
      <3>5. QED
        BY <3>2, <3>4 DEF Unsaved
    <2>3. QED
      BY <2>1, <2>2
  <1>9. QED
    BY <1>6, <1>7, <1>8 DEF OnDisk

-----------------------------------------------------------------------------
(* The refinement mapping, page by page.                                   *)

LEMMA ContentAt ==
  ASSUME NEW p \in PageIds
  PROVE  /\ p \notin live => Content[p] = NoPage
         /\ p \in live /\ pageTable[p] # NoFrame => Content[p] = data[pageTable[p]]
         /\ p \in live /\ pageTable[p] = NoFrame => Content[p] = io.blocks[p]
  BY DEF Content

LEMMA ContentAtNext ==
  ASSUME NEW p \in PageIds
  PROVE  /\ p \notin live' => Content'[p] = NoPage
         /\ p \in live' /\ pageTable'[p] # NoFrame => Content'[p] = data'[pageTable'[p]]
         /\ p \in live' /\ pageTable'[p] = NoFrame => Content'[p] = io'.blocks[p]
  BY DEF Content

\* A live page has contents, which are never the mark of a missing page.
LEMMA ContentIsData ==
  ASSUME SInv, NEW p \in live
  PROVE  p \in PageIds /\ Content[p] \in Data /\ Content[p] # NoPage
  <1>1. p \in PageIds
    BY DEF SInv, TypeOK
  <1>2. io.blocks[p] \in Data
    BY <1>1, DiskFields DEF SInv, TypeOK
  <1>3. pageTable[p] # NoFrame => data[pageTable[p]] \in Data
    BY <1>1, ResidentFrame DEF SInv, TypeOK
  <1>4. Content[p] \in Data
    BY <1>1, <1>2, <1>3, ContentAt
  <1>5. QED
    BY <1>1, <1>4, PoolAssumption

LEMMA ContentSame ==
  ASSUME \A p \in PageIds : Content'[p] = Content[p]
  PROVE  Content' = Content
  BY DEF Content

\* Every page of the file is as before, or as it is in memory, or a new hole.
LEMMA PersistWhen ==
  ASSUME io' \in DiskManagers,
         \A p \in PageIds :
           \/ io'.blocks[p] = io.blocks[p] /\ (p < io'.end <=> p < io.end)
           \/ Content[p] # NoPage /\ io'.blocks[p] = Content[p] /\ p < io'.end
           \/ ~(p < io.end) /\ p < io'.end /\ io'.blocks[p] = Zero
  PROVE  Store!Persist
  <1>1. io'.blocks \in [PageIds -> Data]
    BY DiskFields
  <1>2. \A p \in PageIds : /\ Durable[p] = IF p < io.end THEN io.blocks[p] ELSE NoPage
                           /\ Durable'[p] = IF p < io'.end THEN io'.blocks[p] ELSE NoPage
    BY DEF Durable
  <1>3. Durable' \in [PageIds -> Data \cup {NoPage}]
    BY <1>1 DEF Durable
  <1>4. \A p \in PageIds : \/ Durable'[p] = Durable[p]
                           \/ Content[p] # NoPage /\ Durable'[p] = Content[p]
                           \/ Durable[p] = NoPage /\ Durable'[p] = Zero
    BY <1>2
  <1>5. QED
    BY <1>3, <1>4 DEF Store!Persist

\* Taking in a page changes no other page, and what it writes is what memory
\* held.
LEMMA InstallContent ==
  ASSUME SInv, SInv', OnDisk, NEW f \in Victims, NEW p \in PageIds, NEW d \in Data,
         Install(f, p, d), pageTable[p] = NoFrame,
         io'.blocks = WriteBack(f).blocks, io'.end = WriteBack(f).end, p \in live',
         \A q \in PageIds : q # p => (q \in live' <=> q \in live)
  PROVE  /\ Content'[p] = d /\ Store!Persist
         /\ \A q \in PageIds : q # p => Content'[q] = Content[q]
         /\ io'.blocks[p] = io.blocks[p]
  <1>1. /\ f \in Frames
        /\ \A q \in PageIds :
             /\ io'.blocks[q] = IF q = pageId[f] THEN data[f] ELSE io.blocks[q]
             /\ q < io.end => q < io'.end
             /\ q = pageId[f] => q < io'.end /\ q \in live /\ pageTable[q] = f
    BY EvictLosesNothing
  <1>2. /\ pageTable'[p] = f
        /\ \A q \in PageIds : q # p =>
             pageTable'[q] = IF q = pageId[f] THEN NoFrame ELSE pageTable[q]
    <2>1. /\ Unmap(f) \in [PageIds -> Frames \cup {NoFrame}]
          /\ \A q \in PageIds :
               Unmap(f)[q] = IF q = pageId[f] THEN NoFrame ELSE pageTable[q]
      BY <1>1, Absent DEF Unmap, SInv, TypeOK
    <2>2. QED
      BY <1>1, <2>1 DEF Install
  <1>3. data'[f] = d /\ \A g \in Frames : g # f => data'[g] = data[g]
    BY <1>1 DEF Install, SInv, TypeOK
  <1>4. f # NoFrame /\ p # pageId[f]
    BY <1>1, Absent
  <1>5. Content'[p] = d
    BY <1>2, <1>3, <1>4, ContentAtNext
  <1>6. ASSUME NEW q \in PageIds, q # p PROVE Content'[q] = Content[q]
    <2>1. CASE q \notin live
      BY <1>6, <2>1, ContentAt, ContentAtNext
    <2>2. CASE q \in live /\ q = pageId[f]
      <3>1. pageTable'[q] = NoFrame /\ io'.blocks[q] = data[f] /\ pageTable[q] = f
        BY <1>1, <1>2, <1>6, <2>2
      <3>2. QED
        BY <1>4, <1>6, <2>2, <3>1, ContentAt, ContentAtNext
    <2>3. CASE q \in live /\ q # pageId[f]
      <3>1. pageTable'[q] = pageTable[q] /\ io'.blocks[q] = io.blocks[q]
        BY <1>1, <1>2, <1>6, <2>3
      <3>2. pageTable[q] # NoFrame => pageTable[q] \in Frames /\ pageTable[q] # f
        BY <2>3, ResidentFrame
      <3>3. pageTable[q] # NoFrame => data'[pageTable[q]] = data[pageTable[q]]
        BY <1>3, <3>2
      <3>4. q \in live' /\ q \in live
        BY <1>6, <2>3
      <3>5. QED
        BY <3>1, <3>3, <3>4, ContentAt, ContentAtNext
    <2>4. QED
      BY <2>1, <2>2, <2>3
  <1>7. Store!Persist
    <2>1. io' \in DiskManagers
      BY DEF SInv, TypeOK
    <2>2. ASSUME NEW q \in PageIds
          PROVE  \/ io'.blocks[q] = io.blocks[q] /\ (q < io'.end <=> q < io.end)
                 \/ Content[q] # NoPage /\ io'.blocks[q] = Content[q] /\ q < io'.end
                 \/ ~(q < io.end) /\ q < io'.end /\ io'.blocks[q] = Zero
      <3>1. CASE q = pageId[f]
        <4>1. q \in live /\ pageTable[q] = f /\ q < io'.end /\ io'.blocks[q] = data[f]
          BY <1>1, <3>1
        <4>2. Content[q] = data[f] /\ Content[q] # NoPage
          BY <1>4, <4>1, ContentAt, ContentIsData
        <4>3. QED
          BY <4>1, <4>2
      <3>2. CASE q # pageId[f]
        <4>1. io'.blocks[q] = io.blocks[q] /\ (q < io.end => q < io'.end)
          BY <1>1, <3>2
        <4>2. ~(q < io.end) => io.blocks[q] = Zero
          BY DEF OnDisk
        <4>3. QED
          BY <4>1, <4>2
      <3>3. QED
        BY <3>1, <3>2
    <2>3. QED
      BY <2>1, <2>2, PersistWhen
  <1>8. io'.blocks[p] = io.blocks[p]
    BY <1>1, <1>4
  <1>9. QED
    BY <1>5, <1>6, <1>7, <1>8

LEMMA NewPageStores ==
  ASSUME SInv, SInv', OnDisk, InitNewPages, NEW h \in Handles, NewPage(h)
  PROVE  OnDisk' /\ \E p \in PageIds : Store!Allocate(p)
  <1>1. PICK f \in Victims : io' = AllocatePage(WriteBack(f)) /\ Install(f, io.next, Zero)
    BY DEF NewPage
  <1>2. io.next \in PageIds
    BY DiskFields, DiskAssumption DEF NewPage, SInv, TypeOK, PageIds
  <1>3. PICK p \in PageIds : p = io.next
    BY <1>2
  <1>4. p \notin live
    <2>1. io.next \in Int
      BY DiskFields DEF SInv, TypeOK
    <2>2. QED
      BY <1>3, <2>1 DEF SInv, IdsAreLive
  <1>5. pageTable[p] = NoFrame /\ \A g \in Handles : held[g] # p
    BY <1>4, Absent DEF SInv, IdsAreLive
  <1>6. /\ held[h] = INVALID_PAGE_ID /\ held' = [held EXCEPT ![h] = p]
        /\ modified' = modified \cup {h} /\ live' = live \cup {p}
    BY <1>3 DEF NewPage
  <1>7. Install(f, p, Zero) /\ Zero \in Data
    BY <1>1, <1>3, DiskAssumption
  <1>8. ~io'.failed /\ io'.blocks = WriteBack(f).blocks /\ io'.end = WriteBack(f).end
    <2> DEFINE w == WriteBack(f)
    <2>1. ~w.failed /\ w \in DiskManagers
      BY EvictLosesNothing, WriteBackFacts
    <2>2. io' = [w EXCEPT !.next = w.next + 1]
      BY <1>1 DEF AllocatePage
    <2> HIDE DEF w
    <2>3. ~io'.failed /\ io'.blocks = w.blocks /\ io'.end = w.end
      BY <2>1, <2>2 DEF DiskManagers
    <2>4. QED
      BY <2>3 DEF w
  <1>9. OnDisk'
    <2>1. modified \subseteq modified' /\ live' \subseteq live \cup {p} /\ h \in modified'
      BY <1>6
    <2>2. QED
      BY <1>5, <1>6, <1>7, <1>8, <2>1, InstallOnDisk
  <1>10. /\ Content'[p] = Zero /\ Store!Persist
         /\ \A q \in PageIds : q # p => Content'[q] = Content[q]
    <2>1. p \in live' /\ \A q \in PageIds : q # p => (q \in live' <=> q \in live)
      BY <1>6
    <2>2. QED
      BY <1>5, <1>7, <1>8, <2>1, InstallContent
  <1>11. Content' = [Content EXCEPT ![p] = Zero]
    BY <1>10 DEF Content
  <1>12. Content[p] = NoPage
    BY <1>4, ContentAt
  <1>13. QED
    BY <1>9, <1>10, <1>11, <1>12 DEF Store!Allocate

LEMMA FetchMissStores ==
  ASSUME SInv, SInv', OnDisk, NEW h \in Handles, NEW p \in live, FetchMiss(h, p)
  PROVE  OnDisk' /\ Store!WriteBack
  <1>1. PICK f \in Victims : /\ io' = ReadPage(WriteBack(f), p)
                             /\ Install(f, p, ReadData(WriteBack(f), p))
    BY DEF FetchMiss
  <1>2. p \in PageIds /\ pageTable[p] = NoFrame
    BY DEF FetchMiss, SInv, TypeOK
  <1>3. \A g \in Handles : held[g] # p
    BY <1>2, Absent DEF SInv, PinsAreOutstanding
  <1>4. /\ held[h] = INVALID_PAGE_ID /\ held' = [held EXCEPT ![h] = p]
        /\ modified' = modified /\ live' = live
    BY DEF FetchMiss
  <1> DEFINE w == WriteBack(f)
  <1>5. f \in Frames /\ ~w.failed /\ (p < io.end => p < w.end)
    BY <1>2, EvictLosesNothing
  <1>6. w \in DiskManagers /\ w.end \in Int
    BY <1>5, WriteBackFacts, DiskFields
  <1>7. p < io.end
    BY <1>2 DEF OnDisk, Unsaved
  <1> HIDE DEF w
  <1>8. p < w.end /\ ~(p >= w.end)
    <2>1. p < w.end
      BY <1>5, <1>7
    <2>2. QED
      BY <1>2, <1>6, <2>1, PageIdRange
  <1>9. ~io'.failed /\ io'.blocks = w.blocks /\ io'.end = w.end
    <2>1. io' = [w EXCEPT !.failed = w.failed \/ p >= w.end]
      BY <1>1 DEF ReadPage, w
    <2>2. io' = [blocks |-> w.blocks, end |-> w.end, failed |-> w.failed \/ p >= w.end,
                 next |-> w.next]
      BY <1>6, <2>1 DEF DiskManagers
    <2>3. QED
      BY <1>5, <1>8, <2>2
  <1>10. PICK d \in Data : d = w.blocks[p]
    BY <1>2, <1>6, DiskFields
  <1>11. Install(f, p, d)
    BY <1>1, <1>5, <1>8, <1>10 DEF ReadData, w
  <1>12. OnDisk'
    <2>1. modified \subseteq modified' /\ live' \subseteq live \cup {p} /\ d = io'.blocks[p]
          /\ p < io'.end
      BY <1>4, <1>8, <1>9, <1>10
    <2>2. QED
      BY <1>2, <1>3, <1>4, <1>9, <1>11, <2>1, InstallOnDisk DEF w
  <1>13. /\ Content'[p] = d /\ Store!Persist
         /\ \A q \in PageIds : q # p => Content'[q] = Content[q]
         /\ io'.blocks[p] = io.blocks[p]
    BY <1>2, <1>4, <1>9, <1>11, InstallContent DEF w
  <1>14. Content[p] = d
    BY <1>2, <1>9, <1>10, <1>13, ContentAt
  <1>15. Content' = Content
    BY <1>13, <1>14, ContentSame
  <1>16. QED
    BY <1>12, <1>13, <1>15 DEF Store!WriteBack

\* Pins and flags are not part of the abstract store.
LEMMA StoreStutters ==
  ASSUME UNCHANGED <<live, pageTable, data, io>>
  PROVE  UNCHANGED Store!vars
  <1>1. Content' = Content /\ Durable' = Durable
    BY DEF Content, Durable
  <1>2. QED
    BY <1>1 DEF Store!vars

\* A step that leaves bytes, table and disk alone, and under which no page
\* loses its mark: what was dirty stays so, what a holder had changed is dirty
\* or still held by somebody who changed it.
LEMMA MarksKept ==
  ASSUME SInv, OnDisk, UNCHANGED <<pageId, data, pageTable, io, live>>,
         \A f \in Frames : isDirty[f] => isDirty'[f],
         \A k \in modified : held[k] # INVALID_PAGE_ID =>
           \/ isDirty'[pageTable[held[k]]]
           \/ \E j \in modified' : held'[j] = held[k]
  PROVE  OnDisk'
  <1>1. CleanIsOnDisk'
    <2> SUFFICES ASSUME NEW f \in Frames, pageId[f] # INVALID_PAGE_ID, ~isDirty'[f],
                        \A k \in modified' : held'[k] # pageId[f]
                 PROVE  data[f] = io.blocks[pageId[f]]
      BY DEF CleanIsOnDisk
    <2>1. pageTable[pageId[f]] = f
      BY DEF SInv, TableMatchesFrames
    <2>2. \A k \in modified : held[k] # pageId[f]
      BY <2>1
    <2>3. QED
      BY <2>2 DEF OnDisk, CleanIsOnDisk
  <1>2. ASSUME NEW p \in live, Unsaved(p) PROVE Unsaved(p)'
    <2>1. p \in PageIds /\ p # INVALID_PAGE_ID /\ pageTable[p] \in Frames
      BY <1>2, ResidentFrame DEF Unsaved, SInv, TypeOK
    <2>2. isDirty'[pageTable[p]] \/ \E j \in modified' : held'[j] = p
      BY <1>2, <2>1 DEF Unsaved
    <2>3. QED
      BY <1>2, <2>2 DEF Unsaved
  <1>3. QED
    BY <1>1, <1>2 DEF OnDisk

LEMMA FetchHitStores ==
  ASSUME SInv, OnDisk, NEW h \in Handles, NEW p \in live, FetchHit(h, p)
  PROVE  OnDisk' /\ UNCHANGED Store!vars
  <1>1. /\ held[h] = INVALID_PAGE_ID /\ held' = [held EXCEPT ![h] = p]
        /\ UNCHANGED <<pageId, isDirty, data, pageTable, io, modified, live>>
    BY DEF FetchHit
  <1>2. \A k \in modified : held[k] # INVALID_PAGE_ID => held'[k] = held[k]
    BY <1>1 DEF SInv, TypeOK
  <1>3. OnDisk'
    BY <1>1, <1>2, MarksKept
  <1>4. QED
    BY <1>1, <1>3, StoreStutters

LEMMA ReleaseStores ==
  ASSUME SInv, OnDisk, NEW h \in Handles, NEW dirty \in BOOLEAN, Release(h, dirty)
  PROVE  OnDisk' /\ UNCHANGED Store!vars
  <1>1. PICK f \in Frames :
          f = pageTable[held[h]] /\ isDirty' = [isDirty EXCEPT ![f] = isDirty[f] \/ dirty]
    BY ReleaseEffect
  <1>2. /\ h \in modified => dirty
        /\ held' = [held EXCEPT ![h] = INVALID_PAGE_ID] /\ modified' = modified \ {h}
        /\ UNCHANGED <<pageId, data, pageTable, io, live>>
    BY DEF Release
  <1>3. isDirty'[f] = (isDirty[f] \/ dirty) /\ \A g \in Frames : isDirty[g] => isDirty'[g]
    BY <1>1 DEF SInv, TypeOK
  <1>4. ASSUME NEW k \in modified, held[k] # INVALID_PAGE_ID
        PROVE  isDirty'[pageTable[held[k]]] \/ \E j \in modified' : held'[j] = held[k]
    <2>1. CASE k = h
      BY <1>1, <1>2, <1>3, <2>1
    <2>2. CASE k # h
      <3>1. k \in modified' /\ held'[k] = held[k]
        BY <1>2, <2>2 DEF SInv, TypeOK
      <3>2. QED
        BY <3>1
    <2>3. QED
      BY <2>1, <2>2
  <1>5. OnDisk'
    BY <1>2, <1>3, <1>4, MarksKept
  <1>6. QED
    BY <1>2, <1>5, StoreStutters

LEMMA HandOverStores ==
  ASSUME SInv, OnDisk, NEW h \in Handles, NEW g \in Handles, HandOver(h, g)
  PROVE  OnDisk' /\ UNCHANGED Store!vars
  <1>1. /\ held[h] # INVALID_PAGE_ID /\ held[g] = INVALID_PAGE_ID
        /\ held' = [held EXCEPT ![g] = held[h], ![h] = INVALID_PAGE_ID]
        /\ modified' = IF h \in modified THEN (modified \ {h}) \cup {g} ELSE modified
        /\ UNCHANGED <<pageId, isDirty, data, pageTable, io, live>>
    BY DEF HandOver, frameVars
  <1>2. /\ h # g /\ held'[g] = held[h] /\ modified \in SUBSET Handles
        /\ \A k \in Handles : k # g /\ k # h => held'[k] = held[k]
    BY <1>1 DEF SInv, TypeOK
  <1>3. ASSUME NEW k \in modified, held[k] # INVALID_PAGE_ID
        PROVE  \E j \in modified' : held'[j] = held[k]
    <2>1. CASE k = h
      BY <1>1, <1>2, <2>1
    <2>2. CASE k # h
      <3>1. k \in modified' /\ held'[k] = held[k]
        BY <1>1, <1>2, <1>3, <2>2
      <3>2. QED
        BY <3>1
    <2>3. QED
      BY <2>1, <2>2
  <1>4. OnDisk'
    BY <1>1, <1>3, MarksKept
  <1>5. QED
    BY <1>1, <1>4, StoreStutters

LEMMA ChangeBytesStores ==
  ASSUME SInv, OnDisk, NEW h \in Handles, NEW d \in Data, ChangeBytes(h, d)
  PROVE  OnDisk' /\ \E p \in PageIds : Store!Write(p, d)
  <1>1. PICK p \in PageIds : p = held[h]
    BY DEF ChangeBytes, SInv, TypeOK
  <1>2. p \in live /\ pageTable[p] # NoFrame
    BY <1>1 DEF ChangeBytes, SInv, IdsAreLive, PinsAreOutstanding
  <1>3. PICK f \in Frames : f = pageTable[p]
    BY <1>2, ResidentFrame
  <1>4. pageId[f] = p /\ \A g \in Frames : g # f => pageId[g] # p
    BY <1>2, <1>3, ResidentFrame
  <1>5. /\ data' = [data EXCEPT ![f] = d] /\ modified' = modified \cup {h}
        /\ UNCHANGED <<pageId, isDirty, pageTable, io, held, live>>
    BY <1>1, <1>3 DEF ChangeBytes
  <1>6. data'[f] = d /\ \A g \in Frames : g # f => data'[g] = data[g]
    BY <1>5 DEF SInv, TypeOK
  <1>7. OnDisk'
    <2>1. CleanIsOnDisk'
      <3> SUFFICES ASSUME NEW g \in Frames, pageId[g] # INVALID_PAGE_ID, ~isDirty[g],
                          \A k \in modified \cup {h} : held[k] # pageId[g]
                   PROVE  data'[g] = io.blocks[pageId[g]]
        BY <1>5 DEF CleanIsOnDisk
      <3>1. g # f
        BY <1>1, <1>4
      <3>2. QED
        BY <1>6, <3>1 DEF OnDisk, CleanIsOnDisk
    <2>2. \A q \in live : Unsaved(q) => Unsaved(q)'
      BY <1>5 DEF Unsaved
    <2>3. QED
      BY <1>5, <2>1, <2>2 DEF OnDisk
  <1>8. Content' = [Content EXCEPT ![p] = d]
    <2>1. Content'[p] = d
      BY <1>2, <1>3, <1>5, <1>6, ContentAtNext
    <2>2. ASSUME NEW q \in PageIds, q # p PROVE Content'[q] = Content[q]
      <3>1. pageTable[q] # NoFrame => pageTable[q] \in Frames /\ pageTable[q] # f
        BY <1>4, <2>2, ResidentFrame
      <3>2. pageTable[q] # NoFrame => data'[pageTable[q]] = data[pageTable[q]]
        BY <1>6, <3>1
      <3>3. QED
        BY <1>5, <3>2, ContentAt, ContentAtNext
    <2>3. QED
      BY <2>1, <2>2 DEF Content
  <1>9. Content[p] # NoPage
    BY <1>2, ContentIsData
  <1>10. Durable' = Durable
    BY <1>5 DEF Durable
  <1>11. QED
    BY <1>7, <1>8, <1>9, <1>10 DEF Store!Write

LEMMA DeletePageStores ==
  ASSUME SInv, OnDisk, NEW p \in PageIds, DeletePage(p)
  PROVE  OnDisk' /\ Store!Delete(p)
  <1>1. p \in live /\ live' = live \ {p} /\ UNCHANGED <<io, held, modified>>
    BY DEF DeletePage
  <1>2. \/ pageTable[p] = NoFrame /\ UNCHANGED <<pageId, isDirty, data, pageTable>>
        \/ \E f \in Frames :
             /\ f = pageTable[p] /\ pageTable[p] # NoFrame
             /\ pageTable' = [pageTable EXCEPT ![p] = NoFrame]
             /\ data' = [data EXCEPT ![f] = Zero]
             /\ pageId' = [pageId EXCEPT ![f] = INVALID_PAGE_ID]
             /\ isDirty' = [isDirty EXCEPT ![f] = FALSE]
    BY ResidentFrame DEF DeletePage, frameVars
  <1>3. \A g \in Frames : pageId'[g] # INVALID_PAGE_ID =>
          pageId'[g] = pageId[g] /\ isDirty'[g] = isDirty[g] /\ data'[g] = data[g]
    BY <1>2 DEF SInv, TypeOK
  <1>4. ASSUME NEW q \in PageIds, q # p
        PROVE  /\ pageTable'[q] = pageTable[q]
               /\ pageTable[q] # NoFrame => /\ isDirty'[pageTable[q]] = isDirty[pageTable[q]]
                                            /\ data'[pageTable[q]] = data[pageTable[q]]
    <2>1. CASE pageTable[p] = NoFrame /\ UNCHANGED <<pageId, isDirty, data, pageTable>>
      BY <2>1
    <2>2. ASSUME NEW f \in Frames, f = pageTable[p], pageTable[p] # NoFrame,
                 pageTable' = [pageTable EXCEPT ![p] = NoFrame],
                 data' = [data EXCEPT ![f] = Zero], isDirty' = [isDirty EXCEPT ![f] = FALSE]
          PROVE  /\ pageTable'[q] = pageTable[q]
                 /\ pageTable[q] # NoFrame => /\ isDirty'[pageTable[q]] = isDirty[pageTable[q]]
                                              /\ data'[pageTable[q]] = data[pageTable[q]]
      <3>1. pageTable'[q] = pageTable[q]
        BY <1>4, <2>2 DEF SInv, TypeOK
      <3>2. pageTable[q] # NoFrame => pageTable[q] \in Frames /\ pageTable[q] # f
        BY <1>4, <2>2, ResidentFrame
      <3>3. QED
        BY <2>2, <3>1, <3>2 DEF SInv, TypeOK
    <2>3. QED
      BY <1>2, <2>1, <2>2
  <1>5. OnDisk'
    <2>1. CleanIsOnDisk'
      BY <1>1, <1>3 DEF OnDisk, CleanIsOnDisk
    <2>2. \A q \in live' : Unsaved(q) => Unsaved(q)'
      BY <1>1, <1>4 DEF Unsaved, SInv, TypeOK
    <2>3. QED
      BY <1>1, <2>1, <2>2 DEF OnDisk
  <1>6. Content' = [Content EXCEPT ![p] = NoPage]
    <2>1. Content'[p] = NoPage
      BY <1>1, ContentAtNext
    <2>2. ASSUME NEW q \in PageIds, q # p PROVE Content'[q] = Content[q]
      BY <1>1, <1>4, <2>2, ContentAt, ContentAtNext
    <2>3. QED
      BY <2>1, <2>2 DEF Content
  <1>7. Durable' = Durable
    BY <1>1 DEF Durable
  <1>8. QED
    BY <1>5, <1>6, <1>7 DEF Store!Delete

LEMMA FlushPageStores ==
  ASSUME SInv, SInv', OnDisk, NEW p \in PageIds, FlushPage(p)
  PROVE  OnDisk' /\ (Store!WriteBack \/ UNCHANGED Store!vars)
  <1>1. /\ UNCHANGED <<pageId, pinCount, data, pageTable, freeList, replacer, held, modified, live>>
        /\ p \in live
    BY DEF FlushPage, callerVars
  <1>2. CASE pageTable[p] = NoFrame
    <2>1. UNCHANGED <<io, isDirty>>
      BY <1>2 DEF FlushPage
    <2>2. OnDisk'
      BY <1>1, <2>1, MarksKept
    <2>3. QED
      BY <1>1, <2>1, <2>2, StoreStutters
  <1>3. CASE pageTable[p] # NoFrame
    <2>1. PICK f \in Frames : f = pageTable[p]
      BY <1>3, ResidentFrame
    <2>2. pageId[f] = p /\ \A g \in Frames : g # f => pageId[g] # p
      BY <1>3, <2>1, ResidentFrame
    <2>3. PICK d \in Data : d = data[f]
      BY DEF SInv, TypeOK
    <2>4. io' = WritePage(io, p, d) /\ isDirty' = [isDirty EXCEPT ![f] = FALSE]
      BY <1>3, <2>1, <2>3 DEF FlushPage
    <2>5. \A g \in Frames : g # f => isDirty'[g] = isDirty[g]
      BY <2>4 DEF SInv, TypeOK
    <2>6. io \in DiskManagers /\ ~io.failed
      BY DEF SInv, TypeOK, OnDisk
    <2>7. /\ ~io'.failed /\ p < io'.end
          /\ \A q \in PageIds : /\ io'.blocks[q] = IF q = p THEN d ELSE io.blocks[q]
                                /\ q < io.end => q < io'.end
      BY <2>4, <2>6, WriteBlocks
    <2>8. CleanIsOnDisk'
      <3> SUFFICES ASSUME NEW g \in Frames, pageId[g] # INVALID_PAGE_ID, ~isDirty'[g],
                          \A k \in modified : held[k] # pageId[g]
                   PROVE  data[g] = io'.blocks[pageId[g]]
        BY <1>1 DEF CleanIsOnDisk
      <3>1. pageId[g] \in PageIds
        BY DEF SInv, TypeOK
      <3>2. CASE g = f
        BY <2>2, <2>3, <2>7, <3>2
      <3>3. CASE g # f
        BY <2>2, <2>5, <2>7, <3>1, <3>3 DEF OnDisk, CleanIsOnDisk
      <3>4. QED
        BY <3>2, <3>3
    <2>9. ASSUME NEW q \in PageIds, ~(q < io'.end) PROVE io'.blocks[q] = Zero
      BY <2>7, <2>9 DEF OnDisk
    <2>10. ASSUME NEW q \in live', ~(q < io'.end) PROVE Unsaved(q)'
      <3>1. q \in live /\ q \in PageIds /\ q # p /\ Unsaved(q)
        BY <1>1, <2>7, <2>10 DEF OnDisk, SInv, TypeOK
      <3>2. pageTable[q] \in Frames /\ pageTable[q] # f
        BY <2>2, <3>1, ResidentFrame DEF Unsaved
      <3>3. QED
        BY <1>1, <2>5, <3>1, <3>2 DEF Unsaved
    <2>11. OnDisk'
      BY <2>7, <2>8, <2>9, <2>10 DEF OnDisk
    <2>12. ASSUME NEW q \in PageIds PROVE Content'[q] = Content[q]
      <3>1. q # p => io'.blocks[q] = io.blocks[q]
        BY <2>7
      <3>2. QED
        BY <1>1, <1>3, <3>1, ContentAt, ContentAtNext
    <2>13. Content' = Content
      BY <2>12, ContentSame
    <2>14. Store!Persist
      <3>1. io' \in DiskManagers
        BY DEF SInv, TypeOK
      <3>2. Content[p] = d /\ Content[p] # NoPage
        BY <1>1, <1>3, <2>1, <2>3, ContentAt, ContentIsData
      <3>3. ASSUME NEW q \in PageIds
            PROVE  \/ io'.blocks[q] = io.blocks[q] /\ (q < io'.end <=> q < io.end)
                   \/ Content[q] # NoPage /\ io'.blocks[q] = Content[q] /\ q < io'.end
                   \/ ~(q < io.end) /\ q < io'.end /\ io'.blocks[q] = Zero
        BY <2>7, <3>2 DEF OnDisk
      <3>4. QED
        BY <3>1, <3>3, PersistWhen
    <2>15. QED
      BY <2>11, <2>13, <2>14 DEF Store!WriteBack
  <1>4. QED
    BY <1>2, <1>3

LEMMA FlushAllStores ==
  ASSUME SInv, SInv', OnDisk, FlushAllPages
  PROVE  OnDisk' /\ Store!WriteBack
  <1>1. UNCHANGED <<pageId, pinCount, data, pageTable, freeList, replacer, held, modified, live>>
    BY DEF FlushAllPages, callerVars
  <1>2. /\ ~io'.failed
        /\ \A q \in PageIds :
             /\ pageTable[q] # NoFrame => q < io'.end
             /\ io'.blocks[q] = IF pageTable[q] # NoFrame THEN data[pageTable[q]] ELSE io.blocks[q]
             /\ q < io.end => q < io'.end
    <2>1. /\ io'.failed = io.failed /\ ~io.failed /\ io.end <= io'.end
          /\ \A p \in PageIds : pageTable[p] # NoFrame => p < io'.end
          /\ \A p \in PageIds : io'.blocks[p] = IF pageTable[p] # NoFrame
                                                THEN data[pageTable[p]] ELSE io.blocks[p]
      BY FlushAllEffect DEF OnDisk
    <2>2. io.end \in Int /\ io'.end \in Int
      BY DiskFields DEF SInv, TypeOK
    <2>3. \A q \in PageIds : q < io.end => q < io'.end
      BY <2>1, <2>2, PageIdRange
    <2>4. QED
      BY <2>1, <2>3
  <1>3. CleanIsOnDisk'
    <2> SUFFICES ASSUME NEW g \in Frames, pageId[g] # INVALID_PAGE_ID
                 PROVE  data[g] = io'.blocks[pageId[g]]
      BY <1>1 DEF CleanIsOnDisk
    <2>1. pageId[g] \in PageIds /\ pageTable[pageId[g]] = g /\ g # NoFrame
      BY Absent DEF SInv, TypeOK, TableMatchesFrames
    <2>2. QED
      BY <1>2, <2>1
  <1>4. ASSUME NEW q \in PageIds, ~(q < io'.end) PROVE io'.blocks[q] = Zero
    BY <1>2, <1>4 DEF OnDisk
  <1>5. ASSUME NEW q \in live PROVE q < io'.end
    BY <1>2 DEF OnDisk, Unsaved, SInv, TypeOK
  <1>6. OnDisk'
    BY <1>1, <1>2, <1>3, <1>4, <1>5 DEF OnDisk
  <1>7. Content' = Content
    <2>1. ASSUME NEW q \in PageIds PROVE Content'[q] = Content[q]
      BY <1>1, <1>2, ContentAt, ContentAtNext
    <2>2. QED
      BY <2>1, ContentSame
  <1>8. Store!Persist
    <2>1. io' \in DiskManagers
      BY DEF SInv, TypeOK
    <2>2. ASSUME NEW q \in PageIds
          PROVE  \/ io'.blocks[q] = io.blocks[q] /\ (q < io'.end <=> q < io.end)
                 \/ Content[q] # NoPage /\ io'.blocks[q] = Content[q] /\ q < io'.end
                 \/ ~(q < io.end) /\ q < io'.end /\ io'.blocks[q] = Zero
      <3>1. CASE pageTable[q] # NoFrame
        <4>1. q \in live
          BY <3>1 DEF SInv, IdsAreLive
        <4>2. Content[q] = data[pageTable[q]] /\ Content[q] # NoPage
          BY <3>1, <4>1, ContentAt, ContentIsData
        <4>3. QED
          BY <1>2, <3>1, <4>2
      <3>2. CASE pageTable[q] = NoFrame
        BY <1>2, <3>2 DEF OnDisk
      <3>3. QED
        BY <3>1, <3>2
    <2>3. QED
      BY <2>1, <2>2, PersistWhen
  <1>9. QED
    BY <1>6, <1>7, <1>8 DEF Store!WriteBack

LEMMA RestartStores ==
  ASSUME SInv, OnDisk, Restart
  PROVE  OnDisk' /\ Store!Restart
  <1>1. io'.end = io.end /\ io'.blocks = io.blocks /\ ~io'.failed
    BY RestartStructure
  <1>2. live' = {p \in live : p < io.end} /\ pageTable' = [p \in PageIds |-> NoFrame]
    BY DEF Restart
  <1>3. CleanIsOnDisk'
    BY DEF CleanIsOnDisk, Restart
  <1>4. OnDisk'
    BY <1>1, <1>2, <1>3 DEF OnDisk
  <1>5. Durable' = Durable
    BY <1>1 DEF Durable
  <1>6. ASSUME NEW p \in PageIds
        PROVE  Content'[p] = IF Content[p] = NoPage THEN NoPage ELSE Durable[p]
    <2>1. Durable[p] = IF p < io.end THEN io.blocks[p] ELSE NoPage
      BY DEF Durable
    <2>2. CASE p \notin live
      BY <1>2, <2>2, ContentAt, ContentAtNext
    <2>3. CASE p \in live
      <3>1. Content[p] # NoPage
        BY <2>3, ContentIsData
      <3>2. CASE p < io.end
        BY <1>1, <1>2, <2>1, <2>3, <3>1, <3>2, ContentAtNext
      <3>3. CASE ~(p < io.end)
        BY <1>2, <2>1, <3>1, <3>3, ContentAtNext
      <3>4. QED
        BY <3>2, <3>3
    <2>4. QED
      BY <2>2, <2>3
  <1>7. Content' = [p \in PageIds |-> IF Content[p] = NoPage THEN NoPage ELSE Durable[p]]
    BY <1>6 DEF Content
  <1>8. QED
    BY <1>4, <1>5, <1>7 DEF Store!Restart

\* The pool starts as an empty store.
LEMMA InitStores == Init => OnDisk /\ Store!Init
  <1> SUFFICES ASSUME Init PROVE OnDisk /\ Store!Init
    OBVIOUS
  <1>1. ~io.failed /\ io.end = 0 /\ \A p \in PageIds : io.blocks[p] = Zero
    BY DEF Init, NewDisk
  <1>2. OnDisk
    BY <1>1 DEF Init, OnDisk, CleanIsOnDisk
  <1>3. \A p \in PageIds : ~(p < 0)
    BY PageIdRange
  <1>4. Content = [p \in PageIds |-> NoPage] /\ Durable = [p \in PageIds |-> NoPage]
    BY <1>1, <1>3 DEF Init, Content, Durable
  <1>5. QED
    BY <1>2, <1>4 DEF Store!Init

\* Every step of the pool is a step of the store, or invisible to it.
LEMMA StoreStep ==
  InitNewPages /\ SInv /\ SInv' /\ OnDisk /\ [PoolNext]_vars => OnDisk' /\ [Store!Next]_(Store!vars)
  <1> SUFFICES ASSUME InitNewPages, SInv, SInv', OnDisk, [PoolNext]_vars
               PROVE  OnDisk' /\ (Store!Next \/ UNCHANGED Store!vars)
    OBVIOUS
  <1>1. ASSUME UNCHANGED vars PROVE OnDisk' /\ UNCHANGED Store!vars
    <2>1. UNCHANGED <<pageId, data, pageTable, io, live, isDirty, held, modified>>
      BY <1>1 DEF vars, frameVars, callerVars
    <2>2. OnDisk'
      BY <2>1, MarksKept
    <2>3. QED
      BY <2>1, <2>2, StoreStutters
  <1>2. ASSUME NEW h \in Handles,
               NewPage(h) \/ NoFrameLeft(h) \/ (\E p \in live : FetchHit(h, p) \/ FetchMiss(h, p))
               \/ (\E d \in Data : ChangeBytes(h, d)) \/ (\E dirty \in BOOLEAN : Release(h, dirty))
        PROVE  OnDisk' /\ (Store!Next \/ UNCHANGED Store!vars)
    <2>1. CASE NewPage(h)
      BY <2>1, NewPageStores DEF Store!Next
    <2>2. CASE NoFrameLeft(h)
      BY <1>1, <2>2 DEF NoFrameLeft
    <2>3. CASE \E p \in live : FetchHit(h, p) \/ FetchMiss(h, p)
      BY <2>3, FetchHitStores, FetchMissStores DEF Store!Next
    <2>4. CASE \E d \in Data : ChangeBytes(h, d)
      BY <2>4, ChangeBytesStores DEF Store!Next
    <2>5. CASE \E dirty \in BOOLEAN : Release(h, dirty)
      BY <2>5, ReleaseStores
    <2>6. QED
      BY <1>2, <2>1, <2>2, <2>3, <2>4, <2>5
  <1>3. ASSUME NEW p \in PageIds,
               (\E dirty \in BOOLEAN : ReleaseTwice(p, dirty)) \/ DeletePage(p)
               \/ DeletePinned(p) \/ FlushPage(p)
        PROVE  OnDisk' /\ (Store!Next \/ UNCHANGED Store!vars)
    <2>1. CASE \E dirty \in BOOLEAN : ReleaseTwice(p, dirty)
      BY <1>1, <2>1, ReleaseTwiceStutters
    <2>2. CASE DeletePage(p)
      BY <2>2, DeletePageStores DEF Store!Next
    <2>3. CASE DeletePinned(p)
      BY <1>1, <2>3 DEF DeletePinned
    <2>4. CASE FlushPage(p)
      BY <2>4, FlushPageStores DEF Store!Next
    <2>5. QED
      BY <1>3, <2>1, <2>2, <2>3, <2>4
  <1>4. CASE FlushAllPages
    BY <1>4, FlushAllStores DEF Store!Next
  <1>5. CASE Restart
    BY <1>5, RestartStores DEF Store!Next
  <1>6. ASSUME NEW h \in Handles, NEW g \in Handles, HandOver(h, g)
        PROVE  OnDisk' /\ UNCHANGED Store!vars
    BY <1>6, HandOverStores
  <1>7. QED
    BY <1>1, <1>2, <1>3, <1>4, <1>5, <1>6 DEF PoolNext, Next

-----------------------------------------------------------------------------
(* Outstanding pointers.                                                   *)

\* The frame NewPage and FetchPage take is nobody's, so the mapping of a
\* pinned page survives every step that keeps the pin.
LEMMA PointersStep ==
  ASSUME SInv, SInv', [PoolNext]_vars, NEW h \in Handles,
         held[h] # INVALID_PAGE_ID, held'[h] = held[h]
  PROVE  /\ pageTable'[held[h]] = pageTable[held[h]]
         /\ pageId'[pageTable[held[h]]] = held[h]
  <1>1. held[h] \in PageIds /\ pageTable[held[h]] # NoFrame
    BY DEF SInv, TypeOK, PinsAreOutstanding
  <1>2. ASSUME pageTable'[held[h]] = pageTable[held[h]]
        PROVE  /\ pageTable'[held[h]] = pageTable[held[h]]
               /\ pageId'[pageTable[held[h]]] = held[h]
    BY <1>1, <1>2 DEF SInv, TableMatchesFrames
  <1>3. ASSUME NEW f \in Victims, NEW p \in PageIds, NEW d, Install(f, p, d),
               pageTable[p] = NoFrame
        PROVE  pageTable'[held[h]] = pageTable[held[h]]
    <2>1. f \in Frames /\ held[h] # pageId[f] /\ held[h] # p
      BY <1>1, <1>3, TakeFrame
    <2>2. /\ Unmap(f) \in [PageIds -> Frames \cup {NoFrame}]
          /\ Unmap(f)[held[h]] = pageTable[held[h]]
      BY <1>1, <2>1, Absent DEF Unmap, SInv, TypeOK
    <2>3. QED
      BY <1>1, <1>3, <2>1, <2>2 DEF Install
  <1>4. ASSUME NEW k \in Handles, NewPage(k) PROVE pageTable'[held[h]] = pageTable[held[h]]
    <2>1. io.next \in PageIds /\ io.next \notin live
      <3>1. io.next \in Nat /\ io.next < MaxPages
        BY <1>4, DiskFields DEF NewPage, SInv, TypeOK
      <3>2. QED
        BY <3>1, DiskAssumption DEF PageIds, SInv, IdsAreLive
    <2>2. PICK p \in PageIds : p = io.next
      BY <2>1
    <2>3. pageTable[p] = NoFrame
      BY <2>1, <2>2 DEF SInv, IdsAreLive
    <2>4. PICK f \in Victims : Install(f, p, Zero)
      BY <1>4, <2>2 DEF NewPage
    <2>5. QED
      BY <1>3, <2>3, <2>4
  <1>5. ASSUME NEW k \in Handles, NEW p \in live, FetchMiss(k, p)
        PROVE  pageTable'[held[h]] = pageTable[held[h]]
    <2>1. p \in PageIds /\ pageTable[p] = NoFrame
      BY <1>5 DEF FetchMiss, SInv, TypeOK
    <2>2. PICK f \in Victims : Install(f, p, ReadData(WriteBack(f), p))
      BY <1>5 DEF FetchMiss
    <2>3. QED
      BY <1>3, <2>1, <2>2
  <1>6. ASSUME NEW p \in PageIds, DeletePage(p) PROVE pageTable'[held[h]] = pageTable[held[h]]
    <2>1. held[h] # p
      BY <1>6, DeletePageStructure
    <2>2. pageTable' = pageTable \/ pageTable' = [pageTable EXCEPT ![p] = NoFrame]
      BY <1>6 DEF DeletePage
    <2>3. QED
      BY <1>1, <2>1, <2>2 DEF SInv, TypeOK
  <1>7. ASSUME Restart PROVE FALSE
    BY <1>7 DEF Restart
  <1>8. \/ pageTable' = pageTable
        \/ \E k \in Handles : NewPage(k) \/ \E p \in live : FetchMiss(k, p)
        \/ \E p \in PageIds : DeletePage(p)
        \/ Restart
    BY DEF PoolNext, Next, HandOver, NoFrameLeft, FetchHit, ChangeBytes, Release, ReleaseTwice,
           DeletePinned, FlushPage, FlushAllPages, vars
  <1>9. QED
    BY <1>2, <1>4, <1>5, <1>6, <1>7, <1>8

\* A step that is not a holder's write leaves the bytes of a pinned page alone.
LEMMA BytesStay ==
  ASSUME SInv, NEW h \in Handles, held[h] # INVALID_PAGE_ID,
         \/ data' = data
         \/ \E k \in Handles : NewPage(k) \/ \E p \in live : FetchMiss(k, p)
         \/ \E p \in PageIds : DeletePage(p)
  PROVE  data'[pageTable[held[h]]] = data[pageTable[held[h]]]
  <1>1. /\ held[h] \in PageIds /\ pageTable[held[h]] \in Frames
        /\ pageId[pageTable[held[h]]] = held[h]
    BY ResidentFrame DEF SInv, TypeOK, PinsAreOutstanding
  <1>2. ASSUME NEW f \in Victims, NEW p, NEW d, Install(f, p, d)
        PROVE  data'[pageTable[held[h]]] = data[pageTable[held[h]]]
    <2>1. f \in Frames /\ f # pageTable[held[h]]
      BY <1>1, TakeFrame
    <2>2. QED
      BY <1>1, <1>2, <2>1 DEF Install, SInv, TypeOK
  <1>3. ASSUME NEW p \in PageIds, DeletePage(p)
        PROVE  data'[pageTable[held[h]]] = data[pageTable[held[h]]]
    <2>1. held[h] # p
      BY <1>3, DeletePageStructure
    <2>2. pageTable[held[h]] # pageTable[p] \/ pageTable[p] = NoFrame
      BY <1>1, <2>1 DEF SInv, TableMatchesFrames
    <2>3. data' = data \/ (pageTable[p] # NoFrame /\ data' = [data EXCEPT ![pageTable[p]] = Zero])
      BY <1>3 DEF DeletePage, frameVars
    <2>4. QED
      BY <1>1, <2>2, <2>3 DEF SInv, TypeOK
  <1>4. QED
    BY <1>2, <1>3 DEF NewPage, FetchMiss

\* The write of a holder of another page does so too.
LEMMA BytesElsewhere ==
  ASSUME SInv, NEW h \in Handles, held[h] # INVALID_PAGE_ID,
         NEW k \in Handles, NEW d \in Data, ChangeBytes(k, d), held[k] # held[h]
  PROVE  data'[pageTable[held[h]]] = data[pageTable[held[h]]]
  <1>1. /\ held[h] \in PageIds /\ pageTable[held[h]] \in Frames
        /\ pageId[pageTable[held[h]]] = held[h]
    BY ResidentFrame DEF SInv, TypeOK, PinsAreOutstanding
  <1>2. /\ held[k] \in PageIds /\ pageTable[held[k]] \in Frames
        /\ pageId[pageTable[held[k]]] = held[k]
    BY ResidentFrame DEF ChangeBytes, SInv, TypeOK, PinsAreOutstanding
  <1>3. data' = [data EXCEPT ![pageTable[held[k]]] = d]
    BY DEF ChangeBytes
  <1>4. QED
    BY <1>1, <1>2, <1>3 DEF SInv, TypeOK

-----------------------------------------------------------------------------
(* The guards.                                                             *)

\* A guard's frame pointer is where page_table_ has the page its handle holds.
GuardFrames ==
  \A h \in Handles :
    guard[h] # NoGuard => held[h] # INVALID_PAGE_ID /\ guard[h].frame = pageTable[held[h]]

\* A guard around a changed page will unpin it as dirty.
GuardDirty == \A h \in modified : guard[h] # NoGuard => UnpinDirty(guard[h])

ModifiedHold == \A h \in modified : held[h] # INVALID_PAGE_ID

\* rwlatch_: a writer is alone.
Exclusion ==
  \A h, g \in Handles :
    /\ guard[h].at = "in" /\ guard[h].kind = "write"
    /\ guard[g].at = "in" /\ guard[g].kind # "basic" /\ guard[g].frame = guard[h].frame
    => g = h

Guarded ==
  /\ guard \in [Handles -> Guards \cup {NoGuard}]
  /\ GuardFrames /\ GuardDirty /\ ModifiedHold /\ Exclusion

\* The inductive invariant.
GInv == SInv /\ Guarded

-----------------------------------------------------------------------------
LEMMA GuardFields ==
  ASSUME NEW x \in Guards \cup {NoGuard}
  PROVE  /\ x # NoGuard => /\ x \in Guards /\ x.kind \in Kinds /\ x.frame \in Frames
                           /\ x.dirty \in BOOLEAN /\ x.at \in {"in", "unlatched"}
         /\ x = NoGuard => x.kind = "none" /\ x.at = "out"
         /\ x # NoGuard <=> x.kind \in Kinds
         /\ x # NoGuard <=> x.at \in {"in", "unlatched"}
  BY DEF Guards, NoGuard, Kinds

\* What a guard holds on to.
LEMMA GuardedFrame ==
  ASSUME GInv, NEW h \in Handles, guard[h] # NoGuard
  PROVE  /\ held[h] # INVALID_PAGE_ID /\ held[h] \in PageIds
         /\ guard[h].frame = pageTable[held[h]] /\ guard[h].frame \in Frames
         /\ pageId[guard[h].frame] = held[h] /\ pinCount[guard[h].frame] > 0
  <1>1. held[h] # INVALID_PAGE_ID /\ guard[h].frame = pageTable[held[h]]
    BY DEF GInv, Guarded, GuardFrames
  <1>2. held[h] \in PageIds /\ pageTable[held[h]] # NoFrame
    BY <1>1 DEF GInv, SInv, TypeOK, PinsAreOutstanding
  <1>3. SInv
    BY DEF GInv
  <1>4. PICK f \in Frames : /\ f = pageTable[held[h]] /\ pageId[f] = held[h]
                            /\ pinCount[f] = Cardinality(Holders(f))
    BY <1>2, <1>3, ResidentFrame
  <1>5. h \in Holders(f)
    BY <1>4 DEF Holders
  <1>6. Cardinality(Holders(f)) \in Nat /\ Cardinality(Holders(f)) # 0
    BY <1>5, HoldersFinite
  <1>7. pinCount[f] > 0
    BY <1>4, <1>6
  <1>8. QED
    BY <1>1, <1>2, <1>4, <1>7

\* Seen from the pool, a guard's steps are those of a handle.
LEMMA GuardStepIsPoolStep == GInv /\ [GuardNext]_guardVars => [PoolNext]_vars
  <1> SUFFICES ASSUME GInv, [GuardNext]_guardVars PROVE [PoolNext]_vars
    OBVIOUS
  <1>0. guard \in [Handles -> Guards \cup {NoGuard}]
    BY DEF GInv, Guarded
  <1>1. CASE Pool \/ Restart
    BY <1>1 DEF Pool, PoolNext, Next
  <1>2. ASSUME NEW h \in Handles, (\E kind \in Kinds : Construct(h, kind)) \/ Unlatch(h)
        PROVE  UNCHANGED vars
    BY <1>2 DEF Construct, Unlatch
  <1>3. ASSUME NEW h \in Handles, NEW d \in Data, GetDataMut(h, d) PROVE ChangeBytes(h, d)
    <2>1. guard[h] # NoGuard
      BY <1>0, <1>3, GuardFields DEF GetDataMut, Kinds
    <2>2. held[h] # INVALID_PAGE_ID /\ guard[h].frame = pageTable[held[h]]
      BY <2>1, GuardedFrame
    <2>3. QED
      BY <1>3, <2>2 DEF GetDataMut, ChangeBytes
  <1>4. ASSUME NEW h \in Handles, NEW g \in Handles, Move(h, g) PROVE HandOver(h, g)
    <2>1. guard[h] # NoGuard
      BY <1>0, <1>4, GuardFields DEF Move
    <2>2. held[h] # INVALID_PAGE_ID
      BY <2>1, GuardedFrame
    <2>3. QED
      BY <1>4, <2>2 DEF Move, HandOver
  <1>5. ASSUME NEW h \in Handles, Drop(h) PROVE \E dirty \in BOOLEAN : Release(h, dirty)
    <2>1. guard[h] # NoGuard
      BY <1>5 DEF Drop, NoGuard
    <2>2. held[h] # INVALID_PAGE_ID /\ pageId[guard[h].frame] = held[h]
      BY <2>1, GuardedFrame
    <2>3. h \in modified => UnpinDirty(guard[h])
      BY <2>1 DEF GInv, Guarded, GuardDirty
    <2>4. UnpinDirty(guard[h]) \in BOOLEAN
      BY <1>0, <2>1, GuardFields DEF UnpinDirty
    <2>5. Release(h, UnpinDirty(guard[h]))
      BY <1>5, <2>2, <2>3 DEF Drop, Release
    <2>6. QED
      BY <2>4, <2>5
  <1>6. CASE UNCHANGED guardVars
    BY <1>6 DEF guardVars
  <1>7. QED
    BY <1>1, <1>2, <1>3, <1>4, <1>5, <1>6 DEF GuardNext, PoolNext, Next

\* A handle that the pool's step is not about keeps its page.
LEMMA OthersKeep ==
  ASSUME GInv, SInv', [PoolNext]_vars, NEW h \in Handles, guard[h] # NoGuard, held'[h] = held[h]
  PROVE  held'[h] # INVALID_PAGE_ID /\ guard[h].frame = pageTable'[held'[h]]
  <1>1. held[h] # INVALID_PAGE_ID /\ guard[h].frame = pageTable[held[h]]
    BY GuardedFrame
  <1>2. pageTable'[held[h]] = pageTable[held[h]]
    BY <1>1, PointersStep DEF GInv
  <1>3. QED
    BY <1>1, <1>2

-----------------------------------------------------------------------------
(* The guards' part of the invariant, step by step.                        *)

LEMMA PoolGuarded ==
  ASSUME GInv, SInv', Pool, UNCHANGED guard
  PROVE  Guarded'
  <1>1. [PoolNext]_vars
    BY DEF Pool, PoolNext, Next
  <1>2. /\ guard \in [Handles -> Guards \cup {NoGuard}] /\ GuardFrames /\ GuardDirty
        /\ ModifiedHold /\ Exclusion
    BY DEF GInv, Guarded
  <1>3. modified \in SUBSET Handles /\ held \in [Handles -> PageIds \cup {INVALID_PAGE_ID}]
    BY DEF GInv, SInv, TypeOK
  <1>4. PICK k : /\ k \in Handles => guard[k] = NoGuard
                 /\ \A h \in Handles : h # k => held'[h] = held[h] /\ (h \in modified' <=> h \in modified)
                 /\ k \in modified' => held'[k] # INVALID_PAGE_ID
    <2>1. ASSUME NEW k \in Handles, guard[k] = NoGuard, NewPage(k)
          PROVE  /\ \A h \in Handles : h # k => held'[h] = held[h] /\ (h \in modified' <=> h \in modified)
                 /\ k \in modified' => held'[k] # INVALID_PAGE_ID
      <3>1. io.next \in Int /\ io.next # INVALID_PAGE_ID
        BY DiskFields DEF GInv, SInv, TypeOK, INVALID_PAGE_ID
      <3>2. QED
        BY <1>3, <2>1, <3>1 DEF NewPage
    <2>2. ASSUME NEW k \in Handles, guard[k] = NoGuard, NEW p \in live,
                 FetchHit(k, p) \/ FetchMiss(k, p)
          PROVE  /\ \A h \in Handles : h # k => held'[h] = held[h] /\ (h \in modified' <=> h \in modified)
                 /\ k \in modified' => held'[k] # INVALID_PAGE_ID
      <3>1. p # INVALID_PAGE_ID
        BY Absent DEF GInv, SInv, TypeOK
      <3>2. QED
        BY <1>3, <2>2, <3>1 DEF FetchHit, FetchMiss
    <2>3. ASSUME NEW k \in Handles, guard[k] = NoGuard,
                 (\E d \in Data : ChangeBytes(k, d)) \/ (\E dirty \in BOOLEAN : Release(k, dirty))
          PROVE  /\ \A h \in Handles : h # k => held'[h] = held[h] /\ (h \in modified' <=> h \in modified)
                 /\ k \in modified' => held'[k] # INVALID_PAGE_ID
      BY <1>3, <2>3 DEF ChangeBytes, Release
    <2>4. CASE held' = held /\ modified' = modified
      <3>1. PICK k : k \notin Handles
        BY NoSetContainsEverything
      <3>2. QED
        BY <1>3, <2>4, <3>1
    <2>5. \/ held' = held /\ modified' = modified
          \/ \E k \in Handles :
               /\ guard[k] = NoGuard
               /\ \/ NewPage(k)
                  \/ \E p \in live : FetchHit(k, p) \/ FetchMiss(k, p)
                  \/ (\E d \in Data : ChangeBytes(k, d)) \/ (\E dirty \in BOOLEAN : Release(k, dirty))
      BY DEF Pool, NoFrameLeft, ReleaseTwice, DeletePage, DeletePinned, FlushPage, FlushAllPages,
             vars, callerVars
    <2>6. QED
      BY <2>1, <2>2, <2>3, <2>4, <2>5
  <1>5. GuardFrames'
    <2> SUFFICES ASSUME NEW h \in Handles, guard[h] # NoGuard
                 PROVE  held'[h] # INVALID_PAGE_ID /\ guard[h].frame = pageTable'[held'[h]]
      BY DEF GuardFrames
    <2>1. held'[h] = held[h]
      BY <1>4
    <2>2. QED
      BY <1>1, <2>1, OthersKeep
  <1>6. modified' \in SUBSET Handles
    BY DEF SInv, TypeOK
  <1>7. GuardDirty'
    <2> SUFFICES ASSUME NEW h \in modified', guard[h] # NoGuard PROVE UnpinDirty(guard[h])
      BY DEF GuardDirty, UnpinDirty
    <2>1. h \in modified
      BY <1>4, <1>6
    <2>2. QED
      BY <1>2, <2>1 DEF GuardDirty
  <1>8. ModifiedHold'
    BY <1>2, <1>4, <1>6 DEF ModifiedHold
  <1>9. Exclusion'
    BY <1>2 DEF Exclusion
  <1>10. QED
    BY <1>2, <1>5, <1>7, <1>8, <1>9 DEF Guarded

LEMMA ConstructGuarded ==
  ASSUME GInv, NEW h \in Handles, NEW kind \in Kinds, Construct(h, kind)
  PROVE  Guarded'
  <1> DEFINE x == [kind |-> kind, frame |-> pageTable[held[h]], dirty |-> FALSE, at |-> "in"]
  <1>1. /\ guard' = [guard EXCEPT ![h] = x] /\ UNCHANGED <<pageTable, held, modified>>
        /\ held[h] # INVALID_PAGE_ID /\ (h \in modified => kind = "write")
        /\ CanLatch(pageTable[held[h]], kind)
    BY DEF Construct, vars, callerVars
  <1>2. /\ guard \in [Handles -> Guards \cup {NoGuard}] /\ GuardFrames /\ GuardDirty
        /\ ModifiedHold /\ Exclusion
    BY DEF GInv, Guarded
  <1>3. pageTable[held[h]] \in Frames
    <2>1. held[h] \in PageIds /\ pageTable[held[h]] # NoFrame
      BY <1>1 DEF GInv, SInv, TypeOK, PinsAreOutstanding
    <2>2. QED
      BY <2>1 DEF GInv, SInv, TypeOK
  <1>4. x \in Guards
    BY <1>3 DEF Guards
  <1>5. /\ x.kind = kind /\ x.at = "in" /\ x.frame = pageTable[held[h]]
    OBVIOUS
  <1> HIDE DEF x
  <1>6. /\ guard' \in [Handles -> Guards \cup {NoGuard}] /\ guard'[h] = x
        /\ \A g \in Handles : g # h => guard'[g] = guard[g]
    BY <1>1, <1>2, <1>4
  <1>7. GuardFrames'
    BY <1>1, <1>2, <1>5, <1>6 DEF GuardFrames
  <1>8. modified \in SUBSET Handles
    BY DEF GInv, SInv, TypeOK
  <1>9. GuardDirty'
    <2> SUFFICES ASSUME NEW g \in modified, guard'[g] # NoGuard PROVE UnpinDirty(guard'[g])
      BY <1>1 DEF GuardDirty, UnpinDirty
    <2>1. CASE g = h
      BY <1>1, <1>5, <1>6, <2>1 DEF UnpinDirty
    <2>2. CASE g # h
      BY <1>2, <1>6, <1>8, <2>2 DEF GuardDirty
    <2>3. QED
      BY <2>1, <2>2
  <1>10. Exclusion'
    <2> SUFFICES ASSUME NEW i \in Handles, NEW j \in Handles,
                        guard'[i].at = "in", guard'[i].kind = "write",
                        guard'[j].at = "in", guard'[j].kind # "basic",
                        guard'[j].frame = guard'[i].frame
                 PROVE  j = i
      BY DEF Exclusion
    <2>1. \A g \in Handles : guard[g].at = "in" => guard[g].kind \in Kinds
      BY <1>2, GuardFields
    <2>2. ASSUME NEW g \in Handles, guard[g].at = "in", guard[g].frame = pageTable[held[h]]
          PROVE  /\ kind = "write" => guard[g].kind = "basic"
                 /\ kind = "read" => guard[g].kind # "write"
      BY <1>1, <2>1, <2>2 DEF CanLatch, Latched, Kinds
    <2>3. CASE i = h /\ j # h
      BY <1>5, <1>6, <2>2, <2>3
    <2>4. CASE i # h /\ j = h
      BY <1>5, <1>6, <2>2, <2>4 DEF Kinds
    <2>5. CASE i # h /\ j # h
      BY <1>2, <1>6, <2>5 DEF Exclusion
    <2>6. QED
      BY <2>3, <2>4, <2>5
  <1>11. QED
    BY <1>1, <1>2, <1>6, <1>7, <1>9, <1>10 DEF Guarded, ModifiedHold

\* GetDataMut and Unlatch leave the guard where it is.
LEMMA UpdateGuarded ==
  ASSUME GInv, NEW h \in Handles, (\E d \in Data : GetDataMut(h, d)) \/ Unlatch(h)
  PROVE  Guarded'
  <1>1. /\ guard \in [Handles -> Guards \cup {NoGuard}] /\ GuardFrames /\ GuardDirty
        /\ ModifiedHold /\ Exclusion
    BY DEF GInv, Guarded
  <1>2. /\ guard[h] # NoGuard /\ guard[h].at = "in" /\ UNCHANGED <<pageTable, held>>
    BY <1>1, GuardFields DEF GetDataMut, Unlatch, vars, callerVars, Kinds
  <1>3. /\ guard[h].kind \in Kinds /\ guard[h].frame \in Frames /\ guard[h].dirty \in BOOLEAN
        /\ guard[h] \in Guards
    BY <1>1, <1>2, GuardFields
  <1>4. PICK x \in Guards : /\ guard' = [guard EXCEPT ![h] = x]
                            /\ x.kind = guard[h].kind /\ x.frame = guard[h].frame
                            /\ h \in modified' => UnpinDirty(x)
                            /\ modified' \subseteq modified \cup {h}
    <2>1. CASE \E d \in Data : GetDataMut(h, d)
      <3> DEFINE y == [guard[h] EXCEPT !.dirty = guard[h].kind = "basic"]
      <3>1. /\ guard' = [guard EXCEPT ![h] = y] /\ modified' = modified \cup {h}
            /\ guard[h].kind \in {"basic", "write"}
        BY <2>1 DEF GetDataMut
      <3>2. y \in Guards /\ y.kind = guard[h].kind /\ y.frame = guard[h].frame
            /\ y.dirty = (guard[h].kind = "basic")
        BY <1>3 DEF Guards
      <3> HIDE DEF y
      <3>3. UnpinDirty(y)
        BY <3>1, <3>2 DEF UnpinDirty
      <3>4. QED
        BY <3>1, <3>2, <3>3
    <2>2. CASE Unlatch(h)
      <3> DEFINE y == [guard[h] EXCEPT !.at = "unlatched"]
      <3>1. guard' = [guard EXCEPT ![h] = y] /\ modified' = modified
        BY <2>2 DEF Unlatch, vars, callerVars
      <3>2. y \in Guards /\ y.kind = guard[h].kind /\ y.frame = guard[h].frame
            /\ y.dirty = guard[h].dirty
        BY <1>3 DEF Guards
      <3> HIDE DEF y
      <3>3. h \in modified => UnpinDirty(y)
        BY <1>1, <1>2, <3>2 DEF UnpinDirty, GuardDirty
      <3>4. QED
        BY <3>1, <3>2, <3>3
    <2>3. QED
      BY <2>1, <2>2
  <1>5. /\ guard' \in [Handles -> Guards \cup {NoGuard}] /\ guard'[h] = x
        /\ \A g \in Handles : g # h => guard'[g] = guard[g]
    BY <1>1, <1>4
  <1>6. GuardFrames'
    BY <1>1, <1>2, <1>4, <1>5 DEF GuardFrames
  <1>7. modified \in SUBSET Handles
    BY DEF GInv, SInv, TypeOK
  <1>8. GuardDirty'
    <2> SUFFICES ASSUME NEW g \in modified', guard'[g] # NoGuard PROVE UnpinDirty(guard'[g])
      BY DEF GuardDirty, UnpinDirty
    <2>1. CASE g = h
      BY <1>4, <1>5, <2>1
    <2>2. CASE g # h
      BY <1>1, <1>4, <1>5, <1>7, <2>2 DEF GuardDirty
    <2>3. QED
      BY <2>1, <2>2
  <1>9. ModifiedHold'
    BY <1>1, <1>2, <1>4 DEF ModifiedHold, GuardFrames
  <1>10. Exclusion'
    <2>1. \A g \in Handles : guard'[g].kind = guard[g].kind /\ guard'[g].frame = guard[g].frame
                             /\ (guard'[g].at = "in" => guard[g].at = "in")
      BY <1>2, <1>4, <1>5
    <2>2. QED
      BY <1>1, <2>1 DEF Exclusion
  <1>11. QED
    BY <1>5, <1>6, <1>8, <1>9, <1>10 DEF Guarded

LEMMA MoveGuarded ==
  ASSUME GInv, NEW h \in Handles, NEW g \in Handles, Move(h, g)
  PROVE  Guarded'
  <1>1. /\ guard \in [Handles -> Guards \cup {NoGuard}] /\ GuardFrames /\ GuardDirty
        /\ ModifiedHold /\ Exclusion
    BY DEF GInv, Guarded
  <1>2. guard[h] # NoGuard /\ held[g] = INVALID_PAGE_ID /\ pageTable' = pageTable
    BY <1>1, GuardFields DEF Move
  <1>3. held[h] # INVALID_PAGE_ID /\ guard[h].frame = pageTable[held[h]] /\ h # g
    BY <1>2, GuardedFrame
  <1>4. held \in [Handles -> PageIds \cup {INVALID_PAGE_ID}] /\ modified \in SUBSET Handles
    BY DEF GInv, SInv, TypeOK
  <1>5. /\ guard' \in [Handles -> Guards \cup {NoGuard}]
        /\ guard'[g] = guard[h] /\ guard'[h] = NoGuard
        /\ \A k \in Handles : k # g /\ k # h => guard'[k] = guard[k]
    BY <1>1, <1>3 DEF Move
  <1>6. /\ held'[g] = held[h] /\ held'[h] = INVALID_PAGE_ID
        /\ \A k \in Handles : k # g /\ k # h => held'[k] = held[k]
    BY <1>3, <1>4 DEF Move
  <1>7. /\ modified' = IF h \in modified THEN (modified \ {h}) \cup {g} ELSE modified
        /\ g \notin modified
    BY <1>1, <1>2 DEF Move, ModifiedHold
  <1>8. GuardFrames'
    BY <1>1, <1>2, <1>3, <1>5, <1>6 DEF GuardFrames
  <1>9. GuardDirty'
    <2> SUFFICES ASSUME NEW k \in modified', guard'[k] # NoGuard PROVE UnpinDirty(guard'[k])
      BY DEF GuardDirty, UnpinDirty
    <2>1. CASE k = g
      <3>1. h \in modified /\ guard'[k] = guard[h]
        BY <1>5, <1>7, <2>1
      <3>2. QED
        BY <1>1, <1>2, <3>1 DEF GuardDirty
    <2>2. CASE k # g
      <3>1. k \in modified /\ guard'[k] = guard[k]
        BY <1>4, <1>5, <1>7, <2>2
      <3>2. QED
        BY <1>1, <3>1 DEF GuardDirty
    <2>3. QED
      BY <2>1, <2>2
  <1>10. ModifiedHold'
    BY <1>1, <1>3, <1>4, <1>6, <1>7 DEF ModifiedHold
  <1>11. Exclusion'
    <2> DEFINE from(k) == IF k = g THEN h ELSE k
    <2>1. \A k \in Handles : guard'[k].at = "in" => /\ from(k) \in Handles
                                                    /\ guard'[k] = guard[from(k)] /\ k # h
      BY <1>3, <1>5 DEF NoGuard
    <2>2. QED
      BY <1>1, <2>1 DEF Exclusion
  <1>12. QED
    BY <1>5, <1>8, <1>9, <1>10, <1>11 DEF Guarded

LEMMA DropGuarded ==
  ASSUME GInv, NEW h \in Handles, Drop(h)
  PROVE  Guarded'
  <1>1. /\ guard \in [Handles -> Guards \cup {NoGuard}] /\ GuardFrames /\ GuardDirty
        /\ ModifiedHold /\ Exclusion
    BY DEF GInv, Guarded
  <1>2. held \in [Handles -> PageIds \cup {INVALID_PAGE_ID}] /\ modified \in SUBSET Handles
    BY DEF GInv, SInv, TypeOK
  <1>3. /\ guard' \in [Handles -> Guards \cup {NoGuard}] /\ guard'[h] = NoGuard
        /\ \A k \in Handles : k # h => guard'[k] = guard[k] /\ held'[k] = held[k]
        /\ modified' = modified \ {h} /\ pageTable' = pageTable
    BY <1>1, <1>2 DEF Drop
  <1>4. GuardFrames'
    BY <1>1, <1>3 DEF GuardFrames
  <1>5. GuardDirty'
    <2> SUFFICES ASSUME NEW k \in modified', guard'[k] # NoGuard PROVE UnpinDirty(guard'[k])
      BY DEF GuardDirty, UnpinDirty
    <2>1. QED
      BY <1>1, <1>2, <1>3 DEF GuardDirty
  <1>6. ModifiedHold'
    BY <1>1, <1>2, <1>3 DEF ModifiedHold
  <1>7. Exclusion'
    <2>1. \A k \in Handles : guard'[k].at = "in" => guard'[k] = guard[k]
      BY <1>3 DEF NoGuard
    <2>2. QED
      BY <1>1, <2>1 DEF Exclusion
  <1>8. QED
    BY <1>3, <1>4, <1>5, <1>6, <1>7 DEF Guarded

\* Nobody holds anything.
Nobody == guard = [h \in Handles |-> NoGuard] /\ modified = {}

LEMMA NobodyGuarded == Nobody => Guarded
  <1> SUFFICES ASSUME guard = [h \in Handles |-> NoGuard], modified = {} PROVE Guarded
    BY DEF Nobody
  <1>1. \A h \in Handles : guard[h] = NoGuard /\ guard[h].at # "in"
    BY DEF NoGuard
  <1>2. GuardFrames /\ GuardDirty /\ ModifiedHold
    BY <1>1 DEF GuardFrames, GuardDirty, ModifiedHold
  <1>3. Exclusion
    BY <1>1 DEF Exclusion
  <1>4. QED
    BY <1>2, <1>3 DEF Guarded

LEMMA NobodyGuardedNext == Nobody' => Guarded'
  BY NobodyGuarded, PTL

LEMMA GuardInvariant == GuardSpec => []GInv
  <1>1. GuardInit => GInv
    BY InitStructure, NobodyGuarded DEF GuardInit, GInv, Init, Nobody
  <1>2. GInv /\ [GuardNext]_guardVars => GInv'
    <2> SUFFICES ASSUME GInv, [GuardNext]_guardVars PROVE GInv'
      OBVIOUS
    <2>1. SInv'
      BY GuardStepIsPoolStep, StructureStep DEF GInv
    <2>2. CASE Restart /\ guard' = [h \in Handles |-> NoGuard]
      BY <2>2, NobodyGuardedNext, <2>1 DEF Restart, GInv, Nobody
    <2>3. CASE Pool /\ UNCHANGED guard
      BY <2>1, <2>3, PoolGuarded DEF GInv
    <2>4. ASSUME NEW h \in Handles,
                 \/ \E kind \in Kinds : Construct(h, kind)
                 \/ \E d \in Data : GetDataMut(h, d)
                 \/ \E g \in Handles : Move(h, g)
                 \/ Unlatch(h)
                 \/ Drop(h)
          PROVE  GInv'
      BY <2>1, <2>4, ConstructGuarded, UpdateGuarded, MoveGuarded, DropGuarded DEF GInv
    <2>5. CASE UNCHANGED guardVars
      <3>1. UNCHANGED <<guard, held, modified, pageTable>>
        BY <2>5 DEF guardVars, vars, callerVars
      <3>2. Guarded'
        BY <3>1 DEF GInv, Guarded, GuardFrames, GuardDirty, ModifiedHold, Exclusion, UnpinDirty
      <3>3. QED
        BY <2>1, <3>2 DEF GInv
    <2>6. QED
      BY <2>2, <2>3, <2>4, <2>5 DEF GuardNext
  <1>3. QED
    BY <1>1, <1>2, PTL DEF GuardSpec

-----------------------------------------------------------------------------
(* The theorems.                                                           *)

\* page_table_ and the frames' page_id_ stay inverse of each other through
\* every eviction, fetch, delete and restart.
THEOREM TableIsRight == GuardSpec => []TableMatchesFrames
  <1>1. GInv => TableMatchesFrames
    BY DEF GInv, SInv
  <1>2. QED
    BY GuardInvariant, <1>1, PTL

\* No frame is lost or owned twice, and a frame that is in use can be evicted
\* exactly when nobody has it pinned.
THEOREM FramesAreAccounted == GuardSpec => []EveryFrameAccounted
  <1>1. GInv => EveryFrameAccounted
    BY DEF GInv, SInv
  <1>2. QED
    BY GuardInvariant, <1>1, PTL

\* pin_count_ is the number of pointers outstanding, whether a guard or a bare
\* pointer holds them, and a superfluous UnpinPage changes nothing.
THEOREM PinsAreRight == GuardSpec => []PinsAreOutstanding
  <1>1. GInv => PinsAreOutstanding
    BY DEF GInv, SInv
  <1>2. QED
    BY GuardInvariant, <1>1, PTL

\* The frame a guard points to carries the guarded page until Drop has unpinned
\* it, and a write guard excludes every other latching guard of the frame.
THEOREM GuardsAreRight == GuardSpec => []GuardsKeepTheirPage
  <1>1. GInv => GuardsKeepTheirPage
    <2> SUFFICES ASSUME GInv, NEW h \in Handles, guard[h] # NoGuard
                 PROVE  /\ held[h] # INVALID_PAGE_ID
                        /\ pageId[guard[h].frame] = held[h]
                        /\ pinCount[guard[h].frame] > 0
                        /\ guard[h].at = "in" /\ guard[h].kind = "write" =>
                             \A g \in Handles : guard[g].at = "in"
                                /\ guard[g].frame = guard[h].frame
                                /\ guard[g].kind # "basic" => g = h
      BY DEF GuardsKeepTheirPage
    <2>1. /\ held[h] # INVALID_PAGE_ID /\ pageId[guard[h].frame] = held[h]
          /\ pinCount[guard[h].frame] > 0
      BY GuardedFrame
    <2>2. QED
      BY <2>1 DEF GInv, Guarded, Exclusion
  <1>2. QED
    BY GuardInvariant, <1>1, PTL

\* The pointer a caller has stays valid until it is given back.
THEOREM PointersAreValid == GuardSpec => PointersStayValid
  <1>1. GInv /\ GInv' /\ [GuardNext]_guardVars =>
          [\A h \in Handles :
             held[h] # INVALID_PAGE_ID /\ held'[h] = held[h]
             => /\ pageTable'[held[h]] = pageTable[held[h]]
                /\ pageId'[pageTable[held[h]]] = held[h]]_vars
    BY GuardStepIsPoolStep, PointersStep DEF GInv
  <1>2. QED
    BY GuardInvariant, <1>1, PTL DEF GuardSpec, PointersStayValid

\* What a reader sees under its latch does not move unless somebody who holds
\* the page took no latch.
THEOREM ReadersAreSafe == GuardSpec => ReadsAreStable
  <1> DEFINE Stable ==
        \A h \in Handles :
          LET f == guard[h].frame IN
          /\ guard[h].kind = "read" /\ guard[h].at = "in" /\ guard'[h] = guard[h]
          /\ \A g \in Handles : held[g] = held[h] => guard[g].kind \in {"read", "write"}
          => data'[f] = data[f]
  <1>1. GInv /\ GInv' /\ [GuardNext]_guardVars => [Stable]_guardVars
    <2> SUFFICES ASSUME GInv, GInv', [GuardNext]_guardVars, NEW h \in Handles,
                        guard[h].kind = "read", guard[h].at = "in", guard'[h] = guard[h],
                        \A g \in Handles : held[g] = held[h] => guard[g].kind \in {"read", "write"},
                        data'[guard[h].frame] # data[guard[h].frame]
                 PROVE  FALSE
      OBVIOUS
    <2>1. guard \in [Handles -> Guards \cup {NoGuard}] /\ guard[h] # NoGuard
      BY GuardFields DEF GInv, Guarded, NoGuard
    <2>2. /\ held[h] # INVALID_PAGE_ID /\ guard[h].frame = pageTable[held[h]]
          /\ pageId[guard[h].frame] = held[h]
      BY <2>1, GuardedFrame
    <2>3. CASE \E k \in Handles, d \in Data : GetDataMut(k, d)
      <3>1. PICK k \in Handles, d \in Data : GetDataMut(k, d)
        BY <2>3
      <3>2. guard[k].kind \in {"basic", "write"} /\ guard[k].at = "in" /\ guard[k] # NoGuard
        BY <3>1 DEF GetDataMut, NoGuard
      <3>3. /\ guard[k].frame \in Frames /\ pageId[guard[k].frame] = held[k]
        BY <3>2, GuardedFrame
      <3>4. guard[k].frame = guard[h].frame
        BY <2>1, <3>1, <3>3, GuardedFrame DEF GetDataMut, GInv, SInv, TypeOK
      <3>5. held[k] = held[h]
        BY <2>2, <3>3, <3>4
      <3>6. guard[k].kind = "write"
        BY <3>2, <3>5
      <3>7. h = k
        BY <3>2, <3>4, <3>6 DEF GInv, Guarded, Exclusion
      <3>8. QED
        BY <3>6, <3>7
    <2>4. ASSUME \/ data' = data
                 \/ \E k \in Handles : NewPage(k) \/ \E p \in live : FetchMiss(k, p)
                 \/ \E p \in PageIds : DeletePage(p)
          PROVE  FALSE
      BY <2>2, <2>4, BytesStay DEF GInv
    <2>5. ASSUME NEW k \in Handles, NEW d \in Data, guard[k] = NoGuard, ChangeBytes(k, d)
          PROVE  FALSE
      <3>1. held[k] # held[h]
        BY <2>5 DEF NoGuard
      <3>2. QED
        BY <2>2, <2>5, <3>1, BytesElsewhere DEF GInv
    <2>6. CASE Restart /\ guard' = [g \in Handles |-> NoGuard]
      BY <2>1, <2>6
    <2>7. CASE Pool
      <3>1. \/ data' = data
            \/ \E k \in Handles : NewPage(k) \/ \E p \in live : FetchMiss(k, p)
            \/ \E p \in PageIds : DeletePage(p)
            \/ \E k \in Handles, d \in Data : guard[k] = NoGuard /\ ChangeBytes(k, d)
        BY <2>7 DEF Pool, NoFrameLeft, FetchHit, Release, ReleaseTwice, DeletePinned, FlushPage,
                    FlushAllPages, vars, frameVars
      <3>2. QED
        BY <2>4, <2>5, <3>1
    <2>8. ASSUME NEW k \in Handles,
                 \/ \E kind \in Kinds : Construct(k, kind)
                 \/ \E g \in Handles : Move(k, g)
                 \/ Unlatch(k)
                 \/ Drop(k)
                 \/ UNCHANGED guardVars
          PROVE  data' = data
      BY <2>8 DEF Construct, Move, Unlatch, Drop, vars, frameVars, guardVars
    <2>9. CASE UNCHANGED guardVars
      BY <2>4, <2>9 DEF guardVars, vars, frameVars
    <2>10. QED
      BY <2>3, <2>4, <2>6, <2>7, <2>8, <2>9 DEF GuardNext
  <1>2. QED
    BY GuardInvariant, <1>1, PTL DEF GuardSpec, ReadsAreStable

\* Where callers mark new pages dirty, memory and disk agree on every page that
\* is marked clean, so that evicting it loses nothing: reads are never short
\* and the stream never fails.
THEOREM CleanPagesAreSaved ==
  ASSUME InitNewPages
  PROVE  GuardSpec => []CleanIsOnDisk
  <1>1. GuardInit => OnDisk
    BY InitStores DEF GuardInit
  <1>2. GInv /\ GInv' /\ OnDisk /\ [GuardNext]_guardVars => OnDisk'
    BY GuardStepIsPoolStep, StoreStep DEF GInv
  <1>3. OnDisk => CleanIsOnDisk
    BY DEF OnDisk
  <1>4. QED
    BY GuardInvariant, <1>1, <1>2, <1>3, PTL DEF GuardSpec

\* Where callers mark new pages dirty, the pool with its guards is a page store:
\* whatever is evicted, fetched again and flushed, a page keeps what its holders
\* gave it, and a restart takes it back to what the file had.
THEOREM PoolImplementsStore ==
  ASSUME InitNewPages
  PROVE  GuardSpec => ImplementsPageStore
  <1>1. GuardInit => OnDisk /\ Store!Init
    BY InitStores DEF GuardInit
  <1>2. GInv /\ GInv' /\ OnDisk /\ [GuardNext]_guardVars =>
          OnDisk' /\ [Store!Next]_(Store!vars)
    BY GuardStepIsPoolStep, StoreStep DEF GInv
  <1>3. QED
    BY GuardInvariant, <1>1, <1>2, PTL DEF GuardSpec, ImplementsPageStore, Store!Spec
============================================================================
