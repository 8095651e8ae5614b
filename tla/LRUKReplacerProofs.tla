------------------------- MODULE LRUKReplacerProofs -------------------------
(***************************************************************************)
(* The LRU-K replacer for any number of frames, any K and any sequence of  *)
(* calls: its counter is right, it finds a victim whenever there is one,   *)
(* the victim is the one the eviction policy asks for although only the    *)
(* last K accesses are remembered, and it keeps the contract of Replacer.  *)
(***************************************************************************)
EXTENDS LRUKReplacer, FiniteSetTheorems, SequenceTheorems, TLAPS

-----------------------------------------------------------------------------
(* Sets of naturals.                                                       *)

\* A set of timestamps that is not empty has an earliest one.
LEMMA EarliestTime ==
  ASSUME NEW T \in SUBSET Nat, T # {}
  PROVE  \E m \in T : \A n \in T : m <= n
  <1>1. PICK m \in T : \A n \in T : ~(<<n, m>> \in OpToRel(<, Nat))
    BY NatLessThanWellFounded, WFMin
  <1>2. \A n \in T : n \in Nat /\ m \in Nat /\ <<n, m>> \in Nat \X Nat
    OBVIOUS
  <1>3. \A n \in T : ~(n < m)
    BY <1>1, <1>2 DEF OpToRel
  <1>4. m \in Nat
    OBVIOUS
  <1>5. \A n \in T : m <= n
    BY <1>3, <1>4
  <1>6. QED
    BY <1>5

-----------------------------------------------------------------------------
(* The inductive invariant.                                                *)

\* Two sequences agree from their ends as far as the first one goes.
IsSuffix(h, a) ==
  \A i \in 1 .. Len(h), j \in 1 .. Len(a) : Len(h) - i = Len(a) - j => h[i] = a[j]

\* What history_ keeps of the accesses of f: all of them while there are at
\* most K, and the last K of them from then on.
HistoryIsRecent ==
  \A f \in Frames :
    LET h == history[f]  a == accesses[f] IN
    /\ Len(h) = IF Len(a) <= K THEN Len(a) ELSE K
    /\ IsSuffix(h, a)

\* Every timestamp that is kept lies in the past.
TimesArePast == \A f \in Frames : \A i \in 1 .. Len(history[f]) : history[f][i] < now

LInv == TypeOK /\ SizeCountsEvictable /\ HistoryIsRecent /\ TimesArePast

LEMMA RecentAppend ==
  ASSUME NEW h \in Seq(Nat), Len(h) <= K, NEW n \in Nat, NEW a, a = Append(h, n)
  PROVE  /\ Recent(a) \in Seq(Nat)
         /\ Recent(a) # <<>>
         /\ Len(Recent(a)) = IF Len(h) + 1 <= K THEN Len(h) + 1 ELSE K
         /\ IsSuffix(Recent(a), a)
  <1>1. /\ a \in Seq(Nat) /\ a # <<>> /\ Len(a) = Len(h) + 1
        /\ Len(h) \in Nat /\ K \in Nat \ {0}
    BY LRUKAssumption
  <1>2. /\ Tail(a) \in Seq(Nat) /\ Len(Tail(a)) = Len(h)
        /\ \A i \in 1 .. Len(h) : Tail(a)[i] = a[i + 1]
    <2>1. /\ Tail(a) \in Seq(Nat) /\ Len(Tail(a)) = Len(a) - 1
          /\ \A i \in 1 .. Len(Tail(a)) : Tail(a)[i] = a[i + 1]
      BY <1>1, HeadTailProperties
    <2>2. Len(a) - 1 = Len(h)
      BY <1>1
    <2>3. QED
      BY <2>1, <2>2
  <1>3. CASE Len(a) > K
    <2>1. Recent(a) = Tail(a) /\ Len(h) = K
      BY <1>1, <1>3 DEF Recent
    <2>2. ASSUME NEW i \in 1 .. Len(h), NEW j \in 1 .. Len(a), Len(h) - i = Len(a) - j
          PROVE  Tail(a)[i] = a[j]
      <3>1. j = i + 1
        BY <2>2, <1>1
      <3>2. QED
        BY <3>1, <1>2
    <2>3. IsSuffix(Tail(a), a)
      BY <2>2, <1>2, SMTT(60) DEF IsSuffix
    <2>4. Tail(a) # <<>>
      BY <2>1, <1>1, <1>2
    <2>5. Len(h) = IF Len(h) + 1 <= K THEN Len(h) + 1 ELSE K
      BY <2>1, <1>1
    <2>6. QED
      BY <2>1, <2>3, <2>4, <2>5, <1>2
  <1>4. CASE ~(Len(a) > K)
    <2>1. Recent(a) = a
      BY <1>4 DEF Recent
    <2>2. ASSUME NEW i \in 1 .. Len(a), NEW j \in 1 .. Len(a), Len(a) - i = Len(a) - j
          PROVE  a[i] = a[j]
      <3>1. i = j
        BY <2>2, <1>1
      <3>2. QED
        BY <3>1
    <2>3. IsSuffix(a, a)
      BY <2>2 DEF IsSuffix
    <2>4. QED
      BY <2>1, <2>3, <1>1, <1>4
  <1>5. QED
    BY <1>3, <1>4

-----------------------------------------------------------------------------
LEMMA LInit == Init => LInv
  <1> SUFFICES ASSUME Init PROVE LInv
    OBVIOUS
  <1>1. TypeOK
    BY DEF Init, TypeOK
  <1>2. SizeCountsEvictable
    BY FS_EmptySet DEF Init, SizeCountsEvictable, Tracked
  <1>3. HistoryIsRecent /\ TimesArePast
    BY LRUKAssumption DEF Init, HistoryIsRecent, IsSuffix, TimesArePast
  <1>4. QED
    BY <1>1, <1>2, <1>3 DEF LInv

LEMMA RecordAccessKeeps ==
  ASSUME LInv, NEW f \in Frames, RecordAccess(f)
  PROVE  LInv'
  <1> DEFINE h == history[f]
             a == accesses[f]
             b == Append(h, now)
             r == Recent(b)
  <1>1. /\ h \in Seq(Nat) /\ a \in Seq(Nat) /\ now \in Nat /\ K \in Nat \ {0}
        /\ Len(h) \in Nat /\ Len(a) \in Nat
    BY LRUKAssumption DEF LInv, TypeOK
  <1>2. /\ Len(h) = IF Len(a) <= K THEN Len(a) ELSE K
        /\ IsSuffix(h, a)
    BY DEF LInv, HistoryIsRecent
  <1>3. Len(h) <= K
    BY <1>1, <1>2
  <1>4. /\ r \in Seq(Nat) /\ r # <<>> /\ IsSuffix(r, b)
        /\ Len(r) = IF Len(h) + 1 <= K THEN Len(h) + 1 ELSE K
    BY <1>1, <1>3, RecentAppend
  <1>5. /\ history' = [history EXCEPT ![f] = r]
        /\ accesses' = [accesses EXCEPT ![f] = Append(a, now)]
        /\ now' = now + 1 /\ evictable' = evictable /\ currSize' = currSize
    BY DEF RecordAccess
  <1>6. /\ Len(r) \in Nat /\ Len(r) <= Len(b) /\ Len(b) = Len(h) + 1
        /\ \A i \in 1 .. Len(h) : b[i] = h[i] /\ b[Len(h) + 1] = now
    BY <1>1, <1>4
  <1>7. /\ history'[f] = r /\ accesses'[f] = Append(a, now)
        /\ \A g \in Frames : g # f => history'[g] = history[g] /\ accesses'[g] = accesses[g]
    BY <1>5 DEF LInv, TypeOK
  <1> HIDE DEF b, r
  <1>13. Len(b) = Len(h) + 1 /\ Len(h) \in Nat /\ Len(r) \in Nat
    BY <1>1, <1>6
  <1>8. TypeOK'
    BY <1>1, <1>4, <1>5 DEF LInv, TypeOK
  <1>9. SizeCountsEvictable'
    BY <1>4, <1>5 DEF LInv, TypeOK, SizeCountsEvictable, Tracked
  <1>10. HistoryIsRecent'
    <2> DEFINE c == Append(a, now)
    <2>1. /\ Len(c) = Len(a) + 1 /\ c[Len(a) + 1] = now
          /\ \A j \in 1 .. Len(a) : c[j] = a[j]
      BY <1>1
    <2>2. Len(r) = IF Len(c) <= K THEN Len(c) ELSE K
      BY <2>1, <1>1, <1>2, <1>4
    <2> HIDE DEF c
    <2>3. ASSUME NEW i \in 1 .. Len(r), NEW k \in 1 .. Len(c), Len(r) - i = Len(c) - k
          PROVE  r[i] = c[k]
      <3>1. PICK j \in 1 .. Len(b) : Len(r) - i = Len(b) - j
        <4>1. Len(b) - Len(r) + i \in 1 .. Len(b)
          BY <1>1, <1>6
        <4>2. Len(r) - i = Len(b) - (Len(b) - Len(r) + i)
          BY <1>1, <1>6
        <4>3. QED
          BY <4>1, <4>2
      <3>2. r[i] = b[j]
        BY <3>1, <1>4 DEF IsSuffix
      <3>3. CASE j = Len(h) + 1
        <4>1. k = Len(a) + 1
          BY <2>1, <2>3, <3>1, <3>3, <1>1, <1>6
        <4>2. b[j] = now
          BY <3>3, <1>1, <1>6 DEF b
        <4>3. QED
          BY <4>1, <4>2, <3>2, <2>1
      <3>4. CASE j \in 1 .. Len(h)
        <4>1. k \in 1 .. Len(a) /\ Len(h) - j = Len(a) - k
          <5>1. Len(c) = Len(a) + 1 /\ Len(h) <= Len(a) /\ Len(a) \in Nat
            BY <2>1, <1>1, <1>2
          <5>2. Len(b) - j = Len(c) - k
            BY <2>3, <3>1
          <5>3. j \in Int /\ k \in Int
            BY <5>1, <3>4, <1>13
          <5>4. j <= Len(h) /\ j >= 1
            BY <3>4, <1>13
          <5>5. QED
            BY <5>1, <5>2, <5>3, <5>4, <1>13, SMTT(60)
        <4>2. h[j] = a[k]
          BY <4>1, <3>4, <1>2 DEF IsSuffix
        <4>3. b[j] = h[j] /\ c[k] = a[k]
          BY <4>1, <3>4, <1>6, <2>1
        <4>4. QED
          BY <4>2, <4>3, <3>2
      <3>5. QED
        BY <3>1, <3>3, <3>4, <1>1, <1>6, SMTT(60)
    <2>4. IsSuffix(r, c)
      BY <2>3 DEF IsSuffix
    <2>5. QED
      BY <2>2, <2>4, <1>7 DEF LInv, HistoryIsRecent, c
  <1>11. TimesArePast'
    <2>1. ASSUME NEW i \in 1 .. Len(r) PROVE r[i] < now + 1
      <3>1. PICK j \in 1 .. Len(b) : Len(r) - i = Len(b) - j
        <4>1. Len(b) - Len(r) + i \in 1 .. Len(b)
          BY <1>1, <1>6
        <4>2. Len(r) - i = Len(b) - (Len(b) - Len(r) + i)
          BY <1>1, <1>6
        <4>3. QED
          BY <4>1, <4>2
      <3>2. r[i] = b[j]
        BY <3>1, <1>4 DEF IsSuffix
      <3>3. CASE j = Len(h) + 1
        <4>1. b[j] = now
          BY <3>3, <1>1 DEF b
        <4>2. QED
          BY <3>2, <4>1, <1>1
      <3>4. CASE j \in 1 .. Len(h)
        <4>1. h[j] < now /\ h[j] \in Nat
          BY <3>4, <1>1, SMTT(60) DEF LInv, TimesArePast
        <4>2. QED
          BY <3>2, <3>4, <4>1, <1>1, <1>6
      <3>5. j = Len(h) + 1 \/ j \in 1 .. Len(h)
        BY <3>1, <1>13
      <3>6. QED
        BY <3>3, <3>4, <3>5
    <2>2. \A g \in Frames : \A i \in 1 .. Len(history[g]) :
            history[g][i] < now /\ history[g][i] \in Nat
      BY DEF LInv, TimesArePast, TypeOK
    <2>3. QED
      BY <2>1, <2>2, <1>1, <1>5, <1>7 DEF TimesArePast
  <1>12. QED
    BY <1>8, <1>9, <1>10, <1>11 DEF LInv

LEMMA EvictableIsFinite ==
  ASSUME TypeOK
  PROVE  IsFiniteSet(evictable)
  BY LRUKAssumption, FS_Subset DEF TypeOK

LEMMA SetEvictableKeeps ==
  ASSUME LInv, NEW f \in Frames, NEW set \in BOOLEAN, SetEvictable(f, set)
  PROVE  LInv'
  <1>1. CASE f \notin Tracked
    BY <1>1 DEF SetEvictable, vars, LInv, TypeOK, SizeCountsEvictable, Tracked,
                HistoryIsRecent, TimesArePast
  <1>2. CASE f \in Tracked
    <2>1. /\ history' = history /\ now' = now /\ accesses' = accesses
          /\ evictable' = IF set THEN evictable \cup {f} ELSE evictable \ {f}
          /\ currSize' = IF f \in evictable /\ ~set THEN currSize - 1
                         ELSE IF f \notin evictable /\ set THEN currSize + 1
                         ELSE currSize
      BY <1>2 DEF SetEvictable
    <2>2. /\ IsFiniteSet(evictable) /\ currSize \in Nat
          /\ currSize = Cardinality(evictable) /\ evictable \subseteq Tracked
      BY EvictableIsFinite DEF LInv, SizeCountsEvictable, TypeOK
    <2>3. /\ Cardinality(evictable \cup {f}) =
               IF f \in evictable THEN currSize ELSE currSize + 1
          /\ Cardinality(evictable \ {f}) =
               IF f \in evictable THEN currSize - 1 ELSE currSize
          /\ IsFiniteSet(evictable \ {f})
      BY <2>2, FS_AddElement, FS_RemoveElement
    <2>4. Cardinality(evictable \ {f}) \in Nat
      BY <2>3, FS_CardinalityType
    <2>5. currSize' = Cardinality(evictable') /\ currSize' \in Nat
      <3>1. CASE set
        BY <3>1, <2>1, <2>2, <2>3
      <3>2. CASE ~set
        BY <3>2, <2>1, <2>2, <2>3, <2>4
      <3>3. QED
        BY <3>1, <3>2
    <2>6. evictable' \subseteq Tracked /\ Tracked' = Tracked
      BY <1>2, <2>1, <2>2 DEF Tracked
    <2>7. evictable' \in SUBSET Frames
      BY <2>6 DEF Tracked
    <2>8. QED
      BY <2>1, <2>5, <2>6, <2>7 DEF LInv, TypeOK, SizeCountsEvictable,
                                    HistoryIsRecent, TimesArePast
  <1>3. QED
    BY <1>1, <1>2

LEMMA EraseKeeps ==
  ASSUME LInv, NEW f \in evictable, Erase(f)
  PROVE  LInv'
  <1>1. /\ history' = [history EXCEPT ![f] = <<>>]
        /\ accesses' = [accesses EXCEPT ![f] = <<>>]
        /\ evictable' = evictable \ {f} /\ currSize' = currSize - 1 /\ now' = now
    BY DEF Erase
  <1>2. /\ IsFiniteSet(evictable) /\ currSize = Cardinality(evictable)
        /\ evictable \subseteq Tracked /\ f \in Frames
    BY EvictableIsFinite DEF LInv, SizeCountsEvictable, TypeOK
  <1>3. Cardinality(evictable \ {f}) = currSize - 1 /\ IsFiniteSet(evictable \ {f})
    BY <1>2, FS_RemoveElement
  <1>4. Cardinality(evictable \ {f}) \in Nat
    BY <1>3, FS_CardinalityType
  <1>5. TypeOK'
    BY <1>1, <1>2, <1>3, <1>4 DEF LInv, TypeOK
  <1>6. SizeCountsEvictable'
    BY <1>1, <1>2, <1>3 DEF LInv, TypeOK, SizeCountsEvictable, Tracked
  <1>7. HistoryIsRecent' /\ TimesArePast'
    <2>1. history'[f] = <<>> /\ accesses'[f] = <<>>
      BY <1>1, <1>2 DEF LInv, TypeOK
    <2>2. \A g \in Frames : g # f => history'[g] = history[g] /\ accesses'[g] = accesses[g]
      BY <1>1 DEF LInv, TypeOK
    <2>3. Len(<<>>) = 0 /\ Len(<<>>) <= K /\ IsSuffix(<<>>, <<>>)
      BY LRUKAssumption DEF IsSuffix
    <2>4. HistoryIsRecent'
      BY <2>1, <2>2, <2>3 DEF LInv, HistoryIsRecent
    <2>5. QED
      BY <2>1, <2>2, <2>3, <2>4, <1>1 DEF LInv, TimesArePast
  <1>8. QED
    BY <1>5, <1>6, <1>7 DEF LInv

LEMMA VictimsAreEvictable == Victims \subseteq evictable
  BY DEF Victims, InfiniteFrames

LEMMA LStep == LInv /\ [Next]_vars => LInv'
  <1> SUFFICES ASSUME LInv, [Next]_vars PROVE LInv'
    OBVIOUS
  <1>1. ASSUME NEW f \in Frames, RecordAccess(f) PROVE LInv'
    BY <1>1, RecordAccessKeeps
  <1>2. ASSUME NEW f \in Frames, NEW set \in BOOLEAN, SetEvictable(f, set) PROVE LInv'
    BY <1>2, SetEvictableKeeps
  <1>3. ASSUME NEW f \in Frames, Evict(f) \/ Remove(f) PROVE LInv'
    BY <1>3, EraseKeeps, VictimsAreEvictable DEF Evict, Remove
  <1>4. ASSUME UNCHANGED vars PROVE LInv'
    BY <1>4 DEF vars, LInv, TypeOK, SizeCountsEvictable, Tracked, HistoryIsRecent, TimesArePast
  <1>5. QED
    BY <1>1, <1>2, <1>3, <1>4 DEF Next, EvictFails, RemoveRefused

LEMMA LInvariant == Spec => []LInv
  BY LInit, LStep, PTL DEF Spec

-----------------------------------------------------------------------------
\* curr_size_ counts the evictable entries, so Size() and the test with which
\* Evict begins are right after any sequence of calls.
THEOREM SizeIsRight == Spec => []SizeCountsEvictable
  <1>1. LInv => SizeCountsEvictable
    BY DEF LInv
  <1>2. QED
    BY LInvariant, <1>1, PTL

\* An evictable frame has an access, and its oldest kept one is in the past.
LEMMA OldestKept ==
  ASSUME LInv, NEW f \in evictable
  PROVE  /\ Len(history[f]) \in Nat /\ Len(accesses[f]) \in Nat /\ Len(history[f]) >= 1
         /\ history[f][1] \in Nat /\ history[f][1] < now
         /\ Len(history[f]) = IF Len(accesses[f]) <= K THEN Len(accesses[f]) ELSE K
         /\ \A j \in 1 .. Len(accesses[f]) :
              Len(history[f]) - 1 = Len(accesses[f]) - j => history[f][1] = accesses[f][j]
  <1>1. /\ f \in Frames /\ history[f] \in Seq(Nat) /\ history[f] # <<>>
        /\ accesses[f] \in Seq(Nat)
    BY DEF LInv, TypeOK, SizeCountsEvictable, Tracked
  <1>2. 1 \in 1 .. Len(history[f])
    BY <1>1
  <1>3. history[f][1] < now /\ history[f][1] \in Nat
    BY <1>1, <1>2 DEF LInv, TimesArePast
  <1>4. /\ Len(history[f]) = IF Len(accesses[f]) <= K THEN Len(accesses[f]) ELSE K
        /\ IsSuffix(history[f], accesses[f])
    BY <1>1 DEF LInv, HistoryIsRecent
  <1>5. QED
    BY <1>1, <1>2, <1>3, <1>4 DEF IsSuffix

\* The loop of Evict ends with a victim whenever an entry is evictable.
THEOREM EvictSucceeds == Spec => []EvictFindsVictim
  <1>1. ASSUME LInv PROVE EvictFindsVictim
    <2> SUFFICES ASSUME evictable # {} PROVE Victims # {}
      BY DEF EvictFindsVictim
    <2>1. ASSUME NEW S \in SUBSET evictable, S # {}
          PROVE  \E f \in S : \A g \in S : history[f][1] <= history[g][1]
      <3> DEFINE T == {history[f][1] : f \in S}
      <3>1. T \in SUBSET Nat /\ T # {}
        BY <1>1, <2>1, OldestKept
      <3>2. PICK m \in T : \A n \in T : m <= n
        BY <3>1, EarliestTime
      <3>3. QED
        BY <3>2
    <2>2. CASE InfiniteFrames # {}
      <3>1. InfiniteFrames \in SUBSET evictable
        BY DEF InfiniteFrames
      <3>2. QED
        BY <2>1, <2>2, <3>1 DEF Victims
    <2>3. CASE InfiniteFrames = {}
      <3>1. PICK f \in evictable : \A g \in evictable : history[f][1] <= history[g][1]
        BY <2>1
      <3>2. now \in Nat /\ \A g \in evictable : history[g][1] \in Nat /\ history[g][1] < now
        BY <1>1, OldestKept DEF LInv, TypeOK
      <3>3. KDistance(f) > 0 /\ \A g \in evictable : KDistance(f) >= KDistance(g)
        BY <3>1, <3>2 DEF KDistance
      <3>4. QED
        BY <2>3, <3>3 DEF Victims
    <2>4. QED
      BY <2>2, <2>3
  <1>2. QED
    BY LInvariant, <1>1, PTL

\* The victim is the one the policy asks for: although only K timestamps are
\* kept of a frame, no evictable frame has priority by the full access log.
THEOREM VictimIsRight == Spec => []VictimHasLargestKDistance
  <1>1. ASSUME LInv PROVE VictimHasLargestKDistance
    <2> SUFFICES ASSUME NEW f \in Victims, NEW g \in evictable PROVE Precedes(f, g)
      BY DEF VictimHasLargestKDistance
    <2>1. f \in evictable /\ K \in Nat \ {0}
      BY VictimsAreEvictable, LRUKAssumption
    <2>2. ASSUME NEW e \in evictable
          PROVE  /\ e \in InfiniteFrames <=> Len(accesses[e]) < K
                 /\ Len(accesses[e]) < K => history[e][1] = accesses[e][1]
                 /\ ~(Len(accesses[e]) < K) => history[e][1] = KthLast(e)
      <3> DEFINE n == Len(accesses[e])
                 m == Len(history[e])
      <3>1. /\ n \in Nat /\ m \in Nat /\ m >= 1 /\ m = IF n <= K THEN n ELSE K
            /\ \A j \in 1 .. n : m - 1 = n - j => history[e][1] = accesses[e][j]
        BY <1>1, OldestKept
      <3>2. m < K <=> n < K
        BY <3>1, <2>1
      <3>3. n < K => history[e][1] = accesses[e][1]
        <4>1. n < K => 1 \in 1 .. n /\ m - 1 = n - 1
          BY <3>1, <2>1
        <4>2. QED
          BY <3>1, <4>1
      <3>4. ~(n < K) => history[e][1] = KthLast(e)
        <4>1. ~(n < K) => n - K + 1 \in 1 .. n /\ m - 1 = n - (n - K + 1)
          BY <3>1, <2>1
        <4>2. QED
          BY <3>1, <4>1 DEF KthLast
      <3>5. QED
        BY <3>2, <3>3, <3>4 DEF InfiniteFrames
    <2>6. CASE InfiniteFrames # {}
      <3>1. f \in InfiniteFrames /\ \A e \in InfiniteFrames : history[f][1] <= history[e][1]
        BY <2>6 DEF Victims
      <3>2. QED
        BY <3>1, <2>1, <2>2 DEF Precedes
    <2>7. CASE InfiniteFrames = {}
      <3>1. KDistance(f) >= KDistance(g)
        BY <2>7 DEF Victims
      <3>2. now \in Nat /\ history[f][1] \in Nat /\ history[g][1] \in Nat
        BY <1>1, <2>1, OldestKept DEF LInv, TypeOK
      <3>3. history[f][1] <= history[g][1]
        BY <3>1, <3>2 DEF KDistance
      <3>4. Len(accesses[g]) >= K /\ ~(Len(accesses[f]) < K)
        <4>1. ~(Len(accesses[g]) < K) /\ ~(Len(accesses[f]) < K)
          BY <2>1, <2>2, <2>7
        <4>2. Len(accesses[g]) \in Nat
          BY <1>1, OldestKept
        <4>3. QED
          BY <4>1, <4>2, <2>1
      <3>5. history[f][1] = KthLast(f) /\ history[g][1] = KthLast(g)
        BY <3>4, <2>1, <2>2
      <3>6. QED
        BY <3>3, <3>4, <3>5 DEF Precedes
    <2>8. QED
      BY <2>6, <2>7
  <1>2. QED
    BY LInvariant, <1>1, PTL

-----------------------------------------------------------------------------
(* The contract of Replacer.                                               *)

LEMMA AbstractInit == Init => Abstract!Init
  BY DEF Init, Abstract!Init, Abstract!Empty, Tracked

LEMMA AbstractStep ==
  LInv /\ [Next]_vars =>
    [Abstract!Next]_([tracked |-> Tracked, evictable |-> evictable])
  <1> SUFFICES ASSUME LInv, [Next]_vars
               PROVE  [Abstract!Next]_([tracked |-> Tracked, evictable |-> evictable])
    OBVIOUS
  <1>1. ASSUME NEW f \in Frames, RecordAccess(f) PROVE Abstract!Record(f)
    <2>1. history[f] \in Seq(Nat) /\ Len(history[f]) <= K /\ now \in Nat
      <3>1. history[f] \in Seq(Nat) /\ accesses[f] \in Seq(Nat) /\ now \in Nat
        BY DEF LInv, TypeOK
      <3>2. Len(history[f]) = IF Len(accesses[f]) <= K THEN Len(accesses[f]) ELSE K
        BY DEF LInv, HistoryIsRecent
      <3>3. QED
        BY <3>1, <3>2, LRUKAssumption
    <2>2. Recent(Append(history[f], now)) # <<>>
      BY <2>1, RecentAppend
    <2>3. history' = [history EXCEPT ![f] = Recent(Append(history[f], now))]
      BY <1>1 DEF RecordAccess
    <2>4. Tracked' = Tracked \cup {f}
      BY <2>2, <2>3 DEF Tracked, LInv, TypeOK
    <2>5. evictable' = evictable
      BY <1>1 DEF RecordAccess
    <2>6. QED
      BY <2>4, <2>5 DEF Abstract!Record, Abstract!RecordAccess
  <1>2. ASSUME NEW f \in Frames, NEW set \in BOOLEAN, SetEvictable(f, set)
        PROVE  Abstract!Mark(f, set)
    <2>1. Tracked' = Tracked
      BY <1>2 DEF SetEvictable, Tracked, vars
    <2>2. evictable' = IF f \notin Tracked THEN evictable
                       ELSE IF set THEN evictable \cup {f} ELSE evictable \ {f}
      BY <1>2 DEF SetEvictable, vars
    <2>3. QED
      BY <2>1, <2>2 DEF Abstract!Mark, Abstract!SetEvictable
  <1>3. ASSUME NEW f \in evictable, Erase(f)
        PROVE  Abstract!Evict(f) /\ Abstract!Remove(f)
    <2>1. Tracked' = Tracked \ {f} /\ evictable' = evictable \ {f}
      BY <1>3 DEF Erase, Tracked, LInv, TypeOK
    <2>2. QED
      BY <2>1 DEF Abstract!Evict, Abstract!Remove, Abstract!Erase
  <1>4. ASSUME UNCHANGED vars
        PROVE  UNCHANGED [tracked |-> Tracked, evictable |-> evictable]
    BY <1>4 DEF vars, Tracked
  <1>5. QED
    BY <1>1, <1>2, <1>3, <1>4, VictimsAreEvictable
    DEF Next, Evict, Remove, EvictFails, RemoveRefused, Abstract!Next

\* The LRU-K replacer keeps the contract the buffer pool is specified with.
THEOREM ReplacerImplemented == Spec => ImplementsReplacer
  BY LInvariant, AbstractInit, AbstractStep, PTL
  DEF Spec, ImplementsReplacer, Abstract!Spec
=============================================================================
