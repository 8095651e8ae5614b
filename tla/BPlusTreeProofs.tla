-------------------------- MODULE BPlusTreeProofs --------------------------
(***************************************************************************)
(* The index while it grows, for any keys, values and maximum sizes, any   *)
(* number of pages and any number of splits: it stays a balanced search    *)
(* tree whose parent pointers are right, which leaks nothing, finds what   *)
(* it holds and is, for its callers, a map.                                *)
(*                                                                         *)
(* Growing says for which instances this is proved: nothing is removed,    *)
(* since a merge of internal nodes leaves stale parent pointers, and the   *)
(* other users of the pool leave three frames, since a split that gets a   *)
(* frame for its new node and none for a new root loses half of the node.  *)
(***************************************************************************)
EXTENDS BPlusTree, FiniteSetTheorems, SequenceTheorems, NaturalsInduction, TLAPS

-----------------------------------------------------------------------------
(* Numbers and recursion.                                                  *)

LEMMA LeastOf ==
  ASSUME NEW T \in SUBSET Nat, T # {}
  PROVE  \E m \in T : \A n \in T : m <= n
  <1>1. PICK m \in T : \A n \in T : ~(<<n, m>> \in OpToRel(<, Nat))
    BY NatLessThanWellFounded, WFMin
  <1>2. m \in Nat /\ \A n \in T : n \in Nat
    OBVIOUS
  <1>3. \A n \in T : ~(n < m)
    BY <1>1, <1>2 DEF OpToRel
  <1>4. QED
    BY <1>2, <1>3

LeadsDown(D, top, down, stop, next) ==
  /\ top \in Nat /\ down \in [D -> 0 .. top]
  /\ \A x \in D : x \notin stop => next[x] \in D /\ down[next[x]] < down[x]

Definable(D, stop, val, next) ==
  \E f : f = [x \in D |-> IF x \in stop THEN val[x] ELSE f[next[x]]]

\* Where every step leads down, a function can be defined by what it is one
\* step further on.
LEMMA Recursion ==
  ASSUME NEW D, NEW top, NEW down, NEW stop, NEW val, NEW next,
         LeadsDown(D, top, down, stop, next)
  PROVE  Definable(D, stop, val, next)
  <1> USE DEF LeadsDown
  <1> DEFINE Upto(n) == {x \in D : down[x] < n}
             Good(n) == \E f : \A x \in Upto(n) :
                          f[x] = IF x \in stop THEN val[x] ELSE f[next[x]]
             Bad == {n \in Nat : ~Good(n)}
  <1>1. Bad = {}
    <2>1. SUFFICES ASSUME Bad # {} PROVE FALSE
      OBVIOUS
    <2>2. PICK n \in Bad : \A m \in Bad : n <= m
      BY <2>1, LeastOf
    <2>3. n # 0
      <3>1. \A x \in D : down[x] \in Nat
        OBVIOUS
      <3>2. Upto(0) = {}
        BY <3>1
      <3>3. Good(0)
        BY <3>2
      <3>4. QED
        BY <3>3
    <2>4. n - 1 \in Nat /\ n \in Nat /\ ~(n <= n - 1)
      BY <2>3
    <2>5. Good(n - 1)
      BY <2>2, <2>4
    <2>6. PICK f : \A x \in Upto(n - 1) : f[x] = IF x \in stop THEN val[x] ELSE f[next[x]]
      BY <2>5
    <2> DEFINE g == [x \in D |-> IF x \in Upto(n - 1) THEN f[x]
                                 ELSE IF x \in stop THEN val[x] ELSE f[next[x]]]
    <2>7. ASSUME NEW x \in Upto(n) PROVE g[x] = IF x \in stop THEN val[x] ELSE g[next[x]]
      <3>1. x \in D /\ down[x] \in Nat /\ down[x] < n
        OBVIOUS
      <3>2. g[x] = IF x \in stop THEN val[x] ELSE f[next[x]]
        BY <2>6, <3>1
      <3>3. ASSUME x \notin stop PROVE next[x] \in Upto(n - 1)
        <4>1. next[x] \in D /\ down[next[x]] < down[x]
          BY <3>1, <3>3
        <4>2. down[next[x]] \in Nat
          BY <4>1
        <4>3. down[next[x]] < n - 1
          BY <2>4, <3>1, <4>1, <4>2
        <4>4. QED
          BY <4>1, <4>3
      <3>4. x \notin stop => g[next[x]] = f[next[x]]
        BY <3>3
      <3>5. QED
        BY <3>2, <3>4
    <2>8. Good(n)
      BY <2>7
    <2>9. QED
      BY <2>2, <2>8
  <1>2. Good(top + 1)
    <2>1. top + 1 \in Nat
      OBVIOUS
    <2> HIDE DEF Good
    <2>2. QED
      BY <1>1, <2>1
  <1>3. PICK f : \A x \in Upto(top + 1) : f[x] = IF x \in stop THEN val[x] ELSE f[next[x]]
    BY <1>2
  <1>4. \A x \in D : x \in Upto(top + 1)
    <2>1. \A m \in 0 .. top : m < top + 1
      OBVIOUS
    <2>2. QED
      BY <2>1
  <1>5. \A x \in D : f[x] = IF x \in stop THEN val[x] ELSE f[next[x]]
    BY <1>3, <1>4
  <1> DEFINE g == [x \in D |-> f[x]]
  <1>6. \A x \in D : g[x] = IF x \in stop THEN val[x] ELSE g[next[x]]
    BY <1>5
  <1>7. g = [x \in D |-> g[x]]
    OBVIOUS
  <1> HIDE DEF g
  <1>8. g = [x \in D |-> IF x \in stop THEN val[x] ELSE g[next[x]]]
    BY <1>6, <1>7
  <1>9. QED
    BY <1>8 DEF Definable

-----------------------------------------------------------------------------
(* KeyIndex finds the place of a key.                                      *)

ItemType == [key : Int, val : Values \cup PageIds]

Increasing(items) == \A i, j \in 1 .. Len(items) : i < j => items[i].key < items[j].key

LEMMA Middle ==
  ASSUME NEW low \in Nat, NEW high \in Nat, low < high
  PROVE  /\ low + (high - low) \div 2 \in Nat
         /\ low <= low + (high - low) \div 2 /\ low + (high - low) \div 2 < high
  OBVIOUS

\* x is the index of the first key that is not smaller.
Parts(items, key, x) ==
  /\ x \in 0 .. Len(items)
  /\ \A i \in 1 .. x : items[i].key < key
  /\ \A i \in (x + 1) .. Len(items) : ~(items[i].key < key)

\* All that a binary search of the range is asked for.
Within(items, key, low, high) ==
  /\ low <= high
  /\ \A i \in 1 .. low : items[i].key < key
  /\ \A i \in (high + 1) .. Len(items) : ~(items[i].key < key)

\* One step of the search.
SearchStep(items, key, g, low, high) ==
  LET mid == low + (high - low) \div 2 IN
  IF low >= high THEN low
  ELSE IF items[mid + 1].key < key THEN g[<<mid + 1, high>>] ELSE g[<<low, mid>>]

LEMMA SearchExists ==
  ASSUME NEW items \in Seq(ItemType), NEW key
  PROVE  \E f : f = [range \in (0 .. Len(items)) \X (0 .. Len(items)) |->
                       SearchStep(items, key, f, range[1], range[2])]
  <1> DEFINE n == Len(items)
             D == (0 .. n) \X (0 .. n)
             mid(r) == r[1] + (r[2] - r[1]) \div 2
             stop == {r \in D : r[1] >= r[2]}
             val == [r \in D |-> r[1]]
             next == [r \in D |-> IF items[mid(r) + 1].key < key THEN <<mid(r) + 1, r[2]>>
                                  ELSE <<r[1], mid(r)>>]
             down == [r \in D |-> IF r[1] >= r[2] THEN 0 ELSE r[2] - r[1]]
  <1>1. n \in Nat
    OBVIOUS
  <1> HIDE DEF n
  <1>2. \A r \in D : r[1] \in 0 .. n /\ r[2] \in 0 .. n
    OBVIOUS
  <1>3. down \in [D -> 0 .. n]
    <2>1. ASSUME NEW a \in 0 .. n, NEW b \in 0 .. n
          PROVE  (IF a >= b THEN 0 ELSE b - a) \in 0 .. n
      BY <1>1
    <2>2. QED
      BY <1>2, <2>1
  <1>4. ASSUME NEW r \in D, r \notin stop PROVE next[r] \in D /\ down[next[r]] < down[r]
    <2>1. PICK a, b, m : a = r[1] /\ b = r[2] /\ m = mid(r)
      OBVIOUS
    <2>2. a \in 0 .. n /\ b \in 0 .. n /\ a < b /\ m = a + (b - a) \div 2
      BY <1>1, <1>2, <1>4, <2>1
    <2>3. m \in Nat /\ a <= m /\ m < b /\ a \in Nat /\ b \in Nat
      BY <1>1, <2>2, Middle
    <2>4. m \in 0 .. n /\ m + 1 \in 0 .. n
      BY <1>1, <2>2, <2>3
    <2>5. <<m + 1, b>> \in D /\ <<a, m>> \in D
      BY <2>2, <2>4
    <2>6. next[r] = IF items[m + 1].key < key THEN <<m + 1, b>> ELSE <<a, m>>
      BY <2>1
    <2>7. down[r] = b - a
      BY <1>1, <2>1, <2>2
    <2>8. down[<<m + 1, b>>] = IF m + 1 >= b THEN 0 ELSE b - (m + 1)
      BY <2>5
    <2>9. down[<<a, m>>] = IF a >= m THEN 0 ELSE m - a
      BY <2>5
    <2> HIDE DEF down, next, D
    <2>10. down[<<m + 1, b>>] < b - a
      BY <2>3, <2>8
    <2>11. down[<<a, m>>] < b - a
      BY <2>3, <2>9
    <2>12. QED
      BY <2>5, <2>6, <2>7, <2>10, <2>11
  <1> HIDE DEF down, next, val, stop, D
  <1>5. PICK f : f = [r \in D |-> IF r \in stop THEN val[r] ELSE f[next[r]]]
    <2>1. LeadsDown(D, n, down, stop, next)
      BY <1>1, <1>3, <1>4 DEF LeadsDown
    <2>2. QED
      BY <2>1, Recursion DEF Definable
  <1>6. ASSUME NEW r \in D
        PROVE  (IF r \in stop THEN val[r] ELSE f[next[r]]) = SearchStep(items, key, f, r[1], r[2])
    BY DEF SearchStep, stop, val, next
  <1>7. f = [r \in D |-> SearchStep(items, key, f, r[1], r[2])]
    BY <1>5, <1>6
  <1>8. QED
    BY <1>7 DEF D, n

LEMMA KeyIndexStep ==
  ASSUME NEW items \in Seq(ItemType), NEW key
  PROVE  \E g : /\ KeyIndex(items, key) = g[<<0, Len(items)>>]
                /\ \A low, high \in 0 .. Len(items) :
                     g[<<low, high>>] = SearchStep(items, key, g, low, high)
  <1> DEFINE n == Len(items)
             D == (0 .. n) \X (0 .. n)
             IsSearch(f) == f = [range \in D |-> SearchStep(items, key, f, range[1], range[2])]
             g == CHOOSE f : IsSearch(f)
  <1>1. KeyIndex(items, key) = g[<<0, n>>]
    BY DEF KeyIndex, SearchStep
  <1>2. \E f : IsSearch(f)
    BY SearchExists
  <1>3. IsSearch(g)
    BY <1>2
  <1> HIDE DEF g
  <1>4. \A r \in D : g[r] = SearchStep(items, key, g, r[1], r[2])
    BY <1>3
  <1>5. \A low, high \in 0 .. n : <<low, high>> \in D /\ <<low, high>>[1] = low
                                  /\ <<low, high>>[2] = high
    OBVIOUS
  <1> HIDE DEF D
  <1>6. \A low, high \in 0 .. n : g[<<low, high>>] = SearchStep(items, key, g, low, high)
    BY <1>4, <1>5
  <1>7. QED
    BY <1>1, <1>6 DEF n

LEMMA KeyIndexIs ==
  ASSUME NEW items \in Seq(ItemType), Increasing(items), NEW key \in Int
  PROVE  Parts(items, key, KeyIndex(items, key))
  <1> DEFINE n == Len(items)
  <1>1. n \in Nat /\ \A i \in 1 .. n : items[i].key \in Int
    <2>1. \A i \in 1 .. Len(items) : items[i] \in ItemType
      OBVIOUS
    <2>2. QED
      BY <2>1 DEF ItemType
  <1>2. \A i, j \in 1 .. n : i < j => items[i].key < items[j].key
    BY DEF Increasing
  <1>3. PICK g : /\ KeyIndex(items, key) = g[<<0, n>>]
                 /\ \A low, high \in 0 .. n :
                      g[<<low, high>>] = SearchStep(items, key, g, low, high)
    BY KeyIndexStep
  <1> HIDE DEF n
  <1> DEFINE Fails(w) == \E low, high \in 0 .. n :
                           /\ w = high - low /\ Within(items, key, low, high)
                           /\ ~Parts(items, key, g[<<low, high>>])
             Bad == {w \in Nat : Fails(w)}
  <1>4. Bad = {}
    <2>1. SUFFICES ASSUME Bad # {} PROVE FALSE
      OBVIOUS
    <2>2. PICK w \in Bad : \A v \in Bad : w <= v
      BY <2>1, LeastOf
    <2>3. PICK low \in 0 .. n, high \in 0 .. n :
                  /\ w = high - low /\ Within(items, key, low, high)
                  /\ ~Parts(items, key, g[<<low, high>>])
      BY <2>2
    <2>4. /\ low <= high
          /\ \A i \in 1 .. low : items[i].key < key
          /\ \A i \in (high + 1) .. n : ~(items[i].key < key)
      BY <2>3 DEF Within, n
    <2>5. ASSUME NEW a \in 0 .. n, NEW b \in 0 .. n, b - a < w, Within(items, key, a, b)
          PROVE  Parts(items, key, g[<<a, b>>])
      <3>1. a <= b
        BY <2>5 DEF Within
      <3>2. b - a \in Nat /\ w \in Nat /\ ~(w <= b - a)
        BY <1>1, <2>5, <3>1
      <3>3. b - a \notin Bad
        BY <2>2, <3>2
      <3>4. QED
        BY <2>5, <3>2, <3>3
    <2> HIDE DEF Bad
    <2>6. CASE low >= high
      <3>1. low = high
        BY <1>1, <2>4, <2>6
      <3>2. g[<<low, high>>] = low
        BY <1>3, <2>6 DEF SearchStep
      <3>3. Parts(items, key, low)
        BY <2>4, <3>1 DEF Parts, n
      <3>4. QED
        BY <2>3, <3>2, <3>3
    <2>7. CASE ~(low >= high)
      <3>1. PICK mid : mid = low + (high - low) \div 2
        OBVIOUS
      <3>2. mid \in Nat /\ low <= mid /\ mid < high
        BY <1>1, <2>7, <3>1, Middle
      <3>3. mid \in 0 .. n /\ mid + 1 \in 0 .. n /\ mid + 1 \in 1 .. n
        BY <1>1, <3>2
      <3>4. g[<<low, high>>] = IF items[mid + 1].key < key THEN g[<<mid + 1, high>>]
                               ELSE g[<<low, mid>>]
        BY <1>3, <2>7, <3>1 DEF SearchStep
      <3>5. CASE items[mid + 1].key < key
        <4>1. ASSUME NEW i \in 1 .. (mid + 1) PROVE items[i].key < key
          <5>1. i \in 1 .. n /\ items[i].key \in Int /\ items[mid + 1].key \in Int
            BY <1>1, <3>3
          <5>2. CASE i = mid + 1
            BY <3>5, <5>2
          <5>3. CASE i < mid + 1
            BY <1>2, <3>3, <3>5, <5>1, <5>3
          <5>4. QED
            BY <3>2, <5>2, <5>3
        <4>2. mid + 1 <= high /\ high - (mid + 1) < w
          BY <1>1, <2>3, <3>2
        <4>3. Within(items, key, mid + 1, high)
          BY <2>4, <4>1, <4>2 DEF Within, n
        <4>4. QED
          BY <2>3, <2>5, <3>3, <3>4, <3>5, <4>2, <4>3
      <3>6. CASE ~(items[mid + 1].key < key)
        <4>1. ASSUME NEW i \in (mid + 1) .. n PROVE ~(items[i].key < key)
          <5>1. i \in 1 .. n /\ items[i].key \in Int /\ items[mid + 1].key \in Int
            BY <1>1, <3>2, <3>3
          <5>2. CASE i = mid + 1
            BY <3>6, <5>2
          <5>3. CASE mid + 1 < i
            <6>1. items[mid + 1].key < items[i].key
              BY <1>2, <3>3, <5>1, <5>3
            <6>2. QED
              BY <3>6, <5>1, <6>1
          <5>4. QED
            BY <1>1, <3>2, <5>2, <5>3
        <4>2. low <= mid /\ mid - low < w
          BY <1>1, <2>3, <3>2
        <4>3. Within(items, key, low, mid)
          BY <2>4, <4>1, <4>2 DEF Within, n
        <4>4. QED
          BY <2>3, <2>5, <3>3, <3>4, <3>6, <4>2, <4>3
      <3>7. QED
        BY <3>5, <3>6
    <2>8. QED
      BY <2>6, <2>7
  <1>5. Within(items, key, 0, n)
    BY <1>1 DEF Within, n
  <1>6. 0 \in 0 .. n /\ n \in 0 .. n /\ n - 0 \in Nat
    BY <1>1
  <1>7. Parts(items, key, g[<<0, n>>])
    <2>1. n - 0 \notin Bad
      BY <1>4
    <2>2. ~Fails(n - 0)
      BY <1>6, <2>1
    <2>3. QED
      BY <1>5, <1>6, <2>2
  <1>8. QED
    BY <1>3, <1>7

-----------------------------------------------------------------------------
(* What a tree is.  Each page p is responsible for the keys rng[p] and is   *)
(* lev[p] steps above the leaves.                                          *)

PageType == [leaf : BOOLEAN, parent : PageIds \cup {NoPage}, next : PageIds \cup {NoPage},
             items : Seq(ItemType)]

\* The part of R that the separators of an internal node leave to its i-th
\* child.
Slice(R, items, i) ==
  {k \in R : (i > 1 => items[i].key <= k) /\ (i < Len(items) => k < items[i + 1].key)}

LeafOK(items, R) ==
  /\ Increasing(items)
  /\ \A i \in 1 .. Len(items) : items[i].key \in R /\ items[i].val \in Values

Separators(items, R) ==
  /\ \A i \in 2 .. Len(items) : items[i].key \in R
  /\ \A i, j \in 2 .. Len(items) : i < j => items[i].key < items[j].key

ChildOK(P, rng, lev, p, i, c) ==
  /\ c \in DOMAIN P
  /\ P[c].parent = p
  /\ lev[c] + 1 = lev[p]
  /\ rng[c] = Slice(rng[p], P[p].items, i)

Distinct(items) == \A i, j \in 1 .. Len(items) : items[i].val = items[j].val => i = j

InnerOK(P, rng, lev, p) ==
  /\ Len(P[p].items) >= 1
  /\ Separators(P[p].items, rng[p])
  /\ Distinct(P[p].items)
  /\ \A i \in 1 .. Len(P[p].items) : ChildOK(P, rng, lev, p, i, P[p].items[i].val)

NodeOK(P, rng, lev, p) ==
  /\ P[p] \in PageType
  /\ lev[p] \in Nat
  /\ rng[p] \subseteq Keys /\ rng[p] # {}
  /\ P[p].leaf => lev[p] = 0 /\ LeafOK(P[p].items, rng[p])
  /\ ~P[p].leaf => InnerOK(P, rng, lev, p)

Lists(P, q, p) == \E i \in 1 .. Len(P[q].items) : P[q].items[i].val = p

HangsOK(P, rt, lev, p) ==
  /\ lev[p] <= lev[rt]
  /\ p # rt => P[p].parent \in DOMAIN P /\ ~P[P[p].parent].leaf /\ Lists(P, P[p].parent, p)

TreeOK(P, rt, rng, lev) ==
  /\ IsFiniteSet(DOMAIN P) /\ DOMAIN P \subseteq PageIds
  /\ rt \in DOMAIN P /\ P[rt].parent = NoPage /\ rng[rt] = Keys
  /\ \A p \in DOMAIN P : NodeOK(P, rng, lev, p) /\ HangsOK(P, rt, lev, p)

\* What the theorems ask of the constants.  Three frames are what a split of the
\* root pins at once; page ids are not reused, so they do not run out.
Growing ==
  /\ Removable = {}
  /\ Keys \subseteq Int
  /\ PageIds \subseteq Nat /\ ~IsFiniteSet(PageIds)
  /\ NoPage \notin PageIds
  /\ LeafMax \in Nat /\ LeafMax >= 2 /\ InternalMax \in Nat /\ InternalMax >= 2
  /\ PoolSize \in Nat
  /\ \A n \in OtherPins \cup {0} : n \in Nat /\ n + 3 <= PoolSize

-----------------------------------------------------------------------------
(* The way from the root to a key.                                         *)

LEMMA ItemsOf ==
  ASSUME NEW items \in Seq(ItemType)
  PROVE  /\ Len(items) \in Nat
         /\ \A i \in 1 .. Len(items) : /\ items[i] \in ItemType /\ items[i].key \in Int
                                       /\ items[i].val \in Values \cup PageIds
  <1>1. Len(items) \in Nat /\ \A i \in 1 .. Len(items) : items[i] \in ItemType
    OBVIOUS
  <1>2. QED
    BY <1>1 DEF ItemType

\* Two slices share no key.
LEMMA SliceOnce ==
  ASSUME NEW items \in Seq(ItemType), NEW R \in SUBSET Int, Separators(items, R),
         NEW i \in 1 .. Len(items), NEW j \in 1 .. Len(items), NEW k,
         k \in Slice(R, items, i), k \in Slice(R, items, j)
  PROVE  i = j
  <1> DEFINE n == Len(items)
  <1>1. n \in Nat /\ \A x \in 1 .. n : items[x].key \in Int
    BY ItemsOf
  <1>2. k \in Int
    BY DEF Slice
  <1>3. ASSUME NEW a \in 1 .. n, NEW b \in 1 .. n, a < b,
               k \in Slice(R, items, a), k \in Slice(R, items, b)
        PROVE  FALSE
    <2>1. a + 1 \in 2 .. n /\ b \in 2 .. n /\ a < n /\ b > 1 /\ (a + 1 = b \/ a + 1 < b)
      BY <1>1, <1>3
    <2>2. k < items[a + 1].key
      BY <1>3, <2>1 DEF Slice
    <2>3. items[b].key <= k
      BY <1>3, <2>1 DEF Slice
    <2>4. a + 1 < b => items[a + 1].key < items[b].key
      BY <2>1 DEF Separators
    <2>5. items[a + 1].key \in Int /\ items[b].key \in Int
      BY <1>1, <2>1
    <2>6. CASE a + 1 = b
      BY <1>2, <2>2, <2>3, <2>5, <2>6
    <2>7. CASE a + 1 < b
      BY <1>2, <2>2, <2>3, <2>4, <2>5, <2>7
    <2>8. QED
      BY <2>1, <2>6, <2>7
  <1>4. i < j \/ j < i \/ i = j
    BY <1>1
  <1>5. QED
    BY <1>3, <1>4

\* Lookup of an internal node finds the slice of the key.
LEMMA ChildIs ==
  ASSUME NEW items \in Seq(ItemType), NEW R \in SUBSET Int, Separators(items, R),
         Len(items) >= 1, NEW k \in R
  PROVE  \E i \in 1 .. Len(items) : ChildFor(items, k) = items[i].val /\ k \in Slice(R, items, i)
  <1> DEFINE n == Len(items)
             larger == {i \in 2 .. n : k < items[i].key}
  <1>1. n \in Nat /\ n >= 1 /\ k \in Int /\ \A x \in 1 .. n : items[x].key \in Int
    BY ItemsOf
  <1>2. CASE larger = {}
    <2>1. ChildFor(items, k) = items[n].val
      BY <1>2 DEF ChildFor
    <2>2. n > 1 => items[n].key <= k
      <3>1. n > 1 => n \in 2 .. n /\ ~(k < items[n].key)
        BY <1>1, <1>2
      <3>2. QED
        BY <1>1, <3>1
    <2>3. k \in Slice(R, items, n)
      BY <1>1, <2>2 DEF Slice
    <2>4. QED
      BY <1>1, <2>1, <2>3
  <1>3. CASE larger # {}
    <2>1. larger \in SUBSET Nat
      OBVIOUS
    <2>2. PICK m \in larger : \A x \in larger : m <= x
      BY <1>3, <2>1, LeastOf
    <2>3. Min(larger) = m
      <3>1. \A x \in larger : x \in Nat
        BY <2>1
      <3>2. \A x \in larger : (\A y \in larger : x <= y) => x = m
        BY <2>2, <3>1
      <3>3. QED
        BY <2>2, <3>2 DEF Min
    <2>4. ChildFor(items, k) = items[m - 1].val
      BY <1>3, <2>3 DEF ChildFor
    <2>5. m \in 2 .. n /\ k < items[m].key
      BY <2>2
    <2>6. m - 1 \in 1 .. n /\ (m - 1) + 1 = m
      BY <1>1, <2>5
    <2>7. m - 1 > 1 => items[m - 1].key <= k
      <3>1. ASSUME m - 1 > 1 PROVE items[m - 1].key <= k
        <4>1. m - 1 \in 2 .. n /\ ~(m <= m - 1)
          BY <1>1, <2>5, <3>1
        <4>2. m - 1 \notin larger
          BY <2>2, <4>1
        <4>3. ~(k < items[m - 1].key)
          BY <4>1, <4>2
        <4>4. QED
          BY <1>1, <2>6, <4>3
      <3>2. QED
        BY <3>1
    <2>8. k \in Slice(R, items, m - 1)
      BY <2>5, <2>6, <2>7 DEF Slice
    <2>9. QED
      BY <2>4, <2>6, <2>8
  <1>4. QED
    BY <1>2, <1>3

LEMMA NodeFacts ==
  ASSUME NEW P, NEW rt, NEW rng, NEW lev, TreeOK(P, rt, rng, lev), NEW p \in DOMAIN P
  PROVE  /\ NodeOK(P, rng, lev, p) /\ HangsOK(P, rt, lev, p)
         /\ P[p] \in PageType /\ P[p].items \in Seq(ItemType) /\ P[p].leaf \in BOOLEAN
         /\ p \in PageIds /\ lev[p] \in Nat /\ lev[rt] \in Nat /\ lev[p] <= lev[rt]
         /\ rng[p] \subseteq Keys /\ rng[p] # {}
  <1>1. NodeOK(P, rng, lev, p) /\ HangsOK(P, rt, lev, p) /\ NodeOK(P, rng, lev, rt)
    BY DEF TreeOK
  <1>2. P[p] \in PageType
    BY <1>1 DEF NodeOK
  <1>3. P[p].items \in Seq(ItemType) /\ P[p].leaf \in BOOLEAN
    BY <1>2 DEF PageType
  <1>4. p \in PageIds
    BY DEF TreeOK
  <1>5. QED
    BY <1>1, <1>2, <1>3, <1>4 DEF NodeOK, HangsOK

LEMMA InnerFacts ==
  ASSUME NEW P, NEW rt, NEW rng, NEW lev, TreeOK(P, rt, rng, lev), NEW p \in DOMAIN P,
         ~P[p].leaf
  PROVE  /\ Len(P[p].items) >= 1 /\ Len(P[p].items) \in Nat
         /\ Separators(P[p].items, rng[p])
         /\ Distinct(P[p].items)
         /\ \A i \in 1 .. Len(P[p].items) : ChildOK(P, rng, lev, p, i, P[p].items[i].val)
  BY NodeFacts, ItemsOf DEF NodeOK, InnerOK

LEMMA ParentFacts ==
  ASSUME NEW P, NEW rt, NEW rng, NEW lev, TreeOK(P, rt, rng, lev), NEW p \in DOMAIN P, p # rt
  PROVE  /\ P[p].parent \in DOMAIN P /\ ~P[P[p].parent].leaf
         /\ lev[p] + 1 = lev[P[p].parent]
         /\ \E i \in 1 .. Len(P[P[p].parent].items) :
              /\ P[P[p].parent].items[i].val = p
              /\ rng[p] = Slice(rng[P[p].parent], P[P[p].parent].items, i)
  <1>1. PICK q : q = P[p].parent
    OBVIOUS
  <1>2. q \in DOMAIN P /\ ~P[q].leaf /\ Lists(P, q, p)
    BY <1>1, NodeFacts DEF HangsOK
  <1>3. PICK i \in 1 .. Len(P[q].items) : P[q].items[i].val = p
    BY <1>2 DEF Lists
  <1>4. ChildOK(P, rng, lev, q, i, p)
    BY <1>2, <1>3, InnerFacts
  <1>5. QED
    BY <1>1, <1>2, <1>3, <1>4 DEF ChildOK

\* A key has one page on each level.
LEMMA OneOnEachLevel ==
  ASSUME NEW P, NEW rt, NEW rng, NEW lev, TreeOK(P, rt, rng, lev), Keys \subseteq Int, NEW k
  PROVE  \A p, q \in DOMAIN P : lev[p] = lev[q] /\ k \in rng[p] /\ k \in rng[q] => p = q
  <1> DEFINE Fails(n) == \E p, q \in DOMAIN P : /\ lev[p] = lev[q] /\ lev[rt] - lev[p] = n
                                                /\ k \in rng[p] /\ k \in rng[q] /\ p # q
             Bad == {n \in Nat : Fails(n)}
  <1>1. Bad = {}
    <2>1. SUFFICES ASSUME Bad # {} PROVE FALSE
      OBVIOUS
    <2>2. PICK n \in Bad : \A m \in Bad : n <= m
      BY <2>1, LeastOf
    <2>3. PICK p \in DOMAIN P, q \in DOMAIN P :
            lev[p] = lev[q] /\ lev[rt] - lev[p] = n /\ k \in rng[p] /\ k \in rng[q] /\ p # q
      BY <2>2
    <2>4. rt \in DOMAIN P
      BY DEF TreeOK
    <2>5. \A x \in DOMAIN P : /\ lev[x] \in Nat /\ lev[x] <= lev[rt] /\ rng[x] \subseteq Int
                              /\ P[x].items \in Seq(ItemType)
      BY NodeFacts
    <2>6. \A x \in DOMAIN P : x # rt => P[x].parent \in DOMAIN P
                                        /\ lev[x] + 1 = lev[P[x].parent]
      BY ParentFacts
    <2>7. lev[rt] \in Nat /\ \A x \in DOMAIN P : x # rt => lev[x] < lev[rt]
      BY <2>4, <2>5, <2>6
    <2>8. p # rt /\ q # rt
      BY <2>3, <2>4, <2>5, <2>7
    <2>9. PICK a \in DOMAIN P, b \in DOMAIN P : a = P[p].parent /\ b = P[q].parent
      BY <2>6, <2>8
    <2>10. lev[p] + 1 = lev[a] /\ lev[q] + 1 = lev[b] /\ ~P[a].leaf /\ ~P[b].leaf
      BY <2>8, <2>9, ParentFacts
    <2>11. PICK i \in 1 .. Len(P[a].items) :
             P[a].items[i].val = p /\ rng[p] = Slice(rng[a], P[a].items, i)
      BY <2>8, <2>9, ParentFacts
    <2>12. PICK j \in 1 .. Len(P[b].items) :
             P[b].items[j].val = q /\ rng[q] = Slice(rng[b], P[b].items, j)
      BY <2>8, <2>9, ParentFacts
    <2>13. k \in rng[a] /\ k \in rng[b]
      BY <2>3, <2>11, <2>12 DEF Slice
    <2>14. a = b
      <3>1. SUFFICES ASSUME a # b PROVE FALSE
        OBVIOUS
      <3>2. lev[a] = lev[b]
        BY <2>3, <2>10
      <3>3. lev[rt] - lev[a] \in Nat /\ ~(n <= lev[rt] - lev[a])
        <4>1. PICK top, x, y : top = lev[rt] /\ x = lev[p] /\ y = lev[a]
          OBVIOUS
        <4>2. top \in Nat /\ x \in Nat /\ y \in Nat /\ y <= top
          BY <2>5, <2>7, <4>1
        <4>3. n = top - x /\ y = x + 1
          BY <2>3, <2>10, <4>1
        <4>4. top - y \in Nat /\ ~(n <= top - y)
          BY <4>2, <4>3
        <4>5. QED
          BY <4>1, <4>4
      <3>4. Fails(lev[rt] - lev[a])
        BY <2>13, <3>1, <3>2
      <3>5. QED
        BY <2>2, <3>3, <3>4
    <2>15. Separators(P[a].items, rng[a])
      BY <2>10, InnerFacts
    <2>16. P[a].items \in Seq(ItemType) /\ rng[a] \in SUBSET Int
      BY <2>5
    <2>17. i = j
      BY <2>3, <2>11, <2>12, <2>14, <2>15, <2>16, SliceOnce
    <2>18. QED
      BY <2>3, <2>11, <2>12, <2>14, <2>17
  <1>2. ASSUME NEW p \in DOMAIN P, NEW q \in DOMAIN P, lev[p] = lev[q], k \in rng[p], k \in rng[q]
        PROVE  p = q
    <2>1. lev[p] \in Nat /\ lev[rt] \in Nat /\ lev[p] <= lev[rt]
      BY NodeFacts
    <2>2. lev[rt] - lev[p] \in Nat
      BY <2>1
    <2>3. ~Fails(lev[rt] - lev[p])
      BY <1>1, <2>2
    <2>4. QED
      BY <1>2, <2>3
  <1>3. QED
    BY <1>2

LEMMA OneLeaf ==
  ASSUME NEW P, NEW rt, NEW rng, NEW lev, TreeOK(P, rt, rng, lev), Keys \subseteq Int, NEW k,
         NEW p \in DOMAIN P, NEW q \in DOMAIN P, P[p].leaf, P[q].leaf, k \in rng[p], k \in rng[q]
  PROVE  p = q
  <1>1. lev[p] = 0 /\ lev[q] = 0
    BY NodeFacts DEF NodeOK
  <1>2. QED
    BY <1>1, OneOnEachLevel

-----------------------------------------------------------------------------
(* FindLeafPage with frames to spare.                                      *)

LEMMA DescentExists ==
  ASSUME NEW P, NEW rt, NEW rng, NEW lev, TreeOK(P, rt, rng, lev), Keys \subseteq Int,
         NEW k \in Keys
  PROVE  \E f : f = [p \in DOMAIN P |-> IF P[p].leaf THEN p ELSE f[ChildFor(P[p].items, k)]]
  <1> DEFINE D == DOMAIN P
             stop == {p \in D : P[p].leaf}
             val == [p \in D |-> p]
             next == [p \in D |-> ChildFor(P[p].items, k)]
             down == [p \in D |-> lev[p]]
  <1>1. rt \in D /\ lev[rt] \in Nat /\ \A p \in D : lev[p] \in Nat /\ lev[p] <= lev[rt]
    BY NodeFacts DEF TreeOK
  <1>2. down \in [D -> 0 .. lev[rt]]
    BY <1>1
  <1>3. ASSUME NEW p \in D, ~P[p].leaf
        PROVE  ChildFor(P[p].items, k) \in D /\ lev[ChildFor(P[p].items, k)] < lev[p]
    <2>1. \E i \in 1 .. Len(P[p].items) : ChildFor(P[p].items, k) = P[p].items[i].val
      <3>1. P[p].items \in Seq(ItemType)
        BY NodeFacts
      <3>2. PICK items, n : items = P[p].items /\ n = Len(items)
        OBVIOUS
      <3>3. n \in Nat /\ n >= 1
        BY <1>3, <3>2, InnerFacts
      <3> DEFINE larger == {i \in 2 .. n : k < items[i].key}
      <3>4. CASE larger = {}
        BY <3>2, <3>3, <3>4 DEF ChildFor
      <3>5. CASE larger # {}
        <4>1. larger \in SUBSET Nat
          OBVIOUS
        <4>2. PICK m \in larger : \A x \in larger : m <= x
          BY <3>5, <4>1, LeastOf
        <4>3. Min(larger) = m
          <5>1. \A x \in larger : x \in Nat
            BY <4>1
          <5>2. \A x \in larger : (\A y \in larger : x <= y) => x = m
            BY <4>2, <5>1
          <5>3. QED
            BY <4>2, <5>2 DEF Min
        <4>4. ChildFor(items, k) = items[m - 1].val
          BY <3>2, <3>5, <4>3 DEF ChildFor
        <4>5. m - 1 \in 1 .. n
          BY <3>3, <4>2
        <4>6. QED
          BY <3>2, <4>4, <4>5
      <3>6. QED
        BY <3>4, <3>5
    <2>2. PICK i \in 1 .. Len(P[p].items) : ChildFor(P[p].items, k) = P[p].items[i].val
      BY <2>1
    <2>3. ChildOK(P, rng, lev, p, i, P[p].items[i].val)
      BY <1>3, InnerFacts
    <2>4. PICK c : c = P[p].items[i].val
      OBVIOUS
    <2>5. c \in D /\ lev[c] + 1 = lev[p]
      BY <2>3, <2>4 DEF ChildOK
    <2>6. QED
      BY <1>1, <2>2, <2>4, <2>5
  <1>4. \A p \in D : p \notin stop => next[p] \in D /\ down[next[p]] < down[p]
    BY <1>3
  <1> HIDE DEF down, next, val, stop, D
  <1>5. LeadsDown(D, lev[rt], down, stop, next)
    BY <1>1, <1>2, <1>4 DEF LeadsDown
  <1>6. PICK f : f = [p \in D |-> IF p \in stop THEN val[p] ELSE f[next[p]]]
    BY <1>5, Recursion DEF Definable
  <1>7. ASSUME NEW p \in D
        PROVE  (IF p \in stop THEN val[p] ELSE f[next[p]])
                 = IF P[p].leaf THEN p ELSE f[ChildFor(P[p].items, k)]
    BY DEF stop, val, next
  <1>8. f = [p \in D |-> IF P[p].leaf THEN p ELSE f[ChildFor(P[p].items, k)]]
    BY <1>6, <1>7
  <1>9. QED
    BY <1>8 DEF D

\* A descent that follows ChildFor ends in the leaf of the key.
LEMMA DescentEnds ==
  ASSUME NEW P, NEW rt, NEW rng, NEW lev, TreeOK(P, rt, rng, lev), Keys \subseteq Int,
         NEW k \in Keys, NEW f,
         \A p \in DOMAIN P : f[p] = IF P[p].leaf THEN p ELSE f[ChildFor(P[p].items, k)]
  PROVE  f[rt] \in DOMAIN P /\ P[f[rt]].leaf /\ k \in rng[f[rt]]
  <1> DEFINE Ends(p) == f[p] \in DOMAIN P /\ P[f[p]].leaf /\ k \in rng[f[p]]
             Fails(n) == \E p \in DOMAIN P : lev[p] = n /\ k \in rng[p] /\ ~Ends(p)
             Bad == {n \in Nat : Fails(n)}
  <1>1. Bad = {}
    <2>1. SUFFICES ASSUME Bad # {} PROVE FALSE
      OBVIOUS
    <2>2. PICK n \in Bad : \A m \in Bad : n <= m
      BY <2>1, LeastOf
    <2>3. PICK p \in DOMAIN P : lev[p] = n /\ k \in rng[p] /\ ~Ends(p)
      BY <2>2
    <2>4. CASE P[p].leaf
      BY <2>3, <2>4
    <2>5. CASE ~P[p].leaf
      <3>1. P[p].items \in Seq(ItemType) /\ rng[p] \in SUBSET Int /\ lev[p] \in Nat
        BY NodeFacts
      <3>2. Separators(P[p].items, rng[p]) /\ Len(P[p].items) >= 1
        BY <2>5, InnerFacts
      <3>3. PICK i \in 1 .. Len(P[p].items) :
              ChildFor(P[p].items, k) = P[p].items[i].val /\ k \in Slice(rng[p], P[p].items, i)
        BY <2>3, <3>1, <3>2, ChildIs
      <3>4. PICK c : c = P[p].items[i].val
        OBVIOUS
      <3>5. ChildOK(P, rng, lev, p, i, c)
        BY <2>5, <3>4, InnerFacts
      <3>6. c \in DOMAIN P /\ lev[c] + 1 = lev[p] /\ k \in rng[c]
        BY <3>3, <3>5 DEF ChildOK
      <3>7. lev[c] \in Nat
        BY <3>6, NodeFacts
      <3>8. lev[c] \notin Bad
        BY <2>2, <2>3, <3>1, <3>6, <3>7
      <3>9. Ends(c)
        BY <3>6, <3>7, <3>8
      <3>10. f[p] = f[c]
        BY <2>5, <3>3, <3>4
      <3>11. QED
        BY <2>3, <3>9, <3>10
    <2>6. QED
      BY <2>4, <2>5
  <1>2. rt \in DOMAIN P /\ rng[rt] = Keys /\ lev[rt] \in Nat
    BY NodeFacts DEF TreeOK
  <1>3. ~Fails(lev[rt])
    BY <1>1, <1>2
  <1>4. QED
    BY <1>2, <1>3

\* The tree keeps exactly the pages of S pinned, each once.
PinsAre(pn, S) == pn = [p \in PageIds |-> IF p \in S THEN 1 ELSE 0]

LEMMA PinnedIs ==
  ASSUME NEW S \in SUBSET PageIds, PinsAre(pins, S)
  PROVE  Pinned = S
  <1>1. \A p \in PageIds : pins[p] = IF p \in S THEN 1 ELSE 0
    BY DEF PinsAre
  <1>2. QED
    BY <1>1 DEF Pinned

LEMMA FewCanBePinned ==
  ASSUME Growing, others \in OtherPins \cup {0}, NEW c,
         Pinned = {} \/ Pinned = {c}, NEW a, NEW b
  PROVE  CanPin({a}) /\ CanPin({a, b})
  <1>1. others \in Nat /\ others + 3 <= PoolSize /\ PoolSize \in Nat
    BY DEF Growing
  <1>2. IsFiniteSet({c}) /\ Cardinality({c}) = 1
    BY FS_Singleton
  <1>3. IsFiniteSet({}) /\ Cardinality({}) = 0
    BY FS_EmptySet
  <1>4. IsFiniteSet(Pinned) /\ Cardinality(Pinned) \in Nat /\ Cardinality(Pinned) <= 1
    BY <1>2, <1>3
  <1>5. /\ IsFiniteSet(Pinned \cup {a}) /\ Cardinality(Pinned \cup {a}) \in Nat
        /\ Cardinality(Pinned \cup {a}) <= 2
    BY <1>4, FS_AddElement
  <1>6. /\ IsFiniteSet((Pinned \cup {a}) \cup {b})
        /\ Cardinality((Pinned \cup {a}) \cup {b}) \in Nat
        /\ Cardinality((Pinned \cup {a}) \cup {b}) <= 3
    BY <1>5, FS_AddElement
  <1>7. Pinned \cup {a, b} = (Pinned \cup {a}) \cup {b}
    OBVIOUS
  <1>8. Cardinality(Pinned \cup {a, b}) \in Nat /\ Cardinality(Pinned \cup {a, b}) <= 3
    BY <1>6, <1>7
  <1>9. QED
    BY <1>1, <1>5, <1>8 DEF CanPin

LEMMA FindLeafIs ==
  ASSUME NEW rng, NEW lev, TreeOK(pages, root, rng, lev), Growing, NEW k \in Keys,
         \A p \in DOMAIN pages : CanPin({p})
  PROVE  /\ root # NoPage
         /\ FindLeafPage(k) \in DOMAIN pages /\ pages[FindLeafPage(k)].leaf
         /\ k \in rng[FindLeafPage(k)] /\ FindLeafPage(k) # NoPage
  <1> DEFINE IsWalk(f) == f = [p \in DOMAIN pages |->
                                 IF ~CanPin({p}) THEN NoPage
                                 ELSE IF pages[p].leaf THEN p
                                 ELSE f[ChildFor(pages[p].items, k)]]
             walk == CHOOSE f : IsWalk(f)
  <1>1. Keys \subseteq Int /\ NoPage \notin PageIds
    BY DEF Growing
  <1>2. root \in DOMAIN pages /\ DOMAIN pages \subseteq PageIds
    BY DEF TreeOK
  <1>3. FindLeafPage(k) = walk[root]
    BY <1>1, <1>2 DEF FindLeafPage
  <1>4. \E f : IsWalk(f)
    <2>1. PICK f : f = [p \in DOMAIN pages |-> IF pages[p].leaf THEN p
                                               ELSE f[ChildFor(pages[p].items, k)]]
      BY <1>1, DescentExists
    <2>2. IsWalk(f)
      BY <2>1
    <2>3. QED
      BY <2>2
  <1>5. IsWalk(walk)
    BY <1>4
  <1> HIDE DEF walk
  <1>6. \A p \in DOMAIN pages : walk[p] = IF pages[p].leaf THEN p
                                          ELSE walk[ChildFor(pages[p].items, k)]
    BY <1>5
  <1>7. walk[root] \in DOMAIN pages /\ pages[walk[root]].leaf /\ k \in rng[walk[root]]
    BY <1>1, <1>6, DescentEnds
  <1>8. QED
    BY <1>1, <1>2, <1>3, <1>7

\* The height of a page is its level.
LEMMA HeightIs ==
  ASSUME NEW P, NEW rt, NEW rng, NEW lev, TreeOK(P, rt, rng, lev), NEW h,
         h = CHOOSE f : f = [p \in DOMAIN P |-> IF P[p].leaf THEN 0
                                                ELSE f[P[p].items[1].val] + 1]
  PROVE  \A p \in DOMAIN P : h[p] = lev[p]
  <1> DEFINE IsHeight(f) == f = [p \in DOMAIN P |-> IF P[p].leaf THEN 0
                                                    ELSE f[P[p].items[1].val] + 1]
             own == [p \in DOMAIN P |-> lev[p]]
  <1>1. ASSUME NEW p \in DOMAIN P, ~P[p].leaf
        PROVE  P[p].items[1].val \in DOMAIN P /\ lev[P[p].items[1].val] + 1 = lev[p]
    <2>1. 1 \in 1 .. Len(P[p].items)
      BY <1>1, InnerFacts
    <2>2. ChildOK(P, rng, lev, p, 1, P[p].items[1].val)
      BY <1>1, <2>1, InnerFacts
    <2>3. QED
      BY <2>2 DEF ChildOK
  <1>2. \A p \in DOMAIN P : P[p].leaf => lev[p] = 0
    BY NodeFacts DEF NodeOK
  <1>3. \A p \in DOMAIN P : lev[p] = IF P[p].leaf THEN 0 ELSE own[P[p].items[1].val] + 1
    BY <1>1, <1>2
  <1>4. own = [p \in DOMAIN P |-> lev[p]]
    OBVIOUS
  <1> HIDE DEF own
  <1>5. IsHeight(own)
    BY <1>3, <1>4
  <1>6. IsHeight(h)
    BY <1>5
  <1> DEFINE Bad == {n \in Nat : \E p \in DOMAIN P : lev[p] = n /\ h[p] # lev[p]}
  <1>7. Bad = {}
    <2>1. SUFFICES ASSUME Bad # {} PROVE FALSE
      OBVIOUS
    <2>2. PICK n \in Bad : \A m \in Bad : n <= m
      BY <2>1, LeastOf
    <2>3. PICK p \in DOMAIN P : lev[p] = n /\ h[p] # lev[p]
      BY <2>2
    <2>4. h[p] = IF P[p].leaf THEN 0 ELSE h[P[p].items[1].val] + 1
      BY <1>6
    <2>5. CASE P[p].leaf
      BY <1>2, <2>3, <2>4, <2>5
    <2>6. CASE ~P[p].leaf
      <3>1. PICK c \in DOMAIN P : c = P[p].items[1].val
        BY <1>1, <2>6
      <3>2. lev[c] + 1 = lev[p] /\ lev[c] \in Nat /\ lev[p] \in Nat
        BY <1>1, <2>6, <3>1, NodeFacts
      <3>3. lev[c] \notin Bad
        <4>1. ~(n <= lev[c])
          BY <2>3, <3>2
        <4> HIDE DEF Bad
        <4>2. QED
          BY <2>2, <4>1
      <3>4. h[c] = lev[c]
        BY <3>2, <3>3
      <3>5. QED
        BY <2>3, <2>4, <2>6, <3>1, <3>2, <3>4
    <2>7. QED
      BY <2>5, <2>6
  <1>8. QED
    <2>1. \A p \in DOMAIN P : lev[p] \in Nat
      BY NodeFacts
    <2>2. QED
      BY <1>7, <2>1

-----------------------------------------------------------------------------
(* LeafInsert.                                                             *)

\* t is s with e at place x.
Inserted(T, s, x, e, t) ==
  /\ t \in Seq(T) /\ Len(t) = Len(s) + 1 /\ t[x] = e
  /\ \A i \in 1 .. Len(s) : i < x => t[i] = s[i]
  /\ \A i \in 1 .. Len(s) : ~(i < x) => t[i + 1] = s[i]

LEMMA InsertedAt ==
  ASSUME NEW T, NEW s \in Seq(T), NEW x \in 1 .. Len(s) + 1, NEW e \in T
  PROVE  Inserted(T, s, x, e, Seqs!InsertAt(s, x, e))
  <1> DEFINE a == SubSeq(s, 1, x - 1)
             b == SubSeq(s, x, Len(s))
             n == Len(s)
  <1>1. n \in Nat /\ x \in Nat /\ x >= 1 /\ x <= n + 1
    OBVIOUS
  <1>2. a \in Seq(T) /\ Len(a) = x - 1 /\ \A i \in 1 .. x - 1 : a[i] = s[i]
    OBVIOUS
  <1>3. b \in Seq(T) /\ Len(b) = n - x + 1 /\ \A i \in 1 .. n - x + 1 : b[i] = s[x + i - 1]
    OBVIOUS
  <1>4. Seqs!InsertAt(s, x, e) = (a \o <<e>>) \o b
    BY DEF Seqs!InsertAt
  <1> HIDE DEF a, b
  <1> DEFINE c == a \o <<e>>
  <1>5. c \in Seq(T) /\ Len(c) = x /\ c[x] = e /\ \A i \in 1 .. x - 1 : c[i] = s[i]
    <2>1. <<e>> \in Seq(T) /\ Len(<<e>>) = 1 /\ <<e>>[1] = e
      OBVIOUS
    <2>2. c \in Seq(T) /\ Len(c) = x
      BY <1>1, <1>2, <2>1
    <2>3. c[x] = e
      BY <1>1, <1>2, <2>1
    <2>4. \A i \in 1 .. x - 1 : c[i] = a[i]
      BY <1>1, <1>2, <2>1
    <2>5. QED
      BY <1>2, <2>2, <2>3, <2>4
  <1> HIDE DEF c
  <1>6. c \o b \in Seq(T) /\ Len(c \o b) = n + 1
    BY <1>1, <1>3, <1>5
  <1>7. \A i \in 1 .. x : (c \o b)[i] = c[i]
    BY <1>1, <1>3, <1>5
  <1>8. \A i \in x + 1 .. n + 1 : (c \o b)[i] = b[i - x]
    BY <1>1, <1>3, <1>5
  <1>9. ASSUME NEW i \in 1 .. n, ~(i < x) PROVE (c \o b)[i + 1] = s[i]
    <2>1. i + 1 \in x + 1 .. n + 1 /\ (i + 1) - x \in 1 .. n - x + 1 /\ x + ((i + 1) - x) - 1 = i
      BY <1>1, <1>9
    <2>2. QED
      BY <1>3, <1>8, <2>1
  <1>10. ASSUME NEW i \in 1 .. n, i < x PROVE (c \o b)[i] = s[i]
    <2>1. i \in 1 .. x /\ i \in 1 .. x - 1
      BY <1>1, <1>10
    <2>2. QED
      BY <1>5, <1>7, <2>1
  <1>11. (c \o b)[x] = e
    BY <1>1, <1>5, <1>7
  <1>12. QED
    BY <1>4, <1>6, <1>9, <1>10, <1>11 DEF c, Inserted

Keyed(items, key) == \E i \in 1 .. Len(items) : items[i].key = key

LEMMA HasKeyIs ==
  ASSUME NEW items \in Seq(ItemType), Increasing(items), NEW key \in Int
  PROVE  /\ HasKey(items, key) <=> Keyed(items, key)
         /\ HasKey(items, key) => /\ KeyIndex(items, key) + 1 \in 1 .. Len(items)
                                  /\ items[KeyIndex(items, key) + 1].key = key
  <1>1. PICK n, x : n = Len(items) /\ x = KeyIndex(items, key)
    OBVIOUS
  <1>2. /\ n \in Nat /\ x \in 0 .. n
        /\ \A i \in 1 .. x : items[i].key < key
        /\ \A i \in (x + 1) .. n : ~(items[i].key < key)
    <2>1. Parts(items, key, x)
      BY <1>1, KeyIndexIs
    <2>2. n \in Nat
      BY <1>1
    <2>3. QED
      BY <1>1, <2>1, <2>2 DEF Parts
  <1>3. \A i \in 1 .. n : items[i].key \in Int
    BY <1>1, ItemsOf
  <1>4. HasKey(items, key) <=> x < n /\ items[x + 1].key = key
    BY <1>1 DEF HasKey
  <1>5. ASSUME NEW i \in 1 .. n, items[i].key = key PROVE x < n /\ items[x + 1].key = key
    <2>1. ~(i \in 1 .. x)
      <3>1. ~(items[i].key < key)
        BY <1>5
      <3>2. QED
        BY <1>2, <3>1
    <2>2. x < i /\ x < n /\ x + 1 \in 1 .. n /\ x + 1 \in (x + 1) .. n
      BY <1>2, <2>1
    <2>3. ~(items[x + 1].key < key) /\ items[x + 1].key \in Int
      BY <1>2, <1>3, <2>2
    <2>4. x + 1 = i \/ x + 1 < i
      BY <1>2, <2>2
    <2>5. x + 1 < i => items[x + 1].key < items[i].key
      BY <1>1, <2>2 DEF Increasing
    <2>6. QED
      BY <1>5, <2>2, <2>3, <2>4, <2>5
  <1>6. x < n => x + 1 \in 1 .. n
    BY <1>2
  <1>7. QED
    BY <1>1, <1>4, <1>5, <1>6 DEF Keyed

\* new holds the items of old and e.
Gains(old, new, e) ==
  /\ \A i \in 1 .. Len(old) : \E j \in 1 .. Len(new) : new[j] = old[i]
  /\ \A j \in 1 .. Len(new) : new[j] = e \/ \E i \in 1 .. Len(old) : new[j] = old[i]
  /\ \E j \in 1 .. Len(new) : new[j] = e

\* A key that is there leaves the leaf as it is, another one is added.
LEMMA LeafInsertIs ==
  ASSUME NEW items \in Seq(ItemType), NEW R \in SUBSET Int, LeafOK(items, R), NEW key \in R,
         NEW value \in Values
  PROVE  /\ Keyed(items, key) => LeafInsert(items, key, value) = items
         /\ ~Keyed(items, key) =>
              LET new == LeafInsert(items, key, value) IN
              /\ new \in Seq(ItemType) /\ Len(new) = Len(items) + 1 /\ LeafOK(new, R)
              /\ Gains(items, new, Item(key, value))
  <1>1. Increasing(items) /\ key \in Int
    BY DEF LeafOK
  <1>2. Keyed(items, key) => LeafInsert(items, key, value) = items
    BY <1>1, HasKeyIs DEF LeafInsert
  <1>3. ASSUME ~Keyed(items, key)
        PROVE  LET new == LeafInsert(items, key, value) IN
               /\ new \in Seq(ItemType) /\ Len(new) = Len(items) + 1 /\ LeafOK(new, R)
               /\ Gains(items, new, Item(key, value))
    <2>1. PICK n, x, e, new : /\ n = Len(items) /\ x = KeyIndex(items, key) + 1
                              /\ e = Item(key, value) /\ new = LeafInsert(items, key, value)
      OBVIOUS
    <2>2. ~HasKey(items, key)
      BY <1>1, <1>3, HasKeyIs
    <2>3. new = Seqs!InsertAt(items, x, e)
      BY <2>1, <2>2 DEF LeafInsert
    <2>4. e \in ItemType /\ e.key = key /\ e.val = value
      BY <1>1, <2>1 DEF Item, ItemType
    <2>5. Parts(items, key, x - 1) /\ n \in Nat /\ x \in Int
      <3>1. KeyIndex(items, key) \in 0 .. Len(items) /\ Parts(items, key, KeyIndex(items, key))
        BY <1>1, KeyIndexIs DEF Parts
      <3>2. KeyIndex(items, key) = x - 1
        BY <2>1, <3>1
      <3>3. QED
        BY <2>1, <3>1, <3>2
    <2>6. /\ n \in Nat /\ x \in 1 .. n + 1
          /\ \A i \in 1 .. n : i < x => items[i].key < key
          /\ \A i \in 1 .. n : ~(i < x) => ~(items[i].key < key)
      BY <2>1, <2>5 DEF Parts
    <2>7. /\ new \in Seq(ItemType) /\ Len(new) = n + 1 /\ new[x] = e
          /\ \A i \in 1 .. n : i < x => new[i] = items[i]
          /\ \A i \in 1 .. n : ~(i < x) => new[i + 1] = items[i]
      <3>1. x \in 1 .. Len(items) + 1
        BY <2>1, <2>6
      <3>2. Inserted(ItemType, items, x, e, new)
        BY <2>3, <2>4, <3>1, InsertedAt
      <3>3. QED
        BY <2>1, <3>2 DEF Inserted
    <2> DEFINE Old(j) == IF j < x THEN j ELSE j - 1
    <2>8. ASSUME NEW j \in 1 .. n + 1, j # x PROVE Old(j) \in 1 .. n /\ new[j] = items[Old(j)]
      <3>1. CASE j < x
        <4>1. j \in 1 .. n
          BY <2>6, <3>1
        <4>2. QED
          BY <2>7, <3>1, <4>1
      <3>2. CASE ~(j < x)
        <4>1. j - 1 \in 1 .. n /\ ~(j - 1 < x) /\ (j - 1) + 1 = j
          BY <2>6, <2>8, <3>2
        <4>2. QED
          BY <2>7, <3>2, <4>1
      <3>3. QED
        BY <3>1, <3>2
    <2>9. \A i \in 1 .. n : /\ items[i].key \in Int /\ items[i].key \in R /\ items[i].val \in Values
                            /\ items[i].key # key
      BY <1>3, <2>1, ItemsOf DEF LeafOK, Keyed
    <2>10. ASSUME NEW i \in 1 .. n + 1, NEW j \in 1 .. n + 1, i < j
           PROVE  new[i].key < new[j].key
      <3>1. CASE i = x
        <4>1. j # x /\ Old(j) = j - 1 /\ ~(j - 1 < x)
          BY <2>6, <2>10, <3>1
        <4>2. j - 1 \in 1 .. n /\ new[j] = items[j - 1]
          BY <2>8, <4>1
        <4>3. ~(items[j - 1].key < key) /\ items[j - 1].key \in Int /\ items[j - 1].key # key
          BY <2>6, <2>9, <4>1, <4>2
        <4>4. QED
          BY <1>1, <2>4, <2>7, <3>1, <4>2, <4>3
      <3>2. CASE j = x
        <4>1. i # x /\ Old(i) = i /\ i < x
          BY <2>6, <2>10, <3>2
        <4>2. i \in 1 .. n /\ new[i] = items[i]
          BY <2>8, <4>1
        <4>3. items[i].key < key
          BY <2>6, <4>1, <4>2
        <4>4. QED
          BY <2>4, <2>7, <3>2, <4>2, <4>3
      <3>3. CASE i # x /\ j # x
        <4>1. Old(i) < Old(j)
          BY <2>6, <2>10, <3>3
        <4>2. Old(i) \in 1 .. n /\ Old(j) \in 1 .. n /\ new[i] = items[Old(i)]
              /\ new[j] = items[Old(j)]
          BY <2>8, <3>3
        <4> HIDE DEF Old
        <4>3. items[Old(i)].key < items[Old(j)].key
          BY <1>1, <2>1, <4>1, <4>2 DEF Increasing
        <4>4. QED
          BY <4>2, <4>3
      <3>4. QED
        BY <3>1, <3>2, <3>3
    <2>11. Increasing(new)
      BY <2>7, <2>10 DEF Increasing
    <2>12. ASSUME NEW j \in 1 .. n + 1
           PROVE  /\ new[j].key \in R /\ new[j].val \in Values
                  /\ new[j] = e \/ \E i \in 1 .. n : new[j] = items[i]
      <3>1. CASE j = x
        BY <2>4, <2>7, <3>1
      <3>2. CASE j # x
        BY <2>8, <2>9, <3>2
      <3>3. QED
        BY <3>1, <3>2
    <2>13. LeafOK(new, R)
      BY <2>7, <2>11, <2>12 DEF LeafOK
    <2>14. ASSUME NEW i \in 1 .. n PROVE \E j \in 1 .. n + 1 : new[j] = items[i]
      <3>1. i \in 1 .. n + 1 /\ i + 1 \in 1 .. n + 1
        BY <2>6
      <3>2. QED
        BY <2>7, <3>1
    <2>15. x \in 1 .. Len(new)
      BY <2>6, <2>7
    <2>16. Gains(items, new, e)
      BY <2>1, <2>7, <2>12, <2>14, <2>15 DEF Gains
    <2>17. QED
      BY <2>1, <2>7, <2>13, <2>16
  <1>4. QED
    BY <1>2, <1>3

LEMMA LeafChangeOK ==
  ASSUME NEW P, NEW rt, NEW rng, NEW lev, TreeOK(P, rt, rng, lev), NEW p \in DOMAIN P, P[p].leaf,
         NEW items \in Seq(ItemType), LeafOK(items, rng[p])
  PROVE  TreeOK([P EXCEPT ![p].items = items], rt, rng, lev)
  <1> DEFINE Q == [P EXCEPT ![p].items = items]
  <1>1. DOMAIN Q = DOMAIN P /\ \A x \in DOMAIN P : x # p => Q[x] = P[x]
    OBVIOUS
  <1>2. Q[p] = [P[p] EXCEPT !.items = items] /\ P[p] \in PageType
    BY NodeFacts
  <1>3. /\ Q[p] \in PageType /\ Q[p].leaf = P[p].leaf /\ Q[p].parent = P[p].parent
        /\ Q[p].items = items
    BY <1>2 DEF PageType
  <1> HIDE DEF Q
  <1>4. \A x \in DOMAIN P : Q[x].leaf = P[x].leaf /\ Q[x].parent = P[x].parent
    BY <1>1, <1>3
  <1>5. ASSUME NEW x \in DOMAIN P PROVE NodeOK(Q, rng, lev, x)
    <2>1. NodeOK(P, rng, lev, x)
      BY DEF TreeOK
    <2>2. CASE x = p
      BY <1>3, <2>1, <2>2 DEF NodeOK
    <2>3. CASE x # p
      <3>1. Q[x] = P[x]
        BY <1>1, <2>3
      <3>2. ASSUME ~P[x].leaf PROVE InnerOK(Q, rng, lev, x)
        <4>1. ASSUME NEW i \in 1 .. Len(P[x].items)
              PROVE  ChildOK(Q, rng, lev, x, i, P[x].items[i].val)
          <5>1. ChildOK(P, rng, lev, x, i, P[x].items[i].val)
            BY <3>2, InnerFacts
          <5>2. QED
            BY <1>1, <1>4, <3>1, <5>1 DEF ChildOK
        <4>2. QED
          BY <3>1, <3>2, <4>1, InnerFacts DEF InnerOK
      <3>3. QED
        BY <2>1, <3>1, <3>2 DEF NodeOK
    <2>4. QED
      BY <2>2, <2>3
  <1>6. ASSUME NEW x \in DOMAIN P PROVE HangsOK(Q, rt, lev, x)
    <2>1. HangsOK(P, rt, lev, x)
      BY DEF TreeOK
    <2>2. CASE x = rt
      BY <2>1, <2>2 DEF HangsOK
    <2>3. CASE x # rt
      <3>1. P[x].parent \in DOMAIN P /\ ~P[P[x].parent].leaf /\ Lists(P, P[x].parent, x)
        BY <2>1, <2>3 DEF HangsOK
      <3>2. Q[P[x].parent] = P[P[x].parent]
        BY <1>1, <3>1
      <3>3. QED
        BY <1>1, <1>4, <2>1, <3>1, <3>2 DEF HangsOK, Lists
    <2>4. QED
      BY <2>2, <2>3
  <1>7. rt \in DOMAIN P /\ Q[rt].parent = NoPage
    BY <1>4 DEF TreeOK
  <1>8. TreeOK(Q, rt, rng, lev)
    BY <1>1, <1>5, <1>6, <1>7 DEF TreeOK
  <1>9. QED
    BY <1>8 DEF Q

-----------------------------------------------------------------------------
(* A new separator in an internal node.                                    *)

LEMMA ValueIndexIs ==
  ASSUME NEW items \in Seq(ItemType), Distinct(items), NEW j \in 1 .. Len(items)
  PROVE  ValueIndex(items, items[j].val) = j - 1
  <1> DEFINE at == {i \in DOMAIN items : items[i].val = items[j].val}
  <1>1. DOMAIN items = 1 .. Len(items) /\ Len(items) \in Nat
    OBVIOUS
  <1>2. \A i \in at : i = j
    BY <1>1 DEF Distinct
  <1>3. j \in at
    BY <1>1
  <1>4. at = {j}
    BY <1>2, <1>3
  <1>5. Min(at) = j
    BY <1>4 DEF Min
  <1>6. QED
    BY <1>4, <1>5 DEF ValueIndex

LEMMA InsertNodeAfterIs ==
  ASSUME NEW items \in Seq(ItemType), Distinct(items), NEW j \in 1 .. Len(items),
         NEW mid \in Int, NEW new \in PageIds
  PROVE  Inserted(ItemType, items, j + 1, Item(mid, new),
                  InsertNodeAfter(items, items[j].val, mid, new))
  <1>1. ValueIndex(items, items[j].val) + 2 = j + 1
    BY ValueIndexIs
  <1>2. j + 1 \in 1 .. Len(items) + 1
    OBVIOUS
  <1>3. Item(mid, new) \in ItemType
    BY DEF Item, ItemType
  <1>4. Inserted(ItemType, items, j + 1, Item(mid, new),
                 Seqs!InsertAt(items, j + 1, Item(mid, new)))
    BY <1>2, <1>3, InsertedAt
  <1>5. QED
    BY <1>1, <1>4 DEF InsertNodeAfter

\* What a new separator does to the slices.
SlicesAfter(R, items, t, j, mid) ==
  /\ Separators(t, R)
  /\ \A i \in 1 .. Len(items) : i < j => Slice(R, t, i) = Slice(R, items, i)
  /\ Slice(R, t, j) = {k \in Slice(R, items, j) : k < mid}
  /\ Slice(R, t, j + 1) = {k \in Slice(R, items, j) : mid <= k}
  /\ \A i \in 1 .. Len(items) : j < i => Slice(R, t, i + 1) = Slice(R, items, i)

LEMMA SeparatorAdded ==
  ASSUME NEW items \in Seq(ItemType), NEW R \in SUBSET Int, Separators(items, R),
         NEW j \in 1 .. Len(items), NEW e, NEW t, Inserted(ItemType, items, j + 1, e, t),
         e.key \in Slice(R, items, j), \E k \in Slice(R, items, j) : k < e.key
  PROVE  SlicesAfter(R, items, t, j, e.key)
  <1>1. PICK n, mid : n = Len(items) /\ mid = e.key
    OBVIOUS
  <1>2. n \in Nat /\ j \in 1 .. n /\ \A i \in 1 .. n : items[i].key \in Int
    BY <1>1, ItemsOf
  <1>3. /\ t \in Seq(ItemType) /\ Len(t) = n + 1 /\ t[j + 1] = e
        /\ \A i \in 1 .. n : i < j + 1 => t[i] = items[i]
        /\ \A i \in 1 .. n : ~(i < j + 1) => t[i + 1] = items[i]
    BY <1>1 DEF Inserted
  <1>4. \A i \in 1 .. n : i <= j => t[i].key = items[i].key
    BY <1>2, <1>3
  <1>5. \A i \in 1 .. n : j < i => t[i + 1].key = items[i].key
    BY <1>2, <1>3
  <1>6. t[j + 1].key = mid /\ mid \in R /\ mid \in Int
    BY <1>1, <1>3 DEF Slice
  <1>7. /\ \A i \in 2 .. n : items[i].key \in R
        /\ \A a, b \in 2 .. n : a < b => items[a].key < items[b].key
    BY <1>1 DEF Separators
  <1>8. (j > 1 => items[j].key < mid) /\ (j < n => mid < items[j + 1].key)
    <2>1. PICK k \in Slice(R, items, j) : k < mid
      BY <1>1
    <2>2. (j > 1 => items[j].key <= k) /\ (j < n => mid < items[j + 1].key) /\ k \in Int
      BY <1>1, <2>1 DEF Slice
    <2>3. QED
      BY <1>2, <1>6, <2>1, <2>2
  <1> DEFINE Old(i) == IF i < j + 1 THEN i ELSE i - 1
  <1>9. \A i \in 2 .. n + 1 : i # j + 1 => Old(i) \in 2 .. n /\ t[i].key = items[Old(i)].key
    <2>1. ASSUME NEW i \in 2 .. n + 1, i # j + 1
          PROVE  Old(i) \in 2 .. n /\ t[i].key = items[Old(i)].key
      <3>1. CASE i < j + 1
        <4>1. i \in 1 .. n /\ i <= j /\ i \in 2 .. n
          BY <1>2, <3>1
        <4>2. QED
          BY <1>4, <3>1, <4>1
      <3>2. CASE ~(i < j + 1)
        <4>1. i - 1 \in 1 .. n /\ j < i - 1 /\ (i - 1) + 1 = i /\ i - 1 \in 2 .. n
          BY <1>2, <2>1, <3>2
        <4>2. QED
          BY <1>5, <3>2, <4>1
      <3>3. QED
        BY <3>1, <3>2
    <2>2. QED
      BY <2>1
  <1>10. Separators(t, R)
    <2>1. ASSUME NEW i \in 2 .. n + 1 PROVE t[i].key \in R
      <3>1. CASE i = j + 1
        BY <1>6, <3>1
      <3>2. CASE i # j + 1
        BY <1>7, <1>9, <3>2
      <3>3. QED
        BY <3>1, <3>2
    <2>2. ASSUME NEW a \in 2 .. n + 1, NEW b \in 2 .. n + 1, a < b PROVE t[a].key < t[b].key
      <3>1. CASE a = j + 1
        <4>1. b # j + 1 /\ Old(b) = b - 1 /\ j + 1 \in 1 .. n /\ j < n
              /\ (j + 1 = b - 1 \/ j + 1 < b - 1) /\ j + 1 \in 2 .. n /\ b - 1 \in 2 .. n
          BY <1>2, <2>2, <3>1
        <4>2. mid < items[j + 1].key
          BY <1>8, <4>1
        <4>3. t[b].key = items[b - 1].key
          BY <1>9, <4>1
        <4>4. j + 1 < b - 1 => items[j + 1].key < items[b - 1].key
          BY <1>7, <4>1
        <4>5. items[j + 1].key \in Int /\ items[b - 1].key \in Int
          BY <1>2, <4>1
        <4>6. mid < items[b - 1].key
          BY <1>6, <4>1, <4>2, <4>4, <4>5
        <4>7. QED
          BY <1>6, <3>1, <4>3, <4>6
      <3>2. CASE b = j + 1
        <4>1. a # j + 1 /\ Old(a) = a /\ a \in 2 .. n /\ j > 1 /\ j \in 2 .. n /\ (a = j \/ a < j)
          BY <1>2, <2>2, <3>2
        <4>2. t[a].key = items[a].key /\ items[j].key < mid
          BY <1>8, <1>9, <4>1
        <4>3. a < j => items[a].key < items[j].key
          BY <1>7, <4>1
        <4>4. items[a].key \in Int /\ items[j].key \in Int
          BY <1>2, <4>1
        <4>5. items[a].key < mid
          BY <1>6, <4>1, <4>2, <4>3, <4>4
        <4>6. QED
          BY <1>6, <3>2, <4>2, <4>5
      <3>3. CASE a # j + 1 /\ b # j + 1
        <4>1. Old(a) < Old(b)
          BY <1>2, <2>2, <3>3
        <4>2. /\ Old(a) \in 2 .. n /\ t[a].key = items[Old(a)].key
              /\ Old(b) \in 2 .. n /\ t[b].key = items[Old(b)].key
          BY <1>9, <3>3
        <4> HIDE DEF Old
        <4>3. items[Old(a)].key < items[Old(b)].key
          BY <1>7, <4>1, <4>2
        <4>4. QED
          BY <4>2, <4>3
      <3>4. QED
        BY <3>1, <3>2, <3>3
    <2>3. QED
      BY <1>3, <2>1, <2>2 DEF Separators
  <1>11. ASSUME NEW i \in 1 .. n, i < j PROVE Slice(R, t, i) = Slice(R, items, i)
    <2>1. i + 1 \in 1 .. n /\ i + 1 <= j /\ i <= j /\ i < n + 1 /\ i < n
      BY <1>2, <1>11
    <2>2. t[i].key = items[i].key /\ t[i + 1].key = items[i + 1].key
      BY <1>4, <2>1
    <2>3. QED
      BY <1>1, <1>3, <2>1, <2>2 DEF Slice
  <1>12. ASSUME NEW i \in 1 .. n, j < i PROVE Slice(R, t, i + 1) = Slice(R, items, i)
    <2>1. i + 1 > 1 /\ i > 1 /\ (i < n <=> i + 1 < n + 1)
      BY <1>2, <1>12
    <2>2. t[i + 1].key = items[i].key
      BY <1>5, <1>12
    <2>3. i < n => t[(i + 1) + 1].key = items[i + 1].key
      <3>1. ASSUME i < n PROVE t[(i + 1) + 1].key = items[i + 1].key
        <4>1. i + 1 \in 1 .. n /\ j < i + 1
          BY <1>2, <1>12, <3>1
        <4>2. QED
          BY <1>5, <4>1
      <3>2. QED
        BY <3>1
    <2>4. QED
      BY <1>1, <1>3, <2>1, <2>2, <2>3 DEF Slice
  <1>13. Slice(R, t, j) = {k \in Slice(R, items, j) : k < mid}
    <2>1. t[j].key = items[j].key /\ j < n + 1
      BY <1>2, <1>4
    <2>2. ASSUME NEW k \in R, k < mid, j < n PROVE k < items[j + 1].key
      <3>1. items[j + 1].key \in Int /\ k \in Int
        <4>1. j + 1 \in 1 .. n
          BY <1>2, <2>2
        <4>2. QED
          BY <1>2, <4>1
      <3>2. QED
        BY <1>6, <1>8, <2>2, <3>1
    <2>3. QED
      BY <1>1, <1>3, <1>6, <2>1, <2>2 DEF Slice
  <1>14. Slice(R, t, j + 1) = {k \in Slice(R, items, j) : mid <= k}
    <2>1. j + 1 > 1 /\ (j < n <=> j + 1 < n + 1)
      BY <1>2
    <2>2. j < n => t[(j + 1) + 1].key = items[j + 1].key
      <3>1. ASSUME j < n PROVE t[(j + 1) + 1].key = items[j + 1].key
        <4>1. j + 1 \in 1 .. n /\ j < j + 1
          BY <1>2, <3>1
        <4>2. QED
          BY <1>5, <4>1
      <3>2. QED
        BY <3>1
    <2>3. ASSUME NEW k \in R, mid <= k, j > 1 PROVE items[j].key <= k
      <3>1. items[j].key \in Int /\ k \in Int
        BY <1>2
      <3>2. QED
        BY <1>6, <1>8, <2>3, <3>1
    <2>4. QED
      BY <1>1, <1>3, <1>6, <2>1, <2>2, <2>3 DEF Slice
  <1>15. QED
    BY <1>1, <1>10, <1>11, <1>12, <1>13, <1>14 DEF SlicesAfter

-----------------------------------------------------------------------------
(* The two halves of a node.                                               *)

\* The first m items stay and the others move; the key of the first that moves
\* need not be kept.
Halves(items, from, to, m) ==
  /\ m \in Nat /\ 1 <= m /\ m < Len(items)
  /\ from \in Seq(ItemType) /\ Len(from) = m
  /\ to \in Seq(ItemType) /\ Len(to) = Len(items) - m
  /\ \A i \in 1 .. m : from[i] = items[i]
  /\ \A i \in 1 .. Len(items) - m : to[i].val = items[m + i].val
  /\ \A i \in 2 .. Len(items) - m : to[i] = items[m + i]

Below(R, mid) == {k \in R : k < mid}
From(R, mid) == {k \in R : mid <= k}

LEMMA InnerHalves ==
  ASSUME NEW items \in Seq(ItemType), NEW R \in SUBSET Int, Separators(items, R),
         NEW from, NEW to, NEW m, Halves(items, from, to, m),
         NEW mid, mid = items[m + 1].key,
         NEW L, L = Below(R, mid), NEW H, H = From(R, mid)
  PROVE  /\ Separators(from, L) /\ Separators(to, H) /\ mid \in R
         /\ \A i \in 1 .. m : Slice(L, from, i) = Slice(R, items, i)
         /\ \A i \in 1 .. Len(items) - m : Slice(H, to, i) = Slice(R, items, m + i)
  <1> USE DEF Below, From
  <1>1. PICK n : n = Len(items)
    OBVIOUS
  <1>2. /\ n \in Nat /\ m \in Nat /\ 1 <= m /\ m < n
        /\ Len(from) = m /\ Len(to) = n - m
        /\ \A i \in 1 .. m : from[i] = items[i]
        /\ \A i \in 2 .. n - m : to[i] = items[m + i]
    BY <1>1 DEF Halves
  <1>3. /\ \A i \in 1 .. n : items[i].key \in Int
        /\ \A i \in 2 .. n : items[i].key \in R
        /\ \A a, b \in 2 .. n : a < b => items[a].key < items[b].key
    BY <1>1, ItemsOf DEF Separators
  <1>4. m + 1 \in 2 .. n
    BY <1>2
  <1>5. mid \in R /\ mid \in Int
    BY <1>3, <1>4
  <1>6. \A i \in 2 .. m : i \in 2 .. n /\ i \in 1 .. n /\ i < m + 1 /\ items[i].key < mid
    <2>1. \A i \in 2 .. m : i \in 2 .. n /\ i \in 1 .. n /\ i < m + 1
      BY <1>2
    <2>2. QED
      BY <1>3, <1>4, <2>1
  <1>7. \A i \in 2 .. n - m : m + i \in 2 .. n /\ m + i \in 1 .. n /\ mid < items[m + i].key
    <2>1. \A i \in 2 .. n - m : m + i \in 2 .. n /\ m + i \in 1 .. n /\ m + 1 < m + i
      BY <1>2
    <2>2. QED
      BY <1>3, <1>4, <2>1
  <1>8. Separators(from, L)
    <2>1. \A i \in 2 .. m : from[i].key = items[i].key
      BY <1>2
    <2>2. QED
      BY <1>2, <1>3, <1>6, <2>1 DEF Separators
  <1>9. Separators(to, H)
    <2>1. \A i \in 2 .. n - m : to[i].key = items[m + i].key
      BY <1>2
    <2>2. \A i \in 2 .. n - m : to[i].key \in R /\ mid <= to[i].key
      BY <1>3, <1>5, <1>7, <2>1
    <2>3. ASSUME NEW a \in 2 .. n - m, NEW b \in 2 .. n - m, a < b PROVE to[a].key < to[b].key
      <3>1. m + a \in 2 .. n /\ m + b \in 2 .. n /\ m + a < m + b
        BY <1>2, <2>3
      <3>2. QED
        BY <1>3, <2>1, <3>1
    <2>4. QED
      BY <1>2, <2>2, <2>3 DEF Separators
  <1>10. ASSUME NEW i \in 1 .. m PROVE Slice(L, from, i) = Slice(R, items, i)
    <2>1. from[i].key = items[i].key /\ i < n /\ Len(from) = m /\ i \in 1 .. n
      BY <1>2
    <2>2. CASE i < m
      <3>1. i + 1 \in 2 .. m /\ i + 1 \in 1 .. m
        BY <1>2, <2>2
      <3>2. from[i + 1].key = items[i + 1].key
        BY <1>2, <3>1
      <3>3. items[i + 1].key < mid /\ items[i + 1].key \in Int
        BY <1>3, <1>6, <3>1
      <3>4. \A k \in R : k < items[i + 1].key => k < mid
        BY <1>5, <3>3
      <3>5. QED
        BY <1>1, <2>1, <2>2, <3>2, <3>4 DEF Slice
    <2>3. CASE i = m
      BY <1>1, <1>2, <2>1, <2>3 DEF Slice
    <2>4. QED
      BY <1>2, <2>2, <2>3
  <1>11. ASSUME NEW i \in 1 .. n - m PROVE Slice(H, to, i) = Slice(R, items, m + i)
    <2>1. m + i > 1 /\ (m + i < n <=> i < n - m) /\ (m + i) + 1 = m + (i + 1)
      BY <1>2
    <2>2. i < n - m => to[i + 1].key = items[(m + i) + 1].key
      <3>1. ASSUME i < n - m PROVE to[i + 1].key = items[(m + i) + 1].key
        <4>1. i + 1 \in 2 .. n - m
          BY <1>2, <3>1
        <4>2. QED
          BY <1>2, <2>1, <4>1
      <3>2. QED
        BY <3>1
    <2>3. CASE i = 1
      <3>1. items[m + i].key = mid
        BY <2>3
      <3>2. QED
        BY <1>1, <1>2, <2>1, <2>2, <2>3, <3>1 DEF Slice
    <2>4. CASE i > 1
      <3>1. i \in 2 .. n - m
        BY <1>2, <2>4
      <3>2. to[i].key = items[m + i].key /\ mid < items[m + i].key /\ items[m + i].key \in Int
        BY <1>2, <1>3, <1>7, <3>1
      <3>3. \A k \in R : items[m + i].key <= k => mid <= k
        BY <1>5, <3>2
      <3>4. QED
        BY <1>1, <1>2, <2>1, <2>2, <2>4, <3>2, <3>3 DEF Slice
    <2>5. QED
      BY <1>2, <2>3, <2>4
  <1>12. QED
    BY <1>1, <1>5, <1>8, <1>9, <1>10, <1>11

LEMMA LeafHalves ==
  ASSUME NEW items \in Seq(ItemType), NEW R \in SUBSET Int, LeafOK(items, R),
         NEW from, NEW to, NEW m, Halves(items, from, to, m), to[1] = items[m + 1],
         NEW mid, mid = items[m + 1].key,
         NEW L, L = Below(R, mid), NEW H, H = From(R, mid)
  PROVE  LeafOK(from, L) /\ LeafOK(to, H) /\ mid \in R /\ L # {}
  <1> USE DEF Below, From
  <1>1. PICK n : n = Len(items)
    OBVIOUS
  <1>2. /\ n \in Nat /\ m \in Nat /\ 1 <= m /\ m < n
        /\ Len(from) = m /\ Len(to) = n - m
        /\ \A i \in 1 .. m : from[i] = items[i]
        /\ \A i \in 2 .. n - m : to[i] = items[m + i]
    BY <1>1 DEF Halves
  <1>3. \A i \in 1 .. n - m : to[i] = items[m + i]
    <2>1. \A i \in 1 .. n - m : i = 1 \/ i \in 2 .. n - m
      BY <1>2
    <2>2. QED
      BY <1>2, <2>1
  <1>4. /\ \A i \in 1 .. n : items[i].key \in Int /\ items[i].key \in R /\ items[i].val \in Values
        /\ \A a, b \in 1 .. n : a < b => items[a].key < items[b].key
    BY <1>1, ItemsOf DEF LeafOK, Increasing
  <1>5. m + 1 \in 1 .. n
    BY <1>2
  <1>6. mid \in R /\ mid \in Int
    BY <1>4, <1>5
  <1>7. \A i \in 1 .. m : i \in 1 .. n /\ i < m + 1 /\ items[i].key < mid
    <2>1. \A i \in 1 .. m : i \in 1 .. n /\ i < m + 1
      BY <1>2
    <2>2. QED
      BY <1>4, <1>5, <2>1
  <1>8. ASSUME NEW i \in 1 .. n - m PROVE m + i \in 1 .. n /\ mid <= items[m + i].key
    <2>1. m + i \in 1 .. n /\ (m + i = m + 1 \/ m + 1 < m + i)
      BY <1>2
    <2>2. QED
      BY <1>4, <1>5, <1>6, <2>1
  <1>9. LeafOK(from, L)
    <2>1. Increasing(from)
      BY <1>2, <1>4, <1>7 DEF Increasing
    <2>2. \A i \in 1 .. m : from[i].key \in L /\ from[i].val \in Values
      BY <1>2, <1>4, <1>7
    <2>3. QED
      BY <1>2, <2>1, <2>2 DEF LeafOK
  <1>10. LeafOK(to, H)
    <2>1. ASSUME NEW a \in 1 .. n - m, NEW b \in 1 .. n - m, a < b PROVE to[a].key < to[b].key
      <3>1. m + a \in 1 .. n /\ m + b \in 1 .. n /\ m + a < m + b
        BY <1>2, <2>1
      <3>2. QED
        BY <1>3, <1>4, <3>1
    <2>2. Increasing(to)
      BY <1>2, <2>1 DEF Increasing
    <2>3. \A i \in 1 .. n - m : to[i].key \in H /\ to[i].val \in Values
      BY <1>3, <1>4, <1>8
    <2>4. QED
      BY <1>2, <2>2, <2>3 DEF LeafOK
  <1>11. 1 \in 1 .. m
    BY <1>2
  <1>12. items[1].key \in L
    BY <1>4, <1>7, <1>11
  <1>13. QED
    BY <1>6, <1>9, <1>10, <1>12

-----------------------------------------------------------------------------
(* A split, with its separator in the parent, keeps the tree.              *)

SplitInto(P, Q, p, q, new, m) ==
  /\ p \in DOMAIN P /\ q = P[p].parent /\ q \in DOMAIN P
  /\ new \in PageIds /\ new \notin DOMAIN P
  /\ DOMAIN Q = DOMAIN P \cup {new}
  /\ \A x \in DOMAIN Q : Q[x] \in PageType
  /\ \A x \in DOMAIN P : Q[x].leaf = P[x].leaf
  /\ \A x \in DOMAIN P : x # p /\ x # q => Q[x].items = P[x].items
  /\ \A x \in DOMAIN P : ~P[p].leaf /\ Lists(Q, new, x) => Q[x].parent = new
  /\ \A x \in DOMAIN P : P[p].leaf \/ ~Lists(Q, new, x) => Q[x].parent = P[x].parent
  /\ Q[new].leaf = P[p].leaf /\ Q[new].parent = q
  /\ Halves(P[p].items, Q[p].items, Q[new].items, m)
  /\ P[p].leaf => Q[new].items[1] = P[p].items[m + 1]
  /\ Q[q].items = InsertNodeAfter(P[q].items, p, P[p].items[m + 1].key, new)

LEMMA SplitOK ==
  ASSUME NEW P, NEW rt, NEW rng, NEW lev, TreeOK(P, rt, rng, lev), Keys \subseteq Int,
         NoPage \notin PageIds,
         NEW Q, NEW p, NEW q, NEW new, NEW m, SplitInto(P, Q, p, q, new, m)
  PROVE  \E r, l : TreeOK(Q, rt, r, l)
  <1> DEFINE D == DOMAIN P
             mid == P[p].items[m + 1].key
             L == Below(rng[p], mid)
             H == From(rng[p], mid)
             r == [x \in D \cup {new} |-> IF x = p THEN L ELSE IF x = new THEN H ELSE rng[x]]
             l == [x \in D \cup {new} |-> IF x = new THEN lev[p] ELSE lev[x]]
  <1>1. /\ p \in D /\ q = P[p].parent /\ q \in D
        /\ new \in PageIds /\ new \notin D
        /\ DOMAIN Q = D \cup {new}
        /\ \A x \in D \cup {new} : Q[x] \in PageType
        /\ \A x \in D : Q[x].leaf = P[x].leaf
        /\ \A x \in D : x # p /\ x # q => Q[x].items = P[x].items
    BY DEF SplitInto
  <1>2. /\ \A x \in D : ~P[p].leaf /\ Lists(Q, new, x) => Q[x].parent = new
        /\ \A x \in D : P[p].leaf \/ ~Lists(Q, new, x) => Q[x].parent = P[x].parent
        /\ Q[new].leaf = P[p].leaf /\ Q[new].parent = q
        /\ Halves(P[p].items, Q[p].items, Q[new].items, m)
        /\ P[p].leaf => Q[new].items[1] = P[p].items[m + 1]
        /\ Q[q].items = InsertNodeAfter(P[q].items, p, mid, new)
    BY DEF SplitInto
  <1>3. IsFiniteSet(D) /\ D \subseteq PageIds /\ rt \in D /\ P[rt].parent = NoPage /\ rng[rt] = Keys
    BY DEF TreeOK
  <1>4. p # rt
    BY <1>1, <1>3
  <1>5. \A x \in D : /\ NodeOK(P, rng, lev, x) /\ P[x].items \in Seq(ItemType)
                     /\ lev[x] \in Nat /\ lev[x] <= lev[rt] /\ rng[x] \subseteq Keys
                     /\ rng[x] \subseteq Int /\ rng[x] # {} /\ P[x].leaf \in BOOLEAN
    BY NodeFacts
  <1>6. ~P[q].leaf /\ lev[p] + 1 = lev[q]
    BY <1>1, <1>4, ParentFacts
  <1>7. PICK j \in 1 .. Len(P[q].items) :
          P[q].items[j].val = p /\ rng[p] = Slice(rng[q], P[q].items, j)
    BY <1>1, <1>4, ParentFacts
  <1>8. p # q /\ rt # new /\ p # new /\ q # new
    BY <1>1, <1>3, <1>5, <1>6
  <1>9. /\ \A x \in D : x # p => r[x] = rng[x]
        /\ \A x \in D : l[x] = lev[x]
        /\ r[p] = L /\ r[new] = H /\ l[new] = lev[p]
    BY <1>1, <1>8
  \* The halves and their separator.
  <1>10. ASSUME P[p].leaf
         PROVE  LeafOK(Q[p].items, L) /\ LeafOK(Q[new].items, H) /\ mid \in rng[p] /\ L # {}
    <2>1. LeafOK(P[p].items, rng[p]) /\ P[p].items \in Seq(ItemType) /\ rng[p] \in SUBSET Int
      BY <1>1, <1>5, <1>10 DEF NodeOK
    <2>2. PICK items, from, to, R : /\ items = P[p].items /\ from = Q[p].items
                                    /\ to = Q[new].items /\ R = rng[p]
      OBVIOUS
    <2>3. /\ items \in Seq(ItemType) /\ R \in SUBSET Int /\ LeafOK(items, R)
          /\ Halves(items, from, to, m) /\ to[1] = items[m + 1] /\ mid = items[m + 1].key
          /\ L = Below(R, mid) /\ H = From(R, mid)
      BY <1>2, <1>10, <2>1, <2>2
    <2> HIDE DEF L, H, mid
    <2>4. LeafOK(from, L) /\ LeafOK(to, H) /\ mid \in R /\ L # {}
      BY <2>3, LeafHalves
    <2>5. QED
      BY <2>2, <2>4
  <1>11. ASSUME ~P[p].leaf
         PROVE  /\ Separators(Q[p].items, L) /\ Separators(Q[new].items, H) /\ mid \in rng[p]
                /\ \A i \in 1 .. m : Slice(L, Q[p].items, i) = Slice(rng[p], P[p].items, i)
                /\ \A i \in 1 .. Len(P[p].items) - m :
                     Slice(H, Q[new].items, i) = Slice(rng[p], P[p].items, m + i)
    <2>1. Separators(P[p].items, rng[p]) /\ P[p].items \in Seq(ItemType) /\ rng[p] \in SUBSET Int
      BY <1>1, <1>5, <1>11, InnerFacts
    <2>2. PICK items, from, to, R : /\ items = P[p].items /\ from = Q[p].items
                                    /\ to = Q[new].items /\ R = rng[p]
      OBVIOUS
    <2>3. /\ items \in Seq(ItemType) /\ R \in SUBSET Int /\ Separators(items, R)
          /\ Halves(items, from, to, m) /\ mid = items[m + 1].key
          /\ L = Below(R, mid) /\ H = From(R, mid)
      BY <1>2, <2>1, <2>2
    <2> HIDE DEF L, H, mid
    <2>4. /\ Separators(from, L) /\ Separators(to, H) /\ mid \in R
          /\ \A i \in 1 .. m : Slice(L, from, i) = Slice(R, items, i)
          /\ \A i \in 1 .. Len(items) - m : Slice(H, to, i) = Slice(R, items, m + i)
      BY <2>3, InnerHalves
    <2>5. QED
      BY <2>2, <2>4
  <1>12. mid \in rng[p] /\ mid \in Int /\ mid \in H
    <2>1. mid \in rng[p]
      BY <1>1, <1>5, <1>10, <1>11
    <2>2. QED
      BY <1>1, <1>5, <2>1 DEF From
  <1>13. /\ m \in Nat /\ 1 <= m /\ m < Len(P[p].items) /\ Len(P[p].items) \in Nat
         /\ Len(Q[p].items) = m /\ Len(Q[new].items) = Len(P[p].items) - m
         /\ \A i \in 1 .. m : Q[p].items[i] = P[p].items[i]
         /\ \A i \in 1 .. Len(P[p].items) - m : Q[new].items[i].val = P[p].items[m + i].val
    BY <1>1, <1>2, <1>5, ItemsOf DEF Halves
  <1>14. L # {}
    <2>1. CASE P[p].leaf
      BY <1>10, <2>1
    <2>2. CASE ~P[p].leaf
      <3>1. 1 \in 1 .. Len(P[p].items) /\ 1 \in 1 .. m
        BY <1>13
      <3>2. PICK c : c = P[p].items[1].val
        OBVIOUS
      <3>3. ChildOK(P, rng, lev, p, 1, c)
        BY <1>1, <2>2, <3>1, <3>2, InnerFacts
      <3>4. c \in D /\ rng[c] = Slice(rng[p], P[p].items, 1)
        BY <3>3 DEF ChildOK
      <3>5. Slice(L, Q[p].items, 1) # {}
        BY <1>5, <1>11, <2>2, <3>1, <3>4
      <3>6. QED
        BY <3>5 DEF Slice
    <2>3. QED
      BY <1>1, <1>5, <2>1, <2>2
  <1> HIDE DEF L, H, r, l, mid
  \* Where the children hang.
  <1>15. \A x \in D : ~P[p].leaf /\ Lists(Q, new, x) => P[x].parent = p
    <2>1. ASSUME NEW x \in D, ~P[p].leaf, Lists(Q, new, x) PROVE P[x].parent = p
      <3>1. PICK i \in 1 .. Len(Q[new].items) : Q[new].items[i].val = x
        BY <2>1 DEF Lists
      <3>2. m + i \in 1 .. Len(P[p].items) /\ P[p].items[m + i].val = x
        <4>1. i \in 1 .. Len(P[p].items) - m
          BY <1>13, <3>1
        <4>2. m + i \in 1 .. Len(P[p].items)
          BY <1>13, <4>1
        <4>3. QED
          BY <1>13, <3>1, <4>1, <4>2
      <3>3. ChildOK(P, rng, lev, p, m + i, x)
        BY <1>1, <2>1, <3>2, InnerFacts
      <3>4. QED
        BY <3>3 DEF ChildOK
    <2>2. QED
      BY <2>1
  <1>16. \A x \in D : P[x].parent # p => Q[x].parent = P[x].parent
    BY <1>2, <1>15
  \* The parent.
  <1>17. NodeOK(Q, r, l, q)
    <2>1. PICK items, t, e, n : /\ items = P[q].items /\ t = Q[q].items /\ e = Item(mid, new)
                                /\ n = Len(items)
      OBVIOUS
    <2>2. /\ items \in Seq(ItemType) /\ Separators(items, rng[q]) /\ Distinct(items)
          /\ j \in 1 .. Len(items) /\ items[j].val = p /\ n \in Nat /\ n >= 1
          /\ rng[q] \in SUBSET Int
      BY <1>1, <1>5, <1>6, <1>7, <2>1, InnerFacts
    <2>3. Inserted(ItemType, items, j + 1, e, t)
      BY <1>1, <1>2, <1>12, <2>1, <2>2, InsertNodeAfterIs
    <2>4. e.key = mid /\ e.val = new
      BY <2>1 DEF Item
    <2>5. SlicesAfter(rng[q], items, t, j, mid)
      <3>1. e.key \in Slice(rng[q], items, j)
        BY <1>7, <1>12, <2>1, <2>4
      <3>2. \E k \in Slice(rng[q], items, j) : k < e.key
        BY <1>7, <1>14, <2>1, <2>4 DEF L, Below
      <3>3. QED
        BY <2>2, <2>3, <2>4, <3>1, <3>2, SeparatorAdded
    <2>6. /\ Separators(t, rng[q])
          /\ \A i \in 1 .. n : i < j => Slice(rng[q], t, i) = Slice(rng[q], items, i)
          /\ Slice(rng[q], t, j) = L /\ Slice(rng[q], t, j + 1) = H
          /\ \A i \in 1 .. n : j < i => Slice(rng[q], t, i + 1) = Slice(rng[q], items, i)
      BY <1>7, <2>1, <2>5 DEF SlicesAfter, L, H, Below, From
    <2>7. /\ t \in Seq(ItemType) /\ Len(t) = n + 1 /\ t[j + 1].val = new
          /\ \A i \in 1 .. n : i < j + 1 => t[i].val = items[i].val
          /\ \A i \in 1 .. n : ~(i < j + 1) => t[i + 1].val = items[i].val
      BY <2>1, <2>3, <2>4 DEF Inserted
    <2> DEFINE Old(i) == IF i < j + 1 THEN i ELSE i - 1
    <2>8. ASSUME NEW i \in 1 .. n + 1, i # j + 1
          PROVE  Old(i) \in 1 .. n /\ t[i].val = items[Old(i)].val
      <3>1. CASE i < j + 1
        <4>1. i \in 1 .. n
          BY <2>1, <2>2, <3>1
        <4>2. QED
          BY <2>7, <3>1, <4>1
      <3>2. CASE ~(i < j + 1)
        <4>1. i - 1 \in 1 .. n /\ ~(i - 1 < j + 1) /\ (i - 1) + 1 = i
          BY <2>2, <2>8, <3>2
        <4>2. QED
          BY <2>7, <3>2, <4>1
      <3>3. QED
        BY <3>1, <3>2
    <2>9. ASSUME NEW i \in 1 .. n
          PROVE  /\ items[i].val \in D /\ P[items[i].val].parent = q
                 /\ lev[items[i].val] + 1 = lev[q]
                 /\ rng[items[i].val] = Slice(rng[q], items, i)
      <3>1. ChildOK(P, rng, lev, q, i, items[i].val)
        BY <1>1, <1>6, <2>1, InnerFacts
      <3>2. QED
        BY <2>1, <3>1 DEF ChildOK
    <2>10. Distinct(t)
      <3>1. SUFFICES ASSUME NEW a \in 1 .. n + 1, NEW b \in 1 .. n + 1, t[a].val = t[b].val
                     PROVE  a = b
        BY <2>7 DEF Distinct
      <3>2. CASE a = j + 1 \/ b = j + 1
        BY <1>1, <2>7, <2>8, <2>9, <3>1, <3>2
      <3>3. CASE a # j + 1 /\ b # j + 1
        <4>1. /\ Old(a) \in 1 .. n /\ t[a].val = items[Old(a)].val
              /\ Old(b) \in 1 .. n /\ t[b].val = items[Old(b)].val
          BY <2>8, <3>3
        <4> HIDE DEF Old
        <4>2. Old(a) = Old(b)
          BY <2>1, <2>2, <3>1, <4>1 DEF Distinct
        <4>3. QED
          BY <2>2, <3>3, <4>2 DEF Old
      <3>4. QED
        BY <3>2, <3>3
    <2>11. ASSUME NEW i \in 1 .. n + 1 PROVE ChildOK(Q, r, l, q, i, t[i].val)
      <3>1. r[q] = rng[q] /\ l[q] = lev[q]
        BY <1>1, <1>8, <1>9
      <3>2. CASE i = j + 1
        <4>1. t[i].val = new
          BY <2>7, <3>2
        <4>2. r[new] = Slice(rng[q], t, i)
          BY <1>9, <2>6, <3>2
        <4>3. QED
          BY <1>1, <1>2, <1>6, <1>9, <2>1, <3>1, <4>1, <4>2 DEF ChildOK
      <3>3. CASE i = j
        <4>1. i # j + 1 /\ Old(i) = j /\ i < j + 1
          BY <2>2, <3>3
        <4>2. t[i].val = p
          BY <2>2, <2>8, <4>1
        <4>3. r[p] = Slice(rng[q], t, i)
          BY <1>9, <2>6, <3>3
        <4>4. Q[p].parent = q
          BY <1>1, <1>8, <1>16
        <4>5. QED
          BY <1>1, <1>6, <1>9, <2>1, <3>1, <4>2, <4>3, <4>4 DEF ChildOK
      <3>4. CASE i # j + 1 /\ i # j
        <4>1. PICK c, o : c = t[i].val /\ o = Old(i)
          OBVIOUS
        <4>2. o \in 1 .. n /\ c = items[o].val
          BY <2>8, <3>4, <4>1
        <4>3. o # j /\ (o < j => i = o) /\ (~(o < j) => j < o /\ i = o + 1)
          BY <2>2, <3>4, <4>1, <4>2
        <4>4. c # p
          BY <2>1, <2>2, <4>2, <4>3 DEF Distinct
        <4>5. c \in D /\ P[c].parent = q /\ lev[c] + 1 = lev[q] /\ rng[c] = Slice(rng[q], items, o)
          BY <2>9, <4>2
        <4>6. Slice(rng[q], t, i) = Slice(rng[q], items, o)
          BY <2>6, <4>2, <4>3
        <4>7. Q[c].parent = q /\ r[c] = rng[c] /\ l[c] = lev[c]
          BY <1>8, <1>9, <1>16, <4>4, <4>5
        <4>8. QED
          BY <1>1, <2>1, <3>1, <4>1, <4>5, <4>6, <4>7 DEF ChildOK
      <3>5. QED
        BY <3>2, <3>3, <3>4
    <2>12. InnerOK(Q, r, l, q)
      <3>1. r[q] = rng[q]
        BY <1>1, <1>8, <1>9
      <3>2. Len(t) >= 1
        BY <2>2, <2>7
      <3>3. QED
        BY <2>1, <2>6, <2>7, <2>10, <2>11, <3>1, <3>2 DEF InnerOK
    <2>13. QED
      BY <1>1, <1>5, <1>6, <1>8, <1>9, <2>12 DEF NodeOK
  \* The two halves.
  <1>18. NodeOK(Q, r, l, p) /\ NodeOK(Q, r, l, new)
    <2>1. /\ Q[p] \in PageType /\ Q[new] \in PageType /\ l[p] = lev[p] /\ l[new] = lev[p]
          /\ lev[p] \in Nat /\ L \subseteq Keys /\ H \subseteq Keys /\ L # {} /\ H # {}
          /\ Q[p].leaf = P[p].leaf /\ Q[new].leaf = P[p].leaf
      BY <1>1, <1>2, <1>5, <1>9, <1>12, <1>14 DEF L, H, Below, From
    <2>2. CASE P[p].leaf
      <3>1. lev[p] = 0
        BY <1>1, <1>5, <2>2 DEF NodeOK
      <3>2. QED
        BY <1>9, <1>10, <2>1, <2>2, <3>1 DEF NodeOK
    <2>3. CASE ~P[p].leaf
      <3>1. PICK items, n : items = P[p].items /\ n = Len(items)
        OBVIOUS
      <3>2. /\ n \in Nat /\ Distinct(items) /\ m \in Nat /\ 1 <= m /\ m < n
            /\ \A i \in 1 .. n : ChildOK(P, rng, lev, p, i, items[i].val)
        BY <1>1, <1>13, <2>3, <3>1, InnerFacts
      <3>3. ASSUME NEW i \in 1 .. m PROVE ChildOK(Q, r, l, p, i, Q[p].items[i].val)
        <4>1. PICK c : c = items[i].val
          OBVIOUS
        <4>2. i \in 1 .. n /\ Q[p].items[i].val = c
          BY <1>13, <3>1, <3>2, <4>1
        <4>3. /\ c \in D /\ P[c].parent = p /\ lev[c] + 1 = lev[p]
              /\ rng[c] = Slice(rng[p], items, i)
          BY <3>1, <3>2, <4>1, <4>2 DEF ChildOK
        <4>4. ~Lists(Q, new, c)
          <5>1. ASSUME NEW x \in 1 .. n - m PROVE Q[new].items[x].val # c
            <6>1. m + x \in 1 .. n /\ m + x # i
              BY <3>2
            <6>2. items[m + x].val # c
              BY <3>1, <3>2, <4>1, <4>2, <6>1 DEF Distinct
            <6>3. QED
              BY <1>13, <3>1, <6>2
          <5>2. QED
            BY <1>13, <3>1, <5>1 DEF Lists
        <4>5. Q[c].parent = p
          BY <1>2, <4>3, <4>4
        <4>6. c # p /\ c # new
          BY <1>1, <1>8, <4>3
        <4>7. r[c] = Slice(L, Q[p].items, i)
          BY <1>9, <1>11, <2>3, <3>1, <4>3, <4>6
        <4>8. QED
          BY <1>1, <1>9, <2>1, <4>2, <4>3, <4>5, <4>7 DEF ChildOK
      <3>4. ASSUME NEW i \in 1 .. n - m PROVE ChildOK(Q, r, l, new, i, Q[new].items[i].val)
        <4>1. PICK c : c = items[m + i].val
          OBVIOUS
        <4>2. m + i \in 1 .. n /\ Q[new].items[i].val = c
          BY <1>13, <3>1, <3>2, <4>1
        <4>3. /\ c \in D /\ P[c].parent = p /\ lev[c] + 1 = lev[p]
              /\ rng[c] = Slice(rng[p], items, m + i)
          BY <3>1, <3>2, <4>1, <4>2 DEF ChildOK
        <4>4. Lists(Q, new, c)
          BY <1>13, <3>1, <4>2 DEF Lists
        <4>5. Q[c].parent = new
          BY <1>2, <2>3, <4>3, <4>4
        <4>6. c # p /\ c # new
          BY <1>1, <1>8, <4>3
        <4>7. r[c] = Slice(H, Q[new].items, i)
          BY <1>9, <1>11, <2>3, <3>1, <4>3, <4>6
        <4>8. QED
          BY <1>1, <1>9, <2>1, <4>2, <4>3, <4>5, <4>7 DEF ChildOK
      <3>5. Distinct(Q[p].items)
        <4>1. \A i \in 1 .. m : i \in 1 .. n /\ Q[p].items[i].val = items[i].val
          BY <1>13, <3>1, <3>2
        <4>2. SUFFICES ASSUME NEW a \in 1 .. m, NEW b \in 1 .. m,
                              Q[p].items[a].val = Q[p].items[b].val
                       PROVE  a = b
          BY <1>13, <3>1 DEF Distinct
        <4>3. a \in 1 .. n /\ b \in 1 .. n /\ items[a].val = items[b].val
          BY <4>1, <4>2
        <4>4. QED
          BY <3>1, <3>2, <4>3 DEF Distinct
      <3>6. Distinct(Q[new].items)
        <4>1. SUFFICES ASSUME NEW a \in 1 .. n - m, NEW b \in 1 .. n - m,
                              Q[new].items[a].val = Q[new].items[b].val
                       PROVE  a = b
          BY <1>13, <3>1 DEF Distinct
        <4>2. m + a \in 1 .. n /\ m + b \in 1 .. n
          BY <3>2
        <4>3. items[m + a].val = items[m + b].val
          BY <1>13, <3>1, <4>1
        <4>4. m + a = m + b
          BY <3>1, <3>2, <4>2, <4>3 DEF Distinct
        <4>5. QED
          BY <3>2, <4>4
      <3>7. InnerOK(Q, r, l, p)
        BY <1>9, <1>11, <1>13, <2>3, <3>3, <3>5 DEF InnerOK
      <3>8. InnerOK(Q, r, l, new)
        <4>1. Len(Q[new].items) = n - m /\ n - m >= 1
          BY <1>13, <3>1, <3>2
        <4>2. QED
          BY <1>9, <1>11, <2>3, <3>4, <3>6, <4>1 DEF InnerOK
      <3>9. QED
        BY <1>9, <2>1, <2>3, <3>7, <3>8 DEF NodeOK
    <2>4. QED
      BY <2>2, <2>3
  \* The other pages.
  <1>19. ASSUME NEW x \in D, x # p, x # q PROVE NodeOK(Q, r, l, x)
    <2>1. /\ Q[x] \in PageType /\ Q[x].leaf = P[x].leaf /\ Q[x].items = P[x].items
          /\ r[x] = rng[x] /\ l[x] = lev[x]
      BY <1>1, <1>9, <1>19
    <2>2. NodeOK(P, rng, lev, x)
      BY <1>5
    <2>3. ASSUME ~P[x].leaf PROVE InnerOK(Q, r, l, x)
      <3>1. ASSUME NEW i \in 1 .. Len(P[x].items)
            PROVE  ChildOK(Q, r, l, x, i, P[x].items[i].val)
        <4>1. PICK c : c = P[x].items[i].val
          OBVIOUS
        <4>2. ChildOK(P, rng, lev, x, i, c)
          BY <2>3, <4>1, InnerFacts
        <4>3. /\ c \in D /\ P[c].parent = x /\ lev[c] + 1 = lev[x]
              /\ rng[c] = Slice(rng[x], P[x].items, i)
          BY <4>2 DEF ChildOK
        <4>4. c # p
          BY <1>1, <1>19, <4>3
        <4>5. Q[c].parent = x /\ r[c] = rng[c] /\ l[c] = lev[c]
          BY <1>9, <1>16, <1>19, <4>3, <4>4
        <4>6. QED
          BY <1>1, <2>1, <4>1, <4>3, <4>5 DEF ChildOK
      <3>2. QED
        BY <2>1, <2>3, <3>1, InnerFacts DEF InnerOK
    <2>4. QED
      BY <2>1, <2>2, <2>3 DEF NodeOK
  \* How the pages hang together.
  <1>20. Lists(Q, q, new) /\ \A x \in D : Lists(P, q, x) => Lists(Q, q, x)
    <2>1. PICK items, t, e, n : /\ items = P[q].items /\ t = Q[q].items /\ e = Item(mid, new)
                                /\ n = Len(items)
      OBVIOUS
    <2>2. /\ items \in Seq(ItemType) /\ Distinct(items)
          /\ j \in 1 .. Len(items) /\ items[j].val = p /\ n \in Nat
      BY <1>1, <1>5, <1>6, <1>7, <2>1, InnerFacts
    <2>3. Inserted(ItemType, items, j + 1, e, t)
      BY <1>1, <1>2, <1>12, <2>1, <2>2, InsertNodeAfterIs
    <2>4. e.val = new
      BY <2>1 DEF Item
    <2>5. /\ Len(t) = n + 1 /\ t[j + 1].val = new
          /\ \A i \in 1 .. n : i < j + 1 => t[i].val = items[i].val
          /\ \A i \in 1 .. n : ~(i < j + 1) => t[i + 1].val = items[i].val
      BY <2>1, <2>3, <2>4 DEF Inserted
    <2>6. j + 1 \in 1 .. n + 1 /\ \A i \in 1 .. n : i \in 1 .. n + 1 /\ i + 1 \in 1 .. n + 1
      BY <2>1, <2>2
    <2>7. Lists(Q, q, new)
      BY <2>1, <2>5, <2>6 DEF Lists
    <2>8. ASSUME NEW x \in D, Lists(P, q, x) PROVE Lists(Q, q, x)
      <3>1. PICK i \in 1 .. n : items[i].val = x
        BY <2>1, <2>8 DEF Lists
      <3>2. \E a \in 1 .. n + 1 : t[a].val = x
        BY <2>5, <2>6, <3>1
      <3>3. QED
        BY <2>1, <2>5, <3>2 DEF Lists
    <2>9. QED
      BY <2>7, <2>8
  <1>21. ASSUME NEW x \in D PROVE HangsOK(Q, rt, l, x)
    <2>1. l[x] = lev[x] /\ l[rt] = lev[rt] /\ lev[x] <= lev[rt]
      BY <1>3, <1>5, <1>9
    <2>2. SUFFICES ASSUME x # rt
                   PROVE  /\ Q[x].parent \in DOMAIN Q /\ ~Q[Q[x].parent].leaf
                          /\ Lists(Q, Q[x].parent, x)
      BY <2>1 DEF HangsOK
    <2>3. PICK y : y = P[x].parent
      OBVIOUS
    <2>4. y \in D /\ ~P[y].leaf /\ Lists(P, y, x)
      BY <2>2, <2>3, NodeFacts DEF HangsOK
    <2>5. CASE ~P[p].leaf /\ Lists(Q, new, x)
      BY <1>1, <1>2, <2>5
    <2>6. CASE P[p].leaf \/ ~Lists(Q, new, x)
      <3>1. Q[x].parent = y
        BY <1>2, <2>3, <2>6
      <3>2. Lists(Q, y, x)
        <4>1. CASE y = q
          BY <1>20, <2>4, <4>1
        <4>2. CASE y = p
          <5>1. PICK i \in 1 .. Len(P[p].items) : P[p].items[i].val = x
            BY <2>4, <4>2 DEF Lists
          <5>2. CASE i \in 1 .. m
            BY <1>13, <4>2, <5>1, <5>2 DEF Lists
          <5>3. CASE ~(i \in 1 .. m)
            <6>1. i - m \in 1 .. Len(P[p].items) - m /\ m + (i - m) = i
              BY <1>13, <5>3
            <6>2. Lists(Q, new, x)
              <7>1. PICK a : a = i - m
                OBVIOUS
              <7>2. a \in 1 .. Len(Q[new].items) /\ Q[new].items[a].val = P[p].items[m + a].val
                BY <1>13, <6>1, <7>1
              <7>3. Q[new].items[a].val = x
                BY <5>1, <6>1, <7>1, <7>2
              <7>4. QED
                BY <7>2, <7>3 DEF Lists
            <6>3. QED
              BY <2>4, <2>6, <4>2, <6>2
          <5>4. QED
            BY <5>2, <5>3
        <4>3. CASE y # p /\ y # q
          <5>1. Q[y].items = P[y].items
            BY <1>1, <2>4, <4>3
          <5>2. QED
            BY <2>4, <5>1 DEF Lists
        <4>4. QED
          BY <4>1, <4>2, <4>3
      <3>3. QED
        BY <1>1, <2>4, <3>1, <3>2
    <2>7. QED
      BY <1>1, <1>5, <2>5, <2>6
  <1>22. HangsOK(Q, rt, l, new)
    BY <1>1, <1>2, <1>3, <1>5, <1>6, <1>8, <1>9, <1>20 DEF HangsOK
  <1>23. TreeOK(Q, rt, r, l)
    <2>1. IsFiniteSet(D \cup {new})
      BY <1>3, FS_AddElement
    <2>2. Q[rt].parent = NoPage /\ r[rt] = Keys
      <3>1. P[rt].parent # p
        BY <1>1, <1>3
      <3>2. QED
        BY <1>3, <1>4, <1>9, <1>16, <3>1
    <2>3. \A x \in D \cup {new} : NodeOK(Q, r, l, x)
      BY <1>17, <1>18, <1>19
    <2>4. \A x \in D \cup {new} : HangsOK(Q, rt, l, x)
      BY <1>21, <1>22
    <2>5. QED
      BY <1>1, <1>3, <2>1, <2>2, <2>3, <2>4 DEF TreeOK
  <1>24. QED
    BY <1>23

-----------------------------------------------------------------------------
(* Page ids that no page uses.                                             *)

LEMMA FiniteImage ==
  ASSUME NEW S, IsFiniteSet(S), NEW f
  PROVE  IsFiniteSet({f[x] : x \in S})
  <1> DEFINE T == {f[x] : x \in S}
             g == [x \in S |-> f[x]]
  <1>1. g \in Surjection(S, T)
    BY DEF Surjection
  <1>2. QED
    BY <1>1, FS_Surjection

LEMMA MentionedFinite ==
  ASSUME IsFiniteSet(DOMAIN pages), \A p \in DOMAIN pages : pages[p] \in PageType
  PROVE  IsFiniteSet(Mentioned)
  <1> DEFINE vals(p) == {pages[p].items[i].val : i \in DOMAIN pages[p].items}
             f == [p \in DOMAIN pages |-> {pages[p].parent, pages[p].next} \cup vals(p)]
             T == {f[p] : p \in DOMAIN pages}
  <1>1. ASSUME NEW p \in DOMAIN pages PROVE IsFiniteSet(f[p])
    <2>1. pages[p].items \in Seq(ItemType)
      BY DEF PageType
    <2>2. DOMAIN pages[p].items = 1 .. Len(pages[p].items) /\ Len(pages[p].items) \in Int
      BY <2>1
    <2>3. IsFiniteSet(DOMAIN pages[p].items)
      BY <2>2, FS_Interval
    <2>4. PICK g : g = [i \in DOMAIN pages[p].items |-> pages[p].items[i].val]
      OBVIOUS
    <2>5. vals(p) = {g[i] : i \in DOMAIN pages[p].items}
      BY <2>4
    <2> HIDE DEF vals
    <2>6. IsFiniteSet(vals(p))
      BY <2>3, <2>5, FiniteImage
    <2>7. IsFiniteSet(vals(p) \cup {pages[p].parent})
      BY <2>6, FS_AddElement
    <2>8. IsFiniteSet((vals(p) \cup {pages[p].parent}) \cup {pages[p].next})
      BY <2>7, FS_AddElement
    <2>9. f[p] = (vals(p) \cup {pages[p].parent}) \cup {pages[p].next}
      OBVIOUS
    <2>10. QED
      BY <2>8, <2>9
  <1>2. Mentioned = UNION T
    BY DEF Mentioned
  <1> HIDE DEF f
  <1>3. IsFiniteSet(T)
    BY FiniteImage
  <1>4. \A t \in T : IsFiniteSet(t)
    BY <1>1
  <1>5. QED
    BY <1>2, <1>3, <1>4, FS_UNION

LEMMA MinOf ==
  ASSUME NEW S \in SUBSET Nat, S # {}
  PROVE  Min(S) \in S
  <1>1. PICK m \in S : \A n \in S : m <= n
    BY LeastOf
  <1>2. QED
    BY <1>1 DEF Min

LEMMA FreshFacts ==
  ASSUME Growing, IsFiniteSet(DOMAIN pages), \A p \in DOMAIN pages : pages[p] \in PageType,
         IsFiniteSet(Pinned)
  PROVE  /\ NewPageId \in PageIds /\ NewPageId \notin DOMAIN pages
         /\ SecondPageId \in PageIds /\ SecondPageId \notin DOMAIN pages
         /\ SecondPageId # NewPageId
  <1> DEFINE F == (DOMAIN pages \cup Pinned) \cup Mentioned
             one == NewPageId
             two == SecondPageId
  <1>1. IsFiniteSet(F)
    <2>1. IsFiniteSet(DOMAIN pages \cup Pinned)
      BY FS_Union
    <2>2. IsFiniteSet(Mentioned)
      BY MentionedFinite
    <2>3. QED
      BY <2>1, <2>2, FS_Union
  <1>2. PageIds \subseteq Nat /\ ~IsFiniteSet(PageIds)
    BY DEF Growing
  <1>3. FreshIds = PageIds \ F
    BY DEF FreshIds
  <1>4. DOMAIN pages \subseteq F
    OBVIOUS
  <1> HIDE DEF F
  <1>5. ASSUME NEW x PROVE (PageIds \ F) \ {x} # {}
    <2>1. SUFFICES ASSUME (PageIds \ F) \ {x} = {} PROVE FALSE
      OBVIOUS
    <2>2. PageIds \in SUBSET (F \cup {x})
      BY <2>1
    <2>3. IsFiniteSet(F \cup {x})
      BY <1>1, FS_AddElement
    <2>4. IsFiniteSet(PageIds)
      BY <2>2, <2>3, FS_Subset
    <2>5. QED
      BY <1>2, <2>4
  <1>6. FreshIds # {} /\ FreshIds \in SUBSET Nat /\ FreshIds \subseteq PageIds
        /\ FreshIds \cap DOMAIN pages = {}
    BY <1>2, <1>3, <1>4, <1>5
  <1>7. NewPageId \in FreshIds
    BY <1>6, MinOf DEF NewPageId
  <1>8. SecondPageId \in FreshIds \ {NewPageId}
    <2>1. PICK T : T = FreshIds \ {NewPageId}
      OBVIOUS
    <2>2. T \in SUBSET Nat /\ T # {}
      BY <1>3, <1>5, <1>6, <2>1
    <2>3. SecondPageId = Min(T)
      BY <2>1 DEF SecondPageId
    <2>4. QED
      BY <2>1, <2>2, <2>3, MinOf
  <1>9. QED
    BY <1>6, <1>7, <1>8

-----------------------------------------------------------------------------
(* A new root above the old one.                                           *)

UnderNewRoot(P, rt, s) ==
  AddPage([P EXCEPT ![rt].parent = s], s, InternalPage(<<Item(0, rt)>>))

\* What the pages are then.
NewRootPages(P, rt, s, N) ==
  /\ DOMAIN N = DOMAIN P \cup {s}
  /\ \A x \in DOMAIN P : x # rt => N[x] = P[x]
  /\ N[rt] \in PageType /\ N[rt].leaf = P[rt].leaf /\ N[rt].parent = s
  /\ N[rt].items = P[rt].items
  /\ N[s] \in PageType /\ ~N[s].leaf /\ N[s].parent = NoPage
  /\ N[s].items = <<Item(0, rt)>>

LEMMA NewRootIs ==
  ASSUME NEW P, NEW rt, NEW rng, NEW lev, TreeOK(P, rt, rng, lev),
         NEW s \in PageIds, s \notin DOMAIN P
  PROVE  NewRootPages(P, rt, s, UnderNewRoot(P, rt, s))
  <1> DEFINE N == UnderNewRoot(P, rt, s)
             M == [P EXCEPT ![rt].parent = s]
  <1>1. rt \in DOMAIN P /\ rt \in PageIds /\ P[rt] \in PageType
    BY NodeFacts DEF TreeOK
  <1>2. DOMAIN M = DOMAIN P /\ \A x \in DOMAIN P : x # rt => M[x] = P[x]
    OBVIOUS
  <1>3. M[rt] = [P[rt] EXCEPT !.parent = s]
    BY <1>1
  <1>4. /\ M[rt] \in PageType /\ M[rt].leaf = P[rt].leaf /\ M[rt].parent = s
        /\ M[rt].items = P[rt].items /\ M[rt].next = P[rt].next
    BY <1>1, <1>3 DEF PageType
  <1> HIDE DEF M
  <1>5. N = AddPage(M, s, InternalPage(<<Item(0, rt)>>))
    BY DEF M, UnderNewRoot
  <1>6. DOMAIN N = DOMAIN P \cup {s} /\ N[s] = InternalPage(<<Item(0, rt)>>)
        /\ \A x \in DOMAIN P : N[x] = M[x]
    BY <1>2, <1>5 DEF AddPage
  <1> HIDE DEF N
  <1>7. /\ N[s] \in PageType /\ ~N[s].leaf /\ N[s].parent = NoPage
        /\ N[s].items = <<Item(0, rt)>>
    <2>1. Item(0, rt) \in ItemType
      BY <1>1 DEF Item, ItemType
    <2>2. <<Item(0, rt)>> \in Seq(ItemType)
      BY <2>1
    <2>3. QED
      BY <1>6, <2>2 DEF InternalPage, PageType
  <1>8. /\ DOMAIN N = DOMAIN P \cup {s}
        /\ \A x \in DOMAIN P : x # rt => N[x] = P[x]
        /\ N[rt] \in PageType /\ N[rt].leaf = P[rt].leaf /\ N[rt].parent = s
        /\ N[rt].items = P[rt].items /\ N[rt].next = P[rt].next
    BY <1>1, <1>2, <1>4, <1>6
  <1>9. QED
    BY <1>7, <1>8 DEF N, NewRootPages

LEMMA NewRootOK ==
  ASSUME NEW P, NEW rt, NEW rng, NEW lev, TreeOK(P, rt, rng, lev), NoPage \notin PageIds,
         NEW s \in PageIds, s \notin DOMAIN P
  PROVE  \E r, l : TreeOK(UnderNewRoot(P, rt, s), s, r, l)
  <1> DEFINE D == DOMAIN P
             N == UnderNewRoot(P, rt, s)
             r == [x \in D \cup {s} |-> IF x = s THEN Keys ELSE rng[x]]
             l == [x \in D \cup {s} |-> IF x = s THEN lev[rt] + 1 ELSE lev[x]]
  <1>1. IsFiniteSet(D) /\ D \subseteq PageIds /\ rt \in D /\ P[rt].parent = NoPage /\ rng[rt] = Keys
    BY DEF TreeOK
  <1>2. /\ DOMAIN N = D \cup {s}
        /\ \A x \in D : x # rt => N[x] = P[x]
        /\ N[rt] \in PageType /\ N[rt].leaf = P[rt].leaf /\ N[rt].parent = s
        /\ N[rt].items = P[rt].items
        /\ N[s] \in PageType /\ ~N[s].leaf /\ N[s].parent = NoPage
        /\ N[s].items = <<Item(0, rt)>>
    BY NewRootIs DEF NewRootPages
  <1>3. /\ \A x \in D : r[x] = rng[x] /\ l[x] = lev[x] /\ x # s
        /\ r[s] = Keys /\ l[s] = lev[rt] + 1
    OBVIOUS
  <1>4. \A x \in D : /\ NodeOK(P, rng, lev, x) /\ HangsOK(P, rt, lev, x)
                     /\ P[x].items \in Seq(ItemType) /\ P[x] \in PageType
                     /\ lev[x] \in Nat /\ lev[x] <= lev[rt] /\ rng[x] # {}
    BY NodeFacts
  <1> HIDE DEF N, r, l
  <1>5. \A x \in D : N[x] \in PageType /\ N[x].leaf = P[x].leaf /\ N[x].items = P[x].items
    BY <1>2, <1>4
  <1>6. ASSUME NEW x \in D PROVE NodeOK(N, r, l, x)
    <2>1. ASSUME ~P[x].leaf PROVE InnerOK(N, r, l, x)
      <3>1. ASSUME NEW i \in 1 .. Len(P[x].items) PROVE ChildOK(N, r, l, x, i, P[x].items[i].val)
        <4>1. PICK c : c = P[x].items[i].val
          OBVIOUS
        <4>2. ChildOK(P, rng, lev, x, i, c)
          BY <2>1, <4>1, InnerFacts
        <4>3. /\ c \in D /\ P[c].parent = x /\ lev[c] + 1 = lev[x]
              /\ rng[c] = Slice(rng[x], P[x].items, i)
          BY <4>2 DEF ChildOK
        <4>4. c # rt
          BY <1>1, <4>3
        <4>5. N[c].parent = x
          BY <1>2, <4>3, <4>4
        <4>6. QED
          BY <1>2, <1>3, <1>5, <4>1, <4>3, <4>5 DEF ChildOK
      <3>2. QED
        BY <1>3, <1>5, <2>1, <3>1, InnerFacts DEF InnerOK
    <2>2. QED
      BY <1>3, <1>4, <1>5, <2>1 DEF NodeOK
  <1>7. Len(N[s].items) = 1 /\ N[s].items[1].val = rt
    BY <1>2 DEF Item
  <1>8. NodeOK(N, r, l, s)
    <2>1. Slice(Keys, N[s].items, 1) = Keys
      BY <1>7 DEF Slice
    <2>2. ChildOK(N, r, l, s, 1, rt)
      BY <1>1, <1>2, <1>3, <2>1 DEF ChildOK
    <2>3. ASSUME NEW i \in 1 .. Len(N[s].items) PROVE i = 1
      BY <1>7
    <2>4. \A i \in 2 .. Len(N[s].items) : FALSE
      BY <1>7
    <2>5. InnerOK(N, r, l, s)
      BY <1>3, <1>7, <2>2, <2>3, <2>4 DEF InnerOK, Separators, Distinct
    <2>6. QED
      BY <1>1, <1>2, <1>3, <1>4, <2>5 DEF NodeOK
  <1>9. ASSUME NEW x \in D PROVE HangsOK(N, s, l, x)
    <2>1. l[x] <= l[s]
      BY <1>1, <1>3, <1>4
    <2>2. CASE x = rt
      <3>1. 1 \in 1 .. Len(N[s].items)
        BY <1>7
      <3>2. Lists(N, s, x)
        BY <1>7, <2>2, <3>1 DEF Lists
      <3>3. QED
        BY <1>2, <2>1, <2>2, <3>2 DEF HangsOK
    <2>3. CASE x # rt
      <3>1. P[x].parent \in D /\ ~P[P[x].parent].leaf /\ Lists(P, P[x].parent, x)
        BY <1>4, <2>3 DEF HangsOK
      <3>2. N[x].parent = P[x].parent
        BY <1>2, <2>3
      <3>3. Lists(N, P[x].parent, x)
        BY <1>5, <3>1 DEF Lists
      <3>4. QED
        BY <1>2, <1>5, <2>1, <3>1, <3>2, <3>3 DEF HangsOK
    <2>4. QED
      BY <2>2, <2>3
  <1>10. HangsOK(N, s, l, s)
    <2>1. l[s] \in Nat
      BY <1>1, <1>3, <1>4
    <2>2. QED
      BY <2>1 DEF HangsOK
  <1>11. IsFiniteSet(D \cup {s})
    BY <1>1, FS_AddElement
  <1>12. TreeOK(N, s, r, l)
    BY <1>1, <1>2, <1>3, <1>6, <1>8, <1>9, <1>10, <1>11 DEF TreeOK
  <1>13. QED
    BY <1>12 DEF N

-----------------------------------------------------------------------------
(* MoveHalfTo.                                                             *)

LEMMA HalfIndex ==
  ASSUME NEW n \in Nat, n >= 2
  PROVE  n \div 2 \in Nat /\ 1 <= n \div 2 /\ n \div 2 < n
  OBVIOUS

LEMMA SubSeqIs ==
  ASSUME NEW s \in Seq(ItemType), NEW a \in Nat, NEW b \in Nat, 1 <= a, a <= b, b <= Len(s)
  PROVE  /\ SubSeq(s, a, b) \in Seq(ItemType) /\ Len(SubSeq(s, a, b)) = b - a + 1
         /\ \A i \in 1 .. b - a + 1 : SubSeq(s, a, b)[i] = s[a + i - 1]
  <1>1. \A i \in a .. b : i \in 1 .. Len(s)
    OBVIOUS
  <1>2. \A i \in a .. b : s[i] \in ItemType
    BY <1>1
  <1>3. QED
    BY <1>2, SubSeqProperties

LEMMA MoveHalfIs ==
  ASSUME NEW items \in Seq(ItemType), Len(items) >= 2
  PROVE  /\ Halves(items, MoveHalfTo(items).from, MoveHalfTo(items).to, SplitIndex(items))
         /\ MoveHalfTo(items).to[1] = items[SplitIndex(items) + 1]
  <1>1. PICK n, m : n = Len(items) /\ m = n \div 2
    OBVIOUS
  <1>2. n \in Nat /\ n >= 2 /\ m \in Nat /\ 1 <= m /\ m < n /\ m = SplitIndex(items)
    BY <1>1, HalfIndex DEF SplitIndex
  <1>3. PICK from, to : from = SubSeq(items, 1, m) /\ to = SubSeq(items, m + 1, n)
    OBVIOUS
  <1>4. from = MoveHalfTo(items).from /\ to = MoveHalfTo(items).to
    BY <1>1, <1>2, <1>3 DEF MoveHalfTo
  <1>5. from \in Seq(ItemType) /\ Len(from) = m /\ \A i \in 1 .. m : from[i] = items[i]
    <2>1. m - 1 + 1 = m /\ 1 <= m /\ m <= Len(items) /\ \A i \in 1 .. m : 1 + i - 1 = i
      BY <1>1, <1>2
    <2>2. /\ from \in Seq(ItemType) /\ Len(from) = m - 1 + 1
          /\ \A i \in 1 .. m - 1 + 1 : from[i] = items[1 + i - 1]
      BY <1>2, <1>3, <2>1, SubSeqIs
    <2>3. QED
      BY <2>1, <2>2
  <1>6. to \in Seq(ItemType) /\ Len(to) = n - m /\ \A i \in 1 .. n - m : to[i] = items[m + i]
    <2>1. PICK a : a = m + 1
      OBVIOUS
    <2>2. a \in Nat /\ 1 <= a /\ a <= n /\ n <= Len(items)
      BY <1>1, <1>2, <2>1
    <2>3. n - a + 1 = n - m /\ \A i \in 1 .. n - m : a + i - 1 = m + i
      BY <1>2, <2>1
    <2>4. /\ to \in Seq(ItemType) /\ Len(to) = n - a + 1
          /\ \A i \in 1 .. n - a + 1 : to[i] = items[a + i - 1]
      <3>1. to = SubSeq(items, a, n) /\ n \in Nat
        BY <1>2, <1>3, <2>1
      <3>2. QED
        BY <2>2, <3>1, SubSeqIs
    <2>5. QED
      BY <2>3, <2>4
  <1>7. 1 \in 1 .. n - m /\ \A i \in 2 .. n - m : i \in 1 .. n - m
    BY <1>2
  <1>8. Halves(items, from, to, m)
    BY <1>1, <1>2, <1>5, <1>6, <1>7 DEF Halves
  <1>9. to[1] = items[m + 1]
    BY <1>6, <1>7
  <1>10. QED
    BY <1>2, <1>4, <1>8, <1>9

LEMMA InternalMoveHalfIs ==
  ASSUME NEW items \in Seq(ItemType), Len(items) >= 2
  PROVE  Halves(items, InternalMoveHalfTo(items).from, InternalMoveHalfTo(items).to,
                SplitIndex(items))
  <1>1. PICK n, m : n = Len(items) /\ m = SplitIndex(items)
    OBVIOUS
  <1>2. PICK from, moved : from = MoveHalfTo(items).from /\ moved = MoveHalfTo(items).to
    OBVIOUS
  <1>3. Halves(items, from, moved, m) /\ moved[1] = items[m + 1]
    BY <1>1, <1>2, MoveHalfIs
  <1>4. /\ n \in Nat /\ m \in Nat /\ 1 <= m /\ m < n
        /\ moved \in Seq(ItemType) /\ Len(moved) = n - m /\ n - m >= 1
        /\ \A i \in 2 .. n - m : moved[i] = items[m + i]
    BY <1>1, <1>3 DEF Halves
  <1>5. PICK e, rest : e = Item(0, moved[1].val) /\ rest = Tail(moved)
    OBVIOUS
  <1>6. e \in ItemType /\ e.val = items[m + 1].val
    <2>1. moved[1] \in ItemType
      BY <1>4
    <2>2. QED
      BY <1>3, <1>5, <2>1 DEF Item, ItemType
  <1>7. /\ rest \in Seq(ItemType) /\ Len(rest) = n - m - 1
        /\ \A i \in 1 .. n - m - 1 : rest[i] = moved[i + 1]
    BY <1>4, <1>5
  <1>8. PICK to : to = <<e>> \o rest
    OBVIOUS
  <1>9. to = InternalMoveHalfTo(items).to /\ from = InternalMoveHalfTo(items).from
    BY <1>2, <1>5, <1>8 DEF InternalMoveHalfTo
  <1>10. <<e>> \in Seq(ItemType) /\ Len(<<e>>) = 1 /\ <<e>>[1] = e
    BY <1>6
  <1>11. to \in Seq(ItemType) /\ Len(to) = n - m /\ to[1] = e
         /\ \A i \in 2 .. n - m : to[i] = rest[i - 1]
    BY <1>4, <1>7, <1>8, <1>10
  <1>12. ASSUME NEW i \in 2 .. n - m PROVE to[i] = items[m + i]
    <2>1. i - 1 \in 1 .. n - m - 1 /\ (i - 1) + 1 = i
      BY <1>4
    <2>2. QED
      BY <1>4, <1>7, <1>11, <2>1
  <1>13. ASSUME NEW i \in 1 .. n - m PROVE to[i].val = items[m + i].val
    <2>1. i = 1 \/ i \in 2 .. n - m
      BY <1>4
    <2>2. QED
      BY <1>6, <1>11, <1>12, <2>1
  <1>14. Halves(items, from, to, m)
    BY <1>1, <1>3, <1>11, <1>12, <1>13 DEF Halves
  <1>15. QED
    BY <1>1, <1>9, <1>14

LEMMA HalfSizes ==
  ASSUME NEW max \in Nat, max >= 2, NEW n, n = max + 1, NEW m, m = n \div 2
  PROVE  /\ m \in Nat /\ m <= max /\ max \div 2 <= m /\ (max + 1) \div 2 <= m
         /\ n - m <= max /\ max \div 2 <= n - m /\ (max + 1) \div 2 <= n - m
  OBVIOUS

-----------------------------------------------------------------------------
(* The invariant.  While a split waits for its separator to reach the      *)
(* parent, the tree is the one in which it has.                            *)

ViewOf(P, c) ==
  IF c.op = "insertIntoParent"
  THEN [P EXCEPT ![c.parent].items =
          InsertNodeAfter(P[c.parent].items, c.old, c.key, c.new)]
  ELSE P

\* The page that may have an item too many.
OverOf(c) ==
  IF c.op \in {"split", "splitInternal"} THEN c.page
  ELSE IF c.op = "insertIntoParent" THEN c.parent ELSE NoPage

SizeOK(P, rt, over, p) ==
  /\ Len(P[p].items) <= MaxSize(P[p]) + (IF p = over THEN 1 ELSE 0)
  /\ p # rt => Len(P[p].items) >= MinSize(P[p])
  /\ p = rt /\ ~P[p].leaf => Len(P[p].items) >= 2

SizesOK(P, rt, over) == \A p \in DOMAIN P : SizeOK(P, rt, over, p)

SplitCall(p) == [op |-> "split", page |-> p]
SplitInternalCall(p) == [op |-> "splitInternal", page |-> p]
ParentCall(q, p, k, new) ==
  [op |-> "insertIntoParent", parent |-> q, old |-> p, key |-> k, new |-> new]

CallOK(P, c, pn) ==
  \/ c = Idle /\ PinsAre(pn, {})
  \/ \E p \in DOMAIN P : /\ c = SplitCall(p) /\ PinsAre(pn, {p})
                         /\ P[p].leaf /\ Len(P[p].items) = LeafMax + 1
  \/ \E p \in DOMAIN P : /\ c = SplitInternalCall(p) /\ PinsAre(pn, {p})
                         /\ ~P[p].leaf /\ Len(P[p].items) = InternalMax + 1
  \/ \E q \in DOMAIN P : \E p, k, new :
       c = ParentCall(q, p, k, new) /\ ~P[q].leaf /\ P[q] \in PageType /\ PinsAre(pn, {})

IsTree(P, rt) == \E r, l : TreeOK(P, rt, r, l)

GrownOK(P, rt, c, pn) ==
  /\ CallOK(P, c, pn)
  /\ \/ P = <<>> /\ rt = NoPage /\ c = Idle
     \/ IsTree(ViewOf(P, c), rt) /\ SizesOK(ViewOf(P, c), rt, OverOf(c))

GInv == GrownOK(pages, root, call, pins) /\ others \in OtherPins \cup {0}

-----------------------------------------------------------------------------
(* The end of a split: the halves are in place, and the separator goes to  *)
(* the parent or to a new root.                                            *)

HalvesOf(P, h, p, new, m) ==
  /\ p \in DOMAIN P /\ new \in PageIds /\ new \notin DOMAIN P
  /\ DOMAIN h = DOMAIN P \cup {new}
  /\ \A x \in DOMAIN h : h[x] \in PageType
  /\ \A x \in DOMAIN P : h[x].leaf = P[x].leaf
  /\ \A x \in DOMAIN P : x # p => h[x].items = P[x].items
  /\ \A x \in DOMAIN P : ~P[p].leaf /\ Lists(h, new, x) => h[x].parent = new
  /\ \A x \in DOMAIN P : P[p].leaf \/ ~Lists(h, new, x) => h[x].parent = P[x].parent
  /\ h[new].leaf = P[p].leaf /\ h[new].parent = P[p].parent
  /\ Halves(P[p].items, h[p].items, h[new].items, m)
  /\ P[p].leaf => h[new].items[1] = P[p].items[m + 1]
  /\ \A x \in DOMAIN P : x # p => h[x].next = P[x].next
  /\ P[p].leaf => h[p].next = new /\ h[new].next = P[p].next

LEMMA LinkToParent ==
  ASSUME NEW P, NEW rt, NEW rng, NEW lev, TreeOK(P, rt, rng, lev), NoPage \notin PageIds,
         Keys \subseteq Int,
         NEW h, NEW p, NEW new, NEW m, HalvesOf(P, h, p, new, m), p # rt,
         NEW q, q = P[p].parent, NEW mid, mid = P[p].items[m + 1].key
  PROVE  SplitInto(P, [h EXCEPT ![q].items = InsertNodeAfter(h[q].items, p, mid, new)],
                   p, q, new, m)
  <1> DEFINE t == InsertNodeAfter(h[q].items, p, mid, new)
             Q == [h EXCEPT ![q].items = t]
  <1>1. /\ p \in DOMAIN P /\ new \in PageIds /\ new \notin DOMAIN P
        /\ DOMAIN h = DOMAIN P \cup {new}
        /\ \A x \in DOMAIN h : h[x] \in PageType
        /\ \A x \in DOMAIN P : h[x].leaf = P[x].leaf
        /\ \A x \in DOMAIN P : x # p => h[x].items = P[x].items
    BY DEF HalvesOf
  <1>2. /\ \A x \in DOMAIN P : ~P[p].leaf /\ Lists(h, new, x) => h[x].parent = new
        /\ \A x \in DOMAIN P : P[p].leaf \/ ~Lists(h, new, x) => h[x].parent = P[x].parent
        /\ h[new].leaf = P[p].leaf /\ h[new].parent = P[p].parent
        /\ Halves(P[p].items, h[p].items, h[new].items, m)
        /\ P[p].leaf => h[new].items[1] = P[p].items[m + 1]
    BY DEF HalvesOf
  <1>3. q \in DOMAIN P /\ ~P[q].leaf /\ lev[p] + 1 = lev[q] /\ Lists(P, q, p)
    <2>1. HangsOK(P, rt, lev, p)
      BY <1>1, NodeFacts
    <2>2. QED
      BY <1>1, <2>1, ParentFacts DEF HangsOK
  <1>4. lev[p] \in Nat /\ lev[q] \in Nat /\ P[q].items \in Seq(ItemType)
        /\ P[p].items \in Seq(ItemType) /\ Distinct(P[q].items)
    BY <1>1, <1>3, NodeFacts, InnerFacts
  <1>5. p # q /\ q # new
    BY <1>1, <1>3, <1>4
  <1>6. t = InsertNodeAfter(P[q].items, p, mid, new)
    BY <1>1, <1>3, <1>5
  <1>7. t \in Seq(ItemType)
    <2>1. PICK j \in 1 .. Len(P[q].items) : P[q].items[j].val = p
      BY <1>3 DEF Lists
    <2>2. mid \in Int
      <3>1. m + 1 \in 1 .. Len(P[p].items)
        BY <1>2 DEF Halves
      <3>2. QED
        BY <1>4, <3>1, ItemsOf
    <2>3. Inserted(ItemType, P[q].items, j + 1, Item(mid, new),
                   InsertNodeAfter(P[q].items, P[q].items[j].val, mid, new))
      BY <1>1, <1>4, <2>2, InsertNodeAfterIs
    <2>4. QED
      BY <1>6, <2>1, <2>3 DEF Inserted
  <1> HIDE DEF t
  <1>8. DOMAIN Q = DOMAIN P \cup {new} /\ \A x \in DOMAIN P \cup {new} : x # q => Q[x] = h[x]
    BY <1>1
  <1>9. /\ Q[q] \in PageType /\ Q[q].leaf = h[q].leaf /\ Q[q].parent = h[q].parent
        /\ Q[q].items = t
    <2>1. h[q] \in PageType /\ q \in DOMAIN h
      BY <1>1, <1>3
    <2>2. Q[q] = [h[q] EXCEPT !.items = t]
      BY <2>1
    <2>3. QED
      BY <1>7, <2>1, <2>2 DEF PageType
  <1> HIDE DEF Q
  <1>10. \A x \in DOMAIN P \cup {new} : /\ Q[x] \in PageType /\ Q[x].leaf = h[x].leaf
                                        /\ Q[x].parent = h[x].parent
    BY <1>1, <1>8, <1>9
  <1>11. \A x : Lists(Q, new, x) <=> Lists(h, new, x)
    BY <1>5, <1>8 DEF Lists
  <1>12. Q[p] = h[p] /\ Q[new] = h[new]
    BY <1>1, <1>5, <1>8
  <1>13. \A x \in DOMAIN P : x # p /\ x # q => Q[x].items = P[x].items
    BY <1>1, <1>8
  <1>14. SplitInto(P, Q, p, q, new, m)
    BY <1>1, <1>2, <1>3, <1>6, <1>8, <1>9, <1>10, <1>11, <1>12, <1>13 DEF SplitInto
  <1>15. QED
    BY <1>14 DEF Q, t

RootAbove(h, p, mid, new, s) ==
  AddPage([h EXCEPT ![p].parent = s, ![new].parent = s], s,
          InternalPage(PopulateNewRoot(p, mid, new)))

RootAbovePages(h, p, mid, new, s, Q) ==
  /\ DOMAIN Q = DOMAIN h \cup {s}
  /\ \A x \in DOMAIN h : x # p /\ x # new => Q[x] = h[x]
  /\ \A x \in DOMAIN h : /\ Q[x] \in PageType /\ Q[x].leaf = h[x].leaf
                         /\ Q[x].items = h[x].items /\ Q[x].next = h[x].next
  /\ Q[p].parent = s /\ Q[new].parent = s
  /\ Q[s] \in PageType /\ ~Q[s].leaf /\ Q[s].parent = NoPage
  /\ Q[s].items = <<Item(0, p), Item(mid, new)>>

LEMMA RootAboveIs ==
  ASSUME NEW h, NEW p \in DOMAIN h, NEW new \in DOMAIN h, p # new, NEW mid \in Int,
         \A x \in DOMAIN h : h[x] \in PageType, NEW s \in PageIds, s \notin DOMAIN h,
         p \in PageIds, new \in PageIds
  PROVE  RootAbovePages(h, p, mid, new, s, RootAbove(h, p, mid, new, s))
  <1> DEFINE Q == RootAbove(h, p, mid, new, s)
             M == [h EXCEPT ![p].parent = s, ![new].parent = s]
             e == InternalPage(PopulateNewRoot(p, mid, new))
  <1>1. DOMAIN M = DOMAIN h /\ \A x \in DOMAIN h : x # p /\ x # new => M[x] = h[x]
    OBVIOUS
  <1>2. M[p] = [h[p] EXCEPT !.parent = s] /\ M[new] = [h[new] EXCEPT !.parent = s]
    OBVIOUS
  <1> HIDE DEF M
  <1>3. /\ M[p] \in PageType /\ M[p].leaf = h[p].leaf /\ M[p].items = h[p].items /\ M[p].parent = s
        /\ M[p].next = h[p].next
    <2>1. h[p] \in PageType
      OBVIOUS
    <2>2. QED
      BY <1>2, <2>1 DEF PageType
  <1>4. /\ M[new] \in PageType /\ M[new].leaf = h[new].leaf /\ M[new].items = h[new].items
        /\ M[new].parent = s /\ M[new].next = h[new].next
    <2>1. h[new] \in PageType
      OBVIOUS
    <2>2. QED
      BY <1>2, <2>1 DEF PageType
  <1>5. /\ e \in PageType /\ ~e.leaf /\ e.parent = NoPage
        /\ e.items = <<Item(0, p), Item(mid, new)>>
    <2>1. Item(0, p) \in ItemType /\ Item(mid, new) \in ItemType
      BY DEF Item, ItemType
    <2>2. <<Item(0, p), Item(mid, new)>> \in Seq(ItemType)
      BY <2>1
    <2>3. QED
      BY <2>2 DEF InternalPage, PageType, PopulateNewRoot
  <1> HIDE DEF e
  <1>6. Q = AddPage(M, s, e)
    BY DEF RootAbove, M, e
  <1>7. DOMAIN Q = DOMAIN h \cup {s} /\ Q[s] = e /\ \A x \in DOMAIN h : Q[x] = M[x]
    BY <1>1, <1>6 DEF AddPage
  <1> HIDE DEF Q
  <1>8. \A x \in DOMAIN h : /\ Q[x] \in PageType /\ Q[x].leaf = h[x].leaf
                            /\ Q[x].items = h[x].items /\ Q[x].next = h[x].next
    BY <1>1, <1>3, <1>4, <1>7
  <1>9. /\ \A x \in DOMAIN h : x # p /\ x # new => Q[x] = h[x]
        /\ Q[p].parent = s /\ Q[new].parent = s
    BY <1>1, <1>3, <1>4, <1>7
  <1>10. QED
    BY <1>5, <1>7, <1>8, <1>9 DEF Q, RootAbovePages

LEMMA LinkToRoot ==
  ASSUME NEW P, NEW rt, NEW rng, NEW lev, TreeOK(P, rt, rng, lev), NoPage \notin PageIds,
         NEW h, NEW new, NEW m, HalvesOf(P, h, rt, new, m),
         NEW mid, mid = P[rt].items[m + 1].key,
         NEW s \in PageIds, s \notin DOMAIN P, s # new
  PROVE  SplitInto(UnderNewRoot(P, rt, s), RootAbove(h, rt, mid, new, s), rt, s, new, m)
  <1> DEFINE N == UnderNewRoot(P, rt, s)
             Q == RootAbove(h, rt, mid, new, s)
             D == DOMAIN P
  <1>1. /\ rt \in D /\ new \in PageIds /\ new \notin D
        /\ DOMAIN h = D \cup {new}
        /\ \A x \in DOMAIN h : h[x] \in PageType
        /\ \A x \in D : h[x].leaf = P[x].leaf
        /\ \A x \in D : x # rt => h[x].items = P[x].items
    BY DEF HalvesOf
  <1>2. /\ \A x \in D : ~P[rt].leaf /\ Lists(h, new, x) => h[x].parent = new
        /\ \A x \in D : P[rt].leaf \/ ~Lists(h, new, x) => h[x].parent = P[x].parent
        /\ h[new].leaf = P[rt].leaf
        /\ Halves(P[rt].items, h[rt].items, h[new].items, m)
        /\ P[rt].leaf => h[new].items[1] = P[rt].items[m + 1]
    BY DEF HalvesOf
  <1>3. D \subseteq PageIds /\ P[rt].parent = NoPage /\ P[rt].items \in Seq(ItemType)
    BY NodeFacts DEF TreeOK
  <1>4. /\ DOMAIN N = D \cup {s}
        /\ \A x \in D : x # rt => N[x] = P[x]
        /\ N[rt] \in PageType /\ N[rt].leaf = P[rt].leaf /\ N[rt].parent = s
        /\ N[rt].items = P[rt].items
        /\ N[s] \in PageType /\ ~N[s].leaf /\ N[s].parent = NoPage
        /\ N[s].items = <<Item(0, rt)>>
    <2>1. NewRootPages(P, rt, s, N)
      BY NewRootIs
    <2> HIDE DEF N
    <2>2. QED
      BY <2>1 DEF NewRootPages
  <1>5. m + 1 \in 1 .. Len(P[rt].items) /\ mid \in Int
    <2>1. m + 1 \in 1 .. Len(P[rt].items)
      BY <1>2 DEF Halves
    <2>2. QED
      BY <1>3, <2>1, ItemsOf
  <1>6. /\ DOMAIN Q = DOMAIN h \cup {s}
        /\ \A x \in DOMAIN h : x # rt /\ x # new => Q[x] = h[x]
        /\ \A x \in DOMAIN h : Q[x] \in PageType /\ Q[x].leaf = h[x].leaf /\ Q[x].items = h[x].items
        /\ Q[rt].parent = s /\ Q[new].parent = s
        /\ Q[s] \in PageType /\ ~Q[s].leaf /\ Q[s].parent = NoPage
        /\ Q[s].items = <<Item(0, rt), Item(mid, new)>>
    <2>1. /\ rt \in DOMAIN h /\ new \in DOMAIN h /\ rt # new /\ rt \in PageIds /\ s \notin DOMAIN h
      BY <1>1, <1>3
    <2>2. RootAbovePages(h, rt, mid, new, s, Q)
      BY <1>1, <1>5, <2>1, RootAboveIs
    <2> HIDE DEF Q
    <2>3. QED
      BY <2>2 DEF RootAbovePages
  <1> HIDE DEF N, Q
  <1>7. \A x : Lists(Q, new, x) <=> Lists(h, new, x)
    BY <1>1, <1>6 DEF Lists
  <1>8. ASSUME ~P[rt].leaf, NEW x, Lists(h, new, x) PROVE x \in D /\ P[x].parent = rt
    <2>1. PICK i \in 1 .. Len(h[new].items) : h[new].items[i].val = x
      BY <1>8 DEF Lists
    <2>2. /\ i \in 1 .. Len(P[rt].items) - m /\ m \in Nat /\ Len(P[rt].items) \in Nat
          /\ P[rt].items[m + i].val = x
      <3>1. /\ Len(h[new].items) = Len(P[rt].items) - m /\ m \in Nat
            /\ \A a \in 1 .. Len(P[rt].items) - m : h[new].items[a].val = P[rt].items[m + a].val
        BY <1>2 DEF Halves
      <3>2. i \in 1 .. Len(P[rt].items) - m
        BY <2>1, <3>1
      <3>3. Len(P[rt].items) \in Nat
        BY <1>3
      <3>4. QED
        BY <2>1, <3>1, <3>2, <3>3
    <2>3. m + i \in 1 .. Len(P[rt].items)
      BY <2>2
    <2>4. ChildOK(P, rng, lev, rt, m + i, x)
      BY <1>1, <1>8, <2>2, <2>3, InnerFacts
    <2>5. QED
      BY <2>4 DEF ChildOK
  <1>9. /\ \A x \in D \cup {s} : ~N[rt].leaf /\ Lists(Q, new, x) => Q[x].parent = new
        /\ \A x \in D \cup {s} : N[rt].leaf \/ ~Lists(Q, new, x) => Q[x].parent = N[x].parent
    <2>1. ASSUME NEW x \in D \cup {s}, ~N[rt].leaf, Lists(Q, new, x) PROVE Q[x].parent = new
      <3>1. x \in D /\ P[x].parent = rt
        BY <1>4, <1>7, <1>8, <2>1
      <3>2. x # rt /\ x # new
        BY <1>1, <1>3, <3>1
      <3>3. QED
        BY <1>1, <1>2, <1>4, <1>6, <1>7, <2>1, <3>1, <3>2
    <2>2. ASSUME NEW x \in D \cup {s}, N[rt].leaf \/ ~Lists(Q, new, x)
          PROVE  Q[x].parent = N[x].parent
      <3>1. CASE x = s
        BY <1>4, <1>6, <3>1
      <3>2. CASE x = rt
        BY <1>4, <1>6, <3>2
      <3>3. CASE x # s /\ x # rt
        <4>1. x \in D /\ x # new
          BY <1>1, <3>3
        <4>2. h[x].parent = P[x].parent
          BY <1>2, <1>4, <1>7, <2>2, <4>1
        <4>3. QED
          BY <1>1, <1>4, <1>6, <3>3, <4>1, <4>2
      <3>4. QED
        BY <3>1, <3>2, <3>3
    <2>3. QED
      BY <2>1, <2>2
  <1>10. Q[s].items = InsertNodeAfter(N[s].items, rt, mid, new)
    <2>1. PICK a, b : a = Item(0, rt) /\ b = Item(mid, new)
      OBVIOUS
    <2>2. a \in ItemType /\ b \in ItemType /\ a.val = rt
      BY <1>1, <1>3, <1>5, <2>1 DEF Item, ItemType
    <2>3. <<a>> \in Seq(ItemType) /\ Len(<<a>>) = 1 /\ <<a>>[1] = a
      BY <2>2
    <2>4. Distinct(<<a>>)
      BY <2>3 DEF Distinct
    <2>5. 1 \in 1 .. Len(<<a>>)
      BY <2>3
    <2>6. PICK t, w : w = <<a>> /\ t = InsertNodeAfter(w, rt, mid, new)
      OBVIOUS
    <2>7. w \in Seq(ItemType) /\ Distinct(w) /\ 1 \in 1 .. Len(w) /\ w[1].val = rt /\ Len(w) = 1
      BY <2>2, <2>3, <2>4, <2>5, <2>6
    <2>8. Inserted(ItemType, w, 1 + 1, Item(mid, new), InsertNodeAfter(w, w[1].val, mid, new))
      BY <1>1, <1>5, <2>7, InsertNodeAfterIs
    <2>9. Inserted(ItemType, w, 1 + 1, b, t)
      BY <2>1, <2>6, <2>7, <2>8
    <2>10. t \in Seq(ItemType) /\ Len(t) = 2 /\ t[2] = b /\ t[1] = a
      BY <2>3, <2>6, <2>7, <2>9 DEF Inserted
    <2>11. t = <<a, b>>
      BY <2>10
    <2>12. QED
      BY <1>4, <1>6, <2>1, <2>6, <2>11
  <1>11. /\ DOMAIN Q = DOMAIN N \cup {new} /\ new \notin DOMAIN N
         /\ rt \in DOMAIN N /\ s \in DOMAIN N
    BY <1>1, <1>4, <1>6
  <1>12. \A x \in DOMAIN Q : Q[x] \in PageType
    BY <1>1, <1>6
  <1>13. \A x \in DOMAIN N : Q[x].leaf = N[x].leaf
    <2>1. N[s].leaf = FALSE /\ Q[s].leaf = FALSE
      BY <1>4, <1>6 DEF PageType
    <2>2. \A x \in D : Q[x].leaf = P[x].leaf /\ N[x].leaf = P[x].leaf
      BY <1>1, <1>4, <1>6
    <2>3. QED
      BY <1>4, <2>1, <2>2
  <1>14. \A x \in DOMAIN N : x # rt /\ x # s => Q[x].items = N[x].items
    BY <1>1, <1>4, <1>6
  <1>15. /\ Q[new].leaf = N[rt].leaf
         /\ Q[rt].items = h[rt].items /\ Q[new].items = h[new].items
    BY <1>1, <1>2, <1>4, <1>6
  <1>16. SplitInto(N, Q, rt, s, new, m)
    BY <1>1, <1>2, <1>4, <1>6, <1>9, <1>10, <1>11, <1>12, <1>13, <1>14, <1>15 DEF SplitInto
  <1>17. QED
    BY <1>16 DEF N, Q

\* The sizes before a split of p below q.
FitBefore(P, rt, p, q, m) ==
  /\ m = SplitIndex(P[p].items) /\ Len(P[p].items) = MaxSize(P[p]) + 1
  /\ \A x \in DOMAIN P : x # q /\ x # p => SizeOK(P, rt, p, x)
  /\ Len(P[q].items) <= InternalMax
  /\ q # rt => Len(P[q].items) >= MinSize(P[q])

LEMMA SplitSizes ==
  ASSUME Growing, NEW P, NEW rt, NEW rng, NEW lev, TreeOK(P, rt, rng, lev),
         NEW Q, NEW p, NEW q, NEW new, NEW m, SplitInto(P, Q, p, q, new, m),
         FitBefore(P, rt, p, q, m)
  PROVE  SizesOK(Q, rt, q) /\ Len(Q[q].items) = Len(P[q].items) + 1
  <1> USE DEF FitBefore
  <1>1. /\ p \in DOMAIN P /\ q = P[p].parent /\ q \in DOMAIN P
        /\ new \in PageIds /\ new \notin DOMAIN P
        /\ DOMAIN Q = DOMAIN P \cup {new}
        /\ \A x \in DOMAIN P : Q[x].leaf = P[x].leaf
        /\ \A x \in DOMAIN P : x # p /\ x # q => Q[x].items = P[x].items
        /\ Q[new].leaf = P[p].leaf
        /\ Halves(P[p].items, Q[p].items, Q[new].items, m)
        /\ Q[q].items = InsertNodeAfter(P[q].items, p, P[p].items[m + 1].key, new)
    BY DEF SplitInto
  <1>2. /\ rt \in DOMAIN P /\ P[rt].parent = NoPage
        /\ NoPage \notin PageIds /\ DOMAIN P \subseteq PageIds
    BY DEF TreeOK, Growing
  <1>3. p # rt /\ new # rt
    BY <1>1, <1>2
  <1>4. ~P[q].leaf /\ lev[p] + 1 = lev[q] /\ lev[p] \in Nat /\ lev[q] \in Nat
        /\ P[q].items \in Seq(ItemType) /\ P[p].items \in Seq(ItemType)
        /\ Distinct(P[q].items) /\ Len(P[q].items) >= 1
    BY <1>1, <1>3, ParentFacts, NodeFacts, InnerFacts
  <1>5. p # q /\ q # new
    BY <1>1, <1>4
  <1>6. PICK j \in 1 .. Len(P[q].items) : P[q].items[j].val = p
    BY <1>1, <1>3, ParentFacts
  <1>7. Len(Q[q].items) = Len(P[q].items) + 1
    <2>1. P[p].items[m + 1].key \in Int
      <3>1. m + 1 \in 1 .. Len(P[p].items)
        BY <1>1, <1>4 DEF Halves
      <3>2. QED
        BY <1>4, <3>1, ItemsOf
    <2>2. PICK k : k = P[p].items[m + 1].key
      OBVIOUS
    <2>3. Inserted(ItemType, P[q].items, j + 1, Item(k, new),
                   InsertNodeAfter(P[q].items, P[q].items[j].val, k, new))
      BY <1>1, <1>4, <2>1, <2>2, InsertNodeAfterIs
    <2>4. QED
      BY <1>1, <1>6, <2>2, <2>3 DEF Inserted
  <1>8. /\ LeafMax \in Nat /\ LeafMax >= 2 /\ InternalMax \in Nat /\ InternalMax >= 2
    BY DEF Growing
  <1>9. PICK max, n : max = MaxSize(P[p]) /\ n = Len(P[p].items)
    OBVIOUS
  <1>10. max \in Nat /\ max >= 2 /\ n = max + 1 /\ m = n \div 2
    BY <1>8, <1>9 DEF MaxSize, SplitIndex
  <1>11. /\ m \in Nat /\ m <= max /\ max \div 2 <= m /\ (max + 1) \div 2 <= m
         /\ n - m <= max /\ max \div 2 <= n - m /\ (max + 1) \div 2 <= n - m
    BY <1>10, HalfSizes
  <1>12. Len(Q[p].items) = m /\ Len(Q[new].items) = n - m
    BY <1>1, <1>9 DEF Halves
  <1>13. PICK min : min = MinSize(P[p])
    OBVIOUS
  <1>14. min <= m /\ min <= n - m
    BY <1>9, <1>11, <1>13 DEF MinSize, MaxSize
  <1>15. ASSUME NEW x \in DOMAIN P
         PROVE  MaxSize(Q[x]) = MaxSize(P[x]) /\ MinSize(Q[x]) = MinSize(P[x])
    BY <1>1 DEF MaxSize, MinSize
  <1>16. MaxSize(Q[new]) = max /\ MinSize(Q[new]) = min
    BY <1>1, <1>9, <1>13 DEF MaxSize, MinSize
  <1>17. SizeOK(Q, rt, q, p)
    <2>1. MaxSize(Q[p]) = max /\ MinSize(Q[p]) = min
      BY <1>1, <1>9, <1>13, <1>15
    <2>2. max + 0 = max /\ min \in Int
      BY <1>10, <1>13 DEF MinSize, MaxSize, Growing
    <2>3. QED
      BY <1>3, <1>5, <1>11, <1>12, <1>14, <2>1, <2>2 DEF SizeOK
  <1>18. SizeOK(Q, rt, q, new)
    <2>1. max + 0 = max /\ min \in Int /\ n - m \in Int
      BY <1>10, <1>11, <1>13 DEF MinSize, MaxSize, Growing
    <2>2. QED
      BY <1>3, <1>5, <1>11, <1>12, <1>14, <1>16, <2>1 DEF SizeOK
  <1>19. SizeOK(Q, rt, q, q)
    <2>1. MaxSize(Q[q]) = InternalMax /\ MinSize(Q[q]) = MinSize(P[q]) /\ MinSize(P[q]) \in Int
      <3>1. MaxSize(P[q]) = InternalMax /\ MinSize(P[q]) = (InternalMax + 1) \div 2
        BY <1>4 DEF MaxSize, MinSize
      <3>2. (InternalMax + 1) \div 2 \in Int
        BY <1>8
      <3>3. MaxSize(Q[q]) = MaxSize(P[q]) /\ MinSize(Q[q]) = MinSize(P[q])
        BY <1>1, <1>15
      <3>4. QED
        BY <3>1, <3>2, <3>3
    <2>2. Len(P[q].items) \in Nat
      BY <1>4
    <2>3. /\ Len(Q[q].items) <= InternalMax + 1
          /\ q # rt => Len(Q[q].items) >= MinSize(Q[q])
          /\ Len(Q[q].items) >= 2
      BY <1>4, <1>7, <1>8, <2>1, <2>2
    <2>4. QED
      BY <2>1, <2>3 DEF SizeOK
  <1>20. ASSUME NEW x \in DOMAIN P, x # p, x # q PROVE SizeOK(Q, rt, q, x)
    BY <1>1, <1>15, <1>20 DEF SizeOK
  <1>21. QED
    BY <1>1, <1>7, <1>17, <1>18, <1>19, <1>20 DEF SizesOK

LEMMA NotOver ==
  ASSUME Growing, NEW P, NEW rt, NEW q \in DOMAIN P, SizesOK(P, rt, q), ~P[q].leaf,
         Len(P[q].items) <= InternalMax
  PROVE  SizesOK(P, rt, NoPage)
  <1>1. ASSUME NEW x \in DOMAIN P PROVE SizeOK(P, rt, NoPage, x)
    <2>1. SizeOK(P, rt, q, x)
      BY DEF SizesOK
    <2>2. CASE x = q
      <3>1. /\ MaxSize(P[q]) = InternalMax /\ InternalMax + 0 = InternalMax
            /\ InternalMax + 1 >= InternalMax
        BY DEF MaxSize, Growing
      <3>2. Len(P[x].items) <= MaxSize(P[x]) + (IF x = NoPage THEN 1 ELSE 0)
        BY <2>2, <3>1 DEF Growing
      <3>3. QED
        BY <2>1, <3>2 DEF SizeOK
    <2>3. CASE x # q
      <3>1. MaxSize(P[x]) \in Nat /\ Len(P[x].items) <= MaxSize(P[x]) + 0
        BY <2>1, <2>3 DEF SizeOK, MaxSize, Growing
      <3>2. CASE x = NoPage
        BY <2>1, <2>3, <3>1, <3>2 DEF SizeOK
      <3>3. CASE x # NoPage
        BY <2>1, <2>3, <3>1, <3>3 DEF SizeOK
      <3>4. QED
        BY <3>2, <3>3
    <2>4. QED
      BY <2>2, <2>3
  <1>2. QED
    BY <1>1 DEF SizesOK

LEMMA SplitBelowParent ==
  ASSUME Growing, NEW P, NEW rt, NEW rng, NEW lev, TreeOK(P, rt, rng, lev),
         NEW h, NEW p, NEW new, NEW m, HalvesOf(P, h, p, new, m), SizesOK(P, rt, p),
         m = SplitIndex(P[p].items), Len(P[p].items) = MaxSize(P[p]) + 1, p # rt,
         NEW q, q = P[p].parent, NEW mid, mid = P[p].items[m + 1].key, NEW pn, PinsAre(pn, {})
  PROVE  GrownOK(h, rt, ParentCall(q, p, mid, new), pn)
  <1> DEFINE V == [h EXCEPT ![q].items = InsertNodeAfter(h[q].items, p, mid, new)]
             c == ParentCall(q, p, mid, new)
  <1>1. NoPage \notin PageIds /\ Keys \subseteq Int
    BY DEF Growing
  <1>2. SplitInto(P, V, p, q, new, m)
    BY <1>1, LinkToParent
  <1>3. /\ p \in DOMAIN P /\ q \in DOMAIN P /\ ~P[q].leaf /\ lev[p] + 1 = lev[q]
        /\ lev[p] \in Nat /\ lev[q] \in Nat
    <2>1. p \in DOMAIN P
      BY DEF HalvesOf
    <2>2. QED
      BY <2>1, ParentFacts, NodeFacts
  <1>4. p # q
    BY <1>3
  <1>5. /\ q \in DOMAIN h /\ ~h[q].leaf /\ h[q] \in PageType
    BY <1>3 DEF HalvesOf
  <1>6. CallOK(h, c, pn)
    BY <1>5 DEF CallOK
  <1>7. ViewOf(h, c) = V /\ OverOf(c) = q
    BY DEF ViewOf, OverOf, ParentCall
  <1> HIDE DEF V, c
  <1>8. IsTree(V, rt)
    BY <1>1, <1>2, SplitOK DEF IsTree
  <1>9. \A x \in DOMAIN P : SizeOK(P, rt, p, x)
    BY DEF SizesOK
  <1>10. Len(P[q].items) <= InternalMax /\ (q # rt => Len(P[q].items) >= MinSize(P[q]))
    <2>1. SizeOK(P, rt, p, q)
      BY <1>3, <1>9
    <2>2. MaxSize(P[q]) = InternalMax /\ InternalMax + 0 = InternalMax
      BY <1>3 DEF MaxSize, Growing
    <2>3. QED
      BY <1>4, <2>1, <2>2 DEF SizeOK
  <1>11. SizesOK(V, rt, q)
    <2>1. FitBefore(P, rt, p, q, m)
      BY <1>9, <1>10 DEF FitBefore
    <2>2. QED
      BY <1>2, <2>1, SplitSizes
  <1>12. GrownOK(h, rt, c, pn)
    BY <1>6, <1>7, <1>8, <1>11 DEF GrownOK
  <1>13. QED
    BY <1>12 DEF c

LEMMA SplitBelowNewRoot ==
  ASSUME Growing, NEW P, NEW rt, NEW rng, NEW lev, TreeOK(P, rt, rng, lev),
         NEW h, NEW new, NEW m, HalvesOf(P, h, rt, new, m), SizesOK(P, rt, rt),
         m = SplitIndex(P[rt].items), Len(P[rt].items) = MaxSize(P[rt]) + 1,
         NEW mid, mid = P[rt].items[m + 1].key, NEW pn, PinsAre(pn, {}),
         NEW s \in PageIds, s \notin DOMAIN P, s # new
  PROVE  GrownOK(RootAbove(h, rt, mid, new, s), s, Idle, pn)
  <1> DEFINE N == UnderNewRoot(P, rt, s)
             Q == RootAbove(h, rt, mid, new, s)
  <1>1. NoPage \notin PageIds /\ Keys \subseteq Int
    BY DEF Growing
  <1>2. SplitInto(N, Q, rt, s, new, m)
    BY <1>1, LinkToRoot
  <1>3. \E r, l : TreeOK(N, s, r, l)
    BY <1>1, NewRootOK
  <1>4. NewRootPages(P, rt, s, N)
    BY NewRootIs
  <1> HIDE DEF N, Q
  <1>5. PICK r, l : TreeOK(N, s, r, l)
    BY <1>3
  <1>6. /\ DOMAIN N = DOMAIN P \cup {s}
        /\ \A x \in DOMAIN P : x # rt => N[x] = P[x]
        /\ N[rt].leaf = P[rt].leaf /\ N[rt].items = P[rt].items
        /\ ~N[s].leaf /\ N[s].items = <<Item(0, rt)>>
    BY <1>4 DEF NewRootPages
  <1>7. IsTree(Q, s)
    BY <1>1, <1>2, <1>5, SplitOK DEF IsTree
  <1>8. MaxSize(N[rt]) = MaxSize(P[rt]) /\ Len(N[s].items) = 1
    BY <1>6 DEF MaxSize
  <1>9. \A x \in DOMAIN N : x # s /\ x # rt => SizeOK(N, s, rt, x)
    <2>1. ASSUME NEW x \in DOMAIN N, x # s, x # rt PROVE SizeOK(N, s, rt, x)
      <3>1. x \in DOMAIN P /\ N[x] = P[x]
        BY <1>6, <2>1
      <3>2. SizeOK(P, rt, rt, x)
        BY <3>1 DEF SizesOK
      <3>3. QED
        BY <2>1, <3>1, <3>2 DEF SizeOK
    <2>2. QED
      BY <2>1
  <1>10. /\ m = SplitIndex(N[rt].items) /\ Len(N[rt].items) = MaxSize(N[rt]) + 1
         /\ Len(N[s].items) <= InternalMax
    BY <1>6, <1>8 DEF Growing
  <1>11. SizesOK(Q, s, s) /\ Len(Q[s].items) = Len(N[s].items) + 1
    <2>1. FitBefore(N, s, rt, s, m)
      BY <1>9, <1>10 DEF FitBefore
    <2>2. QED
      BY <1>2, <1>5, <2>1, SplitSizes
  <1>12. Len(Q[s].items) = 2 /\ Len(Q[s].items) <= InternalMax
    BY <1>8, <1>11 DEF Growing
  <1>13. s \in DOMAIN Q /\ ~Q[s].leaf
    BY <1>2, <1>6 DEF SplitInto
  <1>14. SizesOK(Q, s, NoPage)
    BY <1>11, <1>12, <1>13, NotOver
  <1>15. ViewOf(Q, Idle) = Q /\ OverOf(Idle) = NoPage
    BY DEF ViewOf, OverOf, Idle
  <1>16. CallOK(Q, Idle, pn)
    BY DEF CallOK
  <1>17. GrownOK(Q, s, Idle, pn)
    BY <1>7, <1>14, <1>15, <1>16 DEF GrownOK
  <1>18. QED
    BY <1>17 DEF Q

-----------------------------------------------------------------------------
(* What the invariant says in each kind of state.                          *)

LEMMA IdleFacts ==
  ASSUME Growing, GInv, call = Idle
  PROVE  /\ PinsAre(pins, {}) /\ Pinned = {}
         /\ \A a, b : CanPin({a}) /\ CanPin({a, b})
         /\ \/ pages = <<>> /\ root = NoPage
            \/ IsTree(pages, root) /\ SizesOK(pages, root, NoPage) /\ root # NoPage
  <1>1. CallOK(pages, call, pins) /\ others \in OtherPins \cup {0}
    BY DEF GInv, GrownOK
  <1>2. PinsAre(pins, {})
    BY <1>1 DEF CallOK, Idle, SplitCall, SplitInternalCall, ParentCall
  <1>3. Pinned = {}
    BY <1>2, PinnedIs
  <1>4. \A a, b : CanPin({a}) /\ CanPin({a, b})
    BY <1>1, <1>3, FewCanBePinned
  <1>5. ViewOf(pages, call) = pages /\ OverOf(call) = NoPage
    BY DEF ViewOf, OverOf, Idle
  <1>6. IsTree(pages, root) => root # NoPage
    BY DEF IsTree, TreeOK, Growing
  <1>7. QED
    BY <1>2, <1>3, <1>4, <1>5, <1>6 DEF GInv, GrownOK

LEMMA SplitFacts ==
  ASSUME Growing, GInv, call.op \in {"split", "splitInternal"}
  PROVE  /\ call.page \in DOMAIN pages /\ PinsAre(pins, {call.page})
         /\ pages[call.page].leaf = (call.op = "split")
         /\ Len(pages[call.page].items) = MaxSize(pages[call.page]) + 1
         /\ \A a, b : CanPin({a}) /\ CanPin({a, b})
         /\ IsTree(pages, root) /\ SizesOK(pages, root, call.page)
         /\ IsFiniteSet(Pinned)
  <1>1. CallOK(pages, call, pins) /\ others \in OtherPins \cup {0}
    BY DEF GInv, GrownOK
  <1>2. PICK p \in DOMAIN pages :
          \/ /\ call = SplitCall(p) /\ PinsAre(pins, {p})
             /\ pages[p].leaf /\ Len(pages[p].items) = LeafMax + 1
          \/ /\ call = SplitInternalCall(p) /\ PinsAre(pins, {p})
             /\ ~pages[p].leaf /\ Len(pages[p].items) = InternalMax + 1
    <2>1. call # Idle
      BY DEF Idle
    <2>2. \A q, p, k, new : call # ParentCall(q, p, k, new)
      BY DEF ParentCall
    <2>3. QED
      BY <1>1, <2>1, <2>2 DEF CallOK
  <1>3. call.page = p /\ PinsAre(pins, {p}) /\ Len(pages[p].items) = MaxSize(pages[p]) + 1
        /\ (call.op = "split" <=> pages[p].leaf)
    BY <1>2 DEF SplitCall, SplitInternalCall, MaxSize
  <1>4. ViewOf(pages, call) = pages /\ OverOf(call) = p
    BY <1>3 DEF ViewOf, OverOf
  <1>5. IsTree(pages, root) /\ SizesOK(pages, root, p)
    BY <1>4 DEF GInv, GrownOK, Idle
  <1>6. p \in PageIds /\ pages[p].leaf \in BOOLEAN
    BY <1>5, NodeFacts DEF IsTree
  <1>7. Pinned = {p}
    BY <1>3, <1>6, PinnedIs
  <1>8. \A a, b : CanPin({a}) /\ CanPin({a, b})
    BY <1>1, <1>7, FewCanBePinned
  <1>9. IsFiniteSet(Pinned)
    BY <1>7, FS_Singleton
  <1>10. QED
    BY <1>3, <1>5, <1>6, <1>8, <1>9

-----------------------------------------------------------------------------
(* Every step keeps the invariant.                                         *)

LEMMA OneLeafTree ==
  ASSUME Growing, NEW n \in PageIds, NEW key \in Keys, NEW value \in Values,
         NEW Q, Q = AddPage(<<>>, n, LeafPage(<<Item(key, value)>>))
  PROVE  IsTree(Q, n) /\ SizesOK(Q, n, NoPage)
  <1> DEFINE r == [x \in {n} |-> Keys]
             l == [x \in {n} |-> 0]
             e == LeafPage(<<Item(key, value)>>)
  <1>1. DOMAIN Q = {n} /\ Q[n] = e
    <2>1. DOMAIN <<>> = {}
      OBVIOUS
    <2>2. QED
      BY <2>1 DEF AddPage
  <1>2. /\ e \in PageType /\ e.leaf /\ e.parent = NoPage /\ e.items = <<Item(key, value)>>
    <2>1. Item(key, value) \in ItemType
      BY DEF Item, ItemType, Growing
    <2>2. <<Item(key, value)>> \in Seq(ItemType)
      BY <2>1
    <2>3. QED
      BY <2>2 DEF LeafPage, PageType
  <1>3. Len(e.items) = 1 /\ e.items[1].key = key /\ e.items[1].val = value
    BY <1>2 DEF Item
  <1> HIDE DEF e
  <1>4. \A i \in 1 .. Len(e.items) : i = 1
    BY <1>3
  <1>5. LeafOK(e.items, Keys)
    BY <1>3, <1>4 DEF LeafOK, Increasing
  <1>6. r[n] = Keys /\ l[n] = 0
    OBVIOUS
  <1> HIDE DEF r, l
  <1>7. NodeOK(Q, r, l, n)
    BY <1>1, <1>2, <1>5, <1>6 DEF NodeOK
  <1>8. HangsOK(Q, n, l, n)
    BY <1>6 DEF HangsOK
  <1>9. IsFiniteSet({n})
    BY FS_Singleton
  <1>10. TreeOK(Q, n, r, l)
    BY <1>1, <1>2, <1>6, <1>7, <1>8, <1>9 DEF TreeOK
  <1>11. SizeOK(Q, n, NoPage, n)
    <2>1. MaxSize(Q[n]) = LeafMax /\ n # NoPage
      BY <1>1, <1>2 DEF MaxSize, Growing
    <2>2. 1 <= LeafMax + 0
      BY DEF Growing
    <2>3. QED
      BY <1>1, <1>2, <1>3, <2>1, <2>2 DEF SizeOK
  <1>12. QED
    BY <1>1, <1>10, <1>11 DEF IsTree, SizesOK

LEMMA StepInsertFirst ==
  ASSUME Growing, GInv, NEW key \in Keys, NEW value \in Values, InsertFirst(key, value)
  PROVE  GInv'
  <1>1. call = Idle /\ root = NoPage
    BY DEF InsertFirst
  <1>2. pages = <<>> /\ PinsAre(pins, {}) /\ Pinned = {}
    BY <1>1, IdleFacts
  <1>3. NewPageId \in PageIds
    <2>1. DOMAIN pages = {} /\ IsFiniteSet({})
      BY <1>2, FS_EmptySet
    <2>2. QED
      BY <1>2, <2>1, FreshFacts
  <1>4. PICK n, Q : n = NewPageId /\ Q = AddPage(pages, n, LeafPage(<<Item(key, value)>>))
    OBVIOUS
  <1>5. pages' = Q /\ root' = n /\ call' = Idle /\ pins' = pins /\ others' = others
    BY <1>1, <1>4 DEF InsertFirst
  <1>6. IsTree(Q, n) /\ SizesOK(Q, n, NoPage)
    BY <1>2, <1>3, <1>4, OneLeafTree
  <1>7. GrownOK(Q, n, Idle, pins)
    <2>1. ViewOf(Q, Idle) = Q /\ OverOf(Idle) = NoPage
      BY DEF ViewOf, OverOf, Idle
    <2>2. CallOK(Q, Idle, pins)
      BY <1>2 DEF CallOK
    <2>3. QED
      BY <1>6, <2>1, <2>2 DEF GrownOK
  <1>8. QED
    BY <1>5, <1>7 DEF GInv

\* What an insertion into a leaf comes to.
InsertsAt(p, items, key, value) ==
  /\ p \in DOMAIN pages /\ pages[p].leaf
  /\ pages[p].items \in Seq(ItemType) /\ items \in Seq(ItemType)
  /\ items = LeafInsert(pages[p].items, key, value)
  /\ pages' = [pages EXCEPT ![p].items = items]
  /\ answer' = (Len(items) # Len(pages[p].items))
  /\ root' = root /\ others' = others
  /\ \/ Keyed(pages[p].items, key) /\ items = pages[p].items
     \/ ~Keyed(pages[p].items, key) /\ Len(items) = Len(pages[p].items) + 1

LEMMA LeafInsertion ==
  ASSUME Growing, GInv, NEW key \in Keys, NEW value \in Values, InsertIntoLeaf(key, value),
         NEW r, NEW l, TreeOK(pages, root, r, l)
  PROVE  \E p, items : /\ InsertsAt(p, items, key, value) /\ key \in r[p]
                       /\ p = FindLeafPage(key)
                       /\ LeafOK(pages[p].items, r[p]) /\ LeafOK(items, r[p])
  <1>1. call = Idle
    BY DEF InsertIntoLeaf
  <1>2. \A p \in DOMAIN pages : CanPin({p})
    BY <1>1, IdleFacts
  <1>3. PICK p : p = FindLeafPage(key)
    OBVIOUS
  <1>4. p \in DOMAIN pages /\ pages[p].leaf /\ key \in r[p]
    BY <1>2, <1>3, FindLeafIs
  <1>5. PICK items : items = LeafInsert(pages[p].items, key, value)
    OBVIOUS
  <1>6. /\ pages' = [pages EXCEPT ![p].items = items]
        /\ answer' = (Len(items) # Len(pages[p].items))
        /\ root' = root /\ others' = others
    BY <1>3, <1>5 DEF InsertIntoLeaf, Size
  <1>7. pages[p].items \in Seq(ItemType) /\ r[p] \in SUBSET Int /\ LeafOK(pages[p].items, r[p])
    BY <1>4, NodeFacts DEF NodeOK, Growing
  <1>8. PICK old, R : old = pages[p].items /\ R = r[p]
    OBVIOUS
  <1>9. /\ Keyed(old, key) => items = old
        /\ ~Keyed(old, key) =>
             items \in Seq(ItemType) /\ Len(items) = Len(old) + 1 /\ LeafOK(items, R)
    BY <1>4, <1>5, <1>7, <1>8, LeafInsertIs
  <1>10. InsertsAt(p, items, key, value) /\ LeafOK(items, r[p])
    BY <1>4, <1>5, <1>6, <1>7, <1>8, <1>9 DEF InsertsAt
  <1>11. QED
    BY <1>3, <1>4, <1>7, <1>10

LEMMA PinOne ==
  ASSUME NEW p \in PageIds, NEW pn, PinsAre(pn, {})
  PROVE  PinsAre([pn EXCEPT ![p] = @ + 1], {p})
  <1>1. pn = [x \in PageIds |-> 0]
    BY DEF PinsAre
  <1>2. [pn EXCEPT ![p] = @ + 1] = [x \in PageIds |-> IF x \in {p} THEN 1 ELSE 0]
    BY <1>1
  <1>3. QED
    BY <1>2 DEF PinsAre

LEMMA UnpinOne ==
  ASSUME NEW p \in PageIds, NEW pn, PinsAre(pn, {p})
  PROVE  PinsAre([pn EXCEPT ![p] = @ - 1], {})
  <1>1. pn = [x \in PageIds |-> IF x \in {p} THEN 1 ELSE 0]
    BY DEF PinsAre
  <1>2. [pn EXCEPT ![p] = @ - 1] = [x \in PageIds |-> 0]
    BY <1>1
  <1>3. QED
    BY <1>2 DEF PinsAre

LEMMA StepInsertIntoLeaf ==
  ASSUME Growing, GInv, NEW key \in Keys, NEW value \in Values, InsertIntoLeaf(key, value)
  PROVE  GInv'
  <1>1. call = Idle /\ root # NoPage
    BY DEF InsertIntoLeaf
  <1>2. PinsAre(pins, {}) /\ IsTree(pages, root) /\ SizesOK(pages, root, NoPage)
    BY <1>1, IdleFacts
  <1>3. PICK r, l : TreeOK(pages, root, r, l)
    BY <1>2 DEF IsTree
  <1>4. PICK p, items : /\ InsertsAt(p, items, key, value) /\ key \in r[p]
                        /\ p = FindLeafPage(key) /\ LeafOK(items, r[p])
    BY <1>3, LeafInsertion
  <1>5. /\ p \in DOMAIN pages /\ pages[p].leaf
        /\ pages[p].items \in Seq(ItemType) /\ items \in Seq(ItemType)
        /\ items = LeafInsert(pages[p].items, key, value)
        /\ pages' = [pages EXCEPT ![p].items = items]
        /\ root' = root /\ others' = others
        /\ Len(items) = Len(pages[p].items) \/ Len(items) = Len(pages[p].items) + 1
    BY <1>4 DEF InsertsAt
  <1>6. PICK Q : Q = [pages EXCEPT ![p].items = items]
    OBVIOUS
  <1>7. IsTree(Q, root)
    BY <1>3, <1>4, <1>5, <1>6, LeafChangeOK DEF IsTree
  <1>8. /\ DOMAIN Q = DOMAIN pages /\ \A x \in DOMAIN pages : x # p => Q[x] = pages[x]
        /\ Q[p].leaf /\ Q[p].items = items
    <2>1. pages[p] \in PageType
      BY <1>3, <1>5, NodeFacts
    <2>2. Q[p] = [pages[p] EXCEPT !.items = items]
      BY <1>5, <1>6
    <2>3. QED
      BY <1>5, <1>6, <2>1, <2>2 DEF PageType
  <1>9. MaxSize(Q[p]) = LeafMax /\ MaxSize(pages[p]) = LeafMax /\ LeafMax \in Nat
        /\ MinSize(Q[p]) = MinSize(pages[p]) /\ MinSize(pages[p]) \in Int
    BY <1>5, <1>8 DEF MaxSize, MinSize, Growing
  <1>10. p # NoPage /\ p \in PageIds
    BY <1>3, <1>5, NodeFacts DEF Growing
  <1>11. SizeOK(pages, root, NoPage, p) /\ Len(pages[p].items) \in Nat /\ Len(items) \in Nat
    BY <1>2, <1>5 DEF SizesOK
  <1>12. Len(pages[p].items) <= LeafMax
    BY <1>9, <1>10, <1>11 DEF SizeOK
  <1>13. p # root => Len(items) >= MinSize(Q[p])
    <2>1. p # root => Len(pages[p].items) >= MinSize(pages[p])
      BY <1>11 DEF SizeOK
    <2>2. QED
      BY <1>5, <1>9, <1>11, <2>1
  <1>14. ASSUME NEW x \in DOMAIN Q, x # p PROVE SizeOK(Q, root, NoPage, x) /\ SizeOK(Q, root, p, x)
    <2>1. SizeOK(pages, root, NoPage, x) /\ Q[x] = pages[x] /\ x # NoPage
      <3>1. x \in PageIds
        BY <1>3, <1>8, NodeFacts
      <3>2. QED
        BY <1>2, <1>8, <1>14, <3>1 DEF SizesOK, Growing
    <2>2. QED
      BY <1>14, <2>1 DEF SizeOK
  <1>15. CASE Len(items) > LeafMax
    <2>1. Len(items) # Len(pages[p].items) /\ Len(items) = LeafMax + 1
      BY <1>5, <1>9, <1>11, <1>12, <1>15
    <2>2. call' = SplitCall(p) /\ pins' = [pins EXCEPT ![p] = @ + 1]
      BY <1>4, <1>5, <1>15, <2>1 DEF InsertIntoLeaf, Size, SplitCall
    <2>3. PinsAre([pins EXCEPT ![p] = @ + 1], {p})
      BY <1>2, <1>10, PinOne
    <2>4. PICK pn : pn = [pins EXCEPT ![p] = @ + 1]
      OBVIOUS
    <2>5. CallOK(Q, SplitCall(p), pn)
      BY <1>5, <1>8, <2>1, <2>3, <2>4 DEF CallOK
    <2>6. ViewOf(Q, SplitCall(p)) = Q /\ OverOf(SplitCall(p)) = p
      BY DEF ViewOf, OverOf, SplitCall
    <2>7. SizeOK(Q, root, p, p)
      BY <1>8, <1>9, <1>13, <2>1 DEF SizeOK
    <2>8. GrownOK(Q, root, SplitCall(p), pn)
      BY <1>7, <1>14, <2>5, <2>6, <2>7 DEF GrownOK, SizesOK
    <2>9. QED
      BY <1>5, <1>6, <2>2, <2>4, <2>8 DEF GInv
  <1>16. CASE ~(Len(items) > LeafMax)
    <2>1. call' = Idle /\ pins' = pins
      BY <1>1, <1>4, <1>5, <1>16 DEF InsertIntoLeaf, Size
    <2>2. CallOK(Q, Idle, pins)
      BY <1>2 DEF CallOK
    <2>3. ViewOf(Q, Idle) = Q /\ OverOf(Idle) = NoPage
      BY DEF ViewOf, OverOf, Idle
    <2>4. SizeOK(Q, root, NoPage, p)
      <3>1. Len(items) <= LeafMax + 0
        BY <1>9, <1>11, <1>16
      <3>2. QED
        BY <1>8, <1>9, <1>10, <1>13, <3>1 DEF SizeOK
    <2>5. GrownOK(Q, root, Idle, pins)
      BY <1>7, <1>14, <2>2, <2>3, <2>4 DEF GrownOK, SizesOK
    <2>6. QED
      BY <1>5, <1>6, <2>1, <2>5 DEF GInv
  <1>17. QED
    BY <1>15, <1>16

LEMMA NoInsertFails ==
  ASSUME Growing, GInv, NEW key \in Keys, InsertFails(key)
  PROVE  FALSE
  <1>1. call = Idle
    BY DEF InsertFails
  <1>2. CASE root = NoPage
    BY <1>1, <1>2, IdleFacts DEF InsertFails
  <1>3. CASE root # NoPage
    <2>1. PICK r, l : TreeOK(pages, root, r, l)
      BY <1>1, <1>3, IdleFacts DEF IsTree
    <2>2. \A p \in DOMAIN pages : CanPin({p})
      BY <1>1, IdleFacts
    <2>3. FindLeafPage(key) # NoPage
      BY <2>1, <2>2, FindLeafIs
    <2>4. QED
      BY <1>3, <2>3 DEF InsertFails
  <1>4. QED
    BY <1>2, <1>3

\* The pages of Split before the parent is told.
LeafSplitPages(P, p, new, from, to) ==
  AddPage([P EXCEPT ![p].items = from, ![p].next = new], new,
          [LeafPage(to) EXCEPT !.next = P[p].next, !.parent = P[p].parent])

LEMMA LeafHalvesOf ==
  ASSUME NEW P, NEW p \in DOMAIN P, \A x \in DOMAIN P : P[x] \in PageType, P[p].leaf,
         Len(P[p].items) >= 2, NEW new \in PageIds, new \notin DOMAIN P
  PROVE  HalvesOf(P, LeafSplitPages(P, p, new, MoveHalfTo(P[p].items).from,
                                    MoveHalfTo(P[p].items).to),
                  p, new, SplitIndex(P[p].items))
  <1>0. PICK half : half = MoveHalfTo(P[p].items)
    OBVIOUS
  <1>1. PICK m : m = SplitIndex(P[p].items)
    OBVIOUS
  <1>2. P[p] \in PageType /\ P[p].items \in Seq(ItemType) /\ P[p].next \in PageIds \cup {NoPage}
        /\ P[p].parent \in PageIds \cup {NoPage}
    BY DEF PageType
  <1>3. Halves(P[p].items, half.from, half.to, m) /\ half.to[1] = P[p].items[m + 1]
    BY <1>0, <1>1, <1>2, MoveHalfIs
  <1>4. half.from \in Seq(ItemType) /\ half.to \in Seq(ItemType)
    BY <1>3 DEF Halves
  <1>5. PICK a, b : a = half.from /\ b = half.to
    OBVIOUS
  <1> DEFINE fresh == [LeafPage(b) EXCEPT !.next = P[p].next, !.parent = P[p].parent]
             h == LeafSplitPages(P, p, new, a, b)
  <1>6. /\ fresh \in PageType /\ fresh.leaf /\ fresh.parent = P[p].parent /\ fresh.items = b
        /\ fresh.next = P[p].next
    BY <1>2, <1>4, <1>5 DEF LeafPage, PageType
  <1> DEFINE M == [P EXCEPT ![p].items = a, ![p].next = new]
  <1>7. DOMAIN M = DOMAIN P /\ \A x \in DOMAIN P : x # p => M[x] = P[x]
    OBVIOUS
  <1>8. M[p] = [P[p] EXCEPT !.items = a, !.next = new]
    OBVIOUS
  <1> HIDE DEF M, fresh, h
  <1>9. /\ M[p] \in PageType /\ M[p].leaf = P[p].leaf /\ M[p].parent = P[p].parent
        /\ M[p].items = a /\ M[p].next = new
    BY <1>2, <1>4, <1>5, <1>8 DEF PageType
  <1>10. h = AddPage(M, new, fresh)
    BY DEF M, fresh, h, LeafSplitPages
  <1>11. DOMAIN h = DOMAIN P \cup {new} /\ h[new] = fresh /\ \A x \in DOMAIN P : h[x] = M[x]
    BY <1>7, <1>10 DEF AddPage
  <1>12. \A x \in DOMAIN P : h[x] \in PageType /\ h[x].leaf = P[x].leaf /\ h[x].parent = P[x].parent
    BY <1>7, <1>9, <1>11
  <1>13. \A x \in DOMAIN P : x # p => h[x].items = P[x].items /\ h[x].next = P[x].next
    BY <1>7, <1>11
  <1>14. h[p].items = a /\ h[new].items = b /\ h[new].leaf = P[p].leaf
         /\ h[new].parent = P[p].parent /\ h[new] \in PageType
         /\ h[p].next = new /\ h[new].next = P[p].next
    BY <1>6, <1>9, <1>11
  <1>15. HalvesOf(P, h, p, new, m)
    BY <1>3, <1>5, <1>11, <1>12, <1>13, <1>14 DEF HalvesOf
  <1>16. QED
    BY <1>0, <1>1, <1>5, <1>15 DEF h

\* The pages after a split of p, with frames to spare.
Splits(h, p, mid, new, s) ==
  \/ /\ pages[p].parent = NoPage
     /\ pages' = RootAbove(h, p, mid, new, s) /\ root' = s /\ call' = Idle
  \/ /\ pages[p].parent # NoPage
     /\ pages' = h /\ root' = root /\ call' = ParentCall(pages[p].parent, p, mid, new)

LEMMA SplitKeeps ==
  ASSUME Growing, GInv, call.op \in {"split", "splitInternal"}, NEW p, p = call.page,
         NEW h, NEW m, m = SplitIndex(pages[p].items), NEW mid, mid = pages[p].items[m + 1].key,
         NEW new, HalvesOf(pages, h, p, new, m),
         NEW s \in PageIds, s \notin DOMAIN pages, s # new,
         Splits(h, p, mid, new, s), pins' = Unpin(p), others' = others
  PROVE  GInv'
  <1>1. /\ p \in DOMAIN pages /\ PinsAre(pins, {p})
        /\ Len(pages[p].items) = MaxSize(pages[p]) + 1
        /\ IsTree(pages, root) /\ SizesOK(pages, root, p)
    BY SplitFacts
  <1>2. PICK r, l : TreeOK(pages, root, r, l)
    BY <1>1 DEF IsTree
  <1>3. p \in PageIds /\ root \in DOMAIN pages /\ pages[root].parent = NoPage
    BY <1>1, <1>2, NodeFacts DEF TreeOK
  <1>4. PICK pn : pn = Unpin(p)
    OBVIOUS
  <1>5. PinsAre(pn, {})
    BY <1>1, <1>3, <1>4, UnpinOne DEF Unpin
  <1>6. others \in OtherPins \cup {0}
    BY DEF GInv
  <1>7. CASE pages[p].parent = NoPage
    <2>1. p = root
      <3>1. p # root => pages[p].parent \in DOMAIN pages
        BY <1>1, <1>2, ParentFacts
      <3>2. DOMAIN pages \subseteq PageIds /\ NoPage \notin PageIds
        BY <1>2 DEF TreeOK, Growing
      <3>3. QED
        BY <1>7, <3>1, <3>2
    <2>2. /\ pages' = RootAbove(h, p, mid, new, s) /\ root' = s /\ call' = Idle
      BY <1>7 DEF Splits
    <2>3. PICK rt : rt = root
      OBVIOUS
    <2>4. /\ TreeOK(pages, rt, r, l) /\ HalvesOf(pages, h, rt, new, m) /\ SizesOK(pages, rt, rt)
          /\ m = SplitIndex(pages[rt].items) /\ Len(pages[rt].items) = MaxSize(pages[rt]) + 1
          /\ mid = pages[rt].items[m + 1].key
      BY <1>1, <1>2, <2>1, <2>3
    <2>5. GrownOK(RootAbove(h, rt, mid, new, s), s, Idle, pn)
      BY <1>5, <2>4, SplitBelowNewRoot
    <2>6. QED
      BY <1>4, <1>6, <2>1, <2>2, <2>3, <2>5 DEF GInv
  <1>8. CASE pages[p].parent # NoPage
    <2>1. p # root
      BY <1>3, <1>8
    <2>2. PICK q : q = pages[p].parent
      OBVIOUS
    <2>3. pages' = h /\ root' = root /\ call' = ParentCall(q, p, mid, new)
      BY <1>8, <2>2 DEF Splits
    <2>4. GrownOK(h, root, ParentCall(q, p, mid, new), pn)
      BY <1>1, <1>2, <1>5, <2>1, <2>2, SplitBelowParent
    <2>5. QED
      BY <1>4, <1>6, <2>3, <2>4 DEF GInv
  <1>9. QED
    BY <1>7, <1>8

LEMMA FreshForSplit ==
  ASSUME Growing, GInv, call.op \in {"split", "splitInternal"}
  PROVE  /\ NewPageId \in PageIds /\ NewPageId \notin DOMAIN pages
         /\ SecondPageId \in PageIds /\ SecondPageId \notin DOMAIN pages
         /\ SecondPageId # NewPageId
  <1>1. IsTree(pages, root) /\ IsFiniteSet(Pinned)
    BY SplitFacts
  <1>2. PICK r, l : TreeOK(pages, root, r, l)
    BY <1>1 DEF IsTree
  <1>3. IsFiniteSet(DOMAIN pages) /\ \A p \in DOMAIN pages : pages[p] \in PageType
    BY <1>2, NodeFacts DEF TreeOK
  <1>4. QED
    BY <1>1, <1>3, FreshFacts

LEMMA SplitIs ==
  ASSUME Growing, GInv, call.op \in {"split", "splitInternal"}, NEW p, p = call.page,
         NEW h, NEW mid, LinkHalves(h, p, mid, NewPageId)
  PROVE  Splits(h, p, mid, NewPageId, SecondPageId)
  <1>1. \A a, b : CanPin({a}) /\ CanPin({a, b})
    BY SplitFacts
  <1>2. CASE pages[p].parent = NoPage
    <2>1. GrowRoot(h, p, mid, NewPageId)
      BY <1>2 DEF LinkHalves, IsRootPage
    <2>2. QED
      BY <1>1, <1>2, <2>1 DEF GrowRoot, Splits, RootAbove, Return
  <1>3. CASE pages[p].parent # NoPage
    BY <1>3 DEF LinkHalves, IsRootPage, Splits, ParentCall
  <1>4. QED
    BY <1>2, <1>3

\* What both kinds of split come to.
SplitsPage(h, m, mid, new, s) ==
  /\ call.op \in {"split", "splitInternal"}
  /\ m = SplitIndex(pages[call.page].items) /\ mid = pages[call.page].items[m + 1].key
  /\ HalvesOf(pages, h, call.page, new, m)
  /\ s \in PageIds /\ s \notin DOMAIN pages /\ s # new
  /\ Splits(h, call.page, mid, new, s)
  /\ pins' = Unpin(call.page) /\ others' = others /\ answer' = answer

LEMMA LeafSplitIs ==
  ASSUME Growing, GInv, Split
  PROVE  \E h, m, mid, new, s : SplitsPage(h, m, mid, new, s)
  <1>1. call.op = "split"
    BY DEF Split
  <1>2. PICK p, new : p = call.page /\ new = NewPageId
    OBVIOUS
  <1>3. PICK half : half = MoveHalfTo(pages[p].items)
    OBVIOUS
  <1>4. PICK h : h = LeafSplitPages(pages, p, new, half.from, half.to)
    OBVIOUS
  <1>6. /\ p \in DOMAIN pages /\ pages[p].leaf /\ CanPin({new})
        /\ Len(pages[p].items) = MaxSize(pages[p]) + 1 /\ IsTree(pages, root)
    BY <1>1, <1>2, SplitFacts
  <1>7. PICK r, l : TreeOK(pages, root, r, l)
    BY <1>6 DEF IsTree
  <1>8. \A x \in DOMAIN pages : pages[x] \in PageType /\ pages[x].items \in Seq(ItemType)
    BY <1>7, NodeFacts
  <1>9. LinkHalves(h, p, half.to[1].key, new)
        /\ pins' = Unpin(p) /\ others' = others /\ answer' = answer
    BY <1>2, <1>3, <1>4, <1>6 DEF Split, LeafSplitPages
  <1>10. Len(pages[p].items) >= 2
    <2>1. MaxSize(pages[p]) = LeafMax
      BY <1>6 DEF MaxSize
    <2>2. QED
      BY <1>6, <2>1 DEF Growing
  <1>11. PICK m : m = SplitIndex(pages[p].items)
    OBVIOUS
  <1>12. new \in PageIds /\ new \notin DOMAIN pages
    BY <1>1, <1>2, FreshForSplit
  <1>13. HalvesOf(pages, h, p, new, m)
    BY <1>3, <1>4, <1>6, <1>8, <1>10, <1>11, <1>12, LeafHalvesOf
  <1>14. PICK mid : mid = half.to[1].key
    OBVIOUS
  <1>15. mid = pages[p].items[m + 1].key
    BY <1>3, <1>6, <1>8, <1>10, <1>11, <1>14, MoveHalfIs
  <1>16. Splits(h, p, mid, new, SecondPageId)
    BY <1>1, <1>2, <1>9, <1>14, SplitIs
  <1>17. PICK s : s = SecondPageId
    OBVIOUS
  <1>18. s \in PageIds /\ s \notin DOMAIN pages /\ s # new
    BY <1>1, <1>2, <1>17, FreshForSplit
  <1>19. SplitsPage(h, m, mid, new, s)
    BY <1>1, <1>2, <1>9, <1>11, <1>13, <1>15, <1>16, <1>17, <1>18 DEF SplitsPage
  <1>20. QED
    BY <1>19

\* The same of SplitInternal.
InternalSplitPages(p, new, from, to) ==
  Adopt(AddPage([pages EXCEPT ![p].items = from], new,
                [InternalPage(to) EXCEPT !.parent = pages[p].parent]),
        new, {to[i].val : i \in DOMAIN to}, {new})

LEMMA InternalHalvesOf ==
  ASSUME NEW p \in DOMAIN pages, \A x \in DOMAIN pages : pages[x] \in PageType, ~pages[p].leaf,
         Len(pages[p].items) >= 2, NEW new \in PageIds, new \notin DOMAIN pages,
         \A a, b : CanPin({a}) /\ CanPin({a, b}),
         \A i \in 1 .. Len(pages[p].items) : pages[p].items[i].val \in DOMAIN pages \ {p}
  PROVE  HalvesOf(pages, InternalSplitPages(p, new, InternalMoveHalfTo(pages[p].items).from,
                                            InternalMoveHalfTo(pages[p].items).to),
                  p, new, SplitIndex(pages[p].items))
  <1>0. PICK half : half = InternalMoveHalfTo(pages[p].items)
    OBVIOUS
  <1>1. PICK m : m = SplitIndex(pages[p].items)
    OBVIOUS
  <1>2. pages[p] \in PageType /\ pages[p].items \in Seq(ItemType)
        /\ pages[p].parent \in PageIds \cup {NoPage}
    BY DEF PageType
  <1>3. Halves(pages[p].items, half.from, half.to, m)
    BY <1>0, <1>1, <1>2, InternalMoveHalfIs
  <1>4. PICK a, b : a = half.from /\ b = half.to
    OBVIOUS
  <1>5. a \in Seq(ItemType) /\ b \in Seq(ItemType) /\ DOMAIN b = 1 .. Len(b)
    BY <1>3, <1>4 DEF Halves
  <1> DEFINE fresh == [InternalPage(b) EXCEPT !.parent = pages[p].parent]
             h == InternalSplitPages(p, new, a, b)
  <1>6. fresh \in PageType /\ ~fresh.leaf /\ fresh.parent = pages[p].parent /\ fresh.items = b
    BY <1>2, <1>4, <1>5 DEF InternalPage, PageType
  <1> DEFINE M == [pages EXCEPT ![p].items = a]
             A == AddPage(M, new, fresh)
             C == {b[i].val : i \in DOMAIN b}
  <1>7. DOMAIN M = DOMAIN pages /\ \A x \in DOMAIN pages : x # p => M[x] = pages[x]
    OBVIOUS
  <1>8. M[p] = [pages[p] EXCEPT !.items = a]
    OBVIOUS
  <1> HIDE DEF M, fresh, h
  <1>9. /\ M[p] \in PageType /\ M[p].leaf = pages[p].leaf /\ M[p].parent = pages[p].parent
        /\ M[p].items = a
    BY <1>2, <1>5, <1>8 DEF PageType
  <1>10. DOMAIN A = DOMAIN pages \cup {new} /\ A[new] = fresh /\ \A x \in DOMAIN pages : A[x] = M[x]
    BY <1>7 DEF AddPage
  <1> HIDE DEF A
  <1>11. \A x \in C : x \in DOMAIN pages /\ x # p
    <2>1. ASSUME NEW i \in 1 .. Len(b) PROVE b[i].val \in DOMAIN pages \ {p}
      <3>1. /\ Len(b) = Len(pages[p].items) - m /\ m \in Nat
            /\ \A j \in 1 .. Len(pages[p].items) - m : b[j].val = pages[p].items[m + j].val
        BY <1>3, <1>4 DEF Halves
      <3>2. Len(pages[p].items) \in Nat
        BY <1>2
      <3>3. m + i \in 1 .. Len(pages[p].items) /\ i \in 1 .. Len(pages[p].items) - m
        BY <3>1, <3>2
      <3>4. QED
        BY <3>1, <3>3
    <2>2. QED
      BY <1>5, <2>1
  <1> HIDE DEF C
  <1>12. h = Adopt(A, new, C, {new})
    BY DEF A, M, C, fresh, h, InternalSplitPages
  <1>13. \A x : CanPin({new} \cup {x})
    <2>1. ASSUME NEW x PROVE CanPin({new} \cup {x})
      <3>1. {new} \cup {x} = {new, x}
        OBVIOUS
      <3>2. CanPin({new, x})
        OBVIOUS
      <3>3. QED
        BY <3>1, <3>2
    <2>2. QED
      BY <2>1
  <1>14. /\ DOMAIN h = DOMAIN pages \cup {new}
         /\ \A x \in DOMAIN h : x \notin C => h[x] = A[x]
         /\ \A x \in DOMAIN h : x \in C => h[x] = [A[x] EXCEPT !.parent = new]
    BY <1>10, <1>12, <1>13 DEF Adopt
  <1>15. h[p] = M[p] /\ h[new] = fresh
    BY <1>10, <1>11, <1>14
  <1>16. ASSUME NEW x \in DOMAIN pages
         PROVE  /\ h[x] \in PageType /\ h[x].leaf = pages[x].leaf
                /\ x # p => h[x].items = pages[x].items /\ h[x].next = pages[x].next
                /\ x \in C => h[x].parent = new
                /\ x \notin C => h[x].parent = pages[x].parent
    <2>1. CASE x = p
      BY <1>9, <1>11, <1>15, <2>1
    <2>2. CASE x # p /\ x \notin C
      BY <1>7, <1>10, <1>14, <2>2
    <2>3. CASE x # p /\ x \in C
      <3>1. h[x] = [pages[x] EXCEPT !.parent = new] /\ pages[x] \in PageType
        BY <1>7, <1>10, <1>14, <2>3
      <3>2. QED
        BY <2>3, <3>1 DEF PageType
    <2>4. QED
      BY <2>1, <2>2, <2>3
  <1>17. \A x : Lists(h, new, x) <=> x \in C
    <2>1. h[new].items = b
      BY <1>6, <1>15
    <2>2. QED
      BY <1>5, <2>1 DEF Lists, C
  <1>18. HalvesOf(pages, h, p, new, m)
    <2>1. h[p].items = a /\ h[new].items = b /\ h[new].leaf = pages[p].leaf
          /\ h[new].parent = pages[p].parent /\ h[new] \in PageType
      BY <1>2, <1>6, <1>9, <1>15 DEF PageType
    <2>2. \A x \in DOMAIN pages : Lists(h, new, x) => h[x].parent = new
      BY <1>16, <1>17
    <2>3. \A x \in DOMAIN pages : ~Lists(h, new, x) => h[x].parent = pages[x].parent
      BY <1>16, <1>17
    <2>4. \A x \in DOMAIN h : h[x] \in PageType
      BY <1>14, <1>16, <2>1
    <2>5. QED
      BY <1>3, <1>4, <1>14, <1>16, <2>1, <2>2, <2>3, <2>4 DEF HalvesOf
  <1>19. QED
    BY <1>0, <1>1, <1>4, <1>18 DEF h

LEMMA InternalSplitIs ==
  ASSUME Growing, GInv, SplitInternal
  PROVE  \E h, m, mid, new, s : SplitsPage(h, m, mid, new, s)
  <1>1. call.op = "splitInternal"
    BY DEF SplitInternal
  <1>2. PICK p, new : p = call.page /\ new = NewPageId
    OBVIOUS
  <1>3. PICK half : half = InternalMoveHalfTo(pages[p].items)
    OBVIOUS
  <1>4. PICK h : h = InternalSplitPages(p, new, half.from, half.to)
    OBVIOUS
  <1>6. /\ p \in DOMAIN pages /\ ~pages[p].leaf /\ \A a, b : CanPin({a}) /\ CanPin({a, b})
        /\ Len(pages[p].items) = MaxSize(pages[p]) + 1 /\ IsTree(pages, root)
    BY <1>1, <1>2, SplitFacts
  <1>7. PICK r, l : TreeOK(pages, root, r, l)
    BY <1>6 DEF IsTree
  <1>8. \A x \in DOMAIN pages : pages[x] \in PageType /\ pages[x].items \in Seq(ItemType)
    BY <1>7, NodeFacts
  <1>9. PICK m : m = SplitIndex(pages[p].items)
    OBVIOUS
  <1>10. PICK mid : mid = pages[p].items[m + 1].key
    OBVIOUS
  <1>11. LinkHalves(h, p, mid, new)
         /\ pins' = Unpin(p) /\ others' = others /\ answer' = answer
    BY <1>2, <1>3, <1>4, <1>6, <1>9, <1>10 DEF SplitInternal, InternalSplitPages
  <1>12. Len(pages[p].items) >= 2
    <2>1. MaxSize(pages[p]) = InternalMax
      BY <1>6 DEF MaxSize
    <2>2. QED
      BY <1>6, <2>1 DEF Growing
  <1>13. new \in PageIds /\ new \notin DOMAIN pages
    BY <1>1, <1>2, FreshForSplit
  <1>14. ASSUME NEW i \in 1 .. Len(pages[p].items)
         PROVE  pages[p].items[i].val \in DOMAIN pages \ {p}
    <2>1. PICK c : c = pages[p].items[i].val
      OBVIOUS
    <2>2. ChildOK(pages, r, l, p, i, c)
      BY <1>6, <1>7, <2>1, InnerFacts
    <2>3. c \in DOMAIN pages /\ l[c] + 1 = l[p]
      BY <2>2 DEF ChildOK
    <2>4. l[c] \in Nat /\ l[p] \in Nat
      BY <1>6, <1>7, <2>3, NodeFacts
    <2>5. c # p
      BY <2>3, <2>4
    <2>6. QED
      BY <2>1, <2>3, <2>5
  <1>15. HalvesOf(pages, h, p, new, m)
    BY <1>3, <1>4, <1>6, <1>8, <1>9, <1>12, <1>13, <1>14, InternalHalvesOf
  <1>16. Splits(h, p, mid, new, SecondPageId)
    BY <1>1, <1>2, <1>11, SplitIs
  <1>17. PICK s : s = SecondPageId
    OBVIOUS
  <1>18. s \in PageIds /\ s \notin DOMAIN pages /\ s # new
    BY <1>1, <1>2, <1>17, FreshForSplit
  <1>19. SplitsPage(h, m, mid, new, s)
    BY <1>1, <1>2, <1>9, <1>10, <1>11, <1>15, <1>16, <1>17, <1>18 DEF SplitsPage
  <1>20. QED
    BY <1>19

LEMMA StepSplits ==
  ASSUME Growing, GInv, Split \/ SplitInternal
  PROVE  GInv'
  <1>1. PICK h, m, mid, new, s : SplitsPage(h, m, mid, new, s)
    BY LeafSplitIs, InternalSplitIs
  <1>2. PICK p : p = call.page
    OBVIOUS
  <1>3. /\ call.op \in {"split", "splitInternal"}
        /\ m = SplitIndex(pages[p].items) /\ mid = pages[p].items[m + 1].key
        /\ HalvesOf(pages, h, p, new, m)
        /\ s \in PageIds /\ s \notin DOMAIN pages /\ s # new
        /\ Splits(h, p, mid, new, s) /\ pins' = Unpin(p) /\ others' = others
    BY <1>1, <1>2 DEF SplitsPage
  <1>4. QED
    BY <1>2, <1>3, SplitKeeps

LEMMA ParentFactsOfCall ==
  ASSUME Growing, GInv, call.op = "insertIntoParent"
  PROVE  /\ call.parent \in DOMAIN pages /\ ~pages[call.parent].leaf
         /\ pages[call.parent] \in PageType
         /\ PinsAre(pins, {})
         /\ \A a, b : CanPin({a}) /\ CanPin({a, b})
         /\ IsTree(ViewOf(pages, call), root)
         /\ SizesOK(ViewOf(pages, call), root, call.parent)
  <1>1. CallOK(pages, call, pins) /\ others \in OtherPins \cup {0}
    BY DEF GInv, GrownOK
  <1>2. call # Idle /\ \A p : call # SplitCall(p) /\ call # SplitInternalCall(p)
    BY DEF Idle, SplitCall, SplitInternalCall
  <1>3. PICK q \in DOMAIN pages : \E p, k, new :
          /\ call = ParentCall(q, p, k, new) /\ ~pages[q].leaf /\ pages[q] \in PageType
          /\ PinsAre(pins, {})
    BY <1>1, <1>2 DEF CallOK
  <1>4. call.parent = q
    BY <1>3 DEF ParentCall
  <1>5. Pinned = {}
    BY <1>3, PinnedIs
  <1>6. \A a, b : CanPin({a}) /\ CanPin({a, b})
    BY <1>1, <1>5, FewCanBePinned
  <1>7. OverOf(call) = q
    BY <1>4 DEF OverOf
  <1>8. IsTree(ViewOf(pages, call), root) /\ SizesOK(ViewOf(pages, call), root, q)
    BY <1>2, <1>7 DEF GInv, GrownOK
  <1>9. QED
    BY <1>3, <1>4, <1>6, <1>8

LEMMA StepInsertIntoParent ==
  ASSUME Growing, GInv, InsertIntoParent
  PROVE  GInv'
  <1>1. call.op = "insertIntoParent"
    BY DEF InsertIntoParent
  <1>2. PICK q, V : q = call.parent /\ V = ViewOf(pages, call)
    OBVIOUS
  <1>3. /\ q \in DOMAIN pages /\ ~pages[q].leaf /\ pages[q] \in PageType /\ PinsAre(pins, {})
        /\ CanPin({q}) /\ IsTree(V, root) /\ SizesOK(V, root, q)
    BY <1>1, <1>2, ParentFactsOfCall
  <1>4. PICK items : items = InsertNodeAfter(pages[q].items, call.old, call.key, call.new)
    OBVIOUS
  <1>5. V = [pages EXCEPT ![q].items = items]
    BY <1>1, <1>2, <1>4 DEF ViewOf
  <1>6. V[q] = [pages[q] EXCEPT !.items = items] /\ DOMAIN V = DOMAIN pages
    BY <1>3, <1>5
  <1>7. q \in DOMAIN V /\ ~V[q].leaf /\ V[q].items = items
    BY <1>3, <1>6 DEF PageType
  <1>8. /\ pages' = V /\ root' = root /\ others' = others
        /\ Len(items) > InternalMax =>
             call' = SplitInternalCall(q) /\ pins' = [pins EXCEPT ![q] = @ + 1]
        /\ ~(Len(items) > InternalMax) => call' = Idle /\ pins' = pins
    BY <1>2, <1>3, <1>4, <1>5 DEF InsertIntoParent, SplitInternalCall
  <1>9. others \in OtherPins \cup {0}
    BY DEF GInv
  <1>10. PICK r, l : TreeOK(V, root, r, l)
    BY <1>3 DEF IsTree
  <1>11. q \in PageIds /\ Len(items) \in Nat /\ Len(items) <= InternalMax + 1 /\ InternalMax \in Nat
    <2>1. q \in PageIds /\ items \in Seq(ItemType)
      BY <1>7, <1>10, NodeFacts
    <2>2. SizeOK(V, root, q, q) /\ MaxSize(V[q]) = InternalMax
      BY <1>3, <1>7 DEF SizesOK, MaxSize
    <2>3. QED
      BY <1>7, <2>1, <2>2 DEF SizeOK, Growing
  <1>12. CASE Len(items) > InternalMax
    <2>1. Len(items) = InternalMax + 1
      BY <1>11, <1>12
    <2>2. PICK pn : pn = [pins EXCEPT ![q] = @ + 1]
      OBVIOUS
    <2>3. PinsAre(pn, {q})
      BY <1>3, <1>11, <2>2, PinOne
    <2>4. CallOK(V, SplitInternalCall(q), pn)
      BY <1>7, <2>1, <2>3 DEF CallOK
    <2>5. ViewOf(V, SplitInternalCall(q)) = V /\ OverOf(SplitInternalCall(q)) = q
      BY DEF ViewOf, OverOf, SplitInternalCall
    <2>6. GrownOK(V, root, SplitInternalCall(q), pn)
      BY <1>3, <2>4, <2>5 DEF GrownOK
    <2>7. QED
      BY <1>8, <1>9, <1>12, <2>2, <2>6 DEF GInv
  <1>13. CASE ~(Len(items) > InternalMax)
    <2>1. SizesOK(V, root, NoPage)
      BY <1>3, <1>7, <1>11, <1>13, NotOver
    <2>2. CallOK(V, Idle, pins)
      BY <1>3 DEF CallOK
    <2>3. ViewOf(V, Idle) = V /\ OverOf(Idle) = NoPage
      BY DEF ViewOf, OverOf, Idle
    <2>4. GrownOK(V, root, Idle, pins)
      BY <1>3, <2>1, <2>2, <2>3 DEF GrownOK
    <2>5. QED
      BY <1>8, <1>9, <1>13, <2>4 DEF GInv
  <1>14. QED
    BY <1>12, <1>13

\* No call that rebalances after a removal is ever under way.
LEMMA NoCoalescing ==
  ASSUME GInv
  PROVE  call.op # "coalesce" /\ call.op # "coalesceInternal"
  <1>1. CallOK(pages, call, pins)
    BY DEF GInv, GrownOK
  <1>2. /\ Idle.op = "idle"
        /\ \A p : SplitCall(p).op = "split" /\ SplitInternalCall(p).op = "splitInternal"
    BY DEF Idle, SplitCall, SplitInternalCall
  <1>3. \A q, p, k, new : ParentCall(q, p, k, new).op = "insertIntoParent"
    BY DEF ParentCall
  <1>4. call.op \in {"idle", "split", "splitInternal", "insertIntoParent"}
    BY <1>1, <1>2, <1>3 DEF CallOK
  <1>5. QED
    BY <1>4

LEMMA GInvStep ==
  ASSUME Growing, GInv, [Next]_vars
  PROVE  GInv'
  <1>1. CASE UNCHANGED vars
    BY <1>1 DEF vars, GInv
  <1>2. ASSUME NEW key \in Keys, NEW value \in Values, Insert(key, value) PROVE GInv'
    <2>1. CASE InsertFirst(key, value)
      BY <2>1, StepInsertFirst
    <2>2. CASE InsertIntoLeaf(key, value)
      BY <2>2, StepInsertIntoLeaf
    <2>3. CASE InsertFails(key)
      BY <2>3, NoInsertFails
    <2>4. QED
      BY <1>2, <2>1, <2>2, <2>3 DEF Insert
  <1>3. CASE Split
    BY <1>3, StepSplits
  <1>4. CASE InsertIntoParent
    BY <1>4, StepInsertIntoParent
  <1>5. CASE SplitInternal
    BY <1>5, StepSplits
  <1>6. ASSUME NEW key \in Removable, Remove(key) \/ RemoveNothing(key) PROVE GInv'
    BY DEF Growing
  <1>7. CASE CoalesceAlone \/ Redistribute \/ Coalesce \/ CoalesceOrRedistributeInternal
    BY <1>7, NoCoalescing
       DEF CoalesceAlone, Redistribute, Coalesce, CoalesceOrRedistributeInternal
  <1>8. CASE OthersPin
    BY <1>8 DEF OthersPin, GInv
  <1>9. QED
    BY <1>1, <1>2, <1>3, <1>4, <1>5, <1>6, <1>7, <1>8 DEF Next

LEMMA GInvInit ==
  ASSUME Growing, Init
  PROVE  GInv
  <1>1. pages = <<>> /\ root = NoPage /\ call = Idle /\ others = 0
        /\ pins = [p \in PageIds |-> 0]
    BY DEF Init
  <1>2. PinsAre(pins, {})
    BY <1>1 DEF PinsAre
  <1>3. QED
    BY <1>1, <1>2 DEF GInv, GrownOK, CallOK

LEMMA GInvHolds ==
  ASSUME Growing
  PROVE  Spec => []GInv
  <1>1. Init => GInv
    BY GInvInit
  <1>2. GInv /\ [Next]_vars => GInv'
    BY GInvStep
  <1>3. QED
    BY <1>1, <1>2, PTL DEF Spec

-----------------------------------------------------------------------------
(* What the leaves hold together.                                          *)

Pair(P, k, v) ==
  \E p \in DOMAIN P : /\ P[p].leaf
                      /\ \E i \in 1 .. Len(P[p].items) : P[p].items[i].key = k
                                                         /\ P[p].items[i].val = v

Pairs(P, k) == {v \in Values : Pair(P, k, v)}

MapOf(P) == [k \in {x \in Keys : Pairs(P, x) # {}} |-> CHOOSE v \in Pairs(P, k) : TRUE]

\* No key is in two places, and the leaves are sequences of items.
LeavesOK(P) ==
  /\ \A p \in DOMAIN P : P[p].leaf => P[p].items \in Seq(ItemType)
  /\ \A k, v : Pair(P, k, v) => k \in Keys /\ v \in Values
  /\ \A k, v, w : Pair(P, k, v) /\ Pair(P, k, w) => v = w

LEMMA IncreasingOnce ==
  ASSUME NEW items \in Seq(ItemType), Increasing(items), NEW i \in 1 .. Len(items),
         NEW j \in 1 .. Len(items), items[i].key = items[j].key
  PROVE  i = j
  <1>1. Len(items) \in Nat /\ items[i].key \in Int /\ items[j].key \in Int
    BY ItemsOf
  <1>2. i < j \/ j < i \/ i = j
    BY <1>1
  <1>3. (i < j => items[i].key < items[j].key) /\ (j < i => items[j].key < items[i].key)
    BY DEF Increasing
  <1>4. QED
    BY <1>1, <1>2, <1>3

LEMMA TreeLeaves ==
  ASSUME NEW P, NEW rt, NEW rng, NEW lev, TreeOK(P, rt, rng, lev), Keys \subseteq Int
  PROVE  LeavesOK(P)
  <1>1. ASSUME NEW p \in DOMAIN P, P[p].leaf
        PROVE  P[p].items \in Seq(ItemType) /\ LeafOK(P[p].items, rng[p]) /\ rng[p] \subseteq Keys
    BY <1>1, NodeFacts DEF NodeOK
  <1>2. ASSUME NEW p \in DOMAIN P, P[p].leaf, NEW i \in 1 .. Len(P[p].items)
        PROVE  P[p].items[i].key \in rng[p] /\ P[p].items[i].val \in Values
    BY <1>1, <1>2 DEF LeafOK
  <1>3. ASSUME NEW k, NEW v, Pair(P, k, v) PROVE k \in Keys /\ v \in Values
    BY <1>1, <1>2, <1>3 DEF Pair
  <1>4. ASSUME NEW k, NEW v, NEW w, Pair(P, k, v), Pair(P, k, w) PROVE v = w
    <2>1. PICK p, i :
            /\ p \in DOMAIN P /\ i \in 1 .. Len(P[p].items)
            /\ P[p].leaf /\ P[p].items[i].key = k /\ P[p].items[i].val = v
      BY <1>4 DEF Pair
    <2>2. PICK q, j :
            /\ q \in DOMAIN P /\ j \in 1 .. Len(P[q].items)
            /\ P[q].leaf /\ P[q].items[j].key = k /\ P[q].items[j].val = w
      BY <1>4 DEF Pair
    <2>3. k \in rng[p] /\ k \in rng[q]
      BY <1>2, <2>1, <2>2
    <2>4. p = q
      BY <2>1, <2>2, <2>3, OneLeaf
    <2>5. Increasing(P[p].items) /\ P[p].items \in Seq(ItemType)
      BY <1>1, <2>1 DEF LeafOK
    <2>6. i = j
      BY <2>1, <2>2, <2>4, <2>5, IncreasingOnce
    <2>7. QED
      BY <2>1, <2>2, <2>4, <2>6
  <1>5. QED
    BY <1>1, <1>3, <1>4 DEF LeavesOK

LEMMA SamePairs ==
  ASSUME NEW P, NEW Q, LeavesOK(Q), \A k, v : Pair(P, k, v) <=> Pair(Q, k, v),
         \A p \in DOMAIN P : P[p].leaf => P[p].items \in Seq(ItemType)
  PROVE  LeavesOK(P) /\ MapOf(P) = MapOf(Q)
  <1>1. LeavesOK(P)
    BY DEF LeavesOK
  <1>2. ASSUME NEW k PROVE Pairs(P, k) = Pairs(Q, k)
    BY DEF Pairs
  <1>3. QED
    BY <1>1, <1>2 DEF MapOf

LEMMA MapOfIs ==
  ASSUME NEW P, LeavesOK(P)
  PROVE  /\ DOMAIN MapOf(P) = {k \in Keys : \E v : Pair(P, k, v)}
         /\ \A k, v : Pair(P, k, v) => k \in DOMAIN MapOf(P) /\ MapOf(P)[k] = v
  <1>1. \A k : Pairs(P, k) # {} <=> \E v : Pair(P, k, v)
    BY DEF Pairs, LeavesOK
  <1>2. DOMAIN MapOf(P) = {k \in Keys : Pairs(P, k) # {}}
    BY DEF MapOf
  <1>3. DOMAIN MapOf(P) = {k \in Keys : \E v : Pair(P, k, v)}
    BY <1>1, <1>2
  <1>4. ASSUME NEW k, NEW v, Pair(P, k, v)
        PROVE  k \in DOMAIN MapOf(P) /\ MapOf(P)[k] = v
    <2>1. k \in Keys /\ v \in Pairs(P, k) /\ \A w \in Pairs(P, k) : w = v
      BY <1>4 DEF Pairs, LeavesOK
    <2>2. PICK S : S = Pairs(P, k)
      OBVIOUS
    <2>3. (CHOOSE w \in S : TRUE) = v
      BY <2>1, <2>2
    <2>4. k \in {x \in Keys : Pairs(P, x) # {}}
      BY <2>1
    <2>5. MapOf(P)[k] = CHOOSE w \in S : TRUE
      BY <2>2, <2>4 DEF MapOf
    <2>6. QED
      BY <1>2, <2>3, <2>4, <2>5
  <1>5. QED
    BY <1>3, <1>4

\* A map is the one of P when it has the pairs of P and no others.
LEMMA IsMapOf ==
  ASSUME NEW P, LeavesOK(P), NEW f, f = [k \in DOMAIN f |-> f[k]],
         \A k : k \in DOMAIN f <=> k \in Keys /\ \E v : Pair(P, k, v),
         \A k \in DOMAIN f : Pair(P, k, f[k])
  PROVE  f = MapOf(P)
  <1>1. PICK g : g = MapOf(P)
    OBVIOUS
  <1>2. g = [k \in DOMAIN g |-> g[k]]
    BY <1>1 DEF MapOf
  <1>3. DOMAIN g = DOMAIN f
    BY <1>1, MapOfIs
  <1>4. \A k \in DOMAIN f : g[k] = f[k]
    BY <1>1, MapOfIs
  <1>5. QED
    BY <1>1, <1>2, <1>3, <1>4

LEMMA ContentsAre ==
  ASSUME LeavesOK(pages)
  PROVE  Contents = MapOf(pages)
  <1> DEFINE held(k) == {p \in Leaves : \E i \in DOMAIN pages[p].items :
                                           pages[p].items[i].key = k}
             valueIn(p, k) == LET i == CHOOSE i \in DOMAIN pages[p].items :
                                         pages[p].items[i].key = k
                              IN  pages[p].items[i].val
             f == [k \in {k \in Keys : held(k) # {}} |-> valueIn(CHOOSE p \in held(k) : TRUE, k)]
  <1>1. Contents = f
    BY DEF Contents
  <1>2. ASSUME NEW p \in Leaves
        PROVE  /\ p \in DOMAIN pages /\ pages[p].leaf
               /\ DOMAIN pages[p].items = 1 .. Len(pages[p].items)
    <2>1. p \in DOMAIN pages /\ pages[p].leaf
      BY DEF Leaves
    <2>2. pages[p].items \in Seq(ItemType)
      BY <2>1 DEF LeavesOK
    <2>3. QED
      BY <2>1, <2>2
  <1>3. ASSUME NEW k, NEW p \in held(k) PROVE Pair(pages, k, valueIn(p, k))
    <2>1. p \in Leaves
      OBVIOUS
    <2>2. PICK i : i = CHOOSE j \in DOMAIN pages[p].items : pages[p].items[j].key = k
      OBVIOUS
    <2>3. i \in DOMAIN pages[p].items /\ pages[p].items[i].key = k
      BY <2>2
    <2>4. valueIn(p, k) = pages[p].items[i].val
      BY <2>2
    <2>5. i \in 1 .. Len(pages[p].items)
      BY <1>2, <2>1, <2>3
    <2> HIDE DEF valueIn
    <2>6. QED
      BY <1>2, <2>1, <2>3, <2>4, <2>5 DEF Pair
  <1>4. ASSUME NEW k, NEW v, Pair(pages, k, v) PROVE held(k) # {}
    <2>1. PICK p, i :
            /\ p \in DOMAIN pages /\ i \in 1 .. Len(pages[p].items)
            /\ pages[p].leaf /\ pages[p].items[i].key = k
      BY <1>4 DEF Pair
    <2>2. p \in Leaves
      BY <2>1 DEF Leaves
    <2>3. i \in DOMAIN pages[p].items
      BY <1>2, <2>1, <2>2
    <2>4. p \in held(k)
      BY <2>1, <2>2, <2>3
    <2>5. QED
      BY <2>4
  <1> HIDE DEF held, valueIn
  <1>5. DOMAIN f = {k \in Keys : held(k) # {}} /\ f = [k \in DOMAIN f |-> f[k]]
    OBVIOUS
  <1>6. ASSUME NEW k \in DOMAIN f PROVE Pair(pages, k, f[k])
    <2>1. k \in Keys /\ held(k) # {}
      BY <1>5
    <2>2. (CHOOSE p \in held(k) : TRUE) \in held(k)
      BY <2>1
    <2>3. f[k] = valueIn(CHOOSE p \in held(k) : TRUE, k)
      BY <1>5
    <2>4. QED
      BY <1>3, <2>2, <2>3
  <1> HIDE DEF f
  <1>7. \A k : k \in DOMAIN f <=> k \in Keys /\ \E v : Pair(pages, k, v)
    BY <1>4, <1>5, <1>6
  <1>8. f = MapOf(pages)
    BY <1>5, <1>6, <1>7, IsMapOf
  <1>9. QED
    BY <1>1, <1>8

\* Between calls and within them.
LEMMA LeavesAreOK ==
  ASSUME Growing, GInv
  PROVE  LeavesOK(pages) /\ Contents = MapOf(pages)
  <1>1. Keys \subseteq Int
    BY DEF Growing
  <1>2. ASSUME pages = <<>> PROVE LeavesOK(pages)
    <2>1. DOMAIN pages = {}
      BY <1>2
    <2>2. QED
      BY <2>1 DEF LeavesOK, Pair
  <1>3. ASSUME call.op # "insertIntoParent", IsTree(pages, root) PROVE LeavesOK(pages)
    BY <1>1, <1>3, TreeLeaves DEF IsTree
  <1>4. ASSUME call.op = "insertIntoParent" PROVE LeavesOK(pages)
    <2>1. PICK q, V : q = call.parent /\ V = ViewOf(pages, call)
      OBVIOUS
    <2>2. q \in DOMAIN pages /\ ~pages[q].leaf /\ pages[q] \in PageType /\ IsTree(V, root)
      BY <1>4, <2>1, ParentFactsOfCall
    <2>3. LeavesOK(V)
      BY <1>1, <2>2, TreeLeaves DEF IsTree
    <2>4. PICK t : V = [pages EXCEPT ![q].items = t]
      BY <1>4, <2>1 DEF ViewOf
    <2>5. DOMAIN V = DOMAIN pages /\ ~V[q].leaf /\ \A x \in DOMAIN pages : x # q => V[x] = pages[x]
      BY <2>2, <2>4 DEF PageType
    <2>6. \A k, v : Pair(pages, k, v) <=> Pair(V, k, v)
      BY <2>2, <2>5 DEF Pair
    <2>7. \A p \in DOMAIN pages : pages[p].leaf => pages[p].items \in Seq(ItemType)
      BY <2>2, <2>3, <2>5 DEF LeavesOK
    <2>8. QED
      BY <2>3, <2>6, <2>7, SamePairs
  <1>5. pages = <<>> \/ IsTree(ViewOf(pages, call), root)
    BY DEF GInv, GrownOK
  <1>6. call.op # "insertIntoParent" => ViewOf(pages, call) = pages
    BY DEF ViewOf
  <1>7. LeavesOK(pages)
    BY <1>2, <1>3, <1>4, <1>5, <1>6
  <1>8. QED
    BY <1>7, ContentsAre

-----------------------------------------------------------------------------
(* The theorems.                                                           *)

LEMMA GrownParentsMatch ==
  ASSUME Growing, GInv
  PROVE  ParentsMatch
  <1>1. SUFFICES ASSUME call = Idle
        PROVE  /\ root # NoPage => IsRootPage(pages[root])
               /\ \A p \in DOMAIN pages \ Leaves : \A i \in DOMAIN pages[p].items :
                     pages[pages[p].items[i].val].parent = p
    BY DEF ParentsMatch
  <1>2. CASE pages = <<>> /\ root = NoPage
    <2>1. DOMAIN pages = {}
      BY <1>2
    <2>2. QED
      BY <1>2, <2>1
  <1>3. ASSUME NEW r, NEW l, TreeOK(pages, root, r, l)
        PROVE  /\ IsRootPage(pages[root])
               /\ \A p \in DOMAIN pages \ Leaves : \A i \in DOMAIN pages[p].items :
                     pages[pages[p].items[i].val].parent = p
    <2>1. IsRootPage(pages[root])
      BY <1>3 DEF TreeOK, IsRootPage
    <2>2. ASSUME NEW p \in DOMAIN pages \ Leaves, NEW i \in DOMAIN pages[p].items
          PROVE  pages[pages[p].items[i].val].parent = p
      <3>1. p \in DOMAIN pages /\ ~pages[p].leaf
        BY DEF Leaves
      <3>2. pages[p].items \in Seq(ItemType)
        BY <1>3, <3>1, NodeFacts
      <3>3. i \in 1 .. Len(pages[p].items)
        BY <3>2
      <3>4. ChildOK(pages, r, l, p, i, pages[p].items[i].val)
        BY <1>3, <3>1, <3>3, InnerFacts
      <3>5. QED
        BY <3>4 DEF ChildOK
    <2>3. QED
      BY <2>1, <2>2
  <1>4. QED
    BY <1>1, <1>2, <1>3, IdleFacts DEF IsTree

\* Parent pointers.  Split gives the new node its parent, SplitInternal gives
\* every child it moves its new one, and a new root adopts both halves, so
\* between calls every child names the node that lists it.
THEOREM ParentsAlwaysMatch ==
  ASSUME Growing
  PROVE  Spec => []ParentsMatch
  <1>1. GInv => ParentsMatch
    BY GrownParentsMatch
  <1>2. QED
    BY <1>1, GInvHolds, PTL

LEMMA GrownBalanced ==
  ASSUME Growing, GInv
  PROVE  Balanced
  <1>1. SUFFICES ASSUME call = Idle PROVE Balanced
    BY DEF Balanced
  <1> DEFINE IsHeight(f) == f = [p \in DOMAIN pages |-> IF pages[p].leaf THEN 0
                                                ELSE f[pages[p].items[1].val] + 1]
  <1>2. PICK h : h = CHOOSE f : IsHeight(f)
    OBVIOUS
  <1> DEFINE Body == /\ \A p \in DOMAIN pages :
                           /\ Size(pages[p]) <= MaxSize(pages[p])
                           /\ p # root => Size(pages[p]) >= MinSize(pages[p])
                           /\ p = root /\ ~pages[p].leaf => Size(pages[p]) >= 2
                     /\ \A p \in DOMAIN pages \ Leaves : \A i \in DOMAIN pages[p].items :
                           h[pages[p].items[i].val] + 1 = h[p]
  <1>3. Body => Balanced
    BY <1>2 DEF Balanced
  <1>4. CASE pages = <<>> /\ root = NoPage
    <2>1. DOMAIN pages = {}
      BY <1>4
    <2>2. Body
      BY <2>1
    <2> HIDE DEF Body
    <2>3. QED
      BY <1>3, <2>2
  <1>5. ASSUME NEW r, NEW l, TreeOK(pages, root, r, l), SizesOK(pages, root, NoPage)
        PROVE  Balanced
    <2>1. ASSUME NEW p \in DOMAIN pages
          PROVE  /\ Size(pages[p]) <= MaxSize(pages[p])
                 /\ p # root => Size(pages[p]) >= MinSize(pages[p])
                 /\ p = root /\ ~pages[p].leaf => Size(pages[p]) >= 2
      <3>1. p # NoPage /\ MaxSize(pages[p]) \in Nat
        BY <1>5, NodeFacts DEF Growing, MaxSize
      <3>2. SizeOK(pages, root, NoPage, p)
        BY <1>5 DEF SizesOK
      <3>3. QED
        BY <3>1, <3>2 DEF SizeOK, Size
    <2>2. \A p \in DOMAIN pages : h[p] = l[p]
      BY <1>2, <1>5, HeightIs
    <2>3. ASSUME NEW p \in DOMAIN pages \ Leaves, NEW i \in DOMAIN pages[p].items
          PROVE  h[pages[p].items[i].val] + 1 = h[p]
      <3>1. p \in DOMAIN pages /\ ~pages[p].leaf
        BY DEF Leaves
      <3>2. pages[p].items \in Seq(ItemType)
        BY <1>5, <3>1, NodeFacts
      <3>3. i \in 1 .. Len(pages[p].items)
        BY <3>2
      <3>4. ChildOK(pages, r, l, p, i, pages[p].items[i].val)
        BY <1>5, <3>1, <3>3, InnerFacts
      <3>5. QED
        BY <2>2, <3>1, <3>4 DEF ChildOK
    <2>4. Body
      BY <2>1, <2>3
    <2> HIDE DEF Body
    <2>5. QED
      BY <1>3, <2>4
  <1>6. QED
    BY <1>1, <1>4, <1>5, IdleFacts DEF IsTree

\* Balance.  A node is split when it holds one item more than its maximum, both
\* halves then hold at least the minimum, and the tree grows at the root only:
\* between calls all sizes are within their bounds and all leaves equally deep.
THEOREM TreeStaysBalanced ==
  ASSUME Growing
  PROVE  Spec => []Balanced
  <1>1. GInv => Balanced
    BY GrownBalanced
  <1>2. QED
    BY <1>1, GInvHolds, PTL

LEMMA GrownNothingLeaks ==
  ASSUME Growing, GInv
  PROVE  NothingLeaks
  <1>1. SUFFICES ASSUME call = Idle PROVE NothingLeaks
    BY DEF NothingLeaks
  <1>2. Pinned = {}
    BY <1>1, IdleFacts
  <1>3. CASE pages = <<>> /\ root = NoPage
    <2>1. DOMAIN pages = {}
      BY <1>3
    <2>2. QED
      BY <1>2, <2>1 DEF NothingLeaks
  <1>4. ASSUME NEW r, NEW l, TreeOK(pages, root, r, l) PROVE NothingLeaks
    <2>1. ASSUME NEW p \in DOMAIN pages, p # root
          PROVE  \E q \in DOMAIN pages \ Leaves : ValueIndex(pages[q].items, p) # -1
      <3>1. PICK q \in DOMAIN pages :
              ~pages[q].leaf /\ \E i \in 1 .. Len(pages[q].items) : pages[q].items[i].val = p
        BY <1>4, <2>1, ParentFacts
      <3>2. PICK i \in 1 .. Len(pages[q].items) : pages[q].items[i].val = p
        BY <3>1
      <3>3. pages[q].items \in Seq(ItemType) /\ Distinct(pages[q].items)
        BY <1>4, <3>1, NodeFacts, InnerFacts
      <3>4. ValueIndex(pages[q].items, p) = i - 1
        BY <3>2, <3>3, ValueIndexIs
      <3>5. i \in Nat /\ i >= 1 /\ i - 1 # -1
        OBVIOUS
      <3>6. q \in DOMAIN pages \ Leaves
        BY <3>1 DEF Leaves
      <3>7. QED
        BY <3>4, <3>5, <3>6
    <2>2. QED
      BY <1>2, <2>1 DEF NothingLeaks
  <1>5. QED
    BY <1>1, <1>3, <1>4, IdleFacts DEF IsTree

\* No leaks.  A call that splits its way up unpins every page it pinned, and
\* every page it allocates is linked into the tree before it returns.
THEOREM NothingEverLeaks ==
  ASSUME Growing
  PROVE  Spec => []NothingLeaks
  <1>1. GInv => NothingLeaks
    BY GrownNothingLeaks
  <1>2. QED
    BY <1>1, GInvHolds, PTL

LEMMA GrownLookupFinds ==
  ASSUME Growing, GInv
  PROVE  LookupFinds
  <1>1. SUFFICES ASSUME call = Idle, NEW k \in Keys
        PROVE  GetValue(k) = IF k \in DOMAIN Contents THEN Contents[k] ELSE NoPage
    BY DEF LookupFinds
  <1>2. LeavesOK(pages) /\ Contents = MapOf(pages)
    BY LeavesAreOK
  <1>3. /\ k \in DOMAIN Contents <=> \E v : Pair(pages, k, v)
        /\ \A v : Pair(pages, k, v) => Contents[k] = v
    BY <1>2, MapOfIs
  <1>4. CASE pages = <<>> /\ root = NoPage
    <2>1. DOMAIN pages = {}
      BY <1>4
    <2>2. k \notin DOMAIN Contents
      BY <1>3, <2>1 DEF Pair
    <2>3. QED
      BY <1>4, <2>2 DEF GetValue, FindLeafPage
  <1>5. ASSUME NEW r, NEW l, TreeOK(pages, root, r, l)
        PROVE  GetValue(k) = IF k \in DOMAIN Contents THEN Contents[k] ELSE NoPage
    <2>1. PICK p : p = FindLeafPage(k)
      OBVIOUS
    <2>2. \A x \in DOMAIN pages : CanPin({x})
      BY <1>1, IdleFacts
    <2>3. p \in DOMAIN pages /\ pages[p].leaf /\ k \in r[p] /\ p # NoPage
      BY <1>5, <2>1, <2>2, FindLeafIs
    <2>4. PICK items : items = pages[p].items
      OBVIOUS
    <2>5. items \in Seq(ItemType) /\ LeafOK(items, r[p]) /\ Increasing(items) /\ k \in Int
      BY <1>5, <2>3, <2>4, NodeFacts DEF NodeOK, LeafOK, Growing
    <2>6. GetValue(k) = LeafLookup(items, k)
      BY <2>1, <2>3, <2>4 DEF GetValue
    <2>7. CASE HasKey(items, k)
      <3>1. PICK i \in 1 .. Len(items) : items[i].key = k /\ i = KeyIndex(items, k) + 1
        BY <2>5, <2>7, HasKeyIs
      <3>2. GetValue(k) = items[i].val
        BY <2>6, <2>7, <3>1 DEF LeafLookup
      <3>3. Pair(pages, k, items[i].val)
        BY <2>3, <2>4, <3>1 DEF Pair
      <3>4. QED
        BY <1>3, <3>2, <3>3
    <2>8. CASE ~HasKey(items, k)
      <3>1. GetValue(k) = NoPage
        BY <2>6, <2>8 DEF LeafLookup
      <3>2. ~Keyed(items, k)
        BY <2>5, <2>8, HasKeyIs
      <3>3. ASSUME NEW v, Pair(pages, k, v) PROVE FALSE
        <4>1. PICK q \in DOMAIN pages : /\ pages[q].leaf
                                        /\ \E i \in 1 .. Len(pages[q].items) :
                                              pages[q].items[i].key = k
          BY <3>3 DEF Pair
        <4>2. k \in r[q]
          BY <1>5, <4>1, NodeFacts DEF NodeOK, LeafOK
        <4>3. q = p
          BY <1>5, <2>3, <4>1, <4>2, OneLeaf DEF Growing
        <4>4. QED
          BY <2>4, <3>2, <4>1, <4>3 DEF Keyed
      <3>4. QED
        BY <1>3, <3>1, <3>3
    <2>9. QED
      BY <2>7, <2>8
  <1>6. QED
    BY <1>1, <1>4, <1>5, IdleFacts DEF IsTree

\* Lookup.  Wherever splits have moved a key, the separators above it lead
\* GetValue to it: between calls it finds every pair some leaf holds, and
\* nothing else.
THEOREM LookupAlwaysFinds ==
  ASSUME Growing
  PROVE  Spec => []LookupFinds
  <1>1. GInv => LookupFinds
    BY GrownLookupFinds
  <1>2. QED
    BY <1>1, GInvHolds, PTL

-----------------------------------------------------------------------------
(* The leaf list.                                                          *)

\* A page is responsible for a run of keys without a gap.
LEMMA NoGaps ==
  ASSUME NEW P, NEW rt, NEW rng, NEW lev, TreeOK(P, rt, rng, lev), Keys \subseteq Int
  PROVE  \A p \in DOMAIN P : \A a \in rng[p], c \in rng[p], b \in Keys :
            a < b /\ b < c => b \in rng[p]
  <1> DEFINE Gap(p) == \E a \in rng[p], c \in rng[p], b \in Keys :
                          a < b /\ b < c /\ b \notin rng[p]
             Fails(n) == \E p \in DOMAIN P : lev[rt] - lev[p] = n /\ Gap(p)
             Bad == {n \in Nat : Fails(n)}
  <1>1. \A x \in DOMAIN P : /\ lev[x] \in Nat /\ lev[rt] \in Nat /\ lev[x] <= lev[rt]
                            /\ rng[x] \subseteq Int /\ rng[x] \subseteq Keys
                            /\ P[x].items \in Seq(ItemType)
    BY NodeFacts
  <1>2. Bad = {}
    <2>1. SUFFICES ASSUME Bad # {} PROVE FALSE
      OBVIOUS
    <2>2. PICK n \in Bad : \A m \in Bad : n <= m
      BY <2>1, LeastOf
    <2>3. PICK p \in DOMAIN P : lev[rt] - lev[p] = n /\ Gap(p)
      BY <2>2
    <2>4. PICK a \in rng[p], c \in rng[p], b \in Keys : a < b /\ b < c /\ b \notin rng[p]
      BY <2>3
    <2>5. p # rt
      BY <2>4 DEF TreeOK
    <2>6. PICK q : q = P[p].parent
      OBVIOUS
    <2>7. q \in DOMAIN P /\ ~P[q].leaf /\ lev[p] + 1 = lev[q]
      BY <2>5, <2>6, ParentFacts
    <2>8. PICK i \in 1 .. Len(P[q].items) : rng[p] = Slice(rng[q], P[q].items, i)
      BY <2>5, <2>6, ParentFacts
    <2>9. PICK R, items : R = rng[q] /\ items = P[q].items
      OBVIOUS
    <2>10. a \in R /\ c \in R
      BY <2>4, <2>8, <2>9 DEF Slice
    <2>11. b \in R
      <3>1. SUFFICES ASSUME b \notin R PROVE FALSE
        OBVIOUS
      <3>2. Gap(q)
        BY <2>4, <2>9, <2>10, <3>1
      <3> HIDE DEF Gap
      <3>3. lev[rt] - lev[q] \in Nat /\ ~(n <= lev[rt] - lev[q])
        <4>1. PICK top, x, y : top = lev[rt] /\ x = lev[p] /\ y = lev[q]
          OBVIOUS
        <4>2. top \in Nat /\ x \in Nat /\ y \in Nat /\ y <= top
          BY <1>1, <2>7, <4>1
        <4>3. n = top - x /\ y = x + 1
          BY <2>3, <2>7, <4>1
        <4>4. top - y \in Nat /\ ~(n <= top - y)
          BY <4>2, <4>3
        <4>5. QED
          BY <4>1, <4>4
      <3>4. Fails(lev[rt] - lev[q])
        BY <2>7, <3>2
      <3>5. QED
        BY <2>2, <3>3, <3>4
    <2>12. items \in Seq(ItemType) /\ i \in 1 .. Len(items) /\ a \in Int /\ b \in Int /\ c \in Int
      BY <1>1, <2>4, <2>7, <2>8, <2>9
    <2>13. /\ Len(items) \in Nat /\ items[i].key \in Int
           /\ i < Len(items) => items[i + 1].key \in Int
      <3>1. Len(items) \in Nat /\ \A j \in 1 .. Len(items) : items[j].key \in Int
        BY <2>12, ItemsOf
      <3>2. i < Len(items) => i + 1 \in 1 .. Len(items)
        BY <2>12, <3>1
      <3>3. QED
        BY <2>12, <3>1, <3>2
    <2>14. (i > 1 => items[i].key <= a) /\ (i < Len(items) => c < items[i + 1].key)
      BY <2>4, <2>8, <2>9 DEF Slice
    <2>15. (i > 1 => items[i].key <= b) /\ (i < Len(items) => b < items[i + 1].key)
      BY <2>4, <2>12, <2>13, <2>14
    <2>16. b \in rng[p]
      BY <2>8, <2>9, <2>11, <2>15 DEF Slice
    <2>17. QED
      BY <2>4, <2>16
  <1>3. ASSUME NEW p \in DOMAIN P PROVE ~Gap(p)
    <2>1. lev[rt] - lev[p] \in Nat
      BY <1>1
    <2>2. ~Fails(lev[rt] - lev[p])
      BY <1>2, <2>1
    <2>3. QED
      BY <2>2
  <1>4. QED
    BY <1>3

\* The keys in page p all come before those in page q.
KeysBelow(P, p, q) ==
  \A i \in 1 .. Len(P[p].items), j \in 1 .. Len(P[q].items) :
     P[p].items[i].key < P[q].items[j].key

\* Leaf p leads to the leaf with the next larger keys.
LinkOK(P, p) ==
  /\ Len(P[p].items) \in Nat /\ Len(P[p].items) >= 1
  /\ \A i \in 1 .. Len(P[p].items) : P[p].items[i].key \in Int
  /\ P[p].next # NoPage => /\ P[p].next \in DOMAIN P /\ P[P[p].next].leaf
                           /\ KeysBelow(P, p, P[p].next)
  /\ \A q \in DOMAIN P : P[q].leaf /\ q # p /\ q # P[p].next =>
        KeysBelow(P, q, p) \/ (P[p].next # NoPage /\ KeysBelow(P, P[p].next, q))

Linked(P) == \A p \in DOMAIN P : P[p].leaf => LinkOK(P, p)

\* The order of the leaves is strict.
LEMMA KeysBelowOrder ==
  ASSUME NEW P, Linked(P), NEW p \in DOMAIN P, NEW q \in DOMAIN P, NEW x \in DOMAIN P,
         P[p].leaf, P[q].leaf, P[x].leaf, KeysBelow(P, p, q)
  PROVE  /\ KeysBelow(P, q, x) => KeysBelow(P, p, x)
         /\ ~KeysBelow(P, q, p) /\ p # q
  <1>1. LinkOK(P, p) /\ LinkOK(P, q) /\ LinkOK(P, x)
    BY DEF Linked
  <1>2. PICK s, t, u : s = P[p].items /\ t = P[q].items /\ u = P[x].items
    OBVIOUS
  <1>3. /\ Len(s) \in Nat /\ Len(s) >= 1 /\ \A i \in 1 .. Len(s) : s[i].key \in Int
        /\ Len(t) \in Nat /\ Len(t) >= 1 /\ \A i \in 1 .. Len(t) : t[i].key \in Int
        /\ \A i \in 1 .. Len(u) : u[i].key \in Int
    BY <1>1, <1>2 DEF LinkOK
  <1>4. 1 \in 1 .. Len(s) /\ 1 \in 1 .. Len(t)
    BY <1>3
  <1>5. \A i \in 1 .. Len(s), j \in 1 .. Len(t) : s[i].key < t[j].key
    BY <1>2 DEF KeysBelow
  <1>6. ASSUME KeysBelow(P, q, x) PROVE KeysBelow(P, p, x)
    <2>1. \A i \in 1 .. Len(t), j \in 1 .. Len(u) : t[i].key < u[j].key
      BY <1>2, <1>6 DEF KeysBelow
    <2>2. ASSUME NEW i \in 1 .. Len(s), NEW j \in 1 .. Len(u) PROVE s[i].key < u[j].key
      <3>1. s[i].key < t[1].key /\ t[1].key < u[j].key
        BY <1>4, <1>5, <2>1
      <3>2. s[i].key \in Int /\ t[1].key \in Int /\ u[j].key \in Int
        BY <1>3, <1>4
      <3>3. QED
        BY <3>1, <3>2
    <2>3. QED
      BY <1>2, <2>2 DEF KeysBelow
  <1>7. s[1].key < t[1].key /\ s[1].key \in Int /\ t[1].key \in Int
    BY <1>3, <1>4, <1>5
  <1>8. ~KeysBelow(P, q, p)
    <2>1. ~(t[1].key < s[1].key)
      BY <1>7
    <2>2. QED
      BY <1>2, <1>4, <2>1 DEF KeysBelow
  <1>9. p # q
    BY <1>8
  <1>10. QED
    BY <1>6, <1>8, <1>9

\* The order of two leaves is that of all the keys they are responsible for.
LEMMA RangesBelow ==
  ASSUME NEW P, NEW rt, NEW rng, NEW lev, TreeOK(P, rt, rng, lev), Keys \subseteq Int,
         NEW p \in DOMAIN P, NEW q \in DOMAIN P, P[p].leaf, P[q].leaf, p # q,
         Len(P[p].items) >= 1, Len(P[q].items) >= 1, KeysBelow(P, p, q)
  PROVE  \A a \in rng[p], b \in rng[q] : a < b
  <1>1. /\ P[p].items \in Seq(ItemType) /\ LeafOK(P[p].items, rng[p]) /\ rng[p] \subseteq Keys
        /\ P[q].items \in Seq(ItemType) /\ LeafOK(P[q].items, rng[q]) /\ rng[q] \subseteq Keys
    BY NodeFacts DEF NodeOK
  <1>2. 1 \in 1 .. Len(P[p].items) /\ 1 \in 1 .. Len(P[q].items)
    BY <1>1
  <1>3. PICK x, y : x = P[p].items[1].key /\ y = P[q].items[1].key
    OBVIOUS
  <1>4. x \in rng[p] /\ y \in rng[q] /\ x < y
    BY <1>1, <1>2, <1>3 DEF LeafOK, KeysBelow
  <1>5. \A k : ~(k \in rng[p] /\ k \in rng[q])
    BY OneLeaf
  <1>6. /\ \A a \in rng[p], c \in rng[p], b \in Keys : a < b /\ b < c => b \in rng[p]
        /\ \A a \in rng[q], c \in rng[q], b \in Keys : a < b /\ b < c => b \in rng[q]
    BY NoGaps
  <1>7. SUFFICES ASSUME NEW a \in rng[p], NEW b \in rng[q], ~(a < b) PROVE FALSE
    OBVIOUS
  <1>8. a \in Int /\ b \in Int /\ x \in Int /\ y \in Int /\ {a, b, x, y} \subseteq Keys
    BY <1>1, <1>4
  <1>9. a # b /\ b # x
    BY <1>4, <1>5
  <1>10. (x < b /\ b < a) \/ (b < x /\ x < y)
    BY <1>4, <1>7, <1>8, <1>9
  <1>11. QED
    BY <1>4, <1>5, <1>6, <1>8, <1>10

\* A step that leaves the leaves and their links as they are.
LEMMA SameLinks ==
  ASSUME NEW P, NEW Q, Linked(P), DOMAIN P \subseteq DOMAIN Q,
         \A x \in DOMAIN Q : x \notin DOMAIN P => ~Q[x].leaf,
         \A x \in DOMAIN P : Q[x].leaf = P[x].leaf,
         \A x \in DOMAIN P : P[x].leaf => Q[x].items = P[x].items /\ Q[x].next = P[x].next
  PROVE  Linked(Q)
  <1>1. ASSUME NEW x \in DOMAIN P, NEW y \in DOMAIN P, P[x].leaf, P[y].leaf, KeysBelow(P, x, y)
        PROVE  KeysBelow(Q, x, y)
    BY <1>1 DEF KeysBelow
  <1>2. \A x \in DOMAIN Q : Q[x].leaf => x \in DOMAIN P /\ P[x].leaf
    OBVIOUS
  <1>3. ASSUME NEW p \in DOMAIN Q, Q[p].leaf PROVE LinkOK(Q, p)
    <2>1. /\ p \in DOMAIN P /\ P[p].leaf /\ LinkOK(P, p)
          /\ Q[p].items = P[p].items /\ Q[p].next = P[p].next
      BY <1>2, <1>3 DEF Linked
    <2>2. PICK n : n = P[p].next
      OBVIOUS
    <2>3. n # NoPage => n \in DOMAIN P /\ P[n].leaf /\ KeysBelow(P, p, n)
      BY <2>1, <2>2 DEF LinkOK
    <2>4. n # NoPage => n \in DOMAIN Q /\ Q[n].leaf /\ KeysBelow(Q, p, n)
      BY <1>1, <2>1, <2>3
    <2>5. ASSUME NEW q \in DOMAIN Q, Q[q].leaf, q # p, q # n
          PROVE  KeysBelow(Q, q, p) \/ (n # NoPage /\ KeysBelow(Q, n, q))
      <3>1. q \in DOMAIN P /\ P[q].leaf
        BY <1>2, <2>5
      <3>2. KeysBelow(P, q, p) \/ (n # NoPage /\ KeysBelow(P, n, q))
        BY <2>1, <2>2, <2>5, <3>1 DEF LinkOK
      <3>3. QED
        BY <1>1, <2>1, <2>3, <3>1, <3>2
    <2>6. QED
      BY <2>1, <2>2, <2>4, <2>5 DEF LinkOK
  <1>4. QED
    BY <1>3 DEF Linked

\* What the halves of a leaf hold, against the other leaves.
LEMMA HalvesOrder ==
  ASSUME NEW P, NEW h, NEW p, NEW new, NEW m, HalvesOf(P, h, p, new, m), P[p].leaf,
         Increasing(P[p].items), LinkOK(P, p)
  PROVE  /\ \A x \in DOMAIN P : x # p /\ KeysBelow(P, x, p) =>
               KeysBelow(h, x, p) /\ KeysBelow(h, x, new)
         /\ \A x \in DOMAIN P : x # p /\ KeysBelow(P, p, x) =>
               KeysBelow(h, p, x) /\ KeysBelow(h, new, x)
         /\ KeysBelow(h, p, new)
         /\ \A x \in {p, new} : /\ Len(h[x].items) \in Nat /\ Len(h[x].items) >= 1
                                /\ \A i \in 1 .. Len(h[x].items) : h[x].items[i].key \in Int
  <1>1. /\ p \in DOMAIN P /\ new \notin DOMAIN P
        /\ \A x \in DOMAIN P : x # p => h[x].items = P[x].items
        /\ Halves(P[p].items, h[p].items, h[new].items, m)
        /\ h[new].items[1] = P[p].items[m + 1]
    BY DEF HalvesOf
  <1>2. PICK items, from, to : items = P[p].items /\ from = h[p].items /\ to = h[new].items
    OBVIOUS
  <1>3. Halves(items, from, to, m) /\ to[1] = items[m + 1] /\ Increasing(items)
    BY <1>1, <1>2
  <1>4. PICK n : n = Len(items)
    OBVIOUS
  <1>5. n \in Nat /\ \A i \in 1 .. n : items[i].key \in Int
    BY <1>2, <1>4 DEF LinkOK
  <1>6. /\ m \in Nat /\ 1 <= m /\ m < n /\ n - m \in Nat
        /\ Len(from) = m /\ Len(to) = n - m
        /\ \A i \in 1 .. m : from[i] = items[i]
        /\ \A i \in 2 .. n - m : to[i] = items[m + i]
    <2>1. m \in Nat /\ 1 <= m /\ m < n /\ Len(to) = n - m
      BY <1>3, <1>4 DEF Halves
    <2>2. n - m \in Nat
      BY <1>5, <2>1
    <2>3. QED
      BY <1>3, <1>4, <2>1, <2>2 DEF Halves
  <1>7. ASSUME NEW i \in 1 .. n - m PROVE to[i] = items[m + i] /\ m + i \in 1 .. n
    <2>1. (i = 1 \/ i \in 2 .. n - m) /\ m + i \in 1 .. n
      BY <1>5, <1>6
    <2>2. QED
      BY <1>3, <1>6, <2>1
  <1>8. ASSUME NEW i \in 1 .. m PROVE from[i] = items[i] /\ i \in 1 .. n
    BY <1>5, <1>6
  <1>9. ASSUME NEW i \in 1 .. m, NEW j \in 1 .. n - m PROVE from[i].key < to[j].key
    <2>1. i \in 1 .. n /\ m + j \in 1 .. n /\ i < m + j
      BY <1>5, <1>6
    <2>2. items[i].key < items[m + j].key
      BY <1>3, <1>4, <2>1 DEF Increasing
    <2>3. QED
      BY <1>7, <1>8, <2>2
  <1>10. KeysBelow(h, p, new)
    BY <1>2, <1>6, <1>9 DEF KeysBelow
  <1>11. ASSUME NEW x \in DOMAIN P, x # p, KeysBelow(P, x, p)
         PROVE  KeysBelow(h, x, p) /\ KeysBelow(h, x, new)
    <2>1. \A i \in 1 .. Len(P[x].items), j \in 1 .. n : P[x].items[i].key < items[j].key
      BY <1>2, <1>4, <1>11 DEF KeysBelow
    <2>2. PICK s : s = P[x].items /\ s = h[x].items
      BY <1>1, <1>11
    <2>3. \A i \in 1 .. Len(s), j \in 1 .. m : s[i].key < from[j].key
      BY <1>8, <2>1, <2>2
    <2>4. \A i \in 1 .. Len(s), j \in 1 .. n - m : s[i].key < to[j].key
      BY <1>7, <2>1, <2>2
    <2>5. QED
      BY <1>2, <1>6, <2>2, <2>3, <2>4 DEF KeysBelow
  <1>12. ASSUME NEW x \in DOMAIN P, x # p, KeysBelow(P, p, x)
         PROVE  KeysBelow(h, p, x) /\ KeysBelow(h, new, x)
    <2>1. \A i \in 1 .. Len(P[x].items), j \in 1 .. n : items[j].key < P[x].items[i].key
      BY <1>2, <1>4, <1>12 DEF KeysBelow
    <2>2. PICK s : s = P[x].items /\ s = h[x].items
      BY <1>1, <1>12
    <2>3. \A i \in 1 .. Len(s), j \in 1 .. m : from[j].key < s[i].key
      BY <1>8, <2>1, <2>2
    <2>4. \A i \in 1 .. Len(s), j \in 1 .. n - m : to[j].key < s[i].key
      BY <1>7, <2>1, <2>2
    <2>5. QED
      BY <1>2, <1>6, <2>2, <2>3, <2>4 DEF KeysBelow
  <1>13. /\ Len(from) \in Nat /\ Len(from) >= 1 /\ Len(to) \in Nat /\ Len(to) >= 1
         /\ \A i \in 1 .. Len(from) : from[i].key \in Int
         /\ \A i \in 1 .. Len(to) : to[i].key \in Int
    <2>1. Len(from) \in Nat /\ Len(from) >= 1 /\ Len(to) \in Nat /\ Len(to) >= 1
      BY <1>5, <1>6
    <2>2. ASSUME NEW i \in 1 .. m PROVE from[i].key \in Int
      BY <1>5, <1>8
    <2>3. ASSUME NEW i \in 1 .. n - m PROVE to[i].key \in Int
      BY <1>5, <1>7
    <2>4. QED
      BY <1>6, <2>1, <2>2, <2>3
  <1>14. QED
    BY <1>2, <1>10, <1>11, <1>12, <1>13

\* The new half takes its place behind the old one.
LEMMA HalvesLinked ==
  ASSUME NEW P, NEW h, NEW p, NEW new, NEW m, HalvesOf(P, h, p, new, m), P[p].leaf,
         Increasing(P[p].items), Linked(P), NoPage \notin PageIds, NoPage \notin DOMAIN P
  PROVE  Linked(h)
  <1>1. /\ p \in DOMAIN P /\ new \in PageIds /\ new \notin DOMAIN P
        /\ DOMAIN h = DOMAIN P \cup {new}
        /\ \A x \in DOMAIN P : h[x].leaf = P[x].leaf
        /\ \A x \in DOMAIN P : x # p => h[x].items = P[x].items
        /\ h[new].leaf = P[p].leaf
        /\ \A x \in DOMAIN P : x # p => h[x].next = P[x].next
        /\ h[p].next = new /\ h[new].next = P[p].next
    BY DEF HalvesOf
  <1>2. \A x \in DOMAIN P : P[x].leaf => LinkOK(P, x)
    BY DEF Linked
  <1>3. new # NoPage /\ p # new
    BY <1>1
  <1>4. /\ \A x \in DOMAIN P : x # p /\ KeysBelow(P, x, p) =>
               KeysBelow(h, x, p) /\ KeysBelow(h, x, new)
        /\ \A x \in DOMAIN P : x # p /\ KeysBelow(P, p, x) =>
               KeysBelow(h, p, x) /\ KeysBelow(h, new, x)
        /\ KeysBelow(h, p, new)
        /\ \A x \in {p, new} : /\ Len(h[x].items) \in Nat /\ Len(h[x].items) >= 1
                               /\ \A i \in 1 .. Len(h[x].items) : h[x].items[i].key \in Int
    BY <1>1, <1>2, HalvesOrder
  <1>5. ASSUME NEW x \in DOMAIN P, NEW y \in DOMAIN P, x # p, y # p, KeysBelow(P, x, y)
        PROVE  KeysBelow(h, x, y)
    BY <1>1, <1>5 DEF KeysBelow
  <1>6. PICK n : n = P[p].next
    OBVIOUS
  <1>7. n # NoPage => /\ n \in DOMAIN P /\ P[n].leaf /\ n # p
                      /\ KeysBelow(P, p, n) /\ KeysBelow(h, p, n) /\ KeysBelow(h, new, n)
    <2>1. n # NoPage => n \in DOMAIN P /\ P[n].leaf /\ KeysBelow(P, p, n)
      BY <1>1, <1>2, <1>6 DEF LinkOK
    <2>2. n # NoPage => n # p
      BY <1>1, <2>1, KeysBelowOrder
    <2>3. QED
      BY <1>4, <2>1, <2>2
  <1>8. ASSUME NEW q \in DOMAIN P, P[q].leaf, q # p
        PROVE  \/ KeysBelow(h, q, p) /\ KeysBelow(h, q, new)
               \/ n # NoPage /\ q = n
               \/ n # NoPage /\ KeysBelow(h, n, q) /\ KeysBelow(h, new, q)
    <2>1. CASE q = n
      <3>1. n # NoPage
        BY <2>1
      <3>2. QED
        BY <2>1, <3>1
    <2>2. CASE q # n
      <3>1. KeysBelow(P, q, p) \/ (n # NoPage /\ KeysBelow(P, n, q))
        BY <1>1, <1>2, <1>6, <1>8, <2>2 DEF LinkOK
      <3>2. ASSUME n # NoPage, KeysBelow(P, n, q)
            PROVE  KeysBelow(h, n, q) /\ KeysBelow(h, new, q)
        <4>1. KeysBelow(P, p, q)
          BY <1>1, <1>7, <1>8, <3>2, KeysBelowOrder
        <4>2. QED
          BY <1>4, <1>5, <1>7, <1>8, <3>2, <4>1
      <3>3. QED
        BY <1>4, <1>8, <3>1, <3>2
    <2>3. QED
      BY <2>1, <2>2
  <1>9. LinkOK(h, p)
    <2>1. ASSUME NEW q \in DOMAIN h, h[q].leaf, q # p, q # new
          PROVE  KeysBelow(h, q, p) \/ (new # NoPage /\ KeysBelow(h, new, q))
      BY <1>1, <1>3, <1>7, <1>8, <2>1
    <2>2. QED
      BY <1>1, <1>3, <1>4, <2>1 DEF LinkOK
  <1>10. LinkOK(h, new)
    <2>1. ASSUME NEW q \in DOMAIN h, h[q].leaf, q # new, q # n
          PROVE  KeysBelow(h, q, new) \/ (n # NoPage /\ KeysBelow(h, n, q))
      BY <1>1, <1>4, <1>8, <2>1
    <2>2. n # NoPage => n \in DOMAIN h /\ h[n].leaf /\ KeysBelow(h, new, n)
      BY <1>1, <1>7
    <2>3. QED
      BY <1>1, <1>4, <1>6, <2>1, <2>2 DEF LinkOK
  <1>11. ASSUME NEW x \in DOMAIN P, P[x].leaf, x # p PROVE LinkOK(h, x)
    <2>1. LinkOK(P, x)
      BY <1>2, <1>11
    <2>2. PICK y : y = P[x].next
      OBVIOUS
    <2>3. h[x].next = y /\ h[x].items = P[x].items
      BY <1>1, <1>11, <2>2
    <2>4. y # NoPage => y \in DOMAIN P /\ P[y].leaf /\ KeysBelow(P, x, y)
      BY <2>1, <2>2 DEF LinkOK
    <2>5. y # NoPage => y \in DOMAIN h /\ h[y].leaf /\ KeysBelow(h, x, y)
      BY <1>1, <1>4, <1>5, <1>11, <2>4
    <2>6. ASSUME NEW q \in DOMAIN h, h[q].leaf, q # x, q # y
          PROVE  KeysBelow(h, q, x) \/ (y # NoPage /\ KeysBelow(h, y, q))
      <3>1. CASE q = new
        <4>1. CASE y = p
          BY <1>1, <1>4, <3>1, <4>1
        <4>2. CASE y # p
          <5>1. KeysBelow(P, p, x) \/ (y # NoPage /\ KeysBelow(P, y, p))
            BY <1>1, <1>11, <2>1, <2>2, <4>2 DEF LinkOK
          <5>2. QED
            BY <1>4, <1>11, <2>4, <3>1, <4>2, <5>1
        <4>3. QED
          BY <4>1, <4>2
      <3>2. CASE q # new
        <4>1. q \in DOMAIN P /\ P[q].leaf
          BY <1>1, <2>6, <3>2
        <4>2. KeysBelow(P, q, x) \/ (y # NoPage /\ KeysBelow(P, y, q))
          BY <2>1, <2>2, <2>6, <4>1 DEF LinkOK
        <4>3. KeysBelow(P, q, x) => KeysBelow(h, q, x)
          BY <1>4, <1>5, <1>11, <4>1
        <4>4. y # NoPage /\ KeysBelow(P, y, q) => KeysBelow(h, y, q)
          BY <1>4, <1>5, <2>4, <2>6, <4>1
        <4>5. QED
          BY <4>2, <4>3, <4>4
      <3>3. QED
        BY <3>1, <3>2
    <2>7. QED
      BY <2>1, <2>3, <2>5, <2>6 DEF LinkOK
  <1>12. QED
    BY <1>1, <1>9, <1>10, <1>11 DEF Linked

LEMMA InsertFirstLinks ==
  ASSUME Growing, GInv, NEW key \in Keys, NEW value \in Values, InsertFirst(key, value)
  PROVE  Linked(pages')
  <1>1. call = Idle /\ root = NoPage
    BY DEF InsertFirst
  <1>2. DOMAIN pages = {}
    BY <1>1, IdleFacts
  <1>3. PICK n, Q : n = NewPageId /\ Q = pages'
    OBVIOUS
  <1>4. Q = AddPage(pages, n, LeafPage(<<Item(key, value)>>))
    BY <1>3 DEF InsertFirst
  <1>5. DOMAIN Q = {n} /\ Q[n] = LeafPage(<<Item(key, value)>>)
    BY <1>2, <1>4 DEF AddPage
  <1>6. Len(Q[n].items) = 1 /\ Q[n].items[1].key = key /\ Q[n].next = NoPage /\ key \in Int
    <2>1. key \in Int
      BY DEF Growing
    <2>2. QED
      BY <1>5, <2>1 DEF LeafPage, Item
  <1>7. \A i : i \in 1 .. 1 <=> i = 1
    OBVIOUS
  <1>8. LinkOK(Q, n)
    BY <1>5, <1>6, <1>7 DEF LinkOK
  <1>9. QED
    BY <1>3, <1>5, <1>8 DEF Linked

\* A leaf gains a key of its own range, and so stays in its place.
LEMMA InsertIntoLeafLinks ==
  ASSUME Growing, GInv, Linked(pages), NEW key \in Keys, NEW value \in Values,
         InsertIntoLeaf(key, value)
  PROVE  Linked(pages')
  <1>1. call = Idle /\ root # NoPage
    BY DEF InsertIntoLeaf
  <1>2. PICK r, l : TreeOK(pages, root, r, l)
    BY <1>1, IdleFacts DEF IsTree
  <1>3. PICK p, items : InsertsAt(p, items, key, value) /\ LeafOK(items, r[p])
    BY <1>2, LeafInsertion
  <1>4. PICK Q : Q = pages'
    OBVIOUS
  <1>5. /\ p \in DOMAIN pages /\ pages[p].leaf /\ pages[p] \in PageType
        /\ pages[p].items \in Seq(ItemType) /\ items \in Seq(ItemType)
        /\ Q = [pages EXCEPT ![p].items = items]
        /\ items = pages[p].items \/ Len(items) = Len(pages[p].items) + 1
    BY <1>2, <1>3, <1>4, NodeFacts DEF InsertsAt
  <1>6. /\ DOMAIN Q = DOMAIN pages /\ \A x \in DOMAIN pages : x # p => Q[x] = pages[x]
        /\ Q[p].leaf /\ Q[p].items = items /\ Q[p].next = pages[p].next
    BY <1>5 DEF PageType
  <1>7. \A x \in DOMAIN pages : Q[x].leaf = pages[x].leaf /\ Q[x].next = pages[x].next
    <2>1. pages[p].leaf = TRUE /\ Q[p].leaf = TRUE
      <3>1. pages[p].leaf \in BOOLEAN /\ Q[p] = [pages[p] EXCEPT !.items = items]
        BY <1>5 DEF PageType
      <3>2. Q[p].leaf = pages[p].leaf
        BY <1>5, <3>1 DEF PageType
      <3>3. QED
        BY <1>5, <3>1, <3>2
    <2>2. QED
      BY <1>6, <2>1
  <1>8. ASSUME NEW x \in DOMAIN pages, pages[x].leaf
        PROVE  /\ LinkOK(pages, x) /\ Len(pages[x].items) >= 1 /\ r[x] \subseteq Int
               /\ \A i \in 1 .. Len(Q[x].items) : Q[x].items[i].key \in r[x]
               /\ Len(Q[x].items) \in Nat /\ Len(Q[x].items) >= 1
    <2>1. LinkOK(pages, x)
      BY <1>8 DEF Linked
    <2>2. Len(pages[x].items) \in Nat /\ Len(pages[x].items) >= 1
      BY <2>1 DEF LinkOK
    <2>3. LeafOK(pages[x].items, r[x]) /\ r[x] \subseteq Int
      BY <1>2, <1>8, NodeFacts DEF NodeOK, Growing
    <2>4. CASE x = p
      <3>1. Len(items) \in Nat /\ Len(items) >= 1
        BY <1>5, <2>2, <2>4
      <3>2. QED
        BY <1>3, <1>6, <2>1, <2>2, <2>3, <2>4, <3>1 DEF LeafOK
    <2>5. CASE x # p
      BY <1>6, <2>1, <2>2, <2>3, <2>5 DEF LeafOK
    <2>6. QED
      BY <2>4, <2>5
  <1>9. ASSUME NEW x \in DOMAIN pages, NEW y \in DOMAIN pages, pages[x].leaf, pages[y].leaf,
               KeysBelow(pages, x, y)
        PROVE  KeysBelow(Q, x, y)
    <2>1. x # y
      BY <1>9, KeysBelowOrder
    <2>2. Len(pages[x].items) >= 1 /\ Len(pages[y].items) >= 1
      BY <1>8, <1>9
    <2>3. \A a \in r[x], b \in r[y] : a < b
      BY <1>2, <1>9, <2>1, <2>2, RangesBelow DEF Growing
    <2>4. /\ \A i \in 1 .. Len(Q[x].items) : Q[x].items[i].key \in r[x]
          /\ \A i \in 1 .. Len(Q[y].items) : Q[y].items[i].key \in r[y]
      BY <1>8, <1>9
    <2>5. QED
      BY <2>3, <2>4 DEF KeysBelow
  <1>10. ASSUME NEW x \in DOMAIN Q, Q[x].leaf PROVE LinkOK(Q, x)
    <2>1. x \in DOMAIN pages /\ pages[x].leaf
      BY <1>6, <1>7, <1>10
    <2>2. LinkOK(pages, x) /\ Len(Q[x].items) \in Nat /\ Len(Q[x].items) >= 1
          /\ \A i \in 1 .. Len(Q[x].items) : Q[x].items[i].key \in Int
      BY <1>8, <2>1
    <2>3. PICK n : n = pages[x].next /\ n = Q[x].next
      BY <1>7, <2>1
    <2>4. n # NoPage => n \in DOMAIN pages /\ pages[n].leaf /\ KeysBelow(pages, x, n)
      BY <2>2, <2>3 DEF LinkOK
    <2>5. n # NoPage => n \in DOMAIN Q /\ Q[n].leaf /\ KeysBelow(Q, x, n)
      BY <1>6, <1>7, <1>9, <2>1, <2>4
    <2>6. ASSUME NEW q \in DOMAIN Q, Q[q].leaf, q # x, q # n
          PROVE  KeysBelow(Q, q, x) \/ (n # NoPage /\ KeysBelow(Q, n, q))
      <3>1. q \in DOMAIN pages /\ pages[q].leaf
        BY <1>6, <1>7, <2>6
      <3>2. KeysBelow(pages, q, x) \/ (n # NoPage /\ KeysBelow(pages, n, q))
        BY <2>2, <2>3, <2>6, <3>1 DEF LinkOK
      <3>3. QED
        BY <1>9, <2>1, <2>4, <3>1, <3>2
    <2>7. QED
      BY <2>2, <2>3, <2>5, <2>6 DEF LinkOK
  <1>11. QED
    BY <1>4, <1>10 DEF Linked

LEMMA SplitsLink ==
  ASSUME Growing, GInv, Linked(pages), Split \/ SplitInternal
  PROVE  Linked(pages')
  <1>1. PICK h, m, mid, new, s : SplitsPage(h, m, mid, new, s)
    BY LeafSplitIs, InternalSplitIs
  <1>2. PICK p, Q : p = call.page /\ Q = pages'
    OBVIOUS
  <1>3. /\ call.op \in {"split", "splitInternal"} /\ mid = pages[p].items[m + 1].key
        /\ HalvesOf(pages, h, p, new, m) /\ s \in PageIds /\ s \notin DOMAIN pages /\ s # new
        /\ Splits(h, p, mid, new, s)
    BY <1>1, <1>2 DEF SplitsPage
  <1>4. IsTree(pages, root) /\ p \in DOMAIN pages
    BY <1>2, <1>3, SplitFacts
  <1>5. PICK r, l : TreeOK(pages, root, r, l)
    BY <1>4 DEF IsTree
  <1>6. /\ pages[p].items \in Seq(ItemType) /\ p \in PageIds
        /\ NodeOK(pages, r, l, p)
        /\ NoPage \notin PageIds /\ NoPage \notin DOMAIN pages
    BY <1>4, <1>5, NodeFacts DEF Growing, TreeOK
  <1>7. /\ DOMAIN h = DOMAIN pages \cup {new} /\ new \in PageIds /\ new \notin DOMAIN pages
        /\ \A x \in DOMAIN h : h[x] \in PageType
    BY <1>3 DEF HalvesOf
  <1>8. Linked(h)
    <2>1. CASE pages[p].leaf
      <3>1. Increasing(pages[p].items)
        BY <1>6, <2>1 DEF NodeOK, LeafOK
      <3>2. QED
        BY <1>3, <1>6, <2>1, <3>1, HalvesLinked
    <2>2. CASE ~pages[p].leaf
      <3>1. /\ \A x \in DOMAIN pages : h[x].leaf = pages[x].leaf
            /\ \A x \in DOMAIN pages : x # p => h[x].items = pages[x].items
            /\ h[new].leaf = pages[p].leaf
            /\ \A x \in DOMAIN pages : x # p => h[x].next = pages[x].next
        BY <1>3 DEF HalvesOf
      <3>2. \A x \in DOMAIN h : x \notin DOMAIN pages => ~h[x].leaf
        BY <1>7, <2>2, <3>1
      <3>3. \A x \in DOMAIN pages : pages[x].leaf => h[x].items = pages[x].items
                                                     /\ h[x].next = pages[x].next
        BY <2>2, <3>1
      <3>4. QED
        BY <1>7, <3>1, <3>2, <3>3, SameLinks
    <2>3. QED
      BY <2>1, <2>2
  <1>9. CASE Q = RootAbove(h, p, mid, new, s)
    <2>1. m + 1 \in 1 .. Len(pages[p].items)
      <3>1. m \in Nat /\ m < Len(pages[p].items) /\ Len(pages[p].items) \in Nat
        BY <1>3, <1>6 DEF HalvesOf, Halves
      <3>2. QED
        BY <3>1
    <2>2. mid \in Int
      BY <1>3, <1>6, <2>1, ItemsOf
    <2>3. p \in DOMAIN h /\ new \in DOMAIN h /\ p # new /\ s \notin DOMAIN h
      BY <1>3, <1>4, <1>7
    <2>4. RootAbovePages(h, p, mid, new, s, Q)
      BY <1>3, <1>6, <1>7, <1>9, <2>2, <2>3, RootAboveIs
    <2>5. /\ DOMAIN Q = DOMAIN h \cup {s} /\ ~Q[s].leaf
          /\ \A x \in DOMAIN h : /\ Q[x].leaf = h[x].leaf /\ Q[x].items = h[x].items
                                 /\ Q[x].next = h[x].next
      BY <2>4 DEF RootAbovePages
    <2>6. Linked(Q)
      BY <1>8, <2>5, SameLinks
    <2>7. QED
      BY <1>2, <2>6
  <1>10. CASE Q = h
    BY <1>2, <1>8, <1>10
  <1>11. QED
    BY <1>2, <1>3, <1>9, <1>10 DEF Splits

LEMMA InsertIntoParentLinks ==
  ASSUME Growing, GInv, Linked(pages), InsertIntoParent
  PROVE  Linked(pages')
  <1>1. PICK q, Q : q = call.parent /\ Q = pages'
    OBVIOUS
  <1>2. q \in DOMAIN pages /\ ~pages[q].leaf /\ pages[q] \in PageType /\ CanPin({q})
    BY <1>1, ParentFactsOfCall DEF InsertIntoParent
  <1>3. PICK items : items = InsertNodeAfter(pages[q].items, call.old, call.key, call.new)
    OBVIOUS
  <1>4. Q = [pages EXCEPT ![q].items = items]
    BY <1>1, <1>2, <1>3 DEF InsertIntoParent
  <1>5. /\ DOMAIN Q = DOMAIN pages /\ Q[q].leaf = pages[q].leaf
        /\ \A x \in DOMAIN pages : x # q => Q[x] = pages[x]
    BY <1>2, <1>4 DEF PageType
  <1>6. Linked(Q)
    BY <1>2, <1>5, SameLinks
  <1>7. QED
    BY <1>1, <1>6

LEMMA LinkedStep ==
  ASSUME Growing, GInv, Linked(pages), [Next]_vars
  PROVE  Linked(pages')
  <1>1. CASE UNCHANGED vars
    BY <1>1 DEF vars
  <1>2. ASSUME NEW key \in Keys, NEW value \in Values, Insert(key, value) PROVE Linked(pages')
    BY <1>2, InsertFirstLinks, InsertIntoLeafLinks, NoInsertFails DEF Insert
  <1>3. CASE Split \/ SplitInternal
    BY <1>3, SplitsLink
  <1>4. CASE InsertIntoParent
    BY <1>4, InsertIntoParentLinks
  <1>5. ASSUME NEW key \in Removable, Remove(key) \/ RemoveNothing(key) PROVE FALSE
    BY DEF Growing
  <1>6. CASE CoalesceAlone \/ Redistribute \/ Coalesce \/ CoalesceOrRedistributeInternal
    BY <1>6, NoCoalescing
       DEF CoalesceAlone, Redistribute, Coalesce, CoalesceOrRedistributeInternal
  <1>7. CASE OthersPin
    BY <1>7 DEF OthersPin
  <1>8. QED
    BY <1>1, <1>2, <1>3, <1>4, <1>5, <1>6, <1>7 DEF Next

\* The leaves between calls, where none is being split.
LEMMA GrownLeafChain ==
  ASSUME Growing, GInv, Linked(pages)
  PROVE  LeafChain
  <1>1. SUFFICES ASSUME call = Idle, NEW p \in Leaves, NEW next, next = pages[p].next
        PROVE  /\ \A i, j \in DOMAIN pages[p].items :
                     i < j => pages[p].items[i].key < pages[p].items[j].key
               /\ next # NoPage => next \in Leaves \ {p} /\ Before(p, next)
               /\ \A q \in Leaves \ {p, next} :
                     /\ pages[q].next # next
                     /\ Before(q, p) \/ (next # NoPage /\ Before(next, q))
    BY DEF LeafChain
  <1>2. \A x \in Leaves : x \in DOMAIN pages /\ pages[x].leaf /\ LinkOK(pages, x)
    BY DEF Leaves, Linked
  <1>3. PICK r, l : TreeOK(pages, root, r, l)
    <2>1. pages # <<>>
      BY <1>2
    <2>2. QED
      BY <1>1, <2>1, IdleFacts DEF IsTree
  <1>4. \A x \in Leaves : DOMAIN pages[x].items = 1 .. Len(pages[x].items)
    <2>1. ASSUME NEW x \in Leaves PROVE DOMAIN pages[x].items = 1 .. Len(pages[x].items)
      <3>1. pages[x].items \in Seq(ItemType)
        BY <1>2, <1>3, NodeFacts
      <3>2. QED
        BY <3>1
    <2>2. QED
      BY <2>1
  <1>5. \A x, y \in Leaves : KeysBelow(pages, x, y) <=> Before(x, y)
    BY <1>4 DEF KeysBelow, Before
  <1>6. Increasing(pages[p].items)
    BY <1>2, <1>3, NodeFacts DEF NodeOK, LeafOK
  <1>7. next # NoPage => next \in Leaves \ {p} /\ KeysBelow(pages, p, next)
    <2>1. next # NoPage => /\ next \in DOMAIN pages /\ pages[next].leaf
                           /\ KeysBelow(pages, p, next)
      BY <1>1, <1>2 DEF LinkOK
    <2>2. next # NoPage => next # p
      BY <1>2, <2>1, KeysBelowOrder
    <2>3. QED
      BY <2>1, <2>2 DEF Leaves
  <1>8. ASSUME NEW q \in Leaves \ {p, next}
        PROVE  /\ pages[q].next # next
               /\ KeysBelow(pages, q, p) \/ (next # NoPage /\ KeysBelow(pages, next, q))
    <2>1. KeysBelow(pages, q, p) \/ (next # NoPage /\ KeysBelow(pages, next, q))
      BY <1>1, <1>2 DEF LinkOK
    <2>2. ASSUME pages[q].next = next PROVE FALSE
      <3>1. KeysBelow(pages, p, q) \/ (next # NoPage /\ KeysBelow(pages, next, p))
        <4>1. p # next
          <5>1. CASE next = NoPage
            <6>1. p \in PageIds /\ NoPage \notin PageIds
              BY <1>2, <1>3, NodeFacts DEF Growing
            <6>2. QED
              BY <5>1, <6>1
          <5>2. CASE next # NoPage
            BY <1>7, <5>2
          <5>3. QED
            BY <5>1, <5>2
        <4>2. QED
          BY <1>2, <2>2, <4>1 DEF LinkOK
      <3>2. next # NoPage => KeysBelow(pages, q, next)
        BY <1>2, <2>2 DEF LinkOK
      <3>3. next # NoPage => ~KeysBelow(pages, next, p) /\ ~KeysBelow(pages, next, q)
        BY <1>2, <1>7, <3>2, KeysBelowOrder
      <3>4. KeysBelow(pages, p, q) /\ KeysBelow(pages, q, p)
        BY <2>1, <3>1, <3>3
      <3>5. QED
        BY <1>2, <3>4, KeysBelowOrder
    <2>3. QED
      BY <2>1, <2>2
  <1>9. \A i, j \in DOMAIN pages[p].items :
           i < j => pages[p].items[i].key < pages[p].items[j].key
    BY <1>4, <1>6 DEF Increasing
  <1>10. QED
    BY <1>5, <1>7, <1>8, <1>9

\* The leaf list.  Split puts the new leaf behind the one it came from and
\* Insert adds to a leaf only keys of the range it is found under, so between calls
\* next_page_id_ passes every leaf once, in the order of the keys.
THEOREM LeavesStayInKeyOrder ==
  ASSUME Growing
  PROVE  Spec => []LeafChain
  <1> DEFINE Inv == GInv /\ Linked(pages)
  <1>1. Init => Inv
    <2>1. ASSUME Init PROVE Linked(pages)
      <3>1. DOMAIN pages = {}
        BY <2>1 DEF Init
      <3>2. QED
        BY <3>1 DEF Linked
    <2>2. QED
      BY <2>1, GInvInit
  <1>2. Inv /\ [Next]_vars => Inv'
    <2>1. ASSUME Inv, [Next]_vars PROVE Linked(pages')
      BY <2>1, LinkedStep
    <2>2. Linked(pages') => Linked(pages)'
      BY DEF Linked, LinkOK, KeysBelow
    <2>3. QED
      BY <2>1, <2>2, GInvStep
  <1>3. Inv => LeafChain
    BY GrownLeafChain
  <1> HIDE DEF Inv
  <1>4. QED
    BY <1>1, <1>2, <1>3, PTL DEF Spec

-----------------------------------------------------------------------------
(* The tree implements the map.                                            *)

\* What is known of the leaves before and after a step.
LeavesKnown == LeavesOK(pages) /\ Contents = MapOf(pages)

\* A page that is no leaf adds no pair, and two halves of a leaf hold what the
\* leaf held.
LEMMA HalvesKeepPairs ==
  ASSUME NEW P, NEW h, NEW p, NEW new, NEW m, HalvesOf(P, h, p, new, m), NEW k, NEW v
  PROVE  Pair(h, k, v) <=> Pair(P, k, v)
  <1> DEFINE Holds(items) == \E i \in 1 .. Len(items) : items[i].key = k /\ items[i].val = v
  <1>1. /\ p \in DOMAIN P /\ new \notin DOMAIN P /\ DOMAIN h = DOMAIN P \cup {new}
        /\ \A x \in DOMAIN P : h[x].leaf = P[x].leaf
        /\ \A x \in DOMAIN P : x # p => h[x].items = P[x].items
        /\ h[new].leaf = P[p].leaf
        /\ Halves(P[p].items, h[p].items, h[new].items, m)
        /\ P[p].leaf => h[new].items[1] = P[p].items[m + 1]
    BY DEF HalvesOf
  <1>2. PICK items, from, to : items = P[p].items /\ from = h[p].items /\ to = h[new].items
    OBVIOUS
  <1>3. Halves(items, from, to, m)
    BY <1>1, <1>2
  <1>4. PICK n : n = Len(items)
    OBVIOUS
  <1>5. /\ m \in Nat /\ 1 <= m /\ m < n /\ n - m \in Nat /\ n \in Nat
        /\ Len(from) = m /\ Len(to) = n - m
        /\ \A i \in 1 .. m : from[i] = items[i]
        /\ \A i \in 2 .. n - m : to[i] = items[m + i]
    <2>1. m \in Nat /\ Len(to) \in Nat /\ Len(to) = n - m /\ 1 <= m /\ m < n
      BY <1>3, <1>4 DEF Halves
    <2>2. n \in Nat
      <3>1. n \in Int
        BY <1>3, <1>4 DEF Halves
      <3>2. QED
        BY <2>1, <3>1
    <2>3. QED
      BY <1>3, <1>4, <2>1, <2>2 DEF Halves
  <1>6. ASSUME to[1] = items[m + 1] PROVE Holds(items) <=> Holds(from) \/ Holds(to)
    <2>1. \A i \in 1 .. n - m : to[i] = items[m + i] /\ m + i \in 1 .. n
      <3>1. ASSUME NEW i \in 1 .. n - m PROVE to[i] = items[m + i] /\ m + i \in 1 .. n
        <4>1. (i = 1 \/ i \in 2 .. n - m) /\ m + i \in 1 .. n
          BY <1>5
        <4>2. QED
          BY <1>5, <1>6, <4>1
      <3>2. QED
        BY <3>1
    <2>2. \A i \in 1 .. n : i \in 1 .. m \/ (i - m \in 1 .. n - m /\ m + (i - m) = i)
      BY <1>5
    <2>3. \A i \in 1 .. m : i \in 1 .. n
      BY <1>5
    <2>4. ASSUME Holds(items) PROVE Holds(from) \/ Holds(to)
      <3>1. PICK i \in 1 .. n : items[i].key = k /\ items[i].val = v
        BY <1>4, <2>4
      <3>2. CASE i \in 1 .. m
        BY <1>5, <3>1, <3>2
      <3>3. CASE i - m \in 1 .. n - m /\ m + (i - m) = i
        <4>1. to[i - m] = items[i]
          BY <2>1, <3>3
        <4>2. QED
          BY <1>5, <3>1, <3>3, <4>1
      <3>4. QED
        BY <2>2, <3>2, <3>3
    <2>5. ASSUME Holds(from) PROVE Holds(items)
      BY <1>4, <1>5, <2>3, <2>5
    <2>6. ASSUME Holds(to) PROVE Holds(items)
      BY <1>4, <1>5, <2>1, <2>6
    <2>7. QED
      BY <2>4, <2>5, <2>6
  <1> HIDE DEF Holds
  <1>7. Pair(P, k, v) <=> \E x \in DOMAIN P : P[x].leaf /\ Holds(P[x].items)
    BY DEF Pair, Holds
  <1>8. Pair(h, k, v) <=> \E x \in DOMAIN h : h[x].leaf /\ Holds(h[x].items)
    BY DEF Pair, Holds
  <1>9. QED
    BY <1>1, <1>2, <1>6, <1>7, <1>8

LEMMA RootAboveKeepsPairs ==
  ASSUME NEW h, NEW p, NEW mid, NEW new, NEW s, s \notin DOMAIN h, NEW Q,
         RootAbovePages(h, p, mid, new, s, Q), NEW k, NEW v
  PROVE  Pair(Q, k, v) <=> Pair(h, k, v)
  <1>1. /\ DOMAIN Q = DOMAIN h \cup {s} /\ ~Q[s].leaf
        /\ \A x \in DOMAIN h : Q[x].leaf = h[x].leaf /\ Q[x].items = h[x].items
    BY DEF RootAbovePages
  <1>2. QED
    BY <1>1 DEF Pair

LEMMA SplitsKeepMap ==
  ASSUME Growing, GInv, LeavesKnown, LeavesKnown', Split \/ SplitInternal
  PROVE  Contents' = Contents /\ answer' = answer
  <1>1. PICK h, m, mid, new, s : SplitsPage(h, m, mid, new, s)
    BY LeafSplitIs, InternalSplitIs
  <1>2. PICK p : p = call.page
    OBVIOUS
  <1>3. /\ call.op \in {"split", "splitInternal"} /\ mid = pages[p].items[m + 1].key
        /\ HalvesOf(pages, h, p, new, m) /\ s \in PageIds /\ s \notin DOMAIN pages /\ s # new
        /\ Splits(h, p, mid, new, s) /\ answer' = answer
    BY <1>1, <1>2 DEF SplitsPage
  <1>4. \A k, v : Pair(h, k, v) <=> Pair(pages, k, v)
    BY <1>3, HalvesKeepPairs
  <1>5. PICK Q : Q = pages'
    OBVIOUS
  <1>6. ASSUME NEW k, NEW v PROVE Pair(Q, k, v) <=> Pair(pages, k, v)
    <2>1. CASE Q = h
      BY <1>4, <2>1
    <2>2. CASE Q = RootAbove(h, p, mid, new, s)
      <3>1. IsTree(pages, root) /\ p \in DOMAIN pages
        BY <1>2, <1>3, SplitFacts
      <3>2. PICK r, l : TreeOK(pages, root, r, l)
        BY <3>1 DEF IsTree
      <3>3. pages[p].items \in Seq(ItemType) /\ p \in PageIds
        BY <3>1, <3>2, NodeFacts
      <3>4. m + 1 \in 1 .. Len(pages[p].items)
        <4>1. m \in Nat /\ m < Len(pages[p].items) /\ Len(pages[p].items) \in Nat
          BY <1>3, <3>3 DEF HalvesOf, Halves
        <4>2. QED
          BY <4>1
      <3>5. mid \in Int
        BY <1>3, <3>3, <3>4, ItemsOf
      <3>6. /\ DOMAIN h = DOMAIN pages \cup {new} /\ new \in PageIds /\ new \notin DOMAIN pages
            /\ \A x \in DOMAIN h : h[x] \in PageType
        BY <1>3 DEF HalvesOf
      <3>7. p \in DOMAIN h /\ new \in DOMAIN h /\ p # new /\ s \notin DOMAIN h
        BY <1>3, <3>1, <3>6
      <3>8. RootAbovePages(h, p, mid, new, s, Q)
        BY <1>3, <2>2, <3>3, <3>5, <3>6, <3>7, RootAboveIs
      <3>9. Pair(Q, k, v) <=> Pair(h, k, v)
        BY <3>7, <3>8, RootAboveKeepsPairs
      <3>10. QED
        BY <1>4, <3>9
    <2>3. QED
      BY <1>3, <1>5, <2>1, <2>2 DEF Splits
  <1>7. LeavesOK(Q) /\ LeavesOK(pages)
    BY <1>5 DEF LeavesKnown
  <1>8. MapOf(Q) = MapOf(pages)
    BY <1>6, <1>7, SamePairs DEF LeavesOK
  <1>9. QED
    BY <1>3, <1>5, <1>8 DEF LeavesKnown

LEMMA InsertIntoParentKeepsMap ==
  ASSUME Growing, GInv, LeavesKnown, LeavesKnown', InsertIntoParent
  PROVE  Contents' = Contents /\ answer' = answer
  <1>1. PICK q : q = call.parent
    OBVIOUS
  <1>2. /\ q \in DOMAIN pages /\ ~pages[q].leaf /\ pages[q] \in PageType /\ CanPin({q})
    BY <1>1, ParentFactsOfCall DEF InsertIntoParent
  <1>3. PICK items, Q :
          items = InsertNodeAfter(pages[q].items, call.old, call.key, call.new) /\ Q = pages'
    OBVIOUS
  <1>4. Q = [pages EXCEPT ![q].items = items] /\ answer' = answer
    BY <1>1, <1>2, <1>3 DEF InsertIntoParent
  <1>5. DOMAIN Q = DOMAIN pages /\ ~Q[q].leaf /\ \A x \in DOMAIN pages : x # q => Q[x] = pages[x]
    BY <1>2, <1>4 DEF PageType
  <1>6. \A k, v : Pair(Q, k, v) <=> Pair(pages, k, v)
    BY <1>2, <1>5 DEF Pair
  <1>7. LeavesOK(Q) /\ LeavesOK(pages)
    BY <1>3 DEF LeavesKnown
  <1>8. MapOf(Q) = MapOf(pages)
    BY <1>6, <1>7, SamePairs DEF LeavesOK
  <1>9. QED
    BY <1>3, <1>4, <1>8 DEF LeavesKnown

\* One more pair is one more entry of the map.
LEMMA MapGains ==
  ASSUME NEW P, NEW Q, LeavesOK(P), LeavesOK(Q), NEW key \in Keys, NEW value \in Values,
         \A v : ~Pair(P, key, v),
         \A k, v : Pair(Q, k, v) <=> Pair(P, k, v) \/ (k = key /\ v = value)
  PROVE  /\ key \notin DOMAIN MapOf(P)
         /\ MapOf(Q) = [x \in DOMAIN MapOf(P) \cup {key} |->
                          IF x = key THEN value ELSE MapOf(P)[x]]
  <1>1. PICK f : f = MapOf(P)
    OBVIOUS
  <1>2. /\ \A k : k \in DOMAIN f <=> k \in Keys /\ \E v : Pair(P, k, v)
        /\ \A k, v : Pair(P, k, v) => k \in DOMAIN f /\ f[k] = v
    BY <1>1, MapOfIs
  <1>3. PICK g : g = [x \in DOMAIN f \cup {key} |-> IF x = key THEN value ELSE f[x]]
    OBVIOUS
  <1>4. DOMAIN g = DOMAIN f \cup {key} /\ g = [x \in DOMAIN g |-> g[x]]
    BY <1>3
  <1>5. \A x \in DOMAIN g : g[x] = IF x = key THEN value ELSE f[x]
    BY <1>3
  <1>6. \A k : k \in DOMAIN g <=> k \in Keys /\ \E v : Pair(Q, k, v)
    BY <1>2, <1>4
  <1>7. \A k \in DOMAIN g : Pair(Q, k, g[k])
    BY <1>2, <1>4, <1>5
  <1>8. g = MapOf(Q)
    BY <1>4, <1>6, <1>7, IsMapOf
  <1>9. QED
    BY <1>1, <1>2, <1>3, <1>8

LEMMA InsertFirstMaps ==
  ASSUME Growing, GInv, LeavesKnown, LeavesKnown', NEW key \in Keys, NEW value \in Values,
         InsertFirst(key, value)
  PROVE  KM!Insert(key, value)
  <1>1. call = Idle /\ root = NoPage /\ answer' = TRUE
    BY DEF InsertFirst
  <1>2. DOMAIN pages = {}
    BY <1>1, IdleFacts
  <1>3. PICK n, Q : n = NewPageId /\ Q = pages'
    OBVIOUS
  <1>4. Q = AddPage(pages, n, LeafPage(<<Item(key, value)>>))
    BY <1>3 DEF InsertFirst
  <1>5. DOMAIN Q = {n} /\ Q[n] = LeafPage(<<Item(key, value)>>)
    BY <1>2, <1>4 DEF AddPage
  <1>6. /\ Q[n].leaf /\ Len(Q[n].items) = 1
        /\ Q[n].items[1].key = key /\ Q[n].items[1].val = value
    BY <1>5 DEF LeafPage, Item
  <1>7. \A i : i \in 1 .. 1 <=> i = 1
    OBVIOUS
  <1>8. \A k, v : Pair(Q, k, v) <=> k = key /\ v = value
    BY <1>5, <1>6, <1>7 DEF Pair
  <1>9. \A k, v : ~Pair(pages, k, v)
    BY <1>2 DEF Pair
  <1>10. LeavesOK(pages) /\ LeavesOK(Q) /\ Contents = MapOf(pages) /\ Contents' = MapOf(Q)
    BY <1>3 DEF LeavesKnown
  <1>11. /\ key \notin DOMAIN MapOf(pages)
         /\ MapOf(Q) = [x \in DOMAIN MapOf(pages) \cup {key} |->
                          IF x = key THEN value ELSE MapOf(pages)[x]]
    BY <1>8, <1>9, <1>10, MapGains
  <1>12. QED
    BY <1>1, <1>10, <1>11 DEF KM!Insert

LEMMA InsertIntoLeafMaps ==
  ASSUME Growing, GInv, LeavesKnown, LeavesKnown', NEW key \in Keys, NEW value \in Values,
         InsertIntoLeaf(key, value)
  PROVE  KM!Insert(key, value)
  <1>1. call = Idle /\ root # NoPage
    BY DEF InsertIntoLeaf
  <1>2. PICK r, l : TreeOK(pages, root, r, l)
    BY <1>1, IdleFacts DEF IsTree
  <1>3. PICK p, items : InsertsAt(p, items, key, value) /\ key \in r[p]
                        /\ LeafOK(pages[p].items, r[p])
    BY <1>2, LeafInsertion
  <1>4. PICK old, R, Q : old = pages[p].items /\ R = r[p] /\ Q = pages'
    OBVIOUS
  <1>5. /\ p \in DOMAIN pages /\ pages[p].leaf /\ old \in Seq(ItemType)
        /\ items = LeafInsert(old, key, value)
        /\ Q = [pages EXCEPT ![p].items = items]
        /\ answer' = (Len(items) # Len(old))
        /\ \/ Keyed(old, key) /\ items = old
           \/ ~Keyed(old, key) /\ Len(items) = Len(old) + 1
    BY <1>3, <1>4 DEF InsertsAt
  <1>6. R \in SUBSET Int /\ LeafOK(old, R) /\ key \in R /\ pages[p] \in PageType
    BY <1>2, <1>3, <1>4, <1>5, NodeFacts DEF Growing
  <1>7. /\ DOMAIN Q = DOMAIN pages /\ \A x \in DOMAIN pages : x # p => Q[x] = pages[x]
        /\ Q[p].leaf /\ Q[p].items = items
    BY <1>5, <1>6 DEF PageType
  <1>8. LeavesOK(pages) /\ LeavesOK(Q) /\ Contents = MapOf(pages) /\ Contents' = MapOf(Q)
    BY <1>4 DEF LeavesKnown
  <1>9. CASE Keyed(old, key)
    <2>1. items = old /\ answer' = FALSE
      BY <1>5, <1>9
    <2>2. \A k, v : Pair(Q, k, v) <=> Pair(pages, k, v)
      BY <1>4, <1>5, <1>7, <2>1 DEF Pair
    <2>3. MapOf(Q) = MapOf(pages)
      BY <1>8, <2>2, SamePairs DEF LeavesOK
    <2>4. \E v : Pair(pages, key, v)
      <3>1. PICK i \in 1 .. Len(old) : old[i].key = key
        BY <1>9 DEF Keyed
      <3>2. Pair(pages, key, old[i].val)
        BY <1>4, <1>5, <3>1 DEF Pair
      <3>3. QED
        BY <3>2
    <2>5. key \in DOMAIN MapOf(pages)
      BY <1>8, <2>4, MapOfIs
    <2>6. QED
      BY <1>8, <2>1, <2>3, <2>5 DEF KM!Insert
  <1>10. CASE ~Keyed(old, key)
    <2>1. Len(old) \in Nat /\ Len(items) = Len(old) + 1
      BY <1>5, <1>10
    <2>2. answer' = TRUE
      <3>1. Len(items) # Len(old)
        BY <2>1
      <3>2. answer' = (Len(items) # Len(old))
        BY <1>5
      <3>3. QED
        BY <3>1, <3>2, Zenon
    <2>3. Gains(old, items, Item(key, value))
      BY <1>5, <1>6, <1>10, LeafInsertIs
    <2>4. PICK e : e = Item(key, value)
      OBVIOUS
    <2>5. e.key = key /\ e.val = value
      BY <2>4 DEF Item
    <2>6. \A k, v : Pair(Q, k, v) <=> Pair(pages, k, v) \/ (k = key /\ v = value)
      <3> DEFINE Holds(s, k, v) == \E i \in 1 .. Len(s) : s[i].key = k /\ s[i].val = v
      <3>1. \A k, v : Holds(items, k, v) <=> Holds(old, k, v) \/ (k = key /\ v = value)
        <4>1. /\ \A i \in 1 .. Len(old) : \E j \in 1 .. Len(items) : items[j] = old[i]
              /\ \A j \in 1 .. Len(items) : items[j] = e
                                            \/ \E i \in 1 .. Len(old) : items[j] = old[i]
              /\ \E j \in 1 .. Len(items) : items[j] = e
          BY <2>3, <2>4 DEF Gains
        <4>2. ASSUME NEW k, NEW v, Holds(items, k, v)
              PROVE  Holds(old, k, v) \/ (k = key /\ v = value)
          BY <2>5, <4>1, <4>2
        <4>3. ASSUME NEW k, NEW v, Holds(old, k, v) PROVE Holds(items, k, v)
          BY <4>1, <4>3
        <4>4. Holds(items, key, value)
          BY <2>5, <4>1
        <4> HIDE DEF Holds
        <4>5. QED
          BY <4>2, <4>3, <4>4
      <3>2. \A k, v : Pair(Q, k, v) <=> \E x \in DOMAIN Q : Q[x].leaf /\ Holds(Q[x].items, k, v)
        BY DEF Pair
      <3>3. \A k, v : Pair(pages, k, v)
                      <=> \E x \in DOMAIN pages : pages[x].leaf /\ Holds(pages[x].items, k, v)
        BY DEF Pair
      <3> HIDE DEF Holds
      <3>4. ASSUME NEW k, NEW v, Pair(Q, k, v)
            PROVE  Pair(pages, k, v) \/ (k = key /\ v = value)
        BY <1>4, <1>5, <1>7, <3>1, <3>2, <3>3, <3>4
      <3>5. ASSUME NEW k, NEW v, Pair(pages, k, v) PROVE Pair(Q, k, v)
        <4>1. PICK x \in DOMAIN pages : pages[x].leaf /\ Holds(pages[x].items, k, v)
          BY <3>3, <3>5
        <4>2. Q[x].leaf /\ Holds(Q[x].items, k, v)
          BY <1>4, <1>7, <3>1, <4>1
        <4>3. QED
          BY <1>7, <3>2, <4>2
      <3>6. Pair(Q, key, value)
        <4>1. Holds(items, key, value)
          BY <3>1
        <4>2. p \in DOMAIN Q /\ Q[p].leaf /\ Holds(Q[p].items, key, value)
          BY <1>5, <1>7, <4>1
        <4>3. QED
          BY <3>2, <4>2
      <3>7. QED
        BY <3>4, <3>5, <3>6
    <2>7. ASSUME NEW v, Pair(pages, key, v) PROVE FALSE
      <3>1. PICK q \in DOMAIN pages : /\ pages[q].leaf
                                      /\ \E i \in 1 .. Len(pages[q].items) :
                                            pages[q].items[i].key = key
        BY <2>7 DEF Pair
      <3>2. key \in r[q]
        BY <1>2, <3>1, NodeFacts DEF NodeOK, LeafOK
      <3>3. q = p
        BY <1>2, <1>3, <1>5, <3>1, <3>2, OneLeaf DEF Growing
      <3>4. QED
        BY <1>4, <1>10, <3>1, <3>3 DEF Keyed
    <2>8. /\ key \notin DOMAIN MapOf(pages)
          /\ MapOf(Q) = [x \in DOMAIN MapOf(pages) \cup {key} |->
                           IF x = key THEN value ELSE MapOf(pages)[x]]
      BY <1>8, <2>6, <2>7, MapGains
    <2>9. QED
      BY <1>8, <2>2, <2>8 DEF KM!Insert
  <1>11. QED
    BY <1>9, <1>10

LEMMA StepMaps ==
  ASSUME Growing, GInv, LeavesKnown, LeavesKnown', [Next]_vars
  PROVE  [KM!Next]_(KM!vars)
  <1>1. CASE UNCHANGED vars
    <2>1. pages' = pages /\ answer' = answer
      BY <1>1 DEF vars
    <2>2. Contents' = Contents
      BY <2>1 DEF LeavesKnown
    <2>3. QED
      BY <2>1, <2>2 DEF KM!vars
  <1>2. ASSUME NEW key \in Keys, NEW value \in Values, Insert(key, value) PROVE KM!Next
    <2>1. KM!Insert(key, value)
      BY <1>2, InsertFirstMaps, InsertIntoLeafMaps, NoInsertFails DEF Insert
    <2>2. QED
      BY <2>1 DEF KM!Next
  <1>3. CASE Split \/ SplitInternal
    BY <1>3, SplitsKeepMap DEF KM!vars
  <1>4. CASE InsertIntoParent
    BY <1>4, InsertIntoParentKeepsMap DEF KM!vars
  <1>5. ASSUME NEW key \in Removable, Remove(key) \/ RemoveNothing(key) PROVE FALSE
    BY DEF Growing
  <1>6. CASE CoalesceAlone \/ Redistribute \/ Coalesce \/ CoalesceOrRedistributeInternal
    BY <1>6, NoCoalescing
       DEF CoalesceAlone, Redistribute, Coalesce, CoalesceOrRedistributeInternal
  <1>7. CASE OthersPin
    <2>1. pages' = pages /\ answer' = answer
      BY <1>7 DEF OthersPin
    <2>2. Contents' = Contents
      BY <2>1 DEF LeavesKnown
    <2>3. QED
      BY <2>1, <2>2 DEF KM!vars
  <1>8. QED
    BY <1>1, <1>2, <1>3, <1>4, <1>5, <1>6, <1>7 DEF Next

LEMMA InitMaps ==
  ASSUME Init, LeavesKnown
  PROVE  KM!Init
  <1>1. DOMAIN pages = {} /\ answer = FALSE
    BY DEF Init
  <1>2. \A k : Pairs(pages, k) = {}
    BY <1>1 DEF Pairs, Pair
  <1>3. {x \in Keys : Pairs(pages, x) # {}} = {}
    BY <1>2
  <1>4. MapOf(pages) = <<>>
    BY <1>3 DEF MapOf
  <1>5. QED
    BY <1>1, <1>4 DEF KM!Init, LeavesKnown

\* The index is a map.  Insert adds exactly an absent key and says truly whether
\* it did, and no split, however far it climbs, changes which pairs the leaves
\* hold together.
THEOREM TreeImplementsKeyMap ==
  ASSUME Growing
  PROVE  Spec => ImplementsKeyMap
  <1>1. GInv => LeavesKnown
    BY LeavesAreOK DEF LeavesKnown
  <1>2. Init /\ LeavesKnown => KM!Init
    BY InitMaps
  <1>3. GInv /\ LeavesKnown /\ LeavesKnown' /\ [Next]_vars => [KM!Next]_(KM!vars)
    BY StepMaps
  <1>4. QED
    BY <1>1, <1>2, <1>3, GInvHolds, PTL DEF Spec, ImplementsKeyMap, KM!Spec
============================================================================
