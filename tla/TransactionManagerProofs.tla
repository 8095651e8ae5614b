---------------------- MODULE TransactionManagerProofs ----------------------
(***************************************************************************)
(* Transactions over the lock manager: that whoever has ended acquires     *)
(* nothing holds for every mixture of calls and every outcome of the       *)
(* release loops.  What needs the lock sets to tell which requests are     *)
(* granted is proved for callers that take an exclusive lock on a          *)
(* resource they hold shared by LockUpgrade only, and for builds in which  *)
(* a release loop is followed to its end or kills the process.             *)
(***************************************************************************)
EXTENDS TransactionManager, LockManagerProofs

-----------------------------------------------------------------------------
(* Queues in which a transaction has one request.                          *)

HasGranted(q, t, m) ==
  \E i \in 1 .. Len(q) : q[i].txn = t /\ q[i].mode = m /\ q[i].granted

HasAsked(q, t, m) ==
  \E i \in 1 .. Len(q) : q[i].txn = t /\ q[i].mode = m /\ ~q[i].granted

OneEach(q) == \A i, j \in 1 .. Len(q) : q[i].txn = q[j].txn => i = j

Absent(q, t) == \A i \in 1 .. Len(q) : q[i].txn # t

\* g is q, except that new is the request of t.
Holds(q, g, t, new) ==
  /\ OneEach(g)
  /\ \A u \in Txns, m \in LockMode :
       /\ HasGranted(g, u, m)
            <=> IF u = t THEN new.granted /\ new.mode = m ELSE HasGranted(q, u, m)
       /\ HasAsked(g, u, m)
            <=> IF u = t THEN ~new.granted /\ new.mode = m ELSE HasAsked(q, u, m)

\* g is q without a request of t.
Lacks(q, g, t) ==
  /\ OneEach(g)
  /\ \A u \in Txns, m \in LockMode :
       /\ HasGranted(g, u, m) <=> u # t /\ HasGranted(q, u, m)
       /\ HasAsked(g, u, m) <=> u # t /\ HasAsked(q, u, m)

LEMMA AppendHolds ==
  ASSUME NEW q \in Seq(LockRequest), NEW t \in Txns, NEW new \in LockRequest, new.txn = t,
         OneEach(q), Absent(q, t), NEW g, g = Append(q, new)
  PROVE  Holds(q, g, t, new)
  <1> DEFINE n == Len(q)
  <1>1. /\ n \in Nat /\ Len(g) = n + 1
        /\ \A i \in 1 .. n : g[i] = q[i]
        /\ g[n + 1] = new
    OBVIOUS
  <1>2. /\ \A i \in 1 .. n + 1 : i \in 1 .. n \/ i = n + 1
        /\ \A i \in 1 .. n : i \in 1 .. n + 1
        /\ n + 1 \in 1 .. n + 1
    BY <1>1
  <1> HIDE DEF n
  <1>3. \A i \in 1 .. n : q[i].txn # t
    BY DEF Absent, n
  <1>4. OneEach(g)
    BY <1>1, <1>2, <1>3 DEF OneEach, n
  <1>5. ASSUME NEW u \in Txns, NEW m \in LockMode
        PROVE  HasGranted(g, u, m)
                 <=> IF u = t THEN new.granted /\ new.mode = m ELSE HasGranted(q, u, m)
    <2>1. HasGranted(q, u, m)
            <=> \E i \in 1 .. n : q[i].txn = u /\ q[i].mode = m /\ q[i].granted
      BY DEF HasGranted, n
    <2>2. HasGranted(g, u, m)
            <=> \E i \in 1 .. n + 1 : g[i].txn = u /\ g[i].mode = m /\ g[i].granted
      BY <1>1 DEF HasGranted
    <2>3. CASE u = t
      BY <1>1, <1>2, <1>3, <2>2, <2>3
    <2>4. CASE u # t
      BY <1>1, <1>2, <2>1, <2>2, <2>4
    <2>5. QED
      BY <2>3, <2>4
  <1>6. ASSUME NEW u \in Txns, NEW m \in LockMode
        PROVE  HasAsked(g, u, m)
                 <=> IF u = t THEN ~new.granted /\ new.mode = m ELSE HasAsked(q, u, m)
    <2>1. HasAsked(q, u, m)
            <=> \E i \in 1 .. n : q[i].txn = u /\ q[i].mode = m /\ ~q[i].granted
      BY DEF HasAsked, n
    <2>2. HasAsked(g, u, m)
            <=> \E i \in 1 .. n + 1 : g[i].txn = u /\ g[i].mode = m /\ ~g[i].granted
      BY <1>1 DEF HasAsked
    <2>3. CASE u = t
      BY <1>1, <1>2, <1>3, <2>2, <2>3
    <2>4. CASE u # t
      BY <1>1, <1>2, <2>1, <2>2, <2>4
    <2>5. QED
      BY <2>3, <2>4
  <1>7. QED
    BY <1>4, <1>5, <1>6 DEF Holds

LEMMA ReplaceHolds ==
  ASSUME NEW q \in Seq(LockRequest), NEW t \in Txns, NEW new \in LockRequest, new.txn = t,
         OneEach(q), NEW i \in 1 .. Len(q), q[i].txn = t,
         NEW g, g = [q EXCEPT ![i] = new]
  PROVE  Holds(q, g, t, new)
  <1>1. /\ Len(g) = Len(q) /\ g[i] = new
        /\ \A j \in 1 .. Len(q) : j # i => g[j] = q[j] /\ q[j].txn # t
    BY DEF OneEach
  <1>2. \A j \in 1 .. Len(q) : g[j].txn = q[j].txn
    BY <1>1
  <1>3. OneEach(g)
    BY <1>1, <1>2 DEF OneEach
  <1>4. ASSUME NEW u \in Txns, NEW m \in LockMode
        PROVE  HasGranted(g, u, m)
                 <=> IF u = t THEN new.granted /\ new.mode = m ELSE HasGranted(q, u, m)
    BY <1>1, <1>2 DEF HasGranted
  <1>5. ASSUME NEW u \in Txns, NEW m \in LockMode
        PROVE  HasAsked(g, u, m)
                 <=> IF u = t THEN ~new.granted /\ new.mode = m ELSE HasAsked(q, u, m)
    BY <1>1, <1>2 DEF HasAsked
  <1>6. QED
    BY <1>3, <1>4, <1>5 DEF Holds

LEMMA WithoutLacks ==
  ASSUME NEW q \in Seq(LockRequest), NEW t \in Txns, OneEach(q),
         NEW i \in 1 .. Len(q), q[i].txn = t, NEW g, g = Without(q, i)
  PROVE  Lacks(q, g, t)
  <1> DEFINE n == Len(q)
             From(j) == IF j < i THEN j ELSE j + 1
  <1>1. /\ n \in Nat /\ Len(g) = n - 1
        /\ \A j \in 1 .. n - 1 : g[j] = IF j < i THEN q[j] ELSE q[j + 1]
    <2>1. n \in Nat
      OBVIOUS
    <2>2. Len(Without(q, i)) = Len(q) - 1
      BY WithoutType
    <2>3. \A j \in 1 .. Len(q) - 1 : Without(q, i)[j] = IF j < i THEN q[j] ELSE q[j + 1]
      BY WithoutType
    <2>4. QED
      BY <2>1, <2>2, <2>3
  <1>2. /\ \A j \in 1 .. n - 1 : g[j] = q[From(j)]
        /\ \A j \in 1 .. n - 1 : From(j) \in 1 .. n /\ From(j) # i
        /\ \A j, k \in 1 .. n - 1 : From(j) = From(k) => j = k
    BY <1>1
  <1>3. ASSUME NEW k \in 1 .. n, k # i PROVE \E j \in 1 .. n - 1 : From(j) = k
    <2>1. CASE k < i
      BY <1>1, <2>1
    <2>2. CASE k > i
      <3>1. k - 1 \in 1 .. n - 1 /\ From(k - 1) = k
        BY <1>1, <2>2
      <3>2. QED
        BY <3>1
    <2>3. QED
      BY <1>1, <1>3, <2>1, <2>2
  <1>4. \A k \in 1 .. n : k # i => q[k].txn # t
    BY DEF OneEach
  <1> HIDE DEF n, From
  <1>5. \A k \in 1 .. n : k # i => \E j \in 1 .. n - 1 : g[j] = q[k]
    BY <1>2, <1>3
  <1>6. \A j \in 1 .. n - 1 : \E k \in 1 .. n : k # i /\ g[j] = q[k]
    BY <1>2
  <1>7. OneEach(g)
    BY <1>1, <1>2 DEF OneEach, n
  <1>8. ASSUME NEW u \in Txns, NEW m \in LockMode
        PROVE  HasGranted(g, u, m) <=> u # t /\ HasGranted(q, u, m)
    <2>1. HasGranted(q, u, m)
            <=> \E k \in 1 .. n : q[k].txn = u /\ q[k].mode = m /\ q[k].granted
      BY DEF HasGranted, n
    <2>2. HasGranted(g, u, m)
            <=> \E j \in 1 .. n - 1 : g[j].txn = u /\ g[j].mode = m /\ g[j].granted
      BY <1>1 DEF HasGranted
    <2>3. ASSUME HasGranted(g, u, m) PROVE u # t /\ HasGranted(q, u, m)
      <3>1. PICK j \in 1 .. n - 1 : g[j].txn = u /\ g[j].mode = m /\ g[j].granted
        BY <2>2, <2>3
      <3>2. PICK k \in 1 .. n : k # i /\ g[j] = q[k]
        BY <1>6
      <3>3. QED
        BY <1>4, <2>1, <3>1, <3>2
    <2>4. ASSUME u # t, HasGranted(q, u, m) PROVE HasGranted(g, u, m)
      <3>1. PICK k \in 1 .. n : q[k].txn = u /\ q[k].mode = m /\ q[k].granted
        BY <2>1, <2>4
      <3>2. PICK j \in 1 .. n - 1 : g[j] = q[k]
        BY <1>5, <2>4, <3>1
      <3>3. QED
        BY <2>2, <3>1, <3>2
    <2>5. QED
      BY <2>3, <2>4
  <1>9. ASSUME NEW u \in Txns, NEW m \in LockMode
        PROVE  HasAsked(g, u, m) <=> u # t /\ HasAsked(q, u, m)
    <2>1. HasAsked(q, u, m)
            <=> \E k \in 1 .. n : q[k].txn = u /\ q[k].mode = m /\ ~q[k].granted
      BY DEF HasAsked, n
    <2>2. HasAsked(g, u, m)
            <=> \E j \in 1 .. n - 1 : g[j].txn = u /\ g[j].mode = m /\ ~g[j].granted
      BY <1>1 DEF HasAsked
    <2>3. ASSUME HasAsked(g, u, m) PROVE u # t /\ HasAsked(q, u, m)
      <3>1. PICK j \in 1 .. n - 1 : g[j].txn = u /\ g[j].mode = m /\ ~g[j].granted
        BY <2>2, <2>3
      <3>2. PICK k \in 1 .. n : k # i /\ g[j] = q[k]
        BY <1>6
      <3>3. QED
        BY <1>4, <2>1, <3>1, <3>2
    <2>4. ASSUME u # t, HasAsked(q, u, m) PROVE HasAsked(g, u, m)
      <3>1. PICK k \in 1 .. n : q[k].txn = u /\ q[k].mode = m /\ ~q[k].granted
        BY <2>1, <2>4
      <3>2. PICK j \in 1 .. n - 1 : g[j] = q[k]
        BY <1>5, <2>4, <3>1
      <3>3. QED
        BY <2>2, <3>1, <3>2
    <2>5. QED
      BY <2>3, <2>4
  <1>10. QED
    BY <1>7, <1>8, <1>9 DEF Lacks

\* Unlock takes the one request of t out of the queue, if there is one.
LEMMA RemoveLacks ==
  ASSUME NEW q \in Seq(LockRequest), NEW t \in Txns, OneEach(q)
  PROVE  Lacks(q, RemoveRequest(q, t), t)
  <1>1. CASE \E i \in 1 .. Len(q) : IsFirst(q, i, t, FALSE)
    <2> DEFINE k == CHOOSE i \in 1 .. Len(q) : IsFirst(q, i, t, FALSE)
    <2>1. k \in 1 .. Len(q) /\ IsFirst(q, k, t, FALSE)
      BY <1>1
    <2>2. RemoveRequest(q, t) = Without(q, k)
      BY <1>1 DEF RemoveRequest
    <2> HIDE DEF k
    <2>3. q[k].txn = t
      BY <2>1 DEF IsFirst
    <2>4. QED
      BY <2>1, <2>2, <2>3, WithoutLacks
  <1>2. CASE ~\E i \in 1 .. Len(q) : IsFirst(q, i, t, FALSE)
    <2>1. RemoveRequest(q, t) = q
      BY <1>2 DEF RemoveRequest
    <2>2. Absent(q, t)
      <3> SUFFICES ASSUME NEW i \in 1 .. Len(q), q[i].txn = t PROVE FALSE
        BY DEF Absent
      <3>1. \A j \in 1 .. i - 1 : j \in 1 .. Len(q) /\ j # i
        OBVIOUS
      <3>2. IsFirst(q, i, t, FALSE)
        BY <3>1 DEF IsFirst, OneEach
      <3>3. QED
        BY <1>2, <3>2
    <2>3. QED
      BY <2>1, <2>2 DEF Lacks, Absent, HasGranted, HasAsked
  <1>3. QED
    BY <1>1, <1>2

-----------------------------------------------------------------------------
(* The invariant.                                                          *)

Asked(t, r, m) == HasAsked(queue[r], t, m)

Ended(t) == ending[t] \notin {"unborn", "running"}

\* A transaction has at most one request in a queue.
OneRequest == \A r \in Rids : OneEach(queue[r])

\* The compatibility matrix.
Compatible ==
  \A t, u \in Txns, r \in Rids, m \in LockMode :
    Granted(t, r, "EXCLUSIVE") /\ Granted(u, r, m) => t = u

\* What is granted is in the lock set of its mode; the shared set may also
\* have the resource of an upgrade that waits or was given up.
GrantsAreHeld ==
  \A t \in Txns, r \in Rids :
    /\ Granted(t, r, "SHARED") => r \in sharedSet[t]
    /\ Granted(t, r, "EXCLUSIVE") <=> r \in exclusiveSet[t]

\* A thread waits in one call.
OneWait ==
  \A t \in Txns, r, s \in Rids : waits[r][t] # "no" /\ waits[s][t] # "no" => r = s

\* Whoever waits holds nothing there and has asked for what it waits for, unless
\* it upgrades: the release loop of an Abort may have removed that request.
WaitersAsk ==
  \A t \in Txns, r \in Rids :
    /\ waits[r][t] # "no" => \A m \in LockMode : ~Granted(t, r, m)
    /\ waits[r][t] = "shared" => Asked(t, r, "SHARED") /\ r \notin sharedSet[t]
    /\ waits[r][t] = "exclusive" => Asked(t, r, "EXCLUSIVE") /\ r \notin sharedSet[t]

\* A request that is not granted is waited for, or is what an aborted upgrade left.
AskersWait ==
  \A t \in Txns, r \in Rids :
    /\ Asked(t, r, "SHARED") => waits[r][t] = "shared"
    /\ Asked(t, r, "EXCLUSIVE") =>
         \/ waits[r][t] = "exclusive" \/ waits[r][t] = "upgrade"
         \/ txnState[t] = "ABORTED" /\ Ended(t)

Disjoint == \A t \in Txns, r \in Rids : ~(r \in sharedSet[t] /\ r \in exclusiveSet[t])

\* Somebody has been granted what a waiter of t's kind cannot share.
Blocked(t, r) ==
  IF waits[r][t] = "shared" THEN \E u \in Txns : Granted(u, r, "EXCLUSIVE")
  ELSE \E u \in Txns, m \in LockMode : u # t /\ Granted(u, r, m)

SleepersAreBlocked ==
  \A t \in Txns, r \in Rids : waits[r][t] # "no" /\ t \notin awake => Blocked(t, r)

\* Without upgrades the lock sets and the queues tell exactly the same story.
PlainLocks ==
  "upgrade" \notin Calls =>
    \A t \in Txns, r \in Rids :
      /\ waits[r][t] # "upgrade"
      /\ r \in sharedSet[t] => Granted(t, r, "SHARED")
      /\ Asked(t, r, "EXCLUSIVE") => waits[r][t] = "exclusive"

Locks ==
  /\ OneRequest /\ Compatible /\ GrantsAreHeld /\ Disjoint
  /\ OneWait /\ WaitersAsk /\ AskersWait /\ SleepersAreBlocked /\ PlainLocks

\* A waiting transaction grows until it is aborted, and whoever is past the
\* state change of Commit or Abort is in the state it set.
States ==
  \A t \in Txns :
    /\ Ended(t) => txnState[t] = "ABORTED" \/ txnState[t] = "COMMITTED"
    /\ \A r \in Rids : waits[r][t] # "no" =>
         txnState[t] = "GROWING" \/ (txnState[t] = "ABORTED" /\ Ended(t))

\* What the release loops have emptied, while the process lives.
Phases ==
  \A t \in Txns, r \in Rids :
    /\ ending[t] = "done" => r \notin sharedSet[t] /\ r \notin exclusiveSet[t]
    /\ ~crashed /\ (ending[t] = "exclusive" \/ ending[t] = "clear") => r \notin sharedSet[t]
    /\ ~crashed /\ ending[t] = "clear" => r \notin exclusiveSet[t]

MInv == TMTypeOK /\ Locks /\ States /\ Phases

-----------------------------------------------------------------------------
(* How a step changes the request of one transaction in one queue.         *)

Untouched(t, r) ==
  \A u \in Txns, s \in Rids, m \in LockMode :
    ~(u = t /\ s = r) => /\ Granted(u, s, m)' <=> Granted(u, s, m)
                         /\ Asked(u, s, m)' <=> Asked(u, s, m)

Takes(t, r, m) ==
  /\ OneRequest' /\ Untouched(t, r)
  /\ \A k \in LockMode : (Granted(t, r, k)' <=> k = m) /\ ~Asked(t, r, k)'

Asks(t, r, m) ==
  /\ OneRequest' /\ Untouched(t, r)
  /\ \A k \in LockMode : (Asked(t, r, k)' <=> k = m) /\ ~Granted(t, r, k)'

Loses(t, r) ==
  /\ OneRequest' /\ Untouched(t, r)
  /\ \A k \in LockMode : ~Granted(t, r, k)' /\ ~Asked(t, r, k)'

LEMMA HoldsView ==
  ASSUME TypeOK, OneRequest, NEW t \in Txns, NEW r \in Rids, NEW g, NEW new \in LockRequest,
         queue' = [queue EXCEPT ![r] = g], Holds(queue[r], g, t, new)
  PROVE  IF new.granted THEN Takes(t, r, new.mode) ELSE Asks(t, r, new.mode)
  <1>1. queue'[r] = g /\ \A s \in Rids : s # r => queue'[s] = queue[s]
    BY DEF TypeOK
  <1>2. OneRequest'
    BY <1>1 DEF OneRequest, Holds
  <1>3. ASSUME NEW u \in Txns, NEW s \in Rids, NEW m \in LockMode
        PROVE  /\ Granted(u, s, m)' <=> HasGranted(queue'[s], u, m)
               /\ Granted(u, s, m) <=> HasGranted(queue[s], u, m)
               /\ Asked(u, s, m)' <=> HasAsked(queue'[s], u, m)
               /\ Asked(u, s, m) <=> HasAsked(queue[s], u, m)
    BY DEF Granted, HasGranted, Asked
  <1>4. Untouched(t, r)
    <2> SUFFICES ASSUME NEW u \in Txns, NEW s \in Rids, NEW m \in LockMode, ~(u = t /\ s = r)
                 PROVE  /\ Granted(u, s, m)' <=> Granted(u, s, m)
                        /\ Asked(u, s, m)' <=> Asked(u, s, m)
      BY DEF Untouched
    <2>1. CASE s # r
      BY <2>1, <1>1, <1>3
    <2>2. CASE s = r /\ u # t
      BY <2>2, <1>1, <1>3 DEF Holds
    <2>3. QED
      BY <2>1, <2>2
  <1>5. ASSUME NEW k \in LockMode
        PROVE  /\ Granted(t, r, k)' <=> new.granted /\ new.mode = k
               /\ Asked(t, r, k)' <=> ~new.granted /\ new.mode = k
    BY <1>1, <1>3 DEF Holds
  <1>6. QED
    BY <1>2, <1>4, <1>5 DEF Takes, Asks

LEMMA LacksView ==
  ASSUME TypeOK, OneRequest, NEW t \in Txns, NEW r \in Rids, NEW g,
         queue' = [queue EXCEPT ![r] = g], Lacks(queue[r], g, t)
  PROVE  Loses(t, r)
  <1>1. queue'[r] = g /\ \A s \in Rids : s # r => queue'[s] = queue[s]
    BY DEF TypeOK
  <1>2. OneRequest'
    BY <1>1 DEF OneRequest, Lacks
  <1>3. ASSUME NEW u \in Txns, NEW s \in Rids, NEW m \in LockMode
        PROVE  /\ Granted(u, s, m)' <=> HasGranted(queue'[s], u, m)
               /\ Granted(u, s, m) <=> HasGranted(queue[s], u, m)
               /\ Asked(u, s, m)' <=> HasAsked(queue'[s], u, m)
               /\ Asked(u, s, m) <=> HasAsked(queue[s], u, m)
    BY DEF Granted, HasGranted, Asked
  <1>4. Untouched(t, r)
    <2> SUFFICES ASSUME NEW u \in Txns, NEW s \in Rids, NEW m \in LockMode, ~(u = t /\ s = r)
                 PROVE  /\ Granted(u, s, m)' <=> Granted(u, s, m)
                        /\ Asked(u, s, m)' <=> Asked(u, s, m)
      BY DEF Untouched
    <2>1. CASE s # r
      BY <2>1, <1>1, <1>3
    <2>2. CASE s = r /\ u # t
      BY <2>2, <1>1, <1>3 DEF Lacks
    <2>3. QED
      BY <2>1, <2>2
  <1>5. ASSUME NEW k \in LockMode PROVE ~Granted(t, r, k)' /\ ~Asked(t, r, k)'
    BY <1>1, <1>3 DEF Lacks
  <1>6. QED
    BY <1>2, <1>4, <1>5 DEF Loses

LEMMA Modes == "SHARED" \in LockMode /\ "EXCLUSIVE" \in LockMode /\
               \A m \in LockMode : m = "SHARED" \/ m = "EXCLUSIVE"
  BY DEF LockMode

\* The requests in a queue are what Granted and Asked speak of.
LEMMA RequestsAreSeen ==
  ASSUME TypeOK, NEW r \in Rids, NEW i \in 1 .. Len(queue[r])
  PROVE  \E t \in Txns, m \in LockMode :
           /\ queue[r][i].txn = t /\ queue[r][i].mode = m
           /\ queue[r][i].granted => Granted(t, r, m)
           /\ ~queue[r][i].granted => Asked(t, r, m)
  <1>1. queue[r][i] \in LockRequest
    BY DEF TypeOK
  <1>2. queue[r][i].txn \in Txns /\ queue[r][i].mode \in LockMode
    BY <1>1 DEF LockRequest
  <1>3. QED
    BY <1>2 DEF Granted, Asked, HasAsked

\* The wait predicates in the same terms.
LEMMA Predicates ==
  ASSUME TypeOK, NEW t \in Txns, NEW r \in Rids
  PROVE  /\ NoExclusiveGranted(queue[r]) <=> \A u \in Txns : ~Granted(u, r, "EXCLUSIVE")
         /\ NoOtherGranted(queue[r], t)
              <=> \A u \in Txns, m \in LockMode : u # t => ~Granted(u, r, m)
  <1>1. ASSUME NoExclusiveGranted(queue[r]) PROVE \A u \in Txns : ~Granted(u, r, "EXCLUSIVE")
    BY <1>1 DEF NoExclusiveGranted, Granted
  <1>2. ASSUME \A u \in Txns : ~Granted(u, r, "EXCLUSIVE") PROVE NoExclusiveGranted(queue[r])
    BY <1>2, RequestsAreSeen, Modes DEF NoExclusiveGranted
  <1>3. ASSUME NoOtherGranted(queue[r], t)
        PROVE  \A u \in Txns, m \in LockMode : u # t => ~Granted(u, r, m)
    BY <1>3 DEF NoOtherGranted, Granted
  <1>4. ASSUME \A u \in Txns, m \in LockMode : u # t => ~Granted(u, r, m)
        PROVE  NoOtherGranted(queue[r], t)
    BY <1>4, RequestsAreSeen DEF NoOtherGranted
  <1>5. QED
    BY <1>1, <1>2, <1>3, <1>4

\* A request that is not granted changes neither predicate.
LEMMA AppendedPredicates ==
  ASSUME NEW q \in Seq(LockRequest), NEW t \in Txns, NEW m \in LockMode,
         NEW a, a = Append(q, Request(t, m))
  PROVE  /\ NoExclusiveGranted(a) <=> NoExclusiveGranted(q)
         /\ NoOtherGranted(a, t) <=> NoOtherGranted(q, t)
  <1> DEFINE n == Len(q)
  <1>1. Len(a) = n + 1 /\ (\A i \in 1 .. n : a[i] = q[i]) /\ a[n + 1] = Request(t, m)
    BY AppendedRequest
  <1>2. n \in Nat /\ ~a[n + 1].granted
    BY <1>1 DEF Request
  <1>3. /\ \A i \in 1 .. n + 1 : i \in 1 .. n \/ i = n + 1
        /\ \A i \in 1 .. n : i \in 1 .. n + 1
    BY <1>2
  <1> HIDE DEF n
  <1>4. NoExclusiveGranted(a) <=> NoExclusiveGranted(q)
    BY <1>1, <1>2, <1>3 DEF NoExclusiveGranted, n
  <1>5. NoOtherGranted(a, t) <=> NoOtherGranted(q, t)
    BY <1>1, <1>2, <1>3 DEF NoOtherGranted, n
  <1>6. QED
    BY <1>4, <1>5

-----------------------------------------------------------------------------
(* The three changes keep the invariant of the locks.                      *)

\* t is granted r in mode m, at once or after a wait.
LEMMA TakeKeeps ==
  ASSUME TypeOK, Locks, NEW t \in Txns, NEW r \in Rids, NEW m \in LockMode, Takes(t, r, m),
         m = "SHARED" => \A u \in Txns : ~Granted(u, r, "EXCLUSIVE"),
         m = "EXCLUSIVE" => \A u \in Txns, k \in LockMode : u # t => ~Granted(u, r, k),
         txnState' = txnState, ending' = ending,
         \A u \in Txns, s \in Rids :
           /\ waits'[s][u] = IF u = t /\ s = r THEN "no" ELSE waits[s][u]
           /\ u = t /\ s # r => waits[s][u] = "no"
           /\ u # t /\ u \in awake => u \in awake'
           /\ ~(u = t /\ s = r) => /\ s \in sharedSet'[u] <=> s \in sharedSet[u]
                                   /\ s \in exclusiveSet'[u] <=> s \in exclusiveSet[u],
         r \in sharedSet'[t] <=> m = "SHARED",
         r \in exclusiveSet'[t] <=> m = "EXCLUSIVE"
  PROVE  Locks'
  <1>1. OneRequest'
    BY DEF Takes
  <1>2. \A u \in Txns, s \in Rids, k \in LockMode :
          /\ Granted(u, s, k)' <=> IF u = t /\ s = r THEN k = m ELSE Granted(u, s, k)
          /\ Asked(u, s, k)' <=> ~(u = t /\ s = r) /\ Asked(u, s, k)
    BY DEF Takes, Untouched
  <1>3. Compatible'
    BY <1>2, Modes DEF Locks, Compatible
  <1>4. GrantsAreHeld'
    BY <1>2, Modes DEF Locks, GrantsAreHeld
  <1>5. Disjoint'
    BY DEF Locks, Disjoint
  <1>6. OneWait'
    BY DEF Locks, OneWait
  <1>7. WaitersAsk'
    BY <1>2, Modes DEF Locks, WaitersAsk
  <1>8. AskersWait'
    <2>1. \A u \in Txns : Ended(u)' <=> Ended(u)
      BY DEF Ended
    <2>2. QED
      BY <1>2, <2>1, Modes DEF Locks, AskersWait
  <1>9. SleepersAreBlocked'
    <2> SUFFICES ASSUME NEW u \in Txns, NEW s \in Rids, waits'[s][u] # "no", u \notin awake'
                 PROVE  Blocked(u, s)'
      BY DEF SleepersAreBlocked
    <2>1. u # t /\ waits'[s][u] = waits[s][u] /\ u \notin awake /\ Blocked(u, s)
      BY DEF Locks, SleepersAreBlocked
    <2>2. CASE waits[s][u] = "shared"
      <3>1. PICK v \in Txns : Granted(v, s, "EXCLUSIVE")
        BY <2>1, <2>2 DEF Blocked
      <3>2. Granted(v, s, "EXCLUSIVE")'
        BY <1>2, <3>1, Modes
      <3>3. QED
        BY <2>1, <2>2, <3>2 DEF Blocked
    <2>3. CASE waits[s][u] # "shared"
      <3>1. PICK v \in Txns, k \in LockMode : v # u /\ Granted(v, s, k)
        BY <2>1, <2>3 DEF Blocked
      <3>2. Granted(v, s, k)' \/ Granted(v, s, m)'
        BY <1>2, <3>1
      <3>3. QED
        BY <2>1, <2>3, <3>1, <3>2 DEF Blocked
    <2>4. QED
      BY <2>2, <2>3
  <1>10. PlainLocks'
    BY <1>2, Modes DEF Locks, PlainLocks
  <1>11. QED
    BY <1>1, <1>3, <1>4, <1>5, <1>6, <1>7, <1>8, <1>9, <1>10 DEF Locks

\* t asks for r in mode m and goes to sleep.
LEMMA AskKeeps ==
  ASSUME TypeOK, Locks, NEW t \in Txns, NEW r \in Rids, NEW m \in LockMode, NEW kind,
         Asks(t, r, m),
         \/ kind = "shared" /\ m = "SHARED" /\ r \notin sharedSet[t]
         \/ kind = "exclusive" /\ m = "EXCLUSIVE" /\ r \notin sharedSet[t]
         \/ kind = "upgrade" /\ m = "EXCLUSIVE" /\ "upgrade" \in Calls,
         r \notin exclusiveSet[t],
         IF m = "SHARED" THEN \E u \in Txns : u # t /\ Granted(u, r, "EXCLUSIVE")
         ELSE \E u \in Txns, k \in LockMode : u # t /\ Granted(u, r, k),
         txnState' = txnState, ending' = ending, awake' = awake,
         sharedSet' = sharedSet, exclusiveSet' = exclusiveSet,
         \A u \in Txns, s \in Rids :
           /\ waits'[s][u] = IF u = t /\ s = r THEN kind ELSE waits[s][u]
           /\ u = t => waits[s][u] = "no"
  PROVE  Locks'
  <1>1. OneRequest'
    BY DEF Asks
  <1>2. \A u \in Txns, s \in Rids, k \in LockMode :
          /\ Granted(u, s, k)' <=> ~(u = t /\ s = r) /\ Granted(u, s, k)
          /\ Asked(u, s, k)' <=> IF u = t /\ s = r THEN k = m ELSE Asked(u, s, k)
    BY DEF Asks, Untouched
  <1>3. Compatible'
    BY <1>2, Modes DEF Locks, Compatible
  <1>4. GrantsAreHeld'
    BY <1>2, Modes DEF Locks, GrantsAreHeld
  <1>5. Disjoint'
    BY DEF Locks, Disjoint
  <1>6. OneWait'
    BY DEF Locks, OneWait
  <1>7. WaitersAsk'
    BY <1>2, Modes DEF Locks, WaitersAsk
  <1>8. AskersWait'
    <2>1. \A u \in Txns : Ended(u)' <=> Ended(u)
      BY DEF Ended
    <2>2. QED
      BY <1>2, <2>1, Modes DEF Locks, AskersWait
  <1>9. SleepersAreBlocked'
    <2> SUFFICES ASSUME NEW u \in Txns, NEW s \in Rids, waits'[s][u] # "no", u \notin awake'
                 PROVE  Blocked(u, s)'
      BY DEF SleepersAreBlocked
    <2>1. CASE u = t
      <3>1. s = r /\ waits'[s][u] = kind
        BY <2>1
      <3>2. CASE m = "SHARED"
        BY <1>2, <2>1, <3>1, <3>2, Modes DEF Blocked
      <3>3. CASE m = "EXCLUSIVE"
        BY <1>2, <2>1, <3>1, <3>3, Modes DEF Blocked
      <3>4. QED
        BY <3>2, <3>3, Modes
    <2>2. CASE u # t
      <3>1. waits'[s][u] = waits[s][u] /\ Blocked(u, s)
        BY <2>2 DEF Locks, SleepersAreBlocked
      <3>2. CASE waits[s][u] = "shared"
        <4>1. PICK v \in Txns : Granted(v, s, "EXCLUSIVE")
          BY <3>1, <3>2 DEF Blocked
        <4>2. ~(v = t /\ s = r)
          BY <4>1 DEF Locks, GrantsAreHeld
        <4>3. QED
          BY <1>2, <3>1, <3>2, <4>1, <4>2, Modes DEF Blocked
      <3>3. CASE waits[s][u] # "shared"
        <4>1. PICK v \in Txns, k \in LockMode : v # u /\ Granted(v, s, k)
          BY <3>1, <3>3 DEF Blocked
        <4>2. CASE ~(v = t /\ s = r)
          BY <1>2, <3>1, <3>3, <4>1, <4>2 DEF Blocked
        <4>3. CASE v = t /\ s = r
          <5>1. \E w \in Txns, l \in LockMode : w # t /\ Granted(w, r, l)
            BY Modes
          <5>2. PICK w \in Txns, l \in LockMode : w # t /\ Granted(w, r, l)
            BY <5>1
          <5>3. w # u
            BY <3>1, <4>3, <5>2 DEF Locks, WaitersAsk
          <5>4. Granted(w, s, l)'
            BY <1>2, <4>3, <5>2
          <5>5. QED
            BY <3>1, <3>3, <5>3, <5>4 DEF Blocked
        <4>4. QED
          BY <4>2, <4>3
      <3>4. QED
        BY <3>2, <3>3
    <2>3. QED
      BY <2>1, <2>2
  <1>10. PlainLocks'
    BY <1>2, Modes DEF Locks, PlainLocks
  <1>11. QED
    BY <1>1, <1>3, <1>4, <1>5, <1>6, <1>7, <1>8, <1>9, <1>10 DEF Locks

\* t gives r back and the waiters of r are notified.
LEMMA GiveBackKeeps ==
  ASSUME TypeOK, Locks, NEW t \in Txns, NEW r \in Rids, Loses(t, r),
         waits' = waits, awake' = Notify(r),
         waits[r][t] = "no" \/ waits[r][t] = "upgrade",
         \A u \in Txns : txnState[u] = "ABORTED" => txnState'[u] = "ABORTED",
         \A u \in Txns : Ended(u) => Ended(u)',
         \A u \in Txns, s \in Rids :
           /\ s \in sharedSet'[u] <=> s \in sharedSet[u] /\ ~(u = t /\ s = r)
           /\ s \in exclusiveSet'[u] <=> s \in exclusiveSet[u] /\ ~(u = t /\ s = r)
  PROVE  Locks'
  <1>1. OneRequest'
    BY DEF Loses
  <1>2. \A u \in Txns, s \in Rids, k \in LockMode :
          /\ Granted(u, s, k)' <=> ~(u = t /\ s = r) /\ Granted(u, s, k)
          /\ Asked(u, s, k)' <=> ~(u = t /\ s = r) /\ Asked(u, s, k)
    BY DEF Loses, Untouched
  <1>3. Compatible'
    BY <1>2, Modes DEF Locks, Compatible
  <1>4. GrantsAreHeld'
    BY <1>2, Modes DEF Locks, GrantsAreHeld
  <1>5. Disjoint'
    BY DEF Locks, Disjoint
  <1>6. OneWait'
    BY DEF Locks, OneWait
  <1>7. WaitersAsk'
    BY <1>2, Modes DEF Locks, WaitersAsk
  <1>8. AskersWait'
    BY <1>2, Modes DEF Locks, AskersWait
  <1>9. SleepersAreBlocked'
    <2> SUFFICES ASSUME NEW u \in Txns, NEW s \in Rids, waits'[s][u] # "no", u \notin awake'
                 PROVE  Blocked(u, s)'
      BY DEF SleepersAreBlocked
    <2>1. s # r /\ waits[s][u] # "no" /\ u \notin awake
      BY DEF Notify
    <2>2. Blocked(u, s)
      BY <2>1 DEF Locks, SleepersAreBlocked
    <2>3. QED
      BY <1>2, <2>1, <2>2, Modes DEF Blocked
  <1>10. PlainLocks'
    BY <1>2, Modes DEF Locks, PlainLocks
  <1>11. QED
    BY <1>1, <1>3, <1>4, <1>5, <1>6, <1>7, <1>8, <1>9, <1>10 DEF Locks

\* An aborted waiter leaves the queue of r, in which it holds nothing.
LEMMA WithdrawKeeps ==
  ASSUME TypeOK, Locks, NEW t \in Txns, NEW r \in Rids, Loses(t, r),
         waits[r][t] # "no", awake' = awake \ {t},
         txnState' = txnState, ending' = ending,
         sharedSet' = sharedSet, exclusiveSet' = exclusiveSet,
         \A u \in Txns, s \in Rids :
           /\ waits'[s][u] = IF u = t /\ s = r THEN "no" ELSE waits[s][u]
           /\ u = t /\ s # r => waits[s][u] = "no"
  PROVE  Locks'
  <1>1. OneRequest'
    BY DEF Loses
  <1>2. \A u \in Txns, s \in Rids, k \in LockMode :
          /\ Granted(u, s, k)' <=> Granted(u, s, k)
          /\ Asked(u, s, k)' <=> ~(u = t /\ s = r) /\ Asked(u, s, k)
    BY DEF Loses, Untouched, Locks, WaitersAsk
  <1>3. Compatible'
    BY <1>2, Modes DEF Locks, Compatible
  <1>4. GrantsAreHeld'
    BY <1>2, Modes DEF Locks, GrantsAreHeld
  <1>5. Disjoint'
    BY DEF Locks, Disjoint
  <1>6. OneWait'
    BY DEF Locks, OneWait
  <1>7. WaitersAsk'
    BY <1>2, Modes DEF Locks, WaitersAsk
  <1>8. AskersWait'
    <2>1. \A u \in Txns : Ended(u)' <=> Ended(u)
      BY DEF Ended
    <2>2. QED
      BY <1>2, <2>1, Modes DEF Locks, AskersWait
  <1>9. SleepersAreBlocked'
    <2> SUFFICES ASSUME NEW u \in Txns, NEW s \in Rids, waits'[s][u] # "no", u \notin awake'
                 PROVE  Blocked(u, s)'
      BY DEF SleepersAreBlocked
    <2>1. u # t /\ waits'[s][u] = waits[s][u] /\ u \notin awake
      OBVIOUS
    <2>2. Blocked(u, s)
      BY <2>1 DEF Locks, SleepersAreBlocked
    <2>3. QED
      BY <1>2, <2>1, <2>2, Modes DEF Blocked
  <1>10. PlainLocks'
    BY <1>2, Modes DEF Locks, PlainLocks
  <1>11. QED
    BY <1>1, <1>3, <1>4, <1>5, <1>6, <1>7, <1>8, <1>9, <1>10 DEF Locks

\* Nothing happens to the queues, the lock sets and the waiting calls.
LEMMA QuietKeeps ==
  ASSUME TypeOK, Locks, queue' = queue, waits' = waits,
         sharedSet' = sharedSet, exclusiveSet' = exclusiveSet,
         \A u \in Txns : Ended(u) /\ txnState[u] = "ABORTED"
                          => Ended(u)' /\ txnState'[u] = "ABORTED",
         \A u \in Txns, s \in Rids :
           u \in awake /\ u \notin awake' /\ waits[s][u] # "no" => Blocked(u, s)
  PROVE  Locks'
  <1>1. \A u \in Txns, s \in Rids, k \in LockMode :
          (Granted(u, s, k)' <=> Granted(u, s, k)) /\ (Asked(u, s, k)' <=> Asked(u, s, k))
    BY DEF Granted, Asked
  <1>2. OneRequest' /\ Disjoint' /\ OneWait'
    BY DEF Locks, OneRequest, Disjoint, OneWait
  <1>3. Compatible'
    BY <1>1, Modes DEF Locks, Compatible
  <1>4. GrantsAreHeld'
    BY <1>1, Modes DEF Locks, GrantsAreHeld
  <1>5. WaitersAsk'
    BY <1>1, Modes DEF Locks, WaitersAsk
  <1>6. AskersWait'
    BY <1>1, Modes DEF Locks, AskersWait
  <1>7. SleepersAreBlocked'
    BY <1>1, Modes DEF Locks, SleepersAreBlocked, Blocked
  <1>8. PlainLocks'
    BY <1>1, Modes DEF Locks, PlainLocks
  <1>9. QED
    BY <1>2, <1>3, <1>4, <1>5, <1>6, <1>7, <1>8 DEF Locks

-----------------------------------------------------------------------------
(* The calls.                                                              *)

\* A growing thread in no call has no request where it holds nothing.
LEMMA NoRequest ==
  ASSUME TypeOK, Locks, NEW t \in Txns, NEW r \in Rids, Idle(t), txnState[t] = "GROWING",
         r \notin sharedSet[t], r \notin exclusiveSet[t]
  PROVE  Absent(queue[r], t)
  <1>1. \A m \in LockMode : ~Granted(t, r, m)
    BY Modes DEF Locks, GrantsAreHeld
  <1>2. \A m \in LockMode : ~Asked(t, r, m)
    BY Modes DEF Locks, AskersWait, Idle
  <1>3. QED
    BY <1>1, <1>2, RequestsAreSeen DEF Absent

GrantedTo(t, m) == [Request(t, m) EXCEPT !.granted = TRUE]

LEMMA GrantNewTakes ==
  ASSUME TypeOK, OneRequest, NEW t \in Txns, NEW r \in Rids, NEW m \in LockMode,
         NEW a, a = Append(queue[r], Request(t, m)), Absent(queue[r], t), GrantNew(t, r, a)
  PROVE  Takes(t, r, m)
  <1> DEFINE q == queue[r]
             new == GrantedTo(t, m)
             g == [a EXCEPT ![Len(a)].granted = TRUE]
  <1>1. q \in Seq(LockRequest) /\ OneEach(q)
    BY DEF TypeOK, OneRequest
  <1>2. new \in LockRequest /\ new.txn = t /\ new.mode = m /\ new.granted
    BY DEF LockRequest, GrantedTo, Request
  <1>3. Request(t, m) \in LockRequest /\ Request(t, m).txn = t
    BY RequestType DEF Request
  <1>4. Len(a) = Len(q) + 1 /\ a[Len(q) + 1] = Request(t, m) /\ a \in Seq(LockRequest)
    BY <1>1, AppendedRequest
  <1>5. Holds(q, a, t, Request(t, m))
    BY <1>1, <1>3, AppendHolds
  <1>6. Len(a) \in 1 .. Len(a) /\ a[Len(a)] = Request(t, m)
    BY <1>1, <1>4
  <1>7. [Request(t, m) EXCEPT !.granted = TRUE] = new
    BY DEF GrantedTo
  <1>8. g = [a EXCEPT ![Len(a)] = new]
    BY <1>6, <1>7
  <1>9. OneEach(a)
    BY <1>5 DEF Holds
  <1> HIDE DEF q, new, g
  <1>10. Holds(a, g, t, new)
    BY <1>2, <1>3, <1>4, <1>6, <1>8, <1>9, ReplaceHolds
  <1>11. Holds(q, g, t, new)
    BY <1>5, <1>10 DEF Holds
  <1>12. queue' = [queue EXCEPT ![r] = g]
    BY DEF GrantNew, g
  <1>13. QED
    BY <1>2, <1>11, <1>12, HoldsView DEF q

LEMMA SleepAsks ==
  ASSUME TypeOK, OneRequest, NEW t \in Txns, NEW r \in Rids, NEW m \in LockMode, NEW kind,
         NEW a, a = Append(queue[r], Request(t, m)), Absent(queue[r], t), Sleep(t, r, a, kind)
  PROVE  Asks(t, r, m)
  <1>1. queue[r] \in Seq(LockRequest) /\ OneEach(queue[r])
    BY DEF TypeOK, OneRequest
  <1>2. /\ Request(t, m) \in LockRequest /\ Request(t, m).txn = t
        /\ Request(t, m).mode = m /\ ~Request(t, m).granted
    BY RequestType DEF Request
  <1>3. Holds(queue[r], a, t, Request(t, m))
    BY <1>1, <1>2, AppendHolds
  <1>4. queue' = [queue EXCEPT ![r] = a]
    BY DEF Sleep
  <1>5. QED
    BY <1>2, <1>3, <1>4, HoldsView

\* Lock calls leave the life of transactions alone, and what others hold.
LEMMA RunningKeeps ==
  ASSUME MInv, NEW t \in Txns, txnState[t] = "GROWING",
         txnState' = txnState, ending' = ending, crashed' = crashed,
         \A u \in Txns : u # t => sharedSet'[u] = sharedSet[u] /\ exclusiveSet'[u] = exclusiveSet[u],
         \A u \in Txns, s \in Rids : u # t => waits'[s][u] = waits[s][u]
  PROVE  Phases'
  <1>1. ~Ended(t)
    BY DEF MInv, States
  <1>2. ending[t] # "done" /\ ending[t] # "exclusive" /\ ending[t] # "clear"
    BY <1>1, Zenon DEF Ended
  <1>3. QED
    BY <1>2 DEF MInv, Phases

LEMMA LockSharedKeepsLocks ==
  ASSUME MInv, NEW t \in Txns, NEW r \in Rids, LockShared(t, r), UNCHANGED <<ending, crashed>>
  PROVE  Locks' /\ Phases'
  <1> DEFINE a == Append(queue[r], Request(t, "SHARED"))
  <1>1. /\ TypeOK /\ Locks /\ OneRequest /\ Idle(t) /\ txnState[t] = "GROWING"
        /\ r \notin sharedSet[t] /\ r \notin exclusiveSet[t]
        /\ txnState' = txnState /\ exclusiveSet' = exclusiveSet
        /\ ending' = ending /\ crashed' = crashed
        /\ \/ /\ NoExclusiveGranted(a) /\ GrantNew(t, r, a)
              /\ sharedSet' = [sharedSet EXCEPT ![t] = sharedSet[t] \cup {r}]
           \/ /\ ~NoExclusiveGranted(a) /\ Sleep(t, r, a, "shared")
              /\ sharedSet' = sharedSet
    BY DEF LockShared, MInv, TMTypeOK, Locks
  <1>2. a = Append(queue[r], Request(t, "SHARED")) /\ queue[r] \in Seq(LockRequest)
    BY <1>1 DEF TypeOK
  <1> HIDE DEF a
  <1>3. Absent(queue[r], t)
    BY <1>1, NoRequest
  <1>4. NoExclusiveGranted(a) <=> \A u \in Txns : ~Granted(u, r, "EXCLUSIVE")
    <2>1. "SHARED" \in LockMode /\ TypeOK
      BY <1>1, Modes
    <2>2. NoExclusiveGranted(a) <=> NoExclusiveGranted(queue[r])
      <3>1. \A b : \A q \in Seq(LockRequest), m \in LockMode :
              b = Append(q, Request(t, m))
                => /\ NoExclusiveGranted(b) <=> NoExclusiveGranted(q)
                   /\ NoOtherGranted(b, t) <=> NoOtherGranted(q, t)
        BY AppendedPredicates, Zenon
      <3>2. QED
        BY <1>2, <2>1, <3>1
    <2>3. NoExclusiveGranted(queue[r]) <=> \A u \in Txns : ~Granted(u, r, "EXCLUSIVE")
      BY <2>1, Predicates
    <2>4. QED
      BY <2>2, <2>3
  <1>5. \A s \in Rids : waits[s][t] = "no"
    BY <1>1 DEF Idle
  <1>6. CASE /\ NoExclusiveGranted(a) /\ GrantNew(t, r, a)
             /\ sharedSet' = [sharedSet EXCEPT ![t] = sharedSet[t] \cup {r}]
    <2>1. Takes(t, r, "SHARED") /\ waits' = waits /\ awake' = awake
      BY <1>1, <1>2, <1>3, <1>6, GrantNewTakes, Modes DEF GrantNew
    <2>2. \A u \in Txns, s \in Rids :
            /\ ~(u = t /\ s = r) => (s \in sharedSet'[u] <=> s \in sharedSet[u])
            /\ r \in sharedSet'[t]
            /\ u # t => sharedSet'[u] = sharedSet[u]
      BY <1>1, <1>6 DEF TypeOK
    <2>3. Locks'
      BY <1>1, <1>4, <1>5, <1>6, <2>1, <2>2, TakeKeeps, Modes
    <2>4. QED
      BY <1>1, <2>1, <2>2, <2>3, RunningKeeps
  <1>7. CASE /\ ~NoExclusiveGranted(a) /\ Sleep(t, r, a, "shared")
             /\ sharedSet' = sharedSet
    <2>1. /\ Asks(t, r, "SHARED") /\ awake' = awake
          /\ waits' = [waits EXCEPT ![r][t] = "shared"]
      BY <1>1, <1>2, <1>3, <1>7, SleepAsks, Modes DEF Sleep
    <2>2. \A u \in Txns, s \in Rids :
            waits'[s][u] = IF s = r /\ u = t THEN "shared" ELSE waits[s][u]
      <3>1. TypeOK
        BY <1>1
      <3>2. QED
        BY <2>1, <3>1 DEF TypeOK
    <2>3. \E u \in Txns : u # t /\ Granted(u, r, "EXCLUSIVE")
      BY <1>1, <1>4, <1>7 DEF Locks, GrantsAreHeld
    <2>4. Locks'
      BY <1>1, <1>5, <1>7, <2>1, <2>2, <2>3, AskKeeps, Modes
    <2>5. QED
      BY <1>1, <1>7, <2>2, <2>4, RunningKeeps
  <1>8. QED
    BY <1>1, <1>6, <1>7

LEMMA LockExclusiveKeepsLocks ==
  ASSUME MInv, NEW t \in Txns, NEW r \in Rids, LockExclusive(t, r), "convert" \notin Calls,
         UNCHANGED <<ending, crashed>>
  PROVE  Locks' /\ Phases'
  <1> DEFINE a == Append(queue[r], Request(t, "EXCLUSIVE"))
  <1>1. /\ TypeOK /\ Locks /\ OneRequest /\ Idle(t) /\ txnState[t] = "GROWING"
        /\ r \notin sharedSet[t] /\ r \notin exclusiveSet[t]
        /\ txnState' = txnState /\ sharedSet' = sharedSet
        /\ ending' = ending /\ crashed' = crashed
        /\ \/ /\ NoOtherGranted(a, t) /\ GrantNew(t, r, a)
              /\ exclusiveSet' = [exclusiveSet EXCEPT ![t] = exclusiveSet[t] \cup {r}]
           \/ /\ ~NoOtherGranted(a, t) /\ Sleep(t, r, a, "exclusive")
              /\ exclusiveSet' = exclusiveSet
    BY DEF LockExclusive, MInv, TMTypeOK, Locks
  <1>2. a = Append(queue[r], Request(t, "EXCLUSIVE")) /\ queue[r] \in Seq(LockRequest)
    BY <1>1 DEF TypeOK
  <1> HIDE DEF a
  <1>3. Absent(queue[r], t)
    BY <1>1, NoRequest
  <1>4. NoOtherGranted(a, t) <=> \A u \in Txns, m \in LockMode : u # t => ~Granted(u, r, m)
    <2>1. "EXCLUSIVE" \in LockMode /\ TypeOK
      BY <1>1, Modes
    <2>2. NoOtherGranted(a, t) <=> NoOtherGranted(queue[r], t)
      <3>1. \A b : \A q \in Seq(LockRequest), m \in LockMode :
              b = Append(q, Request(t, m))
                => /\ NoExclusiveGranted(b) <=> NoExclusiveGranted(q)
                   /\ NoOtherGranted(b, t) <=> NoOtherGranted(q, t)
        BY AppendedPredicates, Zenon
      <3>2. QED
        BY <1>2, <2>1, <3>1
    <2>3. NoOtherGranted(queue[r], t)
            <=> \A u \in Txns, m \in LockMode : u # t => ~Granted(u, r, m)
      BY <2>1, Predicates
    <2>4. QED
      BY <2>2, <2>3
  <1>5. \A s \in Rids : waits[s][t] = "no"
    BY <1>1 DEF Idle
  <1>6. CASE /\ NoOtherGranted(a, t) /\ GrantNew(t, r, a)
             /\ exclusiveSet' = [exclusiveSet EXCEPT ![t] = exclusiveSet[t] \cup {r}]
    <2>1. Takes(t, r, "EXCLUSIVE") /\ waits' = waits /\ awake' = awake
      BY <1>1, <1>2, <1>3, <1>6, GrantNewTakes, Modes DEF GrantNew
    <2>2. \A u \in Txns, s \in Rids :
            /\ ~(u = t /\ s = r) => (s \in exclusiveSet'[u] <=> s \in exclusiveSet[u])
            /\ r \in exclusiveSet'[t]
            /\ u # t => exclusiveSet'[u] = exclusiveSet[u]
      BY <1>1, <1>6 DEF TypeOK
    <2>3. Locks'
      BY <1>1, <1>4, <1>5, <1>6, <2>1, <2>2, TakeKeeps, Modes
    <2>4. QED
      BY <1>1, <2>1, <2>2, <2>3, RunningKeeps
  <1>7. CASE /\ ~NoOtherGranted(a, t) /\ Sleep(t, r, a, "exclusive")
             /\ exclusiveSet' = exclusiveSet
    <2>1. /\ Asks(t, r, "EXCLUSIVE") /\ awake' = awake
          /\ waits' = [waits EXCEPT ![r][t] = "exclusive"]
      BY <1>1, <1>2, <1>3, <1>7, SleepAsks, Modes DEF Sleep
    <2>2. \A u \in Txns, s \in Rids :
            waits'[s][u] = IF s = r /\ u = t THEN "exclusive" ELSE waits[s][u]
      <3>1. TypeOK
        BY <1>1
      <3>2. QED
        BY <2>1, <3>1 DEF TypeOK
    <2>3. \E u \in Txns, m \in LockMode : u # t /\ Granted(u, r, m)
      BY <1>4, <1>7
    <2>4. Locks'
      BY <1>1, <1>5, <1>7, <2>1, <2>2, <2>3, AskKeeps, Modes
    <2>5. QED
      BY <1>1, <1>7, <2>2, <2>4, RunningKeeps
  <1>8. QED
    BY <1>1, <1>6, <1>7

\* An upgrade, granted at once or waiting for the other holders to leave.
LEMMA LockUpgradeKeepsLocks ==
  ASSUME MInv, NEW t \in Txns, NEW r \in Rids, LockUpgrade(t, r), UNCHANGED <<ending, crashed>>
  PROVE  Locks' /\ Phases'
  <1>1. /\ TypeOK /\ Locks /\ OneRequest /\ Idle(t) /\ txnState[t] = "GROWING"
        /\ txnState' = txnState /\ ending' = ending /\ crashed' = crashed /\ awake' = awake
    BY DEF LockUpgrade, MInv, TMTypeOK, Locks
  <1>2. PICK i \in 1 .. Len(queue[r]) :
          /\ IsFirst(queue[r], i, t, TRUE)
          /\ \/ /\ NoOtherGranted(queue[r], t)
                /\ queue' = [queue EXCEPT ![r][i].mode = "EXCLUSIVE"]
                /\ sharedSet' = [sharedSet EXCEPT ![t] = sharedSet[t] \ {r}]
                /\ exclusiveSet' = [exclusiveSet EXCEPT ![t] = exclusiveSet[t] \cup {r}]
                /\ UNCHANGED <<upgrading, waits>>
             \/ /\ ~NoOtherGranted(queue[r], t)
                /\ queue' = [queue EXCEPT ![r][i] = Request(t, "EXCLUSIVE")]
                /\ upgrading' = upgrading \cup {r}
                /\ waits' = [waits EXCEPT ![r][t] = "upgrade"]
                /\ UNCHANGED <<sharedSet, exclusiveSet>>
    BY DEF LockUpgrade
  <1>3. queue[r][i].txn = t /\ queue[r][i].granted
    BY <1>2 DEF IsFirst
  <1>4. queue[r] \in Seq(LockRequest) /\ OneEach(queue[r]) /\ queue[r][i] \in LockRequest
    BY <1>1, <1>2 DEF TypeOK, OneRequest
  <1>5. NoOtherGranted(queue[r], t) <=> \A u \in Txns, m \in LockMode : u # t => ~Granted(u, r, m)
    BY <1>1, Predicates
  <1>6. \A s \in Rids : waits[s][t] = "no"
    BY <1>1 DEF Idle
  <1>7. CASE /\ NoOtherGranted(queue[r], t)
             /\ queue' = [queue EXCEPT ![r][i].mode = "EXCLUSIVE"]
             /\ sharedSet' = [sharedSet EXCEPT ![t] = sharedSet[t] \ {r}]
             /\ exclusiveSet' = [exclusiveSet EXCEPT ![t] = exclusiveSet[t] \cup {r}]
             /\ UNCHANGED <<upgrading, waits>>
    <2> DEFINE new == [queue[r][i] EXCEPT !.mode = "EXCLUSIVE"]
               g == [queue[r] EXCEPT ![i] = new]
    <2>1. /\ new \in LockRequest /\ new.txn = t /\ new.mode = "EXCLUSIVE" /\ new.granted
      BY <1>3, <1>4, Modes DEF LockRequest
    <2>2. queue' = [queue EXCEPT ![r] = g]
      BY <1>7, <1>4
    <2> HIDE DEF new
    <2>3. Holds(queue[r], g, t, new)
      BY <1>2, <1>3, <1>4, <2>1, ReplaceHolds
    <2> HIDE DEF g
    <2>4. Takes(t, r, "EXCLUSIVE")
      BY <1>1, <2>1, <2>2, <2>3, HoldsView
    <2>5. \A u \in Txns, s \in Rids :
            /\ ~(u = t /\ s = r) => /\ s \in exclusiveSet'[u] <=> s \in exclusiveSet[u]
                                    /\ s \in sharedSet'[u] <=> s \in sharedSet[u]
            /\ r \in exclusiveSet'[t] /\ r \notin sharedSet'[t]
            /\ u # t => exclusiveSet'[u] = exclusiveSet[u] /\ sharedSet'[u] = sharedSet[u]
      BY <1>1, <1>7 DEF TypeOK
    <2>6. \A u \in Txns, k \in LockMode : u # t => ~Granted(u, r, k)
      BY <1>5, <1>7
    <2>7. waits' = waits
      BY <1>7
    <2>8. Locks'
      BY <1>1, <1>6, <2>4, <2>5, <2>6, <2>7, TakeKeeps, Modes
    <2>9. QED
      BY <1>1, <2>5, <2>7, <2>8, RunningKeeps
  <1>8. CASE /\ ~NoOtherGranted(queue[r], t)
             /\ queue' = [queue EXCEPT ![r][i] = Request(t, "EXCLUSIVE")]
             /\ upgrading' = upgrading \cup {r}
             /\ waits' = [waits EXCEPT ![r][t] = "upgrade"]
             /\ UNCHANGED <<sharedSet, exclusiveSet>>
    <2> DEFINE g == [queue[r] EXCEPT ![i] = Request(t, "EXCLUSIVE")]
    <2>1. /\ Request(t, "EXCLUSIVE") \in LockRequest /\ Request(t, "EXCLUSIVE").txn = t
          /\ Request(t, "EXCLUSIVE").mode = "EXCLUSIVE" /\ ~Request(t, "EXCLUSIVE").granted
      BY RequestType, Modes DEF Request
    <2>2. queue' = [queue EXCEPT ![r] = g]
      BY <1>8, <1>4
    <2>3. Holds(queue[r], g, t, Request(t, "EXCLUSIVE"))
      BY <1>2, <1>3, <1>4, <2>1, ReplaceHolds
    <2> HIDE DEF g
    <2>4. Asks(t, r, "EXCLUSIVE")
      BY <1>1, <2>1, <2>2, <2>3, HoldsView
    <2>5. \A u \in Txns, s \in Rids :
            waits'[s][u] = IF s = r /\ u = t THEN "upgrade" ELSE waits[s][u]
      <3>1. TypeOK
        BY <1>1
      <3>2. QED
        BY <1>8, <3>1 DEF TypeOK
    <2>6. \E u \in Txns, m \in LockMode : u # t /\ Granted(u, r, m)
      BY <1>5, <1>8
    <2>7. r \notin exclusiveSet[t]
      BY <1>1, <2>6 DEF Locks, GrantsAreHeld, Compatible
    <2>8. sharedSet' = sharedSet /\ exclusiveSet' = exclusiveSet /\ "upgrade" \in Calls
      BY <1>8 DEF LockUpgrade
    <2>9. Locks'
      BY <1>1, <1>6, <2>4, <2>5, <2>6, <2>7, <2>8, AskKeeps, Modes
    <2>10. QED
      BY <1>1, <2>5, <2>8, <2>9, RunningKeeps
  <1>9. QED
    BY <1>2, <1>7, <1>8

\* A waiter that takes the lock.
LEMMA WakeGrantedKeepsLocks ==
  ASSUME MInv, NEW t \in Txns, NEW r \in Rids, WakeGranted(t, r), UNCHANGED <<ending, crashed>>
  PROVE  Locks' /\ Phases'
  <1>1. /\ TypeOK /\ Locks /\ OneRequest
        /\ txnState' = txnState /\ ending' = ending /\ crashed' = crashed
        /\ awake' = awake \ {t} /\ waits[r][t] # "no"
        /\ waits' = [waits EXCEPT ![r][t] = "no"]
        /\ Grantable(queue[r], t, waits[r][t])
    BY DEF WakeGranted, MInv, TMTypeOK, Locks
  <1>2. txnState[t] = "GROWING"
    BY <1>1 DEF WakeGranted, MInv, States
  <1>3. PICK i \in 1 .. Len(queue[r]) :
          /\ queue[r][i].txn = t /\ ~queue[r][i].granted
          /\ queue' = [queue EXCEPT ![r][i].granted = TRUE]
    BY DEF WakeGranted
  <1>4. queue[r] \in Seq(LockRequest) /\ OneEach(queue[r]) /\ queue[r][i] \in LockRequest
    BY <1>1, <1>3 DEF TypeOK, OneRequest
  <1>5. PICK m \in LockMode : m = queue[r][i].mode
    BY <1>4 DEF LockRequest
  <1>6. m = "SHARED" <=> waits[r][t] = "shared"
    <2>1. Asked(t, r, m)
      BY <1>3, <1>5 DEF Asked, HasAsked
    <2>2. QED
      BY <1>1, <1>2, <2>1, Modes DEF Locks, AskersWait
  <1> DEFINE new == [queue[r][i] EXCEPT !.granted = TRUE]
             g == [queue[r] EXCEPT ![i] = new]
  <1>7. new \in LockRequest /\ new.txn = t /\ new.mode = m /\ new.granted
    BY <1>3, <1>4, <1>5 DEF LockRequest
  <1>8. queue' = [queue EXCEPT ![r] = g]
    BY <1>3, <1>4
  <1> HIDE DEF new
  <1>9. Holds(queue[r], g, t, new)
    BY <1>3, <1>4, <1>7, ReplaceHolds
  <1> HIDE DEF g
  <1>10. Takes(t, r, m)
    BY <1>1, <1>7, <1>8, <1>9, HoldsView
  <1>11. /\ m = "SHARED" => \A u \in Txns : ~Granted(u, r, "EXCLUSIVE")
         /\ m = "EXCLUSIVE" => \A u \in Txns, k \in LockMode : u # t => ~Granted(u, r, k)
    <2>1. /\ NoExclusiveGranted(queue[r]) <=> \A u \in Txns : ~Granted(u, r, "EXCLUSIVE")
          /\ NoOtherGranted(queue[r], t)
               <=> \A u \in Txns, k \in LockMode : u # t => ~Granted(u, r, k)
      BY <1>1, Predicates
    <2>2. QED
      BY <1>1, <1>6, <2>1 DEF Grantable
  <1>12. \A u \in Txns, s \in Rids :
           /\ waits'[s][u] = IF u = t /\ s = r THEN "no" ELSE waits[s][u]
           /\ u = t /\ s # r => waits[s][u] = "no"
    <2>1. TypeOK /\ waits' = [waits EXCEPT ![r][t] = "no"] /\ waits[r][t] # "no" /\ OneWait
      BY <1>1 DEF Locks
    <2>2. \A u \in Txns, s \in Rids :
            waits'[s][u] = IF u = t /\ s = r THEN "no" ELSE waits[s][u]
      BY <2>1 DEF TypeOK
    <2>3. QED
      BY <2>1, <2>2 DEF OneWait
  <1>13. /\ IF m = "SHARED" THEN sharedSet' = [sharedSet EXCEPT ![t] = sharedSet[t] \cup {r}]
            ELSE \/ sharedSet' = [sharedSet EXCEPT ![t] = sharedSet[t] \ {r}]
                 \/ sharedSet' = sharedSet /\ waits[r][t] # "upgrade"
         /\ IF m = "SHARED" THEN exclusiveSet' = exclusiveSet
            ELSE exclusiveSet' = [exclusiveSet EXCEPT ![t] = exclusiveSet[t] \cup {r}]
    BY <1>6 DEF WakeGranted
  <1>14. m # "SHARED" /\ waits[r][t] # "upgrade" => r \notin sharedSet[t]
    <2>1. waits[r][t] \in WaitKind
      BY <1>1 DEF TypeOK
    <2>2. m # "SHARED" /\ waits[r][t] # "upgrade" => waits[r][t] = "exclusive"
      BY <1>1, <1>6, <2>1 DEF WaitKind
    <2>3. QED
      BY <1>1, <2>2 DEF Locks, WaitersAsk
  <1>15. r \notin exclusiveSet[t]
    BY <1>1, Modes DEF Locks, WaitersAsk, GrantsAreHeld
  <1>16. /\ r \in sharedSet'[t] <=> m = "SHARED"
         /\ r \in exclusiveSet'[t] <=> m = "EXCLUSIVE"
    BY <1>1, <1>13, <1>14, <1>15, Modes DEF TypeOK
  <1>17. \A u \in Txns, s \in Rids :
           /\ ~(u = t /\ s = r) => /\ s \in exclusiveSet'[u] <=> s \in exclusiveSet[u]
                                   /\ s \in sharedSet'[u] <=> s \in sharedSet[u]
           /\ u # t => exclusiveSet'[u] = exclusiveSet[u] /\ sharedSet'[u] = sharedSet[u]
    BY <1>1, <1>13 DEF TypeOK
  <1>18. Locks'
    BY <1>1, <1>10, <1>11, <1>12, <1>16, <1>17, TakeKeeps
  <1>19. QED
    BY <1>1, <1>2, <1>12, <1>17, <1>18, RunningKeeps

\* A waiter that finds itself aborted.
LEMMA WakeAbortedKeepsLocks ==
  ASSUME MInv, NEW t \in Txns, NEW r \in Rids, WakeAborted(t, r), UNCHANGED <<ending, crashed>>
  PROVE  Locks' /\ Phases'
  <1>1. /\ TypeOK /\ Locks /\ OneRequest /\ txnState[t] = "ABORTED"
        /\ txnState' = txnState /\ ending' = ending /\ crashed' = crashed
        /\ sharedSet' = sharedSet /\ exclusiveSet' = exclusiveSet
        /\ awake' = awake \ {t} /\ waits[r][t] # "no"
        /\ waits' = [waits EXCEPT ![r][t] = "no"]
    BY DEF WakeAborted, MInv, TMTypeOK, Locks
  <1>2. \A u \in Txns, s \in Rids :
          /\ waits'[s][u] = IF u = t /\ s = r THEN "no" ELSE waits[s][u]
          /\ u = t /\ s # r => waits[s][u] = "no"
    <2>1. TypeOK /\ waits' = [waits EXCEPT ![r][t] = "no"] /\ waits[r][t] # "no" /\ OneWait
      BY <1>1 DEF Locks
    <2>2. \A u \in Txns, s \in Rids :
            waits'[s][u] = IF u = t /\ s = r THEN "no" ELSE waits[s][u]
      BY <2>1 DEF TypeOK
    <2>3. QED
      BY <2>1, <2>2 DEF OneWait
  <1>3. Ended(t) /\ \A u \in Txns : Ended(u)' <=> Ended(u)
    BY <1>1 DEF Ended, MInv, States
  <1>4. Phases'
    BY <1>1 DEF MInv, Phases
  <1>5. CASE waits[r][t] = "upgrade" /\ queue' = queue
    <2>1. \A u \in Txns, s \in Rids, k \in LockMode :
            (Granted(u, s, k)' <=> Granted(u, s, k)) /\ (Asked(u, s, k)' <=> Asked(u, s, k))
      BY <1>5 DEF Granted, Asked
    <2>2. OneRequest' /\ Disjoint' /\ OneWait'
      BY <1>1, <1>2, <1>5 DEF Locks, OneRequest, Disjoint, OneWait
    <2>3. Compatible'
      BY <1>1, <2>1, Modes DEF Locks, Compatible
    <2>4. GrantsAreHeld'
      BY <1>1, <2>1, Modes DEF Locks, GrantsAreHeld
    <2>5. WaitersAsk'
      BY <1>1, <1>2, <2>1, Modes DEF Locks, WaitersAsk
    <2>6. AskersWait'
      BY <1>1, <1>2, <1>3, <1>5, <2>1, Modes DEF Locks, AskersWait
    <2>7. SleepersAreBlocked'
      <3> SUFFICES ASSUME NEW u \in Txns, NEW s \in Rids, waits'[s][u] # "no", u \notin awake'
                   PROVE  Blocked(u, s)'
        BY DEF SleepersAreBlocked
      <3>1. u # t /\ waits'[s][u] = waits[s][u] /\ u \notin awake
        BY <1>1, <1>2
      <3>2. Blocked(u, s)
        BY <1>1, <3>1 DEF Locks, SleepersAreBlocked
      <3>3. QED
        BY <2>1, <3>1, <3>2, Modes DEF Blocked
    <2>8. "upgrade" \in Calls
      BY <1>1, <1>5 DEF Locks, PlainLocks
    <2>9. QED
      BY <1>4, <2>2, <2>3, <2>4, <2>5, <2>6, <2>7, <2>8 DEF Locks, PlainLocks
  <1>6. CASE \E i \in 1 .. Len(queue[r]) :
               /\ queue[r][i].txn = t /\ ~queue[r][i].granted
               /\ queue' = [queue EXCEPT ![r] = Without(queue[r], i)]
    <2>1. PICK i \in 1 .. Len(queue[r]) :
            queue[r][i].txn = t /\ queue' = [queue EXCEPT ![r] = Without(queue[r], i)]
      BY <1>6
    <2>2. queue[r] \in Seq(LockRequest) /\ OneEach(queue[r])
      BY <1>1 DEF TypeOK, OneRequest
    <2>3. Lacks(queue[r], Without(queue[r], i), t)
      BY <2>1, <2>2, WithoutLacks
    <2>4. Loses(t, r)
      BY <1>1, <2>1, <2>3, LacksView
    <2>5. Locks'
      BY <1>1, <1>2, <2>4, WithdrawKeeps
    <2>6. QED
      BY <1>4, <2>5
  <1>7. QED
    BY <1>5, <1>6 DEF WakeAborted

\* Unlock by a thread in no call.
LEMMA UnlockKeepsLocks ==
  ASSUME MInv, NEW t \in Txns, NEW r \in Rids, Unlock(t, r), UNCHANGED <<ending, crashed>>,
         ~Ended(t)
  PROVE  Locks' /\ Phases'
  <1>1. /\ TypeOK /\ Locks /\ OneRequest /\ Idle(t)
        /\ ending' = ending /\ crashed' = crashed /\ waits' = waits /\ awake' = Notify(r)
        /\ queue' = [queue EXCEPT ![r] = RemoveRequest(queue[r], t)]
    BY DEF Unlock, MInv, TMTypeOK, Locks
  <1>2. \A u \in Txns : /\ txnState[u] = "ABORTED" => txnState'[u] = "ABORTED"
                        /\ u # t => txnState'[u] = txnState[u]
    BY <1>1 DEF Unlock, TypeOK
  <1>3. \A u \in Txns : Ended(u)' <=> Ended(u)
    BY <1>1 DEF Ended
  <1>4. \A u \in Txns, s \in Rids :
          /\ s \in sharedSet'[u] <=> s \in sharedSet[u] /\ ~(u = t /\ s = r)
          /\ s \in exclusiveSet'[u] <=> s \in exclusiveSet[u] /\ ~(u = t /\ s = r)
    <2>1. /\ TypeOK
          /\ sharedSet' = [sharedSet EXCEPT ![t] = sharedSet[t] \ {r}]
          /\ exclusiveSet' = [exclusiveSet EXCEPT ![t] = exclusiveSet[t] \ {r}]
      BY <1>1 DEF Unlock
    <2>2. QED
      BY <2>1 DEF TypeOK
  <1>5. queue[r] \in Seq(LockRequest) /\ OneEach(queue[r])
    BY <1>1 DEF TypeOK, OneRequest
  <1>6. Loses(t, r)
    BY <1>1, <1>5, RemoveLacks, LacksView
  <1>7. \A s \in Rids : waits[s][t] = "no"
    BY <1>1 DEF Idle
  <1>8. Locks'
    BY <1>1, <1>2, <1>3, <1>4, <1>6, <1>7, GiveBackKeeps
  <1>9. Phases'
    BY <1>1, <1>4 DEF MInv, Phases
  <1>10. QED
    BY <1>8, <1>9

\* One iteration of a release loop.
LEMMA ReleaseKeepsLocks ==
  ASSUME MInv, ~crashed, NEW t \in Txns, NEW r \in Rids, NEW outcome \in Dangling,
         "end" \notin Dangling,
         ReleaseShared(t, r, outcome) \/ ReleaseExclusive(t, r, outcome)
  PROVE  Locks' /\ Phases'
  <1>1. /\ TypeOK /\ Locks /\ OneRequest /\ Ended(t) /\ ending \in [Txns -> Phase]
        /\ txnState' = txnState /\ waits' = waits /\ awake' = Notify(r)
        /\ queue' = [queue EXCEPT ![r] = RemoveRequest(queue[r], t)]
    BY DEF ReleaseShared, ReleaseExclusive, ReleaseRequest, MInv, TMTypeOK, Locks, Ended
  <1>2. r \in sharedSet[t] \/ r \in exclusiveSet[t]
    BY DEF ReleaseShared, ReleaseExclusive
  <1>3. \A u \in Txns, s \in Rids :
          /\ s \in sharedSet'[u] <=> s \in sharedSet[u] /\ ~(u = t /\ s = r)
          /\ s \in exclusiveSet'[u] <=> s \in exclusiveSet[u] /\ ~(u = t /\ s = r)
    <2>1. CASE exclusiveSet' = [exclusiveSet EXCEPT ![t] = exclusiveSet[t] \ {r}]
      <3>1. TypeOK /\ sharedSet' = [sharedSet EXCEPT ![t] = sharedSet[t] \ {r}]
        BY <1>1 DEF ReleaseShared, ReleaseExclusive
      <3>2. QED
        BY <2>1, <3>1 DEF TypeOK
    <2>2. CASE exclusiveSet' = exclusiveSet /\ r \in sharedSet[t]
      <3>1. TypeOK /\ sharedSet' = [sharedSet EXCEPT ![t] = sharedSet[t] \ {r}]
        BY <1>1 DEF ReleaseShared, ReleaseExclusive
      <3>2. r \notin exclusiveSet[t]
        BY <1>1, <2>2 DEF Locks, Disjoint
      <3>3. QED
        BY <2>2, <3>1, <3>2 DEF TypeOK
    <2>3. QED
      BY <2>1, <2>2 DEF ReleaseShared, ReleaseExclusive
  <1>4. \A u \in Txns : ending'[u] = ending[u] \/ (u = t /\ ending'[u] \in {"exclusive", "clear"})
    BY <1>1 DEF ReleaseShared, ReleaseExclusive, Advance
  <1>5. \A u \in Txns : Ended(u)' <=> Ended(u)
    BY <1>1, <1>4 DEF Ended
  <1>6. queue[r] \in Seq(LockRequest) /\ OneEach(queue[r])
    BY <1>1 DEF TypeOK, OneRequest
  <1>7. Loses(t, r)
    BY <1>1, <1>6, RemoveLacks, LacksView
  <1>8. waits[r][t] = "no" \/ waits[r][t] = "upgrade"
    <2>1. waits[r][t] \in WaitKind
      BY <1>1 DEF TypeOK
    <2>2. waits[r][t] = "shared" \/ waits[r][t] = "exclusive" => r \notin sharedSet[t]
      BY <1>1 DEF Locks, WaitersAsk
    <2>3. waits[r][t] # "no" => r \notin exclusiveSet[t]
      BY <1>1, Modes DEF Locks, WaitersAsk, GrantsAreHeld
    <2>4. QED
      BY <1>2, <2>1, <2>2, <2>3 DEF WaitKind
  <1>9. Locks'
    BY <1>1, <1>3, <1>5, <1>7, <1>8, GiveBackKeeps
  <1>10. Phases'
    <2>1. CASE outcome = "crash"
      <3>1. crashed'
        BY <2>1 DEF ReleaseShared, ReleaseExclusive, Advance
      <3>2. \A u \in Txns : ending'[u] = "done" => ending[u] = "done"
        BY <1>4
      <3>3. QED
        BY <1>3, <3>1, <3>2 DEF MInv, Phases
    <2>2. CASE outcome = "next"
      <3>1. CASE ReleaseShared(t, r, outcome)
        <4>1. /\ ending[t] = "shared"
              /\ ending' = IF sharedSet[t] \ {r} # {} THEN ending
                           ELSE [ending EXCEPT ![t] = "exclusive"]
          BY <2>2, <3>1 DEF ReleaseShared, Advance
        <4>2. CASE ending' = ending
          BY <1>3, <4>2 DEF MInv, Phases
        <4>3. CASE sharedSet[t] \ {r} = {} /\ ending' = [ending EXCEPT ![t] = "exclusive"]
          <5>1. \A s \in Rids : s \notin sharedSet'[t]
            BY <1>3, <4>3
          <5>2. ending'[t] = "exclusive" /\ \A u \in Txns : u # t => ending'[u] = ending[u]
            BY <1>1, <4>3
          <5>3. QED
            BY <1>3, <5>1, <5>2 DEF MInv, Phases
        <4>4. QED
          BY <4>1, <4>2, <4>3
      <3>2. CASE ReleaseExclusive(t, r, outcome)
        <4>1. /\ ending[t] = "exclusive"
              /\ ending' = IF exclusiveSet[t] \ {r} # {} THEN ending
                           ELSE [ending EXCEPT ![t] = "clear"]
          BY <2>2, <3>2 DEF ReleaseExclusive, Advance
        <4>2. CASE ending' = ending
          BY <1>3, <4>2 DEF MInv, Phases
        <4>3. CASE exclusiveSet[t] \ {r} = {} /\ ending' = [ending EXCEPT ![t] = "clear"]
          <5>1. \A s \in Rids : s \notin exclusiveSet'[t] /\ s \notin sharedSet'[t]
            BY <1>3, <4>1, <4>3 DEF MInv, Phases
          <5>2. ending'[t] = "clear" /\ \A u \in Txns : u # t => ending'[u] = ending[u]
            BY <1>1, <4>3
          <5>3. QED
            BY <1>3, <5>1, <5>2 DEF MInv, Phases
        <4>4. QED
          BY <4>1, <4>2, <4>3
      <3>3. QED
        BY <3>1, <3>2
    <2>3. QED
      BY <2>1, <2>2, DanglingAssumption
  <1>11. QED
    BY <1>9, <1>10

-----------------------------------------------------------------------------
(* Types, and the states of transactions, for every mixture of calls.      *)

LEMMA TMTypeInit == TMInit => TMTypeOK
  BY TypeInit DEF TMInit, TMTypeOK, Phase

LEMMA LockingIsLockStep ==
  ASSUME NEW t \in Txns, Locking(t)
  PROVE  Next
  BY DEF Locking, Next, LockStep

LEMMA TMTypeStep == TMTypeOK /\ [TMNext]_tmVars => TMTypeOK'
  <1> SUFFICES ASSUME TMTypeOK, [TMNext]_tmVars PROVE TMTypeOK'
    OBVIOUS
  <1>1. TypeOK /\ ending \in [Txns -> Phase] /\ crashed \in BOOLEAN
    BY DEF TMTypeOK
  <1>2. ASSUME NEW t \in Txns, Locking(t) PROVE TMTypeOK'
    <2>1. TypeOK'
      BY <1>1, <1>2, LockingIsLockStep, TypeStep
    <2>2. ending' = ending /\ crashed' = crashed
      BY <1>2 DEF Locking
    <2>3. QED
      BY <1>1, <2>1, <2>2 DEF TMTypeOK
  <1>3. ASSUME NEW t \in Txns, Begin(t) PROVE TMTypeOK'
    <2>1. ending' \in [Txns -> Phase]
      BY <1>1, <1>3 DEF Begin, Phase
    <2>2. QED
      BY <1>1, <1>3, <2>1 DEF Begin, vars, TypeOK, TMTypeOK
  <1>4. ASSUME NEW t \in Txns, Commit(t) \/ Abort(t) PROVE TMTypeOK'
    <2>1. ending' \in [Txns -> Phase] /\ txnState' \in [Txns -> TransactionState]
      BY <1>1, <1>4 DEF Commit, Abort, Phase, TransactionState, TypeOK
    <2>2. QED
      BY <1>1, <1>4, <2>1 DEF Commit, Abort, TypeOK, TMTypeOK
  <1>5. ASSUME NEW t \in Txns, SkipLoop(t) PROVE TMTypeOK'
    <2>1. ending' \in [Txns -> Phase]
      BY <1>1, <1>5 DEF SkipLoop, Phase
    <2>2. QED
      BY <1>1, <1>5, <2>1 DEF SkipLoop, vars, TypeOK, TMTypeOK
  <1>6. ASSUME NEW t \in Txns, ClearSets(t) PROVE TMTypeOK'
    <2>1. ending' \in [Txns -> Phase]
      BY <1>1, <1>6 DEF ClearSets, Phase
    <2>2. sharedSet' \in [Txns -> SUBSET Rids] /\ exclusiveSet' \in [Txns -> SUBSET Rids]
      BY <1>1, <1>6 DEF ClearSets, TypeOK
    <2>3. QED
      BY <1>1, <1>6, <2>1, <2>2 DEF ClearSets, TypeOK, TMTypeOK
  <1>7. ASSUME NEW t \in Txns, NEW r \in Rids, NEW outcome \in Dangling,
               ReleaseShared(t, r, outcome) \/ ReleaseExclusive(t, r, outcome)
        PROVE  TMTypeOK'
    <2>1. RemoveRequest(queue[r], t) \in Seq(LockRequest)
      BY <1>1, RemoveRequestCases, WithoutType, SMTT(60) DEF TypeOK
    <2>2. queue' \in [Rids -> Seq(LockRequest)] /\ awake' \in SUBSET Txns
      <3>1. queue' = [queue EXCEPT ![r] = RemoveRequest(queue[r], t)] /\ awake' = Notify(r)
        BY <1>7 DEF ReleaseShared, ReleaseExclusive, ReleaseRequest
      <3>2. Notify(r) \in SUBSET Txns
        BY <1>1 DEF Notify, TypeOK
      <3>3. QED
        BY <1>1, <2>1, <3>1, <3>2 DEF TypeOK
    <2>3. sharedSet' \in [Txns -> SUBSET Rids] /\ exclusiveSet' \in [Txns -> SUBSET Rids]
      BY <1>1, <1>7 DEF ReleaseShared, ReleaseExclusive, TypeOK
    <2>4. ending' \in [Txns -> Phase] /\ crashed' \in BOOLEAN
      <3>1. "exclusive" \in Phase /\ "clear" \in Phase
        BY DEF Phase
      <3>2. QED
        BY <1>1, <1>7, <3>1 DEF ReleaseShared, ReleaseExclusive, Advance
    <2>5. UNCHANGED <<txnState, upgrading, waits>>
      BY <1>7 DEF ReleaseShared, ReleaseExclusive, ReleaseRequest
    <2>6. QED
      BY <1>1, <2>2, <2>3, <2>4, <2>5 DEF TypeOK, TMTypeOK
  <1>8. CASE UNCHANGED tmVars
    BY <1>1, <1>8 DEF tmVars, vars, TypeOK, TMTypeOK
  <1>9. QED
    BY <1>2, <1>3, <1>4, <1>5, <1>6, <1>7, <1>8 DEF TMNext, Ending

\* Nobody new waits, and nobody's state changes.
LEMMA SameStates ==
  ASSUME States, txnState' = txnState, \A u \in Txns : Ended(u)' <=> Ended(u),
         \A u \in Txns, s \in Rids : waits'[s][u] = waits[s][u] \/ waits'[s][u] = "no"
  PROVE  States'
  BY DEF States

LEMMA StatesStep == TMTypeOK /\ States /\ [TMNext]_tmVars => States'
  <1> SUFFICES ASSUME TMTypeOK, States, [TMNext]_tmVars PROVE States'
    OBVIOUS
  <1>1. TypeOK /\ ending \in [Txns -> Phase]
    BY DEF TMTypeOK
  <1>2. ending' = ending => \A u \in Txns : Ended(u)' <=> Ended(u)
    BY DEF Ended
  <1>3. ASSUME NEW t \in Txns, NEW r \in Rids, ending' = ending,
               LockShared(t, r) \/ LockExclusive(t, r) \/ LockUpgrade(t, r)
        PROVE  States'
    <2>1. txnState' = txnState /\ txnState[t] = "GROWING"
      BY <1>3 DEF LockShared, LockExclusive, LockUpgrade
    <2>2. waits' = waits \/ \E kind \in WaitKind : waits' = [waits EXCEPT ![r][t] = kind]
      BY <1>3, WaitKinds DEF LockShared, LockExclusive, LockUpgrade, GrantNew, Sleep
    <2>3. \A u \in Txns, s \in Rids : u # t => waits'[s][u] = waits[s][u]
      BY <1>1, <2>2 DEF TypeOK
    <2>4. QED
      BY <1>2, <1>3, <2>1, <2>3 DEF States
  <1>4. ASSUME NEW t \in Txns, NEW r \in Rids, ending' = ending,
               WakeGranted(t, r) \/ WakeAborted(t, r)
        PROVE  States'
    <2>1. txnState' = txnState /\ waits' = [waits EXCEPT ![r][t] = "no"]
      BY <1>4 DEF WakeGranted, WakeAborted
    <2>2. \A u \in Txns, s \in Rids : waits'[s][u] = waits[s][u] \/ waits'[s][u] = "no"
      BY <1>1, <2>1 DEF TypeOK
    <2>3. QED
      BY <1>2, <1>4, <2>1, <2>2, SameStates
  <1>5. ASSUME NEW t \in Txns, NEW r \in Rids, ending' = ending, ending[t] = "running",
               Refused(t) \/ UpgradeConflict(t, r) \/ Unlock(t, r)
        PROVE  States'
    <2>1. Idle(t) /\ waits' = waits /\ \A u \in Txns : u # t => txnState'[u] = txnState[u]
      BY <1>1, <1>5 DEF Refused, UpgradeConflict, Unlock, TypeOK
    <2>2. ~Ended(t)
      BY <1>5 DEF Ended
    <2>3. QED
      BY <1>2, <1>5, <2>1, <2>2 DEF States, Idle
  <1>6. ASSUME NEW t \in Txns, NEW r \in Rids, ending' = ending,
               \/ SpuriousWake(t) \/ SleepAgain(t, r)
               \/ AlreadyHeld(t, r) \/ UpgradeNothing(t, r)
        PROVE  States'
    <2>1. txnState' = txnState /\ waits' = waits
      BY <1>6 DEF SpuriousWake, SleepAgain, AlreadyHeld, UpgradeNothing, vars
    <2>2. QED
      BY <1>2, <1>6, <2>1, SameStates
  <1>7. ASSUME NEW t \in Txns, Commit(t) \/ Abort(t) PROVE States'
    <2>1. /\ waits' = waits /\ Ended(t)'
          /\ \A u \in Txns : u # t => txnState'[u] = txnState[u] /\ (Ended(u)' <=> Ended(u))
          /\ \/ Idle(t) /\ txnState'[t] = "COMMITTED"
             \/ txnState'[t] = "ABORTED"
      BY <1>1, <1>7 DEF Commit, Abort, Ended, TypeOK
    <2>2. QED
      BY <2>1 DEF States, Idle
  <1>8. ASSUME NEW t \in Txns, Begin(t) \/ SkipLoop(t) \/ ClearSets(t) PROVE States'
    <2>1. txnState' = txnState /\ waits' = waits
      BY <1>8 DEF Begin, SkipLoop, ClearSets, vars
    <2>2. \A u \in Txns : Ended(u)' <=> Ended(u)
      BY <1>1, <1>8 DEF Begin, SkipLoop, ClearSets, Ended
    <2>3. QED
      BY <2>1, <2>2, SameStates
  <1>9. ASSUME NEW t \in Txns, NEW r \in Rids, NEW outcome \in Dangling,
               ReleaseShared(t, r, outcome) \/ ReleaseExclusive(t, r, outcome)
        PROVE  States'
    <2>1. txnState' = txnState /\ waits' = waits
      BY <1>9 DEF ReleaseShared, ReleaseExclusive, ReleaseRequest
    <2>2. \A u \in Txns : Ended(u)' <=> Ended(u)
      BY <1>1, <1>9 DEF ReleaseShared, ReleaseExclusive, Advance, Ended
    <2>3. QED
      BY <2>1, <2>2, SameStates
  <1>10. CASE UNCHANGED tmVars
    BY <1>2, <1>10, SameStates DEF tmVars, vars
  <1>11. ASSUME NEW t \in Txns, Locking(t) PROVE States'
    <2>1. ending' = ending
      BY <1>11 DEF Locking
    <2>2. CASE Refused(t) /\ ending[t] = "running"
      <3>1. txnState'[t] = "ABORTED" /\ Idle(t) /\ waits' = waits /\ ~Ended(t)
            /\ \A u \in Txns : u # t => txnState'[u] = txnState[u]
        BY <1>1, <2>2 DEF Refused, TypeOK, Ended
      <3>2. QED
        BY <1>2, <2>1, <3>1 DEF States, Idle
    <2>3. CASE SpuriousWake(t)
      <3>1. txnState' = txnState /\ waits' = waits
        BY <2>3 DEF SpuriousWake
      <3>2. QED
        BY <1>2, <2>1, <3>1, SameStates
    <2>4. ASSUME NEW r \in Rids, ending[t] = "running", LockStep(t, r) \/ Unlock(t, r)
          PROVE  States'
      BY <1>3, <1>4, <1>5, <1>6, <2>1, <2>4 DEF LockStep
    <2>5. ASSUME NEW r \in Rids, SleepAgain(t, r) \/ WakeGranted(t, r) \/ WakeAborted(t, r)
          PROVE  States'
      BY <1>4, <1>6, <2>1, <2>5
    <2>6. QED
      BY <1>11, <2>2, <2>3, <2>4, <2>5 DEF Locking
  <1>12. QED
    BY <1>7, <1>8, <1>9, <1>10, <1>11 DEF TMNext, Ending

-----------------------------------------------------------------------------
(* Ended transactions acquire nothing.                                     *)

LEMMA StatesInit == TMInit => States
  BY DEF TMInit, Init, States, Ended

EndedShrinks ==
  \A t \in Txns :
    txnState[t] \in {"ABORTED", "COMMITTED"}
    => /\ sharedSet'[t] \subseteq sharedSet[t]
       /\ exclusiveSet'[t] \subseteq exclusiveSet[t]

LEMMA EndedStep == TMTypeOK /\ States /\ [TMNext]_tmVars => EndedShrinks
  <1> SUFFICES ASSUME TMTypeOK, States, [TMNext]_tmVars PROVE EndedShrinks
    OBVIOUS
  <1>1. TypeOK
    BY DEF TMTypeOK
  <1>2. CASE sharedSet' = sharedSet /\ exclusiveSet' = exclusiveSet
    BY <1>2 DEF EndedShrinks
  <1>3. ASSUME NEW t \in Txns, txnState[t] \notin {"ABORTED", "COMMITTED"},
               \A u \in Txns : u # t => /\ sharedSet'[u] = sharedSet[u]
                                        /\ exclusiveSet'[u] = exclusiveSet[u]
        PROVE  EndedShrinks
    BY <1>3 DEF EndedShrinks
  <1>4. ASSUME NEW t \in Txns, NEW r \in Rids,
               \/ LockShared(t, r) \/ LockExclusive(t, r)
               \/ LockUpgrade(t, r) \/ WakeGranted(t, r)
        PROVE  EndedShrinks
    <2>1. txnState[t] \notin {"ABORTED", "COMMITTED"}
      BY <1>4 DEF LockShared, LockExclusive, LockUpgrade, WakeGranted, States
    <2>2. \A u \in Txns : u # t => sharedSet'[u] = sharedSet[u]
      BY <1>1, <1>4 DEF LockShared, LockExclusive, LockUpgrade, WakeGranted, TypeOK
    <2>3. \A u \in Txns : u # t => exclusiveSet'[u] = exclusiveSet[u]
      BY <1>1, <1>4 DEF LockShared, LockExclusive, LockUpgrade, WakeGranted, TypeOK
    <2>4. QED
      BY <1>3, <2>1, <2>2, <2>3
  <1>5. ASSUME NEW t \in Txns, NEW r \in Rids,
               \/ Unlock(t, r)
               \/ \E outcome \in Dangling :
                    ReleaseShared(t, r, outcome) \/ ReleaseExclusive(t, r, outcome)
        PROVE  EndedShrinks
    <2>1. /\ sharedSet' = [sharedSet EXCEPT ![t] = sharedSet[t] \ {r}]
          /\ \/ exclusiveSet' = [exclusiveSet EXCEPT ![t] = exclusiveSet[t] \ {r}]
             \/ exclusiveSet' = exclusiveSet
      BY <1>5 DEF Unlock, ReleaseShared, ReleaseExclusive
    <2>2. QED
      BY <1>1, <2>1 DEF EndedShrinks, TypeOK
  <1>6. ASSUME NEW t \in Txns, ClearSets(t) PROVE EndedShrinks
    BY <1>1, <1>6 DEF ClearSets, EndedShrinks, TypeOK
  <1>7. ASSUME NEW t \in Txns,
               \/ Begin(t) \/ Commit(t) \/ Abort(t) \/ SkipLoop(t)
               \/ SpuriousWake(t) \/ Refused(t)
        PROVE  EndedShrinks
    BY <1>2, <1>7 DEF Begin, Commit, Abort, SkipLoop, SpuriousWake, Refused, vars
  <1>8. ASSUME NEW t \in Txns, NEW r \in Rids,
               \/ SleepAgain(t, r) \/ AlreadyHeld(t, r) \/ UpgradeNothing(t, r)
               \/ UpgradeConflict(t, r) \/ WakeAborted(t, r)
        PROVE  EndedShrinks
    BY <1>2, <1>8 DEF SleepAgain, AlreadyHeld, UpgradeNothing, UpgradeConflict, WakeAborted, vars
  <1>9. CASE UNCHANGED tmVars
    BY <1>2, <1>9 DEF tmVars, vars
  <1>10. ASSUME NEW t \in Txns, Locking(t) PROVE EndedShrinks
    BY <1>4, <1>5, <1>7, <1>8, <1>10 DEF Locking, LockStep
  <1>11. ASSUME NEW t \in Txns, Ending(t) PROVE EndedShrinks
    BY <1>5, <1>6, <1>7, <1>11 DEF Ending
  <1>12. QED
    BY <1>7, <1>9, <1>10, <1>11 DEF TMNext

\* Once a transaction is ABORTED or COMMITTED its lock sets only shrink, whatever
\* call it was waiting in, whoever wakes it, and however its release loops end.
THEOREM EndedAcquiresNothing == TMSpec => EndedNeverAcquires
  <1>1. TMTypeOK /\ States /\ [TMNext]_tmVars
          => [\A t \in Txns :
                txnState[t] \in {"ABORTED", "COMMITTED"}
                => /\ sharedSet'[t] \subseteq sharedSet[t]
                   /\ exclusiveSet'[t] \subseteq exclusiveSet[t]]_tmVars
    BY EndedStep DEF EndedShrinks
  <1>2. QED
    BY TMTypeInit, StatesInit, TMTypeStep, StatesStep, <1>1, PTL DEF TMSpec, EndedNeverAcquires

-----------------------------------------------------------------------------
(* The invariant is inductive.                                             *)

LEMMA MInit == TMInit => MInv
  <1> SUFFICES ASSUME TMInit PROVE MInv
    OBVIOUS
  <1>1. /\ \A r \in Rids : queue[r] = <<>> /\ \A t \in Txns : waits[r][t] = "no"
        /\ \A t \in Txns : sharedSet[t] = {} /\ exclusiveSet[t] = {} /\ ending[t] = "unborn"
    BY DEF TMInit, Init
  <1>2. \A r \in Rids : Len(queue[r]) = 0
    BY <1>1
  <1>3. OneRequest
    BY <1>2 DEF OneRequest, OneEach
  <1>4. \A t \in Txns, r \in Rids, m \in LockMode : ~Granted(t, r, m) /\ ~Asked(t, r, m)
    BY <1>2 DEF Granted, Asked, HasAsked
  <1>5. Compatible /\ GrantsAreHeld /\ Disjoint
    BY <1>1, <1>4, Modes DEF Compatible, GrantsAreHeld, Disjoint
  <1>6. OneWait /\ WaitersAsk /\ AskersWait /\ SleepersAreBlocked /\ PlainLocks
    BY <1>1, <1>4, Modes DEF OneWait, WaitersAsk, AskersWait, SleepersAreBlocked, PlainLocks
  <1>7. Phases
    BY <1>1 DEF Phases
  <1>8. QED
    BY <1>3, <1>5, <1>6, <1>7, TMTypeInit, StatesInit DEF MInv, Locks

\* Steps that leave queues, lock sets and waiting calls alone.
LEMMA QuietSteps ==
  ASSUME MInv, NEW t \in Txns,
         \/ Begin(t) \/ Commit(t) \/ Abort(t) \/ SkipLoop(t)
         \/ /\ UNCHANGED <<ending, crashed>>
            /\ \/ SpuriousWake(t) \/ Refused(t)
               \/ \E r \in Rids : \/ SleepAgain(t, r) \/ UpgradeConflict(t, r)
                                  \/ AlreadyHeld(t, r) \/ UpgradeNothing(t, r)
  PROVE  Locks' /\ Phases'
  <1>1. TypeOK /\ Locks /\ ending \in [Txns -> Phase]
    BY DEF MInv, TMTypeOK
  <1>2. /\ queue' = queue /\ waits' = waits /\ crashed' = crashed
        /\ sharedSet' = sharedSet /\ exclusiveSet' = exclusiveSet
    BY DEF Begin, Commit, Abort, SkipLoop, SpuriousWake, SleepAgain, UpgradeConflict,
           Refused, AlreadyHeld, UpgradeNothing, vars
  <1>3. \A u \in Txns : Ended(u) /\ txnState[u] = "ABORTED"
                        => Ended(u)' /\ txnState'[u] = "ABORTED"
    BY <1>1 DEF Begin, Commit, Abort, SkipLoop, SpuriousWake, SleepAgain, UpgradeConflict,
           Refused, AlreadyHeld, UpgradeNothing, vars, Ended, TypeOK
  <1>4. \A u \in Txns, s \in Rids :
          u \in awake /\ u \notin awake' /\ waits[s][u] # "no" => Blocked(u, s)
    <2>1. ASSUME NEW r \in Rids, SleepAgain(t, r)
          PROVE  \A u \in Txns, s \in Rids :
                   u \in awake /\ u \notin awake' /\ waits[s][u] # "no" => Blocked(u, s)
      <3>1. awake' = awake \ {t} /\ waits[r][t] # "no" /\ ~Grantable(queue[r], t, waits[r][t])
        BY <2>1 DEF SleepAgain
      <3>2. /\ NoExclusiveGranted(queue[r]) <=> \A u \in Txns : ~Granted(u, r, "EXCLUSIVE")
            /\ NoOtherGranted(queue[r], t)
                 <=> \A u \in Txns, m \in LockMode : u # t => ~Granted(u, r, m)
        BY <1>1, Predicates
      <3>3. Blocked(t, r)
        BY <3>1, <3>2 DEF Grantable, Blocked
      <3>4. QED
        BY <1>1, <3>1, <3>3 DEF Locks, OneWait
    <2>2. CASE \A r \in Rids : ~SleepAgain(t, r)
      <3>1. awake \subseteq awake'
        BY <2>2 DEF Begin, Commit, Abort, SkipLoop, SpuriousWake, UpgradeConflict,
                    Refused, AlreadyHeld, UpgradeNothing, vars
      <3>2. QED
        BY <3>1
    <2>3. QED
      BY <2>1, <2>2
  <1>5. Locks'
    BY <1>1, <1>2, <1>3, <1>4, QuietKeeps
  <1>6. Phases'
    <2>1. CASE SkipLoop(t)
      <3>1. /\ \A u \in Txns : u # t => ending'[u] = ending[u]
            /\ \/ ending[t] = "shared" /\ sharedSet[t] = {} /\ ending'[t] = "exclusive"
               \/ ending[t] = "exclusive" /\ exclusiveSet[t] = {} /\ ending'[t] = "clear"
        BY <1>1, <2>1 DEF SkipLoop
      <3>2. QED
        BY <1>2, <3>1 DEF MInv, Phases
    <2>2. CASE ~SkipLoop(t)
      <3>1. \A u \in Txns : ending'[u] = ending[u] \/ ending'[u] \in {"running", "shared"}
        BY <1>1, <2>2 DEF Begin, Commit, Abort
      <3>2. QED
        BY <1>2, <3>1 DEF MInv, Phases
    <2>3. QED
      BY <2>1, <2>2
  <1>7. QED
    BY <1>5, <1>6

\* The loops have emptied the sets that are cleared.
LEMMA ClearSetsKeepsLocks ==
  ASSUME MInv, ~crashed, NEW t \in Txns, ClearSets(t)
  PROVE  Locks' /\ Phases'
  <1>1. TypeOK /\ Locks /\ ending \in [Txns -> Phase]
    BY DEF MInv, TMTypeOK
  <1>2. /\ queue' = queue /\ waits' = waits /\ awake' = awake /\ txnState' = txnState
        /\ crashed' = crashed /\ ending[t] = "clear"
        /\ ending' = [ending EXCEPT ![t] = "done"]
        /\ sharedSet' = [sharedSet EXCEPT ![t] = {}]
        /\ exclusiveSet' = [exclusiveSet EXCEPT ![t] = {}]
    BY DEF ClearSets
  <1>3. \A r \in Rids : r \notin sharedSet[t] /\ r \notin exclusiveSet[t]
    BY <1>2 DEF MInv, Phases
  <1>4. sharedSet[t] = {} /\ exclusiveSet[t] = {}
    BY <1>1, <1>3 DEF TypeOK
  <1>5. sharedSet' = sharedSet /\ exclusiveSet' = exclusiveSet
    BY <1>1, <1>2, <1>4 DEF TypeOK
  <1>6. ending'[t] = "done" /\ \A u \in Txns : u # t => ending'[u] = ending[u]
    BY <1>1, <1>2
  <1>7. \A u \in Txns : Ended(u) => Ended(u)'
    BY <1>6 DEF Ended
  <1>8. Locks'
    BY <1>1, <1>2, <1>5, <1>7, QuietKeeps
  <1>9. Phases'
    BY <1>2, <1>4, <1>5, <1>6 DEF MInv, Phases
  <1>10. QED
    BY <1>8, <1>9

LEMMA MStep ==
  ASSUME "convert" \notin Calls, "end" \notin Dangling
  PROVE  MInv /\ [TMNext]_tmVars => MInv'
  <1> SUFFICES ASSUME MInv, [TMNext]_tmVars PROVE Locks' /\ Phases'
    BY TMTypeStep, StatesStep DEF MInv
  <1>1. ASSUME NEW t \in Txns, Locking(t) PROVE Locks' /\ Phases'
    <2>1. UNCHANGED <<ending, crashed>>
      BY <1>1 DEF Locking
    <2>2. ASSUME NEW r \in Rids, ending[t] = "running", Unlock(t, r) PROVE Locks' /\ Phases'
      <3>1. ~Ended(t)
        BY <2>2 DEF Ended
      <3>2. QED
        BY <2>1, <2>2, <3>1, UnlockKeepsLocks
    <2>3. ASSUME NEW r \in Rids, LockStep(t, r) PROVE Locks' /\ Phases'
      BY <2>1, <2>3, LockSharedKeepsLocks, LockExclusiveKeepsLocks, LockUpgradeKeepsLocks,
         WakeGrantedKeepsLocks, WakeAbortedKeepsLocks, QuietSteps DEF LockStep
    <2>4. CASE Refused(t) \/ SpuriousWake(t)
      BY <2>1, <2>4, QuietSteps
    <2>5. QED
      BY <1>1, <2>2, <2>3, <2>4 DEF Locking, LockStep
  <1>2. ASSUME NEW t \in Txns, ~crashed, Ending(t) PROVE Locks' /\ Phases'
    BY <1>2, ClearSetsKeepsLocks, ReleaseKeepsLocks, QuietSteps DEF Ending
  <1>3. ASSUME NEW t \in Txns, Begin(t) \/ Commit(t) \/ Abort(t) PROVE Locks' /\ Phases'
    BY <1>3, QuietSteps
  <1>4. CASE UNCHANGED tmVars
    <2>1. /\ queue' = queue /\ waits' = waits /\ awake' = awake /\ txnState' = txnState
          /\ sharedSet' = sharedSet /\ exclusiveSet' = exclusiveSet
          /\ ending' = ending /\ crashed' = crashed
      BY <1>4 DEF tmVars, vars
    <2>2. \A u \in Txns : Ended(u) => Ended(u)'
      BY <2>1 DEF Ended
    <2>3. Locks'
      BY <2>1, <2>2, QuietKeeps DEF MInv, TMTypeOK
    <2>4. Phases'
      BY <2>1 DEF MInv, Phases
    <2>5. QED
      BY <2>3, <2>4
  <1>5. QED
    BY <1>1, <1>2, <1>3, <1>4 DEF TMNext

-----------------------------------------------------------------------------
(* What follows for callers that convert no lock and loops that run on.    *)

LEMMA MInvariant ==
  ASSUME "convert" \notin Calls, "end" \notin Dangling
  PROVE  TMSpec => []MInv
  BY MInit, MStep, PTL DEF TMSpec

\* No wake-up is lost, upgrades and aborted waiters included: whoever sleeps,
\* un-notified, is still blocked by a granted request.
THEOREM WakeupsArrive ==
  ASSUME "convert" \notin Calls, "end" \notin Dangling
  PROVE  TMSpec => []NoLostWakeup
  <1>1. MInv => NoLostWakeup
    <2> SUFFICES ASSUME MInv, NEW t \in Txns, NEW r \in Rids, waits[r][t] # "no", t \notin awake
                 PROVE  ~Grantable(queue[r], t, waits[r][t])
      BY DEF NoLostWakeup
    <2>1. TypeOK /\ Blocked(t, r)
      BY DEF MInv, TMTypeOK, Locks, SleepersAreBlocked
    <2>2. /\ NoExclusiveGranted(queue[r]) <=> \A u \in Txns : ~Granted(u, r, "EXCLUSIVE")
          /\ NoOtherGranted(queue[r], t)
               <=> \A u \in Txns, m \in LockMode : u # t => ~Granted(u, r, m)
      BY <2>1, Predicates
    <2>3. QED
      BY <2>1, <2>2 DEF Grantable, Blocked
  <1>2. QED
    BY MInvariant, <1>1, PTL

\* When Commit or Abort has returned, no queue has a granted request of the
\* transaction, although the loops iterate over the sets they erase from.
THEOREM EveryLockIsReleased ==
  ASSUME "convert" \notin Calls, "end" \notin Dangling
  PROVE  TMSpec => []EndReleasesAll
  <1>1. MInv => EndReleasesAll
    <2> SUFFICES ASSUME MInv, NEW t \in Txns, ending[t] = "done", NEW r \in Rids,
                        NEW i \in 1 .. Len(queue[r]), queue[r][i].txn = t, queue[r][i].granted
                 PROVE  FALSE
      BY DEF EndReleasesAll
    <2>1. PICK u \in Txns, m \in LockMode : queue[r][i].txn = u /\ Granted(u, r, m)
      BY RequestsAreSeen DEF MInv, TMTypeOK
    <2>2. r \notin sharedSet[t] /\ r \notin exclusiveSet[t]
      BY DEF MInv, Phases
    <2>3. QED
      BY <2>1, <2>2, Modes DEF MInv, Locks, GrantsAreHeld
  <1>2. QED
    BY MInvariant, <1>1, PTL

\* What transactions hold is compatible while nobody upgrades: an exclusive
\* lock set and the lock sets of the others have nothing in common.
THEOREM HoldersAreCompatible ==
  ASSUME Calls \subseteq {"shared", "exclusive"}, "end" \notin Dangling
  PROVE  TMSpec => []HeldCompatible
  <1>1. MInv => HeldCompatible
    <2> SUFFICES ASSUME MInv, NEW t \in Txns, NEW u \in Txns, t # u, NEW r \in exclusiveSet[t],
                        r \in sharedSet[u] \cup exclusiveSet[u]
                 PROVE  FALSE
      BY DEF HeldCompatible
    <2>1. r \in Rids
      BY DEF MInv, TMTypeOK, TypeOK
    <2>2. Granted(t, r, "EXCLUSIVE") /\ \E m \in LockMode : Granted(u, r, m)
      BY <2>1, Modes DEF MInv, Locks, GrantsAreHeld, PlainLocks
    <2>3. QED
      BY <2>1, <2>2 DEF MInv, Locks, Compatible
  <1>2. "convert" \notin Calls
    OBVIOUS
  <1>3. QED
    BY MInvariant, <1>1, <1>2, PTL

\* While nobody upgrades, the lock sets are exactly the granted requests, and a
\* transaction waits exactly where its request is not granted, through commits,
\* aborts of waiters and the release loops.
THEOREM SetsAreTheGrants ==
  ASSUME Calls \subseteq {"shared", "exclusive"}, "end" \notin Dangling
  PROVE  TMSpec => []SetsMatchQueues
  <1>1. MInv => SetsMatchQueues
    <2> SUFFICES ASSUME MInv, NEW t \in Txns, NEW r \in Rids
                 PROVE  LET mine == {i \in 1 .. Len(queue[r]) : queue[r][i].txn = t} IN
                        /\ r \in sharedSet[t] <=> Granted(t, r, "SHARED")
                        /\ r \in exclusiveSet[t] <=> Granted(t, r, "EXCLUSIVE")
                        /\ \A i, j \in mine : i = j
                        /\ (\E i \in mine : ~queue[r][i].granted) <=> waits[r][t] # "no"
      BY DEF SetsMatchQueues
    <2> DEFINE mine == {i \in 1 .. Len(queue[r]) : queue[r][i].txn = t}
    <2>1. /\ r \in sharedSet[t] <=> Granted(t, r, "SHARED")
          /\ r \in exclusiveSet[t] <=> Granted(t, r, "EXCLUSIVE")
      BY DEF MInv, Locks, GrantsAreHeld, PlainLocks
    <2>2. \A i, j \in mine : i = j
      BY DEF MInv, Locks, OneRequest, OneEach
    <2>3. (\E m \in LockMode : Asked(t, r, m)) <=> waits[r][t] # "no"
      <3>1. waits[r][t] \in WaitKind /\ waits[r][t] # "upgrade"
        BY DEF MInv, TMTypeOK, TypeOK, Locks, PlainLocks
      <3>2. /\ waits[r][t] = "shared" => Asked(t, r, "SHARED")
            /\ waits[r][t] = "exclusive" => Asked(t, r, "EXCLUSIVE")
        BY DEF MInv, Locks, WaitersAsk
      <3>3. /\ Asked(t, r, "SHARED") => waits[r][t] = "shared"
            /\ Asked(t, r, "EXCLUSIVE") => waits[r][t] = "exclusive"
        BY DEF MInv, Locks, AskersWait, PlainLocks
      <3>4. QED
        BY <3>1, <3>2, <3>3, Modes DEF WaitKind
    <2>4. ASSUME NEW i \in mine, ~queue[r][i].granted PROVE \E m \in LockMode : Asked(t, r, m)
      BY <2>4, RequestsAreSeen DEF MInv, TMTypeOK
    <2>5. ASSUME NEW m \in LockMode, Asked(t, r, m) PROVE \E i \in mine : ~queue[r][i].granted
      BY <2>5 DEF Asked, HasAsked
    <2>6. QED
      BY <2>1, <2>2, <2>3, <2>4, <2>5
  <1>2. "convert" \notin Calls
    OBVIOUS
  <1>3. QED
    BY MInvariant, <1>1, <1>2, PTL

-----------------------------------------------------------------------------
(* The lock table.                                                         *)

Readers == [r \in Rids |-> {t \in Txns : r \in sharedSet[t]}]
Writers == [r \in Rids |-> {t \in Txns : r \in exclusiveSet[t]}]
Growing == {t \in Txns : txnState[t] = "GROWING"}

LEMMA ReadersChange ==
  ASSUME TypeOK, NEW t \in Txns, NEW r \in Rids
  PROVE  /\ sharedSet' = [sharedSet EXCEPT ![t] = sharedSet[t] \cup {r}]
              => Readers' = [Readers EXCEPT ![r] = Readers[r] \cup {t}]
         /\ sharedSet' = [sharedSet EXCEPT ![t] = sharedSet[t] \ {r}]
              => Readers' = [Readers EXCEPT ![r] = Readers[r] \ {t}]
  <1>1. ASSUME sharedSet' = [sharedSet EXCEPT ![t] = sharedSet[t] \cup {r}]
        PROVE  Readers' = [Readers EXCEPT ![r] = Readers[r] \cup {t}]
    <2>1. \A u \in Txns, s \in Rids : s \in sharedSet'[u] <=> s \in sharedSet[u] \/ (u = t /\ s = r)
      BY <1>1 DEF TypeOK
    <2>2. \A s \in Rids : {u \in Txns : s \in sharedSet'[u]}
                          = IF s = r THEN {u \in Txns : s \in sharedSet[u]} \cup {t}
                            ELSE {u \in Txns : s \in sharedSet[u]}
      BY <2>1
    <2>3. QED
      BY <2>2 DEF Readers
  <1>2. ASSUME sharedSet' = [sharedSet EXCEPT ![t] = sharedSet[t] \ {r}]
        PROVE  Readers' = [Readers EXCEPT ![r] = Readers[r] \ {t}]
    <2>1. \A u \in Txns, s \in Rids : s \in sharedSet'[u] <=> s \in sharedSet[u] /\ ~(u = t /\ s = r)
      BY <1>2 DEF TypeOK
    <2>2. \A s \in Rids : {u \in Txns : s \in sharedSet'[u]}
                          = IF s = r THEN {u \in Txns : s \in sharedSet[u]} \ {t}
                            ELSE {u \in Txns : s \in sharedSet[u]}
      BY <2>1
    <2>3. QED
      BY <2>2 DEF Readers
  <1>3. QED
    BY <1>1, <1>2

LEMMA WritersChange ==
  ASSUME TypeOK, NEW t \in Txns, NEW r \in Rids
  PROVE  /\ exclusiveSet' = [exclusiveSet EXCEPT ![t] = exclusiveSet[t] \cup {r}]
              => Writers' = [Writers EXCEPT ![r] = Writers[r] \cup {t}]
         /\ exclusiveSet' = [exclusiveSet EXCEPT ![t] = exclusiveSet[t] \ {r}]
              => Writers' = [Writers EXCEPT ![r] = Writers[r] \ {t}]
         /\ exclusiveSet' = exclusiveSet /\ r \notin exclusiveSet[t]
              => Writers' = [Writers EXCEPT ![r] = Writers[r] \ {t}]
  <1>1. ASSUME exclusiveSet' = [exclusiveSet EXCEPT ![t] = exclusiveSet[t] \cup {r}]
        PROVE  Writers' = [Writers EXCEPT ![r] = Writers[r] \cup {t}]
    <2>1. \A u \in Txns, s \in Rids :
            s \in exclusiveSet'[u] <=> s \in exclusiveSet[u] \/ (u = t /\ s = r)
      BY <1>1 DEF TypeOK
    <2>2. \A s \in Rids : {u \in Txns : s \in exclusiveSet'[u]}
                          = IF s = r THEN {u \in Txns : s \in exclusiveSet[u]} \cup {t}
                            ELSE {u \in Txns : s \in exclusiveSet[u]}
      BY <2>1
    <2>3. QED
      BY <2>2 DEF Writers
  <1>2. ASSUME \/ exclusiveSet' = [exclusiveSet EXCEPT ![t] = exclusiveSet[t] \ {r}]
               \/ exclusiveSet' = exclusiveSet /\ r \notin exclusiveSet[t]
        PROVE  Writers' = [Writers EXCEPT ![r] = Writers[r] \ {t}]
    <2>1. \A u \in Txns, s \in Rids :
            s \in exclusiveSet'[u] <=> s \in exclusiveSet[u] /\ ~(u = t /\ s = r)
      BY <1>2 DEF TypeOK
    <2>2. \A s \in Rids : {u \in Txns : s \in exclusiveSet'[u]}
                          = IF s = r THEN {u \in Txns : s \in exclusiveSet[u]} \ {t}
                            ELSE {u \in Txns : s \in exclusiveSet[u]}
      BY <2>1
    <2>3. QED
      BY <2>2 DEF Writers
  <1>3. QED
    BY <1>1, <1>2

TableStutter == Readers' = Readers /\ Writers' = Writers /\ Growing' = Growing

TableStop(t) == Readers' = Readers /\ Writers' = Writers /\ Growing' = Growing \ {t}

TableShared(t, r) ==
  /\ t \in Growing /\ Writers[r] = {}
  /\ Readers' = [Readers EXCEPT ![r] = Readers[r] \cup {t}]
  /\ Writers' = Writers /\ Growing' = Growing

TableExclusive(t, r) ==
  /\ t \in Growing /\ Readers[r] \cup Writers[r] \subseteq {t}
  /\ Writers' = [Writers EXCEPT ![r] = Writers[r] \cup {t}]
  /\ Readers' = Readers /\ Growing' = Growing

TableRelease(t, r) ==
  /\ Readers' = [Readers EXCEPT ![r] = Readers[r] \ {t}]
  /\ Writers' = [Writers EXCEPT ![r] = Writers[r] \ {t}]
  /\ Growing' = Growing \ {t}

TableStep ==
  \/ TableStutter
  \/ \E t \in Txns :
       \/ TableStop(t)
       \/ \E r \in Rids : TableShared(t, r) \/ TableExclusive(t, r) \/ TableRelease(t, r)

LEMMA TableStepIsNext == TableStep => [Table!Next]_(Table!vars)
  BY DEF TableStep, TableStutter, TableStop, TableShared, TableExclusive, TableRelease,
         Readers, Writers, Growing, Table!Next, Table!vars, Table!Stop,
         Table!AcquireShared, Table!AcquireExclusive, Table!Release

\* The lock sets say who the granted requests are of.
LEMMA TableFacts ==
  ASSUME MInv, "upgrade" \notin Calls, NEW t \in Txns, NEW r \in Rids
  PROVE  /\ NoExclusiveGranted(queue[r]) => Writers[r] = {}
         /\ NoOtherGranted(queue[r], t) => Readers[r] \cup Writers[r] \subseteq {t}
         /\ txnState[t] = "GROWING" => t \in Growing
  <1>1. TypeOK
    BY DEF MInv, TMTypeOK
  <1>2. /\ NoExclusiveGranted(queue[r]) <=> \A u \in Txns : ~Granted(u, r, "EXCLUSIVE")
        /\ NoOtherGranted(queue[r], t)
             <=> \A u \in Txns, m \in LockMode : u # t => ~Granted(u, r, m)
    BY <1>1, Predicates
  <1>3. \A u \in Txns : /\ r \in sharedSet[u] => Granted(u, r, "SHARED")
                        /\ r \in exclusiveSet[u] => Granted(u, r, "EXCLUSIVE")
    BY DEF MInv, Locks, GrantsAreHeld, PlainLocks
  <1>4. QED
    BY <1>2, <1>3, Modes DEF Readers, Writers, Growing

LEMMA QuietTable ==
  ASSUME sharedSet' = sharedSet, exclusiveSet' = exclusiveSet,
         \A u \in Txns : txnState'[u] = "GROWING" <=> txnState[u] = "GROWING"
  PROVE  TableStep
  <1>1. Readers' = Readers /\ Writers' = Writers
    BY DEF Readers, Writers
  <1>2. Growing' = Growing
    BY DEF Growing
  <1>3. QED
    BY <1>1, <1>2 DEF TableStep, TableStutter

LEMMA StopTable ==
  ASSUME NEW t \in Txns, sharedSet' = sharedSet, exclusiveSet' = exclusiveSet,
         txnState'[t] # "GROWING",
         \A u \in Txns : u # t => txnState'[u] = txnState[u]
  PROVE  TableStep
  <1>1. Readers' = Readers /\ Writers' = Writers
    BY DEF Readers, Writers
  <1>2. Growing' = Growing \ {t}
    BY DEF Growing
  <1>3. QED
    BY <1>1, <1>2 DEF TableStep, TableStop

LEMMA SharedTable ==
  ASSUME MInv, "upgrade" \notin Calls, NEW t \in Txns, NEW r \in Rids,
         NoExclusiveGranted(queue[r]), txnState[t] = "GROWING", txnState' = txnState,
         sharedSet' = [sharedSet EXCEPT ![t] = sharedSet[t] \cup {r}],
         exclusiveSet' = exclusiveSet
  PROVE  TableStep
  <1>1. TypeOK
    BY DEF MInv, TMTypeOK
  <1>2. Writers[r] = {} /\ t \in Growing
    BY TableFacts
  <1>3. Readers' = [Readers EXCEPT ![r] = Readers[r] \cup {t}]
    BY <1>1, ReadersChange
  <1>4. Writers' = Writers /\ Growing' = Growing
    BY DEF Writers, Growing
  <1>5. QED
    BY <1>2, <1>3, <1>4 DEF TableStep, TableShared

LEMMA ExclusiveTable ==
  ASSUME MInv, "upgrade" \notin Calls, NEW t \in Txns, NEW r \in Rids,
         NoOtherGranted(queue[r], t), txnState[t] = "GROWING", txnState' = txnState,
         exclusiveSet' = [exclusiveSet EXCEPT ![t] = exclusiveSet[t] \cup {r}],
         sharedSet' = sharedSet
  PROVE  TableStep
  <1>1. TypeOK
    BY DEF MInv, TMTypeOK
  <1>2. Readers[r] \cup Writers[r] \subseteq {t} /\ t \in Growing
    BY TableFacts
  <1>3. Writers' = [Writers EXCEPT ![r] = Writers[r] \cup {t}]
    BY <1>1, WritersChange
  <1>4. Readers' = Readers /\ Growing' = Growing
    BY DEF Readers, Growing
  <1>5. QED
    BY <1>2, <1>3, <1>4 DEF TableStep, TableExclusive

LEMMA ReleaseTable ==
  ASSUME MInv, NEW t \in Txns, NEW r \in Rids,
         sharedSet' = [sharedSet EXCEPT ![t] = sharedSet[t] \ {r}],
         \/ exclusiveSet' = [exclusiveSet EXCEPT ![t] = exclusiveSet[t] \ {r}]
         \/ exclusiveSet' = exclusiveSet /\ r \notin exclusiveSet[t],
         txnState'[t] # "GROWING", \A u \in Txns : u # t => txnState'[u] = txnState[u]
  PROVE  TableStep
  <1>1. TypeOK
    BY DEF MInv, TMTypeOK
  <1>2. Readers' = [Readers EXCEPT ![r] = Readers[r] \ {t}]
    BY <1>1, ReadersChange
  <1>3. Writers' = [Writers EXCEPT ![r] = Writers[r] \ {t}]
    BY <1>1, WritersChange
  <1>4. Growing' = Growing \ {t}
    BY DEF Growing
  <1>5. QED
    BY <1>2, <1>3, <1>4 DEF TableStep, TableRelease

LEMMA TableRefinement ==
  ASSUME Calls \subseteq {"shared", "exclusive"}, "end" \notin Dangling
  PROVE  MInv /\ [TMNext]_tmVars => TableStep
  <1> SUFFICES ASSUME MInv, [TMNext]_tmVars PROVE TableStep
    OBVIOUS
  <1>1. TypeOK /\ "upgrade" \notin Calls
    BY DEF MInv, TMTypeOK
  <1>2. ASSUME NEW t \in Txns, NEW r \in Rids, LockShared(t, r) PROVE TableStep
    <2> DEFINE a == Append(queue[r], Request(t, "SHARED"))
    <2>1. /\ txnState' = txnState /\ exclusiveSet' = exclusiveSet /\ txnState[t] = "GROWING"
          /\ \/ /\ NoExclusiveGranted(a)
                /\ sharedSet' = [sharedSet EXCEPT ![t] = sharedSet[t] \cup {r}]
             \/ sharedSet' = sharedSet
      BY <1>2 DEF LockShared
    <2>2. queue[r] \in Seq(LockRequest) /\ a = Append(queue[r], Request(t, "SHARED"))
      BY <1>1 DEF TypeOK
    <2> HIDE DEF a
    <2>3. NoExclusiveGranted(a) <=> NoExclusiveGranted(queue[r])
      <3>1. \A b : \A q \in Seq(LockRequest), m \in LockMode :
              b = Append(q, Request(t, m)) => (NoExclusiveGranted(b) <=> NoExclusiveGranted(q))
        BY AppendedPredicates, Zenon
      <3>2. QED
        BY <2>2, <3>1, Modes
    <2>4. CASE sharedSet' = sharedSet
      BY <2>1, <2>4, QuietTable
    <2>5. CASE /\ NoExclusiveGranted(a)
               /\ sharedSet' = [sharedSet EXCEPT ![t] = sharedSet[t] \cup {r}]
      BY <1>1, <2>1, <2>3, <2>5, SharedTable
    <2>6. QED
      BY <2>1, <2>4, <2>5
  <1>3. ASSUME NEW t \in Txns, NEW r \in Rids, LockExclusive(t, r) PROVE TableStep
    <2> DEFINE a == Append(queue[r], Request(t, "EXCLUSIVE"))
    <2>1. /\ txnState' = txnState /\ sharedSet' = sharedSet /\ txnState[t] = "GROWING"
          /\ \/ /\ NoOtherGranted(a, t)
                /\ exclusiveSet' = [exclusiveSet EXCEPT ![t] = exclusiveSet[t] \cup {r}]
             \/ exclusiveSet' = exclusiveSet
      BY <1>3 DEF LockExclusive
    <2>2. queue[r] \in Seq(LockRequest) /\ a = Append(queue[r], Request(t, "EXCLUSIVE"))
      BY <1>1 DEF TypeOK
    <2> HIDE DEF a
    <2>3. NoOtherGranted(a, t) <=> NoOtherGranted(queue[r], t)
      <3>1. \A b : \A q \in Seq(LockRequest), m \in LockMode :
              b = Append(q, Request(t, m)) => (NoOtherGranted(b, t) <=> NoOtherGranted(q, t))
        BY AppendedPredicates, Zenon
      <3>2. QED
        BY <2>2, <3>1, Modes
    <2>4. CASE exclusiveSet' = exclusiveSet
      BY <2>1, <2>4, QuietTable
    <2>5. CASE /\ NoOtherGranted(a, t)
               /\ exclusiveSet' = [exclusiveSet EXCEPT ![t] = exclusiveSet[t] \cup {r}]
      BY <1>1, <2>1, <2>3, <2>5, ExclusiveTable
    <2>6. QED
      BY <2>1, <2>4, <2>5
  <1>4. ASSUME NEW t \in Txns, NEW r \in Rids, WakeGranted(t, r) PROVE TableStep
    <2>1. txnState' = txnState /\ txnState[t] = "GROWING" /\ waits[r][t] # "upgrade"
      BY <1>1, <1>4 DEF WakeGranted, MInv, States, Locks, PlainLocks
    <2>2. CASE waits[r][t] = "shared"
      BY <1>1, <1>4, <2>1, <2>2, SharedTable DEF WakeGranted, Grantable
    <2>3. CASE waits[r][t] # "shared"
      BY <1>1, <1>4, <2>1, <2>3, ExclusiveTable DEF WakeGranted, Grantable
    <2>4. QED
      BY <2>2, <2>3
  <1>5. ASSUME NEW t \in Txns, NEW r \in Rids, Unlock(t, r) PROVE TableStep
    <2>1. /\ sharedSet' = [sharedSet EXCEPT ![t] = sharedSet[t] \ {r}]
          /\ exclusiveSet' = [exclusiveSet EXCEPT ![t] = exclusiveSet[t] \ {r}]
      BY <1>5 DEF Unlock
    <2>2. txnState'[t] # "GROWING" /\ \A u \in Txns : u # t => txnState'[u] = txnState[u]
      BY <1>1, <1>5 DEF Unlock, TypeOK
    <2>3. QED
      BY <2>1, <2>2, ReleaseTable
  <1>6. ASSUME NEW t \in Txns, NEW r \in Rids, NEW outcome \in Dangling,
               ReleaseShared(t, r, outcome) \/ ReleaseExclusive(t, r, outcome)
        PROVE  TableStep
    <2>1. Ended(t) /\ txnState' = txnState
      BY <1>6 DEF ReleaseShared, ReleaseExclusive, ReleaseRequest, Ended
    <2>2. txnState[t] # "GROWING"
      BY <2>1 DEF MInv, States
    <2>3. /\ sharedSet' = [sharedSet EXCEPT ![t] = sharedSet[t] \ {r}]
          /\ \/ exclusiveSet' = [exclusiveSet EXCEPT ![t] = exclusiveSet[t] \ {r}]
             \/ exclusiveSet' = exclusiveSet /\ r \notin exclusiveSet[t]
      BY <1>6 DEF ReleaseShared, ReleaseExclusive, MInv, Locks, Disjoint
    <2>4. QED
      BY <2>1, <2>2, <2>3, ReleaseTable
  <1>7. ASSUME NEW t \in Txns, ~crashed, ClearSets(t) PROVE TableStep
    <2>1. \A r \in Rids : r \notin sharedSet[t] /\ r \notin exclusiveSet[t]
      BY <1>7 DEF ClearSets, MInv, Phases
    <2>2. sharedSet[t] = {} /\ exclusiveSet[t] = {}
      BY <1>1, <2>1 DEF TypeOK
    <2>3. sharedSet' = sharedSet /\ exclusiveSet' = exclusiveSet /\ txnState' = txnState
      BY <1>1, <1>7, <2>2 DEF ClearSets, TypeOK
    <2>4. QED
      BY <2>3, QuietTable
  <1>8. ASSUME NEW t \in Txns, Commit(t) \/ Abort(t) PROVE TableStep
    <2>1. /\ sharedSet' = sharedSet /\ exclusiveSet' = exclusiveSet
          /\ txnState'[t] # "GROWING" /\ \A u \in Txns : u # t => txnState'[u] = txnState[u]
      BY <1>1, <1>8 DEF Commit, Abort, TypeOK
    <2>2. QED
      BY <2>1, StopTable
  <1>9. ASSUME NEW t \in Txns, Refused(t) PROVE TableStep
    <2>1. /\ sharedSet' = sharedSet /\ exclusiveSet' = exclusiveSet
          /\ \A u \in Txns : txnState'[u] = "GROWING" <=> txnState[u] = "GROWING"
      BY <1>1, <1>9 DEF Refused, TypeOK
    <2>2. QED
      BY <2>1, QuietTable
  <1>10. ASSUME NEW t \in Txns, NEW r \in Rids,
                \/ SleepAgain(t, r) \/ AlreadyHeld(t, r) \/ WakeAborted(t, r)
         PROVE  TableStep
    BY <1>10, QuietTable DEF SleepAgain, AlreadyHeld, WakeAborted, vars
  <1>11. ASSUME NEW t \in Txns, Begin(t) \/ SkipLoop(t) \/ SpuriousWake(t) PROVE TableStep
    BY <1>11, QuietTable DEF Begin, SkipLoop, SpuriousWake, vars
  <1>12. CASE UNCHANGED tmVars
    BY <1>12, QuietTable DEF tmVars, vars
  <1>13. ASSUME NEW t \in Txns, NEW r \in Rids, LockStep(t, r) PROVE TableStep
    <2>1. ~UpgradeConflict(t, r) /\ ~UpgradeNothing(t, r) /\ ~LockUpgrade(t, r)
      BY <1>1 DEF UpgradeConflict, UpgradeNothing, LockUpgrade
    <2>2. QED
      BY <1>2, <1>3, <1>4, <1>10, <1>13, <2>1 DEF LockStep
  <1>14. ASSUME NEW t \in Txns, Locking(t) PROVE TableStep
    BY <1>4, <1>5, <1>9, <1>10, <1>11, <1>13, <1>14 DEF Locking
  <1>15. ASSUME NEW t \in Txns, ~crashed, Ending(t) PROVE TableStep
    BY <1>6, <1>7, <1>11, <1>15 DEF Ending
  <1>16. QED
    BY <1>8, <1>11, <1>12, <1>14, <1>15 DEF TMNext

\* While nobody upgrades, blocking, waking, aborting and the release loops are
\* together a two-phase lock table: every change of the lock sets is a compatible
\* acquisition by a growing transaction or a release that ends its growing.
THEOREM LockTableImplemented ==
  ASSUME Calls \subseteq {"shared", "exclusive"}, "end" \notin Dangling
  PROVE  TMSpec => ImplementsLockTable
  <1>1. TMInit => Table!Init
    BY DEF TMInit, Init, Table!Init
  <1>2. MInv /\ [TMNext]_tmVars => [Table!Next]_(Table!vars)
    BY TableRefinement, TableStepIsNext
  <1>3. "convert" \notin Calls
    OBVIOUS
  <1>4. QED
    BY MInvariant, <1>1, <1>2, <1>3, PTL DEF TMSpec, ImplementsLockTable, Table!Spec

-----------------------------------------------------------------------------
\* The compatibility matrix and the single writer survive commits, aborts of
\* waiting transactions and the release loops, upgrades included.
THEOREM TransactionsAreIsolated ==
  ASSUME "convert" \notin Calls, "end" \notin Dangling
  PROVE  TMSpec => [](GrantedCompatible /\ OneWriter)
  <1>1. MInv => GrantedCompatible
    <2> SUFFICES ASSUME MInv, NEW r \in Rids,
                        NEW i \in 1 .. Len(queue[r]), NEW j \in 1 .. Len(queue[r]),
                        queue[r][i].granted, queue[r][i].mode = "EXCLUSIVE", queue[r][j].granted
                 PROVE  queue[r][i].txn = queue[r][j].txn
      BY DEF GrantedCompatible
    <2>1. PICK t \in Txns : queue[r][i].txn = t /\ Granted(t, r, "EXCLUSIVE")
      BY RequestsAreSeen DEF MInv, TMTypeOK
    <2>2. PICK u \in Txns, m \in LockMode : queue[r][j].txn = u /\ Granted(u, r, m)
      BY RequestsAreSeen DEF MInv, TMTypeOK
    <2>3. QED
      BY <2>1, <2>2 DEF MInv, Locks, Compatible
  <1>2. MInv => OneWriter
    <2> SUFFICES ASSUME MInv, NEW t \in Txns, NEW u \in Txns,
                        NEW r \in exclusiveSet[t], r \in exclusiveSet[u]
                 PROVE  t = u
      BY DEF OneWriter
    <2>1. r \in Rids
      BY DEF MInv, TMTypeOK, TypeOK
    <2>2. QED
      BY <2>1, Modes DEF MInv, Locks, GrantsAreHeld, Compatible
  <1>3. QED
    BY MInvariant, <1>1, <1>2, PTL
=============================================================================
