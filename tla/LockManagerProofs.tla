------------------------- MODULE LockManagerProofs -------------------------
(***************************************************************************)
(* Type correctness of the lock manager, and that no two transactions ever *)
(* hold a resource exclusively, for any number of transactions and         *)
(* resources and any mixture of calls.                                     *)
(***************************************************************************)
EXTENDS LockManager, TLAPS

-----------------------------------------------------------------------------
(* What the queue operators do.                                            *)

LEMMA WithoutType ==
  ASSUME NEW q \in Seq(LockRequest), NEW i \in 1 .. Len(q)
  PROVE  /\ Without(q, i) \in Seq(LockRequest)
         /\ Len(Without(q, i)) = Len(q) - 1
         /\ \A j \in 1 .. Len(q) - 1 :
              Without(q, i)[j] = IF j < i THEN q[j] ELSE q[j + 1]
  <1>1. Len(q) \in Nat /\ Len(q) - 1 \in Nat
    OBVIOUS
  <1>2. \A j \in 1 .. Len(q) - 1 : j \in 1 .. Len(q) /\ j + 1 \in 1 .. Len(q)
    BY <1>1
  <1>3. \A j \in 1 .. Len(q) : q[j] \in LockRequest
    OBVIOUS
  <1>4. Without(q, i) \in [1 .. Len(q) - 1 -> LockRequest]
    BY <1>2, <1>3 DEF Without
  <1>5. QED
    BY <1>1, <1>4 DEF Without

LEMMA RequestType ==
  ASSUME NEW t \in Txns, NEW m \in LockMode
  PROVE  Request(t, m) \in LockRequest
  BY DEF Request, LockRequest

LEMMA RemoveRequestCases ==
  ASSUME NEW q \in Seq(LockRequest), NEW t \in Txns
  PROVE  \/ RemoveRequest(q, t) = q
         \/ \E i \in 1 .. Len(q) : q[i].txn = t /\ RemoveRequest(q, t) = Without(q, i)
  BY DEF RemoveRequest, IsFirst

LEMMA WaitsType ==
  ASSUME waits \in [Rids -> [Txns -> WaitKind]],
         NEW r \in Rids, NEW t \in Txns, NEW kind \in WaitKind
  PROVE  [waits EXCEPT ![r][t] = kind] \in [Rids -> [Txns -> WaitKind]]
  <1> DEFINE row == [waits[r] EXCEPT ![t] = kind]
  <1>1. row \in [Txns -> WaitKind]
    OBVIOUS
  <1>2. [waits EXCEPT ![r][t] = kind] = [waits EXCEPT ![r] = row]
    OBVIOUS
  <1> HIDE DEF row
  <1>3. QED
    BY <1>1, <1>2

LEMMA WaitKinds ==
  /\ "no" \in WaitKind /\ "shared" \in WaitKind
  /\ "exclusive" \in WaitKind /\ "upgrade" \in WaitKind
  BY DEF WaitKind

-----------------------------------------------------------------------------
LEMMA TypeInit == Init => TypeOK
  BY DEF Init, TypeOK, TransactionState, WaitKind

LEMMA GrantedRequest ==
  ASSUME NEW q \in Seq(LockRequest), NEW i \in 1 .. Len(q)
  PROVE  /\ [q EXCEPT ![i].granted = TRUE] \in Seq(LockRequest)
         /\ Len([q EXCEPT ![i].granted = TRUE]) = Len(q)
  <1>1. q[i] \in LockRequest
    OBVIOUS
  <1>2. [q[i] EXCEPT !.granted = TRUE] \in LockRequest
    BY <1>1 DEF LockRequest
  <1>3. QED
    BY <1>2

LEMMA TypeStep == TypeOK /\ [Next]_vars => TypeOK'
  <1> SUFFICES ASSUME TypeOK, [Next]_vars PROVE TypeOK'
    OBVIOUS
  <1>1. ASSUME NEW t \in Txns, NEW r \in Rids, LockShared(t, r) PROVE TypeOK'
    <2> DEFINE q == Append(queue[r], Request(t, "SHARED"))
    <2>1. q \in Seq(LockRequest) /\ Len(q) \in 1 .. Len(q)
      BY RequestType DEF LockMode, TypeOK
    <2>2. [q EXCEPT ![Len(q)].granted = TRUE] \in Seq(LockRequest)
      BY <2>1, GrantedRequest
    <2>3. \/ /\ queue' = [queue EXCEPT ![r] = [q EXCEPT ![Len(q)].granted = TRUE]]
             /\ waits' = waits
          \/ /\ queue' = [queue EXCEPT ![r] = q]
             /\ waits' = [waits EXCEPT ![r][t] = "shared"]
      BY <1>1 DEF LockShared, GrantNew, Sleep
    <2> HIDE DEF q
    <2>4. queue' \in [Rids -> Seq(LockRequest)]
      BY <2>1, <2>2, <2>3 DEF TypeOK
    <2>5. [waits EXCEPT ![r][t] = "shared"] \in [Rids -> [Txns -> WaitKind]]
      BY WaitsType, WaitKinds DEF TypeOK
    <2>6. waits' \in [Rids -> [Txns -> WaitKind]]
      BY <2>3, <2>5 DEF TypeOK
    <2>7. QED
      BY <1>1, <2>4, <2>6, SMTT(60) DEF LockShared, GrantNew, Sleep, TypeOK
  <1>2. ASSUME NEW t \in Txns, NEW r \in Rids, LockExclusive(t, r) PROVE TypeOK'
    <2> DEFINE q == Append(queue[r], Request(t, "EXCLUSIVE"))
    <2>1. q \in Seq(LockRequest) /\ Len(q) \in 1 .. Len(q)
      BY RequestType DEF LockMode, TypeOK
    <2>2. [q EXCEPT ![Len(q)].granted = TRUE] \in Seq(LockRequest)
      BY <2>1, GrantedRequest
    <2>3. \/ /\ queue' = [queue EXCEPT ![r] = [q EXCEPT ![Len(q)].granted = TRUE]]
             /\ waits' = waits
          \/ /\ queue' = [queue EXCEPT ![r] = q]
             /\ waits' = [waits EXCEPT ![r][t] = "exclusive"]
      BY <1>2 DEF LockExclusive, GrantNew, Sleep
    <2> HIDE DEF q
    <2>4. queue' \in [Rids -> Seq(LockRequest)]
      BY <2>1, <2>2, <2>3 DEF TypeOK
    <2>5. [waits EXCEPT ![r][t] = "exclusive"] \in [Rids -> [Txns -> WaitKind]]
      BY WaitsType, WaitKinds DEF TypeOK
    <2>6. waits' \in [Rids -> [Txns -> WaitKind]]
      BY <2>3, <2>5 DEF TypeOK
    <2>7. exclusiveSet' \in [Txns -> SUBSET Rids]
      BY <1>2 DEF LockExclusive, TypeOK
    <2>8. awake' = awake
      BY <1>2 DEF LockExclusive, GrantNew, Sleep
    <2>9. QED
      BY <1>2, <2>4, <2>6, <2>7, <2>8 DEF LockExclusive, TypeOK
  <1>3. ASSUME NEW t \in Txns, NEW r \in Rids, LockUpgrade(t, r) PROVE TypeOK'
    <2>1. PICK i \in 1 .. Len(queue[r]) :
            \/ queue' = [queue EXCEPT ![r][i].mode = "EXCLUSIVE"]
            \/ queue' = [queue EXCEPT ![r][i] = Request(t, "EXCLUSIVE")]
      BY <1>3 DEF LockUpgrade
    <2>2. queue[r][i] \in LockRequest
      BY DEF TypeOK
    <2>3. [queue[r][i] EXCEPT !.mode = "EXCLUSIVE"] \in LockRequest
      BY <2>2 DEF LockRequest, LockMode
    <2>4. Request(t, "EXCLUSIVE") \in LockRequest
      BY RequestType DEF LockMode
    <2>5. /\ [queue[r] EXCEPT ![i].mode = "EXCLUSIVE"] \in Seq(LockRequest)
          /\ [queue[r] EXCEPT ![i] = Request(t, "EXCLUSIVE")] \in Seq(LockRequest)
      BY <2>3, <2>4 DEF TypeOK
    <2>6. queue' \in [Rids -> Seq(LockRequest)]
      BY <2>1, <2>5 DEF TypeOK
    <2>7. [waits EXCEPT ![r][t] = "upgrade"] \in [Rids -> [Txns -> WaitKind]]
      BY WaitsType, WaitKinds DEF TypeOK
    <2>8. waits' \in [Rids -> [Txns -> WaitKind]]
      BY <1>3, <2>7 DEF LockUpgrade, TypeOK
    <2>9. /\ sharedSet' \in [Txns -> SUBSET Rids]
          /\ exclusiveSet' \in [Txns -> SUBSET Rids]
          /\ upgrading' \in SUBSET Rids
      <3>1. sharedSet[t] \ {r} \in SUBSET Rids /\ exclusiveSet[t] \cup {r} \in SUBSET Rids
        BY DEF TypeOK
      <3>2. /\ sharedSet' = sharedSet \/ sharedSet' = [sharedSet EXCEPT ![t] = sharedSet[t] \ {r}]
            /\ exclusiveSet' = exclusiveSet
               \/ exclusiveSet' = [exclusiveSet EXCEPT ![t] = exclusiveSet[t] \cup {r}]
            /\ upgrading' = upgrading \/ upgrading' = upgrading \cup {r}
        BY <1>3 DEF LockUpgrade
      <3>3. QED
        BY <3>1, <3>2 DEF TypeOK
    <2>10. QED
      BY <1>3, <2>6, <2>8, <2>9 DEF LockUpgrade, TypeOK
  <1>4. ASSUME NEW t \in Txns, NEW r \in Rids, WakeGranted(t, r) PROVE TypeOK'
    <2>1. PICK i \in 1 .. Len(queue[r]) :
            queue' = [queue EXCEPT ![r][i].granted = TRUE]
      BY <1>4 DEF WakeGranted
    <2>2. queue' \in [Rids -> Seq(LockRequest)]
      BY <2>1, GrantedRequest DEF TypeOK
    <2>3. [waits EXCEPT ![r][t] = "no"] \in [Rids -> [Txns -> WaitKind]]
      BY WaitsType, WaitKinds DEF TypeOK
    <2>4. waits' \in [Rids -> [Txns -> WaitKind]]
      BY <1>4, <2>3 DEF WakeGranted
    <2>5. sharedSet' \in [Txns -> SUBSET Rids]
      <3>1. sharedSet[t] \ {r} \in SUBSET Rids /\ sharedSet[t] \cup {r} \in SUBSET Rids
        BY DEF TypeOK
      <3>2. \/ sharedSet' = sharedSet
            \/ sharedSet' = [sharedSet EXCEPT ![t] = sharedSet[t] \ {r}]
            \/ sharedSet' = [sharedSet EXCEPT ![t] = sharedSet[t] \cup {r}]
        BY <1>4 DEF WakeGranted
      <3>3. QED
        BY <3>1, <3>2 DEF TypeOK
    <2>6. exclusiveSet' \in [Txns -> SUBSET Rids]
      BY <1>4 DEF WakeGranted, TypeOK
    <2>7. upgrading' \in SUBSET Rids /\ awake' \in SUBSET Txns
      BY <1>4 DEF WakeGranted, TypeOK
    <2>8. QED
      BY <1>4, <2>2, <2>4, <2>5, <2>6, <2>7 DEF WakeGranted, TypeOK
  <1>5. ASSUME NEW t \in Txns, NEW r \in Rids, WakeAborted(t, r) PROVE TypeOK'
    <2>1. queue' \in [Rids -> Seq(LockRequest)]
      <3>1. ASSUME NEW i \in 1 .. Len(queue[r]),
                   queue' = [queue EXCEPT ![r] = Without(queue[r], i)]
            PROVE  queue' \in [Rids -> Seq(LockRequest)]
        <4>1. Without(queue[r], i) \in Seq(LockRequest)
          BY WithoutType DEF TypeOK
        <4>2. QED
          BY <3>1, <4>1 DEF TypeOK
      <3>2. QED
        BY <1>5, <3>1 DEF WakeAborted, TypeOK
    <2>2. [waits EXCEPT ![r][t] = "no"] \in [Rids -> [Txns -> WaitKind]]
      BY WaitsType, WaitKinds DEF TypeOK
    <2>3. waits' \in [Rids -> [Txns -> WaitKind]]
      BY <1>5, <2>2 DEF WakeAborted
    <2>4. QED
      BY <1>5, <2>1, <2>3 DEF WakeAborted, TypeOK
  <1>6. ASSUME NEW t \in Txns, NEW r \in Rids, Unlock(t, r) PROVE TypeOK'
    <2>1. RemoveRequest(queue[r], t) \in Seq(LockRequest)
      BY RemoveRequestCases, WithoutType DEF TypeOK
    <2>2. QED
      BY <1>6, <2>1 DEF Unlock, Notify, TransactionState, TypeOK
  <1>7. ASSUME NEW t \in Txns, NEW r \in Rids,
               \/ AlreadyHeld(t, r) \/ UpgradeConflict(t, r)
               \/ UpgradeNothing(t, r) \/ SleepAgain(t, r)
        PROVE TypeOK'
    BY <1>7 DEF AlreadyHeld, UpgradeConflict, UpgradeNothing, SleepAgain,
                TransactionState, vars, TypeOK
  <1>8. ASSUME NEW t \in Txns, Refused(t) \/ SpuriousWake(t) \/ AbortWaiting(t) PROVE TypeOK'
    BY <1>8 DEF Refused, SpuriousWake, AbortWaiting, TransactionState, TypeOK
  <1>9. CASE UNCHANGED vars
    BY <1>9 DEF vars, TypeOK
  <1>10. QED
    BY <1>1, <1>2, <1>3, <1>4, <1>5, <1>6, <1>7, <1>8, <1>9 DEF Next, LockStep

\* Every variable of the lock manager keeps its type.
THEOREM TypeCorrect == Spec => []TypeOK
  BY TypeInit, TypeStep, PTL DEF Spec

-----------------------------------------------------------------------------
(* A queue after a call has appended its request, granted at once or not.  *)

LEMMA AppendedRequest ==
  ASSUME NEW q \in Seq(LockRequest), NEW t \in Txns, NEW m \in LockMode,
         NEW a, a = Append(q, Request(t, m))
  PROVE  /\ Len(a) = Len(q) + 1
         /\ \A i \in 1 .. Len(q) : a[i] = q[i]
         /\ a[Len(q) + 1] = Request(t, m)
         /\ a \in Seq(LockRequest)
  BY RequestType

LEMMA WaitsAt ==
  ASSUME TypeOK, NEW r \in Rids, NEW t \in Txns, NEW kind,
         waits' = [waits EXCEPT ![r][t] = kind]
  PROVE  \A s \in Rids, u \in Txns :
           waits'[s][u] = IF s = r /\ u = t THEN kind ELSE waits[s][u]
  BY DEF TypeOK

LEMMA RequestersAreTxns ==
  ASSUME TypeOK
  PROVE  \A s \in Rids : \A j \in 1 .. Len(queue[s]) : queue[s][j].txn \in Txns
  <1>1. \A s \in Rids : \A j \in 1 .. Len(queue[s]) : queue[s][j] \in LockRequest
    BY DEF TypeOK
  <1>2. QED
    BY <1>1 DEF LockRequest

\* A thread that is in no call and whose transaction grows has no request
\* that waits to be granted.
LEMMA IdleHasNoUngranted ==
  ASSUME TypeOK, UngrantedWaits, NEW t \in Txns, Idle(t), txnState[t] = "GROWING",
         NEW r \in Rids, NEW i \in 1 .. Len(queue[r]), queue[r][i].txn = t
  PROVE  queue[r][i].granted
  BY DEF UngrantedWaits, Idle

Shape == GrantedCompatible /\ ExclusiveIsGranted /\ UngrantedWaits /\ OneUngranted

\* A request granted on arrival.
LEMMA GrantNewKeeps ==
  ASSUME IInv, NEW t \in Txns, NEW r \in Rids, NEW m \in LockMode, NEW a,
         a = Append(queue[r], Request(t, m)),
         Idle(t), txnState[t] = "GROWING", GrantNew(t, r, a),
         txnState' = txnState,
         \/ m = "SHARED" /\ NoExclusiveGranted(a) /\ exclusiveSet' = exclusiveSet
         \/ /\ m = "EXCLUSIVE" /\ NoOtherGranted(a, t)
            /\ exclusiveSet' = [exclusiveSet EXCEPT ![t] = exclusiveSet[t] \cup {r}]
  PROVE  Shape'
  <1> DEFINE q == queue[r]
             n == Len(q)
             g == [a EXCEPT ![Len(a)].granted = TRUE]
  <1>1. q \in Seq(LockRequest) /\ n \in Nat /\ TypeOK
    BY DEF IInv, TypeOK
  <1>2. Len(a) = n + 1 /\ \A i \in 1 .. n : a[i] = q[i]
    BY <1>1, AppendedRequest
  <1>3. /\ Len(g) = n + 1
        /\ \A i \in 1 .. n : g[i] = q[i]
        /\ g[n + 1].txn = t /\ g[n + 1].mode = m /\ g[n + 1].granted
    <2> DEFINE new == [Request(t, m) EXCEPT !.granted = TRUE]
    <2>1. a[n + 1] = Request(t, m) /\ a \in Seq(LockRequest) /\ n + 1 \in 1 .. Len(a)
      BY <1>1, <1>2, AppendedRequest
    <2>2. Len(g) = n + 1
      BY <1>2, <2>1, GrantedRequest
    <2>3. g = [a EXCEPT ![n + 1] = new]
      BY <1>2, <2>1
    <2>4. new.txn = t /\ new.mode = m /\ new.granted
      BY DEF Request
    <2>5. DOMAIN a = 1 .. n + 1 /\ \A i \in 1 .. n : i \in 1 .. n + 1 /\ i # n + 1
      BY <1>1, <1>2, <2>1
    <2> HIDE DEF new, g, n
    <2>6. g[n + 1] = new
      BY <2>1, <2>3, <2>5
    <2>7. \A i \in 1 .. n : g[i] = a[i]
      BY <2>3, <2>5
    <2>8. QED
      BY <1>2, <2>2, <2>4, <2>6, <2>7
  <1>4. /\ queue'[r] = g /\ \A s \in Rids : s # r => queue'[s] = queue[s]
        /\ waits' = waits
    BY <1>1 DEF GrantNew, TypeOK
  <1>5. /\ m = "SHARED" => \A i \in 1 .. n : q[i].granted => q[i].mode = "SHARED"
        /\ m = "EXCLUSIVE" => \A i \in 1 .. n : q[i].granted => q[i].txn = t
    BY <1>1, <1>2 DEF NoExclusiveGranted, NoOtherGranted
  <1>6. m = "SHARED" \/ m = "EXCLUSIVE"
    BY DEF LockMode
  <1>7. \A i \in 1 .. n + 1 : i \in 1 .. n \/ i = n + 1
    BY <1>1
  <1> HIDE DEF n, g
  <1>8. GrantedCompatible'
    <2> SUFFICES ASSUME NEW s \in Rids, NEW i \in 1 .. Len(queue'[s]), NEW j \in 1 .. Len(queue'[s]),
                        queue'[s][i].granted, queue'[s][i].mode = "EXCLUSIVE",
                        queue'[s][j].granted
                 PROVE  queue'[s][i].txn = queue'[s][j].txn
      BY DEF GrantedCompatible
    <2>1. CASE s # r
      BY <2>1, <1>4 DEF IInv, GrantedCompatible
    <2>2. CASE s = r
      <3>1. i \in 1 .. n \/ i = n + 1
        BY <2>2, <1>3, <1>4, <1>7
      <3>2. j \in 1 .. n \/ j = n + 1
        BY <2>2, <1>3, <1>4, <1>7
      <3>3. CASE i \in 1 .. n /\ j \in 1 .. n
        BY <2>2, <3>3, <1>3, <1>4 DEF IInv, GrantedCompatible, n
      <3>4. CASE i \in 1 .. n /\ j = n + 1
        BY <2>2, <3>4, <1>3, <1>4, <1>5, <1>6
      <3>5. CASE i = n + 1 /\ j \in 1 .. n
        BY <2>2, <3>5, <1>3, <1>4, <1>5, <1>6
      <3>6. QED
        BY <3>1, <3>2, <3>3, <3>4, <3>5
    <2>3. QED
      BY <2>1, <2>2
  <1>9. ExclusiveIsGranted'
    <2> SUFFICES ASSUME NEW u \in Txns, NEW s \in exclusiveSet'[u]
                 PROVE  Granted(u, s, "EXCLUSIVE")'
      BY DEF ExclusiveIsGranted
    <2>1. s \in exclusiveSet[u] \/ (u = t /\ s = r /\ m = "EXCLUSIVE")
      BY <1>1 DEF TypeOK
    <2>2. CASE s \in exclusiveSet[u]
      <3>1. s \in Rids
        BY <2>2, <1>1 DEF TypeOK
      <3>2. PICK i \in 1 .. Len(queue[s]) :
              queue[s][i].txn = u /\ queue[s][i].mode = "EXCLUSIVE" /\ queue[s][i].granted
        BY <2>2 DEF IInv, ExclusiveIsGranted, Granted
      <3>3. i \in 1 .. Len(queue'[s]) /\ queue'[s][i] = queue[s][i]
        BY <3>1, <3>2, <1>1, <1>3, <1>4 DEF n
      <3>4. QED
        BY <3>2, <3>3 DEF Granted
    <2>3. CASE u = t /\ s = r /\ m = "EXCLUSIVE"
      <3>1. n + 1 \in 1 .. Len(queue'[r])
        BY <1>1, <1>3, <1>4
      <3>2. QED
        BY <2>3, <3>1, <1>3, <1>4 DEF Granted
    <2>4. QED
      BY <2>1, <2>2, <2>3
  <1>10. \A s \in Rids : \A i \in 1 .. Len(queue'[s]) :
           ~queue'[s][i].granted => i \in 1 .. Len(queue[s]) /\ queue'[s][i] = queue[s][i]
    BY <1>3, <1>4, <1>7 DEF n
  <1>11. UngrantedWaits'
    BY <1>4, <1>10 DEF IInv, UngrantedWaits
  <1>12. OneUngranted'
    BY <1>10 DEF IInv, OneUngranted
  <1>13. QED
    BY <1>8, <1>9, <1>11, <1>12 DEF Shape

\* Positions whose request is granted, old or new, are the same and hold the
\* same request: then what speaks of granted requests only is kept.
LEMMA SameGrantedKeeps ==
  ASSUME IInv,
         \A s \in Rids : \A i \in 1 .. Len(queue'[s]) :
           queue'[s][i].granted => i \in 1 .. Len(queue[s]) /\ queue'[s][i] = queue[s][i],
         \A s \in Rids : \A i \in 1 .. Len(queue[s]) :
           queue[s][i].granted => i \in 1 .. Len(queue'[s]) /\ queue'[s][i] = queue[s][i],
         exclusiveSet' = exclusiveSet
  PROVE  GrantedCompatible' /\ ExclusiveIsGranted'
  <1>1. GrantedCompatible'
    BY DEF IInv, GrantedCompatible
  <1>2. ASSUME NEW u \in Txns, NEW s \in exclusiveSet[u] PROVE Granted(u, s, "EXCLUSIVE")'
    <2>1. s \in Rids
      BY DEF IInv, TypeOK
    <2>2. PICK i \in 1 .. Len(queue[s]) :
            queue[s][i].txn = u /\ queue[s][i].mode = "EXCLUSIVE" /\ queue[s][i].granted
      BY DEF IInv, ExclusiveIsGranted, Granted
    <2>3. i \in 1 .. Len(queue'[s]) /\ queue'[s][i] = queue[s][i]
      BY <2>1, <2>2
    <2>4. QED
      BY <2>2, <2>3 DEF Granted
  <1>3. QED
    BY <1>1, <1>2 DEF ExclusiveIsGranted

\* A request that has to wait.
LEMMA SleepKeeps ==
  ASSUME IInv, NEW t \in Txns, NEW r \in Rids, NEW m \in LockMode, NEW a,
         a = Append(queue[r], Request(t, m)), NEW kind \in WaitKind,
         kind # "no", m = "SHARED" <=> kind = "shared",
         Idle(t), txnState[t] = "GROWING", Sleep(t, r, a, kind),
         txnState' = txnState, exclusiveSet' = exclusiveSet
  PROVE  Shape'
  <1> DEFINE q == queue[r]
             n == Len(q)
  <1>1. q \in Seq(LockRequest) /\ n \in Nat /\ TypeOK /\ UngrantedWaits
    BY DEF IInv, TypeOK
  <1>2. Len(a) = n + 1 /\ (\A i \in 1 .. n : a[i] = q[i]) /\ a[n + 1] = Request(t, m)
    BY <1>1, AppendedRequest
  <1>3. /\ queue'[r] = a /\ \A s \in Rids : s # r => queue'[s] = queue[s]
        /\ \A s \in Rids, u \in Txns :
             waits'[s][u] = IF s = r /\ u = t THEN kind ELSE waits[s][u]
    BY <1>1, WaitsAt DEF Sleep, TypeOK
  <1>4. /\ a[n + 1].txn = t /\ a[n + 1].mode = m /\ ~a[n + 1].granted
        /\ \A i \in 1 .. n + 1 : i \in 1 .. n \/ i = n + 1
    BY <1>1, <1>2 DEF Request
  <1>5. \A i \in 1 .. n : i \in 1 .. n + 1
    BY <1>1
  <1>6. \A s \in Rids : \A i \in 1 .. Len(queue[s]) :
          queue[s][i].txn = t => queue[s][i].granted
    BY <1>1, IdleHasNoUngranted
  <1> HIDE DEF n
  <1>7. GrantedCompatible' /\ ExclusiveIsGranted'
    <2>1. ASSUME NEW s \in Rids, NEW i \in 1 .. Len(queue'[s]), queue'[s][i].granted
          PROVE  i \in 1 .. Len(queue[s]) /\ queue'[s][i] = queue[s][i]
      <3>1. CASE s # r
        BY <3>1, <1>3
      <3>2. CASE s = r
        <4>1. i \in 1 .. n
          BY <2>1, <3>2, <1>2, <1>3, <1>4
        <4>2. QED
          BY <3>2, <4>1, <1>2, <1>3 DEF n
      <3>3. QED
        BY <3>1, <3>2
    <2>2. \A s \in Rids : \A i \in 1 .. Len(queue[s]) :
            queue[s][i].granted => i \in 1 .. Len(queue'[s]) /\ queue'[s][i] = queue[s][i]
      BY <1>2, <1>3, <1>5 DEF n
    <2>3. QED
      BY <2>1, <2>2, SameGrantedKeeps
  <1>8. ASSUME NEW s \in Rids, NEW i \in 1 .. Len(queue'[s]), ~queue'[s][i].granted
        PROVE  \/ s = r /\ i = n + 1
               \/ /\ i \in 1 .. Len(queue[s]) /\ queue'[s][i] = queue[s][i]
                  /\ queue[s][i].txn # t /\ queue[s][i].txn \in Txns
    <2>1. CASE s = r /\ i = n + 1
      BY <2>1
    <2>2. CASE ~(s = r /\ i = n + 1)
      <3>1. i \in 1 .. Len(queue[s]) /\ queue'[s][i] = queue[s][i]
        BY <2>2, <1>2, <1>3, <1>4 DEF n
      <3>2. queue[s][i] \in LockRequest
        BY <1>1, <3>1 DEF TypeOK
      <3>3. QED
        BY <1>6, <1>8, <3>1, <3>2 DEF LockRequest
    <2>3. QED
      BY <2>1, <2>2
  <1>9. UngrantedWaits'
    <2> SUFFICES ASSUME NEW s \in Rids, NEW i \in 1 .. Len(queue'[s]), ~queue'[s][i].granted
                 PROVE  IF waits'[s][queue'[s][i].txn] = "no"
                        THEN txnState'[queue'[s][i].txn] = "ABORTED"
                        ELSE queue'[s][i].mode = "SHARED" <=> waits'[s][queue'[s][i].txn] = "shared"
      BY DEF UngrantedWaits
    <2>1. CASE s = r /\ i = n + 1
      BY <2>1, <1>3, <1>4
    <2>2. CASE /\ i \in 1 .. Len(queue[s]) /\ queue'[s][i] = queue[s][i]
               /\ queue[s][i].txn # t /\ queue[s][i].txn \in Txns
      BY <2>2, <1>1, <1>3 DEF UngrantedWaits
    <2>3. QED
      BY <1>8, <2>1, <2>2
  <1>10. OneUngranted'
    <2> SUFFICES ASSUME NEW s \in Rids, NEW i \in 1 .. Len(queue'[s]), NEW j \in 1 .. Len(queue'[s]),
                        ~queue'[s][i].granted, ~queue'[s][j].granted,
                        queue'[s][i].txn = queue'[s][j].txn
                 PROVE  i = j
      BY DEF OneUngranted
    <2>1. CASE s = r /\ i = n + 1
      <3>1. queue'[s][j].txn = t
        BY <2>1, <1>3, <1>4
      <3>2. QED
        BY <2>1, <3>1, <1>8
    <2>2. CASE s = r /\ j = n + 1
      <3>1. queue'[s][i].txn = t
        BY <2>2, <1>3, <1>4
      <3>2. QED
        BY <2>2, <3>1, <1>8
    <2>3. CASE ~(s = r /\ (i = n + 1 \/ j = n + 1))
      BY <2>3, <1>8 DEF IInv, OneUngranted
    <2>4. QED
      BY <2>1, <2>2, <2>3
  <1>11. QED
    BY <1>7, <1>9, <1>10 DEF Shape

\* A request that leaves the queue, ungranted or with its lock.
LEMMA RemoveKeeps ==
  ASSUME IInv, NEW r \in Rids, NEW i \in 1 .. Len(queue[r]),
         queue' = [queue EXCEPT ![r] = Without(queue[r], i)],
         \A u \in Txns : \A s \in exclusiveSet'[u] :
           /\ s \in exclusiveSet[u]
           /\ u = queue[r][i].txn /\ s = r => ~queue[r][i].granted,
         \A u \in Txns : txnState[u] = "ABORTED" => txnState'[u] = "ABORTED",
         \A s \in Rids, u \in Txns :
           \/ waits'[s][u] = waits[s][u]
           \/ waits'[s][u] = "no" /\ txnState'[u] = "ABORTED"
  PROVE  Shape'
  <1> DEFINE n == Len(queue[r])
             From(s, j) == IF s = r /\ ~(j < i) THEN j + 1 ELSE j
  <1>1. queue[r] \in Seq(LockRequest) /\ n \in Nat /\ TypeOK
    BY DEF IInv, TypeOK
  <1>2. /\ Len(queue'[r]) = n - 1
        /\ \A j \in 1 .. n - 1 : queue'[r][j] = IF j < i THEN queue[r][j] ELSE queue[r][j + 1]
        /\ \A s \in Rids : s # r => queue'[s] = queue[s]
    BY <1>1, WithoutType DEF TypeOK
  <1>3. ASSUME NEW s \in Rids, NEW j \in 1 .. Len(queue'[s])
        PROVE  From(s, j) \in 1 .. Len(queue[s]) /\ queue'[s][j] = queue[s][From(s, j)]
    <2>1. CASE s # r
      BY <2>1, <1>2
    <2>2. CASE s = r
      BY <2>2, <1>1, <1>2
    <2>3. QED
      BY <2>1, <2>2
  <1>4. ASSUME NEW s \in Rids, NEW j \in 1 .. Len(queue'[s]), NEW k \in 1 .. Len(queue'[s]),
               From(s, j) = From(s, k)
        PROVE  j = k
    <2>1. CASE s # r
      BY <2>1, <1>4
    <2>2. CASE s = r
      BY <2>2, <1>1, <1>2, <1>4
    <2>3. QED
      BY <2>1, <2>2
  <1>5. ASSUME NEW s \in Rids, NEW k \in 1 .. Len(queue[s]), ~(s = r /\ k = i)
        PROVE  \E j \in 1 .. Len(queue'[s]) : queue'[s][j] = queue[s][k]
    <2>1. CASE s # r
      BY <2>1, <1>2
    <2>2. CASE s = r /\ k < i
      <3>1. k \in 1 .. n - 1
        BY <2>2, <1>1
      <3>2. QED
        BY <2>2, <3>1, <1>2
    <2>3. CASE s = r /\ k > i
      <3>1. k - 1 \in 1 .. n - 1 /\ ~(k - 1 < i) /\ (k - 1) + 1 = k
        BY <2>3, <1>1
      <3>2. queue'[r][k - 1] = queue[r][k]
        BY <3>1, <1>2
      <3>3. QED
        BY <2>3, <3>1, <3>2, <1>2
    <2>4. QED
      BY <1>1, <1>5, <2>1, <2>2, <2>3
  <1> HIDE DEF From
  <1>6. GrantedCompatible'
    BY <1>3 DEF IInv, GrantedCompatible
  <1>7. ASSUME NEW u \in Txns, NEW s \in exclusiveSet'[u] PROVE Granted(u, s, "EXCLUSIVE")'
    <2>1. s \in exclusiveSet[u] /\ s \in Rids
      BY <1>1 DEF TypeOK
    <2>2. PICK k \in 1 .. Len(queue[s]) :
            queue[s][k].txn = u /\ queue[s][k].mode = "EXCLUSIVE" /\ queue[s][k].granted
      BY <2>1 DEF IInv, ExclusiveIsGranted, Granted
    <2>3. ~(s = r /\ k = i)
      BY <2>2
    <2>4. PICK j \in 1 .. Len(queue'[s]) : queue'[s][j] = queue[s][k]
      BY <1>5, <2>1, <2>3
    <2>5. QED
      BY <2>2, <2>4 DEF Granted
  <1>8. UngrantedWaits'
    <2> SUFFICES ASSUME NEW s \in Rids, NEW j \in 1 .. Len(queue'[s]), ~queue'[s][j].granted
                 PROVE  IF waits'[s][queue'[s][j].txn] = "no"
                        THEN txnState'[queue'[s][j].txn] = "ABORTED"
                        ELSE queue'[s][j].mode = "SHARED" <=> waits'[s][queue'[s][j].txn] = "shared"
      BY DEF UngrantedWaits
    <2>1. PICK k \in 1 .. Len(queue[s]) : queue'[s][j] = queue[s][k]
      BY <1>3
    <2>2. queue[s][k].txn \in Txns
      <3>1. queue[s][k] \in LockRequest
        BY <1>1 DEF TypeOK
      <3>2. QED
        BY <3>1 DEF LockRequest
    <2>3. IF waits[s][queue[s][k].txn] = "no"
          THEN txnState[queue[s][k].txn] = "ABORTED"
          ELSE queue[s][k].mode = "SHARED" <=> waits[s][queue[s][k].txn] = "shared"
      BY <2>1 DEF IInv, UngrantedWaits
    <2>4. QED
      BY <2>1, <2>2, <2>3
  <1>9. OneUngranted'
    <2> SUFFICES ASSUME NEW s \in Rids, NEW j \in 1 .. Len(queue'[s]), NEW k \in 1 .. Len(queue'[s]),
                        ~queue'[s][j].granted, ~queue'[s][k].granted,
                        queue'[s][j].txn = queue'[s][k].txn
                 PROVE  j = k
      BY DEF OneUngranted
    <2>1. From(s, j) = From(s, k)
      BY <1>3 DEF IInv, OneUngranted
    <2>2. QED
      BY <1>4, <2>1
  <1>10. QED
    BY <1>6, <1>7, <1>8, <1>9 DEF Shape, ExclusiveIsGranted

\* LockUpgrade, granted at once or put to wait.
LEMMA UpgradeKeeps ==
  ASSUME IInv, NEW t \in Txns, NEW r \in Rids, LockUpgrade(t, r)
  PROVE  Shape'
  <1>1. PICK i \in 1 .. Len(queue[r]) :
          /\ IsFirst(queue[r], i, t, TRUE)
          /\ \/ /\ NoOtherGranted(queue[r], t)
                /\ queue' = [queue EXCEPT ![r][i].mode = "EXCLUSIVE"]
                /\ exclusiveSet' = [exclusiveSet EXCEPT ![t] = exclusiveSet[t] \cup {r}]
                /\ waits' = waits
             \/ /\ ~NoOtherGranted(queue[r], t)
                /\ queue' = [queue EXCEPT ![r][i] = Request(t, "EXCLUSIVE")]
                /\ waits' = [waits EXCEPT ![r][t] = "upgrade"]
                /\ exclusiveSet' = exclusiveSet
    BY DEF LockUpgrade
  <1>2. queue[r] \in Seq(LockRequest) /\ queue[r][i] \in LockRequest /\ TypeOK /\ UngrantedWaits
    BY DEF IInv, TypeOK
  <1>3. queue[r][i].txn = t /\ queue[r][i].granted
    BY <1>1 DEF IsFirst
  <1>4. txnState' = txnState /\ txnState[t] = "GROWING" /\ Idle(t)
    BY DEF LockUpgrade
  <1>5. \A s \in Rids : \A j \in 1 .. Len(queue[s]) :
          queue[s][j].txn = t => queue[s][j].granted
    BY <1>2, <1>4, IdleHasNoUngranted
  <1>6. CASE /\ NoOtherGranted(queue[r], t)
             /\ queue' = [queue EXCEPT ![r][i].mode = "EXCLUSIVE"]
             /\ exclusiveSet' = [exclusiveSet EXCEPT ![t] = exclusiveSet[t] \cup {r}]
             /\ waits' = waits
    <2> DEFINE new == [queue[r][i] EXCEPT !.mode = "EXCLUSIVE"]
    <2>1. new.txn = t /\ new.mode = "EXCLUSIVE" /\ new.granted
      BY <1>2, <1>3 DEF LockRequest
    <2>2. queue' = [queue EXCEPT ![r] = [queue[r] EXCEPT ![i] = new]]
      BY <1>6, <1>2
    <2> HIDE DEF new
    <2>3. /\ Len(queue'[r]) = Len(queue[r])
          /\ queue'[r][i] = new
          /\ \A j \in 1 .. Len(queue[r]) : j # i => queue'[r][j] = queue[r][j]
          /\ \A s \in Rids : s # r => queue'[s] = queue[s]
      BY <1>2, <2>2 DEF TypeOK
    <2>4. \A s \in Rids : \A j \in 1 .. Len(queue'[s]) :
            /\ j \in 1 .. Len(queue[s])
            /\ queue'[s][j].txn = queue[s][j].txn
            /\ queue'[s][j].granted <=> queue[s][j].granted
            /\ ~(s = r /\ j = i) => queue'[s][j] = queue[s][j]
      BY <1>3, <2>1, <2>3
    <2>5. GrantedCompatible'
      <3> SUFFICES ASSUME NEW s \in Rids, NEW j \in 1 .. Len(queue'[s]), NEW k \in 1 .. Len(queue'[s]),
                          queue'[s][j].granted, queue'[s][j].mode = "EXCLUSIVE",
                          queue'[s][k].granted
                   PROVE  queue'[s][j].txn = queue'[s][k].txn
        BY DEF GrantedCompatible
      <3>1. CASE s = r
        BY <3>1, <1>6, <2>4 DEF NoOtherGranted
      <3>2. CASE s # r
        BY <3>2, <2>4 DEF IInv, GrantedCompatible
      <3>3. QED
        BY <3>1, <3>2
    <2>6. ASSUME NEW u \in Txns, NEW s \in exclusiveSet'[u] PROVE Granted(u, s, "EXCLUSIVE")'
      <3>1. s \in exclusiveSet[u] \/ (u = t /\ s = r)
        BY <1>2, <1>6 DEF TypeOK
      <3>2. CASE u = t /\ s = r
        BY <3>2, <2>1, <2>3 DEF Granted
      <3>3. CASE s \in exclusiveSet[u] /\ ~(u = t /\ s = r)
        <4>1. s \in Rids
          BY <3>3, <1>2 DEF TypeOK
        <4>2. PICK k \in 1 .. Len(queue[s]) :
                queue[s][k].txn = u /\ queue[s][k].mode = "EXCLUSIVE" /\ queue[s][k].granted
          BY <3>3 DEF IInv, ExclusiveIsGranted, Granted
        <4>3. k \in 1 .. Len(queue'[s]) /\ queue'[s][k] = queue[s][k]
          BY <3>3, <4>1, <4>2, <1>3, <2>3
        <4>4. QED
          BY <4>2, <4>3 DEF Granted
      <3>4. QED
        BY <3>1, <3>2, <3>3
    <2>7. UngrantedWaits'
      BY <1>3, <1>4, <1>6, <2>4 DEF IInv, UngrantedWaits
    <2>8. OneUngranted'
      BY <2>4 DEF IInv, OneUngranted
    <2>9. QED
      BY <2>5, <2>6, <2>7, <2>8 DEF Shape, ExclusiveIsGranted
  <1>7. CASE /\ ~NoOtherGranted(queue[r], t)
             /\ queue' = [queue EXCEPT ![r][i] = Request(t, "EXCLUSIVE")]
             /\ waits' = [waits EXCEPT ![r][t] = "upgrade"]
             /\ exclusiveSet' = exclusiveSet
    <2> DEFINE new == Request(t, "EXCLUSIVE")
    <2>1. new.txn = t /\ new.mode = "EXCLUSIVE" /\ ~new.granted
      BY DEF Request
    <2>2. queue' = [queue EXCEPT ![r] = [queue[r] EXCEPT ![i] = new]]
      BY <1>7, <1>2
    <2> HIDE DEF new
    <2>3. /\ Len(queue'[r]) = Len(queue[r])
          /\ queue'[r][i] = new
          /\ \A j \in 1 .. Len(queue[r]) : j # i => queue'[r][j] = queue[r][j]
          /\ \A s \in Rids : s # r => queue'[s] = queue[s]
      BY <1>2, <2>2 DEF TypeOK
    <2>4. \A s \in Rids : \A j \in 1 .. Len(queue'[s]) :
            /\ j \in 1 .. Len(queue[s])
            /\ queue'[s][j].txn = queue[s][j].txn
            /\ ~(s = r /\ j = i) => queue'[s][j] = queue[s][j]
      BY <1>3, <2>1, <2>3
    <2>5. \A s \in Rids, u \in Txns :
            waits'[s][u] = IF s = r /\ u = t THEN "upgrade" ELSE waits[s][u]
      BY <1>2, <1>7 DEF TypeOK
    <2>6. GrantedCompatible'
      BY <2>1, <2>3, <2>4, SMTT(60) DEF IInv, GrantedCompatible
    <2>7. r \notin exclusiveSet[t]
      <3>1. PICK j \in 1 .. Len(queue[r]) : queue[r][j].granted /\ queue[r][j].txn # t
        BY <1>7 DEF NoOtherGranted
      <3>2. QED
        BY <3>1 DEF IInv, GrantedCompatible, ExclusiveIsGranted, Granted
    <2>8. ASSUME NEW u \in Txns, NEW s \in exclusiveSet[u] PROVE Granted(u, s, "EXCLUSIVE")'
      <3>1. s \in Rids /\ ~(u = t /\ s = r)
        BY <1>2, <2>7 DEF TypeOK
      <3>2. PICK k \in 1 .. Len(queue[s]) :
              queue[s][k].txn = u /\ queue[s][k].mode = "EXCLUSIVE" /\ queue[s][k].granted
        BY DEF IInv, ExclusiveIsGranted, Granted
      <3>3. k \in 1 .. Len(queue'[s]) /\ queue'[s][k] = queue[s][k]
        BY <3>1, <3>2, <1>3, <2>3
      <3>4. QED
        BY <3>2, <3>3 DEF Granted
    <2>9. ASSUME NEW s \in Rids, NEW j \in 1 .. Len(queue'[s]), ~queue'[s][j].granted
          PROVE  \/ s = r /\ j = i
                 \/ /\ j \in 1 .. Len(queue[s]) /\ queue'[s][j] = queue[s][j]
                    /\ queue[s][j].txn # t /\ queue[s][j].txn \in Txns
      <3>1. CASE ~(s = r /\ j = i)
        <4>1. j \in 1 .. Len(queue[s]) /\ queue'[s][j] = queue[s][j]
          BY <3>1, <2>4
        <4>2. queue[s][j] \in LockRequest
          BY <4>1, <1>2 DEF TypeOK
        <4>3. QED
          BY <1>5, <2>9, <4>1, <4>2 DEF LockRequest
      <3>2. QED
        BY <3>1
    <2>10. UngrantedWaits'
      <3> SUFFICES ASSUME NEW s \in Rids, NEW j \in 1 .. Len(queue'[s]), ~queue'[s][j].granted
                   PROVE  IF waits'[s][queue'[s][j].txn] = "no"
                          THEN txnState'[queue'[s][j].txn] = "ABORTED"
                          ELSE queue'[s][j].mode = "SHARED" <=> waits'[s][queue'[s][j].txn] = "shared"
        BY DEF UngrantedWaits
      <3>1. CASE s = r /\ j = i
        BY <3>1, <2>1, <2>3, <2>5
      <3>2. CASE /\ j \in 1 .. Len(queue[s]) /\ queue'[s][j] = queue[s][j]
                 /\ queue[s][j].txn # t /\ queue[s][j].txn \in Txns
        BY <3>2, <1>2, <1>4, <2>5 DEF UngrantedWaits
      <3>3. QED
        BY <2>9, <3>1, <3>2
    <2>11. OneUngranted'
      <3> SUFFICES ASSUME NEW s \in Rids, NEW j \in 1 .. Len(queue'[s]), NEW k \in 1 .. Len(queue'[s]),
                          ~queue'[s][j].granted, ~queue'[s][k].granted,
                          queue'[s][j].txn = queue'[s][k].txn
                   PROVE  j = k
        BY DEF OneUngranted
      <3>1. CASE s = r /\ j = i
        <4>1. queue'[s][k].txn = t
          BY <3>1, <2>1, <2>3
        <4>2. QED
          BY <3>1, <4>1, <2>9
      <3>2. CASE s = r /\ k = i
        <4>1. queue'[s][j].txn = t
          BY <3>2, <2>1, <2>3
        <4>2. QED
          BY <3>2, <4>1, <2>9
      <3>3. CASE ~(s = r /\ (j = i \/ k = i))
        BY <3>3, <2>9 DEF IInv, OneUngranted
      <3>4. QED
        BY <3>1, <3>2, <3>3
    <2>12. QED
      BY <1>7, <2>6, <2>8, <2>10, <2>11 DEF Shape, ExclusiveIsGranted
  <1>8. QED
    BY <1>1, <1>6, <1>7

\* A waiter finds its predicate true and takes the lock.
LEMMA WakeGrantedKeeps ==
  ASSUME IInv, NEW t \in Txns, NEW r \in Rids, WakeGranted(t, r)
  PROVE  Shape'
  <1>1. PICK i \in 1 .. Len(queue[r]) :
          /\ queue[r][i].txn = t /\ ~queue[r][i].granted
          /\ queue' = [queue EXCEPT ![r][i].granted = TRUE]
    BY DEF WakeGranted
  <1>2. queue[r] \in Seq(LockRequest) /\ queue[r][i] \in LockRequest /\ TypeOK
    BY DEF IInv, TypeOK
  <1>3. /\ txnState' = txnState /\ txnState[t] # "ABORTED" /\ waits[r][t] # "no"
        /\ waits' = [waits EXCEPT ![r][t] = "no"]
        /\ Grantable(queue[r], t, waits[r][t])
        /\ IF waits[r][t] = "shared" THEN exclusiveSet' = exclusiveSet
           ELSE exclusiveSet' = [exclusiveSet EXCEPT ![t] = exclusiveSet[t] \cup {r}]
    BY DEF WakeGranted
  <1>4. queue[r][i].mode = "SHARED" <=> waits[r][t] = "shared"
    BY <1>1, <1>3 DEF IInv, UngrantedWaits
  <1>5. queue[r][i].mode = "SHARED" \/ queue[r][i].mode = "EXCLUSIVE"
    BY <1>2 DEF LockRequest, LockMode
  <1> DEFINE new == [queue[r][i] EXCEPT !.granted = TRUE]
  <1>6. new.txn = t /\ new.mode = queue[r][i].mode /\ new.granted
    BY <1>1, <1>2 DEF LockRequest
  <1>7. queue' = [queue EXCEPT ![r] = [queue[r] EXCEPT ![i] = new]]
    BY <1>1, <1>2
  <1> HIDE DEF new
  <1>8. /\ Len(queue'[r]) = Len(queue[r])
        /\ queue'[r][i] = new
        /\ \A j \in 1 .. Len(queue[r]) : j # i => queue'[r][j] = queue[r][j]
        /\ \A s \in Rids : s # r => queue'[s] = queue[s]
    BY <1>2, <1>7 DEF TypeOK
  <1>9. \A s \in Rids : \A j \in 1 .. Len(queue'[s]) :
          /\ j \in 1 .. Len(queue[s])
          /\ queue'[s][j].txn = queue[s][j].txn
          /\ queue'[s][j].mode = queue[s][j].mode
          /\ ~(s = r /\ j = i) => queue'[s][j] = queue[s][j]
    BY <1>1, <1>6, <1>8
  <1>10. \A s \in Rids, u \in Txns :
           waits'[s][u] = IF s = r /\ u = t THEN "no" ELSE waits[s][u]
    BY <1>2, <1>3 DEF TypeOK
  <1>11. GrantedCompatible'
    <2> SUFFICES ASSUME NEW s \in Rids, NEW j \in 1 .. Len(queue'[s]), NEW k \in 1 .. Len(queue'[s]),
                        queue'[s][j].granted, queue'[s][j].mode = "EXCLUSIVE",
                        queue'[s][k].granted
                 PROVE  queue'[s][j].txn = queue'[s][k].txn
      BY DEF GrantedCompatible
    <2>1. CASE ~(s = r /\ (j = i \/ k = i))
      BY <2>1, <1>9 DEF IInv, GrantedCompatible
    <2>2. CASE s = r /\ (j = i \/ k = i) /\ waits[r][t] = "shared"
      <3>1. \A l \in 1 .. Len(queue[r]) : queue[r][l].granted => queue[r][l].mode = "SHARED"
        BY <2>2, <1>3 DEF Grantable, NoExclusiveGranted
      <3>2. j # i
        BY <2>2, <1>4, <1>9
      <3>3. QED
        BY <2>2, <3>1, <3>2, <1>9
    <2>3. CASE s = r /\ (j = i \/ k = i) /\ waits[r][t] # "shared"
      <3>1. \A l \in 1 .. Len(queue[r]) : queue[r][l].granted => queue[r][l].txn = t
        BY <2>3, <1>3 DEF Grantable, NoOtherGranted
      <3>2. QED
        BY <2>3, <3>1, <1>1, <1>9
    <2>4. QED
      BY <2>1, <2>2, <2>3
  <1>12. ASSUME NEW u \in Txns, NEW s \in exclusiveSet'[u] PROVE Granted(u, s, "EXCLUSIVE")'
    <2>1. s \in exclusiveSet[u] \/ (u = t /\ s = r /\ waits[r][t] # "shared")
      BY <1>2, <1>3 DEF TypeOK
    <2>2. CASE u = t /\ s = r /\ waits[r][t] # "shared"
      BY <2>2, <1>4, <1>5, <1>6, <1>8 DEF Granted
    <2>3. CASE s \in exclusiveSet[u]
      <3>1. s \in Rids
        BY <2>3, <1>2 DEF TypeOK
      <3>2. PICK k \in 1 .. Len(queue[s]) :
              queue[s][k].txn = u /\ queue[s][k].mode = "EXCLUSIVE" /\ queue[s][k].granted
        BY <2>3 DEF IInv, ExclusiveIsGranted, Granted
      <3>3. k \in 1 .. Len(queue'[s]) /\ queue'[s][k] = queue[s][k]
        BY <3>1, <3>2, <1>1, <1>8
      <3>4. QED
        BY <3>2, <3>3 DEF Granted
    <2>4. QED
      BY <2>1, <2>2, <2>3
  <1>13. ASSUME NEW s \in Rids, NEW j \in 1 .. Len(queue'[s]), ~queue'[s][j].granted
         PROVE  /\ j \in 1 .. Len(queue[s]) /\ queue'[s][j] = queue[s][j]
                /\ ~(s = r /\ queue[s][j].txn = t) /\ queue[s][j].txn \in Txns
    <2>1. ~(s = r /\ j = i)
      BY <1>6, <1>8, <1>13
    <2>2. j \in 1 .. Len(queue[s]) /\ queue'[s][j] = queue[s][j]
      BY <2>1, <1>9
    <2>3. queue[s][j] \in LockRequest
      BY <2>2, <1>2 DEF TypeOK
    <2>4. ~(s = r /\ queue[s][j].txn = t)
      BY <1>1, <1>13, <2>1, <2>2 DEF IInv, OneUngranted
    <2>5. QED
      BY <2>2, <2>3, <2>4 DEF LockRequest
  <1>14. UngrantedWaits'
    <2> SUFFICES ASSUME NEW s \in Rids, NEW j \in 1 .. Len(queue'[s]), ~queue'[s][j].granted
                 PROVE  IF waits'[s][queue'[s][j].txn] = "no"
                        THEN txnState'[queue'[s][j].txn] = "ABORTED"
                        ELSE queue'[s][j].mode = "SHARED" <=> waits'[s][queue'[s][j].txn] = "shared"
      BY DEF UngrantedWaits
    <2>1. /\ j \in 1 .. Len(queue[s]) /\ queue'[s][j] = queue[s][j]
          /\ ~(s = r /\ queue[s][j].txn = t) /\ queue[s][j].txn \in Txns
      BY <1>13
    <2>2. QED
      BY <2>1, <1>3, <1>10 DEF IInv, UngrantedWaits
  <1>15. OneUngranted'
    BY <1>13 DEF IInv, OneUngranted
  <1>16. QED
    BY <1>11, <1>12, <1>14, <1>15 DEF Shape, ExclusiveIsGranted

\* A waiter finds its transaction aborted.
LEMMA WakeAbortedKeeps ==
  ASSUME IInv, NEW t \in Txns, NEW r \in Rids, WakeAborted(t, r)
  PROVE  Shape'
  <1>1. /\ TypeOK /\ txnState' = txnState /\ txnState[t] = "ABORTED"
        /\ exclusiveSet' = exclusiveSet
        /\ waits' = [waits EXCEPT ![r][t] = "no"]
    BY DEF WakeAborted, IInv
  <1>2. \A s \in Rids, u \in Txns :
          waits'[s][u] = IF s = r /\ u = t THEN "no" ELSE waits[s][u]
    BY <1>1 DEF TypeOK
  <1>3. CASE queue' = queue
    <2>1. GrantedCompatible' /\ OneUngranted' /\ ExclusiveIsGranted'
      BY <1>1, <1>3 DEF IInv, GrantedCompatible, OneUngranted, ExclusiveIsGranted, Granted
    <2>2. \A s \in Rids : \A j \in 1 .. Len(queue[s]) : queue[s][j].txn \in Txns
      BY <1>1, RequestersAreTxns
    <2>3. UngrantedWaits'
      BY <1>1, <1>2, <1>3, <2>2 DEF IInv, UngrantedWaits
    <2>4. QED
      BY <2>1, <2>3 DEF Shape
  <1>4. CASE \E i \in 1 .. Len(queue[r]) :
               /\ queue[r][i].txn = t /\ ~queue[r][i].granted
               /\ queue' = [queue EXCEPT ![r] = Without(queue[r], i)]
    <2>1. PICK i \in 1 .. Len(queue[r]) :
            /\ queue[r][i].txn = t /\ ~queue[r][i].granted
            /\ queue' = [queue EXCEPT ![r] = Without(queue[r], i)]
      BY <1>4
    <2>2. \A s \in Rids, u \in Txns :
            \/ waits'[s][u] = waits[s][u]
            \/ waits'[s][u] = "no" /\ txnState'[u] = "ABORTED"
      BY <1>1, <1>2
    <2>3. QED
      BY <1>1, <2>1, <2>2, RemoveKeeps
  <1>5. QED
    BY <1>3, <1>4 DEF WakeAborted

\* Unlock, whether or not it finds a request.
LEMMA UnlockKeeps ==
  ASSUME IInv, NEW t \in Txns, NEW r \in Rids, Unlock(t, r)
  PROVE  Shape'
  <1>1. /\ TypeOK /\ waits' = waits
        /\ queue' = [queue EXCEPT ![r] = RemoveRequest(queue[r], t)]
        /\ exclusiveSet' = [exclusiveSet EXCEPT ![t] = exclusiveSet[t] \ {r}]
    BY DEF Unlock, IInv
  <1>2. \A u \in Txns : txnState[u] = "ABORTED" => txnState'[u] = "ABORTED"
    BY <1>1 DEF Unlock, TypeOK
  <1>3. \A u \in Txns : \A s \in exclusiveSet'[u] : s \in exclusiveSet[u] /\ ~(u = t /\ s = r)
    BY <1>1 DEF TypeOK
  <1>4. CASE RemoveRequest(queue[r], t) = queue[r]
    <2>1. queue' = queue
      BY <1>1, <1>4 DEF TypeOK
    <2>2. GrantedCompatible' /\ OneUngranted'
      BY <2>1 DEF IInv, GrantedCompatible, OneUngranted
    <2>3. ExclusiveIsGranted'
      BY <1>3, <2>1 DEF IInv, ExclusiveIsGranted, Granted
    <2>4. \A s \in Rids : \A j \in 1 .. Len(queue[s]) : queue[s][j].txn \in Txns
      BY <1>1, RequestersAreTxns
    <2>5. UngrantedWaits'
      BY <1>1, <1>2, <2>1, <2>4 DEF IInv, UngrantedWaits
    <2>6. QED
      BY <2>2, <2>3, <2>5 DEF Shape
  <1>5. CASE \E i \in 1 .. Len(queue[r]) :
               queue[r][i].txn = t /\ RemoveRequest(queue[r], t) = Without(queue[r], i)
    <2>1. PICK i \in 1 .. Len(queue[r]) :
            queue[r][i].txn = t /\ RemoveRequest(queue[r], t) = Without(queue[r], i)
      BY <1>5
    <2>2. queue' = [queue EXCEPT ![r] = Without(queue[r], i)]
      BY <1>1, <2>1
    <2>3. QED
      BY <1>1, <1>2, <1>3, <2>1, <2>2, RemoveKeeps
  <1>6. QED
    BY <1>1, <1>4, <1>5, RemoveRequestCases DEF TypeOK

-----------------------------------------------------------------------------
LEMMA InductiveInit == Init => IInv
  BY TypeInit DEF Init, IInv, GrantedCompatible, ExclusiveIsGranted, UngrantedWaits, OneUngranted

LEMMA InductiveStep == IInv /\ [Next]_vars => IInv'
  <1> SUFFICES ASSUME IInv, [Next]_vars PROVE Shape'
    BY TypeStep DEF IInv, Shape
  <1>1. ASSUME NEW t \in Txns, NEW r \in Rids, LockShared(t, r) PROVE Shape'
    <2> DEFINE a == Append(queue[r], Request(t, "SHARED"))
    <2>1. /\ Idle(t) /\ txnState[t] = "GROWING" /\ txnState' = txnState
          /\ exclusiveSet' = exclusiveSet
          /\ \/ NoExclusiveGranted(a) /\ GrantNew(t, r, a)
             \/ Sleep(t, r, a, "shared")
      BY <1>1 DEF LockShared
    <2>2. a = Append(queue[r], Request(t, "SHARED")) /\ "SHARED" \in LockMode
      BY DEF LockMode
    <2> HIDE DEF a
    <2>3. CASE NoExclusiveGranted(a) /\ GrantNew(t, r, a)
      BY <2>1, <2>2, <2>3, GrantNewKeeps
    <2>4. CASE Sleep(t, r, a, "shared")
      BY <2>1, <2>2, <2>4, SleepKeeps, WaitKinds
    <2>5. QED
      BY <2>1, <2>3, <2>4
  <1>2. ASSUME NEW t \in Txns, NEW r \in Rids, LockExclusive(t, r) PROVE Shape'
    <2> DEFINE a == Append(queue[r], Request(t, "EXCLUSIVE"))
    <2>1. /\ Idle(t) /\ txnState[t] = "GROWING" /\ txnState' = txnState
          /\ \/ /\ NoOtherGranted(a, t) /\ GrantNew(t, r, a)
                /\ exclusiveSet' = [exclusiveSet EXCEPT ![t] = exclusiveSet[t] \cup {r}]
             \/ Sleep(t, r, a, "exclusive") /\ exclusiveSet' = exclusiveSet
      BY <1>2 DEF LockExclusive
    <2>2. a = Append(queue[r], Request(t, "EXCLUSIVE")) /\ "EXCLUSIVE" \in LockMode
      BY DEF LockMode
    <2> HIDE DEF a
    <2>3. CASE /\ NoOtherGranted(a, t) /\ GrantNew(t, r, a)
               /\ exclusiveSet' = [exclusiveSet EXCEPT ![t] = exclusiveSet[t] \cup {r}]
      BY <2>1, <2>2, <2>3, GrantNewKeeps
    <2>4. CASE Sleep(t, r, a, "exclusive") /\ exclusiveSet' = exclusiveSet
      <3>1. /\ "exclusive" \in WaitKind /\ "exclusive" # "no"
            /\ "EXCLUSIVE" = "SHARED" <=> "exclusive" = "shared"
        BY WaitKinds
      <3>2. QED
        BY <2>1, <2>2, <2>4, <3>1, SleepKeeps
    <2>5. QED
      BY <2>1, <2>3, <2>4
  <1>3. ASSUME NEW t \in Txns, NEW r \in Rids,
               \/ LockUpgrade(t, r) \/ WakeGranted(t, r)
               \/ WakeAborted(t, r) \/ Unlock(t, r)
        PROVE  Shape'
    BY <1>3, UpgradeKeeps, WakeGrantedKeeps, WakeAbortedKeeps, UnlockKeeps
  <1>4. ASSUME queue' = queue, waits' = waits, exclusiveSet' = exclusiveSet,
               \A u \in Txns : txnState[u] = "ABORTED" => txnState'[u] = "ABORTED"
        PROVE  Shape'
    <2>1. GrantedCompatible' /\ OneUngranted' /\ ExclusiveIsGranted'
      BY <1>4 DEF IInv, GrantedCompatible, OneUngranted, ExclusiveIsGranted, Granted
    <2>2. \A s \in Rids : \A j \in 1 .. Len(queue[s]) : queue[s][j].txn \in Txns
      BY RequestersAreTxns DEF IInv
    <2>3. UngrantedWaits'
      BY <1>4, <2>2 DEF IInv, UngrantedWaits
    <2>4. QED
      BY <2>1, <2>3 DEF Shape
  <1>5. ASSUME NEW t \in Txns, NEW r \in Rids,
               \/ AlreadyHeld(t, r) \/ UpgradeConflict(t, r)
               \/ UpgradeNothing(t, r) \/ SleepAgain(t, r)
        PROVE  Shape'
    BY <1>4, <1>5 DEF AlreadyHeld, UpgradeConflict, UpgradeNothing, SleepAgain,
                      IInv, TypeOK, vars
  <1>6. ASSUME NEW t \in Txns, Refused(t) \/ SpuriousWake(t) \/ AbortWaiting(t) PROVE Shape'
    BY <1>4, <1>6 DEF Refused, SpuriousWake, AbortWaiting, IInv, TypeOK
  <1>7. CASE UNCHANGED vars
    BY <1>4, <1>7 DEF vars
  <1>8. QED
    BY <1>1, <1>2, <1>3, <1>5, <1>6, <1>7 DEF Next, LockStep

\* The compatibility matrix holds on every queue: whatever mixture of shared,
\* exclusive, converting and upgrading calls, spurious wake-ups, aborts and unlocks,
\* a granted exclusive request excludes the requests of other transactions.
THEOREM GrantsAreCompatible == Spec => []GrantedCompatible
  <1>1. IInv => GrantedCompatible
    BY DEF IInv
  <1>2. QED
    BY InductiveInit, InductiveStep, <1>1, PTL DEF Spec

\* No two transactions ever have the same resource in exclusive_lock_set_.
THEOREM AtMostOneWriter == Spec => []OneWriter
  <1>1. IInv => OneWriter
    <2> SUFFICES ASSUME IInv, NEW t \in Txns, NEW u \in Txns,
                        NEW r \in exclusiveSet[t], r \in exclusiveSet[u]
                 PROVE  t = u
      BY DEF OneWriter
    <2>1. Granted(t, r, "EXCLUSIVE") /\ Granted(u, r, "EXCLUSIVE") /\ r \in Rids
      BY DEF IInv, ExclusiveIsGranted, TypeOK
    <2>2. QED
      BY <2>1 DEF IInv, GrantedCompatible, Granted
  <1>2. QED
    BY InductiveInit, InductiveStep, <1>1, PTL DEF Spec
=============================================================================
