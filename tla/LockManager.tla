---------------------------- MODULE LockManager ----------------------------
(***************************************************************************)
(* concurrency/lock_manager.cpp.  A transaction is run by one thread.  A   *)
(* call holds latch_ from its entry to its return, except while it waits   *)
(* on the condition variable of the resource's queue, so a call is one     *)
(* action when its predicate holds at once, and otherwise an entry, any    *)
(* number of wake-ups, and a return.  A waiter re-evaluates its predicate  *)
(* only when it has been woken: by the notify_all of an Unlock of the same *)
(* resource, or spuriously, which std::condition_variable permits.         *)
(***************************************************************************)
EXTENDS Integers, Sequences, FiniteSets

CONSTANTS
  Txns,      \* transactions, each with its thread
  Rids,      \* the resources: RIDs of tuples
  Calls      \* which calls the threads make, a subset of AllCalls

\* "convert" is LockExclusive on a resource the transaction holds shared.
AllCalls == {"shared", "exclusive", "convert", "upgrade"}

ASSUME CallsAssumption == Calls \subseteq AllCalls

VARIABLES
  txnState,       \* txn->state_
  sharedSet,      \* txn->shared_lock_set_
  exclusiveSet,   \* txn->exclusive_lock_set_
  queue,          \* lock_table_[rid].request_queue_
  upgrading,      \* the rids whose queue has upgrading_ set
  waits,          \* waits[r][t]: the call in which t waits on r, or "no"
  awake           \* waiters that will look at their predicate again

vars == <<txnState, sharedSet, exclusiveSet, queue, upgrading, waits, awake>>

TransactionState == {"GROWING", "SHRINKING", "COMMITTED", "ABORTED"}
LockMode == {"SHARED", "EXCLUSIVE"}
LockRequest == [txn : Txns, mode : LockMode, granted : BOOLEAN]
WaitKind == {"no", "shared", "exclusive", "upgrade"}

TypeOK ==
  /\ txnState \in [Txns -> TransactionState]
  /\ sharedSet \in [Txns -> SUBSET Rids]
  /\ exclusiveSet \in [Txns -> SUBSET Rids]
  /\ queue \in [Rids -> Seq(LockRequest)]
  /\ upgrading \in SUBSET Rids
  /\ waits \in [Rids -> [Txns -> WaitKind]]
  /\ awake \in SUBSET Txns

Init ==
  /\ txnState = [t \in Txns |-> "GROWING"]
  /\ sharedSet = [t \in Txns |-> {}]
  /\ exclusiveSet = [t \in Txns |-> {}]
  /\ queue = [r \in Rids |-> <<>>]
  /\ upgrading = {}
  /\ waits = [r \in Rids |-> [t \in Txns |-> "no"]]
  /\ awake = {}

Idle(t) == \A r \in Rids : waits[r][t] = "no"

-----------------------------------------------------------------------------
(* Request queues.                                                         *)

\* Mutant: a granted shared request of another transaction does not matter.
NoOtherGrantedIgnoresShared(q, t) ==
  \A i \in 1 .. Len(q) :
    q[i].granted /\ q[i].mode = "EXCLUSIVE" => q[i].txn = t

\* Mutant: only the request at the front of the queue decides.
NoOtherGrantedLooksAtFirst(q, t) == Len(q) > 0 /\ q[1].granted => q[1].txn = t

\* The predicate of LockExclusive and LockUpgrade, without the abort test.
NoOtherGranted(q, t) == \A i \in 1 .. Len(q) : q[i].granted => q[i].txn = t

\* Mutant: the last request, not a granted one, decides.
NoExclusiveGrantedLooksAtLast(q) ==
  Len(q) = 0 \/ ~q[Len(q)].granted \/ q[Len(q)].mode = "SHARED"

\* The predicate of LockShared, without the abort test.
NoExclusiveGranted(q) ==
  \A i \in 1 .. Len(q) : q[i].granted => q[i].mode = "SHARED"

\* What a waiter of the given kind waits for.
Grantable(q, t, kind) ==
  IF kind = "shared" THEN NoExclusiveGranted(q) ELSE NoOtherGranted(q, t)

\* The queue without its i-th request.
Without(q, i) ==
  [j \in 1 .. Len(q) - 1 |-> IF j < i THEN q[j] ELSE q[j + 1]]

\* i is the position of the first request of t that satisfies the rest.
IsFirst(q, i, t, mustBeGranted) ==
  /\ i \in 1 .. Len(q)
  /\ q[i].txn = t
  /\ mustBeGranted => q[i].granted
  /\ \A j \in 1 .. i - 1 : q[j].txn = t => mustBeGranted /\ ~q[j].granted

Request(t, mode) == [txn |-> t, mode |-> mode, granted |-> FALSE]

-----------------------------------------------------------------------------
(* LockShared and LockExclusive.                                           *)

\* The call's request is granted at once: the last of the queue.
GrantNew(t, r, q) ==
  /\ queue' = [queue EXCEPT ![r] = [q EXCEPT ![Len(q)].granted = TRUE]]
  /\ UNCHANGED <<waits, awake>>

\* The call goes to sleep on the queue's condition variable.
Sleep(t, r, q, kind) ==
  /\ queue' = [queue EXCEPT ![r] = q]
  /\ waits' = [waits EXCEPT ![r][t] = kind]
  /\ UNCHANGED awake

LockShared(t, r) ==
  LET q == Append(queue[r], Request(t, "SHARED")) IN
  /\ "shared" \in Calls
  /\ Idle(t)
  /\ txnState[t] = "GROWING"
  /\ r \notin sharedSet[t] \cup exclusiveSet[t]
  /\ \/ /\ NoExclusiveGranted(q)
        /\ GrantNew(t, r, q)
        /\ sharedSet' = [sharedSet EXCEPT ![t] = sharedSet[t] \cup {r}]
     \/ /\ ~NoExclusiveGranted(q)
        /\ Sleep(t, r, q, "shared")
        /\ UNCHANGED sharedSet
  /\ UNCHANGED <<txnState, exclusiveSet, upgrading>>

LockExclusive(t, r) ==
  LET q == Append(queue[r], Request(t, "EXCLUSIVE")) IN
  /\ IF r \in sharedSet[t] THEN "convert" \in Calls ELSE "exclusive" \in Calls
  /\ Idle(t)
  /\ txnState[t] = "GROWING"
  /\ r \notin exclusiveSet[t]
  /\ \/ /\ NoOtherGranted(q, t)
        /\ GrantNew(t, r, q)
        /\ exclusiveSet' = [exclusiveSet EXCEPT ![t] = exclusiveSet[t] \cup {r}]
     \/ /\ ~NoOtherGranted(q, t)
        /\ Sleep(t, r, q, "exclusive")
        /\ UNCHANGED exclusiveSet
  /\ UNCHANGED <<txnState, sharedSet, upgrading>>

\* A lock that is held already is granted again without a request.
AlreadyHeld(t, r) ==
  /\ Idle(t)
  /\ txnState[t] = "GROWING"
  /\ \/ "shared" \in Calls /\ r \in sharedSet[t]
     \/ Calls \cap {"shared", "exclusive"} # {} /\ r \in exclusiveSet[t]
  /\ UNCHANGED vars

\* Any lock call of a shrinking transaction aborts it.  (A call of an aborted
\* one returns false and changes nothing.)
Refused(t) ==
  /\ Idle(t)
  /\ txnState[t] = "SHRINKING"
  /\ txnState' = [txnState EXCEPT ![t] = "ABORTED"]
  /\ UNCHANGED <<sharedSet, exclusiveSet, queue, upgrading, waits, awake>>

-----------------------------------------------------------------------------
(* LockUpgrade.                                                            *)

\* Somebody is upgrading on r already: the caller is aborted.
UpgradeConflict(t, r) ==
  /\ "upgrade" \in Calls
  /\ Idle(t)
  /\ txnState[t] = "GROWING"
  /\ r \in upgrading
  /\ txnState' = [txnState EXCEPT ![t] = "ABORTED"]
  /\ UNCHANGED <<sharedSet, exclusiveSet, queue, upgrading, waits, awake>>

\* The caller has nothing granted on r: false, and upgrading_ as it was.
UpgradeNothing(t, r) ==
  /\ "upgrade" \in Calls
  /\ Idle(t)
  /\ txnState[t] = "GROWING"
  /\ r \notin upgrading
  /\ \A i \in 1 .. Len(queue[r]) : ~IsFirst(queue[r], i, t, TRUE)
  /\ UNCHANGED vars

\* The granted request becomes an exclusive one that is not granted, although
\* r stays in shared_lock_set_, and the caller waits to be the only holder.
LockUpgrade(t, r) ==
  /\ "upgrade" \in Calls
  /\ Idle(t)
  /\ txnState[t] = "GROWING"
  /\ r \notin upgrading
  /\ \E i \in 1 .. Len(queue[r]) :
       /\ IsFirst(queue[r], i, t, TRUE)
       /\ \/ /\ NoOtherGranted(queue[r], t)
             /\ queue' = [queue EXCEPT ![r][i].mode = "EXCLUSIVE"]
             /\ sharedSet' = [sharedSet EXCEPT ![t] = sharedSet[t] \ {r}]
             /\ exclusiveSet' = [exclusiveSet EXCEPT ![t] = exclusiveSet[t] \cup {r}]
             /\ UNCHANGED <<upgrading, waits>>
          \/ /\ ~NoOtherGranted(queue[r], t)
             /\ queue' = [queue EXCEPT ![r][i] = Request(t, "EXCLUSIVE")]
             /\ upgrading' = upgrading \cup {r}
             /\ waits' = [waits EXCEPT ![r][t] = "upgrade"]
             /\ UNCHANGED <<sharedSet, exclusiveSet>>
  /\ UNCHANGED <<txnState, awake>>

-----------------------------------------------------------------------------
(* Waking up.                                                              *)

\* The condition variable wakes a waiter nobody notified.
SpuriousWake(t) ==
  /\ ~Idle(t)
  /\ t \notin awake
  /\ awake' = awake \cup {t}
  /\ UNCHANGED <<txnState, sharedSet, exclusiveSet, queue, upgrading, waits>>

\* Another thread aborts a waiting transaction: TransactionManager::Abort sets
\* the state without latch_ and without notifying.  The Unlock calls of that
\* Abort, which need not wait for the blocked call, are in TransactionManager.
AbortWaiting(t) ==
  /\ ~Idle(t)
  /\ txnState[t] # "ABORTED"
  /\ txnState' = [txnState EXCEPT ![t] = "ABORTED"]
  /\ UNCHANGED <<sharedSet, exclusiveSet, queue, upgrading, waits, awake>>

\* The predicate is still false: back to sleep.
SleepAgain(t, r) ==
  /\ t \in awake
  /\ waits[r][t] # "no"
  /\ txnState[t] # "ABORTED"
  /\ ~Grantable(queue[r], t, waits[r][t])
  /\ awake' = awake \ {t}
  /\ UNCHANGED <<txnState, sharedSet, exclusiveSet, queue, upgrading, waits>>

\* Mutant: a waiter woken by an abort takes the lock all the same.
WakeGrantedIgnoresAbort(t, r) ==
  /\ t \in awake
  /\ waits[r][t] # "no"
  /\ Grantable(queue[r], t, waits[r][t])
  /\ \E i \in 1 .. Len(queue[r]) :
       /\ queue[r][i].txn = t /\ ~queue[r][i].granted
       /\ queue' = [queue EXCEPT ![r][i].granted = TRUE]
  /\ IF waits[r][t] = "shared"
     THEN /\ sharedSet' = [sharedSet EXCEPT ![t] = sharedSet[t] \cup {r}]
          /\ UNCHANGED exclusiveSet
     ELSE /\ exclusiveSet' = [exclusiveSet EXCEPT ![t] = exclusiveSet[t] \cup {r}]
          /\ UNCHANGED sharedSet
  /\ waits' = [waits EXCEPT ![r][t] = "no"]
  /\ awake' = awake \ {t}
  /\ UNCHANGED <<txnState, upgrading>>

\* The waiting request is granted and the call returns true.
WakeGranted(t, r) ==
  /\ t \in awake
  /\ waits[r][t] # "no"
  /\ txnState[t] # "ABORTED"
  /\ Grantable(queue[r], t, waits[r][t])
  /\ \E i \in 1 .. Len(queue[r]) :
       /\ queue[r][i].txn = t /\ ~queue[r][i].granted
       /\ queue' = [queue EXCEPT ![r][i].granted = TRUE]
  /\ IF waits[r][t] = "shared"
     THEN /\ sharedSet' = [sharedSet EXCEPT ![t] = sharedSet[t] \cup {r}]
          /\ UNCHANGED exclusiveSet
     ELSE /\ sharedSet' = IF waits[r][t] = "upgrade"
                          THEN [sharedSet EXCEPT ![t] = sharedSet[t] \ {r}]
                          ELSE sharedSet
          /\ exclusiveSet' = [exclusiveSet EXCEPT ![t] = exclusiveSet[t] \cup {r}]
  /\ upgrading' = IF waits[r][t] = "upgrade" THEN upgrading \ {r} ELSE upgrading
  /\ waits' = [waits EXCEPT ![r][t] = "no"]
  /\ awake' = awake \ {t}
  /\ UNCHANGED txnState

\* The transaction was aborted while it waited.  LockShared and LockExclusive
\* erase their request; LockUpgrade only clears upgrading_.
WakeAborted(t, r) ==
  /\ t \in awake
  /\ waits[r][t] # "no"
  /\ txnState[t] = "ABORTED"
  /\ IF waits[r][t] = "upgrade"
     THEN upgrading' = upgrading \ {r} /\ UNCHANGED queue
     ELSE /\ \E i \in 1 .. Len(queue[r]) :
               /\ queue[r][i].txn = t /\ ~queue[r][i].granted
               /\ queue' = [queue EXCEPT ![r] = Without(queue[r], i)]
          /\ UNCHANGED upgrading
  /\ waits' = [waits EXCEPT ![r][t] = "no"]
  /\ awake' = awake \ {t}
  /\ UNCHANGED <<txnState, sharedSet, exclusiveSet>>

-----------------------------------------------------------------------------
(* Unlock.                                                                 *)

\* Mutant: the waiters are not notified.
NotifyNobody(r) == awake

\* cv_.notify_all on the queue of r.
Notify(r) == awake \cup {t \in Txns : waits[r][t] # "no"}

\* Mutant: the request is left in the queue.
RemoveRequestNever(q, t) == q

\* The first request of t leaves the queue, if there is one.
RemoveRequest(q, t) ==
  IF \E i \in 1 .. Len(q) : IsFirst(q, i, t, FALSE)
  THEN Without(q, CHOOSE i \in 1 .. Len(q) : IsFirst(q, i, t, FALSE))
  ELSE q

\* Mutant: releasing a lock does not end the growing phase.
UnlockStaysGrowing(t, r) ==
  /\ Idle(t)
  /\ queue' = [queue EXCEPT ![r] = RemoveRequest(queue[r], t)]
  /\ sharedSet' = [sharedSet EXCEPT ![t] = sharedSet[t] \ {r}]
  /\ exclusiveSet' = [exclusiveSet EXCEPT ![t] = exclusiveSet[t] \ {r}]
  /\ awake' = Notify(r)
  /\ UNCHANGED <<txnState, upgrading, waits>>

Unlock(t, r) ==
  /\ Idle(t)
  /\ queue' = [queue EXCEPT ![r] = RemoveRequest(queue[r], t)]
  /\ txnState' = IF txnState[t] = "GROWING"
                 THEN [txnState EXCEPT ![t] = "SHRINKING"] ELSE txnState
  /\ sharedSet' = [sharedSet EXCEPT ![t] = sharedSet[t] \ {r}]
  /\ exclusiveSet' = [exclusiveSet EXCEPT ![t] = exclusiveSet[t] \ {r}]
  /\ awake' = Notify(r)
  /\ UNCHANGED <<upgrading, waits>>

-----------------------------------------------------------------------------
LockStep(t, r) ==
  \/ LockShared(t, r)
  \/ LockExclusive(t, r)
  \/ AlreadyHeld(t, r)
  \/ UpgradeConflict(t, r)
  \/ UpgradeNothing(t, r)
  \/ LockUpgrade(t, r)
  \/ SleepAgain(t, r)
  \/ WakeGranted(t, r)
  \/ WakeAborted(t, r)

Next ==
  \E t \in Txns :
    \/ Refused(t)
    \/ SpuriousWake(t)
    \/ AbortWaiting(t)
    \/ \E r \in Rids : LockStep(t, r) \/ Unlock(t, r)

Spec == Init /\ [][Next]_vars

-----------------------------------------------------------------------------
Granted(t, r, mode) ==
  \E i \in 1 .. Len(queue[r]) :
    queue[r][i].txn = t /\ queue[r][i].mode = mode /\ queue[r][i].granted

\* The compatibility matrix on the queues: a granted exclusive request and
\* any other granted request on the resource are of the same transaction.
GrantedCompatible ==
  \A r \in Rids : \A i, j \in 1 .. Len(queue[r]) :
    /\ queue[r][i].granted /\ queue[r][i].mode = "EXCLUSIVE"
    /\ queue[r][j].granted
    => queue[r][i].txn = queue[r][j].txn

\* Two transactions never both hold a resource exclusively, whatever mixture
\* of calls, conversions and upgrades got them there.
OneWriter ==
  \A t, u \in Txns : t # u => exclusiveSet[t] \cap exclusiveSet[u] = {}

\* A resource in an exclusive lock set has a granted exclusive request.
ExclusiveIsGranted ==
  \A t \in Txns : \A r \in exclusiveSet[t] : Granted(t, r, "EXCLUSIVE")

\* A request that is not granted is the one its transaction waits with, in
\* the mode of the waiting call, or an aborted upgrade's leftover.
UngrantedWaits ==
  \A r \in Rids : \A i \in 1 .. Len(queue[r]) :
    LET t == queue[r][i].txn IN
    ~queue[r][i].granted =>
      IF waits[r][t] = "no" THEN txnState[t] = "ABORTED"
      ELSE queue[r][i].mode = "SHARED" <=> waits[r][t] = "shared"

\* A transaction waits with one request at a time.
OneUngranted ==
  \A r \in Rids : \A i, j \in 1 .. Len(queue[r]) :
    /\ ~queue[r][i].granted /\ ~queue[r][j].granted
    /\ queue[r][i].txn = queue[r][j].txn
    => i = j

\* Why granting is safe, in inductive form: the compatibility matrix together
\* with what ties the waiting calls and the lock sets to the queues.
IInv ==
  /\ TypeOK
  /\ GrantedCompatible
  /\ ExclusiveIsGranted
  /\ UngrantedWaits
  /\ OneUngranted

\* "An EXCLUSIVE lock is mutually exclusive with any other lock": while one
\* transaction holds a resource exclusively, no other holds it at all.
HeldCompatible ==
  \A t, u \in Txns :
    t # u => exclusiveSet[t] \cap (sharedSet[u] \cup exclusiveSet[u]) = {}

\* The lock sets and the queues tell the same story: a lock is in a set
\* exactly when its request is granted, and a transaction has at most one
\* request in a queue, not granted exactly while it waits there.
SetsMatchQueues ==
  \A t \in Txns, r \in Rids :
    LET mine == {i \in 1 .. Len(queue[r]) : queue[r][i].txn = t} IN
    /\ r \in sharedSet[t] <=> Granted(t, r, "SHARED")
    /\ r \in exclusiveSet[t] <=> Granted(t, r, "EXCLUSIVE")
    /\ \A i, j \in mine : i = j
    /\ (\E i \in mine : ~queue[r][i].granted) <=> waits[r][t] # "no"

\* "Keep transaction lock sets and request queues consistent on success, wait,
\* abort, and unlock": a granted request is a lock its transaction knows of,
\* and so will release.
GrantedIsHeld ==
  \A r \in Rids : \A i \in 1 .. Len(queue[r]) :
    LET t == queue[r][i].txn IN
    queue[r][i].granted => r \in sharedSet[t] \cup exclusiveSet[t]

\* No wake-up is lost: a waiter that sleeps on, un-notified, waits for
\* something that is not the case yet.
NoLostWakeup ==
  \A t \in Txns, r \in Rids :
    waits[r][t] # "no" /\ t \notin awake => ~Grantable(queue[r], t, waits[r][t])

-----------------------------------------------------------------------------
Table == INSTANCE LockTable
           WITH readers <- [r \in Rids |-> {t \in Txns : r \in sharedSet[t]}],
                writers <- [r \in Rids |-> {t \in Txns : r \in exclusiveSet[t]}],
                growing <- {t \in Txns : txnState[t] = "GROWING"}

\* Blocking, waking and queueing implement the lock table: every change of
\* the lock sets is a compatible acquisition by a growing transaction or a
\* release that ends its growing phase.
ImplementsLockTable == Table!Spec
=============================================================================
