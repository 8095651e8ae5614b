------------------------- MODULE TransactionManager -------------------------
(***************************************************************************)
(* concurrency/transaction_manager.cpp on top of the lock manager.  Commit *)
(* and Abort set the state without any latch and then call Unlock once for *)
(* every rid of the two lock sets, so other transactions run in between.   *)
(* Commit is called by the transaction's own thread; Abort also by another *)
(* thread while the transaction waits for a lock, which is what the abort  *)
(* tests in the wait predicates are there for.                             *)
(*                                                                         *)
(* The loops are range-for loops over the set that Unlock erases from: the *)
(* iterator, and the rid reference Unlock was given, point into a freed    *)
(* node.  What happens then is up to the build: the freed node may still   *)
(* be readable ("next"), may read as the last one ("end"), or the process  *)
(* may die ("crash").                                                      *)
(***************************************************************************)
EXTENDS LockManager

CONSTANT Dangling    \* the outcomes of stepping off a freed set node

ASSUME DanglingAssumption ==
  Dangling \subseteq {"next", "end", "crash"} /\ Dangling # {}

VARIABLES
  ending,     \* the loop the transaction's Commit or Abort is in
  crashed     \* the process died

tmVars == <<vars, ending, crashed>>

Phase == {"unborn", "running", "shared", "exclusive", "clear", "done"}

TMTypeOK ==
  /\ TypeOK
  /\ ending \in [Txns -> Phase]
  /\ crashed \in BOOLEAN

TMInit ==
  /\ Init
  /\ ending = [t \in Txns |-> "unborn"]
  /\ crashed = FALSE

\* Begin hands out a fresh id: a transaction in state GROWING without locks.
Begin(t) ==
  /\ ending[t] = "unborn"
  /\ ending' = [ending EXCEPT ![t] = "running"]
  /\ UNCHANGED <<vars, crashed>>

Commit(t) ==
  /\ ending[t] = "running"
  /\ Idle(t)
  /\ txnState' = [txnState EXCEPT ![t] = "COMMITTED"]
  /\ ending' = [ending EXCEPT ![t] = "shared"]
  /\ UNCHANGED <<sharedSet, exclusiveSet, queue, upgrading, waits, awake, crashed>>

\* By its own thread, or by another one while t waits.
Abort(t) ==
  /\ ending[t] = "running"
  /\ txnState' = [txnState EXCEPT ![t] = "ABORTED"]
  /\ ending' = [ending EXCEPT ![t] = "shared"]
  /\ UNCHANGED <<sharedSet, exclusiveSet, queue, upgrading, waits, awake, crashed>>

-----------------------------------------------------------------------------
(* The release loops.                                                      *)

\* Unlock(txn, rid) as the loops call it: the state is no longer GROWING.
ReleaseRequest(t, r) ==
  /\ queue' = [queue EXCEPT ![r] = RemoveRequest(queue[r], t)]
  /\ awake' = Notify(r)
  /\ UNCHANGED <<txnState, upgrading, waits>>

\* Where the loop goes from a freed node: to the rest of the set, or out of
\* it (also when that was the last element).
Advance(t, outcome, rest, nextPhase) ==
  /\ crashed' = (outcome = "crash")
  /\ ending' = IF outcome = "next" /\ rest # {} THEN ending
               ELSE [ending EXCEPT ![t] = nextPhase]

\* One iteration over shared_lock_set_.  Its rid is freed by the first erase,
\* so the second one, from exclusive_lock_set_, may or may not find it.
ReleaseShared(t, r, outcome) ==
  /\ ending[t] = "shared"
  /\ r \in sharedSet[t]
  /\ ReleaseRequest(t, r)
  /\ sharedSet' = [sharedSet EXCEPT ![t] = sharedSet[t] \ {r}]
  /\ \/ exclusiveSet' = [exclusiveSet EXCEPT ![t] = exclusiveSet[t] \ {r}]
     \/ UNCHANGED exclusiveSet
  /\ Advance(t, outcome, sharedSet[t] \ {r}, "exclusive")

\* One iteration over exclusive_lock_set_: the rid outlives both erases.
ReleaseExclusive(t, r, outcome) ==
  /\ ending[t] = "exclusive"
  /\ r \in exclusiveSet[t]
  /\ ReleaseRequest(t, r)
  /\ sharedSet' = [sharedSet EXCEPT ![t] = sharedSet[t] \ {r}]
  /\ exclusiveSet' = [exclusiveSet EXCEPT ![t] = exclusiveSet[t] \ {r}]
  /\ Advance(t, outcome, exclusiveSet[t] \ {r}, "clear")

\* A loop over an empty set.
SkipLoop(t) ==
  /\ \/ /\ ending[t] = "shared" /\ sharedSet[t] = {}
        /\ ending' = [ending EXCEPT ![t] = "exclusive"]
     \/ /\ ending[t] = "exclusive" /\ exclusiveSet[t] = {}
        /\ ending' = [ending EXCEPT ![t] = "clear"]
  /\ UNCHANGED <<vars, crashed>>

\* clear() on both sets, whatever the loops left in them.
ClearSets(t) ==
  /\ ending[t] = "clear"
  /\ sharedSet' = [sharedSet EXCEPT ![t] = {}]
  /\ exclusiveSet' = [exclusiveSet EXCEPT ![t] = {}]
  /\ ending' = [ending EXCEPT ![t] = "done"]
  /\ UNCHANGED <<txnState, queue, upgrading, waits, awake, crashed>>

-----------------------------------------------------------------------------
Ending(t) ==
  \/ SkipLoop(t)
  \/ ClearSets(t)
  \/ \E r \in Rids, outcome \in Dangling :
       ReleaseShared(t, r, outcome) \/ ReleaseExclusive(t, r, outcome)

\* Lock calls of running transactions, and the return of calls in progress.
Locking(t) ==
  /\ UNCHANGED <<ending, crashed>>
  /\ \/ SpuriousWake(t)
     \/ \E r \in Rids : SleepAgain(t, r) \/ WakeGranted(t, r) \/ WakeAborted(t, r)
     \/ /\ ending[t] = "running"
        /\ \/ Refused(t)
           \/ \E r \in Rids : LockStep(t, r) \/ Unlock(t, r)

TMNext ==
  \E t \in Txns :
    ~crashed /\ (Begin(t) \/ Commit(t) \/ Abort(t) \/ Ending(t) \/ Locking(t))

TMSpec == TMInit /\ [][TMNext]_tmVars

\* Threads run on: a call that was woken, and a Commit or Abort in progress;
\* and a thread that is not blocked ends its transaction at some time.  Nobody
\* is obliged to abort a transaction that waits.
TMFairness ==
  \A t \in Txns :
    /\ WF_tmVars(~crashed /\ Ending(t))
    /\ WF_tmVars(~crashed /\ (Commit(t) \/ (Idle(t) /\ Abort(t))))
    /\ WF_tmVars(/\ ~crashed /\ UNCHANGED <<ending, crashed>>
                 /\ \E r \in Rids : \/ SleepAgain(t, r)
                                    \/ WakeGranted(t, r)
                                    \/ WakeAborted(t, r))

TMFairSpec == TMSpec /\ TMFairness

-----------------------------------------------------------------------------
\* "Release all locks": a transaction whose Commit or Abort has returned has
\* no granted request left in any queue.
EndReleasesAll ==
  \A t \in Txns : ending[t] = "done" =>
    \A r \in Rids : \A i \in 1 .. Len(queue[r]) :
      queue[r][i].txn = t => ~queue[r][i].granted

\* A transaction aborted while it waits never obtains the lock it waited for,
\* nor any other: once ABORTED or COMMITTED its lock sets only shrink.
EndedNeverAcquires ==
  [][\A t \in Txns :
       txnState[t] \in {"ABORTED", "COMMITTED"}
       => /\ sharedSet'[t] \subseteq sharedSet[t]
          /\ exclusiveSet'[t] \subseteq exclusiveSet[t]]_tmVars

\* Every transaction ends and its thread is free again, whoever is aborted
\* while waiting: although Abort does not notify the queue its victim waits
\* in, the Unlock of the lock the victim waited for does.
EveryTransactionEnds ==
  \A t \in Txns : ending[t] = "running" ~> ending[t] = "done" /\ Idle(t)
=============================================================================
