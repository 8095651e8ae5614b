----------------------------- MODULE LockTable -----------------------------
(***************************************************************************)
(* What strict users of the lock manager expect of it: a table of shared   *)
(* and exclusive holders that obeys the compatibility matrix, and lets a   *)
(* transaction acquire only while it has released nothing.                 *)
(***************************************************************************)
CONSTANTS Txns, Rids

VARIABLES
  readers,    \* readers[r]: the transactions with a shared lock on r
  writers,    \* writers[r]: the transactions with an exclusive lock on r
  growing     \* the transactions that may still acquire

vars == <<readers, writers, growing>>

Init ==
  /\ readers = [r \in Rids |-> {}]
  /\ writers = [r \in Rids |-> {}]
  /\ growing = Txns

AcquireShared(t, r) ==
  /\ t \in growing
  /\ writers[r] = {}
  /\ readers' = [readers EXCEPT ![r] = readers[r] \cup {t}]
  /\ UNCHANGED <<writers, growing>>

AcquireExclusive(t, r) ==
  /\ t \in growing
  /\ readers[r] \cup writers[r] \subseteq {t}
  /\ writers' = [writers EXCEPT ![r] = writers[r] \cup {t}]
  /\ UNCHANGED <<readers, growing>>

Release(t, r) ==
  /\ readers' = [readers EXCEPT ![r] = readers[r] \ {t}]
  /\ writers' = [writers EXCEPT ![r] = writers[r] \ {t}]
  /\ growing' = growing \ {t}

\* A transaction may also stop growing without releasing: it is aborted.
Stop(t) == growing' = growing \ {t} /\ UNCHANGED <<readers, writers>>

Next == \E t \in Txns :
          \/ Stop(t)
          \/ \E r \in Rids : \/ AcquireShared(t, r)
                             \/ AcquireExclusive(t, r)
                             \/ Release(t, r)

Spec == Init /\ [][Next]_vars
=============================================================================
