------------------------ MODULE MCTransactionManager ------------------------
(***************************************************************************)
(* Three transactions: enough for two to share a lock while a third waits  *)
(* for it, and for an upgrader to meet both; two resources where one is to *)
(* be held while another is waited for.                                    *)
(***************************************************************************)
EXTENDS TransactionManager, TLC

CONSTANTS t1, t2, t3, r1, r2

MCTxns == {t1, t2, t3}
MCTwoRids == {r1, r2}
MCOneRid == {r1}
Basic == {"shared", "exclusive"}
WithUpgrade == {"shared", "exclusive", "upgrade"}
Intact == {"next"}
Survivable == {"next", "crash"}
Symmetry == Permutations(Txns) \cup Permutations(Rids)
=============================================================================
