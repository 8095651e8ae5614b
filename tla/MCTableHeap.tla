---------------------------- MODULE MCTableHeap ----------------------------
(***************************************************************************)
(* TableHeap in words of four bytes: a header of four words, one word per  *)
(* slot, and pages that hold two or three rows.  One row fits no page.     *)
(***************************************************************************)
EXTENDS TableHeap

CONSTANTS small, big, huge, t1, t2

MCRows == {small, big, huge}
MCSizeOf == [r \in Rows |-> CASE r = small -> 1 [] r = big -> 2 [] OTHER -> 9]
MCThreads == {t1, t2}
MCOne == {t1}
MCTheOther == {t2}
=============================================================================
