------------------------ MODULE MCBPlusTreeIterator ------------------------
(***************************************************************************)
(* Seven keys in nodes of two and three give trees of three levels.  One   *)
(* key comes and goes: leaves merge and borrow on both sides, but no two   *)
(* internal nodes merge, which is where parent pointers go stale.          *)
(***************************************************************************)
EXTENDS BPlusTreeIterator

MCKeys == 1 .. 7
MCPageIds == 1 .. 14
MCRemovable == {5}
MCNoPins == {0}
=============================================================================
