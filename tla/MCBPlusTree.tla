---------------------------- MODULE MCBPlusTree ----------------------------
(***************************************************************************)
(* Instances of BPlusTree for TLC.                                         *)
(***************************************************************************)
EXTENDS BPlusTree

MCKeys6 == 1 .. 6
MCKeys7 == 1 .. 7
MCPageIds == 1 .. 16
MCSmallest == {1, 2}

\* How many frames other users of the pool keep pinned: none, or all, all but
\* one or none of them in turn.
MCNoPins == {0}
MCMostPins == {0, PoolSize - 1, PoolSize}
=============================================================================
