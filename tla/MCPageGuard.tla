---------------------------- MODULE MCPageGuard ----------------------------
(***************************************************************************)
(* PageGuard on small instances: fewer frames than pages, so that evictions*)
(* happen, and handles enough to pin every frame, or one frame twice.      *)
(***************************************************************************)
EXTENDS PageGuard, TLC

CONSTANTS h1, h2

MCHandles == {h1, h2}
HandleSymmetry == Permutations(Handles)
=============================================================================
