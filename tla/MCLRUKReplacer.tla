--------------------------- MODULE MCLRUKReplacer ---------------------------
(* LRUKReplacer on three frames, with histories long enough to be cut.     *)
EXTENDS LRUKReplacer, TLC

CONSTANTS f1, f2, f3

MCFrames == {f1, f2, f3}
FrameSymmetry == Permutations(Frames)
=============================================================================
