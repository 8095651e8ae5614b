SPECIFICATION Spec
CONSTANTS
  f1 = f1
  f2 = f2
  f3 = f3
  Frames <- MCFrames
  K = 2
  MaxTime = 7
SYMMETRY FrameSymmetry
INVARIANTS SizeCountsEvictable EvictFindsVictim VictimHasLargestKDistance
PROPERTIES ImplementsReplacer
