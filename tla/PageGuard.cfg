SPECIFICATION GuardSpec
CONSTANTS
  MaxPages = 3
  Data = {0, 1}
  Zero = 0
  PoolSize = 2
  h1 = h1
  h2 = h2
  Handles <- MCHandles
  InitNewPages = TRUE
  NoPage = NoPage
SYMMETRY HandleSymmetry
INVARIANTS TableMatchesFrames EveryFrameAccounted PinsAreOutstanding
INVARIANTS CleanIsOnDisk GuardsKeepTheirPage
PROPERTIES ReadsAreStable PointersStayValid 
