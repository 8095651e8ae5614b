SPECIFICATION Spec
CONSTANTS
  tab1 = tab1
  tab2 = tab2
  idx1 = idx1
  k1 = k1
  k2 = k2
  s1 = s1
  s2 = s2
  Tables <- MCTables
  IndexNames <- MCIndexNames
  Keys <- MCKeys
  NoRow = NoRow
  MaxSlots = 3
  MaxIndexes = 2
  Sessions <- MCSessions
  MayRun <- MCMayRun
  Exprs <- MCExprs
  MaxLoaded = 2
  MaxStatements = 3
SYMMETRY Symmetric
INVARIANTS AloneMatchesReference  
CHECK_DEADLOCK FALSE
