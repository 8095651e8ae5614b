SPECIFICATION TMSpec
CONSTANTS
  t1 = t1
  t2 = t2
  t3 = t3
  r1 = r1
  r2 = r2
  Txns <- MCTxns
  Rids <- MCTwoRids
  Calls <- Basic
  Dangling <- Survivable
SYMMETRY Symmetry
INVARIANTS HeldCompatible 
  
CHECK_DEADLOCK FALSE
