SPECIFICATION TMFairSpec
CONSTANTS
  t1 = t1
  t2 = t2
  t3 = t3
  r1 = r1
  r2 = r2
  Txns <- MCTxns
  Rids <- MCOneRid
  Calls <- WithUpgrade
  Dangling <- Intact
INVARIANTS GrantedCompatible OneWriter NoLostWakeup 
 
CHECK_DEADLOCK FALSE
