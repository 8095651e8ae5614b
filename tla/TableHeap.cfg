SPECIFICATION Spec
CONSTANTS
  small = small
  big = big
  huge = huge
  t1 = t1
  t2 = t2
  Rows <- MCRows
  SizeOf <- MCSizeOf
  NoRow = NoRow
  ONEBASE_PAGE_SIZE = 8
  SIZE_TABLE_PAGE_HEADER = 4
  SIZE_TUPLE_SLOT = 1
  Threads <- MCThreads
  Writers <- MCOne
  Scanners <- MCTheOther
  MaxPages = 3
  PoolMayFail = TRUE
INVARIANTS HeapHoldsRows  PagesSound
CHECK_DEADLOCK FALSE
