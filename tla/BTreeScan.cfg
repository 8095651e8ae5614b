SPECIFICATION ScanSpec
CONSTANTS
  NoPage = NoPage
  Keys <- MCKeys
  Values = {10}
  Removable <- MCRemovable
  PageIds <- MCPageIds
  LeafMaxSize = 2
  InternalMaxSize = 3
  PageBytes = 4096
  PoolSize = 12
  OtherPins <- MCNoPins
  MaxScans = 1
INVARIANTS ScanSeesAll Balanced ParentsMatch
