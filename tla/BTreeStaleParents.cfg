SPECIFICATION Spec
CONSTANTS
  NoPage = NoPage
  Keys <- MCKeys6
  Values = {10}
  Removable <- MCKeys6
  PageIds <- MCPageIds
  LeafMaxSize = 2
  InternalMaxSize = 3
  PageBytes = 4096
  PoolSize = 4
  OtherPins <- MCNoPins
INVARIANT ParentsMatch
