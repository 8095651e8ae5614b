SPECIFICATION Spec
CONSTANTS
  NoPage = NoPage
  Keys <- MCKeys7
  Values = {10}
  Removable <- MCSmallest
  PageIds <- MCPageIds
  LeafMaxSize = 2
  InternalMaxSize = 3
  PageBytes = 4096
  PoolSize = 4
  OtherPins <- MCMostPins
INVARIANTS LookupFinds LeafChain NothingLeaks
 
CONSTRAINT ParentsMatch
