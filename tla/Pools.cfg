SPECIFICATION Spec
CONSTANTS
  Word = 2
  Limit = 12
  ClassFloor = 4
  PerOctave = 1
  ReuseRatio = 2
  Margin = 2
  StagingFloor = 8
  MaxPair = 16
  MaxPerClass = 1
  MaxFences = 8
  MaxRetired = 5
  Heap = 18
  HostHeap = 28
  Unified = FALSE
  Budgets = {12, 40}
  Requests = {5, 9}
  Settings <- MCSettings
  MaxBuffers = 2
  MaxUploads = 1
INVARIANTS
  PoolsWithinBounds
  BuffersFitTheirRequests
  NothingHeldBack
  BudgetKept
PROPERTIES
  SmallPairsStay
