SPECIFICATION Spec
CONSTANTS
  Word = 2
  Limit = 12
  ClassFloor = 4
  PerOctave = 1
  ReuseRatio = 2
  Margin = 2
  StagingFloor = 8
  MaxPair = 16
  MaxPerClass = 1
  MaxFences = 8
  MaxRetired = 5
  Heap = 36
  HostHeap = 28
  Unified = FALSE
  Budgets = {14, 40}
  Requests = {5, 9}
  Settings <- MCExact
  MaxBuffers = 2
  MaxUploads = 1
INVARIANT MarginKept
