SPECIFICATION FairSpec
CONSTANTS
  a = a
  b = b
  Nothing = Nothing
  Threads = {a, b}
  Half = 4
  MaxCalls = 6
  LooseUploads = FALSE
  LateFailures = FALSE
  Stuck = {1}
INVARIANTS
  TypeOK
  ObjectsOutliveCalls
PROPERTIES
  LossesAreTold
  CallsAreAtomic
  ClosedDevicesGo
  EveryCallReturns
CHECK_DEADLOCK FALSE
