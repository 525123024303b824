SPECIFICATION Spec
CONSTANTS
  a = a
  b = b
  Nothing = Nothing
  Threads = {a, b}
  Half = 3
  MaxCalls = 6
  LooseUploads = TRUE
  LateFailures = TRUE
  Stuck = {}
PROPERTIES
  LossesAreTold
SYMMETRY Symmetric
CHECK_DEADLOCK FALSE
