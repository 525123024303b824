SPECIFICATION Spec
CONSTANTS
  p1 = p1
  p2 = p2
  k1 = k1
  s1 = s1
  u1 = u1
  v1 = v1
  NoPair = NoPair
  NoSet = NoSet
  NoAnswer = NoAnswer
  Unheld = Unheld
  Pairs = {p1, p2}
  Kernels = {k1}
  Stages = {s1}
  MaxHandles = 3
  Pushed = {u1}
  ArenaSize = 1
  MaxItems = 2
  MaxUploads = 1
  MaxRetired = 1
  AsyncFlush = TRUE
  DeferUploads = TRUE
  Pooling = TRUE
  SubmitFaults = {}
  WaitFaults = {"idle"}
  MaxFaults = 1
  MayDiscard = FALSE
INVARIANTS
  HealthyLeaksNothing
SYMMETRY Symmetric
CHECK_DEADLOCK FALSE
