SPECIFICATION Spec
CONSTANTS
  w = w
  x = x
  r = r
  f = f
  g = g
  h = h
  Writers = {w}
  Readers = {r}
  Generations = {f, g, h}
  Matrices = 2
  MaxStep = 1
  Parameters = 2
  Counts = {0, 2}
  Attempts = 2
  Sharing = TRUE
  Apart = TRUE
  MaxFaults = 2
  Faults = {"partial"}
INVARIANTS
  RefusedLeavesNothing
SYMMETRY Symmetric
CHECK_DEADLOCK FALSE
