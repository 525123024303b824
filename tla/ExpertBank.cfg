SPECIFICATION FairSpec
CONSTANTS
  w = w
  x = x
  r = r
  f = f
  g = g
  h = h
  Writers = {w, x}
  Readers = {r}
  Generations = {f, g}
  Matrices = 2
  MaxStep = 1
  Parameters = 2
  Counts = {0, 2}
  Attempts = 2
  Sharing = TRUE
  Apart = TRUE
  MaxFaults = 1
  Faults = {"refused", "interrupt", "crash", "rot"}
INVARIANTS
  CommittedWhole
  RefusedLeavesNothing
PROPERTIES
  CommitsAreAtomic
  EveryWriteEnds
CHECK_DEADLOCK FALSE
