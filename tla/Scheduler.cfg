SPECIFICATION Spec
CONSTANTS
  TotalExperts = 4
  Grains = 1024
  Share = 409
  Tolerance = 4
  Significands = 1024
  Spacings = {1, 2, 4, 8}
  MostPicks = 4
  MaxGain = 2
  MaxRequested = 8
INVARIANTS
  ShareIsKept
  NobodyStarves
PROPERTIES
  BestFirst
