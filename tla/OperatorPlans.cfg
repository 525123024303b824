SPECIFICATION Spec
CONSTANTS
  U32 = 128
  U64 = 16384
  WordLimit = 64
  MaxGroups = 3
  Tile = 4
  MinTiledRows = 2
  MinTiledStride = 2
  PerGroup = 4
  Lanes = 2
  LongFiber = 2
  ElectScratchLimit = 6
  ScanLimit = 3
  RankRowLimit = 3
  RankWorkLimit = 8
  RadixMinRow = 2
  Block = 2
  Digits = 3
  Law <- MCLaw
  Limit <- MCLimit
  Bounds <- MCBounds
  Sizes <- MCSizes
  VqGroups = {1, 2}
  Mats <- MCMats
  Attn <- MCAttn
  HeadDims = {4, 8}
  NoRequest = NoRequest
  Requests <- MCRequests
INVARIANTS
  GridsAreWhole
  AccessesInStorage
  NoUnitsRace
  ScratchIsFresh
  RanksAreSorted
  ResultsAreComputed
  TermsCountedOnce
  PassesArePrepared
