SPECIFICATION Spec
CONSTANTS
  Points <- MCPoints
  Scales <- MCScales
  MaxRows = 3
  MaxBatch = 2
  RowLimit = 1
  MidMax = 3
  MidLeaf = 2
  SoftThreshold = 2
  HardThreshold = 4
  CompactSmall = 3
  CompactRows = 2
  CompactMin = 1
  CompactMax = 2
  MergeSmall = 2
  SearchRows = 4
  SearchBudget = 1
  SmallN = 1
  LeafCapacity = 1
  MaxClusters = 2
  MaxIters = 2
  SkipNeighbors = 1
  BeamWidth = 1
  MaxCandidateLeaves = 2
  ExhaustiveLimit = 2
  SkipLimit = 3
INVARIANTS LeavesReachable
