SPECIFICATION Spec
CONSTANTS
  Points <- MCPoints
  Scales <- MCScales
  MaxRows = 5
  MaxBatch = 4
  RowLimit = 1
  MidMax = 3
  MidLeaf = 2
  SoftThreshold = 2
  HardThreshold = 4
  CompactSmall = 2
  CompactRows = 2
  CompactMin = 2
  CompactMax = 2
  MergeSmall = 1
  SearchRows = 4
  SearchBudget = 1
  SmallN = 2
  LeafCapacity = 1
  MaxClusters = 2
  MaxIters = 2
  SkipNeighbors = 1
  BeamWidth = 1
  MaxCandidateLeaves = 2
  ExhaustiveLimit = 2
  SkipLimit = 3
INVARIANTS FragmentsWellFormed PlacedByOwnRows FragmentsBounded ExactWhenScanned TailNeverMissed SyncReturnsUnlessCrowded
