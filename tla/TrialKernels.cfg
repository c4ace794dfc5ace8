SPECIFICATION SelectionSpec
CONSTANTS
  Leaves <- MCLeaves
  TileElements = 2
  Threads = 4
  SimdWidth = 2
  HistoryBatch = 2
  MaxDepth = 8
  Nudge <- MCNudge
  Draws <- MCDraws
  Base = 1
  History <- MCHistory
  Runs <- MCRuns
  Garbage = Garbage
  NaN = NaN
  WordBits = 4
  Layout <- MCLayout
  Batches <- MCBatches
  Outcomes = {0, 3}
  FirstOutcome = 1
  NormalDraws <- MCNormalDraws
  Asks <- MCAsks
  DeviceNeighbors = 2
  MaxRounds = 2
  Modulus = 251
  LaneCount = 2
  PrefillLength = 3
  LocalState = 2
  Net <- MCNet
  Linears <- MCLinears
  Rows <- MCRows
  Noise <- MCNoise
  Scales <- MCScales
  Biases <- MCBiases
  Depth = 2
  Codes <- MCCodes
  Steps <- MCSteps
  Shifts <- MCShifts
  HiddenInput <- MCHiddenInput
  NormInput <- MCNormInput
  StepInput <- MCStepInput
  Scripts <- MCScripts
  TileRows = 8
  MaxK = 4
  Dim = 3
  Expansion = 4
  Infinite = 1000
  KnnScripts <- MCKnnScripts
INVARIANTS PassIsTheCpus SparseChoiceIsDense ForwardIsTheLayers NearestRowsFound
CHECK_DEADLOCK FALSE
