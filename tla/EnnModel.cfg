SPECIFICATION SurrogateSpec
CONSTANTS
  Threads = {t1, t2}
  NoThread = NoThread
  Points <- MCPoints
  MaxRows = 4
  MaxNeighbors = 2
  MaxFaults = 1
  Dimensions = 2
  Grid = 4
  LengthInit = 3
  SobolPoints <- MCSobol
  Setups <- MCSetups
  Surfaces <- MCSurfaces
  SpreadLists <- MCSpreadLists
  Bits = 2
SYMMETRY MCSymmetry
INVARIANTS AnswersAreNearest ConditionalIsAsAdded ArmsAnswerTheAsk
