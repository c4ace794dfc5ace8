SPECIFICATION Spec
CONSTANTS
  Models <- MCModels
  Seeds <- MCSeeds
  Perturbed <- MCPerturbed
  Capacity = 2
  NoModel = NoModel
  NoTrial = NoTrial
  MaxNeighbors = 2
  MaxTrials = 3
  MaxArchive = 2
INVARIANTS HistoryRowsMatch SlotAlwaysFree DeviceIsCurrent
PROPERTY RefinesTrialLog
