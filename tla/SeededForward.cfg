SPECIFICATION DecoderSpec
CONSTANTS
  Models <- MCModels
  Seeds <- MCSeeds
  Perturbed <- MCPerturbed
  Regenerated <- MCRegenerated
  Capacity = 1
  Layers = 2
  NoModel = NoModel
  NoTrial = NoTrial
  Arena = Arena
  MaxNeighbors = 1
  MaxTrials = 2
  MaxArchive = 0
  MaxTokens = 2
INVARIANTS SeededForwardIsTheTrial
