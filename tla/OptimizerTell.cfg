CONSTANTS
    Value <- MCValue
    NaN = NaN
    Batches <- MCBatches
    Resumable <- MCResumable
    NumInit = 2
    Dim = 3
    LengthInit = 8
    LengthMin = 5
    LengthMax = 16
    MaxTells = 5
    MaxFaults = 1
    Points <- MCPoints
    MorboBatches <- MCMorboBatches
    Weights <- MCWeights
    AlphaInverse = 20
    ScoreUnit = 2
    Tops = {1}
    KeepAll = KeepAll
    Arms = {1, 4}
    MorboTells = 4
    MorboFaults = 1
    NumRegions = 2
    Row <- MCRow
    RegionBatches <- MCRegionBatches
    MaxArms = 2
    RegionTells = 5
    Middle = 4
    SuccTolerance = 2
    FailTolerance = 2
    NoRegions = NoRegions
SPECIFICATION OptimizerSpec
INVARIANTS TypeOK IncumbentIsBest NeverRefused BestIsIncumbent LengthInRange RangesCoverRows BestIsCentersScore CenterHasBest EveryRegionActive CreditIsOwn
CHECK_DEADLOCK FALSE
