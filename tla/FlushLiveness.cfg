SPECIFICATION FairSpec
CONSTANTS
    Callers = {c1, c2}
    Workers = {w1, w2}
    NoWorker = NoWorker
    Soft = 1
    Hard = 2
    MaxBatch = 1
    MaxRows = 2
PROPERTIES EveryCallReturns EveryFlushEnds
