SPECIFICATION Spec
CONSTANTS
    Callers = {c1, c2, c3}
    Workers = {w1, w2, w3}
    NoWorker = NoWorker
    Soft = 1
    Hard = 2
    MaxBatch = 2
    MaxRows = 2
SYMMETRY Symmetry
INVARIANTS TypeOK CountersAgree QuiescentFlushInSlot HardPathAlone
PROPERTIES NoAppendMidFlight RefinesLog
