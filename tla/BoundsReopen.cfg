CONSTANTS
    Row = {a}
    NoRow = NoRow
    NoFile = NoFile
    Torn = Torn
    MaxRows = 2
    MaxBatch = 1
    MaxFaults = 0
    MaxCrashes = 0
SPECIFICATION Spec
INVARIANT BoundsReopen
