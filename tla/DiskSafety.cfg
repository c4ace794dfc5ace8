CONSTANTS
    Row = {a, b}
    NoRow = NoRow
    NoFile = NoFile
    Torn = Torn
    MaxRows = 3
    MaxBatch = 2
    MaxFaults = 1
    MaxCrashes = 2
SPECIFICATION Spec
SYMMETRY RowSymmetry
INVARIANTS DurableRows IndexCoversOnce SkippedRewriteIsSafe WholeFilesOpen
