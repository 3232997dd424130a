SPECIFICATION SpecOnFullDisk
CONSTANTS
    w1 = w1
    w2 = w2
    Workers = {w1, w2}
    Walk = 2
    FrameCells = 2
    RollAt = 3
    MaxRetries = 1
    FaultKinds <- ShortWrites
    MaxFaults = 1
    MaxRuns = 1
SYMMETRY WorkerSymmetry
INVARIANT RowsReadable
CHECK_DEADLOCK FALSE
