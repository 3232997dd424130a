SPECIFICATION Spec
CONSTANTS
    w1 = w1
    w2 = w2
    Workers = {w1, w2}
    Walk = 2
    FrameCells = 2
    RollAt = 3
    MaxRetries = 1
    FaultKinds <- TornTails
    MaxFaults = 2
    MaxRuns = 2
SYMMETRY WorkerSymmetry
INVARIANTS TypeOK RowsReadable RowsDurable PositionHonest
CHECK_DEADLOCK FALSE
