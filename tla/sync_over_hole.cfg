SPECIFICATION Spec
CONSTANTS
    s1 = s1
    s2 = s2
    p1 = p1
    p2 = p2
    r1 = r1
    Shards = {s1}
    Procs = {p1}
    Reindexers = {}
    NoProc = NoProc
    NoMarker = NoMarker
    OptSet <- OverOnly
    FaultKinds <- OverFault
    MaxCommits = 2
    MaxRetries = 0
    MaxFaults = 1
INVARIANT OverReconciled
