SPECIFICATION Spec
CONSTANTS
    s1 = s1
    s2 = s2
    p1 = p1
    p2 = p2
    r1 = r1
    Shards = {s1, s2}
    Procs = {p1}
    Reindexers = {}
    NoProc = NoProc
    NoMarker = NoMarker
    OptSet <- TwoOpts
    FaultKinds <- AllFaults
    MaxCommits = 2
    MaxRetries = 1
    MaxFaults = 2
SYMMETRY ShardSymmetry
INVARIANTS IInv OidCovered DerivedHolesOwed FinishedRunPublished
PROPERTIES DurableProgress CorpusSpec
