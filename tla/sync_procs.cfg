SPECIFICATION FairSpec
CONSTANTS
    s1 = s1
    s2 = s2
    p1 = p1
    p2 = p2
    r1 = r1
    Shards = {s1}
    Procs = {p1, p2}
    Reindexers = {r1}
    NoProc = NoProc
    NoMarker = NoMarker
    OptSet <- TidOpts
    FaultKinds <- ProcessFaults
    MaxCommits = 2
    MaxRetries = 1
    MaxFaults = 1
INVARIANTS ManifestCovered TidMarkerHonest
PROPERTY EventuallyCaughtUp
