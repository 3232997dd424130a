SPECIFICATION FairSpec
CONSTANTS
    Free = Free
    NoFile = NoFile
    BeatEvery = 1
    StaleAfter = 2
    Syncs = {p1, p2}
    Others = {o1}
    Callers = {c1, c2}
INVARIANTS StatusOwned HeavyStageSheds IInv
PROPERTY LeftoverExpires
