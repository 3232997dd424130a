SPECIFICATION Spec
CONSTANTS
    m1 = m1
    m2 = m2
    m3 = m3
    t1 = t1
    Msgs = {m1, m2, m3}
    Elsewhere = Elsewhere
    Nobody = Nobody
    Untitled = Untitled
    Undated = Undated
    Mailboxes <- AnyMailbox
    Window = 30
    OverChunk = 2
    MaxMessages = 4
    MaxFaults = 1
    MaxIngests = 3
INVARIANTS TypeOK RebuildSettles NoStrangers RepliesTogether WalkIsWhole
