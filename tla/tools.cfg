SPECIFICATION FairSpec
CONSTANTS
    a1 = a1
    m1 = m1
    m2 = m2
    m3 = m3
    t1 = t1
    t2 = t2
    Nobody = Nobody
    Classes <- TwoClasses
    ClassOf <- Class
    Limit <- Limits
    Calls = {a1, m1, m2, m3}
    Threads = {t1, t2}
INVARIANTS TypeOK PermitsConserved NoOrphanUntold
PROPERTIES EveryCallAnswered ThreadsComeBack
