SPECIFICATION FairSpec
CONSTANTS
    t1 = t1
    t2 = t2
    i1 = i1
    i2 = i2
    Nobody = Nobody
    Threads = {t1, t2}
    Main = t1
    Collectors = {t1, t2}
    MayEnd = {t2}
    Items = {i1, i2}
INVARIANTS
    TypeOK
    ReachableKept
    ListedOnce
    MarksTrue
PROPERTIES
    BlocksLeftAlone
    RoundsEnd
