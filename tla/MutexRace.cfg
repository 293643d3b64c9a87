SPECIFICATION FairSpec
CONSTANTS
    p1 = p1
    p2 = p2
    p3 = p3
    p4 = p4
    t1 = t1
    t2 = t2
    t3 = t3
    NoProc = NoProc
    Procs = {p1, p2, p3, p4}
    Threads = {t1, t2, t3}
    ThreadOf <- Three
    Native = {p3}
    MayEnd = {t1}
    MaxLocks = 1
INVARIANTS
    TypeOK
    MutualExclusion
    NoLostWakeUnlessDropped
    QueueSound
    LockNeverOutlivesThread
    FreshInOrder
PROPERTIES
    EveryWaiterLocks
CHECK_DEADLOCK FALSE
