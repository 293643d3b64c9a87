SPECIFICATION FairSpec
CONSTANTS
    A = A
    B = B
    a1 = a1
    a2 = a2
    b1 = b1
    n = n
    k1 = k1
    k2 = k2
    k3 = k3
    k4 = k4
    None = None
    Threads = {A, B}
    Coros = {a1, a2, b1}
    Natives = {n}
    HomeOf <- HomeOfMC
    Waiters = {a1, a2}
    Wakers = {b1, n}
    Timed = {}
    MayEnd = {}
    Parks = {k1, k2, k3, k4}
    MaxCalls = 2
INVARIANTS
    TypeOK
    BellRung
PROPERTIES
    WakeArrives
CHECK_DEADLOCK FALSE
