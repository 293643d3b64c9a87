SPECIFICATION Spec
CONSTANTS
    s1 = s1
    s2 = s2
    r1 = r1
    r2 = r2
    close = close
    cancel = cancel
    Nobody = Nobody
    Senders = {s1, s2}
    Receivers = {r1, r2}
    Closer = close
    Canceller = cancel
    Capacity = 0
    Timed = {s1, r1}
    Cancellable = {s2, r2}
    Trying = {r1}
    Selecting = {r2}
    MayClose = TRUE
    MaxCalls <- MCOnce
INVARIANTS
    SleepersFindable
    SendHonest
    WithinCapacity
PROPERTIES
    ImplementsFifo
