SPECIFICATION FairSpec
CONSTANTS
    s1 = s1
    s2 = s2
    r1 = r1
    r2 = r2
    close = close
    cancel = cancel
    Nobody = Nobody
    Senders = {s1, s2}
    Receivers = {r1, r2}
    Closer = close
    Canceller = cancel
    Capacity = 1
    Timed = {}
    Cancellable = {s2, r1}
    Trying = {s1}
    Selecting = {r2}
    MayClose = TRUE
    MaxCalls <- MCTwice
INVARIANTS
    TypeOK
    ValuesAttended
    SlotsAttended
    SleepersFindable
PROPERTIES
    ImplementsFifo
    EveryCallServed
