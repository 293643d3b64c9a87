SPECIFICATION Spec
CONSTANTS
    s1 = s1
    s2 = s2
    r1 = r1
    r2 = r2
    close = close
    cancel = cancel
    Nobody = Nobody
    Senders = {s1}
    Receivers = {r1, r2}
    Closer = close
    Canceller = cancel
    Capacity = 1
    Timed = {r1}
    Cancellable = {}
    Trying = {}
    Selecting = {}
    MayClose = FALSE
    MaxCalls <- MCOnce
INVARIANTS
    ValuesReachReceivers
CHECK_DEADLOCK FALSE
