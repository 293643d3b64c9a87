SPECIFICATION FairSpec
CONSTANTS
    c1 = c1
    c2 = c2
    r1 = r1
    r2 = r2
    canceller = canceller
    Clients = {c1, c2}
    Runners = {r1, r2}
    Limit = 2
    MaxTasks = 2
    Procs <- MCProcs
    Timed <- MCTimed
    Cancellable <- MCCancellable
    Canceller = canceller
    Acquirers <- MCTasks
    Trying <- MCTrying
    Permits = 0
    MaxGiven = 1
    Waiters = {c1}
INVARIANTS
    TypeOK
    PoolCountsExact
    NoTaskStranded
    PermitsAttended
    GroupWaits
    WaitersFindable
PROPERTIES
    WorkEnds
CHECK_DEADLOCK FALSE
