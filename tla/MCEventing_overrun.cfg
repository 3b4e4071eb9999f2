\* One event that two instances may publish at once because leases run out.
SPECIFICATION EventingSpec
CONSTANTS
    Dispatchers = {d1, d2}
    Messages = {1}
    Poison <- NoPoison
    BatchSize = 1
    Lease = 1
    MaxRetries = 2
    BackoffBase = 1
    BackoffMax = 2
    Retention = 1
    PurgeBatch = 1
    MaxFaults = 1
    LeaseHolds = FALSE
    NumHandlers = 2
    MaxRuns = 1
INVARIANTS NoEventLost
PROPERTIES EveryMessageSettles
