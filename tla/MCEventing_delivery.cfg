\* One event, two instances, two handlers, leases that hold.
SPECIFICATION EventingSpec
CONSTANTS
    Dispatchers = {d1, d2}
    Messages = {1}
    Poison <- NoPoison
    BatchSize = 1
    Lease = 1
    MaxRetries = 2
    BackoffBase = 1
    BackoffMax = 2
    Retention = 1
    PurgeBatch = 1
    MaxFaults = 2
    LeaseHolds = TRUE
    NumHandlers = 2
    MaxRuns = 4
INVARIANTS EventingSafe
PROPERTIES ImplementsDelivery
