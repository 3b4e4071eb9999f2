\* Two instances, three messages of which one is poison, leases that hold.
SPECIFICATION Spec
CONSTANTS
    Dispatchers = {d1, d2}
    Messages <- ThreeMessages
    Poison <- SecondIsPoison
    BatchSize = 2
    Lease = 2
    MaxRetries = 2
    BackoffBase = 1
    BackoffMax = 2
    Retention = 1
    PurgeBatch = 1
    MaxFaults = 1
    LeaseHolds = TRUE
INVARIANTS OnePublisher ProcessedWasPublished DeadIsExhausted
PROPERTIES ProcessedIsFinal
