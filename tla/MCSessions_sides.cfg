\* Two sessions of one user and two requests in flight; two instances and two lookups.
INIT SessionsInit
NEXT SessionsNext
SYMMETRY Interchangeable
CONSTANTS
    Sessions = {s1, s2}
    Requests = {r1, r2}
    MaxTokens = 3
    MaxStamps = 2
    Lifetime = 1
    KeepFor = 1
    Instances = {i1, i2}
    Lookups = {l1, l2}
    CacheFor = 3
    MaxLatency = 2
    RowLifetime = 7
INVARIANTS OneWinner EndedMeansEnded AtMostOneLateRotation AdmissionIsBounded
PROPERTIES RevokedIsFinal
