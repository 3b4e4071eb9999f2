\* One file, two requests at once, three in all, and one fault.
SPECIFICATION FairSpec
CONSTANTS
    Files = {f1}
    Requests = {r1, r2}
    MaxRequests = 3
    MaxFaults = 1
INVARIANTS LifecycleSafe
PROPERTIES EveryUploadEnds EveryFinalizeIsToldUnlessItDies
CHECK_DEADLOCK FALSE
