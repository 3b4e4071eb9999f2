\* A finalize that overlaps the orphan purge.
SPECIFICATION Spec
CONSTANTS
    Files = {f1}
    Requests = {r1, r2}
    MaxRequests = 1
    MaxFaults = 0
PROPERTIES OnlyOrphansAndExpiredPurged
CHECK_DEADLOCK FALSE
