\* Duplicates that meet on process "a", and one on process "b".
SPECIFICATION Spec
CONSTANTS
    Instances = {"a", "b"}
    Requests = {"a1", "a2", "b1"}
    Home <- OneElsewhere
    Entries = {e1, e2, e3}
    None = None
    MaxFaults = 2
INVARIANTS LockIsSound RunsOnce
PROPERTIES EveryRequestEnds
