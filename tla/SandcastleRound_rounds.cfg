SPECIFICATION Spec
CONSTANTS
    Issues = {i1, i2}
    Iterations = 2
    Agents = 2
    QueueDepth = 2
    HealAttempts = 1
    MaxCommits = 2
    MaxCrashes = 1
INVARIANTS RoundSafe ClosedMeansLanded MergedWasGated NothingDestroyed
