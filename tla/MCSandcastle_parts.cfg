\* Two phases on one model and two accounts; a build gate and a test gate with containers.
SPECIFICATION PartsSpec
CONSTANTS
    p1 = p1
    p2 = p2
    opus = opus
    Phases <- MCPhases
    Models <- MCModels
    ModelOf <- MCModelOf
    Main = main
    Fallback = fallback
    Poll = 1
    MaxWait = 2
    Gates <- MCGates
    HealAttempts = 1
    MaxSignals = 2
INVARIANTS PipelineTells SurvivorsTold
PROPERTIES PipelineEnds
CHECK_DEADLOCK FALSE
