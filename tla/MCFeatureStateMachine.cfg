\* Two calls one after the other over the built-in workflows, with a crash, under fairness.
CONSTANTS
    Workflows <- BuiltIn
    GoalGates = TRUE
    CustomExecute = TRUE
    EscalateThrows = TRUE
    SavesFail = FALSE
    Overlap = FALSE
    MaxTransitions = 6
    MaxSameState = 2
    MaxBacklog = 2
    MaxCalls = 2
    MaxCrashes = 1
SPECIFICATION FairSpec
INVARIANTS
    CheckpointIsCurrent
PROPERTIES
    EveryCallEnds
CHECK_DEADLOCK FALSE
