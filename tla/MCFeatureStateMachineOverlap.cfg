\* Two calls at once, any processor in any phase, saves that fail, a crash.
CONSTANTS
    Workflows <- Shipping
    GoalGates = TRUE
    CustomExecute = TRUE
    EscalateThrows = TRUE
    SavesFail = TRUE
    Overlap = TRUE
    MaxTransitions = 3
    MaxSameState = 1
    MaxBacklog = 1
    MaxCalls = 2
    MaxCrashes = 1
SPECIFICATION Spec
INVARIANTS
    ReviewHasPr
    EscalatesOnce
CHECK_DEADLOCK FALSE
