\* Four launches, ceiling 2; the setting is unset, 1, or above the ceiling, and changes.
CONSTANTS
    Launches = {l1, l2, l3, l4}
    MaxAgents = 2
    Settings = {0, 1, 3}
SPECIFICATION FairSpec
INVARIANTS
    SlotsConserved
    QueueHoldsWaiters
    NoLostWakeup
    WorkConserving
PROPERTIES
    ImplementsPool
    EveryLaunchRuns
