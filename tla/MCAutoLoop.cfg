\* Two worktrees of one app, two concurrent starts, a trip of the breaker, a pause and a crash.
CONSTANTS
    Keys = {main, wt}
    MainKey = main
    Callers = {c1, c2}
    FailureThreshold = 1
    ExternalControl = FALSE
    FilesFail = FALSE
    MaxLoops = 2
    MaxTrips = 1
    MaxRuns = 1
    MaxPauses = 1
    MaxCrashes = 1
SPECIFICATION Spec
SYMMETRY Symmetry
INVARIANTS
    LiveLoopIsReachable
    ClaimsAreExclusive
    AtMostOneGhost
    FileMeansLoop
    PauseHolds
PROPERTIES
    StartStopsNoLoop
