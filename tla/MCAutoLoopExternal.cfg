\* Fairness; the public methods that nothing in the server calls are called too.
CONSTANTS
    Keys = {main}
    MainKey = main
    Callers = {c1}
    FailureThreshold = 1
    ExternalControl = TRUE
    FilesFail = FALSE
    MaxLoops = 2
    MaxTrips = 1
    MaxRuns = 1
    MaxPauses = 1
    MaxCrashes = 0
SPECIFICATION FairSpec
PROPERTIES
    StoppedLoopsExit
    ClaimsAreReleased
