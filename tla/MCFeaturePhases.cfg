\* Two pull requests, one of every retry, two rounds of remediation.
CONSTANTS
    MaxPrs = 2
    MaxPlanRetries = 1
    MaxAgentRetries = 1
    MaxInfraRetries = 1
    MaxReviewCycles = 1
    MaxTotalCycles = 2
    MaxMergeRetries = 1
    Crashes = TRUE
\* A finished feature that nobody touches stops.
CHECK_DEADLOCK FALSE
SPECIFICATION Spec
INVARIANTS
    DoneMeansMerged
PROPERTIES
    MergesWereApproved
    DoneStands
