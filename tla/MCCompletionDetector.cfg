\* A milestone with one epic that has one child; two calls, a webhook,
\* another writer of project.json, a restart.
CONSTANTS
    child = child
    epic = epic
    milestone = milestone
    Features = {child}
    Epics = {epic}
    Milestones = {milestone}
    Project = project
    None = none
    EpicOf <- OneEpic
    MilestoneOf <- OneMilestone
    Calls = {c1, c2}
    Syncs = {s1}
    MaxMishaps = 1
SPECIFICATION Spec
SYMMETRY Symmetry
CONSTRAINT Rested
INVARIANTS
    ClaimIsHonoured
    RepeatsNeedARace
    AnnouncedEpicStands
    ProjectStaysCompleted
\* Nothing is left to do once everything is done, or project.json cannot be read.
CHECK_DEADLOCK FALSE
