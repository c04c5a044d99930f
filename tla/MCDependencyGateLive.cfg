CONSTANTS
    base = base
    leaf = leaf
    epic = epic
    None = None
    s1 = s1
    s2 = s2
    Features <- Three
    Epics <- EpicSet
    Foundations <- FoundationSet
    Children <- Family
    Setters <- NoSetters
    MaxDeps = 1
    MaxEdits = 1
SPECIFICATION LiveSpec
CHECK_DEADLOCK FALSE
PROPERTIES
    Progress
