CONSTANTS
    base = base
    leaf = leaf
    epic = epic
    None = None
    s1 = s1
    s2 = s2
    Features <- Two
    Epics <- NoEpics
    Foundations <- FoundationSet
    Children <- NoFamily
    Setters <- TwoSetters
    MaxDeps = 1
    MaxEdits = 2
SPECIFICATION Spec
CHECK_DEADLOCK FALSE
PROPERTIES
    CyclesAreUnchecked
    StartsNeedTheirDeps
    RefusalsNeedAChange
SYMMETRY Symmetry
