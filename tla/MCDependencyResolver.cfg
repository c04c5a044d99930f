CONSTANTS
    a = a
    b = b
    c = c
    x = x
    Order <- Array
    Unknown <- NoSuch
    Priorities <- Two
    MaxLinks = 2
SPECIFICATION ResolverSpec
CHECK_DEADLOCK FALSE
INVARIANTS
    OrderRespectsDependencies
    PriorityDecides
    CyclesAreFound
    SearchesAreExact
