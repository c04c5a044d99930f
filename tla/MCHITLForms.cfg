\* Two forms of one feature, two creators, three saves at once, and a restart.
CONSTANTS
    Forms = {f1, f2}
    Callers = {c1, c2}
    Saves = {s1, s2, s3}
    MaxStops = 1
SPECIFICATION Spec
SYMMETRY Symmetry
INVARIANTS
    DiskFollowsMemory
    AnsweredOnce
    OpenFormSurvives
