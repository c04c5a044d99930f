\* Two runs, two timers and one stop of one feature, every interference included.
CONSTANTS
    Runs = {r1, r2}
    NoRun = NoRun
    Timers = {t1, t2}
    Stoppers = {s1}
    MaxLease = 2
    MaxRetries = 1
SPECIFICATION Spec
SYMMETRY Symmetry
INVARIANTS
    EntryIsAlive
    OneLiveAgent
    LeaseIsBacked
    OnlyContextStrands
CHECK_DEADLOCK TRUE
