SPECIFICATION Spec
CONSTANTS
    Threads = {t1, t2, t3}
    Idle = idle
    Prios = {3}
    Sleepers = {t1, t2, t3}
    LockSleepers = {}
    Increments = {3}
    Levels = {}
    MinPrio = 0
    MaxPrio = 4
    MaxVisits = 5
    TimeMod = 8
INVARIANT VisitsSuffice
