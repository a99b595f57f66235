SPECIFICATION Spec
CONSTANTS
    Threads = {t1, t2, t3}
    Idle = idle
    Prios = {1, 3}
    Sleepers = {t1, t2, t3}
    LockSleepers = {t1, t2}
    Increments = {2}
    Levels = {2}
    MinPrio = 0
    MaxPrio = 4
    MaxVisits = 5
    TimeMod = 8
INVARIANT LockGivenBack
