SPECIFICATION Spec
CONSTANTS
    Threads = {t1, t2}
    Idle = idle
    Prios = {1, 3}
    Sleepers = {t1, t2}
    LockSleepers = {t1, t2}
    Increments = {2, 3}
    Levels <- MCLevels
    MinPrio <- MCMinPrio
    MaxPrio = 4
    MaxVisits = 3
    TimeMod = 6
CHECK_DEADLOCK FALSE
INVARIANTS TypeOK PanicHasCause
PROPERTIES TicksNotSaved LockNests
