CONSTANTS
    NULL = NULL
    Idle = Idle
    thread_run_list = thread_run_list
    Threads = {t1, t2, t3}
    KThreads = {}
    Queues = {q1}
    AlarmTimers = {a1}
    Timeouts = {"INFINITE", "finite"}
    Signals = FALSE
SPECIFICATION Spec
INVARIANT ScheduleNeverPanics
CHECK_DEADLOCK FALSE
