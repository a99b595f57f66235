CONSTANTS
    NULL = NULL
    Idle = Idle
    thread_run_list = thread_run_list
    Threads = {t1, t2}
    KThreads = {t2}
    Queues = {q1}
    AlarmTimers = {a1}
    Timeouts = {"INFINITE", "finite"}
    Signals = FALSE
SPECIFICATION Spec
INVARIANTS TypeOK TimersOwned
CHECK_DEADLOCK FALSE
