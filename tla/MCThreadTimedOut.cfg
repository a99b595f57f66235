CONSTANTS
    NULL = NULL
    Idle = Idle
    thread_run_list = thread_run_list
    Threads = {t1, t2}
    KThreads = {}
    Queues = {q1}
    AlarmTimers = {a1}
    Timeouts = {"INFINITE", "finite"}
    Signals = FALSE
SPECIFICATION Spec
PROPERTY TimeoutIsReported
CHECK_DEADLOCK FALSE
