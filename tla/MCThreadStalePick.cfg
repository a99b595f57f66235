CONSTANTS
    NULL = NULL
    Idle = Idle
    thread_run_list = thread_run_list
    Threads = {t1, t2}
    KThreads = {t1, t2}
    Queues = {q1}
    AlarmTimers = {}
    Timeouts = {"INFINITE"}
    Signals = FALSE
SPECIFICATION Spec
INVARIANT SwitchesToReady
CHECK_DEADLOCK FALSE
