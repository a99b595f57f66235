CONSTANTS
    NULL = NULL
    Idle = Idle
    thread_run_list = thread_run_list
    Threads = {t1, t2}
    KThreads = {}
    Queues = {q1}
    AlarmTimers = {}
    Timeouts = {"INFINITE"}
    Signals = TRUE
SPECIFICATION Spec
INVARIANTS SwitchesToReady CurrentIsRunning
CHECK_DEADLOCK FALSE
