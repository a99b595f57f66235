CONSTANTS
    NULL = NULL
    Idle = Idle
    thread_run_list = thread_run_list
    Threads = {t1, t2}
    KThreads = {}
    Queues = {q1}
    AlarmTimers = {a1, a2}
    Timeouts = {"INFINITE", "finite"}
    Signals = FALSE
SPECIFICATION Spec
INVARIANTS NoSpuriousReturn EndlessSleepHasNoTimer SwitchesToReady CurrentIsRunning
CHECK_DEADLOCK FALSE
