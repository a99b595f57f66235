CONSTANTS
    NULL = NULL
    Idle = Idle
    thread_run_list = thread_run_list
    Threads = {t1, t2, t3}
    KThreads = {}
    Queues = {q1, q2}
    AlarmTimers = {}
    Timeouts = {"INFINITE"}
    Signals = FALSE
SPECIFICATION Spec
INVARIANTS WaitQueuesExact RunListExact NobodyLost
PROPERTY ImplementsWaitQueue
