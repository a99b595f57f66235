------------------------------- MODULE Thread -------------------------------
(***************************************************************************)
(* Threads: the run list, wait queues, sleeping with and without a         *)
(* timeout, waking, and the switch from one thread to another              *)
(* (core/kernel/thread.c, core/kernel/system.c, cpu/i386/kernel/task.c).   *)
(*                                                                         *)
(* One CPU.  A step is what runs between two points at which interrupts    *)
(* are enabled: code between save_eflags and restore_eflags is one step.   *)
(* An interrupt handler runs with interrupts disabled and is one step.  It *)
(* ends in soft_irq, which reschedules only when it interrupted user mode  *)
(* or a kernel thread (isr.s): a user thread inside a system call is       *)
(* interrupted but not preempted, a kernel thread is preempted anywhere.   *)
(*                                                                         *)
(* Abstracted: ticks and priorities (schedule picks any ready thread), the *)
(* length of a timeout (a pending timer may expire at any interrupt), what *)
(* makes a new thread (thread_new left it in TS_IOPENDING; Start is its    *)
(* creator's thread_ready) and exit (a thread that has started stays).     *)
(***************************************************************************)
EXTENDS Tailq

CONSTANTS Threads,          \* the threads, without the idle thread
          KThreads,         \* those that run in KTHREAD_CS: kernel threads
          Idle,             \* idle_task, never on the run list
          Queues,           \* the wait queues (thread_wait_t)
          thread_run_list,  \* the head of the run list
          AlarmTimers,      \* what kmalloc can give out as struct alarm_timer
          Timeouts,         \* the timeouts callers pass
          Signals           \* whether threads signal, suspend and resume threads

INFINITE == "INFINITE"
TS_READY == "TS_READY"
TS_WAITING == "TS_WAITING"
TS_IOPENDING == "TS_IOPENDING"

ASSUME ThreadAssumption ==
    /\ KThreads \subseteq Threads
    /\ Idle \notin Threads
    /\ NULL \notin Threads \cup Queues \cup AlarmTimers \cup {thread_run_list, Idle}
    /\ Queues \cap Threads = {}
    /\ thread_run_list \notin Threads
    /\ Timeouts \subseteq {INFINITE, "finite"}
    /\ Signals \in BOOLEAN

VARIABLES
    state,             \* the state of each thread
    run_lists,         \* the run list and the run_lists links of the threads
    wait_lists,        \* the wait queues and the wait_lists links of the threads
    timeout_signaled,  \* why t woke: -1 it did not, 0 thread_wakeup, 1 its timer
    sleep_timer,       \* t's alarm_timer, or NULL
    armed,             \* armed[a]: the thread alarm_timer a is armed for, or NULL
    current,           \* current_thread()
    cpu,               \* whose stack the CPU is on
    pc,                \* where each thread is
    local,             \* its local variables (see Locals)
    panicked           \* the kernel has stopped in panic

kernel == <<state, run_lists, wait_lists, timeout_signaled, sleep_timer, armed>>
vars == <<kernel, current, cpu, pc, local, panicked>>

\* pthread: the thread a call is about; queue, timeout: its arguments;
\* back: where schedule returns to; pick: schedule's pick_thread.
Locals == [pthread : Threads \cup {NULL},
           queue   : Queues \cup {NULL},
           timeout : Timeouts \cup {NULL},
           back    : {"run", "sleep_ret", "wait_ret"},
           pick    : Threads \cup {Idle, NULL}]

NoLocals == [pthread |-> NULL, queue |-> NULL, timeout |-> NULL, back |-> "run", pick |-> NULL]

Points == {"run", "ready_check", "ready_insert", "sched", "resume", "jump",
           "sleep_ret", "sleep_unlink", "wait_ret"}

Init ==
    /\ state = [t \in Threads |-> TS_IOPENDING]
    /\ run_lists = TAILQ_INIT({thread_run_list}, Threads)
    /\ wait_lists = TAILQ_INIT(Queues, Threads)
    /\ timeout_signaled = [t \in Threads |-> 0]
    /\ sleep_timer = [t \in Threads |-> NULL]
    /\ armed = [a \in AlarmTimers |-> NULL]
    /\ current = Idle
    /\ cpu = Idle
    /\ pc = [t \in Threads |-> "run"]
    /\ local = [t \in Threads |-> NoLocals]
    /\ panicked = FALSE

-----------------------------------------------------------------------------
(* Run list, timers and wait queues.                                       *)

\* thread_ready from its save_eflags on.
MakeReady(t) ==
    /\ state' = [state EXCEPT ![t] = TS_READY]
    /\ run_lists' = TAILQ_INSERT_TAIL(run_lists, thread_run_list, t)

\* thread_ready called with interrupts disabled.
thread_ready(t) ==
    IF TAILQ_ENTRY_EMPTY(run_lists, t) THEN MakeReady(t)
                                       ELSE UNCHANGED <<state, run_lists>>

\* A bug to check the properties against: the timer is freed but not detached.
FreedStillArmed(t) == armed

\* The timers still armed after free_sleep_timer(t).
ArmedWithout(t) == [a \in AlarmTimers |-> IF a = sleep_timer[t] THEN NULL ELSE armed[a]]

\* The alarm_timer objects kmalloc can return once t's old one is freed.
FreeTimers(t) == {a \in AlarmTimers : ArmedWithout(t)[a] = NULL}

\* thread_unready fails when it can allocate no timer; t is off the run list by then.
UnreadyFails(t, timeout) == timeout # INFINITE /\ FreeTimers(t) = {}

\* A bug to check the properties against: TAILQ_REMOVE without TAILQ_ENTRY_INIT.
UnreadyStaysLinked(t, timeout) ==
    /\ state' = [state EXCEPT ![t] = TS_WAITING]
    /\ run_lists' = TAILQ_REMOVE(run_lists, thread_run_list, t)
    /\ timeout_signaled' = [timeout_signaled EXCEPT ![t] = -1]
    /\ UNCHANGED <<sleep_timer, armed>>

\* Another: the links are reset and the list is not.
UnreadyNotRemoved(t, timeout) ==
    /\ state' = [state EXCEPT ![t] = TS_WAITING]
    /\ run_lists' = TAILQ_ENTRY_INIT(run_lists, t)
    /\ timeout_signaled' = [timeout_signaled EXCEPT ![t] = -1]
    /\ UNCHANGED <<sleep_timer, armed>>

\* Another: the timer of the last sleep is freed only when a new one is needed.
UnreadyKeepsTimer(t, timeout) ==
    /\ state' = [state EXCEPT ![t] = TS_WAITING]
    /\ run_lists' = TAILQ_ENTRY_INIT(TAILQ_REMOVE(run_lists, thread_run_list, t), t)
    /\ timeout_signaled' = [timeout_signaled EXCEPT ![t] = -1]
    /\ IF timeout = INFINITE THEN UNCHANGED <<sleep_timer, armed>>
       ELSE \E a \in FreeTimers(t) : /\ sleep_timer' = [sleep_timer EXCEPT ![t] = a]
                                     /\ armed' = [ArmedWithout(t) EXCEPT ![a] = t]

thread_unready(t, timeout) ==
    /\ state' = [state EXCEPT ![t] = TS_WAITING]
    /\ run_lists' = TAILQ_ENTRY_INIT(
                        IF TAILQ_ENTRY_EMPTY(run_lists, t) THEN run_lists
                        ELSE TAILQ_REMOVE(run_lists, thread_run_list, t), t)
    /\ timeout_signaled' = [timeout_signaled EXCEPT ![t] = -1]
    /\ \/ /\ timeout = INFINITE \/ FreeTimers(t) = {}
          /\ sleep_timer' = [sleep_timer EXCEPT ![t] = NULL]
          /\ armed' = ArmedWithout(t)
       \/ /\ timeout # INFINITE
          /\ \E a \in FreeTimers(t) :
                /\ sleep_timer' = [sleep_timer EXCEPT ![t] = a]
                /\ armed' = [ArmedWithout(t) EXCEPT ![a] = t]

\* A bug to check the properties against: the links are reset before the removal.
TakeFirstSwapped(q) ==
    LET t == TAILQ_FIRST(wait_lists, q)
    IN  /\ wait_lists' = TAILQ_REMOVE(TAILQ_ENTRY_INIT(wait_lists, t), q, t)
        /\ timeout_signaled' = [timeout_signaled EXCEPT ![t] = 0]

\* Another: the sleeper is not marked as woken.
TakeFirstUnmarked(q) ==
    LET t == TAILQ_FIRST(wait_lists, q)
    IN  /\ wait_lists' = TAILQ_ENTRY_INIT(TAILQ_REMOVE(wait_lists, q, t), t)
        /\ UNCHANGED timeout_signaled

\* The locked part of thread_wakeup: the first sleeper is taken off the queue.
TakeFirst(q) ==
    LET t == TAILQ_FIRST(wait_lists, q)
    IN  /\ wait_lists' = TAILQ_ENTRY_INIT(TAILQ_REMOVE(wait_lists, q, t), t)
        /\ timeout_signaled' = [timeout_signaled EXCEPT ![t] = 0]

-----------------------------------------------------------------------------
(* Scheduling.                                                             *)

\* What a walk of run list r visits, and whether it comes to an end.
OnRunList(r) == Visited(r, thread_run_list, Cardinality(Threads))
WalkEnds(r) == TAILQ_FOREACH(r, thread_run_list, Cardinality(Threads))[Cardinality(Threads)] = NULL

\* schedule's loop ends when it has found a ready thread or the list is empty;
\* it panics after 100 rounds.
SchedulePanics(r, s) ==
    \/ ~WalkEnds(r)
    \/ ~TAILQ_EMPTY(r, thread_run_list) /\ \A t \in OnRunList(r) : s[t] # TS_READY

\* What schedule may pick, for some ticks of the threads.
Picks(r, s) == IF TAILQ_EMPTY(r, thread_run_list) THEN {Idle}
               ELSE {t \in Threads : t \in OnRunList(r) /\ s[t] = TS_READY}

\* schedule, the part under save_eflags.
SchedulePick(t) ==
    /\ pc[t] = "sched"
    /\ IF SchedulePanics(run_lists, state)
       THEN panicked' = TRUE /\ UNCHANGED <<pc, local>>
       ELSE /\ \E p \in Picks(run_lists, state) :
                  IF p = current
                  THEN /\ pc' = [pc EXCEPT ![t] = local[t].back]
                       /\ UNCHANGED local
                  ELSE /\ pc' = [pc EXCEPT ![t] = "resume"]
                       /\ local' = [local EXCEPT ![t].pick = p]
            /\ UNCHANGED panicked
    /\ UNCHANGED <<kernel, current, cpu>>

\* arch_thread_resume up to its restore_eflags.
SetCurrent(t) ==
    /\ pc[t] = "resume"
    /\ current' = local[t].pick
    /\ pc' = [pc EXCEPT ![t] = "jump"]
    /\ UNCHANGED <<kernel, cpu, local, panicked>>

\* jump_proc_tss: t goes on from here when it is next jumped to.  A jump to the
\* running task's own TSS, which is busy, is a general protection fault.
Jump(t) ==
    /\ pc[t] = "jump"
    /\ IF local[t].pick = t
       THEN panicked' = TRUE /\ UNCHANGED <<cpu, pc, local>>
       ELSE /\ cpu' = local[t].pick
            /\ pc' = [pc EXCEPT ![t] = local[t].back]
            /\ local' = [local EXCEPT ![t].pick = NULL]
            /\ UNCHANGED panicked
    /\ UNCHANGED <<kernel, current>>

-----------------------------------------------------------------------------
(* What the thread on the CPU does.                                        *)

\* The creator of x makes it ready, once: core_start while the kernel boots, when
\* nothing else refers to x, or a thread (new_kernel_thread, do_clone), which enters
\* thread_ready with interrupts enabled.
Start(x) ==
    /\ state[x] = TS_IOPENDING
    /\ \A w \in Threads : local[w].pthread # x
    /\ \/ /\ cpu = Idle
          /\ thread_ready(x)
          /\ UNCHANGED <<pc, local>>
       \/ /\ cpu \in Threads /\ pc[cpu] = "run"
          /\ pc' = [pc EXCEPT ![cpu] = "ready_check"]
          /\ local' = [local EXCEPT ![cpu].pthread = x]
          /\ UNCHANGED <<state, run_lists>>
    /\ UNCHANGED <<wait_lists, timeout_signaled, sleep_timer, armed,
                   current, cpu, panicked>>

\* t enters schedule; it returns to the point back.
CallSchedule(t, back, pthread, q, timeout) ==
    /\ pc' = [pc EXCEPT ![t] = "sched"]
    /\ local' = [local EXCEPT ![t] = [pthread |-> pthread, queue |-> q, timeout |-> timeout,
                                      back |-> back, pick |-> NULL]]

thread_yield(t) ==
    /\ pc[t] = "run"
    /\ CallSchedule(t, "run", NULL, NULL, NULL)
    /\ UNCHANGED <<kernel, current, cpu, panicked>>

\* thread_sleep_on_timeout(q, timeout) up to its call of schedule, about
\* current_thread().  thread_unready panics on the idle thread.
thread_sleep_on_timeout(t, q, timeout) ==
    /\ pc[t] = "run"
    /\ IF current = Idle
       THEN panicked' = TRUE /\ UNCHANGED <<kernel, pc, local>>
       ELSE /\ thread_unready(current, timeout)
            /\ wait_lists' = TAILQ_INSERT_TAIL(wait_lists, q, current)
            /\ CallSchedule(t, "sleep_ret", current, q, timeout)
            /\ UNCHANGED panicked
    /\ UNCHANGED <<current, cpu>>

\* ... and from there on: the sleeper looks at why it woke and returns 0 ...
SleepReturn(t) ==
    /\ pc[t] = "sleep_ret"
    /\ IF timeout_signaled[local[t].pthread] = -1
       THEN pc' = [pc EXCEPT ![t] = "sleep_unlink"] /\ UNCHANGED local
       ELSE /\ pc' = [pc EXCEPT ![t] = "run"]
            /\ local' = [local EXCEPT ![t] = NoLocals]
    /\ UNCHANGED <<kernel, current, cpu, panicked>>

\* ... or leaves the queue and returns -1.
SleepUnlink(t) ==
    /\ pc[t] = "sleep_unlink"
    /\ wait_lists' = TAILQ_REMOVE(wait_lists, local[t].queue, local[t].pthread)
    /\ pc' = [pc EXCEPT ![t] = "run"]
    /\ local' = [local EXCEPT ![t] = NoLocals]
    /\ UNCHANGED <<state, run_lists, timeout_signaled, sleep_timer, armed,
                   current, cpu, panicked>>

\* thread_wait(x, timeout), on the caller itself or on another (thread_suspend).
thread_wait(t, x, timeout) ==
    /\ Signals
    /\ pc[t] = "run"
    /\ state[x] # TS_IOPENDING
    /\ thread_unready(x, timeout)
    /\ IF UnreadyFails(x, timeout)
       THEN UNCHANGED <<pc, local>>
       ELSE CallSchedule(t, "wait_ret", x, NULL, timeout)
    /\ UNCHANGED <<wait_lists, current, cpu, panicked>>

WaitReturn(t) ==
    /\ pc[t] = "wait_ret"
    /\ pc' = [pc EXCEPT ![t] = "run"]
    /\ local' = [local EXCEPT ![t] = NoLocals]
    /\ UNCHANGED <<kernel, current, cpu, panicked>>

\* A bug to check the properties against: thread_ready is called for an empty
\* queue too, with the null pointer.
WakeupOfNobody(t, q) ==
    /\ pc[t] = "run"
    /\ IF TAILQ_EMPTY(wait_lists, q) THEN UNCHANGED <<wait_lists, timeout_signaled>>
                                     ELSE TakeFirst(q)
    /\ pc' = [pc EXCEPT ![t] = "ready_check"]
    /\ local' = [local EXCEPT ![t].pthread = TAILQ_FIRST(wait_lists, q)]
    /\ UNCHANGED <<state, run_lists, sleep_timer, armed, current, cpu, panicked>>

\* thread_wakeup(q): the first sleeper, if there is one, goes to thread_ready.
thread_wakeup(t, q) ==
    /\ pc[t] = "run"
    /\ ~TAILQ_EMPTY(wait_lists, q)
    /\ TakeFirst(q)
    /\ pc' = [pc EXCEPT ![t] = "ready_check"]
    /\ local' = [local EXCEPT ![t].pthread = TAILQ_FIRST(wait_lists, q)]
    /\ UNCHANGED <<state, run_lists, sleep_timer, armed, current, cpu, panicked>>

\* sigaddset (sendsig, killpid) and the thread_resume system call.
sigaddset(t, x) ==
    /\ Signals
    /\ pc[t] = "run"
    /\ pc' = [pc EXCEPT ![t] = "ready_check"]
    /\ local' = [local EXCEPT ![t].pthread = x]
    /\ UNCHANGED <<kernel, current, cpu, panicked>>

\* thread_ready looks whether the thread is on the run list with interrupts enabled ...
ReadyCheck(t) ==
    /\ pc[t] = "ready_check"
    /\ IF TAILQ_ENTRY_EMPTY(run_lists, local[t].pthread)
       THEN pc' = [pc EXCEPT ![t] = "ready_insert"] /\ UNCHANGED local
       ELSE /\ pc' = [pc EXCEPT ![t] = "run"]
            /\ local' = [local EXCEPT ![t] = NoLocals]
    /\ UNCHANGED <<kernel, current, cpu, panicked>>

\* ... and inserts it with interrupts disabled.
ReadyInsert(t) ==
    /\ pc[t] = "ready_insert"
    /\ MakeReady(local[t].pthread)
    /\ pc' = [pc EXCEPT ![t] = "run"]
    /\ local' = [local EXCEPT ![t] = NoLocals]
    /\ UNCHANGED <<wait_lists, timeout_signaled, sleep_timer, armed, current, cpu, panicked>>

ThreadStep(t) ==
    /\ cpu = t
    /\ \/ SchedulePick(t) \/ SetCurrent(t) \/ Jump(t)
       \/ thread_yield(t)
       \/ \E q \in Queues : thread_wakeup(t, q)
       \/ \E q \in Queues, timeout \in Timeouts : thread_sleep_on_timeout(t, q, timeout)
       \/ SleepReturn(t) \/ SleepUnlink(t)
       \/ \E x \in Threads, timeout \in Timeouts : thread_wait(t, x, timeout)
       \/ WaitReturn(t)
       \/ \E x \in Threads : sigaddset(t, x)
       \/ ReadyCheck(t) \/ ReadyInsert(t)

-----------------------------------------------------------------------------
(* Interrupts: a handler, then soft_irq.                                   *)

\* A bug to check the properties against: isr.s does not look at the selector.
PreemptAlways == TRUE

\* isr.s: the interrupted code runs in USER_CS or in KTHREAD_CS.  A user thread at
\* "run" may be in user mode or about to make or to leave a system call; soft_irq
\* allows for both.
Preemptible == cpu \in Threads \ KThreads => pc[cpu] = "run"

\* soft_irq, with schedule and arch_thread_resume run to the end: interrupts are
\* disabled throughout.  It does nothing when the code is not preemptible, on the
\* idle thread before its ticks run out, or while scheduling is locked: scheduleable
\* is module Schedule's, here it may say no at any time.
soft_irq ==
    \/ UNCHANGED <<current, cpu, panicked>>
    \/ /\ Preemptible
       /\ IF SchedulePanics(run_lists', state')
          THEN panicked' = TRUE /\ UNCHANGED <<current, cpu>>
          ELSE \E p \in Picks(run_lists', state') :
                  IF p = current
                  THEN UNCHANGED <<current, cpu, panicked>>
                  ELSE /\ current' = p
                       /\ cpu' = p
                       /\ panicked' = (panicked \/ p = cpu)

\* The clock, or a device that wakes nobody.
IrqTick == UNCHANGED kernel

\* A device handler that calls thread_wakeup (keyboard_irq).
IrqWakeup(q) ==
    /\ ~TAILQ_EMPTY(wait_lists, q)
    /\ TakeFirst(q)
    /\ thread_ready(TAILQ_FIRST(wait_lists, q))
    /\ UNCHANGED <<sleep_timer, armed>>

\* A handler that sends a signal (alarm_handler).
IrqSendsig(x) ==
    /\ Signals
    /\ thread_ready(x)
    /\ UNCHANGED <<wait_lists, timeout_signaled, sleep_timer, armed>>

\* A bug to check the properties against: the expiry does not mark the sleep.
SleepTimerUnmarked(a) ==
    LET t == armed[a]
    IN  /\ t # NULL
        /\ thread_ready(t)
        /\ sleep_timer' = [sleep_timer EXCEPT ![t] = NULL]
        /\ armed' = [ArmedWithout(t) EXCEPT ![a] = NULL]
        /\ UNCHANGED <<wait_lists, timeout_signaled>>

\* run_timer_list runs thread_sleep_timer for a timer that has expired.
thread_sleep_timer(a) ==
    LET t == armed[a]
    IN  /\ t # NULL
        /\ thread_ready(t)
        /\ timeout_signaled' = IF sleep_timer[t] = NULL THEN timeout_signaled
                               ELSE [timeout_signaled EXCEPT ![t] = 1]
        /\ sleep_timer' = [sleep_timer EXCEPT ![t] = NULL]
        /\ armed' = [ArmedWithout(t) EXCEPT ![a] = NULL]
        /\ UNCHANGED wait_lists

Handler == \/ IrqTick
           \/ \E q \in Queues : IrqWakeup(q)
           \/ \E x \in Threads : IrqSendsig(x)
           \/ \E a \in AlarmTimers : thread_sleep_timer(a)

Interrupt == Handler /\ soft_irq /\ UNCHANGED <<pc, local>>

Next == /\ ~panicked
        /\ \/ \E t \in Threads : ThreadStep(t)
           \/ \E x \in Threads : Start(x)
           \/ Interrupt

Spec == Init /\ [][Next]_vars

-----------------------------------------------------------------------------
\* A local variable has a value wherever the code uses it.
LocalsSet ==
    \A t \in Threads :
        /\ pc[t] \in {"resume", "jump"} => local[t].pick # NULL
        /\ pc[t] \in {"ready_check", "ready_insert", "sleep_ret", "sleep_unlink"}
              => local[t].pthread # NULL
        /\ pc[t] \in {"sleep_ret", "sleep_unlink"} => local[t].queue # NULL
        /\ pc[t] \in {"sched", "resume", "jump"} /\ local[t].back = "sleep_ret"
              => local[t].pthread # NULL /\ local[t].queue # NULL

\* The values each variable takes; no null thread or queue reaches the code that
\* follows its pointer.
TypeOK ==
    /\ state \in [Threads -> {TS_READY, TS_WAITING, TS_IOPENDING}]
    /\ run_lists \in TailqMem({thread_run_list}, Threads)
    /\ wait_lists \in TailqMem(Queues, Threads)
    /\ timeout_signaled \in [Threads -> {-1, 0, 1}]
    /\ sleep_timer \in [Threads -> AlarmTimers \cup {NULL}]
    /\ armed \in [AlarmTimers -> Threads \cup {NULL}]
    /\ current \in Threads \cup {Idle}
    /\ cpu \in Threads \cup {Idle}
    /\ pc \in [Threads -> Points]
    /\ local \in [Threads -> Locals]
    /\ panicked \in BOOLEAN
    /\ LocalsSet

\* Every sleep timer in the timer wheel is the one its thread points at, and a
\* thread's timer is in the wheel: thread_unready and thread_sleep_timer leave no
\* orphan that would fire into a later sleep, and free no timer that is armed.
TimersOwned ==
    \A t \in Threads, a \in AlarmTimers : sleep_timer[t] = a <=> armed[a] = t

\* The thread that schedule picked is still ready when jump_proc_tss switches to
\* it, however many interrupts came between ("ok, we find a runable task").
SwitchesToReady ==
    \A t \in Threads : cpu = t /\ pc[t] \in {"resume", "jump"} /\ local[t].pick # Idle
                          => state[local[t].pick] = TS_READY

\* current_thread() is the thread whose code runs, at every point where a thread
\* may ask for it; the two differ only inside arch_thread_resume.
CurrentIsRunning ==
    cpu # current => cpu \in Threads /\ pc[cpu] = "jump" /\ local[cpu].pick = current

\* A sleep goes on until something ends it: when thread_sleep_on_timeout comes
\* back from schedule, a thread_wakeup or the timer has marked its thread.
NoSpuriousReturn ==
    \A t \in Threads : cpu = t /\ pc[t] = "sleep_ret" => timeout_signaled[t] # -1

\* A timer left over from an earlier sleep never cuts short a later endless one.
EndlessSleepHasNoTimer ==
    \A t \in Threads : local[t].queue # NULL /\ local[t].timeout = INFINITE
                       /\ timeout_signaled[t] = -1 => sleep_timer[t] = NULL

\* schedule's own assertion: it never walks the run list in vain until it panics
\* ("TAILQ_FOREACH schedule error").
ScheduleNeverPanics == ~panicked

\* A sleep that its timer ended reports a timeout: thread_sleep_on_timeout does not
\* return 0 ("return -1;//timeout;" in lock_semaphore_timeout).
TimeoutIsReported ==
    [][\A t \in Threads : pc[t] = "sleep_ret" /\ pc'[t] = "run"
                             => timeout_signaled[local[t].pthread] # 1]_vars
=============================================================================
