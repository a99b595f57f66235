---------------------------- MODULE ThreadProofs ----------------------------
(***************************************************************************)
(* Proofs about module Thread, for every set of threads, queues and        *)
(* timers.                                                                 *)
(***************************************************************************)
EXTENDS Thread, TailqLemmas

\* thread_ready, unlocked part: state and run list stay well typed.
LEMMA MakeReadyType ==
    ASSUME TypeOK, NEW t \in Threads, MakeReady(t)
    PROVE  /\ state' \in [Threads -> {TS_READY, TS_WAITING, TS_IOPENDING}]
           /\ run_lists' \in TailqMem({thread_run_list}, Threads)
<1>1. TAILQ_INSERT_TAIL(run_lists, thread_run_list, t) \in TailqMem({thread_run_list}, Threads)
  BY InsertType, ThreadAssumption DEF TypeOK
<1> QED
  BY <1>1 DEF MakeReady, TypeOK

\* thread_ready, the whole of it.
LEMMA ThreadReadyType ==
    ASSUME TypeOK, NEW t \in Threads, thread_ready(t)
    PROVE  /\ state' \in [Threads -> {TS_READY, TS_WAITING, TS_IOPENDING}]
           /\ run_lists' \in TailqMem({thread_run_list}, Threads)
  BY MakeReadyType DEF thread_ready, TypeOK

\* thread_unready, with and without a timer.
LEMMA UnreadyType ==
    ASSUME TypeOK, NEW t \in Threads, NEW timeout, thread_unready(t, timeout)
    PROVE  /\ state' \in [Threads -> {TS_READY, TS_WAITING, TS_IOPENDING}]
           /\ run_lists' \in TailqMem({thread_run_list}, Threads)
           /\ timeout_signaled' \in [Threads -> {-1, 0, 1}]
           /\ sleep_timer' \in [Threads -> AlarmTimers \cup {NULL}]
           /\ armed' \in [AlarmTimers -> Threads \cup {NULL}]
<1> DEFINE r == IF TAILQ_ENTRY_EMPTY(run_lists, t) THEN run_lists
                ELSE TAILQ_REMOVE(run_lists, thread_run_list, t)
<1>1. r \in TailqMem({thread_run_list}, Threads)
  BY RemoveType, ThreadAssumption DEF TypeOK
<1> HIDE DEF r
<1>2. TAILQ_ENTRY_INIT(r, t) \in TailqMem({thread_run_list}, Threads)
  BY <1>1, EntryInitType
<1>3. run_lists' \in TailqMem({thread_run_list}, Threads)
  BY <1>2 DEF thread_unready, r
<1>4. ArmedWithout(t) \in [AlarmTimers -> Threads \cup {NULL}]
  BY DEF ArmedWithout, TypeOK
<1> QED
  BY <1>3, <1>4 DEF thread_unready, TypeOK, FreeTimers

\* The locked part of thread_wakeup.
LEMMA TakeFirstType ==
    ASSUME TypeOK, NEW q \in Queues, ~TAILQ_EMPTY(wait_lists, q), TakeFirst(q)
    PROVE  /\ TAILQ_FIRST(wait_lists, q) \in Threads
           /\ wait_lists' \in TailqMem(Queues, Threads)
           /\ timeout_signaled' \in [Threads -> {-1, 0, 1}]
<1> DEFINE t == TAILQ_FIRST(wait_lists, q)
<1>1. t \in Threads
  BY DEF TypeOK, TailqMem, TAILQ_EMPTY, TAILQ_FIRST
<1> HIDE DEF t
<1>2. TAILQ_REMOVE(wait_lists, q, t) \in TailqMem(Queues, Threads)
  BY <1>1, RemoveType, ThreadAssumption DEF TypeOK
<1>3. TAILQ_ENTRY_INIT(TAILQ_REMOVE(wait_lists, q, t), t) \in TailqMem(Queues, Threads)
  BY <1>1, <1>2, EntryInitType
<1> QED
  BY <1>1, <1>3 DEF TakeFirst, TypeOK, t

\* soft_irq switches to a thread or to the idle thread.
LEMMA SoftIrqType ==
    ASSUME TypeOK, soft_irq
    PROVE  /\ current' \in Threads \cup {Idle}
           /\ cpu' \in Threads \cup {Idle}
           /\ panicked' \in BOOLEAN
  BY DEF soft_irq, TypeOK, Picks

\* The locals of a thread after a call of schedule.
LEMMA CallScheduleType ==
    ASSUME TypeOK, NEW t \in Threads, NEW back \in {"run", "sleep_ret", "wait_ret"},
           NEW pthread \in Threads \cup {NULL}, NEW q \in Queues \cup {NULL},
           NEW timeout \in Timeouts \cup {NULL},
           back = "sleep_ret" => pthread # NULL /\ q # NULL,
           CallSchedule(t, back, pthread, q, timeout)
    PROVE  pc' \in [Threads -> Points] /\ local' \in [Threads -> Locals] /\ LocalsSet'
<1> DEFINE l == [pthread |-> pthread, queue |-> q, timeout |-> timeout,
                 back |-> back, pick |-> NULL]
<1>1. l \in Locals
  BY DEF Locals
<1>2. local' = [local EXCEPT ![t] = l] /\ pc' = [pc EXCEPT ![t] = "sched"]
  BY DEF CallSchedule
<1>3. pc' \in [Threads -> Points] /\ local' \in [Threads -> Locals]
  BY <1>1, <1>2 DEF TypeOK, Points
<1> QED
  BY <1>2, <1>3 DEF TypeOK, LocalsSet

\* The locals of a thread that is done with a call.
LEMMA DoneType ==
    ASSUME TypeOK, NEW t \in Threads,
           pc' = [pc EXCEPT ![t] = "run"], local' = [local EXCEPT ![t] = NoLocals]
    PROVE  pc' \in [Threads -> Points] /\ local' \in [Threads -> Locals] /\ LocalsSet'
<1>1. NoLocals \in Locals
  BY DEF NoLocals, Locals
<1> QED
  BY <1>1 DEF TypeOK, LocalsSet, Points

\* One field of the locals is assigned.
LEMMA AssignType ==
    ASSUME TypeOK, NEW t \in Threads
    PROVE  /\ \A p \in Threads \cup {Idle, NULL} : [local[t] EXCEPT !.pick = p] \in Locals
           /\ \A x \in Threads \cup {NULL} : [local[t] EXCEPT !.pthread = x] \in Locals
           /\ local[t] \in Locals
  BY DEF TypeOK, Locals

\* The steps of schedule and of arch_thread_resume keep the types.
LEMMA SwitchType ==
    ASSUME TypeOK, NEW t \in Threads, SchedulePick(t) \/ SetCurrent(t) \/ Jump(t)
    PROVE  TypeOK'
<1>1. CASE SchedulePick(t)
  <2>1. CASE SchedulePanics(run_lists, state)
    BY <1>1, <2>1 DEF SchedulePick, TypeOK, kernel, LocalsSet
  <2>2. CASE ~SchedulePanics(run_lists, state)
    <3>1. PICK p \in Picks(run_lists, state) :
             IF p = current
             THEN /\ pc' = [pc EXCEPT ![t] = local[t].back]
                  /\ UNCHANGED local
             ELSE /\ pc' = [pc EXCEPT ![t] = "resume"]
                  /\ local' = [local EXCEPT ![t].pick = p]
      BY <1>1, <2>2 DEF SchedulePick
    <3>2. p \in Threads \cup {Idle} /\ p # NULL
      BY ThreadAssumption DEF Picks
    <3>3. local[t].back \in {"run", "sleep_ret", "wait_ret"} /\ pc[t] = "sched"
      BY <1>1 DEF TypeOK, Locals, SchedulePick
    <3>4. CASE p = current
      BY <1>1, <2>2, <3>1, <3>3, <3>4 DEF SchedulePick, TypeOK, kernel, LocalsSet, Points
    <3>5. CASE p # current
      <4>1. local' = [local EXCEPT ![t] = [local[t] EXCEPT !.pick = p]]
        BY <3>1, <3>5
      <4>2. local' \in [Threads -> Locals] /\ pc' \in [Threads -> Points]
        BY <3>1, <3>2, <3>5, <4>1, AssignType DEF TypeOK, Points
      <4>3. LocalsSet'
        BY <3>1, <3>2, <3>3, <3>5, <4>1, <4>2 DEF TypeOK, LocalsSet, Locals
      <4> QED
        BY <1>1, <2>2, <4>2, <4>3 DEF SchedulePick, TypeOK, kernel
    <3> QED
      BY <3>4, <3>5
  <2> QED
    BY <2>1, <2>2
<1>2. CASE SetCurrent(t)
  <2>1. local[t].pick \in Threads \cup {Idle}
    BY <1>2 DEF SetCurrent, TypeOK, LocalsSet, Locals
  <2> QED
    BY <1>2, <2>1 DEF SetCurrent, TypeOK, kernel, LocalsSet, Points
<1>3. CASE Jump(t)
  <2>1. CASE local[t].pick = t
    BY <1>3, <2>1 DEF Jump, TypeOK, kernel, LocalsSet
  <2>2. CASE local[t].pick # t
    <3>1. local' = [local EXCEPT ![t] = [local[t] EXCEPT !.pick = NULL]]
      BY <1>3, <2>2 DEF Jump
    <3>2. /\ local[t].pick \in Threads \cup {Idle}
          /\ local[t].back \in {"run", "sleep_ret", "wait_ret"}
      BY <1>3 DEF Jump, TypeOK, LocalsSet, Locals
    <3>3. local' \in [Threads -> Locals] /\ pc' \in [Threads -> Points]
      BY <1>3, <2>2, <3>1, <3>2, AssignType DEF Jump, TypeOK, Points
    <3>4. LocalsSet'
      BY <1>3, <2>2, <3>1, <3>2, <3>3 DEF Jump, TypeOK, LocalsSet, Locals
    <3> QED
      BY <1>3, <2>2, <3>2, <3>3, <3>4 DEF Jump, TypeOK, kernel
  <2> QED
    BY <2>1, <2>2
<1> QED
  BY <1>1, <1>2, <1>3

\* The steps of a sleep keep the types.
LEMMA SleepType ==
    ASSUME TypeOK, NEW t \in Threads,
           \/ \E q \in Queues, timeout \in Timeouts : thread_sleep_on_timeout(t, q, timeout)
           \/ SleepReturn(t) \/ SleepUnlink(t)
    PROVE  TypeOK'
<1>1. ASSUME NEW q \in Queues, NEW timeout \in Timeouts, thread_sleep_on_timeout(t, q, timeout)
      PROVE  TypeOK'
  <2>1. CASE current = Idle
    BY <1>1, <2>1 DEF thread_sleep_on_timeout, TypeOK, kernel, LocalsSet
  <2>2. CASE current # Idle
    <3>1. /\ current \in Threads
          /\ thread_unready(current, timeout)
          /\ CallSchedule(t, "sleep_ret", current, q, timeout)
      BY <1>1, <2>2 DEF thread_sleep_on_timeout, TypeOK
    <3>2. TAILQ_INSERT_TAIL(wait_lists, q, current) \in TailqMem(Queues, Threads)
      BY <3>1, InsertType, ThreadAssumption DEF TypeOK
    <3>3. pc' \in [Threads -> Points] /\ local' \in [Threads -> Locals] /\ LocalsSet'
      BY <3>1, CallScheduleType, ThreadAssumption
    <3>4. /\ state' \in [Threads -> {TS_READY, TS_WAITING, TS_IOPENDING}]
          /\ run_lists' \in TailqMem({thread_run_list}, Threads)
          /\ timeout_signaled' \in [Threads -> {-1, 0, 1}]
          /\ sleep_timer' \in [Threads -> AlarmTimers \cup {NULL}]
          /\ armed' \in [AlarmTimers -> Threads \cup {NULL}]
      BY <3>1, UnreadyType
    <3> QED
      BY <1>1, <2>2, <3>2, <3>3, <3>4 DEF thread_sleep_on_timeout, TypeOK
  <2> QED
    BY <2>1, <2>2
<1>2. CASE SleepReturn(t)
  <2>1. CASE timeout_signaled[local[t].pthread] = -1
    BY <1>2, <2>1 DEF SleepReturn, TypeOK, kernel, LocalsSet, Points
  <2>2. CASE timeout_signaled[local[t].pthread] # -1
    BY <1>2, <2>2, DoneType DEF SleepReturn, TypeOK, kernel
  <2> QED
    BY <2>1, <2>2
<1>3. CASE SleepUnlink(t)
  <2>1. local[t].pthread \in Threads /\ local[t].queue \in Queues
    BY <1>3 DEF SleepUnlink, TypeOK, LocalsSet, Locals
  <2>2. TAILQ_REMOVE(wait_lists, local[t].queue, local[t].pthread) \in TailqMem(Queues, Threads)
    BY <2>1, RemoveType, ThreadAssumption DEF TypeOK
  <2> QED
    BY <1>3, <2>2, DoneType DEF SleepUnlink, TypeOK
<1> QED
  BY <1>1, <1>2, <1>3

\* A thread sets out to make another ready.
LEMMA ToReadyType ==
    ASSUME TypeOK, NEW t \in Threads, NEW x \in Threads, pc[t] = "run",
           pc' = [pc EXCEPT ![t] = "ready_check"], local' = [local EXCEPT ![t].pthread = x]
    PROVE  pc' \in [Threads -> Points] /\ local' \in [Threads -> Locals] /\ LocalsSet'
<1>1. local' = [local EXCEPT ![t] = [local[t] EXCEPT !.pthread = x]]
  OBVIOUS
<1>2. local' \in [Threads -> Locals] /\ pc' \in [Threads -> Points]
  BY <1>1, AssignType DEF TypeOK, Points
<1> QED
  BY <1>1, <1>2, ThreadAssumption DEF TypeOK, LocalsSet, Locals

\* The steps that wake a thread keep the types.
LEMMA WakeType ==
    ASSUME TypeOK, NEW t \in Threads,
           \/ \E q \in Queues : thread_wakeup(t, q)
           \/ \E x \in Threads : sigaddset(t, x)
           \/ ReadyCheck(t) \/ ReadyInsert(t)
    PROVE  TypeOK'
<1>1. ASSUME NEW q \in Queues, thread_wakeup(t, q) PROVE TypeOK'
  <2>1. /\ TAILQ_FIRST(wait_lists, q) \in Threads
        /\ wait_lists' \in TailqMem(Queues, Threads)
        /\ timeout_signaled' \in [Threads -> {-1, 0, 1}]
    BY <1>1, TakeFirstType DEF thread_wakeup
  <2>2. pc' \in [Threads -> Points] /\ local' \in [Threads -> Locals] /\ LocalsSet'
    BY <1>1, <2>1, ToReadyType DEF thread_wakeup
  <2> QED
    BY <1>1, <2>1, <2>2 DEF thread_wakeup, TypeOK
<1>2. ASSUME NEW x \in Threads, sigaddset(t, x) PROVE TypeOK'
  <2>1. pc' \in [Threads -> Points] /\ local' \in [Threads -> Locals] /\ LocalsSet'
    BY <1>2, ToReadyType DEF sigaddset
  <2> QED
    BY <1>2, <2>1 DEF sigaddset, TypeOK, kernel
<1>3. CASE ReadyCheck(t)
  <2>1. CASE TAILQ_ENTRY_EMPTY(run_lists, local[t].pthread)
    BY <1>3, <2>1 DEF ReadyCheck, TypeOK, kernel, LocalsSet, Points
  <2>2. CASE ~TAILQ_ENTRY_EMPTY(run_lists, local[t].pthread)
    BY <1>3, <2>2, DoneType DEF ReadyCheck, TypeOK, kernel
  <2> QED
    BY <2>1, <2>2
<1>4. CASE ReadyInsert(t)
  <2>1. local[t].pthread \in Threads
    BY <1>4 DEF ReadyInsert, TypeOK, LocalsSet, Locals
  <2>2. /\ state' \in [Threads -> {TS_READY, TS_WAITING, TS_IOPENDING}]
        /\ run_lists' \in TailqMem({thread_run_list}, Threads)
    BY <1>4, <2>1, MakeReadyType DEF ReadyInsert
  <2> QED
    BY <1>4, <2>2, DoneType DEF ReadyInsert, TypeOK
<1> QED
  BY <1>1, <1>2, <1>3, <1>4

\* The remaining steps of a thread keep the types.
LEMMA WaitType ==
    ASSUME TypeOK, NEW t \in Threads,
           \/ thread_yield(t)
           \/ \E x \in Threads, timeout \in Timeouts : thread_wait(t, x, timeout)
           \/ WaitReturn(t)
    PROVE  TypeOK'
<1>1. CASE thread_yield(t)
  <2>1. pc' \in [Threads -> Points] /\ local' \in [Threads -> Locals] /\ LocalsSet'
    BY <1>1, CallScheduleType DEF thread_yield
  <2> QED
    BY <1>1, <2>1 DEF thread_yield, TypeOK, kernel
<1>2. ASSUME NEW x \in Threads, NEW timeout \in Timeouts, thread_wait(t, x, timeout)
      PROVE  TypeOK'
  <2>1. /\ state' \in [Threads -> {TS_READY, TS_WAITING, TS_IOPENDING}]
        /\ run_lists' \in TailqMem({thread_run_list}, Threads)
        /\ timeout_signaled' \in [Threads -> {-1, 0, 1}]
        /\ sleep_timer' \in [Threads -> AlarmTimers \cup {NULL}]
        /\ armed' \in [AlarmTimers -> Threads \cup {NULL}]
    BY <1>2, UnreadyType DEF thread_wait
  <2>2. pc' \in [Threads -> Points] /\ local' \in [Threads -> Locals] /\ LocalsSet'
    <3>1. CASE UnreadyFails(x, timeout)
      BY <1>2, <3>1 DEF thread_wait, TypeOK, LocalsSet
    <3>2. CASE ~UnreadyFails(x, timeout)
      BY <1>2, <3>2, CallScheduleType DEF thread_wait
    <3> QED
      BY <3>1, <3>2
  <2> QED
    BY <1>2, <2>1, <2>2 DEF thread_wait, TypeOK
<1>3. CASE WaitReturn(t)
  BY <1>3, DoneType DEF WaitReturn, TypeOK, kernel
<1> QED
  BY <1>1, <1>2, <1>3

\* A timer that goes off keeps the types.
LEMMA SleepTimerType ==
    ASSUME TypeOK, NEW a \in AlarmTimers, thread_sleep_timer(a)
    PROVE  /\ state' \in [Threads -> {TS_READY, TS_WAITING, TS_IOPENDING}]
           /\ run_lists' \in TailqMem({thread_run_list}, Threads)
           /\ timeout_signaled' \in [Threads -> {-1, 0, 1}]
           /\ sleep_timer' \in [Threads -> AlarmTimers \cup {NULL}]
           /\ armed' \in [AlarmTimers -> Threads \cup {NULL}]
<1>1. armed[a] \in Threads /\ thread_ready(armed[a])
  BY DEF thread_sleep_timer, TypeOK
<1>2. ArmedWithout(armed[a]) \in [AlarmTimers -> Threads \cup {NULL}]
  BY DEF ArmedWithout, TypeOK
<1>3. /\ state' \in [Threads -> {TS_READY, TS_WAITING, TS_IOPENDING}]
      /\ run_lists' \in TailqMem({thread_run_list}, Threads)
  BY <1>1, ThreadReadyType
<1> QED
  BY <1>1, <1>2, <1>3 DEF thread_sleep_timer, TypeOK

\* A handler keeps the types.
LEMMA HandlerType ==
    ASSUME TypeOK, Handler
    PROVE  /\ state' \in [Threads -> {TS_READY, TS_WAITING, TS_IOPENDING}]
           /\ run_lists' \in TailqMem({thread_run_list}, Threads)
           /\ wait_lists' \in TailqMem(Queues, Threads)
           /\ timeout_signaled' \in [Threads -> {-1, 0, 1}]
           /\ sleep_timer' \in [Threads -> AlarmTimers \cup {NULL}]
           /\ armed' \in [AlarmTimers -> Threads \cup {NULL}]
<1>1. CASE IrqTick
  BY <1>1 DEF IrqTick, TypeOK, kernel
<1>2. CASE \E q \in Queues : IrqWakeup(q)
  <2>1. PICK q \in Queues : IrqWakeup(q)
    BY <1>2
  <2>2. /\ TAILQ_FIRST(wait_lists, q) \in Threads
        /\ wait_lists' \in TailqMem(Queues, Threads)
        /\ timeout_signaled' \in [Threads -> {-1, 0, 1}]
    BY <2>1, TakeFirstType DEF IrqWakeup
  <2> QED
    BY <2>1, <2>2, ThreadReadyType DEF IrqWakeup, TypeOK
<1>3. CASE \E x \in Threads : IrqSendsig(x)
  BY <1>3, ThreadReadyType DEF IrqSendsig, TypeOK
<1>4. CASE \E a \in AlarmTimers : thread_sleep_timer(a)
  <2>1. PICK a \in AlarmTimers : thread_sleep_timer(a)
    BY <1>4
  <2> QED
    BY <2>1, SleepTimerType DEF thread_sleep_timer, TypeOK
<1> QED
  BY <1>1, <1>2, <1>3, <1>4 DEF Handler

\* An interrupt keeps the types.
LEMMA InterruptType ==
    ASSUME TypeOK, Interrupt
    PROVE  TypeOK'
  BY HandlerType, SoftIrqType DEF Interrupt, TypeOK, LocalsSet

\* Every step keeps the types.
LEMMA TypePreserved ==
    ASSUME TypeOK, [Next]_vars
    PROVE  TypeOK'
<1>1. ASSUME NEW t \in Threads, ThreadStep(t) PROVE TypeOK'
  BY <1>1, SwitchType, SleepType, WakeType, WaitType DEF ThreadStep
<1>2. ASSUME NEW x \in Threads, Start(x) PROVE TypeOK'
  <2>1. CASE thread_ready(x) /\ UNCHANGED <<pc, local>>
    BY <1>2, <2>1, ThreadReadyType DEF Start, TypeOK, LocalsSet
  <2>2. CASE /\ cpu \in Threads /\ pc[cpu] = "run"
             /\ pc' = [pc EXCEPT ![cpu] = "ready_check"]
             /\ local' = [local EXCEPT ![cpu].pthread = x]
             /\ UNCHANGED <<state, run_lists>>
    <3>1. pc' \in [Threads -> Points] /\ local' \in [Threads -> Locals] /\ LocalsSet'
      BY <1>2, <2>2, ToReadyType
    <3> QED
      BY <1>2, <2>2, <3>1 DEF Start, TypeOK
  <2> QED
    BY <1>2, <2>1, <2>2 DEF Start
<1>3. CASE UNCHANGED vars
  BY <1>3 DEF vars, kernel, TypeOK, LocalsSet
<1> QED
  BY <1>1, <1>2, <1>3, InterruptType DEF Next

\* Whatever the threads, queues and timers, and whatever the interleaving, the
\* variables keep their types and no null thread or queue is followed.
THEOREM TypeCorrect == Spec => []TypeOK
<1>1. Init => TypeOK
  <2>1. ASSUME NEW H, NEW E PROVE TAILQ_INIT(H, E) \in TailqMem(H, E)
    BY DEF TAILQ_INIT, TailqMem
  <2>2. NoLocals \in Locals
    BY DEF NoLocals, Locals
  <2> SUFFICES ASSUME Init PROVE TypeOK
    OBVIOUS
  <2>3. /\ run_lists \in TailqMem({thread_run_list}, Threads)
        /\ wait_lists \in TailqMem(Queues, Threads)
    BY <2>1 DEF Init
  <2>4. /\ state \in [Threads -> {TS_READY, TS_WAITING, TS_IOPENDING}]
        /\ timeout_signaled \in [Threads -> {-1, 0, 1}]
        /\ sleep_timer \in [Threads -> AlarmTimers \cup {NULL}]
        /\ armed \in [AlarmTimers -> Threads \cup {NULL}]
        /\ current \in Threads \cup {Idle} /\ cpu \in Threads \cup {Idle}
        /\ panicked \in BOOLEAN
    BY DEF Init
  <2>5. pc \in [Threads -> Points] /\ local \in [Threads -> Locals]
    BY <2>2 DEF Init, Points
  <2>6. \A t \in Threads : pc[t] = "run"
    BY DEF Init
  <2>7. LocalsSet
    BY <2>6 DEF LocalsSet
  <2> QED
    BY <2>3, <2>4, <2>5, <2>7 DEF TypeOK
<1> QED
  BY <1>1, TypePreserved, PTL DEF Spec

-----------------------------------------------------------------------------
\* thread_unready keeps threads and timers paired: it frees the timer of t, and
\* takes a new one that no thread holds.
LEMMA UnreadyTimers ==
    ASSUME TypeOK, TimersOwned, NEW t \in Threads, NEW timeout, thread_unready(t, timeout)
    PROVE  TimersOwned'
<1>1. ArmedWithout(t) \in [AlarmTimers -> Threads \cup {NULL}]
  BY DEF ArmedWithout, TypeOK
<1>2. CASE sleep_timer' = [sleep_timer EXCEPT ![t] = NULL] /\ armed' = ArmedWithout(t)
  BY <1>2, ThreadAssumption DEF ArmedWithout, TypeOK, TimersOwned
<1>3. ASSUME NEW a \in FreeTimers(t),
             sleep_timer' = [sleep_timer EXCEPT ![t] = a],
             armed' = [ArmedWithout(t) EXCEPT ![a] = t]
      PROVE  TimersOwned'
  BY <1>1, <1>3, ThreadAssumption DEF ArmedWithout, FreeTimers, TypeOK, TimersOwned
<1> QED
  BY <1>2, <1>3 DEF thread_unready

\* thread_sleep_timer frees the timer that called it.
LEMMA SleepTimerTimers ==
    ASSUME TypeOK, TimersOwned, NEW a \in AlarmTimers, thread_sleep_timer(a)
    PROVE  TimersOwned'
<1>1. armed[a] \in Threads /\ sleep_timer[armed[a]] = a
  BY DEF thread_sleep_timer, TypeOK, TimersOwned
<1>2. /\ sleep_timer' = [sleep_timer EXCEPT ![armed[a]] = NULL]
      /\ armed' = [ArmedWithout(armed[a]) EXCEPT ![a] = NULL]
  BY DEF thread_sleep_timer
<1> QED
  BY <1>1, <1>2, ThreadAssumption DEF ArmedWithout, TypeOK, TimersOwned

\* Every step keeps threads and timers paired.
LEMMA TimersPreserved ==
    ASSUME TypeOK, TimersOwned, [Next]_vars
    PROVE  TimersOwned'
<1>1. CASE UNCHANGED <<sleep_timer, armed>>
  BY <1>1 DEF TimersOwned
<1>2. ASSUME NEW t \in Threads, ThreadStep(t) PROVE TimersOwned'
  <2>1. CASE \E q \in Queues, timeout \in Timeouts : thread_sleep_on_timeout(t, q, timeout)
    <3>1. PICK q \in Queues, timeout \in Timeouts : thread_sleep_on_timeout(t, q, timeout)
      BY <2>1
    <3>2. CASE current = Idle
      BY <1>1, <3>1, <3>2 DEF thread_sleep_on_timeout, kernel
    <3>3. CASE current # Idle
      BY <3>1, <3>3, UnreadyTimers DEF thread_sleep_on_timeout, TypeOK
    <3> QED
      BY <3>2, <3>3
  <2>2. CASE \E x \in Threads, timeout \in Timeouts : thread_wait(t, x, timeout)
    BY <2>2, UnreadyTimers DEF thread_wait
  <2> QED
    BY <1>1, <1>2, <2>1, <2>2 DEF ThreadStep, SchedulePick, SetCurrent, Jump, thread_yield,
       thread_wakeup, SleepReturn, SleepUnlink, WaitReturn, sigaddset, ReadyCheck, ReadyInsert, kernel
<1>3. CASE Interrupt
  BY <1>1, <1>3, SleepTimerTimers DEF Interrupt, Handler, IrqTick, IrqWakeup, IrqSendsig, kernel
<1> QED
  BY <1>1, <1>2, <1>3 DEF Next, Start, vars, kernel

\* Threads and armed timers stay paired one to one, whatever the interleaving of
\* sleeps, wake-ups, signals and expiries, kernel threads included.
THEOREM TimersOwnedInvariant == Spec => []TimersOwned
<1>1. Init => TimersOwned
  BY ThreadAssumption DEF Init, TimersOwned
<1>2. TypeOK /\ TimersOwned /\ [Next]_vars => TimersOwned'
  BY TimersPreserved
<1> QED
  BY <1>1, <1>2, TypeCorrect, PTL DEF Spec

-----------------------------------------------------------------------------
(* Without kernel threads nothing preempts a thread inside a system call.  *)

\* The inductive invariant behind CurrentIsRunning and SwitchesToReady: a thread
\* that is off the CPU left it at a point where schedule returns, and from
\* set_current to the jump the current thread is the one picked.
SwitchInv ==
    /\ \A t \in Threads : t # cpu => pc[t] \in {"run", "sleep_ret", "wait_ret"}
    /\ \A t \in Threads : pc[t] = "jump" => local[t].pick = current
    /\ CurrentIsRunning
    /\ SwitchesToReady

\* A thread's steps keep SwitchInv.
LEMMA ThreadStepSwitch ==
    ASSUME TypeOK, SwitchInv, NEW t \in Threads, ThreadStep(t)
    PROVE  SwitchInv'
<1> USE DEF SwitchInv, CurrentIsRunning, SwitchesToReady
<1>0. cpu = t /\ Idle \notin Threads /\ t # Idle
  BY ThreadAssumption DEF ThreadStep
<1>1. CASE SchedulePick(t)
  <2>1. CASE SchedulePanics(run_lists, state)
    BY <1>1, <2>1 DEF SchedulePick, kernel
  <2>2. CASE ~SchedulePanics(run_lists, state)
    <3>1. PICK p \in Picks(run_lists, state) :
             IF p = current
             THEN /\ pc' = [pc EXCEPT ![t] = local[t].back]
                  /\ UNCHANGED local
             ELSE /\ pc' = [pc EXCEPT ![t] = "resume"]
                  /\ local' = [local EXCEPT ![t].pick = p]
      BY <1>1, <2>2 DEF SchedulePick
    <3>2. p # Idle => p \in Threads /\ state[p] = TS_READY
      BY DEF Picks
    <3>3. local[t].back \in {"run", "sleep_ret", "wait_ret"} /\ pc[t] = "sched"
      BY <1>1 DEF TypeOK, Locals, SchedulePick
    <3>4. p # current => local'[t].pick = p
      BY <3>1 DEF TypeOK, Locals
    <3> QED
      BY <1>0, <1>1, <2>2, <3>1, <3>2, <3>3, <3>4 DEF SchedulePick, kernel, TypeOK
  <2> QED
    BY <2>1, <2>2
<1>2. CASE SetCurrent(t)
  BY <1>0, <1>2 DEF SetCurrent, kernel, TypeOK
<1>3. CASE Jump(t)
  <2>1. CASE local[t].pick = t
    BY <1>3, <2>1 DEF Jump, kernel
  <2>2. CASE local[t].pick # t
    <3>1. local[t].back \in {"run", "sleep_ret", "wait_ret"}
      BY DEF TypeOK, Locals
    <3> QED
      BY <1>0, <1>3, <2>2, <3>1 DEF Jump, kernel, TypeOK
  <2> QED
    BY <2>1, <2>2
<1>4. CASE /\ pc[t] \in {"run", "ready_check", "ready_insert", "sleep_ret", "sleep_unlink", "wait_ret"}
           /\ \E v \in {"run", "ready_check", "ready_insert", "sched", "sleep_unlink"} :
                 pc' = [pc EXCEPT ![t] = v]
           /\ UNCHANGED <<cpu, current>>
  BY <1>0, <1>4 DEF TypeOK
<1>5. CASE pc[t] = "run" /\ UNCHANGED <<cpu, current, pc, local>>
  BY <1>0, <1>5
<1> QED
  BY <1>0, <1>1, <1>2, <1>3, <1>4, <1>5
  DEF ThreadStep, thread_yield, CallSchedule, thread_wakeup, thread_sleep_on_timeout, kernel,
      SleepReturn, SleepUnlink, thread_wait, WaitReturn, sigaddset, ReadyCheck, ReadyInsert

\* An interrupt takes no thread out of TS_READY.
LEMMA HandlerKeepsReady ==
    ASSUME TypeOK, Handler, NEW t \in Threads, state[t] = TS_READY
    PROVE  state'[t] = TS_READY
<1>1. ASSUME NEW x, thread_ready(x) PROVE state'[t] = TS_READY
  BY <1>1 DEF thread_ready, MakeReady, TypeOK
<1> QED
  BY <1>1 DEF Handler, IrqTick, kernel, IrqWakeup, IrqSendsig, thread_sleep_timer

\* An interrupt of a user thread, or of the idle thread, keeps SwitchInv.
LEMMA InterruptSwitch ==
    ASSUME TypeOK, SwitchInv, KThreads = {}, Interrupt
    PROVE  SwitchInv'
<1> USE DEF SwitchInv, CurrentIsRunning, SwitchesToReady
<1>1. UNCHANGED <<pc, local>> /\ Handler /\ soft_irq /\ Idle \notin Threads
  BY ThreadAssumption DEF Interrupt
<1>2. ASSUME NEW t \in Threads, local[t].pick # Idle, pc[t] \in {"resume", "jump"},
             state[local[t].pick] = TS_READY
      PROVE  state'[local[t].pick] = TS_READY
  BY <1>2, <1>1, HandlerKeepsReady DEF TypeOK, LocalsSet, Locals
<1>3. CASE UNCHANGED <<current, cpu>>
  BY <1>1, <1>2, <1>3
<1>4. CASE Preemptible /\ current' = cpu'
  <2>1. cpu # Idle => pc[cpu] = "run"
    BY <1>4 DEF Preemptible, TypeOK
  <2>2. \A t \in Threads : pc[t] \in {"run", "sleep_ret", "wait_ret"}
    BY <1>1, <2>1
  <2> QED
    BY <1>1, <1>4, <2>2
<1> QED
  BY <1>1, <1>3, <1>4 DEF soft_irq

\* Every step keeps SwitchInv.
LEMMA SwitchPreserved ==
    ASSUME TypeOK, SwitchInv, KThreads = {}, [Next]_vars
    PROVE  SwitchInv'
<1>1. ASSUME NEW x \in Threads, Start(x) PROVE SwitchInv'
  <2>1. \A t \in Threads : state[t] = TS_READY => state'[t] = TS_READY
    BY <1>1 DEF Start, thread_ready, MakeReady, TypeOK
  <2>2. UNCHANGED <<current, cpu>>
    BY <1>1 DEF Start
  <2>3. \A t \in Threads : pc[t] \in {"resume", "jump"} /\ local[t].pick # Idle
                             => local[t].pick \in Threads
    BY DEF TypeOK, LocalsSet, Locals
  <2>4. CASE UNCHANGED <<pc, local>>
    BY <2>1, <2>2, <2>3, <2>4 DEF SwitchInv, CurrentIsRunning, SwitchesToReady
  <2>5. CASE /\ cpu \in Threads /\ pc[cpu] = "run"
             /\ pc' = [pc EXCEPT ![cpu] = "ready_check"]
             /\ local' = [local EXCEPT ![cpu].pthread = x]
    <3>1. /\ pc'[cpu] = "ready_check"
          /\ \A t \in Threads : t # cpu => pc'[t] = pc[t] /\ local'[t] = local[t]
      BY <2>5 DEF TypeOK
    <3> QED
      BY <2>2, <2>5, <3>1 DEF SwitchInv, CurrentIsRunning, SwitchesToReady
  <2> QED
    BY <1>1, <2>4, <2>5 DEF Start
<1>2. CASE UNCHANGED vars
  BY <1>2 DEF vars, kernel, SwitchInv, CurrentIsRunning, SwitchesToReady
<1> QED
  BY <1>1, <1>2, ThreadStepSwitch, InterruptSwitch DEF Next

\* Without kernel threads current_thread() names the running thread, and schedule
\* switches to a thread that is still ready, for any number of threads.
THEOREM SwitchIsSound ==
    ASSUME KThreads = {}
    PROVE  Spec => [](CurrentIsRunning /\ SwitchesToReady)
<1>1. Init => SwitchInv
  BY ThreadAssumption DEF Init, SwitchInv, CurrentIsRunning, SwitchesToReady
<1>2. TypeOK /\ SwitchInv /\ [Next]_vars => SwitchInv'
  BY SwitchPreserved
<1>3. SwitchInv => CurrentIsRunning /\ SwitchesToReady
  BY DEF SwitchInv
<1> QED
  BY <1>1, <1>2, <1>3, TypeCorrect, PTL DEF Spec

-----------------------------------------------------------------------------
(* Without signals either, a sleep ends only by a wake-up or a timeout.    *)

\* The inductive invariant behind NoSpuriousReturn: only a waiting thread has an
\* unmarked sleep, and a thread on its way to thread_ready has been marked.
MarkInv ==
    /\ \A t \in Threads : state[t] # TS_WAITING => timeout_signaled[t] # -1
    /\ \A w \in Threads : pc[w] \in {"ready_check", "ready_insert"}
                             => timeout_signaled[local[w].pthread] # -1
    /\ NoSpuriousReturn

\* A handler makes ready only threads whose sleep it marks as ended, and unmarks none.
LEMMA HandlerMarks ==
    ASSUME TypeOK, TimersOwned, MarkInv, ~Signals, Handler
    PROVE  /\ \A t \in Threads : timeout_signaled[t] # -1 => timeout_signaled'[t] # -1
           /\ \A t \in Threads : state'[t] # TS_WAITING => timeout_signaled'[t] # -1
<1>1. CASE IrqTick
  BY <1>1 DEF IrqTick, kernel, MarkInv
<1>2. ASSUME NEW q \in Queues, IrqWakeup(q)
      PROVE  /\ \A t \in Threads : timeout_signaled[t] # -1 => timeout_signaled'[t] # -1
             /\ \A t \in Threads : state'[t] # TS_WAITING => timeout_signaled'[t] # -1
  <2> DEFINE first == TAILQ_FIRST(wait_lists, q)
  <2>1. first \in Threads
    BY <1>2, TakeFirstType DEF IrqWakeup
  <2>2. thread_ready(first) /\ timeout_signaled' = [timeout_signaled EXCEPT ![first] = 0]
    BY <1>2 DEF IrqWakeup, TakeFirst
  <2> HIDE DEF first
  <2> QED
    BY <2>1, <2>2 DEF thread_ready, MakeReady, TypeOK, MarkInv
<1>3. ASSUME NEW a \in AlarmTimers, thread_sleep_timer(a)
      PROVE  /\ \A t \in Threads : timeout_signaled[t] # -1 => timeout_signaled'[t] # -1
             /\ \A t \in Threads : state'[t] # TS_WAITING => timeout_signaled'[t] # -1
  <2>1. armed[a] \in Threads /\ sleep_timer[armed[a]] # NULL
    BY <1>3, ThreadAssumption DEF thread_sleep_timer, TypeOK, TimersOwned
  <2>2. /\ thread_ready(armed[a])
        /\ timeout_signaled' = [timeout_signaled EXCEPT ![armed[a]] = 1]
    BY <1>3, <2>1 DEF thread_sleep_timer
  <2> QED
    BY <2>1, <2>2 DEF thread_ready, MakeReady, TypeOK, MarkInv
<1> QED
  BY <1>1, <1>2, <1>3 DEF Handler, IrqSendsig

\* An interrupt switches only to a thread that is ready.
LEMMA SoftIrqReady ==
    ASSUME soft_irq, cpu' # cpu, cpu' # Idle
    PROVE  cpu' \in Threads /\ state'[cpu'] = TS_READY
  BY DEF soft_irq, Picks

\* An interrupt keeps MarkInv.
LEMMA InterruptMarks ==
    ASSUME TypeOK, TypeOK', TimersOwned, MarkInv, ~Signals, Interrupt
    PROVE  MarkInv'
<1>1. UNCHANGED <<pc, local>> /\ soft_irq /\ Idle \notin Threads
  BY ThreadAssumption DEF Interrupt
<1>2. /\ \A t \in Threads : timeout_signaled[t] # -1 => timeout_signaled'[t] # -1
      /\ \A t \in Threads : state'[t] # TS_WAITING => timeout_signaled'[t] # -1
  BY HandlerMarks DEF Interrupt
<1>3. \A w \in Threads : pc[w] \in {"ready_check", "ready_insert"} => local[w].pthread \in Threads
  BY DEF TypeOK, LocalsSet, Locals
<1>4. NoSpuriousReturn'
  <2>1. CASE cpu' = cpu
    BY <1>1, <1>2, <2>1 DEF MarkInv, NoSpuriousReturn
  <2>2. CASE cpu' # cpu
    BY <1>1, <1>2, <2>2, SoftIrqReady DEF NoSpuriousReturn, TS_READY, TS_WAITING
  <2> QED
    BY <2>1, <2>2
<1> QED
  BY <1>1, <1>2, <1>3, <1>4 DEF MarkInv

\* A thread's steps keep MarkInv.
LEMMA ThreadStepMarks ==
    ASSUME TypeOK, SwitchInv, MarkInv, ~Signals, NEW t \in Threads, ThreadStep(t)
    PROVE  MarkInv'
<1>0. cpu = t /\ Idle \notin Threads /\ t # Idle /\ TS_READY # TS_WAITING
  BY ThreadAssumption DEF ThreadStep, TS_READY, TS_WAITING
<1>1. CASE SchedulePick(t)
  <2>1. CASE SchedulePanics(run_lists, state)
    BY <1>1, <2>1 DEF SchedulePick, kernel, MarkInv, NoSpuriousReturn
  <2>2. CASE ~SchedulePanics(run_lists, state)
    <3>1. PICK p \in Picks(run_lists, state) :
             IF p = current
             THEN /\ pc' = [pc EXCEPT ![t] = local[t].back]
                  /\ UNCHANGED local
             ELSE /\ pc' = [pc EXCEPT ![t] = "resume"]
                  /\ local' = [local EXCEPT ![t].pick = p]
      BY <1>1, <2>2 DEF SchedulePick
    <3>2. p # Idle => p \in Threads /\ state[p] = TS_READY
      BY DEF Picks
    <3>3. current = t
      BY <1>0, <1>1 DEF SwitchInv, CurrentIsRunning, SchedulePick
    <3>4. \A w \in Threads \ {t} : local'[w] = local[w] /\ pc'[w] = pc[w]
      BY <3>1 DEF TypeOK
    <3>5. pc'[t] \in {"run", "sleep_ret", "wait_ret", "resume"}
      BY <3>1 DEF TypeOK, Locals
    <3>6. pc'[t] = "sleep_ret" => timeout_signaled[t] # -1
      BY <1>0, <3>1, <3>2, <3>3 DEF TypeOK, MarkInv
    <3> QED
      BY <1>0, <1>1, <3>4, <3>5, <3>6 DEF SchedulePick, kernel, MarkInv, NoSpuriousReturn
  <2> QED
    BY <2>1, <2>2
<1>2. CASE SetCurrent(t)
  BY <1>0, <1>2 DEF SetCurrent, kernel, TypeOK, MarkInv, NoSpuriousReturn
<1>3. CASE Jump(t)
  <2>1. CASE local[t].pick = t
    BY <1>3, <2>1 DEF Jump, kernel, MarkInv, NoSpuriousReturn
  <2>2. CASE local[t].pick # t
    <3>1. pc'[t] \in {"run", "sleep_ret", "wait_ret"}
      BY <1>3, <2>2 DEF Jump, TypeOK, Locals
    <3>2. \A w \in Threads \ {t} : local'[w] = local[w] /\ pc'[w] = pc[w]
      BY <1>3, <2>2 DEF Jump, TypeOK
    <3>3. cpu' # Idle => cpu' \in Threads \ {t} /\ state[cpu'] = TS_READY
      BY <1>0, <1>3, <2>2 DEF Jump, TypeOK, LocalsSet, Locals, SwitchInv, SwitchesToReady
    <3> QED
      BY <1>0, <1>3, <2>2, <3>1, <3>2, <3>3 DEF Jump, kernel, MarkInv, NoSpuriousReturn
  <2> QED
    BY <2>1, <2>2
<1>4. ASSUME NEW q \in Queues, thread_wakeup(t, q) PROVE MarkInv'
  <2> DEFINE first == TAILQ_FIRST(wait_lists, q)
  <2>1. first \in Threads
    BY <1>4, TakeFirstType DEF thread_wakeup
  <2>2. /\ timeout_signaled' = [timeout_signaled EXCEPT ![first] = 0]
        /\ local'[t].pthread = first
        /\ \A w \in Threads \ {t} : local'[w] = local[w]
    BY <1>4 DEF thread_wakeup, TakeFirst, TypeOK, Locals
  <2> HIDE DEF first
  <2>3. \A w \in Threads \ {t} : pc[w] \notin {"ready_check", "ready_insert"}
    BY <1>0 DEF SwitchInv
  <2> QED
    BY <1>0, <1>4, <2>1, <2>2, <2>3 DEF thread_wakeup, TypeOK, MarkInv, NoSpuriousReturn
<1>5. ASSUME NEW q \in Queues, NEW timeout \in Timeouts, thread_sleep_on_timeout(t, q, timeout)
      PROVE  MarkInv'
  <2>1. current = t
    BY <1>0, <1>5 DEF SwitchInv, CurrentIsRunning, thread_sleep_on_timeout
  <2>2. /\ state' = [state EXCEPT ![t] = TS_WAITING]
        /\ timeout_signaled' = [timeout_signaled EXCEPT ![t] = -1]
        /\ pc' = [pc EXCEPT ![t] = "sched"]
        /\ cpu' = cpu
    BY <1>0, <1>5, <2>1 DEF thread_sleep_on_timeout, thread_unready, CallSchedule
  <2>3. \A w \in Threads \ {t} : pc[w] \notin {"ready_check", "ready_insert"}
    BY <1>0 DEF SwitchInv
  <2> QED
    BY <1>0, <2>2, <2>3 DEF TypeOK, MarkInv, NoSpuriousReturn
<1>6. CASE ReadyCheck(t)
  BY <1>0, <1>6 DEF ReadyCheck, kernel, TypeOK, MarkInv, NoSpuriousReturn
<1>7. CASE ReadyInsert(t)
  <2>1. local[t].pthread \in Threads /\ timeout_signaled[local[t].pthread] # -1
    BY <1>7 DEF ReadyInsert, TypeOK, LocalsSet, Locals, MarkInv
  <2> QED
    BY <1>0, <1>7, <2>1 DEF ReadyInsert, MakeReady, TypeOK, MarkInv, NoSpuriousReturn
<1>8. CASE thread_yield(t) \/ SleepReturn(t) \/ SleepUnlink(t) \/ WaitReturn(t)
  BY <1>0, <1>8 DEF thread_yield, CallSchedule, SleepReturn, SleepUnlink, WaitReturn, kernel,
                    TypeOK, MarkInv, NoSpuriousReturn
<1> QED
  BY <1>1, <1>2, <1>3, <1>4, <1>5, <1>6, <1>7, <1>8 DEF ThreadStep, thread_wait, sigaddset

\* Without kernel threads and signals, thread_sleep_on_timeout comes back from
\* schedule only after a wake-up or the timer has marked its sleep as ended, so
\* that its path to the -1 result, which leaves the queue, is never taken.
THEOREM NoSpuriousReturnInvariant ==
    ASSUME KThreads = {}, ~Signals
    PROVE  Spec => []NoSpuriousReturn
<1>1. Init => SwitchInv /\ MarkInv
  BY ThreadAssumption DEF Init, SwitchInv, CurrentIsRunning, SwitchesToReady, MarkInv, NoSpuriousReturn
<1>2. ASSUME TypeOK, TypeOK', TimersOwned, SwitchInv, MarkInv, [Next]_vars
      PROVE  SwitchInv' /\ MarkInv'
  <2> SUFFICES MarkInv'
    BY <1>2, SwitchPreserved
  <2>1. ASSUME NEW x \in Threads, Start(x) PROVE MarkInv'
    <3>1. timeout_signaled[x] # -1
      BY <1>2, <2>1 DEF Start, MarkInv, TS_IOPENDING, TS_WAITING
    <3>2. CASE thread_ready(x) /\ UNCHANGED <<pc, local>>
      BY <2>1, <3>1, <3>2, <1>2
         DEF Start, thread_ready, MakeReady, TypeOK, MarkInv, NoSpuriousReturn
    <3>3. CASE /\ cpu \in Threads
               /\ pc' = [pc EXCEPT ![cpu] = "ready_check"]
               /\ local' = [local EXCEPT ![cpu].pthread = x]
               /\ UNCHANGED <<state, run_lists>>
      <4>1. /\ pc'[cpu] = "ready_check" /\ local'[cpu].pthread = x
            /\ \A t \in Threads : t # cpu => pc'[t] = pc[t] /\ local'[t] = local[t]
        BY <1>2, <3>3 DEF TypeOK, Locals
      <4> QED
        BY <1>2, <2>1, <3>1, <3>3, <4>1 DEF Start, MarkInv, NoSpuriousReturn
    <3> QED
      BY <2>1, <3>2, <3>3 DEF Start
  <2>2. CASE UNCHANGED vars
    BY <1>2, <2>2 DEF vars, kernel, MarkInv, NoSpuriousReturn
  <2>3. ASSUME NEW t \in Threads, ThreadStep(t) PROVE MarkInv'
    BY <1>2, <2>3, ThreadStepMarks
  <2>4. CASE Interrupt
    BY <1>2, <2>4, InterruptMarks
  <2> QED
    BY <1>2, <2>1, <2>2, <2>3, <2>4 DEF Next
<1>3. MarkInv => NoSpuriousReturn
  BY DEF MarkInv
<1> QED
  BY <1>1, <1>2, <1>3, TypeCorrect, TimersOwnedInvariant, PTL DEF Spec
=============================================================================
