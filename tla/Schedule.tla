------------------------------ MODULE Schedule ------------------------------
(***************************************************************************)
(* How schedule shares the CPU: ticks, priorities, the recharge of ticks,  *)
(* and the scheduling lock (core/kernel/thread.c, core/kernel/schedule.c,  *)
(* clock_handler in core/driver/char/timer.c, soft_irq).                   *)
(*                                                                         *)
(* Module Thread shows what the lists and the switch can do; here a switch *)
(* is one step, the run list is a sequence, and a thread is on it exactly  *)
(* when it is ready.                                                       *)
(***************************************************************************)
EXTENDS Integers, Sequences, FiniteSets

CONSTANTS Threads,    \* the threads, without the idle thread
          Idle,       \* idle_task
          Prios,      \* the priorities threads start with
          Sleepers,   \* the threads that sleep, and are woken from a handler
          LockSleepers, \* the threads that sleep inside lock_schedule (execve reads files)
          Increments, \* what callers pass to nice
          Levels,     \* what callers pass to set_thread_priority
          MinPrio,    \* bound: no call makes a priority smaller
          MaxPrio,    \* bound: no call makes a priority larger
          MaxVisits,  \* schedule panics once it has visited more threads than this
          TimeMod     \* time_t is unsigned: ticks are kept modulo TimeMod

ASSUME ScheduleAssumption ==
    /\ IsFiniteSet(Threads) /\ Idle \notin Threads
    /\ Sleepers \subseteq Threads /\ LockSleepers \subseteq Sleepers
    /\ MaxPrio \in Nat /\ MaxPrio >= 4 /\ Prios \subseteq 1..MaxPrio
    /\ MinPrio \in Int /\ MinPrio <= 0
    /\ Increments \subseteq Int /\ Levels \subseteq Int
    /\ MaxVisits \in Nat /\ TimeMod \in Nat /\ TimeMod > MaxPrio /\ TimeMod > -MinPrio

VARIABLES run_list,        \* thread_run_list, in list order
          ticks,           \* what is left of each thread's time slice
          prio,            \* the priority, added to ticks at a recharge
          current,         \* current_thread()
          isneed_schdule,  \* FALSE while the scheduling lock is held
          saved,           \* per thread, what its lock_schedule calls saved, innermost last
          panicked

vars == <<run_list, ticks, prio, current, isneed_schdule, saved, panicked>>

CPU_NO_TIMES == 0
MAX(a, b) == IF a > b THEN a ELSE b

Ready == {run_list[i] : i \in 1..Len(run_list)}

Init == /\ run_list = <<>>
        /\ prio \in [Threads -> Prios]
        /\ ticks = prio
        /\ current = Idle
        /\ isneed_schdule = TRUE
        /\ saved = [t \in Threads |-> <<>>]
        /\ panicked = FALSE

-----------------------------------------------------------------------------
(* schedule, for a run list r and ticks k.                                 *)

\* r without its i-th element.
Without(r, i) == [j \in 1..(Len(r) - 1) |-> IF j < i THEN r[j] ELSE r[j + 1]]

\* A round of schedule finds no thread with ticks left.
Exhausted(r, k) == \A i \in 1..Len(r) : k[r[i]] = CPU_NO_TIMES

\* The first thread of the list with the most ticks.
PickOf(r, k) ==
    r[CHOOSE i \in 1..Len(r) :
        /\ \A j \in 1..Len(r) : k[r[j]] <= k[r[i]]
        /\ \A j \in 1..(i - 1) : k[r[j]] < k[r[i]]]

\* A bug: the recharge forgets the priority.
RechargeHalves(r, k) == [t \in Threads |-> k[t] \div 2]

\* The ticks after the recharge, which every thread of the list takes part in.
Recharged(r, k) ==
    [t \in Threads |-> IF \E i \in 1..Len(r) : r[i] = t
                       THEN (k[t] \div 2 + prio[t]) % TimeMod
                       ELSE k[t]]

\* schedule() with run list r, threads' ticks k.  Rounds alternate with recharges
\* until a round finds ticks: the first round, or the one after the first recharge
\* when some priority is not 0, or none, so that the visits run out.
schedule(r, k) ==
    LET n == Len(r)
        k2 == Recharged(r, k)
    IN  \/ /\ r = <<>>
           /\ current' = Idle
           /\ ticks' = k
           /\ UNCHANGED panicked
        \/ /\ r # <<>> /\ ~Exhausted(r, k)
           /\ ticks' = k
           /\ IF n > MaxVisits + 1
              THEN panicked' = TRUE /\ UNCHANGED current
              ELSE current' = PickOf(r, k) /\ UNCHANGED panicked
        \/ /\ r # <<>> /\ Exhausted(r, k)
           /\ ticks' = k2
           /\ IF Exhausted(r, k2) \/ 2 * n > MaxVisits + 1
              THEN panicked' = TRUE /\ UNCHANGED current
              ELSE current' = PickOf(r, k2) /\ UNCHANGED panicked

\* soft_irq at the end of an interrupt: schedule, unless the lock is held.  The
\* idle thread has no ticks (thread_tss_init), so that it gives way at once.
soft_irq(r, k) ==
    IF isneed_schdule THEN schedule(r, k)
    ELSE ticks' = k /\ UNCHANGED <<current, panicked>>

-----------------------------------------------------------------------------
(* What happens.                                                           *)

\* A bug: the last tick is never charged.
LastTickFree == IF current \in Threads /\ ticks[current] > 1
                THEN [ticks EXCEPT ![current] = @ - 1]
                ELSE ticks

\* The ticks after clock_handler has charged the current thread.
Charged == IF current \in Threads /\ ticks[current] > 0
           THEN [ticks EXCEPT ![current] = @ - 1]
           ELSE ticks

\* A clock interrupt in user mode or in a kernel thread.
Clock == /\ soft_irq(run_list, Charged)
         /\ UNCHANGED <<run_list, prio, isneed_schdule, saved>>

\* A clock interrupt of a system call: no soft_irq.
ClockInSystemCall ==
    /\ current # Idle
    /\ ticks' = Charged
    /\ UNCHANGED <<run_list, prio, current, isneed_schdule, saved, panicked>>

\* A bug: every sleep and every wakeup adds to the ticks.
BoostAdds(t) == [ticks EXCEPT ![t] = (@ + 4) % TimeMod]

Boosted(t) == [ticks EXCEPT ![t] = MAX(4, @)]

\* A bug: thread_ready does not test whether t is on the run list.
ReadyTwice(t) ==
    /\ run_list' = Append(run_list, t)
    /\ soft_irq(run_list', Boosted(t))
    /\ UNCHANGED <<prio, isneed_schdule, saved>>

\* A handler calls thread_ready(t) and soft_irq follows; or a system call does,
\* its own or that of a handler that interrupts it, and nothing follows.
thread_ready(t) ==
    /\ t \notin Ready
    /\ run_list' = Append(run_list, t)
    /\ \/ soft_irq(run_list', Boosted(t))
       \/ /\ current # Idle
          /\ ticks' = Boosted(t)
          /\ UNCHANGED <<current, panicked>>
    /\ UNCHANGED <<prio, isneed_schdule, saved>>

\* The current thread, i-th of the list, goes to sleep: thread_unready, schedule.
\* schedule does not look at the lock.
thread_sleep_on(i) ==
    /\ run_list[i] = current
    /\ IF saved[current] = <<>> THEN current \in Sleepers ELSE current \in LockSleepers
    /\ run_list' = Without(run_list, i)
    /\ schedule(run_list', Boosted(current))
    /\ UNCHANGED <<prio, isneed_schdule, saved>>

\* The current thread is about to make one of the system calls below.
InUserMode == current # Idle /\ saved[current] = <<>>

thread_yield ==
    /\ InUserMode
    /\ schedule(run_list, ticks)
    /\ UNCHANGED <<run_list, prio, isneed_schdule, saved>>

Niced(p, increment) == IF p < increment THEN 1 ELSE p - increment

nice(increment) ==
    /\ InUserMode
    /\ Niced(prio[current], increment) <= MaxPrio
    /\ prio' = [prio EXCEPT ![current] = Niced(@, increment)]
    /\ UNCHANGED <<run_list, ticks, current, isneed_schdule, saved, panicked>>

set_thread_priority(t, level) ==
    /\ InUserMode
    /\ prio[t] + level \in MinPrio..MaxPrio
    /\ prio' = [prio EXCEPT ![t] = @ + level]
    /\ UNCHANGED <<run_list, ticks, current, isneed_schdule, saved, panicked>>

\* The current thread takes the scheduling lock; thread_new inside clone nests two.
MaxNesting == 2

\* A bug: the old value is saved after it has been overwritten.
LockSavesLate ==
    /\ current # Idle
    /\ Len(saved[current]) < MaxNesting
    /\ isneed_schdule' = FALSE
    /\ saved' = [saved EXCEPT ![current] = Append(@, isneed_schdule')]
    /\ UNCHANGED <<run_list, ticks, prio, current, panicked>>

lock_schedule ==
    /\ current # Idle
    /\ Len(saved[current]) < MaxNesting
    /\ saved' = [saved EXCEPT ![current] = Append(@, isneed_schdule)]
    /\ isneed_schdule' = FALSE
    /\ UNCHANGED <<run_list, ticks, prio, current, panicked>>

\* The end of the innermost section: what its lock_schedule saved is restored.
set_schedule ==
    /\ current # Idle /\ saved[current] # <<>>
    /\ isneed_schdule' = saved[current][Len(saved[current])]
    /\ saved' = [saved EXCEPT ![current] = SubSeq(@, 1, Len(@) - 1)]
    /\ UNCHANGED <<run_list, ticks, prio, current, panicked>>

Next == /\ ~panicked
        /\ \/ Clock \/ ClockInSystemCall
           \/ \E t \in Threads : thread_ready(t)
           \/ \E i \in 1..Len(run_list) : thread_sleep_on(i)
           \/ thread_yield
           \/ \E increment \in Increments : nice(increment)
           \/ \E t \in Threads, level \in Levels : set_thread_priority(t, level)
           \/ lock_schedule \/ set_schedule

\* The clock interrupts for ever, and not always inside a system call; the
\* sections between lock_schedule and set_schedule end.
Fairness == /\ SF_vars(isneed_schdule /\ Clock)
            /\ WF_vars(set_schedule)
            /\ SF_vars(set_schedule /\ Len(saved[current]) = 1)

Spec == Init /\ [][Next]_vars
FairSpec == Spec /\ Fairness

-----------------------------------------------------------------------------
(* Properties.                                                             *)

\* Every variable has its type; a thread is on the run list once.
TypeOK ==
    /\ run_list \in Seq(Threads)
    /\ \A i, j \in 1..Len(run_list) : run_list[i] = run_list[j] => i = j
    /\ ticks \in [Threads -> 0..(TimeMod - 1)]
    /\ prio \in [Threads -> MinPrio..MaxPrio]
    /\ current \in Threads \cup {Idle}
    /\ isneed_schdule \in BOOLEAN
    /\ saved \in [Threads -> Seq(BOOLEAN)]
    /\ panicked \in BOOLEAN

\* The panic in the loop of schedule ("TAILQ_FOREACH schedule error") is never
\* reached: a recharge leaves ticks for someone, before the visits run out.
VisitsSuffice == ~panicked

\* Whatever callers pass to nice and set_thread_priority, the loop of schedule
\* panics for two reasons only: every ready thread has priority 0, so that no
\* recharge helps, or two rounds over the run list are more visits than it allows.
PanicHasCause ==
    panicked => \/ run_list # <<>> /\ \A t \in Ready : prio[t] = 0
                \/ 2 * Len(run_list) > MaxVisits + 1

\* However a thread sleeps, wakes and is recharged, it saves up no time: a step
\* that gives it ticks leaves it with one time slice, its priority as time_t holds
\* it, or with the 4 ticks of thread_ready and thread_unready, never with more.
TicksNotSaved ==
    [][\A t \in Threads :
         ticks'[t] > ticks[t] => ticks'[t] <= MAX(4, prio[t] % TimeMod)]_vars

\* When no thread is between lock_schedule and set_schedule, preemption is on.
LockGivenBack == (\A t \in Threads : saved[t] = <<>>) => isneed_schdule

\* No two threads are between lock_schedule and set_schedule at once.
SectionsApart == \A t, u \in Threads : saved[t] # <<>> /\ saved[u] # <<>> => t = u

\* As long as the sections of two threads never overlap, preemption is on again
\* whenever no thread is inside, although a thread may sleep in a section, others
\* run meanwhile, and sections of one thread nest.
LockNests == []SectionsApart => []LockGivenBack

\* A thread that is ready gets the CPU, whatever the others compute.
NoStarvation == \A t \in Threads : t \in Ready ~> current = t
=============================================================================
