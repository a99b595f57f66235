# A TLA+ model of the NetbasOS (Jicama) kernel

The kernel under `src/` is a small Unix-like kernel for one i386 CPU. This directory models
its core, the part every other part sleeps, wakes and runs on: threads, the run list, wait queues,
sleep time-outs, the task switch, the sharing of CPU time and the scheduling lock. The models
follow `src/core` and `src/cpu/i386`.

1. [How the kernel executes](#1-how-the-kernel-executes)
2. [Inventory](#2-inventory)
3. [Modules](#3-modules)
4. [Runs](#4-runs)
5. [Proofs](#5-proofs)
6. [What is not modelled, and the plan](#6-what-is-not-modelled-and-the-plan)

## 1. How the kernel executes

Every model rests on these facts.

- There is one CPU. `save_eflags` disables interrupts and `restore_eflags` restores the earlier
  state, so code between the two is one step. Outside of such sections interrupts are enabled, also
  inside system calls.
- An interrupt handler runs with interrupts disabled and is one step. It ends in `soft_irq`
  (`cpu/i386/isr.s`, `cpu/i386/kernel/task.c`), which may call `schedule`, but only when the
  interrupted code ran in the user segment or in `KTHREAD_CS`. So a user thread inside a system
  call is interrupted but never preempted; a kernel thread is preempted anywhere.
- `schedule` picks under `save_eflags`, restores the flag, and only then calls
  `arch_thread_resume`, which sets `current_thread()` and jumps to the other thread's TSS.
- Sleepers are linked into a wait queue through `wait_lists` and taken off the run list, which is
  linked through `run_lists`. A sleep with a time-out has an `alarm_timer` from the heap.

Two deviations are left out: the keyboard handler enables interrupts before it returns
(`cpu/i386/dev/keyboard.c`), and faults inside the kernel.

## 2. Inventory

| Part | State | Operations that change it | Interacts with |
|---|---|---|---|
| tail queues (`sys/sys/queue.h`) | `tqh_first`, `tqh_last`, `tqe_next`, `tqe_prev` | init, insert at the tail, remove, mark unlinked | run list, wait queues, messages |
| threads (`core/kernel/thread.c`) | state, run list, sleep timer | `thread_ready`, `thread_unready`, `thread_wait`, `schedule`, `thread_new`, `thread_free` | all |
| wait queues (`core/kernel/system.c`) | the queue, `timeout_signaled` | `thread_sleep_on[_timeout]`, `thread_wakeup[_all]` | threads, timers, interrupts |
| task switch (`cpu/i386/kernel/task.c`, `isr.s`) | current thread, TSS | `arch_thread_resume`, `soft_irq` | threads, interrupts |
| scheduling policy (`thread.c`, `linux_syscall.c`, `timer.c`) | `ticks`, `prio` | `schedule`, clock, `nice`, `set_thread_priority` | threads |
| scheduling lock (`core/kernel/schedule.c`) | `isneed_schdule` | `lock_schedule`, `set_schedule` | `thread_new`, `execve`, iomux |
| timers (`core/driver/char/timer.c`) | five vectors of lists, `timer_ticks` | `install_timer`, `remove_timer`, `run_timer_list`, cascade | sleeps, alarms, network |
| semaphores (`core/kernel/user_thread.c`) | counter, wait queue | lock, try, lock with time-out, unlock, destroy | file system, iomux, network |
| daemon (`core/daemon.c`) | task list, flags | `queue_task`, `daemon_thread` | interrupt handlers |
| message ports (`core/ipc/msgport.c`) | messages, count, limit, wait queue | create, destroy, send, pend | threads |
| select and poll (`core/ipc/iomux.c`) | event masks, list of objects, semaphore | queue, detach, set and clear events, select, poll | semaphores, sockets, terminals |
| life cycle (`wait.c`, `process.c`, `fork.c`, `exec.c`) | thread and process tables, `waitpid` links | create, exit, wait, free, address space ids | threads, signals |
| signals, alarms (`signal.c`, `alarm.c`) | pending bits, mask, handlers | send, deliver, return; alarm set and fired | threads, timers |
| fifo, terminal input (`fifo.c`, `terminal.c`, `clist.c`) | ring buffers, positions | read, write, key pressed | wait queues, interrupts |
| page allocator, heap (`page.c`, `vm.c`, `alloc.c`) | hole list, reference counts, bins | get, free, share | all |
| shared memory, packets, interrupt lines (`shm.c`, `pkt.c`, `irq.c`) | tables and lists | create, clone, release; request, free | processes, drivers |

The behaviours that are hard to get right here: a handler between any two instructions of a system
call; a kernel thread preempted with a decision in its registers; a time-out racing a wake-up of
the same sleeper; a wake-up between "the queue is empty" and the sleep; objects freed with sleepers
on them; one global flag saved and restored by threads that may sleep in between; loops over
intrusive lists that a second insert turns into cycles; unsigned tick arithmetic.

What correctness means: lists hold exactly what their users believe; a sleep ends once, for a reason, and
reports it; nobody who waits is forgotten; the CPU is given to a thread that may run, and to each of
them in the end; what is switched off is switched on again; counters stay within what they count.
`PROJECT.json` lists the hazards at their lines, with the properties that watch them.

## 3. Modules

**Tailq** models the macros of `sys/sys/queue.h` on pointers: a memory maps each head to its
`tqh_first` and `tqh_last` and each element to its `tqe_next` and `tqe_prev`. A `tqe_prev` names
the head or the element whose pointer it points at. Stores through a null `tqe_prev` go to page 0,
which is mapped and belongs to no queue, so they change nothing that is modelled. `TAILQ_FOREACH` is a walk of
bounded length, so that a cyclic list is visible as a walk that does not end.

**TailqUse** uses the macros the way the header means it, with a ghost variable `q`: the sequence
each queue stands for.

**Thread** is one action per operation or per uninterruptible part of one. Its variables are the fields of the same
name in `thread_t` and `thread_wait_t`, plus `armed` (which thread an `alarm_timer` is set for), `cpu` (whose
stack the CPU is on), `pc` and `local` (where each thread is in the kernel and its local variables).

| Action | Code |
|---|---|
| `thread_sleep_on_timeout`, `SleepReturn`, `SleepUnlink` | `thread_sleep_on_timeout` before `schedule`, the test after it, the unlinking |
| `thread_wakeup`, `ReadyCheck`, `ReadyInsert` | taking the first sleeper; `thread_ready`'s test, with interrupts enabled; its insert |
| `thread_wait`, `WaitReturn`, `sigaddset` | suspension of a thread by itself or another, and signals, which make any thread ready |
| `thread_yield`, `SchedulePick`, `SetCurrent`, `Jump` | `schedule` up to `restore_eflags`, `arch_thread_resume`, the jump to the TSS |
| `Start` | a creator's `thread_ready` of a new thread: one step in `core_start`, when nothing else refers to the thread; by a thread it goes on with `ReadyCheck` and `ReadyInsert` |
| `Interrupt` | a handler (`IrqTick`, `IrqWakeup`, `IrqSendsig`, `thread_sleep_timer`), then `soft_irq`, in one step |

Which thread `schedule` picks is left open here (any ready one), which covers every value of the ticks; so is when a
timer fires. A failing `kmalloc` for the timer happens when all of `AlarmTimers` are in use. `soft_irq` may
always leave the running thread on the CPU: the scheduling lock, which makes it do so, belongs to
module Schedule. `Preemptible` takes a user thread at `run` for one in user mode, which allows more
switches than the code makes, and `soft_irq` allows that there is none.

**WaitQueue** is the abstract wait queue: sleepers in order of arrival, a wake-up ends the longest
sleep, a sleep returns only after it has been ended. **MCThread** states the properties that walk
the lists and the refinement mapping: `sleepers` is what a walk of the queue meets, and a thread's `phase`
is read off its local variables and `timeout_signaled`.

**Schedule** models the policy, with the run list as a sequence and a switch as one step: `Clock`
charges the running thread and reschedules, at every interrupt that the lock allows it, `schedule` recharges all
ready threads with `ticks/2 + prio` when none has ticks left, and picks the first with the most; sleeping
and waking raise ticks to at least 4; `nice` and `set_thread_priority` change priorities, also to 0
and below, and ticks are unsigned (`TimeMod`). A new thread has its priority as ticks.
`lock_schedule` and `set_schedule` save and restore `isneed_schdule`; `saved` holds, for each thread,
the saved values on its stack. `thread_sleep_on(i)` of a thread in `LockSleepers` may happen inside
the lock, as in `execve`, which reads files there. The early return of `thread_new` without
`set_schedule` (`thread.c:644`) is no action: it needs a non-zero result of `arch_thread_create`,
which returns 0 always, also for a failed `thread_tss_init` (`cpu/i386/kernel/thread.c:182` returns
`NULL`). **MCSchedule** gives TLC the negative constants, which a configuration file cannot hold.

Thread and Schedule share the thread, and split it: Thread assumes nothing of the policy, Schedule takes
from Thread that the run list holds exactly the ready threads (`RunListExact`).

## 4. Runs

| Run | Instance | Distinct states | Shows |
|---|---|---|---|
| `tailq` | 2 queues, 4 elements | 261 | the macros keep every queue equal to its sequence, and `TAILQ_ENTRY_EMPTY` tells the unlinked elements |
| `thread_quiet` | 3 user threads, 2 queues, no time-outs | 5,644 | wait queues and run list are exact, nobody is lost, and the protocol implements WaitQueue |
| `thread_timeouts` | 2 user threads, 1 queue, 2 timers | 34,577 | sleeps end only for a reason, no old timer ends an endless sleep, the switch is sound |
| `thread_signals` | 2 user threads that suspend, resume and signal | 20,366 | the switch stays sound although wake-ups bypass the queue |
| `thread_kernel` | a user thread, a kernel thread, 1 timer | 94,743 | threads and armed timers stay paired, no null pointer is followed, even when the lists have been damaged |
| `schedule_safety` | 2 threads, both may sleep, inside the lock too; priorities from -1 to 4, 0 among them | 180,364 | `schedule` panics only with all priorities 0 or too many threads, no thread saves up ticks, sections that do not overlap give preemption back |
| `schedule_fair` | 3 threads that compute, yield, change priority, lock | 43,226 | each ready thread gets the CPU again and again |

Five runs show where the code and what it says of itself disagree.

| Run | Property that fails | What happens |
|---|---|---|
| `thread_panic` | `ScheduleNeverPanics` | a system call's `thread_ready` finds a thread off the run list; a timer interrupt makes it ready; the call inserts it again; the list is a cycle and `schedule` panics |
| `thread_stale_pick` | `SwitchesToReady` | a kernel thread is preempted between its pick and the switch; the picked thread runs and sleeps; the kernel thread then switches to it |
| `thread_timed_out` | `TimeoutIsReported` | the timer marks the sleep with 1, `thread_sleep_on_timeout` returns -1 only for -1: a time-out looks like a wake-up, which `lock_semaphore_timeout` takes for the lock |
| `schedule_nice` | `VisitsSuffice` | `nice` with exactly the own priority stores priority 0, whose recharge is 0, and `schedule` loops until it panics |
| `schedule_lock` | `LockGivenBack` | two threads sleep in their sections of the scheduling lock, which overlap; the second saved FALSE and restores it after the first has restored TRUE, and preemption is off with nobody inside |

**Why the passing runs are split.** The strong properties of the lists do not survive the race of
`thread_panic`. It needs a timer or a signal beside a wake-up; so the exact lists and the
refinement are claimed for sleeps without time-outs, where wake-ups by threads and by handlers still
interleave with every step. With time-outs, what remains true is what `thread_timeouts` states.
With kernel threads, `thread_stale_pick` shows that even the switch is unsound, and what remains is
`TypeOK` and `TimersOwned`. The runs that can reach the kernel's panic do not check for deadlock, because
a kernel in panic stops; `thread_quiet`, `tailq` and `schedule_fair` check for it.

`schedule_lock` shows that `LockGivenBack` is false of the code, because `execve` sleeps inside its
section. What is true is `LockNests`: preemption is given back in every behaviour in which no two
threads are inside at once, with threads that sleep inside and sections that nest. In the same way `VisitsSuffice`
is false (`schedule_nice`) and `PanicHasCause` says what does hold, for all calls and priorities.

**Bounds.** Three threads are the sleeper, the waker and a thread that `schedule` can run
instead; with two queues a sleeper may go from one to the other. The removal of a first, middle and
last element needs three elements on a queue, `tailq` has four. One timer and two threads let a
time-out race a wake-up; a second timer lets two sleeps have time-outs, one timer makes `kmalloc`
fail for the other. Two threads are enough for two sections of the lock to overlap, and for a ready
thread of priority 0 beside one that has ticks. `MaxPrio` is 4, the value of the boost, `MinPrio` -1,
one step into the wrap: `TimeMod` is 6 there (8 elsewhere), so that a recharge with -1 gives 5 ticks, more than any
priority. `MaxVisits` is just enough for two rounds over all threads (3 for two threads, 5 for three), where
the code has 100 and the panic needs 51 threads; so the loop runs at its limit, and what lies
beyond it is left to the proof. `MaxNesting` 2 is the deepest nesting of the lock in the code.

**Fairness** (`schedule_fair`). `SF(isneed_schdule /\ Clock)`: the clock interrupts for ever, and is not
for ever in step with sections that have preemption switched off. `WF(set_schedule)` and `SF` of the outermost
`set_schedule`: the sections between `lock_schedule` and `set_schedule` are finite code, and a
thread that is inside again and again comes out in between. No fairness is assumed of sleeping,
waking, yielding or changing priority. Nobody sleeps in this run: a sleep and a wake-up both
raise ticks to 4, so two threads that wake each other for ever never use their ticks up and a
third that has less never runs. `NoStarvation` is therefore claimed for threads that compute.

**Sensitivity.** Every property of a passing run has a mutant in `PROJECT.json`, a definition of the
model changed the way a slip in the code would change it, that makes it fail.

## 5. Proofs

TLAPS proves the following for every value of the constants that satisfies the `ASSUME` of the
module (`TailqAssumption`, `ThreadAssumption`, `ScheduleAssumption`: the sets are disjoint, null is in none of
them, and the numbers are in the ranges the code has).

| Theorem | Extra assumptions | Statement |
|---|---|---|
| `TailqUseProofs!TailqCorrect` | | the macros implement sequences, over any number of queues and elements |
| `ThreadProofs!TypeCorrect` | | `TypeOK`, with: no null thread or queue is followed |
| `ThreadProofs!TimersOwnedInvariant` | | threads and armed timers are paired one to one |
| `ThreadProofs!SwitchIsSound` | no kernel threads | `CurrentIsRunning` and `SwitchesToReady` |
| `ThreadProofs!NoSpuriousReturnInvariant` | no kernel threads, no signals | a sleep ends only by a wake-up or its timer |
| `ScheduleProofs!ScheduleFindsThread` | | `PanicHasCause` |
| `ScheduleProofs!NoTicksSaved` | | `TicksNotSaved` |
| `ScheduleProofs!LockIsGivenBack` | | `LockNests` |

**TailqCorrect.** The inductive invariant adds to `QueuesIntact` that no element is on two queues:
`TAILQ_INSERT_TAIL` and `TAILQ_REMOVE` write through `tqe_prev` into a neighbour, and only
disjointness keeps the other queues untouched. `TailqLemmas` shows for one memory what each macro
does to the pointers of one sequence, by cases on where the element is: first, last, or in between.

**TypeCorrect, TimersOwnedInvariant.** `TypeOK` is inductive by itself once it says where a
local variable must be set (`LocalsSet`): a thread leaves the CPU inside `schedule` and uses its
variables after it. `TimersOwned` then follows from what `thread_unready` and the timer's handler do
together to `sleep_timer` and `armed`; it needs no order of steps, so it holds for kernel threads too.

**SwitchIsSound.** Not inductive as it stands. `SwitchInv` adds that a thread off the CPU left it
at a point where `schedule` returns (this is what fails with kernel threads), and that between
`SetCurrent` and `Jump` the current thread is the one picked. Then nobody but a handler can act between pick and
switch, and handlers only make threads ready.

**NoSpuriousReturnInvariant.** `MarkInv` adds that a thread that is not waiting has its sleep
marked as ended, and so has a thread on its way through `thread_ready`. It holds in spite of the double
insert, because it never asks where a thread is linked.

**ScheduleFindsThread.** No assumption about callers. `TypeOK` (no thread is on the run list twice, priorities lie
between the bounds) carries the step: `schedule` recharges only when all ready threads have 0 ticks, so the
recharge gives each its priority modulo `TimeMod`; if that is 0 for all, all priorities are 0, because
they are smaller than `TimeMod` on both sides (`OnlyZeroVanishes`). Otherwise the second round picks, or the
visits have run out. That a pick exists (a first thread with the most ticks) rests on
the lemma `LeastNat`, the least element of a set of naturals.

**NoTicksSaved.** From the same lemma (`RechargedIsPrio`): a step stores what the clock left, what the boost
raised to 4, or a recharge from 0. Halving what is left never adds up, because nothing is left when it happens.

**LockIsGivenBack.** `LockInv`: while a thread is in a section preemption is off, and of the values
on its stack the outermost is TRUE and all others FALSE. A step keeps it when no two threads are inside before
and after; where the thread runs does not matter, so it may sleep inside.

**Only model-checked**: `NoStarvation` (liveness under fairness is beyond the prover), the exact lists and the
refinement of `thread_quiet` (`WaitQueuesExact`, `RunListExact`, `NobodyLost`,
`ImplementsWaitQueue`: what a walk of a list meets is a definition by recursion over the list), and `EndlessSleepHasNoTimer`.

## 6. What is not modelled, and the plan

Not modelled at all, because they are formats, third-party code or register access rather than protocols of
this kernel: the network stack (`net/`, a lwIP derivative), file systems and device drivers (`drv/`), program
loaders and the run-time linker, decompression, library routines, debugger stubs, device
tables, and the partial ports to other processors. `PROJECT.json` gives a reason for each.

Modelled in part: timers (a sleep timer fires at any time; the wheel is missing), signals and alarms
(only the wake-up they cause), terminal input (only the interrupt's wake-up), thread creation (its
`thread_ready`) and exit (none).

Planned modules, in this order:

| Module | Code | Composition and abstract specification | Run and bounds | Properties and theorems |
|---|---|---|---|---|
| Semaphore | `user_thread.c` | steps of Thread's wait queue as one sequence per semaphore; refines a counting semaphore where the code allows | 3 threads, counter up to 2, 1 time-out | units are conserved, never more holders than units, who is released gets a unit; proof of conservation |
| TaskQueue | `daemon.c` | producers in handlers, one daemon | 3 tasks, limit 2 | every queued task runs once, in order; list and size agree (proof); a queued task is run in the end |
| Msgport | `msgport.c` | over wait queues | 2 senders, 2 receivers, limit 2 | count equals queue length (proof), limit, order, no sleeper with a message waiting |
| TimerWheel | `timer.c`, `alarm.c` | refines a set of timers with due times | vectors of 2 or 4 slots, clock modulo 32 | a timer fires exactly when due, once, also over a wrap |
| Lifecycle | `wait.c`, `process.c`, `thread.c` | threads, processes, waitpid | 3 processes, 4 ids | a child's exit is reported once, nothing freed is referenced, ids are unique |
| Iomux | `iomux.c` | over Semaphore | 2 objects, 2 waiters | poll does not sleep on a ready object, closed iomuxes are not referenced |
| Fifo, Keyboard | `fifo.c`, `terminal.c`, `clist.c` | ring buffer refines a bounded queue | size 4, writes and reads of up to 3 | contents and order (refinement, proof of the position arithmetic), no lost key |
| Signals | `signal.c` | over Thread | 2 threads, 2 signals | a pending unblocked signal is delivered once |
| PageAlloc, Heap, Pkt, Shm | `page.c`, `vm.c`, `alloc.c`, `pkt.c`, `shm.c` | refine a set of free units | 6 pages | no unit is given out twice, none is lost |

As modules are added, the runs of Thread with user threads are to be merged where one instance answers both questions.
Proofs planned for what exists: the exact lists of `thread_quiet`, with the ghost sequences of TailqUse in
place of a walk, and from them the refinement of WaitQueue.
