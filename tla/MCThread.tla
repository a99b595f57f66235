------------------------------ MODULE MCThread ------------------------------
(***************************************************************************)
(* Properties of module Thread that walk the lists, and the instances TLC  *)
(* checks.                                                                 *)
(***************************************************************************)
EXTENDS Thread, TLC

Symmetry == Permutations(Threads) \cup Permutations(Queues)

\* Threads are symmetric within the kernel threads and within the others.
SymmetryOfKinds == Permutations(KThreads) \cup Permutations(Threads \ KThreads)

\* The elements a walk of the queue at h meets, in order.
Elements(m, h) ==
    LET walk == TAILQ_FOREACH(m, h, Cardinality(Threads))
        met  == {i \in 0..Cardinality(Threads) : walk[i] # NULL}
    IN  [i \in 1..Cardinality(met) |-> walk[i - 1]]

Linked(t, q) == t \in Visited(wait_lists, q, Cardinality(Threads))

\* t is in thread_sleep_on_timeout on q, and nothing has ended its sleep.
AsleepOn(t, q) == local[t].queue = q /\ timeout_signaled[t] = -1

\* Some thread is between thread_wakeup's TAILQ_REMOVE of t and the end of thread_ready.
BeingReadied(t) ==
    \E w \in Threads : pc[w] \in {"ready_check", "ready_insert"} /\ local[w].pthread = t

\* Without timeouts, signals and kernel threads, every wait queue is a well
\* formed list of exactly the threads that sleep on it, whatever wake-ups come
\* from other threads and from interrupt handlers between the steps of a sleep.
WaitQueuesExact ==
    \A q \in Queues :
        /\ Represents(wait_lists, q, Elements(wait_lists, q))
        /\ \A t \in Threads : Linked(t, q) <=> AsleepOn(t, q)

\* The run list is well formed and holds exactly the threads in TS_READY.
\* thread_ready and thread_unready change state and list together; schedule relies on it.
RunListExact ==
    /\ Represents(run_lists, thread_run_list, Elements(run_lists, thread_run_list))
    /\ OnRunList(run_lists) = {t \in Threads : state[t] = TS_READY}

\* No thread is lost: one that waits is on a wait queue, where a wake-up will
\* find it, or a thread_wakeup that took it off is on its way to thread_ready.
NobodyLost ==
    \A t \in Threads : state[t] = TS_WAITING =>
        \/ \E q \in Queues : Linked(t, q)
        \/ BeingReadied(t)

\* The sleep and wake-up protocol implements the abstract wait queue.
Abstract == INSTANCE WaitQueue WITH
    sleepers <- [q \in Queues |-> Elements(wait_lists, q)],
    phase    <- [t \in Threads |-> IF local[t].queue = NULL THEN "awake"
                                   ELSE IF timeout_signaled[t] = -1 THEN "asleep"
                                   ELSE "woken"]

\* Sleeps end in order of arrival, each by its own wake-up, and none returns by itself.
ImplementsWaitQueue == Abstract!Spec
=============================================================================
