------------------------------ MODULE TailqUse ------------------------------
(***************************************************************************)
(* Tail queues used as queue.h means them to be used: an element is        *)
(* inserted when it is on no queue, and removed from the queue it is on.   *)
(* The variable q holds, for each head, the sequence its queue stands for. *)
(***************************************************************************)
EXTENDS Tailq

CONSTANTS Heads, Elems

ASSUME TailqAssumption == /\ NULL \notin Heads \cup Elems
                          /\ Heads \cap Elems = {}

VARIABLES m,  \* the pointers
          q   \* the sequence of elements that each queue stands for

vars == <<m, q>>

Holds(h, e) == \E i \in 1..Len(q[h]) : q[h][i] = e

Init == /\ m = TAILQ_INIT(Heads, Elems)
        /\ q = [h \in Heads |-> <<>>]

Insert(h, e) ==
    /\ \A k \in Heads : ~Holds(k, e)
    /\ m' = TAILQ_INSERT_TAIL(m, h, e)
    /\ q' = [q EXCEPT ![h] = Append(@, e)]

\* s without its i-th element.
Without(s, i) == [j \in 1..(Len(s) - 1) |-> IF j < i THEN s[j] ELSE s[j + 1]]

\* Removed anywhere (thread_unready), and marked unlinked as thread_wakeup does.
Remove(h, i) ==
    /\ m' = TAILQ_ENTRY_INIT(TAILQ_REMOVE(m, h, q[h][i]), q[h][i])
    /\ q' = [q EXCEPT ![h] = Without(@, i)]

Next == \E h \in Heads : \/ \E e \in Elems : Insert(h, e)
                         \/ \E i \in 1..Len(q[h]) : Remove(h, i)

Spec == Init /\ [][Next]_vars

TypeOK == /\ m \in TailqMem(Heads, Elems)
          /\ q \in [Heads -> Seq(Elems)]

\* The pointers of every queue are those of the sequence of elements put on it
\* and not yet taken off: TAILQ_INSERT_TAIL and TAILQ_REMOVE, interleaved in any
\* order over any number of queues, lose no element, repeat none and keep the
\* order of arrival.
QueuesIntact == \A h \in Heads : Represents(m, h, q[h])

\* TAILQ_ENTRY_EMPTY tells exactly the elements that are on no queue: the test
\* thread_ready and thread_unready rely on.
EmptyMeansUnlinked ==
    \A e \in Elems : TAILQ_ENTRY_EMPTY(m, e) <=> \A h \in Heads : ~Holds(h, e)
=============================================================================
