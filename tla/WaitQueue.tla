----------------------------- MODULE WaitQueue -----------------------------
(***************************************************************************)
(* What thread_sleep_on and thread_wakeup promise their callers: each wait *)
(* queue is first in, first out; a wake-up ends the sleep of exactly the   *)
(* thread that has slept longest on that queue; and a sleep returns only   *)
(* after a wake-up has ended it.                                           *)
(***************************************************************************)
EXTENDS Sequences, Naturals

CONSTANTS Threads, Queues

VARIABLES sleepers,  \* sleepers[q]: the threads asleep on q, in order of arrival
          phase      \* phase[t]: "awake", "asleep", or "woken" and not yet back

vars == <<sleepers, phase>>

Init == /\ sleepers = [q \in Queues |-> <<>>]
        /\ phase = [t \in Threads |-> "awake"]

Sleep(t, q) == /\ phase[t] = "awake"
               /\ sleepers' = [sleepers EXCEPT ![q] = Append(@, t)]
               /\ phase' = [phase EXCEPT ![t] = "asleep"]

Wakeup(q) == /\ sleepers[q] # <<>>
             /\ sleepers' = [sleepers EXCEPT ![q] = Tail(@)]
             /\ phase' = [phase EXCEPT ![Head(sleepers[q])] = "woken"]

Return(t) == /\ phase[t] = "woken"
             /\ phase' = [phase EXCEPT ![t] = "awake"]
             /\ UNCHANGED sleepers

Next == \/ \E t \in Threads, q \in Queues : Sleep(t, q)
        \/ \E q \in Queues : Wakeup(q)
        \/ \E t \in Threads : Return(t)

Spec == Init /\ [][Next]_vars
=============================================================================
