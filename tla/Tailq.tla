------------------------------- MODULE Tailq -------------------------------
(***************************************************************************)
(* The intrusive tail queue of sys/sys/queue.h, at the level of pointers.  *)
(*                                                                         *)
(* A memory m holds every queue head and every element that share one link *)
(* field.  A location is a head h (the address &h->tqh_first), an element  *)
(* e (the address &e->field.tqe_next) or NULL.                             *)
(*   m.ptr[loc]  is what is stored there: tqh_first or tqe_next;           *)
(*   m.back[loc] is the pointer kept beside it: tqh_last or tqe_prev.      *)
(* The operators are total: what the macros do to a queue that is misused  *)
(* (an element inserted twice, or removed when it is on no queue) is what  *)
(* the C code does to it.                                                  *)
(***************************************************************************)
EXTENDS Integers, Sequences, FiniteSets

CONSTANT NULL

\* The memories over a set of heads and a set of elements.
TailqMem(Heads, Elems) ==
    [ptr  : [Heads \cup Elems -> Elems \cup {NULL}],
     back : [Heads \cup Elems -> Heads \cup Elems \cup {NULL}]]

\* Heads after TAILQ_INIT, elements after TAILQ_ENTRY_INIT.
TAILQ_INIT(Heads, Elems) ==
    [ptr  |-> [l \in Heads \cup Elems |-> NULL],
     back |-> [l \in Heads \cup Elems |-> IF l \in Heads THEN l ELSE NULL]]

\* The store *loc = v.  Page 0 is mapped writable (page_table_init), so that a
\* store through a null pointer goes to address 0 and changes no queue.
Store(m, loc, v) == IF loc = NULL THEN m ELSE [m EXCEPT !.ptr[loc] = v]

TAILQ_FIRST(m, h) == m.ptr[h]

TAILQ_EMPTY(m, h) == m.ptr[h] = NULL

\* A bug to check the properties against: only the forward pointer is looked at.
EntryEmptyByNext(m, e) == m.ptr[e] = NULL

TAILQ_ENTRY_EMPTY(m, e) == m.ptr[e] = NULL /\ m.back[e] = NULL

TAILQ_ENTRY_INIT(m, e) == [m EXCEPT !.ptr[e] = NULL, !.back[e] = NULL]

\* A bug to check the properties against: the new last element points at the head.
InsertCircular(m, h, e) ==
    LET linked == [m EXCEPT !.ptr[e] = h, !.back[e] = m.back[h]]
    IN  [Store(linked, m.back[h], e) EXCEPT !.back[h] = e]

TAILQ_INSERT_TAIL(m, h, e) ==
    LET linked == [m EXCEPT !.ptr[e] = NULL, !.back[e] = m.back[h]]
    IN  [Store(linked, m.back[h], e) EXCEPT !.back[h] = e]

\* A bug to check the properties against: the queue's tqh_last is left behind
\* when its last element goes.
RemoveForgetsLast(m, h, e) ==
    LET fixed == IF m.ptr[e] # NULL
                 THEN [m EXCEPT !.back[m.ptr[e]] = m.back[e]]
                 ELSE m
    IN  Store(fixed, fixed.back[e], fixed.ptr[e])

TAILQ_REMOVE(m, h, e) ==
    LET fixed == IF m.ptr[e] # NULL
                 THEN [m EXCEPT !.back[m.ptr[e]] = m.back[e]]
                 ELSE [m EXCEPT !.back[h] = m.back[e]]
    IN  Store(fixed, fixed.back[e], fixed.ptr[e])

\* The variable of a TAILQ_FOREACH: its value in each of the first n + 1 rounds,
\* NULL from the round that ends the loop on.
TAILQ_FOREACH(m, h, n) ==
    LET var[i \in 0..n] == IF i = 0 THEN m.ptr[h]
                           ELSE IF var[i - 1] = NULL THEN NULL
                           ELSE m.ptr[var[i - 1]]
    IN  var

\* The elements a TAILQ_FOREACH visits, for a queue of at most n elements.
Visited(m, h, n) == {TAILQ_FOREACH(m, h, n)[i] : i \in 0..n} \ {NULL}

-----------------------------------------------------------------------------
\* The queue at h is well formed and holds exactly the elements of s, in order.
Represents(m, h, s) ==
    /\ m.ptr[h]  = IF s = <<>> THEN NULL ELSE s[1]
    /\ m.back[h] = IF s = <<>> THEN h ELSE s[Len(s)]
    /\ \A i \in 1..Len(s) :
          /\ m.ptr[s[i]]  = IF i = Len(s) THEN NULL ELSE s[i + 1]
          /\ m.back[s[i]] = IF i = 1 THEN h ELSE s[i - 1]
          /\ \A j \in 1..Len(s) : s[i] = s[j] => i = j
=============================================================================
