---------------------------- MODULE TailqLemmas ----------------------------
(***************************************************************************)
(* What the operations on tail queues preserve, for every set of heads and *)
(* of elements, and what they do to the sequences the queues stand for.    *)
(***************************************************************************)
EXTENDS Tailq, TLAPS

\* *loc = v keeps the memory well typed, loc a null pointer or not.
LEMMA StoreType ==
    ASSUME NEW Heads, NEW Elems, NEW m \in TailqMem(Heads, Elems),
           NEW loc \in Heads \cup Elems \cup {NULL}, NEW v \in Elems \cup {NULL},
           NULL \notin Heads \cup Elems
    PROVE  Store(m, loc, v) \in TailqMem(Heads, Elems)
  BY DEF Store, TailqMem

\* TAILQ_ENTRY_INIT keeps the memory well typed.
LEMMA EntryInitType ==
    ASSUME NEW Heads, NEW Elems, NEW m \in TailqMem(Heads, Elems), NEW e \in Elems
    PROVE  TAILQ_ENTRY_INIT(m, e) \in TailqMem(Heads, Elems)
  BY DEF TAILQ_ENTRY_INIT, TailqMem

\* TAILQ_INSERT_TAIL keeps the memory well typed, on a queue in any condition.
LEMMA InsertType ==
    ASSUME NEW Heads, NEW Elems, NEW m \in TailqMem(Heads, Elems),
           NEW h \in Heads, NEW e \in Elems, NULL \notin Heads \cup Elems
    PROVE  TAILQ_INSERT_TAIL(m, h, e) \in TailqMem(Heads, Elems)
<1> DEFINE linked == [m EXCEPT !.ptr[e] = NULL, !.back[e] = m.back[h]]
           stored == Store(linked, m.back[h], e)
<1>1. linked \in TailqMem(Heads, Elems) /\ m.back[h] \in Heads \cup Elems \cup {NULL}
  BY DEF TailqMem
<1> HIDE DEF linked
<1>2. stored \in TailqMem(Heads, Elems)
  BY <1>1, StoreType
<1> HIDE DEF stored
<1>3. [stored EXCEPT !.back[h] = e] \in TailqMem(Heads, Elems)
  BY <1>2 DEF TailqMem
<1> QED
  BY <1>3 DEF TAILQ_INSERT_TAIL, linked, stored

\* TAILQ_REMOVE keeps the memory well typed, whether or not e is on the queue.
LEMMA RemoveType ==
    ASSUME NEW Heads, NEW Elems, NEW m \in TailqMem(Heads, Elems),
           NEW h \in Heads, NEW e \in Elems, NULL \notin Heads \cup Elems
    PROVE  TAILQ_REMOVE(m, h, e) \in TailqMem(Heads, Elems)
<1> DEFINE fixed == IF m.ptr[e] # NULL
                    THEN [m EXCEPT !.back[m.ptr[e]] = m.back[e]]
                    ELSE [m EXCEPT !.back[h] = m.back[e]]
<1>1. fixed \in TailqMem(Heads, Elems)
  BY DEF TailqMem
<1>2. /\ fixed.back[e] \in Heads \cup Elems \cup {NULL}
      /\ fixed.ptr[e] \in Elems \cup {NULL}
  BY <1>1 DEF TailqMem
<1> HIDE DEF fixed
<1>3. Store(fixed, fixed.back[e], fixed.ptr[e]) \in TailqMem(Heads, Elems)
  BY <1>1, <1>2, StoreType
<1> QED
  BY <1>3 DEF TAILQ_REMOVE, fixed

\* What TAILQ_INSERT_TAIL stores, on a queue whose tqh_last is not null.
LEMMA InsertEffect ==
    ASSUME NEW Heads, NEW Elems, NEW m \in TailqMem(Heads, Elems),
           NEW h \in Heads, NEW e \in Elems, Heads \cap Elems = {}, m.back[h] # NULL
    PROVE  LET r == TAILQ_INSERT_TAIL(m, h, e) IN
           \A l \in Heads \cup Elems :
              /\ r.ptr[l]  = IF l = m.back[h] THEN e ELSE IF l = e THEN NULL ELSE m.ptr[l]
              /\ r.back[l] = IF l = h THEN e ELSE IF l = e THEN m.back[h] ELSE m.back[l]
<1> DEFINE linked == [m EXCEPT !.ptr[e] = NULL, !.back[e] = m.back[h]]
           stored == [linked EXCEPT !.ptr[m.back[h]] = e]
           r == [stored EXCEPT !.back[h] = e]
<1>1. TAILQ_INSERT_TAIL(m, h, e) = r
  BY DEF TAILQ_INSERT_TAIL, Store
<1>2. \A l \in Heads \cup Elems :
         /\ linked.ptr[l]  = IF l = e THEN NULL ELSE m.ptr[l]
         /\ linked.back[l] = IF l = e THEN m.back[h] ELSE m.back[l]
  BY DEF TailqMem
<1>3. linked \in TailqMem(Heads, Elems) /\ m.back[h] \in Heads \cup Elems
  BY DEF TailqMem
<1> HIDE DEF linked
<1>4. \A l \in Heads \cup Elems :
         /\ stored.ptr[l]  = IF l = m.back[h] THEN e ELSE linked.ptr[l]
         /\ stored.back[l] = linked.back[l]
  BY <1>3 DEF TailqMem
<1>5. stored \in TailqMem(Heads, Elems)
  BY <1>3 DEF TailqMem
<1> HIDE DEF stored
<1>6. \A l \in Heads \cup Elems :
         /\ r.ptr[l]  = stored.ptr[l]
         /\ r.back[l] = IF l = h THEN e ELSE stored.back[l]
  BY <1>5 DEF TailqMem
<1> HIDE DEF r
<1> QED
  BY <1>1, <1>2, <1>4, <1>6

\* What TAILQ_REMOVE followed by TAILQ_ENTRY_INIT stores, for an element whose
\* tqe_prev is not null and which does not point at itself.
LEMMA RemoveEffect ==
    ASSUME NEW Heads, NEW Elems, NEW m \in TailqMem(Heads, Elems),
           NEW h \in Heads, NEW e \in Elems, Heads \cap Elems = {}, NULL \notin Heads \cup Elems,
           m.back[e] # NULL, m.back[e] # e, m.ptr[e] # e
    PROVE  LET r == TAILQ_ENTRY_INIT(TAILQ_REMOVE(m, h, e), e)
               after == IF m.ptr[e] = NULL THEN h ELSE m.ptr[e]
           IN  \A l \in Heads \cup Elems :
                  /\ r.ptr[l]  = IF l = e THEN NULL ELSE IF l = m.back[e] THEN m.ptr[e] ELSE m.ptr[l]
                  /\ r.back[l] = IF l = e THEN NULL ELSE IF l = after THEN m.back[e] ELSE m.back[l]
<1> DEFINE after == IF m.ptr[e] = NULL THEN h ELSE m.ptr[e]
           fixed == [m EXCEPT !.back[after] = m.back[e]]
           stored == [fixed EXCEPT !.ptr[m.back[e]] = m.ptr[e]]
           r == TAILQ_ENTRY_INIT(stored, e)
<1>1. after \in Heads \cup Elems /\ after # e
  BY DEF TailqMem
<1>2. /\ fixed \in TailqMem(Heads, Elems)
      /\ fixed.ptr = m.ptr
      /\ \A l \in Heads \cup Elems : fixed.back[l] = IF l = after THEN m.back[e] ELSE m.back[l]
  BY <1>1 DEF TailqMem
<1>3. fixed = IF m.ptr[e] # NULL THEN [m EXCEPT !.back[m.ptr[e]] = m.back[e]]
                                 ELSE [m EXCEPT !.back[h] = m.back[e]]
  OBVIOUS
<1> HIDE DEF fixed
<1>4. TAILQ_REMOVE(m, h, e) = stored
  BY <1>1, <1>2, <1>3 DEF TAILQ_REMOVE, Store
<1>5. m.back[e] \in Heads \cup Elems /\ m.ptr[e] \in Elems \cup {NULL}
  BY DEF TailqMem
<1>6. /\ stored \in TailqMem(Heads, Elems)
      /\ stored.back = fixed.back
      /\ \A l \in Heads \cup Elems : stored.ptr[l] = IF l = m.back[e] THEN m.ptr[e] ELSE m.ptr[l]
  BY <1>2, <1>5 DEF TailqMem
<1> HIDE DEF stored, after
<1>7. \A l \in Heads \cup Elems :
         /\ r.ptr[l]  = IF l = e THEN NULL ELSE stored.ptr[l]
         /\ r.back[l] = IF l = e THEN NULL ELSE stored.back[l]
  BY <1>6 DEF TAILQ_ENTRY_INIT, TailqMem
<1> HIDE DEF r
<1>8. \A l \in Heads \cup Elems :
         /\ r.ptr[l]  = IF l = e THEN NULL ELSE IF l = m.back[e] THEN m.ptr[e] ELSE m.ptr[l]
         /\ r.back[l] = IF l = e THEN NULL ELSE IF l = after THEN m.back[e] ELSE m.back[l]
  BY <1>2, <1>6, <1>7
<1> QED
  BY <1>4, <1>8 DEF r, after
=============================================================================
