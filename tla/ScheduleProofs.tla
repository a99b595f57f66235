--------------------------- MODULE ScheduleProofs ---------------------------
(***************************************************************************)
(* Proofs about module Schedule, for any number of threads, any priorities *)
(* and any calls: why schedule can panic, that no thread saves up ticks,   *)
(* and when the scheduling lock is given back.                             *)
(***************************************************************************)
EXTENDS Schedule, WellFoundedInduction, TLAPS

\* A nonempty set of natural numbers has a least element.
LEMMA LeastNat ==
    ASSUME NEW S, S \subseteq Nat, S # {}
    PROVE  \E x \in S : \A y \in S : x <= y
<1>1. IsWellFoundedOn(OpToRel(<, Nat), Nat)
  BY NatLessThanWellFounded
<1>2. PICK x \in S : \A y \in S : ~(<<y, x>> \in OpToRel(<, Nat))
  BY <1>1, WFMin
<1>3. \A y \in S : ~(y < x)
  BY <1>2 DEF OpToRel
<1> QED
  BY <1>3

\* The loop of schedule picks a thread of the list: the ticks have a maximum,
\* and the threads that have it a first one.
LEMMA PickType ==
    ASSUME NEW r \in Seq(Threads), r # <<>>, NEW k \in [Threads -> 0..(TimeMod - 1)]
    PROVE  PickOf(r, k) \in Threads
<1> DEFINE I == 1..Len(r)
           K == [i \in I |-> k[r[i]]]
           Gaps == {TimeMod - K[i] : i \in I}
<1>1. /\ Len(r) \in Nat /\ 1 \in I /\ I \subseteq Nat
      /\ \A i \in I : r[i] \in Threads /\ K[i] = k[r[i]] /\ K[i] \in Nat /\ TimeMod - K[i] \in Nat
  BY ScheduleAssumption
<1>2. PICK m \in I : \A j \in I : K[j] <= K[m]
  <2> HIDE DEF I, K
  <2>0. TimeMod - K[1] \in Gaps
    BY <1>1
  <2>1. Gaps \subseteq Nat /\ Gaps # {}
    BY <1>1, <2>0
  <2>2. PICK g \in Gaps : \A h \in Gaps : g <= h
    BY <2>1, LeastNat
  <2>3. PICK m \in I : g = TimeMod - K[m]
    BY <2>2
  <2>4. ASSUME NEW j \in I PROVE K[j] <= K[m]
    <3>1. TimeMod - K[j] \in Gaps
      OBVIOUS
    <3>2. TimeMod - K[m] <= TimeMod - K[j]
      BY <2>2, <2>3, <3>1
    <3>3. K[j] \in Nat /\ K[m] \in Nat /\ TimeMod \in Nat
      BY <1>1, <2>3, ScheduleAssumption
    <3> QED
      BY <3>2, <3>3
  <2> QED
    BY <2>4
<1> DEFINE Most == {i \in I : K[i] = K[m]}
<1>3. PICK f \in Most : \A j \in Most : f <= j
  <2>1. Most \subseteq Nat /\ Most # {}
    BY <1>1, <1>2
  <2> QED
    BY <2>1, LeastNat
<1>4. f \in I /\ (\A j \in I : K[j] <= K[f]) /\ \A j \in 1..(f - 1) : K[j] < K[f]
  <2>1. f \in I /\ K[f] = K[m] /\ f \in Nat
    BY <1>1, <1>3
  <2>2. ASSUME NEW j \in 1..(f - 1) PROVE K[j] < K[f]
    <3>1. j \in I /\ ~(f <= j)
      BY <2>1
    <3>2. K[j] # K[m]
      BY <1>3, <3>1
    <3> HIDE DEF I, K
    <3> QED
      BY <1>1, <1>2, <2>1, <3>1, <3>2
  <2> QED
    BY <1>2, <2>1, <2>2
<1>5. /\ \A j \in 1..Len(r) : k[r[j]] <= k[r[f]]
      /\ \A j \in 1..(f - 1) : k[r[j]] < k[r[f]]
  <2>1. f \in I /\ \A j \in 1..(f - 1) : j \in I
    BY <1>1, <1>4
  <2>2. \A j \in I : K[j] = k[r[j]]
    BY <1>1
  <2> HIDE DEF K
  <2> QED
    BY <1>4, <2>1, <2>2
<1>6. \E i \in 1..Len(r) : /\ \A j \in 1..Len(r) : k[r[j]] <= k[r[i]]
                           /\ \A j \in 1..(i - 1) : k[r[j]] < k[r[i]]
  BY <1>4, <1>5
<1>7. (CHOOSE i \in 1..Len(r) : /\ \A j \in 1..Len(r) : k[r[j]] <= k[r[i]]
                                /\ \A j \in 1..(i - 1) : k[r[j]] < k[r[i]]) \in 1..Len(r)
  BY <1>6
<1> QED
  BY <1>1, <1>7 DEF PickOf

-----------------------------------------------------------------------------
(* Types.                                                                  *)

\* The ticks a recharge leaves fit in time_t.
LEMMA RechargedType ==
    ASSUME NEW r, NEW k \in [Threads -> 0..(TimeMod - 1)],
           prio \in [Threads -> MinPrio..MaxPrio]
    PROVE  Recharged(r, k) \in [Threads -> 0..(TimeMod - 1)]
<1>1. ASSUME NEW t \in Threads
      PROVE  (k[t] \div 2 + prio[t]) % TimeMod \in 0..(TimeMod - 1)
  <2>1. k[t] \div 2 + prio[t] \in Int /\ TimeMod \in Nat /\ TimeMod > 0
    BY ScheduleAssumption
  <2> QED
    BY <2>1
<1> QED
  BY <1>1 DEF Recharged

\* Whatever schedule does, the current thread and the ticks have their types.
LEMMA ScheduleType ==
    ASSUME TypeOK, NEW r \in Seq(Threads), NEW k \in [Threads -> 0..(TimeMod - 1)],
           schedule(r, k)
    PROVE  /\ ticks' \in [Threads -> 0..(TimeMod - 1)]
           /\ current' \in Threads \cup {Idle}
           /\ panicked' \in BOOLEAN
<1>1. Recharged(r, k) \in [Threads -> 0..(TimeMod - 1)]
  BY RechargedType DEF TypeOK
<1>2. r # <<>> => PickOf(r, k) \in Threads /\ PickOf(r, Recharged(r, k)) \in Threads
  BY <1>1, PickType
<1> QED
  BY <1>1, <1>2 DEF schedule, TypeOK

LEMMA SoftIrqType ==
    ASSUME TypeOK, NEW r \in Seq(Threads), NEW k \in [Threads -> 0..(TimeMod - 1)],
           soft_irq(r, k)
    PROVE  /\ ticks' \in [Threads -> 0..(TimeMod - 1)]
           /\ current' \in Threads \cup {Idle}
           /\ panicked' \in BOOLEAN
  BY ScheduleType DEF soft_irq, TypeOK

\* The ticks that clock_handler, thread_ready and thread_unready store.
LEMMA TicksType ==
    ASSUME TypeOK
    PROVE  /\ Charged \in [Threads -> 0..(TimeMod - 1)]
           /\ \A t \in Threads : Boosted(t) \in [Threads -> 0..(TimeMod - 1)]
<1>1. TimeMod \in Nat /\ TimeMod > 4 /\ ticks \in [Threads -> 0..(TimeMod - 1)]
  BY ScheduleAssumption DEF TypeOK
<1> QED
  BY <1>1 DEF Charged, Boosted, MAX

\* Removing the i-th element.
LEMMA WithoutType ==
    ASSUME NEW r \in Seq(Threads), NEW i \in 1..Len(r),
           \A a, b \in 1..Len(r) : r[a] = r[b] => a = b
    PROVE  /\ Without(r, i) \in Seq(Threads)
           /\ \A a, b \in 1..Len(Without(r, i)) : Without(r, i)[a] = Without(r, i)[b] => a = b
<1> DEFINE n == Len(r) - 1
           w == Without(r, i)
<1>1. n \in Nat /\ \A j \in 1..Len(r) : r[j] \in Threads
  OBVIOUS
<1>2. \A j \in 1..n : (IF j < i THEN r[j] ELSE r[j + 1]) \in Threads
  BY <1>1
<1>3. w \in [1..n -> Threads]
  BY <1>2 DEF Without
<1>4. w \in Seq(Threads) /\ Len(w) = n
  BY <1>1, <1>3
<1>5. \A j \in 1..n : w[j] = IF j < i THEN r[j] ELSE r[j + 1]
  BY DEF Without
<1> HIDE DEF w
<1>6. \A a, b \in 1..n : w[a] = w[b] => a = b
  BY <1>1, <1>5
<1> QED
  BY <1>4, <1>6 DEF w

\* Adding an element.
LEMMA AppendType ==
    ASSUME NEW S, NEW s \in Seq(S), NEW x \in S
    PROVE  /\ Append(s, x) \in Seq(S) /\ Len(Append(s, x)) = Len(s) + 1
           /\ \A i \in 1..Len(s) : Append(s, x)[i] = s[i]
           /\ Append(s, x)[Len(s) + 1] = x
  OBVIOUS

\* Only the empty sequence has no elements.
LEMMA EmptyLen ==
    ASSUME NEW S, NEW s \in Seq(S)
    PROVE  s = <<>> <=> Len(s) = 0
  OBVIOUS

LEMMA TypeInit == Init => TypeOK
<1> SUFFICES ASSUME Init PROVE TypeOK
  OBVIOUS
<1>1. run_list \in Seq(Threads) /\ Len(run_list) = 0
  BY DEF Init
<1>2. ticks \in [Threads -> 0..(TimeMod - 1)] /\ prio \in [Threads -> MinPrio..MaxPrio]
  <2>1. Prios \subseteq 0..(TimeMod - 1) /\ Prios \subseteq MinPrio..MaxPrio
    BY ScheduleAssumption
  <2> QED
    BY <2>1 DEF Init
<1>3. saved \in [Threads -> Seq(BOOLEAN)]
  BY DEF Init
<1>4. \A i, j \in 1..Len(run_list) : run_list[i] = run_list[j] => i = j
  BY <1>1
<1>5. current = Idle /\ isneed_schdule \in BOOLEAN /\ panicked \in BOOLEAN
  BY DEF Init
<1> QED
  BY <1>1, <1>2, <1>3, <1>4, <1>5 DEF TypeOK

LEMMA TypeStep == TypeOK /\ [Next]_vars => TypeOK'
<1> SUFFICES ASSUME TypeOK, [Next]_vars PROVE TypeOK'
  OBVIOUS
<1> USE DEF TypeOK
<1>1. CASE Clock
  BY <1>1, TicksType, SoftIrqType DEF Clock
<1>2. CASE ClockInSystemCall
  BY <1>2, TicksType DEF ClockInSystemCall
<1>3. ASSUME NEW t \in Threads, thread_ready(t) PROVE TypeOK'
  <2>1. /\ run_list' \in Seq(Threads)
        /\ \A i, j \in 1..Len(run_list') : run_list'[i] = run_list'[j] => i = j
    <3>1. run_list' = Append(run_list, t) /\ \A i \in 1..Len(run_list) : run_list[i] # t
      BY <1>3 DEF thread_ready, Ready
    <3>2. Len(run_list) \in Nat
      OBVIOUS
    <3>3. /\ run_list' \in Seq(Threads) /\ Len(run_list') = Len(run_list) + 1
          /\ \A i \in 1..Len(run_list) : run_list'[i] = run_list[i]
          /\ run_list'[Len(run_list) + 1] = t
      BY <3>1, AppendType
    <3>4. ASSUME NEW i \in 1..Len(run_list'), NEW j \in 1..Len(run_list'),
                 run_list'[i] = run_list'[j]
          PROVE  i = j
      <4>1. /\ i \in 1..Len(run_list) \/ i = Len(run_list) + 1
            /\ j \in 1..Len(run_list) \/ j = Len(run_list) + 1
        <5> DEFINE n == Len(run_list)
        <5>1. n \in Nat /\ i \in 1..(n + 1) /\ j \in 1..(n + 1)
          BY <3>2, <3>3, <3>4
        <5> HIDE DEF n
        <5>2. (i \in 1..n \/ i = n + 1) /\ (j \in 1..n \/ j = n + 1)
          BY <5>1
        <5> QED
          BY <5>2 DEF n
      <4> QED
        BY <3>1, <3>3, <3>4, <4>1
    <3> QED
      BY <3>3, <3>4
  <2>2. /\ ticks' \in [Threads -> 0..(TimeMod - 1)]
        /\ current' \in Threads \cup {Idle}
        /\ panicked' \in BOOLEAN
    BY <1>3, <2>1, TicksType, SoftIrqType DEF thread_ready
  <2> QED
    BY <1>3, <2>1, <2>2 DEF thread_ready
<1>4. ASSUME NEW i \in 1..Len(run_list), thread_sleep_on(i) PROVE TypeOK'
  <2>1. /\ run_list' \in Seq(Threads)
        /\ \A a, b \in 1..Len(run_list') : run_list'[a] = run_list'[b] => a = b
    BY <1>4, WithoutType DEF thread_sleep_on
  <2>2. current \in Threads
    BY <1>4 DEF thread_sleep_on
  <2>3. /\ ticks' \in [Threads -> 0..(TimeMod - 1)]
        /\ current' \in Threads \cup {Idle}
        /\ panicked' \in BOOLEAN
    BY <1>4, <2>1, <2>2, TicksType, ScheduleType DEF thread_sleep_on
  <2> QED
    BY <1>4, <2>1, <2>3 DEF thread_sleep_on
<1>5. CASE thread_yield
  BY <1>5, ScheduleType DEF thread_yield
<1>6. ASSUME NEW inc \in Increments, nice(inc) PROVE TypeOK'
  <2>1. current \in Threads
    BY <1>6 DEF nice, InUserMode
  <2>2. ASSUME NEW p \in MinPrio..MaxPrio, Niced(p, inc) <= MaxPrio
        PROVE  Niced(p, inc) \in MinPrio..MaxPrio
    BY <1>6, <2>2, ScheduleAssumption DEF Niced
  <2> QED
    BY <1>6, <2>1, <2>2 DEF nice
<1>7. ASSUME NEW t \in Threads, NEW level \in Levels, set_thread_priority(t, level) PROVE TypeOK'
  BY <1>7, ScheduleAssumption DEF set_thread_priority
<1>8. CASE lock_schedule
  <2>1. current \in Threads
    BY <1>8 DEF lock_schedule
  <2>2. Append(saved[current], isneed_schdule) \in Seq(BOOLEAN)
    BY <2>1, AppendType
  <2> QED
    BY <1>8, <2>1, <2>2 DEF lock_schedule
<1>9. CASE set_schedule
  <2> DEFINE s == saved[current]
  <2>1. current \in Threads /\ s \in Seq(BOOLEAN) /\ s # <<>>
    BY <1>9 DEF set_schedule
  <2>2. SubSeq(s, 1, Len(s) - 1) \in Seq(BOOLEAN) /\ s[Len(s)] \in BOOLEAN
    BY <2>1
  <2> QED
    BY <1>9, <2>1, <2>2 DEF set_schedule
<1>10. CASE UNCHANGED vars
  BY <1>10 DEF vars
<1> QED
  BY <1>1, <1>2, <1>3, <1>4, <1>5, <1>6, <1>7, <1>8, <1>9, <1>10 DEF Next

\* In every reachable state the variables have their types, and no thread is on
\* the run list twice.
THEOREM TypeCorrect == Spec => []TypeOK
  BY TypeInit, TypeStep, PTL DEF Spec

-----------------------------------------------------------------------------
(* Why schedule can panic.                                                 *)

\* What a recharge gives a thread of the list when no thread of it has ticks left.
LEMMA RechargedIsPrio ==
    ASSUME TypeOK, NEW r \in Seq(Threads), NEW k \in [Threads -> 0..(TimeMod - 1)],
           Exhausted(r, k), NEW i \in 1..Len(r)
    PROVE  Recharged(r, k)[r[i]] = prio[r[i]] % TimeMod
<1>1. r[i] \in Threads /\ k[r[i]] = 0 /\ prio[r[i]] \in MinPrio..MaxPrio
  <2>1. r[i] \in Threads
    OBVIOUS
  <2>2. k[r[i]] = 0
    BY DEF Exhausted, CPU_NO_TIMES
  <2> QED
    BY <2>1, <2>2 DEF TypeOK
<1>2. Recharged(r, k)[r[i]] = (k[r[i]] \div 2 + prio[r[i]]) % TimeMod
  BY <1>1 DEF Recharged
<1>3. \A p \in MinPrio..MaxPrio : 0 \div 2 + p = p
  BY ScheduleAssumption
<1> QED
  BY <1>1, <1>2, <1>3

\* Only the priority 0 is lost in time_t.
LEMMA OnlyZeroVanishes ==
    ASSUME NEW p \in MinPrio..MaxPrio, p % TimeMod = 0
    PROVE  p = 0
<1>1. TimeMod \in Nat /\ TimeMod > 0 /\ p \in Int /\ p < TimeMod /\ -p < TimeMod
  BY ScheduleAssumption
<1>2. ASSUME p > 0 PROVE FALSE
  <2>1. p % TimeMod = p
    BY <1>1, <1>2
  <2> QED
    BY <1>2, <2>1
<1>3. ASSUME p < 0 PROVE FALSE
  <2>1. p % TimeMod = p + TimeMod
    BY <1>1, <1>3
  <2> QED
    BY <1>1, <2>1
<1> QED
  BY <1>1, <1>2, <1>3

LEMMA SchedulePanic ==
    ASSUME TypeOK, ~panicked, NEW r \in Seq(Threads), NEW k \in [Threads -> 0..(TimeMod - 1)],
           schedule(r, k), panicked'
    PROVE  \/ r # <<>> /\ \A i \in 1..Len(r) : prio[r[i]] = 0
           \/ 2 * Len(r) > MaxVisits + 1
<1>1. Len(r) \in Nat /\ MaxVisits \in Nat
  BY ScheduleAssumption
<1>2. r # <<>>
  BY DEF schedule
<1>3. CASE ~Exhausted(r, k)
  <2>1. Len(r) > MaxVisits + 1
    BY <1>3 DEF schedule
  <2>2. \A n, v \in Nat : n > v + 1 => 2 * n > v + 1
    OBVIOUS
  <2> QED
    BY <1>1, <2>1, <2>2
<1>4. CASE Exhausted(r, k) /\ Exhausted(r, Recharged(r, k))
  <2>1. ASSUME NEW i \in 1..Len(r) PROVE prio[r[i]] = 0
    <3>0. r[i] \in Threads
      OBVIOUS
    <3>1. prio[r[i]] \in MinPrio..MaxPrio
      BY <3>0 DEF TypeOK
    <3>2. Recharged(r, k)[r[i]] = 0
      BY <1>4 DEF Exhausted, CPU_NO_TIMES
    <3> QED
      BY <1>4, <3>1, <3>2, RechargedIsPrio, OnlyZeroVanishes
  <2> QED
    BY <1>2, <2>1
<1>5. CASE Exhausted(r, k) /\ ~Exhausted(r, Recharged(r, k))
  BY <1>5 DEF schedule
<1> QED
  BY <1>3, <1>4, <1>5

\* The same, when schedule runs with the new run list and leaves the priorities.
LEMMA PanicOfSchedule ==
    ASSUME TypeOK, TypeOK', ~panicked, NEW k \in [Threads -> 0..(TimeMod - 1)],
           schedule(run_list', k) \/ UNCHANGED panicked, UNCHANGED prio
    PROVE  PanicHasCause'
<1> SUFFICES ASSUME panicked' PROVE PanicHasCause'
  BY DEF PanicHasCause
<1>1. run_list' \in Seq(Threads) /\ schedule(run_list', k)
  BY DEF TypeOK
<1>2. \/ run_list' # <<>> /\ \A i \in 1..Len(run_list') : prio[run_list'[i]] = 0
      \/ 2 * Len(run_list') > MaxVisits + 1
  BY <1>1, SchedulePanic
<1> QED
  BY <1>2 DEF PanicHasCause, Ready

LEMMA PanicStep ==
    ASSUME TypeOK, TypeOK', PanicHasCause, [Next]_vars
    PROVE  PanicHasCause'
<1>0. /\ Charged \in [Threads -> 0..(TimeMod - 1)]
      /\ \A t \in Threads : Boosted(t) \in [Threads -> 0..(TimeMod - 1)]
      /\ ticks \in [Threads -> 0..(TimeMod - 1)]
  BY TicksType DEF TypeOK
<1>1. CASE Next /\ Clock
  BY <1>0, <1>1, PanicOfSchedule DEF Next, Clock, soft_irq
<1>3. ASSUME ~panicked, NEW t \in Threads, thread_ready(t) PROVE PanicHasCause'
  BY <1>0, <1>3, PanicOfSchedule DEF thread_ready, soft_irq
<1>4. ASSUME ~panicked, NEW i \in 1..Len(run_list), thread_sleep_on(i) PROVE PanicHasCause'
  <2>1. current \in Threads
    BY <1>4 DEF thread_sleep_on, TypeOK
  <2> QED
    BY <1>0, <1>4, <2>1, PanicOfSchedule DEF thread_sleep_on
<1>5. CASE Next /\ thread_yield
  BY <1>0, <1>5, PanicOfSchedule DEF Next, thread_yield
<1>6. ASSUME ~panicked, UNCHANGED panicked PROVE PanicHasCause'
  BY <1>6 DEF PanicHasCause
<1>7. CASE UNCHANGED vars
  BY <1>7 DEF vars, PanicHasCause, Ready
<1> QED
  BY <1>1, <1>3, <1>4, <1>5, <1>6, <1>7
     DEF Next, ClockInSystemCall, nice, set_thread_priority, lock_schedule, set_schedule

\* For any number of threads and whatever is passed to nice and set_thread_priority:
\* schedule panics only when every ready thread has priority 0, or when two rounds
\* over the run list are more visits than its loop allows.
THEOREM ScheduleFindsThread == Spec => []PanicHasCause
<1>1. Init => PanicHasCause
  BY DEF Init, PanicHasCause
<1>2. TypeOK /\ TypeOK' /\ PanicHasCause /\ [Next]_vars => PanicHasCause'
  BY PanicStep
<1> QED
  BY <1>1, <1>2, TypeCorrect, PTL DEF Spec

-----------------------------------------------------------------------------
(* No thread saves up ticks.                                               *)

\* What a step that stores ticks n in place of ticks o may do, for priority p.
Slice(o, n, p) == n > o => n <= MAX(4, p % TimeMod)

\* The ticks that clock_handler, thread_ready and thread_unready store.
LEMMA StoredSlice ==
    ASSUME TypeOK, NEW u \in Threads
    PROVE  /\ Charged[u] <= ticks[u]
           /\ \A t \in Threads : Boosted(t)[u] <= ticks[u] \/ Boosted(t)[u] <= 4
<1>1. ticks \in [Threads -> 0..(TimeMod - 1)] /\ TimeMod \in Nat
  BY ScheduleAssumption DEF TypeOK
<1> QED
  BY <1>1 DEF Charged, Boosted, MAX

\* schedule adds nothing but the recharge.
LEMMA ScheduleSlice ==
    ASSUME TypeOK, NEW r \in Seq(Threads), NEW k \in [Threads -> 0..(TimeMod - 1)],
           schedule(r, k) \/ ticks' = k, NEW u \in Threads
    PROVE  ticks'[u] = k[u] \/ ticks'[u] = prio[u] % TimeMod
<1>1. ticks' = k \/ (Exhausted(r, k) /\ ticks' = Recharged(r, k))
  BY DEF schedule
<1>2. ASSUME NEW i \in 1..Len(r), r[i] = u, Exhausted(r, k)
      PROVE  Recharged(r, k)[u] = prio[u] % TimeMod
  BY <1>2, RechargedIsPrio
<1>3. (\A i \in 1..Len(r) : r[i] # u) => Recharged(r, k)[u] = k[u]
  BY DEF Recharged
<1> QED
  BY <1>1, <1>2, <1>3

\* The two together: k is what the caller of schedule stores.
LEMMA StepSlice ==
    ASSUME TypeOK, TypeOK', NEW k \in [Threads -> 0..(TimeMod - 1)],
           schedule(run_list', k) \/ ticks' = k,
           \A u \in Threads : k[u] <= ticks[u] \/ k[u] <= 4
    PROVE  \A u \in Threads : Slice(ticks[u], ticks'[u], prio[u])
<1> SUFFICES ASSUME NEW u \in Threads PROVE Slice(ticks[u], ticks'[u], prio[u])
  OBVIOUS
<1> DEFINE m == prio[u] % TimeMod
<1>1. ticks'[u] = k[u] \/ ticks'[u] = m
  BY ScheduleSlice DEF TypeOK
<1>2. k[u] <= ticks[u] \/ k[u] <= 4
  OBVIOUS
<1>3. ticks[u] \in Int /\ k[u] \in Int /\ m \in Int
  BY ScheduleAssumption DEF TypeOK
<1> HIDE DEF m
<1>4. ASSUME NEW o \in Int, NEW n \in Int, NEW a \in Int,
             n = a \/ n = m, a <= o \/ a <= 4
      PROVE  n > o => n <= MAX(4, m)
  BY <1>3, <1>4 DEF MAX
<1>5. ticks'[u] \in Int
  BY <1>1, <1>3
<1> QED
  BY <1>1, <1>2, <1>3, <1>4, <1>5 DEF Slice, m

LEMMA TicksStep ==
    ASSUME TypeOK, TypeOK', [Next]_vars
    PROVE  \A u \in Threads : Slice(ticks[u], ticks'[u], prio[u])
<1>0. /\ Charged \in [Threads -> 0..(TimeMod - 1)]
      /\ \A t \in Threads : Boosted(t) \in [Threads -> 0..(TimeMod - 1)]
      /\ ticks \in [Threads -> 0..(TimeMod - 1)]
  BY TicksType DEF TypeOK
<1>a. \A u \in Threads : ticks[u] <= ticks[u]
  BY <1>0, ScheduleAssumption
<1>1. CASE Clock \/ ClockInSystemCall
  <2>1. schedule(run_list', Charged) \/ ticks' = Charged
    BY <1>1 DEF Clock, ClockInSystemCall, soft_irq
  <2> QED
    BY <1>0, <2>1, StoredSlice, StepSlice
<1>2. ASSUME NEW t \in Threads, thread_ready(t)
      PROVE  \A u \in Threads : Slice(ticks[u], ticks'[u], prio[u])
  <2>1. schedule(run_list', Boosted(t)) \/ ticks' = Boosted(t)
    BY <1>2 DEF thread_ready, soft_irq
  <2> QED
    BY <1>0, <2>1, StoredSlice, StepSlice
<1>3. ASSUME NEW i \in 1..Len(run_list), thread_sleep_on(i)
      PROVE  \A u \in Threads : Slice(ticks[u], ticks'[u], prio[u])
  <2>1. current \in Threads /\ schedule(run_list', Boosted(current))
    BY <1>3 DEF thread_sleep_on, TypeOK
  <2> QED
    BY <1>0, <2>1, StoredSlice, StepSlice
<1>4. CASE thread_yield
  <2>1. schedule(run_list', ticks)
    BY <1>4 DEF thread_yield
  <2> QED
    BY <1>0, <1>a, <2>1, StepSlice
<1>5. CASE ticks' = ticks
  BY <1>0, <1>a, <1>5, StepSlice
<1> QED
  BY <1>1, <1>2, <1>3, <1>4, <1>5
     DEF Next, nice, set_thread_priority, lock_schedule, set_schedule, vars

\* For any number of threads and any priorities, negative ones included, no
\* sequence of sleeps, wake-ups and recharges leaves a thread with more ticks than
\* one time slice, or than the 4 that thread_ready and thread_unready grant.
THEOREM NoTicksSaved == Spec => TicksNotSaved
<1>1. TypeOK /\ TypeOK' /\ [Next]_vars =>
        [\A t \in Threads :
           ticks'[t] > ticks[t] => ticks'[t] <= MAX(4, prio[t] % TimeMod)]_vars
  BY TicksStep DEF Slice
<1> QED
  BY <1>1, TypeCorrect, PTL DEF Spec, TicksNotSaved

-----------------------------------------------------------------------------
(* The scheduling lock.                                                    *)

\* While the sections of different threads do not overlap: preemption is off as
\* long as a thread is in a section, whether it runs or sleeps there, and only
\* what its outermost lock_schedule saved is TRUE.
LockInv ==
    /\ (\A t \in Threads : saved[t] = <<>>) => isneed_schdule
    /\ \A t \in Threads : saved[t] # <<>> =>
          /\ ~isneed_schdule
          /\ saved[t][1]
          /\ \A i \in 2..Len(saved[t]) : ~saved[t][i]

LEMMA LockStep ==
    ASSUME TypeOK, SectionsApart, SectionsApart', LockInv, [Next]_vars
    PROVE  LockInv'
<1>1. CASE UNCHANGED <<saved, isneed_schdule>>
  BY <1>1 DEF LockInv
<1>8. CASE lock_schedule
  <2> DEFINE s == saved[current]
             s2 == Append(s, isneed_schdule)
             n == Len(s)
  <2>1. /\ current \in Threads /\ s \in Seq(BOOLEAN) /\ isneed_schdule \in BOOLEAN
        /\ current' = current /\ isneed_schdule' = FALSE
        /\ saved'[current] = s2 /\ \A t \in Threads : t # current => saved'[t] = saved[t]
    BY <1>8 DEF lock_schedule, TypeOK
  <2>2. /\ s2 \in Seq(BOOLEAN) /\ Len(s2) = n + 1 /\ n \in Nat /\ s2 # <<>>
        /\ \A i \in 1..n : s2[i] = s[i]
        /\ s2[n + 1] = isneed_schdule
    BY <2>1, AppendType
  <2>3. s = <<>> <=> n = 0
    BY <2>1
  <2>b. ASSUME NEW t \in Threads, t # current PROVE saved[t] = <<>> /\ saved'[t] = <<>>
    BY <2>1, <2>2, <2>b DEF SectionsApart
  <2>4. s = <<>> => isneed_schdule
    BY <2>b DEF LockInv
  <2>5. s # <<>> => ~isneed_schdule /\ s[1] /\ \A i \in 2..n : ~s[i]
    BY <2>1 DEF LockInv
  <2> HIDE DEF s, s2, n
  <2>6. s2 # <<>> /\ s2[1] /\ \A i \in 2..Len(s2) : ~s2[i]
    <3>1. s2 # <<>>
      BY <2>2
    <3>2. CASE n = 0
      <4>1. n + 1 = 1 /\ Len(s2) = 1
        BY <2>2, <3>2
      <4>2. s2[1] = isneed_schdule
        BY <2>2, <4>1
      <4>3. isneed_schdule
        BY <2>3, <2>4, <3>2
      <4>4. \A i \in 2..Len(s2) : FALSE
        BY <4>1
      <4> QED
        BY <3>1, <4>2, <4>3, <4>4
    <3>3. CASE n # 0
      <4>1. s2[1] = s[1] /\ s[1]
        BY <2>2, <2>3, <2>5, <3>3
      <4>2. ASSUME NEW i \in 2..Len(s2) PROVE ~s2[i]
        <5>1. i = n + 1 \/ (i \in 2..n /\ i \in 1..n)
          BY <2>2
        <5> QED
          BY <2>2, <2>3, <2>5, <3>3, <5>1
      <4> QED
        BY <3>1, <4>1, <4>2
    <3> QED
      BY <3>2, <3>3
  <2> QED
    BY <2>1, <2>b, <2>6 DEF LockInv
<1>9. CASE set_schedule
  <2> DEFINE s == saved[current]
             f == SubSeq(s, 1, Len(s) - 1)
             n == Len(s)
  <2>1. /\ current \in Threads /\ s \in Seq(BOOLEAN) /\ s # <<>>
        /\ current' = current /\ isneed_schdule' = s[n]
        /\ saved'[current] = f /\ \A t \in Threads : t # current => saved'[t] = saved[t]
    BY <1>9 DEF set_schedule, TypeOK
  <2>b. ASSUME NEW t \in Threads, t # current PROVE saved[t] = <<>> /\ saved'[t] = <<>>
    BY <2>1, <2>b DEF SectionsApart
  <2>2. n \in Nat /\ n > 0 /\ s[1] /\ \A i \in 2..n : ~s[i]
    BY <2>1 DEF LockInv
  <2>3. /\ f \in Seq(BOOLEAN) /\ Len(f) = n - 1
        /\ \A i \in 1..(n - 1) : f[i] = s[i]
    BY <2>1, <2>2
  <2>4. f = <<>> <=> n = 1
    <3>1. f = <<>> <=> Len(f) = 0
      BY <2>3, EmptyLen
    <3> HIDE DEF s, f, n
    <3> QED
      BY <2>2, <2>3, <3>1
  <2> HIDE DEF s, f, n
  <2>5. CASE n = 1
    BY <2>1, <2>2, <2>b, <2>4, <2>5 DEF LockInv
  <2>6. CASE n # 1
    <3>1. n \in 2..n /\ 1 \in 1..(n - 1)
      BY <2>2, <2>6
    <3>2. ~isneed_schdule' /\ f[1]
      BY <2>1, <2>2, <2>3, <3>1
    <3>3. \A i \in 2..Len(f) : ~f[i]
      BY <2>2, <2>3
    <3> QED
      BY <2>1, <2>b, <2>4, <2>6, <3>2, <3>3 DEF LockInv
  <2> QED
    BY <2>5, <2>6
<1> QED
  BY <1>1, <1>8, <1>9
     DEF Next, Clock, ClockInSystemCall, thread_ready, thread_sleep_on, thread_yield,
         nice, set_thread_priority, vars

\* For any number of threads, and although a thread may sleep inside the scheduling
\* lock: as long as no two threads are inside at once, preemption is on again
\* whenever none is, however deep the sections nest.
THEOREM LockIsGivenBack == Spec => LockNests
<1>1. Init => LockInv
  BY DEF Init, LockInv
<1>2. TypeOK /\ SectionsApart /\ SectionsApart' /\ LockInv /\ [Next]_vars => LockInv'
  BY LockStep
<1>3. LockInv => LockGivenBack
  BY DEF LockInv, LockGivenBack
<1> QED
  BY <1>1, <1>2, <1>3, TypeCorrect, PTL DEF Spec, LockNests
=============================================================================
