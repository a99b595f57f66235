--------------------------- MODULE TailqUseProofs ---------------------------
(***************************************************************************)
(* The tail queue macros implement sequences, for any number of queues and *)
(* elements: the proof that QueuesIntact and EmptyMeansUnlinked hold.      *)
(***************************************************************************)
EXTENDS TailqUse, TailqLemmas

\* An element is on one queue at most.
Apart == \A h, k \in Heads :
            \A i \in 1..Len(q[h]), j \in 1..Len(q[k]) : q[h][i] = q[k][j] => h = k

\* The inductive invariant.
Inv == TypeOK /\ QueuesIntact /\ Apart /\ EmptyMeansUnlinked

\* Represents, for a queue of n elements.
LEMMA RepresentsIntro ==
    ASSUME NEW mem, NEW h, NEW s, NEW n \in Nat, Len(s) = n, s = <<>> <=> n = 0,
           mem.ptr[h] = IF n = 0 THEN NULL ELSE s[1],
           mem.back[h] = IF n = 0 THEN h ELSE s[n],
           \A i \in 1..n : mem.ptr[s[i]] = IF i = n THEN NULL ELSE s[i + 1],
           \A i \in 1..n : mem.back[s[i]] = IF i = 1 THEN h ELSE s[i - 1],
           \A i, j \in 1..n : s[i] = s[j] => i = j
    PROVE  Represents(mem, h, s)
  BY DEF Represents

\* TAILQ_INSERT_TAIL keeps the invariant: only the old last cell, the head and
\* the new element are written.
LEMMA InsertInv ==
    ASSUME Inv, NEW h \in Heads, NEW e \in Elems, Insert(h, e)
    PROVE  Inv'
<1> DEFINE s == q[h]
           b == m.back[h]
<1>1. /\ \A k \in Heads : Len(q[k]) \in Nat
      /\ b = (IF s = <<>> THEN h ELSE s[Len(s)]) /\ b # NULL
      /\ \A k \in Heads : \A i \in 1..Len(q[k]) : q[k][i] # e /\ q[k][i] \in Elems
  BY TailqAssumption DEF Inv, TypeOK, QueuesIntact, Represents, Insert, Holds
<1>2. TypeOK'
  BY InsertType, TailqAssumption DEF Inv, TypeOK, Insert
<1>3. \A l \in Heads \cup Elems :
         /\ m'.ptr[l]  = IF l = b THEN e ELSE IF l = e THEN NULL ELSE m.ptr[l]
         /\ m'.back[l] = IF l = h THEN e ELSE IF l = e THEN b ELSE m.back[l]
  BY <1>1, InsertEffect, TailqAssumption DEF Inv, TypeOK, Insert
<1>4. /\ \A k \in Heads : k # h => q'[k] = q[k]
      /\ Len(q'[h]) = Len(s) + 1
      /\ q'[h][Len(s) + 1] = e
      /\ \A i \in 1..Len(s) : q'[h][i] = s[i]
      /\ q'[h] # <<>>
  <2>1. s \in Seq(Elems) /\ q' = [q EXCEPT ![h] = Append(s, e)]
    BY DEF Insert, Inv, TypeOK
  <2>2. /\ Len(Append(s, e)) = Len(s) + 1
        /\ Append(s, e)[Len(s) + 1] = e
        /\ \A i \in 1..Len(s) : Append(s, e)[i] = s[i]
        /\ Append(s, e) # <<>>
    BY <2>1
  <2> QED
    BY <2>1, <2>2 DEF Inv, TypeOK
<1>5. Apart'
  <2>1. \A k \in Heads : \A i \in 1..Len(q'[k]) :
           IF k = h /\ i = Len(s) + 1 THEN q'[k][i] = e ELSE i \in 1..Len(q[k]) /\ q'[k][i] = q[k][i]
    BY <1>1, <1>4
  <2> QED
    BY <1>1, <2>1, SMTT(40) DEF Inv, Apart
<1>6. ASSUME NEW k \in Heads PROVE Represents(m', k, q'[k])
  <2>1. CASE k # h
    <3>1. Represents(m, k, q[k]) /\ q'[k] = q[k] /\ k # b /\ k # e
      BY <1>1, <1>4, <2>1, TailqAssumption DEF Inv, QueuesIntact
    <3>2. \A i \in 1..Len(q[k]) : q[k][i] # b /\ q[k][i] # e /\ q[k][i] # h
      BY <1>1, <2>1, TailqAssumption DEF Inv, Apart
    <3> QED
      BY <1>1, <1>3, <2>1, <3>1, <3>2 DEF Represents
  <2>2. CASE k = h
    <3>1. /\ Len(s) \in Nat /\ s \in Seq(Elems)
          /\ \A i \in 1..Len(s) : s[i] \in Elems /\ s[i] # e /\ s[i] # h
          /\ e \in Elems /\ h # e /\ h \in Heads
      BY <1>1, TailqAssumption DEF Inv, TypeOK
    <3>2. /\ m.ptr[h] = IF Len(s) = 0 THEN NULL ELSE s[1]
          /\ b = IF Len(s) = 0 THEN h ELSE s[Len(s)]
          /\ \A i \in 1..Len(s) : /\ m.ptr[s[i]]  = IF i = Len(s) THEN NULL ELSE s[i + 1]
                                  /\ m.back[s[i]] = IF i = 1 THEN h ELSE s[i - 1]
          /\ \A i, j \in 1..Len(s) : s[i] = s[j] => i = j
      <4>1. Represents(m, h, s) /\ (s = <<>> <=> Len(s) = 0)
        BY <3>1 DEF Inv, QueuesIntact
      <4> QED
        BY <1>1, <3>1, <4>1 DEF Represents
    <3> HIDE DEF s, b
    <3>3. m'.ptr[h] = q'[h][1] /\ m'.back[h] = e
      BY <1>3, <1>4, <3>1, <3>2
    <3>4. ASSUME NEW i \in 1..Len(s)
          PROVE  /\ m'.ptr[s[i]]  = q'[h][i + 1]
                 /\ m'.back[s[i]] = IF i = 1 THEN h ELSE s[i - 1]
      <4>1. CASE i = Len(s)
        BY <1>3, <1>4, <3>1, <3>2, <4>1
      <4>2. CASE i # Len(s)
        <5>1. s[i] # b /\ i + 1 \in 1..Len(s)
          BY <3>1, <3>2, <4>2
        <5> QED
          BY <1>3, <1>4, <3>1, <3>2, <4>2, <5>1, SMTT(40)
      <4> QED
        BY <4>1, <4>2
    <3>5. m'.ptr[e] = NULL /\ m'.back[e] = IF Len(s) = 0 THEN h ELSE s[Len(s)]
      BY <1>3, <3>1, <3>2
    <3>6. ASSUME NEW i \in 1..(Len(s) + 1), NEW j \in 1..(Len(s) + 1), q'[h][i] = q'[h][j]
          PROVE  i = j
      BY <1>4, <3>1, <3>2, <3>6, SMTT(40)
    <3>7. ASSUME NEW i \in 1..(Len(s) + 1)
          PROVE  /\ m'.ptr[q'[h][i]]  = IF i = Len(s) + 1 THEN NULL ELSE q'[h][i + 1]
                 /\ m'.back[q'[h][i]] = IF i = 1 THEN h ELSE q'[h][i - 1]
      <4>1. i # 1 => i - 1 \in 1..Len(s) /\ q'[h][i - 1] = s[i - 1]
        BY <1>4, <3>1
      <4>2. CASE i = Len(s) + 1
        BY <1>4, <3>1, <3>5, <4>1, <4>2
      <4>3. CASE i # Len(s) + 1
        <5>1. i \in 1..Len(s) /\ q'[h][i] = s[i]
          BY <1>4, <3>1, <4>3
        <5> QED
          BY <3>4, <4>1, <4>3, <5>1
      <4> QED
        BY <4>2, <4>3
    <3>8. Len(s) + 1 \in Nat /\ Len(s) + 1 # 0
      BY <3>1
    <3>9. Represents(m', h, q'[h])
      BY <1>4, <3>3, <3>6, <3>7, <3>8, RepresentsIntro
    <3> QED
      BY <2>2, <3>9
  <2> QED
    BY <2>1, <2>2
<1>7. EmptyMeansUnlinked'
  <2> SUFFICES ASSUME NEW x \in Elems
               PROVE  TAILQ_ENTRY_EMPTY(m', x) <=> \A k \in Heads : ~Holds(k, x)'
    BY DEF EmptyMeansUnlinked, TAILQ_ENTRY_EMPTY
  <2>1. TAILQ_ENTRY_EMPTY(m, x) <=> \A k \in Heads : ~Holds(k, x)
    BY DEF Inv, EmptyMeansUnlinked
  <2>2. CASE x = e
    <3>1. m'.back[x] # NULL
      BY <1>1, <1>3, <2>2, TailqAssumption
    <3>2. Holds(h, x)'
      BY <1>1, <1>4, <2>2 DEF Holds
    <3> QED
      BY <3>1, <3>2 DEF TAILQ_ENTRY_EMPTY
  <2>3. CASE x # e
    <3>1. \A k \in Heads : Holds(k, x)' <=> Holds(k, x)
      BY <1>1, <1>4, <2>3, SMTT(40) DEF Holds
    <3>2. m'.back[x] = m.back[x]
      BY <1>3, <2>3, TailqAssumption
    <3>3. CASE x = b
      <4>1. Holds(h, x) /\ m'.ptr[x] = e
        BY <1>1, <1>3, <3>3, TailqAssumption DEF Holds
      <4> QED
        BY <3>1, <4>1, TailqAssumption DEF TAILQ_ENTRY_EMPTY
    <3>4. CASE x # b
      BY <1>3, <2>1, <2>3, <3>1, <3>2, <3>4 DEF TAILQ_ENTRY_EMPTY
    <3> QED
      BY <3>3, <3>4
  <2> QED
    BY <2>2, <2>3
<1> QED
  BY <1>2, <1>5, <1>6, <1>7 DEF Inv, QueuesIntact

\* Without is a sequence, one shorter, in which the later elements move up.
LEMMA WithoutSeq ==
    ASSUME NEW S, NEW s \in Seq(S), NEW i \in 1..Len(s)
    PROVE  /\ Without(s, i) \in Seq(S)
           /\ Len(Without(s, i)) = Len(s) - 1
           /\ \A j \in 1..(Len(s) - 1) : Without(s, i)[j] = IF j < i THEN s[j] ELSE s[j + 1]
<1>1. Len(s) - 1 \in Nat /\ \A j \in 1..Len(s) : s[j] \in S
  OBVIOUS
<1>2. \A j \in 1..(Len(s) - 1) : (IF j < i THEN s[j] ELSE s[j + 1]) \in S
  BY <1>1
<1>3. Without(s, i) \in [1..(Len(s) - 1) -> S]
  BY <1>2 DEF Without
<1> QED
  BY <1>1, <1>3 DEF Without

\* Only the empty sequence has no elements.
LEMMA EmptyLen ==
    ASSUME NEW S, NEW s \in Seq(S)
    PROVE  s = <<>> <=> Len(s) = 0
  OBVIOUS

\* TAILQ_REMOVE with TAILQ_ENTRY_INIT keeps the invariant, wherever on its queue
\* the element is: first, last, both or neither.
LEMMA RemoveInv ==
    ASSUME Inv, NEW h \in Heads, NEW i \in 1..Len(q[h]), Remove(h, i)
    PROVE  Inv'
<1> DEFINE s == q[h]
           n == Len(s)
           e == s[i]
           w == Without(s, i)
           before == IF i = 1 THEN h ELSE s[i - 1]
           after == IF i = n THEN h ELSE s[i + 1]
<1>1. /\ n \in Nat /\ s \in Seq(Elems) /\ i \in 1..n
      /\ \A j \in 1..n : s[j] \in Elems /\ s[j] # h /\ s[j] # NULL
      /\ e \in Elems
  BY TailqAssumption DEF Inv, TypeOK
<1>2. /\ m.ptr[h] = s[1]
      /\ m.back[h] = s[n]
      /\ \A j \in 1..n : /\ m.ptr[s[j]]  = IF j = n THEN NULL ELSE s[j + 1]
                         /\ m.back[s[j]] = IF j = 1 THEN h ELSE s[j - 1]
      /\ \A j, k \in 1..n : s[j] = s[k] => j = k
  <2>1. Represents(m, h, s) /\ s # <<>>
    BY <1>1 DEF Inv, QueuesIntact
  <2> QED
    BY <1>1, <2>1 DEF Represents
<1>3. /\ q' = [q EXCEPT ![h] = w]
      /\ m' = TAILQ_ENTRY_INIT(TAILQ_REMOVE(m, h, e), e)
  BY DEF Remove
<1>4. /\ w \in Seq(Elems) /\ Len(w) = n - 1
      /\ \A j \in 1..(n - 1) : w[j] = IF j < i THEN s[j] ELSE s[j + 1]
  BY <1>1, WithoutSeq
<1>5. q'[h] = w /\ \A k \in Heads : k # h => q'[k] = q[k]
  BY <1>3 DEF Inv, TypeOK
<1>6. TypeOK'
  <2>1. TAILQ_REMOVE(m, h, e) \in TailqMem(Heads, Elems)
    BY <1>1, RemoveType, TailqAssumption DEF Inv, TypeOK
  <2>2. m' \in TailqMem(Heads, Elems)
    BY <1>1, <1>3, <2>1, EntryInitType
  <2> QED
    BY <1>3, <1>4, <2>2 DEF Inv, TypeOK
<1>w. w = <<>> <=> n = 1
  <2> HIDE DEF s, n, w
  <2>1. w = <<>> <=> Len(w) = 0
    BY <1>4, EmptyLen
  <2> QED
    BY <1>1, <1>4, <2>1
<1>q. q[h] = s /\ Len(q[h]) = n /\ Len(q'[h]) = n - 1
  BY <1>4, <1>5
<1> HIDE DEF s, n, w
<1>7. /\ before \in Heads \cup Elems /\ before # e /\ before # NULL
      /\ after \in Heads \cup Elems /\ after # e
      /\ m.back[e] = before
      /\ m.ptr[e] = IF i = n THEN NULL ELSE after
      /\ m.ptr[e] # e
  BY <1>1, <1>2, TailqAssumption
<1>8. \A l \in Heads \cup Elems :
         /\ m'.ptr[l]  = IF l = e THEN NULL
                         ELSE IF l = before THEN (IF i = n THEN NULL ELSE after) ELSE m.ptr[l]
         /\ m'.back[l] = IF l = e THEN NULL ELSE IF l = after THEN before ELSE m.back[l]
  <2>1. after = IF m.ptr[e] = NULL THEN h ELSE m.ptr[e]
    BY <1>1, <1>7
  <2>2. m \in TailqMem(Heads, Elems)
    BY DEF Inv, TypeOK
  <2> HIDE DEF before, after, e
  <2> QED
    BY <1>1, <1>3, <1>7, <2>1, <2>2, RemoveEffect, TailqAssumption
<1>i. \A j \in 1..n : /\ s[j] = e <=> j = i
                      /\ s[j] = before <=> j = i - 1
                      /\ s[j] = after <=> j = i + 1
  <2>1. i # 1 => i - 1 \in 1..n
    BY <1>1
  <2>2. i # n => i + 1 \in 1..n
    BY <1>1
  <2>3. \A j \in 1..n : s[j] = e <=> j = i
    BY <1>1, <1>2
  <2>4. \A j \in 1..n : s[j] = before <=> j = i - 1
    <3>1. CASE i = 1
      BY <1>1, <3>1
    <3>2. CASE i # 1
      BY <1>2, <2>1, <3>2
    <3> QED
      BY <3>1, <3>2
  <2>5. \A j \in 1..n : s[j] = after <=> j = i + 1
    <3>1. CASE i = n
      BY <1>1, <3>1
    <3>2. CASE i # n
      BY <1>2, <2>2, <3>2
    <3> QED
      BY <3>1, <3>2
  <2> QED
    BY <2>3, <2>4, <2>5
<1>9. Apart'
  <2>1. \A k \in Heads : \A j \in 1..Len(q'[k]) : \E g \in 1..Len(q[k]) : q'[k][j] = q[k][g]
    <3>1. \A j \in 1..(n - 1) : \E g \in 1..n : w[j] = s[g]
      BY <1>1, <1>4
    <3> QED
      BY <1>1, <1>5, <1>q, <3>1, SMTT(40)
  <2> QED
    BY <2>1 DEF Inv, Apart
<1>10. ASSUME NEW k \in Heads, k # h PROVE Represents(m', k, q'[k])
  <2>1. Represents(m, k, q[k]) /\ q'[k] = q[k] /\ k # before /\ k # after /\ k # e
    BY <1>1, <1>5, <1>10, TailqAssumption DEF Inv, QueuesIntact
  <2>2. \A j \in 1..Len(q[k]) : /\ q[k][j] # before /\ q[k][j] # after /\ q[k][j] # e
                                /\ q[k][j] \in Elems
    <3>1. \A j \in 1..Len(q[k]), g \in 1..n : q[k][j] # s[g]
      BY <1>10, <1>q DEF Inv, Apart
    <3>2. \A j \in 1..Len(q[k]) : q[k][j] \in Elems /\ q[k][j] # h
      BY TailqAssumption DEF Inv, TypeOK
    <3>3. /\ before = h \/ \E g \in 1..n : before = s[g]
          /\ after = h \/ \E g \in 1..n : after = s[g]
          /\ \E g \in 1..n : e = s[g]
      BY <1>1
    <3> HIDE DEF before, after, e
    <3> QED
      BY <3>1, <3>2, <3>3
  <2> HIDE DEF before, after, e
  <2>3. /\ m'.ptr[k] = m.ptr[k] /\ m'.back[k] = m.back[k]
        /\ \A j \in 1..Len(q[k]) : /\ m'.ptr[q[k][j]] = m.ptr[q[k][j]]
                                   /\ m'.back[q[k][j]] = m.back[q[k][j]]
    BY <1>8, <2>1, <2>2
  <2> QED
    BY <2>1, <2>3 DEF Represents
<1>11. Represents(m', h, w)
  <2>1. ASSUME NEW j \in 1..(n - 1)
        PROVE  /\ m'.ptr[w[j]]  = IF j = n - 1 THEN NULL ELSE w[j + 1]
               /\ m'.back[w[j]] = IF j = 1 THEN h ELSE w[j - 1]
    <3>0. j \in Nat /\ i \in Nat /\ n \in Nat /\ 1 <= j /\ j <= n - 1 /\ 1 <= i /\ i <= n
      BY <1>1
    <3>1. CASE j < i
      <4>1. /\ j \in 1..n
            /\ j # 1 => j - 1 \in 1..(n - 1) /\ j - 1 < i
            /\ j # n - 1 => j + 1 \in 1..(n - 1) /\ (j + 1 < i <=> j # i - 1)
            /\ j # i /\ j # i + 1 /\ j # n
        BY <3>0, <3>1
      <4>2. w[j] = s[j] /\ s[j] # e /\ s[j] # after /\ s[j] \in Elems /\ (s[j] = before <=> j = i - 1)
        BY <1>1, <1>4, <1>i, <3>1, <4>1
      <4>3. /\ m'.back[s[j]] = IF j = 1 THEN h ELSE s[j - 1]
            /\ m'.ptr[s[j]] = IF j = i - 1 THEN (IF i = n THEN NULL ELSE after) ELSE s[j + 1]
        BY <1>2, <1>8, <4>1, <4>2
      <4>4. j # 1 => w[j - 1] = s[j - 1]
        BY <1>4, <4>1
      <4>5. j # n - 1 => w[j + 1] = IF j = i - 1 THEN s[i + 1] ELSE s[j + 1]
        <5>1. j # n - 1 => w[j + 1] = IF j + 1 < i THEN s[j + 1] ELSE s[(j + 1) + 1]
          BY <1>4, <4>1
        <5> QED
          BY <3>0, <4>1, <5>1
      <4> QED
        BY <3>0, <3>1, <4>2, <4>3, <4>4, <4>5
    <3>2. CASE ~(j < i)
      <4>1. /\ j + 1 \in 1..n
            /\ j # 1 => j - 1 \in 1..(n - 1) /\ (j - 1 < i <=> j = i)
            /\ j # n - 1 => j + 1 \in 1..(n - 1) /\ ~(j + 1 < i)
            /\ j + 1 # i /\ j + 1 # i - 1 /\ j + 1 # 1
            /\ j + 1 = i + 1 <=> j = i
            /\ j + 1 = n <=> j = n - 1
            /\ (j + 1) + 1 = j + 2 /\ (j + 1) - 1 = j /\ (j - 1) + 1 = j
        BY <3>0, <3>2
      <4>2. w[j] = s[j + 1] /\ s[j + 1] # e /\ s[j + 1] # before /\ s[j + 1] \in Elems
            /\ (s[j + 1] = after <=> j = i)
        BY <1>1, <1>4, <1>i, <3>2, <4>1
      <4>3. /\ m'.ptr[s[j + 1]] = IF j = n - 1 THEN NULL ELSE s[j + 2]
            /\ m'.back[s[j + 1]] = IF j = i THEN before ELSE s[j]
        BY <1>2, <1>8, <4>1, <4>2
      <4>4. j # n - 1 => w[j + 1] = s[j + 2]
        BY <1>4, <4>1
      <4>5. j # 1 => w[j - 1] = IF j = i THEN s[j - 1] ELSE s[j]
        BY <1>4, <4>1
      <4> QED
        BY <3>0, <3>2, <4>2, <4>3, <4>4, <4>5
    <3> QED
      BY <3>1, <3>2
  <2>2. ASSUME NEW j \in 1..(n - 1), NEW k \in 1..(n - 1), w[j] = w[k] PROVE j = k
    <3> DEFINE old(g) == IF g < i THEN g ELSE g + 1
    <3>1. \A g \in 1..(n - 1) : w[g] = s[old(g)]
      <4> SUFFICES ASSUME NEW g \in 1..(n - 1) PROVE w[g] = s[old(g)]
        OBVIOUS
      <4>1. CASE g < i
        BY <1>4, <4>1
      <4>2. CASE ~(g < i)
        BY <1>4, <4>2
      <4> QED
        BY <4>1, <4>2
    <3>2. old(j) \in 1..n /\ old(k) \in 1..n
      BY <1>1
    <3>3. old(j) = old(k)
      BY <1>2, <2>2, <3>1, <3>2
    <3> QED
      BY <1>1, <3>3
  <2>4. m'.ptr[h] = IF n = 1 THEN NULL ELSE w[1]
    <3>1. n # 1 => w[1] = IF i = 1 THEN s[2] ELSE s[1]
      BY <1>1, <1>4
    <3>2. h # e /\ (h = before <=> i = 1)
      BY <1>1
    <3> QED
      BY <1>1, <1>2, <1>8, <3>1, <3>2
  <2>5. m'.back[h] = IF n = 1 THEN h ELSE w[n - 1]
    <3>1. n # 1 => w[n - 1] = IF i = n THEN s[n - 1] ELSE s[n]
      BY <1>1, <1>4
    <3>2. h # e /\ (h = after <=> i = n)
      BY <1>1
    <3> QED
      BY <1>1, <1>2, <1>8, <3>1, <3>2
  <2>6. n - 1 \in Nat /\ (n - 1 = 0 <=> n = 1)
    BY <1>1
  <2>7. /\ m'.ptr[h] = IF n - 1 = 0 THEN NULL ELSE w[1]
        /\ m'.back[h] = IF n - 1 = 0 THEN h ELSE w[n - 1]
        /\ w = <<>> <=> n - 1 = 0
        /\ Len(w) = n - 1
    BY <1>4, <1>w, <2>4, <2>5, <2>6
  <2>8. /\ \A j \in 1..(n - 1) : m'.ptr[w[j]] = IF j = n - 1 THEN NULL ELSE w[j + 1]
        /\ \A j \in 1..(n - 1) : m'.back[w[j]] = IF j = 1 THEN h ELSE w[j - 1]
        /\ \A j, k \in 1..(n - 1) : w[j] = w[k] => j = k
    BY <2>1, <2>2
  <2> QED
    BY <2>6, <2>7, <2>8, RepresentsIntro
<1>12. EmptyMeansUnlinked'
  <2> SUFFICES ASSUME NEW x \in Elems
               PROVE  TAILQ_ENTRY_EMPTY(m', x) <=> \A k \in Heads : ~Holds(k, x)'
    BY DEF EmptyMeansUnlinked, TAILQ_ENTRY_EMPTY
  <2>1. TAILQ_ENTRY_EMPTY(m, x) <=> \A k \in Heads : ~Holds(k, x)
    BY DEF Inv, EmptyMeansUnlinked
  <2>2. \A k \in Heads : k # h => (Holds(k, x)' <=> Holds(k, x))
    BY <1>5 DEF Holds
  <2>3. CASE x = e
    <3>1. TAILQ_ENTRY_EMPTY(m', x)
      BY <1>8, <2>3 DEF TAILQ_ENTRY_EMPTY
    <3>2. \A k \in Heads : k # h => ~Holds(k, x)
      <4>1. \A k \in Heads : \A j \in 1..Len(q[k]) : q[k][j] = q[h][i] => k = h
        BY DEF Inv, Apart
      <4>2. x = q[h][i]
        BY <1>q, <2>3
      <4> QED
        BY <4>1, <4>2 DEF Holds
    <3>3. ~Holds(h, x)'
      <4>1. \A j \in 1..(n - 1) : w[j] # e
        BY <1>1, <1>4, <1>i, SMTT(40)
      <4> QED
        BY <1>5, <1>q, <2>3, <4>1 DEF Holds
    <3> QED
      BY <2>2, <3>1, <3>2, <3>3
  <2>4. CASE x # e
    <3>1. Holds(h, x)' <=> Holds(h, x)
      <4>1. ASSUME NEW j \in 1..(n - 1) PROVE \E g \in 1..n : w[j] = s[g]
        BY <1>1, <1>4
      <4>2. ASSUME NEW g \in 1..n, g # i PROVE \E j \in 1..(n - 1) : w[j] = s[g]
        <5>1. CASE g < i
          <6>1. g \in 1..(n - 1)
            BY <1>1, <5>1
          <6> QED
            BY <1>4, <5>1, <6>1
        <5>2. CASE ~(g < i)
          <6>1. g - 1 \in 1..(n - 1) /\ ~(g - 1 < i) /\ (g - 1) + 1 = g
            BY <1>1, <4>2, <5>2
          <6> QED
            BY <1>4, <6>1
        <5> QED
          BY <5>1, <5>2
      <4>3. Holds(h, x) <=> \E g \in 1..n : s[g] = x
        BY <1>q DEF Holds
      <4>4. Holds(h, x)' <=> \E j \in 1..(n - 1) : w[j] = x
        BY <1>5, <1>q DEF Holds
      <4> QED
        BY <2>4, <4>1, <4>2, <4>3, <4>4
    <3>2. CASE x # before /\ x # after
      BY <1>8, <2>1, <2>2, <2>4, <3>1, <3>2 DEF TAILQ_ENTRY_EMPTY
    <3>3. CASE x = before \/ x = after
      <4>1. x # h
        BY TailqAssumption
      <4>2. \E g \in 1..n : s[g] = x
        BY <1>1, <3>3, <4>1
      <4>3. Holds(h, x)'
        BY <1>q, <3>1, <4>2 DEF Holds
      <4>4. m'.back[x] # NULL
        <5>1. PICK g \in 1..n : s[g] = x
          BY <4>2
        <5>2. m.back[x] = (IF g = 1 THEN h ELSE s[g - 1]) /\ (g # 1 => g - 1 \in 1..n)
          BY <1>1, <1>2, <5>1
        <5>3. m.back[x] # NULL
          BY <1>1, <5>2, TailqAssumption
        <5> QED
          BY <1>7, <1>8, <2>4, <5>3
      <4> QED
        BY <4>3, <4>4 DEF TAILQ_ENTRY_EMPTY
    <3> QED
      BY <3>2, <3>3
  <2> QED
    BY <2>3, <2>4
<1> QED
  BY <1>5, <1>6, <1>9, <1>10, <1>11, <1>12 DEF Inv, QueuesIntact

\* Over any number of queues and elements the pointers that TAILQ_INSERT_TAIL and
\* TAILQ_REMOVE leave behind are exactly those of the sequences they stand for,
\* and TAILQ_ENTRY_EMPTY tells the elements that are on no queue.
THEOREM TailqCorrect == Spec => [](QueuesIntact /\ EmptyMeansUnlinked)
<1>1. Init => Inv
  <2> SUFFICES ASSUME Init PROVE Inv
    OBVIOUS
  <2>1. \A h \in Heads : q[h] = <<>> /\ Len(q[h]) = 0
    BY DEF Init
  <2>2. /\ \A h \in Heads : m.ptr[h] = NULL /\ m.back[h] = h
        /\ \A e \in Elems : m.ptr[e] = NULL /\ m.back[e] = NULL
    BY TailqAssumption DEF Init, TAILQ_INIT
  <2>3. TypeOK
    BY DEF Init, TypeOK, TAILQ_INIT, TailqMem
  <2>4. QueuesIntact
    BY <2>1, <2>2 DEF QueuesIntact, Represents
  <2> QED
    BY <2>1, <2>2, <2>3, <2>4 DEF Inv, Apart, EmptyMeansUnlinked, TAILQ_ENTRY_EMPTY, Holds
<1>2. Inv /\ [Next]_vars => Inv'
  <2> SUFFICES ASSUME Inv, [Next]_vars PROVE Inv'
    OBVIOUS
  <2>1. CASE UNCHANGED vars
    BY <2>1 DEF vars, Inv, TypeOK, QueuesIntact, Apart, EmptyMeansUnlinked, Holds, Represents, TAILQ_ENTRY_EMPTY
  <2> QED
    BY <2>1, InsertInv, RemoveInv DEF Next
<1>3. Inv => QueuesIntact /\ EmptyMeansUnlinked
  BY DEF Inv
<1> QED
  BY <1>1, <1>2, <1>3, PTL DEF Spec
=============================================================================
