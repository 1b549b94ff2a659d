-------------------------- MODULE Scheduler_proofs --------------------------
(***************************************************************************)
(* The safety invariants of Scheduler for any number of threads, cores and *)
(* wait queues, for a guest that never detaches a thread it joins.  The    *)
(* run scheduler_join shows that this assumption is needed.                *)
(*                                                                         *)
(* The first part is about the operators of ThreadQueues: what they do to  *)
(* the members and to the order of a queue.                                *)
(***************************************************************************)
EXTENDS Scheduler, WellFoundedInduction, SequenceTheorems, TLAPS
-----------------------------------------------------------------------------
(* What the thread queue operations do to the members of a queue, for      *)
(* queues of every length over every set of threads.                       *)

In(q, t) == \E i \in 1..Len(q) : q[i] = t

\* The least-number principle, for a set.
LEMMA LeastNumber ==
    ASSUME NEW T \in SUBSET Nat, T # {}
    PROVE  \E x \in T : \A y \in T : x <= y
<1>1. PICK x \in T : \A y \in T : ~ (<<y, x>> \in OpToRel(<, Nat))
  BY WFMin, NatLessThanWellFounded
<1>2. \A y \in T : ~ (y < x)
  BY <1>1 DEF OpToRel
<1>. QED
  BY <1>2

\* RemoveAt as an explicit sequence.
LEMMA RemoveAtProperties ==
    ASSUME NEW S, NEW q \in Seq(S), NEW i \in 1..Len(q)
    PROVE  /\ RemoveAt(q, i) \in Seq(S)
           /\ Len(RemoveAt(q, i)) = Len(q) - 1
           /\ \A j \in 1..Len(q) - 1 :
                  RemoveAt(q, i)[j] = IF j < i THEN q[j] ELSE q[j + 1]
<1>0. Len(q) \in Nat /\ \A j \in 1..Len(q) : q[j] \in S
  BY LenProperties, ElementOfSeq
<1> DEFINE a == SubSeq(q, 1, i - 1)
           b == SubSeq(q, i + 1, Len(q))
<1>1. a \in Seq(S) /\ Len(a) = i - 1 /\ \A j \in 1..i - 1 : a[j] = q[j]
  BY <1>0, SubSeqProperties
<1>2. b \in Seq(S) /\ Len(b) = Len(q) - i /\ \A j \in 1..Len(q) - i : b[j] = q[i + j]
  BY <1>0, SubSeqProperties
<1> HIDE DEF a, b
<1>3. /\ a \o b \in Seq(S)
      /\ Len(a \o b) = Len(a) + Len(b)
      /\ \A j \in 1..Len(a) + Len(b) :
             (a \o b)[j] = IF j <= Len(a) THEN a[j] ELSE b[j - Len(a)]
  BY <1>1, <1>2, ConcatProperties
<1>4. RemoveAt(q, i) = a \o b
  BY DEF RemoveAt, a, b
<1> DEFINE r == RemoveAt(q, i)
<1>5. r \in Seq(S) /\ Len(r) = Len(q) - 1
  BY <1>0, <1>1, <1>2, <1>3, <1>4
<1>6. ASSUME NEW j \in 1..Len(q) - 1
      PROVE  r[j] = IF j < i THEN q[j] ELSE q[j + 1]
  <2>1. r[j] = IF j <= Len(a) THEN a[j] ELSE b[j - Len(a)]
    BY <1>0, <1>1, <1>2, <1>3, <1>4
  <2>2. CASE j < i
    BY <1>0, <1>1, <2>1, <2>2
  <2>3. CASE j >= i
    <3>1. j - Len(a) \in 1..Len(q) - i /\ i + (j - Len(a)) = j + 1
      BY <1>0, <1>1, <2>3
    <3>. QED
      BY <1>0, <1>1, <1>2, <2>1, <2>3, <3>1
  <2>. QED
    BY <1>0, <2>2, <2>3
<1>. QED
  BY <1>5, <1>6

\* removeThread takes out the one entry of the thread and keeps the others.
LEMMA RemoveThreadProperties ==
    ASSUME NEW S, NEW q \in Seq(S), NoRepeat(q), NEW t
    PROVE  /\ RemoveThread(q, t) \in Seq(S)
           /\ NoRepeat(RemoveThread(q, t))
           /\ Len(RemoveThread(q, t)) = IF In(q, t) THEN Len(q) - 1 ELSE Len(q)
           /\ \A u : In(RemoveThread(q, t), u) <=> In(q, u) /\ u # t
<1>0. Len(q) \in Nat
  BY LenProperties
<1>1. CASE ~ In(q, t)
  BY <1>1 DEF RemoveThread, In
<1>2. CASE In(q, t)
  <2> DEFINE i == CHOOSE k \in 1..Len(q) : q[k] = t
             r == RemoveAt(q, i)
  <2>1. i \in 1..Len(q) /\ q[i] = t
    BY <1>2 DEF In
  <2>2. RemoveThread(q, t) = r
    BY <1>2 DEF RemoveThread, In
  <2> HIDE DEF i
  <2>3. /\ r \in Seq(S) /\ Len(r) = Len(q) - 1
        /\ \A j \in 1..Len(q) - 1 : r[j] = IF j < i THEN q[j] ELSE q[j + 1]
    BY <2>1, RemoveAtProperties
  <2> HIDE DEF r
  <2>4. NoRepeat(r)
    BY <1>0, <2>1, <2>3 DEF NoRepeat
  <2>5. ASSUME NEW u, In(r, u) PROVE In(q, u) /\ u # t
    BY <1>0, <2>1, <2>3, <2>5 DEF NoRepeat, In
  <2>6. ASSUME NEW u, In(q, u), u # t PROVE In(r, u)
    <3>1. PICK k \in 1..Len(q) : q[k] = u
      BY <2>6 DEF In
    <3>2. k # i
      BY <2>1, <2>6, <3>1
    <3>3. CASE k < i
      BY <1>0, <2>1, <2>3, <3>1, <3>3 DEF In
    <3>4. CASE k > i
      <4>1. k - 1 \in 1..Len(q) - 1 /\ r[k - 1] = q[k]
        BY <1>0, <2>1, <2>3, <3>1, <3>4
      <4>. QED
        BY <2>3, <3>1, <4>1 DEF In
    <3>. QED
      BY <1>0, <2>1, <3>1, <3>2, <3>3, <3>4
  <2>. QED
    BY <1>2, <2>2, <2>3, <2>4, <2>5, <2>6
<1>. QED
  BY <1>1, <1>2

\* addThread.
LEMMA AddThreadProperties ==
    ASSUME NEW S, NEW q \in Seq(S), NoRepeat(q), NEW t \in S, ~ In(q, t)
    PROVE  /\ AddThread(q, t) \in Seq(S)
           /\ NoRepeat(AddThread(q, t))
           /\ Len(AddThread(q, t)) = Len(q) + 1
           /\ \A u : In(AddThread(q, t), u) <=> In(q, u) \/ u = t
<1>0. Len(q) \in Nat
  BY LenProperties
<1> DEFINE r == Append(q, t)
<1>1. /\ r \in Seq(S) /\ Len(r) = Len(q) + 1
      /\ \A i \in 1..Len(q) : r[i] = q[i]
      /\ r[Len(q) + 1] = t
  BY AppendProperties
<1> HIDE DEF r
<1>2. NoRepeat(r)
  BY <1>0, <1>1 DEF NoRepeat, In
<1>3. \A u : In(r, u) <=> In(q, u) \/ u = t
  BY <1>0, <1>1 DEF In
<1>. QED
  BY <1>1, <1>2, <1>3 DEF AddThread, r

\* InsertAt as an explicit sequence.
LEMMA InsertAtProperties ==
    ASSUME NEW S, NEW q \in Seq(S), NEW t \in S, NEW i \in 1..Len(q) + 1
    PROVE  /\ InsertAt(q, i, t) \in Seq(S)
           /\ Len(InsertAt(q, i, t)) = Len(q) + 1
           /\ \A j \in 1..Len(q) + 1 :
                  InsertAt(q, i, t)[j] = IF j < i THEN q[j]
                                         ELSE IF j = i THEN t ELSE q[j - 1]
<1>0. Len(q) \in Nat /\ \A j \in 1..Len(q) : q[j] \in S
  BY LenProperties, ElementOfSeq
<1> DEFINE a == SubSeq(q, 1, i - 1)
           m == <<t>>
           b == SubSeq(q, i, Len(q))
<1>1. a \in Seq(S) /\ Len(a) = i - 1 /\ \A j \in 1..i - 1 : a[j] = q[j]
  BY <1>0, SubSeqProperties
<1>2. /\ b \in Seq(S) /\ Len(b) = Len(q) - i + 1
      /\ \A j \in 1..Len(q) - i + 1 : b[j] = q[i + j - 1]
  BY <1>0, SubSeqProperties
<1>3. m \in Seq(S) /\ Len(m) = 1 /\ m[1] = t
  OBVIOUS
<1> HIDE DEF a, b, m
<1> DEFINE am == a \o m
<1>4. /\ am \in Seq(S)
      /\ Len(am) = Len(a) + Len(m)
      /\ \A j \in 1..Len(a) + Len(m) :
             am[j] = IF j <= Len(a) THEN a[j] ELSE m[j - Len(a)]
  BY <1>1, <1>3, ConcatProperties
<1> HIDE DEF am
<1>5. /\ am \o b \in Seq(S)
      /\ Len(am \o b) = Len(am) + Len(b)
      /\ \A j \in 1..Len(am) + Len(b) :
             (am \o b)[j] = IF j <= Len(am) THEN am[j] ELSE b[j - Len(am)]
  <2>1. am \in Seq(S) /\ b \in Seq(S)
    BY <1>4, <1>2
  <2>. QED
    BY <2>1, ConcatProperties
<1>6. InsertAt(q, i, t) = am \o b
  BY DEF InsertAt, a, b, m, am
<1> DEFINE r == InsertAt(q, i, t)
<1>7. r \in Seq(S) /\ Len(r) = Len(q) + 1
  BY <1>0, <1>1, <1>2, <1>3, <1>4, <1>5, <1>6
<1>8. ASSUME NEW j \in 1..Len(q) + 1
      PROVE  r[j] = IF j < i THEN q[j] ELSE IF j = i THEN t ELSE q[j - 1]
  <2>1. r[j] = IF j <= Len(am) THEN am[j] ELSE b[j - Len(am)]
    BY <1>0, <1>1, <1>2, <1>3, <1>4, <1>5, <1>6
  <2>2. CASE j < i
    BY <1>0, <1>1, <1>3, <1>4, <2>1, <2>2
  <2>3. CASE j = i
    BY <1>0, <1>1, <1>3, <1>4, <2>1, <2>3
  <2>4. CASE j > i
    <3>1. Len(am) = i
      BY <1>0, <1>1, <1>3, <1>4
    <3>2. j - i \in 1..Len(q) - i + 1 /\ i + (j - i) - 1 = j - 1
      BY <1>0, <2>4
    <3>3. r[j] = b[j - i]
      BY <1>0, <2>1, <2>4, <3>1
    <3>4. b[j - i] = q[j - 1]
      BY <1>2, <3>2
    <3>. QED
      BY <1>0, <2>4, <3>3, <3>4
  <2>. QED
    BY <1>0, <2>2, <2>3, <2>4
<1>. QED
  BY <1>7, <1>8

\* The position addThreadByPriority looks for exists.
LEMMA InsertPositionExists ==
    ASSUME NEW S, NEW q \in Seq(S), NEW t \in S, NEW prio \in [S -> Nat]
    PROVE  /\ InsertPosition(q, t, prio) \in 1..Len(q) + 1
           /\ \A j \in InsertPosition(q, t, prio)..Len(q) : prio[q[j]] > prio[t]
           /\ InsertPosition(q, t, prio) > 1 =>
                  prio[q[InsertPosition(q, t, prio) - 1]] <= prio[t]
<1>0. Len(q) \in Nat /\ \A j \in 1..Len(q) : q[j] \in S
  BY LenProperties, ElementOfSeq
<1>1. \A j \in 1..Len(q) : prio[q[j]] \in Nat /\ prio[t] \in Nat
  BY <1>0
<1> DEFINE T == {i \in 1..Len(q) + 1 : \A j \in i..Len(q) : prio[q[j]] > prio[t]}
<1>2. T \in SUBSET Nat /\ Len(q) + 1 \in T
  BY <1>0
<1>3. PICK i \in T : \A k \in T : i <= k
  BY <1>2, LeastNumber
<1>4. i > 1 => prio[q[i - 1]] <= prio[t]
  <2> SUFFICES ASSUME i > 1, ~ (prio[q[i - 1]] <= prio[t]) PROVE FALSE
    OBVIOUS
  <2>1. i - 1 \in 1..Len(q) /\ prio[q[i - 1]] > prio[t]
    BY <1>0, <1>1, <1>3
  <2>2. i - 1 \in T
    BY <1>0, <1>3, <2>1
  <2>. QED
    BY <1>0, <1>3, <2>2
<1>. QED
  BY <1>3, <1>4 DEF InsertPosition

\* A sequence r that is q with t inserted at i has the members of q and t.
LEMMA InsertedMembers ==
    ASSUME NEW q, NEW r, NEW t, Len(q) \in Nat, NEW i \in 1..Len(q) + 1,
           Len(r) = Len(q) + 1, ~ In(q, t), NoRepeat(q), r[i] = t,
           \A j \in 1..i - 1 : r[j] = q[j],
           \A j \in i + 1..Len(r) : r[j] = q[j - 1]
    PROVE  NoRepeat(r) /\ \A u : In(r, u) <=> In(q, u) \/ u = t
<1>1. ASSUME NEW j \in 1..Len(r), j # i PROVE r[j] # t
  <2>1. CASE j < i
    <3>1. j \in 1..i - 1 /\ j \in 1..Len(q)
      BY <2>1
    <3>. QED
      BY <3>1 DEF In
  <2>2. CASE j > i
    <3>1. j \in i + 1..Len(r) /\ j - 1 \in 1..Len(q)
      BY <2>2
    <3>. QED
      BY <3>1 DEF In
  <2>. QED
    BY <1>1, <2>1, <2>2
<1>2. NoRepeat(r)
  <2> SUFFICES ASSUME NEW j \in 1..Len(r), NEW k \in 1..Len(r), r[j] = r[k], j < k
               PROVE  FALSE
    BY DEF NoRepeat
  <2>1. j # i /\ k # i
    BY <1>1
  <2>2. CASE k < i
    <3>1. /\ j \in 1..i - 1 /\ j \in 1..Len(q)
          /\ k \in 1..i - 1 /\ k \in 1..Len(q)
      BY <2>2
    <3>. QED
      BY <3>1 DEF NoRepeat
  <2>3. CASE k > i /\ j < i
    <3>1. /\ j \in 1..i - 1 /\ j \in 1..Len(q)
          /\ k \in i + 1..Len(r) /\ k - 1 \in 1..Len(q)
      BY <2>3
    <3>2. q[j] = q[k - 1]
      BY <3>1
    <3>3. j = k - 1
      BY <3>1, <3>2 DEF NoRepeat
    <3>. QED
      BY <2>3, <3>3
  <2>4. CASE k > i /\ j > i
    <3>1. /\ j \in i + 1..Len(r) /\ j - 1 \in 1..Len(q)
          /\ k \in i + 1..Len(r) /\ k - 1 \in 1..Len(q)
      BY <2>4
    <3>2. q[j - 1] = q[k - 1]
      BY <3>1
    <3>3. j - 1 = k - 1
      BY <3>1, <3>2 DEF NoRepeat
    <3>. QED
      BY <3>3
  <2>. QED
    BY <2>1, <2>2, <2>3, <2>4
<1>3. ASSUME NEW k \in 1..Len(r), k # i PROVE In(q, r[k])
  <2>1. CASE k < i
    <3>1. k \in 1..i - 1 /\ k \in 1..Len(q)
      BY <2>1
    <3>. QED
      BY <3>1 DEF In
  <2>2. CASE k > i
    <3>1. k \in i + 1..Len(r) /\ k - 1 \in 1..Len(q)
      BY <2>2
    <3>. QED
      BY <3>1 DEF In
  <2>. QED
    BY <1>3, <2>1, <2>2
<1>4. ASSUME NEW k \in 1..Len(q) PROVE In(r, q[k])
  <2>1. CASE k < i
    <3>1. k \in 1..i - 1 /\ k \in 1..Len(r)
      BY <2>1
    <3>. QED
      BY <3>1 DEF In
  <2>2. CASE k >= i
    <3>1. k + 1 \in i + 1..Len(r) /\ k + 1 \in 1..Len(r) /\ (k + 1) - 1 = k
      BY <2>2
    <3>. QED
      BY <3>1 DEF In
  <2>. QED
    BY <2>1, <2>2
<1>. QED
  BY <1>2, <1>3, <1>4 DEF In

\* addThreadByPriority adds the thread and keeps the others.
LEMMA AddThreadByPriorityProperties ==
    ASSUME NEW S, NEW q \in Seq(S), NoRepeat(q), NEW t \in S, ~ In(q, t),
           NEW prio \in [S -> Nat]
    PROVE  /\ AddThreadByPriority(q, t, prio) \in Seq(S)
           /\ NoRepeat(AddThreadByPriority(q, t, prio))
           /\ \A u : In(AddThreadByPriority(q, t, prio), u) <=> In(q, u) \/ u = t
<1>0. Len(q) \in Nat
  BY LenProperties
<1> DEFINE i == InsertPosition(q, t, prio)
           r == InsertAt(q, i, t)
<1>1. i \in 1..Len(q) + 1
  BY InsertPositionExists
<1> HIDE DEF i
<1>2. /\ r \in Seq(S) /\ Len(r) = Len(q) + 1
      /\ \A j \in 1..Len(q) + 1 :
             r[j] = IF j < i THEN q[j] ELSE IF j = i THEN t ELSE q[j - 1]
  BY <1>1, InsertAtProperties
<1> HIDE DEF r
<1>3. r[i] = t
  BY <1>1, <1>2
<1>4. \A j \in 1..i - 1 : r[j] = q[j]
  BY <1>0, <1>1, <1>2
<1>5. \A j \in i + 1..Len(r) : r[j] = q[j - 1]
  BY <1>0, <1>1, <1>2
<1>6. NoRepeat(r) /\ \A u : In(r, u) <=> In(q, u) \/ u = t
  BY <1>0, <1>1, <1>2, <1>3, <1>4, <1>5, InsertedMembers
<1>. QED
  BY <1>2, <1>6 DEF AddThreadByPriority, r, i

\* A queue sorted by priority stays sorted, and the new thread is behind every
\* thread that is as urgent: waiters of one priority are first come, first
\* served as long as no priority changes.
Sorted(q, prio) == \A i, j \in 1..Len(q) : i < j => prio[q[i]] <= prio[q[j]]

\* addThreadByPriority keeps a sorted queue sorted, with the new thread behind
\* those of its priority.
THEOREM AddThreadByPrioritySorted ==
    ASSUME NEW S, NEW q \in Seq(S), NEW t \in S, NEW prio \in [S -> Nat],
           Sorted(q, prio)
    PROVE  Sorted(AddThreadByPriority(q, t, prio), prio)
<1>0. Len(q) \in Nat /\ \A j \in 1..Len(q) : q[j] \in S
  BY LenProperties, ElementOfSeq
<1>a. prio[t] \in Nat /\ \A j \in 1..Len(q) : prio[q[j]] \in Nat
  BY <1>0
<1> DEFINE i == InsertPosition(q, t, prio)
           r == InsertAt(q, i, t)
<1>1. /\ i \in 1..Len(q) + 1
      /\ \A j \in i..Len(q) : prio[q[j]] > prio[t]
      /\ i > 1 => prio[q[i - 1]] <= prio[t]
  BY InsertPositionExists
<1> HIDE DEF i
<1>2. /\ Len(r) = Len(q) + 1
      /\ \A j \in 1..Len(q) + 1 :
             r[j] = IF j < i THEN q[j] ELSE IF j = i THEN t ELSE q[j - 1]
  BY <1>1, InsertAtProperties
<1> HIDE DEF r
<1>3. \A j \in 1..i - 1 : prio[q[j]] <= prio[t]
  <2> SUFFICES ASSUME NEW j \in 1..i - 1 PROVE prio[q[j]] <= prio[t]
    OBVIOUS
  <2>1. i > 1 /\ j \in 1..Len(q) /\ i - 1 \in 1..Len(q)
    BY <1>0, <1>1
  <2>2. prio[q[j]] <= prio[q[i - 1]]
    BY <1>0, <1>a, <1>1, <2>1 DEF Sorted
  <2>. QED
    BY <1>a, <1>1, <2>1, <2>2
<1>4. ASSUME NEW j \in 1..Len(r), NEW k \in 1..Len(r), j < k
      PROVE  prio[r[j]] <= prio[r[k]]
  <2>1. CASE k < i
    <3>1. r[j] = q[j] /\ r[k] = q[k] /\ j \in 1..Len(q) /\ k \in 1..Len(q)
      BY <1>0, <1>1, <1>2, <1>4, <2>1
    <3>. QED
      BY <1>4, <3>1 DEF Sorted
  <2>2. CASE k = i
    <3>1. r[j] = q[j] /\ r[k] = t /\ j \in 1..i - 1
      BY <1>0, <1>1, <1>2, <1>4, <2>2
    <3>. QED
      BY <1>3, <3>1
  <2>3. CASE k > i
    <3>1. r[k] = q[k - 1] /\ k - 1 \in 1..Len(q) /\ k - 1 \in i..Len(q)
      BY <1>0, <1>1, <1>2, <1>4, <2>3
    <3>2. CASE j < i
      <4>1. r[j] = q[j] /\ j \in 1..i - 1 /\ j \in 1..Len(q)
        BY <1>0, <1>1, <1>2, <1>4, <3>2
      <4>2. prio[q[j]] <= prio[t] /\ prio[q[k - 1]] > prio[t]
        BY <1>1, <1>3, <3>1, <4>1
      <4>3. prio[q[j]] \in Nat /\ prio[q[k - 1]] \in Nat
        BY <1>a, <3>1, <4>1
      <4>. QED
        BY <1>a, <3>1, <4>1, <4>2, <4>3
    <3>3. CASE j = i
      BY <1>0, <1>a, <1>1, <1>2, <1>4, <3>1, <3>3
    <3>4. CASE j > i
      <4>1. r[j] = q[j - 1] /\ j - 1 \in 1..Len(q) /\ j - 1 < k - 1
        BY <1>0, <1>1, <1>2, <1>4, <3>4
      <4>. QED
        BY <3>1, <4>1 DEF Sorted
    <3>. QED
      BY <1>1, <3>2, <3>3, <3>4
  <2>. QED
    BY <1>1, <1>4, <2>1, <2>2, <2>3
<1>. QED
  BY <1>4 DEF Sorted, AddThreadByPriority, r, i

\* __OSGetNextRunableThread finds a member, and none is more urgent.
LEMMA MostUrgentProperties ==
    ASSUME NEW S, NEW q \in Seq(S), q # <<>>, NEW prio \in [S -> Nat]
    PROVE  /\ MostUrgent(q, prio) \in S
           /\ In(q, MostUrgent(q, prio))
           /\ \A u : In(q, u) => prio[MostUrgent(q, prio)] <= prio[u]
<1>0. /\ Len(q) \in Nat \ {0}
      /\ \A j \in 1..Len(q) : q[j] \in S /\ prio[q[j]] \in Nat
  BY LenProperties, ElementOfSeq, EmptySeq
<1> DEFINE T == {prio[q[j]] : j \in 1..Len(q)}
<1>1. T \in SUBSET Nat /\ T # {}
  BY <1>0
<1>2. PICK x \in T : \A y \in T : x <= y
  BY <1>1, LeastNumber
<1> DEFINE I == {j \in 1..Len(q) : prio[q[j]] = x}
<1>3. I \in SUBSET Nat /\ I # {}
  BY <1>0, <1>2
<1>4. PICK i \in I : \A k \in I : i <= k
  BY <1>3, LeastNumber
<1>5. \A j \in 1..Len(q) : prio[q[i]] <= prio[q[j]]
  BY <1>2, <1>4
<1>6. \A j \in 1..i - 1 : prio[q[i]] < prio[q[j]]
  <2> SUFFICES ASSUME NEW j \in 1..i - 1 PROVE prio[q[i]] < prio[q[j]]
    OBVIOUS
  <2>1. j \in 1..Len(q) /\ j \notin I
    BY <1>0, <1>4
  <2>. QED
    BY <1>0, <1>4, <1>5, <2>1
<1> DEFINE m == CHOOSE k \in 1..Len(q) :
                  /\ \A j \in 1..Len(q) : prio[q[k]] <= prio[q[j]]
                  /\ \A j \in 1..k - 1 : prio[q[k]] < prio[q[j]]
<1>7. m \in 1..Len(q) /\ \A j \in 1..Len(q) : prio[q[m]] <= prio[q[j]]
  BY <1>4, <1>5, <1>6
<1>8. MostUrgent(q, prio) = q[m]
  BY DEF MostUrgent
<1> HIDE DEF m
<1>. QED
  BY <1>0, <1>7, <1>8 DEF In
-----------------------------------------------------------------------------
(* The invariant.                                                          *)

\* No thread is both joined and detached.
JoinDiscipline == Joinable \cap Detachable = {}

\* The structures the guest has started and not yet lost are the active ones,
\* and only threads the guest detaches are detached.
ActiveExact ==
    /\ active = {t \in Thread : state[t] # "NONE"}
    /\ \A t \in Thread : detached[t] => t \in Detachable

\* An idle fiber that is not switched out has the core, and the holder of the
\* lock has the thread its next step works on.
LockInv ==
    /\ \A c \in Core : idle[c] # "off" => current[c] = NoThread
    /\ held.op \in {"switch", "reap"} => current[held.core] # NoThread
    /\ held.op = "pick" => current[held.core] = NoThread
    /\ held.op = "wake" /\ held.then = "exit" =>
           /\ current[held.core] # NoThread
           /\ held.queue = JoinQueue(current[held.core])
    /\ held.op = "wake" /\ held.should => current[held.core] # NoThread
    /\ \A t \in Thread : held.op = "wake" /\ held.queue = JoinQueue(t) =>
           t \in Detachable \/ held.then = "exit"

\* Every wait queue holds a thread once and shares it with no other queue.
WaitInv ==
    /\ \A q \in Queue : NoRepeat(waitQueue[q])
    /\ \A q \in Queue, t \in Thread : In(waitQueue[q], t) =>
           /\ state[t] = "WAITING"
           /\ \A r \in Queue : In(waitQueue[r], t) => r = q
    /\ \A t \in Thread : state[t] = "WAITING" =>
           \E q \in Queue : In(waitQueue[q], t)

\* A joiner is in the join queue until the joined thread, while it exits, wakes
\* it; from then on the joined thread is and stays moribund.
JoinInv ==
    \A u \in Thread : joining[u] # NoThread =>
        LET t == joining[u] IN
        /\ t \in Joinable
        /\ state[u] \in {"WAITING", "READY", "RUNNING"}
        /\ state[u] = "RUNNING" => held.op = "reap" /\ current[held.core] = u
        /\ \A v \in Thread : joining[v] = t => v = u
        /\ \/ In(waitQueue[JoinQueue(t)], u)
           \/ state[t] = "MORIBUND"
           \/ /\ held.op = "wake" /\ held.then = "exit"
              /\ current[held.core] = t

ReapInv == held.op = "reap" => joining[current[held.core]] # NoThread

IInv ==
    /\ TypeOK /\ RunQueuesExact /\ RunningOnOneCore
    /\ ActiveExact /\ LockInv /\ WaitInv /\ JoinInv /\ ReapInv
-----------------------------------------------------------------------------
LEMMA HeldTypes ==
    /\ Free \in Held
    /\ \A c \in Core : ToSwitch(c) \in Held /\ ToPick(c) \in Held /\ ToReap(c) \in Held
    /\ \A c \in Core, q \in Queue, r, s \in BOOLEAN, th \in {"return", "exit"} :
           ToWake(c, q, r, s, th) \in Held
BY DEF Free, ToSwitch, ToPick, ToReap, ToWake, Held

LEMMA QueueTypes ==
    /\ \A t \in Thread : JoinQueue(t) \in Queue /\ SleepQueue(t) \in Queue
    /\ WaitQueue \subseteq Queue
    /\ \A t, u \in Thread : JoinQueue(t) # SleepQueue(u)
    /\ \A t, u \in Thread : JoinQueue(t) = JoinQueue(u) => t = u
    /\ \A t \in Thread, q \in WaitQueue : q # JoinQueue(t)
BY SchedulerAssumption DEF JoinQueue, SleepQueue, Queue

\* Run queues that are sequences of distinct threads with the right counts.
QueuesOK(rq, n) ==
    /\ rq \in [Core -> Seq(Thread)] /\ n \in [Core -> Nat]
    /\ \A c \in Core : NoRepeat(rq[c]) /\ n[c] = Len(rq[c])

LEMMA RunQueuesExactDef ==
    ASSUME TypeOK
    PROVE  RunQueuesExact <=>
             /\ QueuesOK(runQueue, count)
             /\ \A c \in Core, t \in Thread :
                    In(runQueue[c], t) <=> Runnable(t) /\ c \in affinity[t]
BY DEF TypeOK, RunQueuesExact, QueuesOK, OnQueue, In

LEMMA AddReadyThreadStep ==
    ASSUME QueuesOK(runQueue, count), NEW t \in Thread, NEW st, NEW su,
           NEW af, AddReadyThread(t, st, su, af)
    PROVE  /\ QueuesOK(runQueue', count')
           /\ \A c \in Core : \A u \in Thread : In(runQueue'[c], u) <=>
                  \/ In(runQueue[c], u)
                  \/ u = t /\ st[t] = "READY" /\ su[t] = 0 /\ c \in af[t]
<1> DEFINE new == NewCores(t, st, su, af)
<1>1. /\ runQueue' = [c \in Core |-> IF c \in new THEN AddThread(runQueue[c], t)
                                     ELSE runQueue[c]]
      /\ count' = [c \in Core |-> IF c \in new THEN count[c] + 1 ELSE count[c]]
  BY DEF AddReadyThread
<1>2. ASSUME NEW c \in Core
      PROVE  c \in new <=> /\ st[t] = "READY" /\ su[t] = 0 /\ c \in af[t]
                           /\ ~ In(runQueue[c], t)
  BY DEF NewCores, In
<1> HIDE DEF new
<1>3. ASSUME NEW c \in Core
      PROVE  /\ runQueue'[c] \in Seq(Thread) /\ count'[c] \in Nat
             /\ NoRepeat(runQueue'[c]) /\ count'[c] = Len(runQueue'[c])
             /\ \A u \in Thread : In(runQueue'[c], u) <=>
                  \/ In(runQueue[c], u)
                  \/ u = t /\ st[t] = "READY" /\ su[t] = 0 /\ c \in af[t]
  <2>1. /\ runQueue[c] \in Seq(Thread) /\ NoRepeat(runQueue[c])
        /\ count[c] = Len(runQueue[c]) /\ count[c] \in Nat
    BY DEF QueuesOK
  <2>2. CASE c \in new
    <3>1. ~ In(runQueue[c], t) /\ st[t] = "READY" /\ su[t] = 0 /\ c \in af[t]
      BY <1>2, <2>2
    <3>2. runQueue'[c] = AddThread(runQueue[c], t) /\ count'[c] = count[c] + 1
      BY <1>1, <2>2
    <3>. QED
      BY <2>1, <3>1, <3>2, AddThreadProperties
  <2>3. CASE c \notin new
    <3>1. runQueue'[c] = runQueue[c] /\ count'[c] = count[c]
      BY <1>1, <2>3
    <3>. QED
      BY <1>2, <2>1, <2>3, <3>1
  <2>. QED
    BY <2>2, <2>3
<1>4. runQueue' \in [Core -> Seq(Thread)] /\ count' \in [Core -> Nat]
  BY <1>1, <1>3
<1>. QED
  BY <1>3, <1>4 DEF QueuesOK

LEMMA RemoveFromRunQueuesStep ==
    ASSUME QueuesOK(runQueue, count), NEW t \in Thread, RemoveFromRunQueues(t)
    PROVE  /\ QueuesOK(runQueue', count')
           /\ \A c \in Core : \A u \in Thread :
                  In(runQueue'[c], u) <=> In(runQueue[c], u) /\ u # t
<1>1. ASSUME NEW c \in Core
      PROVE  /\ runQueue'[c] \in Seq(Thread) /\ count'[c] \in Nat
             /\ NoRepeat(runQueue'[c]) /\ count'[c] = Len(runQueue'[c])
             /\ \A u \in Thread : In(runQueue'[c], u) <=> In(runQueue[c], u) /\ u # t
  <2>1. /\ runQueue[c] \in Seq(Thread) /\ NoRepeat(runQueue[c])
        /\ count[c] = Len(runQueue[c]) /\ Len(runQueue[c]) \in Nat
    BY LenProperties DEF QueuesOK
  <2>2. /\ runQueue'[c] = RemoveThread(runQueue[c], t)
        /\ count'[c] = IF In(runQueue[c], t) THEN count[c] - 1 ELSE count[c]
    BY DEF RemoveFromRunQueues, OnQueue, In
  <2>3. In(runQueue[c], t) => Len(runQueue[c]) > 0
    BY <2>1 DEF In
  <2>. QED
    BY <2>1, <2>2, <2>3, RemoveThreadProperties
<1>2. runQueue' \in [Core -> Seq(Thread)] /\ count' \in [Core -> Nat]
  BY <1>1 DEF RemoveFromRunQueues
<1>. QED
  BY <1>1, <1>2 DEF QueuesOK
-----------------------------------------------------------------------------
(* What the actions that queue or wake a thread do to the wait queues. *)

LEMMA IInvParts ==
    ASSUME IInv
    PROVE  /\ \A d \in Core : current[d] \in Thread \cup {NoThread}
           /\ TypeOK /\ RunQueuesExact /\ RunningOnOneCore /\ ActiveExact
           /\ LockInv /\ WaitInv /\ JoinInv /\ ReapInv
           /\ QueuesOK(runQueue, count)
           /\ \A d \in Core, u \in Thread :
                  In(runQueue[d], u) <=> Runnable(u) /\ d \in affinity[u]
BY RunQueuesExactDef DEF IInv, TypeOK

\* The converse for the run queues of the next state.
LEMMA RunQueuesExactNext ==
    ASSUME QueuesOK(runQueue', count'),
           \A d \in Core, u \in Thread :
               In(runQueue'[d], u) <=>
                   /\ state'[u] = "READY" /\ suspend'[u] = 0 /\ d \in affinity'[u]
    PROVE  RunQueuesExact'
BY DEF RunQueuesExact, QueuesOK, OnQueue, In, Runnable

\* The thread on a core whose guest calls coreinit is running.
LEMMA CallsRunning ==
    ASSUME IInv, NEW c \in Core, Calls(c)
    PROVE  /\ current[c] \in Thread /\ state[current[c]] = "RUNNING"
           /\ joining[current[c]] = NoThread
           /\ held.op = "free"
BY IInvParts DEF Calls, Free, TypeOK, RunningOnOneCore, Holding, JoinInv

LEMMA QueueAndWaitStep ==
    ASSUME TypeOK, WaitInv, NEW c \in Core, NEW q \in Queue,
           current[c] \in Thread, state[current[c]] = "RUNNING",
           QueueAndWait(c, q)
    PROVE  /\ waitQueue' \in [Queue -> Seq(Thread)]
           /\ \A r \in Queue : NoRepeat(waitQueue'[r])
           /\ \A r \in Queue, u \in Thread : In(waitQueue'[r], u) <=>
                  \/ In(waitQueue[r], u)
                  \/ r = q /\ u = current[c]
           /\ WaitInv'
<1> DEFINE t == current[c]
<1>1. priority \in [Thread -> Nat]
  BY SchedulerAssumption DEF TypeOK
<1>2. /\ waitQueue[q] \in Seq(Thread) /\ NoRepeat(waitQueue[q])
      /\ \A r \in Queue : ~ In(waitQueue[r], t)
  BY DEF TypeOK, WaitInv
<1>3. /\ waitQueue' = [waitQueue EXCEPT ![q] =
                          AddThreadByPriority(waitQueue[q], t, priority)]
      /\ state' = [state EXCEPT ![t] = "WAITING"]
  BY DEF QueueAndWait
<1>4. /\ AddThreadByPriority(waitQueue[q], t, priority) \in Seq(Thread)
      /\ NoRepeat(AddThreadByPriority(waitQueue[q], t, priority))
      /\ \A u : In(AddThreadByPriority(waitQueue[q], t, priority), u)
                    <=> In(waitQueue[q], u) \/ u = t
  BY <1>1, <1>2, AddThreadByPriorityProperties
<1>5. /\ waitQueue' \in [Queue -> Seq(Thread)]
      /\ \A r \in Queue : NoRepeat(waitQueue'[r])
      /\ \A r \in Queue, u \in Thread : In(waitQueue'[r], u) <=>
             \/ In(waitQueue[r], u)
             \/ r = q /\ u = t
  <2>1. waitQueue' \in [Queue -> Seq(Thread)]
    BY <1>3, <1>4 DEF TypeOK
  <2>2. ASSUME NEW r \in Queue
        PROVE  /\ NoRepeat(waitQueue'[r])
               /\ \A u \in Thread : In(waitQueue'[r], u) <=>
                      \/ In(waitQueue[r], u)
                      \/ r = q /\ u = t
    <3>1. CASE r = q
      <4>1. waitQueue'[r] = AddThreadByPriority(waitQueue[q], t, priority)
        BY <1>3, <3>1 DEF TypeOK
      <4>. QED
        BY <1>4, <3>1, <4>1
    <3>2. CASE r # q
      <4>1. waitQueue'[r] = waitQueue[r]
        BY <1>3, <3>2 DEF TypeOK
      <4>. QED
        BY <3>2, <4>1 DEF WaitInv
    <3>. QED
      BY <3>1, <3>2
  <2>. QED
    BY <2>1, <2>2
<1>6. WaitInv'
  <2>1. \A u \in Thread : state'[u] = IF u = t THEN "WAITING" ELSE state[u]
    BY <1>3 DEF TypeOK
  <2>2. ASSUME NEW r \in Queue, NEW u \in Thread, In(waitQueue'[r], u)
        PROVE  /\ state'[u] = "WAITING"
               /\ \A s \in Queue : In(waitQueue'[s], u) => s = r
    BY <1>2, <1>5, <2>1, <2>2 DEF WaitInv
  <2>3. ASSUME NEW u \in Thread, state'[u] = "WAITING"
        PROVE  \E r \in Queue : In(waitQueue'[r], u)
    BY <1>5, <2>1, <2>3 DEF WaitInv
  <2>. QED
    BY <1>5, <2>2, <2>3 DEF WaitInv
<1>. QED
  BY <1>5, <1>6

LEMMA WakeThreadStep ==
    ASSUME TypeOK, RunQueuesExact, WaitInv, NEW q \in Queue, NEW t \in Thread,
           In(waitQueue[q], t), WakeThread(q, t)
    PROVE  /\ waitQueue' \in [Queue -> Seq(Thread)]
           /\ \A r \in Queue, u \in Thread :
                  In(waitQueue'[r], u) <=> In(waitQueue[r], u) /\ u # t
           /\ state[t] = "WAITING" /\ state' = [state EXCEPT ![t] = "READY"]
           /\ WaitInv'
           /\ QueuesOK(runQueue', count')
           /\ \A d \in Core, u \in Thread : In(runQueue'[d], u) <=>
                  \/ In(runQueue[d], u)
                  \/ u = t /\ suspend[t] = 0 /\ d \in affinity[t]
<1>1. /\ waitQueue[q] \in Seq(Thread) /\ NoRepeat(waitQueue[q])
      /\ state[t] = "WAITING"
      /\ \A r \in Queue : In(waitQueue[r], t) => r = q
  BY DEF TypeOK, WaitInv
<1>2. /\ waitQueue' = [waitQueue EXCEPT ![q] = RemoveThread(waitQueue[q], t)]
      /\ state' = [state EXCEPT ![t] = "READY"]
      /\ AddReadyThread(t, state', suspend, affinity)
  BY DEF WakeThread
<1>3. /\ RemoveThread(waitQueue[q], t) \in Seq(Thread)
      /\ NoRepeat(RemoveThread(waitQueue[q], t))
      /\ \A u : In(RemoveThread(waitQueue[q], t), u) <=> In(waitQueue[q], u) /\ u # t
  BY <1>1, RemoveThreadProperties
<1>4. waitQueue' \in [Queue -> Seq(Thread)]
  BY <1>2, <1>3 DEF TypeOK
<1>5. ASSUME NEW r \in Queue
      PROVE  /\ NoRepeat(waitQueue'[r])
             /\ \A u \in Thread :
                    In(waitQueue'[r], u) <=> In(waitQueue[r], u) /\ u # t
  <2>1. CASE r = q
    <3>1. waitQueue'[r] = RemoveThread(waitQueue[q], t)
      BY <1>2, <2>1 DEF TypeOK
    <3>. QED
      BY <1>3, <2>1, <3>1
  <2>2. CASE r # q
    <3>1. waitQueue'[r] = waitQueue[r]
      BY <1>2, <2>2 DEF TypeOK
    <3>. QED
      BY <1>1, <2>2, <3>1 DEF WaitInv
  <2>. QED
    BY <2>1, <2>2
<1>6. \A u \in Thread : state'[u] = IF u = t THEN "READY" ELSE state[u]
  BY <1>2 DEF TypeOK
<1>7. WaitInv'
  <2>1. ASSUME NEW r \in Queue, NEW u \in Thread, In(waitQueue'[r], u)
        PROVE  /\ state'[u] = "WAITING"
               /\ \A s \in Queue : In(waitQueue'[s], u) => s = r
    BY <1>5, <1>6, <2>1 DEF WaitInv
  <2>2. ASSUME NEW u \in Thread, state'[u] = "WAITING"
        PROVE  \E r \in Queue : In(waitQueue'[r], u)
    BY <1>5, <1>6, <2>2 DEF WaitInv
  <2>. QED
    BY <1>5, <2>1, <2>2 DEF WaitInv
<1>8. QueuesOK(runQueue, count)
  BY RunQueuesExactDef
<1>9. /\ QueuesOK(runQueue', count')
      /\ \A d \in Core, u \in Thread : In(runQueue'[d], u) <=>
             \/ In(runQueue[d], u)
             \/ u = t /\ suspend[t] = 0 /\ d \in affinity[t]
  <2>1. state'[t] = "READY"
    BY <1>6
  <2>2. AddReadyThread(t, state', suspend, affinity)
    BY <1>2
  <2>3. /\ QueuesOK(runQueue', count')
        /\ \A d \in Core : \A u \in Thread : In(runQueue'[d], u) <=>
               \/ In(runQueue[d], u)
               \/ /\ u = t /\ state'[t] = "READY"
                  /\ suspend[t] = 0 /\ d \in affinity[t]
    BY <1>8, <2>2, AddReadyThreadStep
  <2>. QED
    BY <2>1, <2>3
<1>. QED
  BY <1>1, <1>2, <1>4, <1>5, <1>7, <1>9
-----------------------------------------------------------------------------
(* The actions that only take, hand on or release the lock, or move an idle *)
(* fiber.                                                                    *)

LEMMA OnlyLockStep ==
    ASSUME IInv, TypeOK', LockInv',
           state' = state, suspend' = suspend, affinity' = affinity,
           detached' = detached, active' = active, runQueue' = runQueue,
           count' = count, current' = current, waitQueue' = waitQueue,
           joining' = joining,
           \/ held' = held
           \/ /\ held.op \notin {"switch", "reap"} /\ held'.op # "reap"
              /\ held.op = "wake" => held.then # "exit"
    PROVE  IInv'
<1>1. RunQueuesExact'
  BY DEF IInv, RunQueuesExact, OnQueue, Runnable
<1>2. RunningOnOneCore' /\ ActiveExact'
  BY DEF IInv, RunningOnOneCore, ActiveExact, Holding
<1>3. WaitInv'
  BY DEF IInv, WaitInv, In
<1>4. JoinInv'
  BY DEF IInv, JoinInv, In
<1>5. ReapInv'
  BY DEF IInv, ReapInv
<1>. QED
  BY <1>1, <1>2, <1>3, <1>4, <1>5 DEF IInv

LEMMA OSExitThreadStep ==
    ASSUME IInv, NEW c \in Core,
           OSExitThread(c)
    PROVE  IInv'
<1>1. TypeOK /\ LockInv
  BY IInvParts
<1>2. /\ current[c] \in Thread /\ state[current[c]] = "RUNNING"
      /\ held.op = "free" /\ held = Free /\ current[c] # NoThread
  BY CallsRunning DEF OSExitThread, Calls
<1>3. TypeOK'
  BY <1>1, <1>2, HeldTypes, QueueTypes, SchedulerAssumption
     DEF TypeOK, OSExitThread, threadVars, queueVars, IdleState
<1>4. LockInv'
  BY <1>1, <1>2, QueueTypes, SchedulerAssumption
     DEF LockInv, TypeOK, OSExitThread, threadVars, queueVars, ToWake
<1>. QED
  BY <1>1, <1>2, <1>3, <1>4, OnlyLockStep DEF OSExitThread, threadVars, queueVars, ToWake

LEMMA OSYieldThreadStep ==
    ASSUME IInv, NEW c \in Core,
           OSYieldThread(c)
    PROVE  IInv'
<1>1. TypeOK /\ LockInv
  BY IInvParts
<1>2. /\ current[c] \in Thread /\ state[current[c]] = "RUNNING"
      /\ held.op = "free" /\ held = Free /\ current[c] # NoThread
  BY CallsRunning DEF OSYieldThread, Calls
<1>3. TypeOK'
  BY <1>1, <1>2, HeldTypes, QueueTypes, SchedulerAssumption
     DEF TypeOK, OSYieldThread, threadVars, queueVars, IdleState
<1>4. LockInv'
  BY <1>1, <1>2, QueueTypes, SchedulerAssumption
     DEF LockInv, TypeOK, OSYieldThread, threadVars, queueVars, ToSwitch
<1>. QED
  BY <1>1, <1>2, <1>3, <1>4, OnlyLockStep DEF OSYieldThread, threadVars, queueVars, ToSwitch

LEMMA OSWakeupThreadStep ==
    ASSUME IInv, NEW c \in Core, NEW q \in WaitQueue,
           OSWakeupThread(c, q)
    PROVE  IInv'
<1>1. TypeOK /\ LockInv
  BY IInvParts
<1>2. /\ current[c] \in Thread /\ state[current[c]] = "RUNNING"
      /\ held.op = "free" /\ held = Free /\ current[c] # NoThread
  BY CallsRunning DEF OSWakeupThread, Calls
<1>3. TypeOK'
  BY <1>1, <1>2, HeldTypes, QueueTypes, SchedulerAssumption
     DEF TypeOK, OSWakeupThread, threadVars, queueVars, IdleState
<1>4. LockInv'
  BY <1>1, <1>2, QueueTypes, SchedulerAssumption
     DEF LockInv, TypeOK, OSWakeupThread, threadVars, queueVars, ToWake
<1>. QED
  BY <1>1, <1>2, <1>3, <1>4, OnlyLockStep DEF OSWakeupThread, threadVars, queueVars, ToWake

LEMMA OSSetThreadPriorityStep ==
    ASSUME IInv, NEW c \in Core, NEW t \in Thread, NEW prio \in Priority,
           OSSetThreadPriority(c, t, prio)
    PROVE  IInv'
<1>1. TypeOK /\ LockInv
  BY IInvParts
<1>2. /\ current[c] \in Thread /\ state[current[c]] = "RUNNING"
      /\ held.op = "free" /\ held = Free /\ current[c] # NoThread
  BY CallsRunning DEF OSSetThreadPriority, Calls
<1>3. TypeOK'
  BY <1>1, <1>2, HeldTypes, QueueTypes, SchedulerAssumption
     DEF TypeOK, OSSetThreadPriority, SwitchIf, queueVars, IdleState
<1>4. LockInv'
  BY <1>1, <1>2, QueueTypes, SchedulerAssumption
     DEF LockInv, TypeOK, OSSetThreadPriority, SwitchIf, queueVars, ToSwitch, Free
<1>. QED
  BY <1>1, <1>2, <1>3, <1>4, OnlyLockStep DEF OSSetThreadPriority, SwitchIf, queueVars, ToSwitch, Free

LEMMA OSCancelThreadStep ==
    ASSUME IInv, NEW c \in Core, NEW t \in Thread,
           OSCancelThread(c, t)
    PROVE  IInv'
<1>1. TypeOK /\ LockInv
  BY IInvParts
<1>2. /\ current[c] \in Thread /\ state[current[c]] = "RUNNING"
      /\ held.op = "free" /\ held = Free /\ current[c] # NoThread
  BY CallsRunning DEF OSCancelThread, Calls
<1>3. TypeOK'
  BY <1>1, <1>2, HeldTypes, QueueTypes, SchedulerAssumption
     DEF TypeOK, OSCancelThread, queueVars, IdleState
<1>4. LockInv'
  BY <1>1, <1>2, QueueTypes, SchedulerAssumption
     DEF LockInv, TypeOK, OSCancelThread, queueVars, ToWake, Free
<1>. QED
  BY <1>1, <1>2, <1>3, <1>4, OnlyLockStep DEF OSCancelThread, queueVars, ToWake, Free

LEMMA WakeReturnStep ==
    ASSUME IInv, NEW c \in Core,
           WakeReturn(c)
    PROVE  IInv'
<1>1. TypeOK /\ LockInv
  BY IInvParts
<1>3. TypeOK'
  BY <1>1, HeldTypes, QueueTypes, SchedulerAssumption
     DEF TypeOK, WakeReturn, Holding, SwitchIf, threadVars, queueVars, IdleState
<1>4. LockInv'
  <2>1. CASE held.should
    BY <1>1, <2>1 DEF LockInv, TypeOK, WakeReturn, Holding, SwitchIf, ToSwitch
  <2>2. CASE ~ held.should
    BY <1>1, <2>2 DEF LockInv, TypeOK, WakeReturn, Holding, SwitchIf, Free
  <2>. QED
    BY <2>1, <2>2
<1>. QED
  BY <1>1, <1>3, <1>4, OnlyLockStep DEF WakeReturn, Holding, SwitchIf, threadVars, queueVars, ToSwitch, Free

LEMMA PickNothingStep ==
    ASSUME IInv, NEW c \in Core,
           PickNothing(c)
    PROVE  IInv'
<1>1. TypeOK /\ LockInv
  BY IInvParts
<1>3. TypeOK'
  BY <1>1, HeldTypes, QueueTypes, SchedulerAssumption
     DEF TypeOK, PickNothing, Holding, Rest, threadVars, queueVars, IdleState
<1>4. LockInv'
  BY <1>1, QueueTypes, SchedulerAssumption
     DEF LockInv, TypeOK, PickNothing, Holding, Rest, threadVars, queueVars, Free
<1>. QED
  BY <1>1, <1>3, <1>4, OnlyLockStep DEF PickNothing, Holding, Rest, threadVars, queueVars, Free

LEMMA IdleCheckStep ==
    ASSUME IInv, NEW c \in Core,
           IdleCheck(c)
    PROVE  IInv'
<1>1. TypeOK /\ LockInv
  BY IInvParts
<1>3. TypeOK'
  BY <1>1, HeldTypes, QueueTypes, SchedulerAssumption
     DEF TypeOK, IdleCheck, Rest, threadVars, queueVars, IdleState
<1>4. LockInv'
  BY <1>1, QueueTypes, SchedulerAssumption
     DEF LockInv, TypeOK, IdleCheck, Rest, threadVars, queueVars, Free
<1>. QED
  BY <1>1, <1>3, <1>4, OnlyLockStep DEF IdleCheck, Rest, threadVars, queueVars, Free

LEMMA IdleLockStep ==
    ASSUME IInv, NEW c \in Core,
           IdleLock(c)
    PROVE  IInv'
<1>1. TypeOK /\ LockInv
  BY IInvParts
<1>3. TypeOK'
  BY <1>1, HeldTypes, QueueTypes, SchedulerAssumption
     DEF TypeOK, IdleLock, threadVars, queueVars, IdleState
<1>4. LockInv'
  BY <1>1, QueueTypes, SchedulerAssumption
     DEF LockInv, TypeOK, IdleLock, threadVars, queueVars, Free, ToPick
<1>. QED
  BY <1>1, <1>3, <1>4, OnlyLockStep DEF IdleLock, threadVars, queueVars, Free, ToPick

LEMMA IdleWakeStep ==
    ASSUME IInv, NEW c \in Core,
           IdleWake(c)
    PROVE  IInv'
<1>1. TypeOK /\ LockInv
  BY IInvParts
<1>3. TypeOK'
  BY <1>1, HeldTypes, QueueTypes, SchedulerAssumption
     DEF TypeOK, IdleWake, threadVars, queueVars, IdleState
<1>4. LockInv'
  BY <1>1, QueueTypes, SchedulerAssumption
     DEF LockInv, TypeOK, IdleWake, threadVars, queueVars, Free
<1>. QED
  BY <1>1, <1>3, <1>4, OnlyLockStep DEF IdleWake, threadVars, queueVars, Free

LEMMA AlarmWakeStep ==
    ASSUME IInv, NEW t \in Thread, AlarmWake(t)
    PROVE  IInv'
<1>1. TypeOK /\ LockInv
  BY IInvParts
<1>3. TypeOK'
  BY <1>1, HeldTypes, QueueTypes, SchedulerAssumption
     DEF TypeOK, AlarmWake, threadVars, queueVars, IdleState
<1>4. LockInv'
  BY <1>1, QueueTypes, SchedulerAssumption
     DEF LockInv, TypeOK, AlarmWake, threadVars, queueVars, Free, ToWake
<1>. QED
  BY <1>1, <1>3, <1>4, OnlyLockStep DEF AlarmWake, threadVars, queueVars, Free, ToWake

LEMMA EventsDoneStep ==
    ASSUME IInv, EventsDone
    PROVE  IInv'
<1>1. TypeOK /\ LockInv
  BY IInvParts
<1>3. TypeOK'
  BY <1>1, HeldTypes, QueueTypes, SchedulerAssumption
     DEF TypeOK, EventsDone, threadVars, queueVars, IdleState
<1>4. LockInv'
  BY <1>1, QueueTypes, SchedulerAssumption
     DEF LockInv, TypeOK, EventsDone, threadVars, queueVars, Free
<1>. QED
  BY <1>1, <1>3, <1>4, OnlyLockStep DEF EventsDone, threadVars, queueVars, Free
-----------------------------------------------------------------------------
(* The actions that change the state of a thread. *)

LEMMA StoreThreadStep ==
    ASSUME JoinDiscipline, IInv, NEW c \in Core, StoreThread(c)
    PROVE  IInv'
<1> DEFINE t == current[c]
<1>1. /\ TypeOK /\ RunningOnOneCore /\ ActiveExact /\ LockInv /\ WaitInv
      /\ JoinInv /\ ReapInv /\ QueuesOK(runQueue, count)
      /\ \A d \in Core, u \in Thread :
             In(runQueue[d], u) <=> Runnable(u) /\ d \in affinity[u]
  BY RunQueuesExactDef DEF IInv
<1>2. t \in Thread /\ held.op = "switch" /\ held.core = c
  BY <1>1 DEF StoreThread, Holding, LockInv, TypeOK
<1>3. state' = IF state[t] = "RUNNING" THEN [state EXCEPT ![t] = "READY"] ELSE state
  BY DEF StoreThread
<1>4. /\ QueuesOK(runQueue', count')
      /\ \A d \in Core, u \in Thread :
             In(runQueue'[d], u) <=>
                 \/ In(runQueue[d], u)
                 \/ /\ u = t /\ state[t] = "RUNNING"
                    /\ suspend[t] = 0 /\ d \in affinity[t]
  <2>1. CASE state[t] = "RUNNING"
    <3>1. AddReadyThread(t, state', suspend, affinity)
      BY <2>1 DEF StoreThread
    <3>2. state'[t] = "READY"
      BY <1>1, <1>2, <1>3, <2>1 DEF TypeOK
    <3>. QED
      BY <1>1, <1>2, <2>1, <3>1, <3>2, AddReadyThreadStep
  <2>2. CASE state[t] # "RUNNING"
    BY <1>1, <2>2 DEF StoreThread, QueuesOK, In
  <2>. QED
    BY <2>1, <2>2
<1>5. TypeOK'
  BY <1>1, <1>2, <1>3, <1>4, HeldTypes DEF TypeOK, StoreThread, QueuesOK, ThreadState, IdleState
<1>6. RunQueuesExact'
  <2>1. \A d \in Core, u \in Thread :
             In(runQueue'[d], u) <=> Runnable(u)' /\ d \in affinity'[u]
    BY <1>1, <1>2, <1>3, <1>4 DEF Runnable, StoreThread, TypeOK
  <2>. QED
    BY <1>4, <2>1 DEF RunQueuesExact, QueuesOK, OnQueue, In
<1>7. RunningOnOneCore'
  BY <1>1, <1>2, <1>3 DEF RunningOnOneCore, StoreThread, TypeOK, Holding
<1>8. ActiveExact'
  BY <1>1, <1>2, <1>3 DEF ActiveExact, StoreThread, TypeOK, ThreadState
<1>9. LockInv'
  BY <1>1, <1>2, <1>3 DEF LockInv, StoreThread, TypeOK, Free, ToPick
<1>10. WaitInv'
  BY <1>1, <1>2, <1>3 DEF WaitInv, StoreThread, TypeOK
<1>11. JoinInv'
  BY <1>1, <1>2, <1>3 DEF JoinInv, StoreThread, TypeOK
<1>12. ReapInv'
  BY <1>1, <1>2 DEF ReapInv, StoreThread, Free, ToPick
<1>. QED
  BY <1>5, <1>6, <1>7, <1>8, <1>9, <1>10, <1>11, <1>12 DEF IInv

LEMMA HeadIn ==
    ASSUME NEW S, NEW q \in Seq(S), q # <<>>
    PROVE  Head(q) \in S /\ In(q, Head(q))
<1>1. Len(q) \in Nat \ {0} /\ Head(q) = q[1] /\ Head(q) \in S
  BY HeadTailProperties, EmptySeq, LenProperties
<1>. QED
  BY <1>1 DEF In
-----------------------------------------------------------------------------
(* Thread creation and termination. *)

LEMMA OSCreateThreadStep ==
    ASSUME JoinDiscipline, IInv, NEW c \in Core, NEW t \in Thread, NEW entry \in BOOLEAN,
           NEW mask \in Mask, NEW prio \in Priority, NEW detach \in BOOLEAN,
           OSCreateThread(c, t, entry, mask, prio, detach)
    PROVE  IInv'
<1>1. /\ \A d \in Core : current[d] \in Thread \cup {NoThread}
      /\ TypeOK /\ RunQueuesExact /\ RunningOnOneCore /\ ActiveExact
      /\ LockInv /\ WaitInv /\ JoinInv /\ ReapInv
      /\ QueuesOK(runQueue, count)
      /\ \A d \in Core, u \in Thread :
             In(runQueue[d], u) <=> Runnable(u) /\ d \in affinity[u]
  BY IInvParts
<1>2. /\ current[c] \in Thread /\ state[current[c]] = "RUNNING"
      /\ joining[current[c]] = NoThread /\ held.op = "free"
      /\ held = Free /\ current[c] # NoThread
  BY CallsRunning DEF OSCreateThread, Calls
<1>3. /\ runQueue' = runQueue /\ count' = count /\ current' = current
      /\ waitQueue' = waitQueue /\ joining' = joining /\ idle' = idle
      /\ held' = held
      /\ state[t] = "NONE" /\ (detach => t \in Detachable)
      /\ \A u \in Thread : joining[u] # t
      /\ active' = IF entry THEN active \cup {t} ELSE active
      /\ state' \in [Thread -> ThreadState]
      /\ \A u \in Thread : state'[u] = IF u = t THEN (IF entry THEN "READY" ELSE "NONE") ELSE state[u]
      /\ suspend' \in [Thread -> 0..MaxSuspend]
      /\ \A u \in Thread : suspend'[u] = IF u = t THEN (IF entry THEN 1 ELSE 0) ELSE suspend[u]
      /\ affinity' \in [Thread -> SUBSET Core]
      /\ \A u \in Thread : affinity'[u] = IF u = t THEN mask ELSE affinity[u]
      /\ detached' \in [Thread -> BOOLEAN]
      /\ \A u \in Thread : detached'[u] = IF u = t THEN detach ELSE detached[u]
      /\ priority' \in [Thread -> Priority]
      /\ cancel' \in [Thread -> BOOLEAN]
  BY <1>1, <1>2, SchedulerAssumption
     DEF OSCreateThread, TypeOK, NoJoiner, queueVars, ActiveExact, ThreadState
<1>5. TypeOK'
  BY <1>1, <1>2, <1>3, HeldTypes, QueueTypes, SchedulerAssumption
     DEF TypeOK, QueuesOK, ThreadState, IdleState
<1>6. RunQueuesExact'
  <2>1. \A d \in Core, u \in Thread : In(runQueue'[d], u) <=>
            /\ state'[u] = "READY" /\ suspend'[u] = 0 /\ d \in affinity'[u]
    BY <1>1, <1>2, <1>3 DEF Runnable, In
  <2>. QED
    BY <1>1, <1>3, <2>1, RunQueuesExactNext DEF QueuesOK
<1>7. RunningOnOneCore'
  BY <1>1, <1>2, <1>3, SchedulerAssumption DEF RunningOnOneCore, Holding
<1>8. ActiveExact'
  BY <1>1, <1>2, <1>3 DEF ActiveExact
<1>9. LockInv'
  BY <1>1, <1>2, <1>3, SchedulerAssumption DEF LockInv
<1>10. WaitInv'
  <2>1. \A r \in Queue, u \in Thread : In(waitQueue'[r], u) <=> In(waitQueue[r], u)
    BY <1>3 DEF In
  <2>2. \A u \in Thread : state'[u] = "WAITING" <=> state[u] = "WAITING"
    BY <1>3
  <2>3. \A r \in Queue : NoRepeat(waitQueue'[r])
    BY <1>1, <1>3 DEF WaitInv
  <2>. QED
    BY <1>1, <2>1, <2>2, <2>3 DEF WaitInv
<1>11. JoinInv'
  <2>1. \A r \in Queue, u \in Thread : In(waitQueue'[r], u) <=> In(waitQueue[r], u)
    BY <1>3 DEF In
  <2>2. ASSUME NEW u \in Thread, joining[u] # NoThread
        PROVE  u # t /\ joining[u] # t /\ state'[u] = state[u]
    BY <1>1, <1>3, <2>2 DEF JoinInv
  <2>3. \A u \in Thread : u # t => state'[u] = state[u]
    BY <1>3
  <2>. QED
    BY <1>1, <1>3, <2>1, <2>2, <2>3, QueueTypes, SchedulerAssumption DEF JoinInv
<1>12. ReapInv'
  BY <1>1, <1>2, <1>3 DEF ReapInv
<1>. QED
  BY <1>5, <1>6, <1>7, <1>8, <1>9, <1>10, <1>11, <1>12 DEF IInv

LEMMA OSRunThreadStep ==
    ASSUME JoinDiscipline, IInv, NEW c \in Core, NEW t \in Thread,
           OSRunThread(c, t)
    PROVE  IInv'
<1>1. /\ \A d \in Core : current[d] \in Thread \cup {NoThread}
      /\ TypeOK /\ RunQueuesExact /\ RunningOnOneCore /\ ActiveExact
      /\ LockInv /\ WaitInv /\ JoinInv /\ ReapInv
      /\ QueuesOK(runQueue, count)
      /\ \A d \in Core, u \in Thread :
             In(runQueue[d], u) <=> Runnable(u) /\ d \in affinity[u]
  BY IInvParts
<1>2. /\ current[c] \in Thread /\ state[current[c]] = "RUNNING"
      /\ joining[current[c]] = NoThread /\ held.op = "free"
      /\ held = Free /\ current[c] # NoThread
  BY CallsRunning DEF OSRunThread, Calls
<1>3. /\ affinity' = affinity /\ priority' = priority
      /\ detached' = detached /\ cancel' = cancel /\ current' = current
      /\ waitQueue' = waitQueue /\ joining' = joining /\ idle' = idle
      /\ held' = held
      /\ state[t] \in {"NONE", "MORIBUND"} /\ affinity[t] # {}
      /\ state[t] = "MORIBUND" => \A u \in Thread : joining[u] # t
      /\ active' = active \cup {t}
      /\ state' \in [Thread -> ThreadState]
      /\ \A u \in Thread : state'[u] = IF u = t THEN "READY" ELSE state[u]
      /\ suspend' \in [Thread -> 0..MaxSuspend]
      /\ \A u \in Thread : suspend'[u] = IF u = t THEN 0 ELSE suspend[u]
  BY <1>1, <1>2, SchedulerAssumption
     DEF OSRunThread, TypeOK, NoJoiner, ThreadState
<1>4. /\ QueuesOK(runQueue', count')
      /\ \A d \in Core : \A u \in Thread : In(runQueue'[d], u) <=>
             \/ In(runQueue[d], u)
             \/ u = t /\ state'[t] = "READY" /\ suspend'[t] = 0 /\ d \in affinity[t]
  <2>1. AddReadyThread(t, state', suspend', affinity)
    BY DEF OSRunThread
  <2>. QED
    BY <1>1, <2>1, AddReadyThreadStep
<1>5. TypeOK'
  BY <1>1, <1>2, <1>3, <1>4, HeldTypes, QueueTypes, SchedulerAssumption
     DEF TypeOK, QueuesOK, ThreadState, IdleState
<1>6. RunQueuesExact'
  <2>1. \A d \in Core, u \in Thread : In(runQueue'[d], u) <=>
            /\ state'[u] = "READY" /\ suspend'[u] = 0 /\ d \in affinity'[u]
    BY <1>1, <1>2, <1>3, <1>4 DEF Runnable
  <2>. QED
    BY <1>4, <2>1, RunQueuesExactNext
<1>7. RunningOnOneCore'
  BY <1>1, <1>2, <1>3, <1>4, SchedulerAssumption DEF RunningOnOneCore, Holding
<1>8. ActiveExact'
  BY <1>1, <1>2, <1>3, <1>4 DEF ActiveExact
<1>9. LockInv'
  BY <1>1, <1>2, <1>3, <1>4, SchedulerAssumption DEF LockInv
<1>10. WaitInv'
  BY <1>1, <1>2, <1>3 DEF WaitInv, In
<1>11. JoinInv'
  BY <1>1, <1>2, <1>3, SchedulerAssumption DEF JoinInv, In
<1>12. ReapInv'
  BY <1>1, <1>2, <1>3, <1>4 DEF ReapInv
<1>. QED
  BY <1>5, <1>6, <1>7, <1>8, <1>9, <1>10, <1>11, <1>12 DEF IInv

LEMMA ExitDoneStep ==
    ASSUME JoinDiscipline, IInv, NEW c \in Core,
           ExitDone(c)
    PROVE  IInv'
<1>1. /\ \A d \in Core : current[d] \in Thread \cup {NoThread}
      /\ TypeOK /\ RunQueuesExact /\ RunningOnOneCore /\ ActiveExact
      /\ LockInv /\ WaitInv /\ JoinInv /\ ReapInv
      /\ QueuesOK(runQueue, count)
      /\ \A d \in Core, u \in Thread :
             In(runQueue[d], u) <=> Runnable(u) /\ d \in affinity[u]
  BY IInvParts
<1>3. /\ suspend' = suspend /\ affinity' = affinity
      /\ priority' = priority /\ detached' = detached /\ cancel' = cancel
      /\ runQueue' = runQueue /\ count' = count /\ current' = current
      /\ waitQueue' = waitQueue /\ joining' = joining /\ idle' = idle
      /\ current[c] \in Thread /\ held.op = "wake" /\ held.core = c
      /\ held.then = "exit" /\ state[current[c]] = "RUNNING"
      /\ \A i \in Nat : i \notin 1..Len(waitQueue[JoinQueue(current[c])])
      /\ held' = ToSwitch(c)
      /\ active' = IF detached[current[c]] THEN active \ {current[c]} ELSE active
      /\ state' \in [Thread -> ThreadState]
      /\ \A u \in Thread : state'[u] = IF u = current[c] THEN (IF detached[u] THEN "NONE" ELSE "MORIBUND") ELSE state[u]
  BY <1>1, SchedulerAssumption
     DEF ExitDone, TypeOK, Holding, queueVars, LockInv, RunningOnOneCore, ThreadState
<1>5. TypeOK'
  BY <1>1, <1>3, HeldTypes, QueueTypes, SchedulerAssumption
     DEF TypeOK, QueuesOK, ThreadState, IdleState, ToSwitch
<1>6. RunQueuesExact'
  <2>1. \A d \in Core, u \in Thread : In(runQueue'[d], u) <=>
            /\ state'[u] = "READY" /\ suspend'[u] = 0 /\ d \in affinity'[u]
    BY <1>1, <1>3 DEF Runnable, In
  <2>. QED
    BY <1>1, <1>3, <2>1, RunQueuesExactNext DEF QueuesOK
<1>7. RunningOnOneCore'
  BY <1>1, <1>3, SchedulerAssumption DEF RunningOnOneCore, Holding, ToSwitch
<1>8. ActiveExact'
  BY <1>1, <1>3 DEF ActiveExact
<1>9. LockInv'
  BY <1>1, <1>3, SchedulerAssumption DEF LockInv, ToSwitch
<1>10. WaitInv'
  BY <1>1, <1>3 DEF WaitInv, In
<1>11. JoinInv'
  BY <1>1, <1>3, SchedulerAssumption
     DEF JoinInv, In, ToSwitch, JoinDiscipline, ActiveExact
<1>12. ReapInv'
  BY <1>1, <1>3 DEF ReapInv, ToSwitch
<1>. QED
  BY <1>5, <1>6, <1>7, <1>8, <1>9, <1>10, <1>11, <1>12 DEF IInv

LEMMA OSDetachThreadStep ==
    ASSUME JoinDiscipline, IInv, NEW c \in Core, NEW t \in Thread,
           OSDetachThread(c, t)
    PROVE  IInv'
<1>1. /\ \A d \in Core : current[d] \in Thread \cup {NoThread}
      /\ TypeOK /\ RunQueuesExact /\ RunningOnOneCore /\ ActiveExact
      /\ LockInv /\ WaitInv /\ JoinInv /\ ReapInv
      /\ QueuesOK(runQueue, count)
      /\ \A d \in Core, u \in Thread :
             In(runQueue[d], u) <=> Runnable(u) /\ d \in affinity[u]
  BY IInvParts
<1>2. /\ current[c] \in Thread /\ state[current[c]] = "RUNNING"
      /\ joining[current[c]] = NoThread /\ held.op = "free"
      /\ held = Free /\ current[c] # NoThread
  BY CallsRunning DEF OSDetachThread, Calls
<1>3. /\ suspend' = suspend /\ affinity' = affinity
      /\ priority' = priority /\ cancel' = cancel /\ runQueue' = runQueue
      /\ count' = count /\ current' = current /\ waitQueue' = waitQueue
      /\ joining' = joining /\ idle' = idle
      /\ t \in Detachable /\ t \notin Joinable
      /\ detached' \in [Thread -> BOOLEAN]
      /\ \A u \in Thread : detached'[u] = (detached[u] \/ u = t)
      /\ active' = IF state[t] = "MORIBUND" THEN active \ {t} ELSE active
      /\ state' \in [Thread -> ThreadState]
      /\ \A u \in Thread : state'[u] = IF u = t /\ state[t] = "MORIBUND" THEN "NONE" ELSE state[u]
      /\ held' = ToWake(c, JoinQueue(t), TRUE, FALSE, "return") \/ held' = Free
  BY <1>1, <1>2, SchedulerAssumption
     DEF OSDetachThread, TypeOK, queueVars, JoinDiscipline, ThreadState
<1>5. TypeOK'
  <2>1. held' \in Held
    BY <1>3, HeldTypes, QueueTypes
  <2>. QED
    BY <1>1, <1>2, <1>3, <2>1 DEF TypeOK, QueuesOK
<1>6. RunQueuesExact'
  <2>1. \A d \in Core, u \in Thread : In(runQueue'[d], u) <=>
            /\ state'[u] = "READY" /\ suspend'[u] = 0 /\ d \in affinity'[u]
    BY <1>1, <1>2, <1>3 DEF Runnable, In
  <2>. QED
    BY <1>1, <1>3, <2>1, RunQueuesExactNext DEF QueuesOK
<1>7. RunningOnOneCore'
  BY <1>1, <1>2, <1>3, SchedulerAssumption DEF RunningOnOneCore, Holding, Free, ToWake
<1>8. ActiveExact'
  BY <1>1, <1>2, <1>3 DEF ActiveExact
<1>9. LockInv'
  BY <1>1, <1>2, <1>3, QueueTypes, SchedulerAssumption DEF LockInv, Free, ToWake
<1>10. WaitInv'
  BY <1>1, <1>2, <1>3 DEF WaitInv, In
<1>11. JoinInv'
  BY <1>1, <1>2, <1>3, SchedulerAssumption DEF JoinInv, In, Free, ToWake
<1>12. ReapInv'
  BY <1>1, <1>2, <1>3 DEF ReapInv, Free, ToWake
<1>. QED
  BY <1>5, <1>6, <1>7, <1>8, <1>9, <1>10, <1>11, <1>12 DEF IInv

LEMMA OSJoinThreadStep ==
    ASSUME JoinDiscipline, IInv, NEW c \in Core, NEW t \in Thread,
           OSJoinThread(c, t)
    PROVE  IInv'
<1>1. /\ \A d \in Core : current[d] \in Thread \cup {NoThread}
      /\ TypeOK /\ RunQueuesExact /\ RunningOnOneCore /\ ActiveExact
      /\ LockInv /\ WaitInv /\ JoinInv /\ ReapInv
      /\ QueuesOK(runQueue, count)
      /\ \A d \in Core, u \in Thread :
             In(runQueue[d], u) <=> Runnable(u) /\ d \in affinity[u]
  BY IInvParts
<1>2. /\ current[c] \in Thread /\ state[current[c]] = "RUNNING"
      /\ joining[current[c]] = NoThread /\ held.op = "free"
      /\ held = Free /\ current[c] # NoThread
  BY CallsRunning DEF OSJoinThread, Calls
<1>3. /\ suspend' = suspend /\ affinity' = affinity
      /\ priority' = priority /\ detached' = detached /\ cancel' = cancel
      /\ active' = active /\ runQueue' = runQueue /\ count' = count
      /\ current' = current /\ idle' = idle
      /\ t \in Joinable /\ \A u \in Thread : joining[u] # t
      /\ joining' \in [Thread -> Thread \cup {NoThread}]
      /\ \A u \in Thread : joining'[u] = IF u = current[c] THEN t ELSE joining[u]
      /\ \/ /\ state[t] = "MORIBUND" /\ held' = ToReap(c)
            /\ state' = state /\ waitQueue' = waitQueue
         \/ /\ held' = ToSwitch(c)
            /\ state' \in [Thread -> ThreadState]
            /\ \A u \in Thread : state'[u] = IF u = current[c] THEN "WAITING" ELSE state[u]
            /\ \A r \in Queue, u \in Thread : In(waitQueue'[r], u) <=>
                   \/ In(waitQueue[r], u)
                   \/ r = JoinQueue(t) /\ u = current[c]
      /\ waitQueue' \in [Queue -> Seq(Thread)] /\ WaitInv'
  <2>1. /\ t \in Joinable /\ \A u \in Thread : joining[u] # t
        /\ joining' = [joining EXCEPT ![current[c]] = t]
    BY DEF OSJoinThread, NoJoiner
  <2>2. CASE /\ state[t] = "MORIBUND" /\ held' = ToReap(c)
             /\ state' = state /\ waitQueue' = waitQueue
    BY <1>1, <1>2, <2>1, <2>2 DEF OSJoinThread, TypeOK, WaitInv, In
  <2>3. CASE QueueAndWait(c, JoinQueue(t))
    <3>1. held' = ToSwitch(c) /\ state' = [state EXCEPT ![current[c]] = "WAITING"]
      BY <2>3 DEF QueueAndWait
    <3>2. /\ waitQueue' \in [Queue -> Seq(Thread)] /\ WaitInv'
          /\ \A r \in Queue, u \in Thread : In(waitQueue'[r], u) <=>
                 \/ In(waitQueue[r], u)
                 \/ r = JoinQueue(t) /\ u = current[c]
      BY <1>1, <1>2, <2>3, QueueTypes, QueueAndWaitStep
    <3>. QED
      BY <1>1, <1>2, <2>1, <3>1, <3>2 DEF OSJoinThread, TypeOK, ThreadState
  <2>. QED
    BY <2>2, <2>3 DEF OSJoinThread
<1>5. TypeOK'
  <2>1. held' \in Held
    BY <1>3, HeldTypes, QueueTypes
  <2>. QED
    BY <1>1, <1>2, <1>3, <2>1 DEF TypeOK, QueuesOK
<1>6. RunQueuesExact'
  <2>1. \A d \in Core, u \in Thread : In(runQueue'[d], u) <=>
            /\ state'[u] = "READY" /\ suspend'[u] = 0 /\ d \in affinity'[u]
    BY <1>1, <1>2, <1>3 DEF Runnable, In
  <2>. QED
    BY <1>1, <1>3, <2>1, RunQueuesExactNext DEF QueuesOK
<1>7. RunningOnOneCore'
  BY <1>1, <1>2, <1>3, SchedulerAssumption DEF RunningOnOneCore, Holding, ToSwitch, ToReap
<1>8. ActiveExact'
  BY <1>1, <1>2, <1>3 DEF ActiveExact
<1>9. LockInv'
  BY <1>1, <1>2, <1>3, SchedulerAssumption DEF LockInv, ToSwitch, ToReap
<1>10. WaitInv'
  BY <1>3
<1>11. JoinInv'
  <2>1. CASE state' = state /\ waitQueue' = waitQueue /\ held' = ToReap(c)
    <3>1. \A r \in Queue, u \in Thread : In(waitQueue'[r], u) <=> In(waitQueue[r], u)
      BY <2>1 DEF In
    <3>2. held'.op = "reap" /\ held'.core = c
      BY <2>1 DEF ToReap
    <3>3. ASSUME NEW u \in Thread, u # current[c], joining[u] # NoThread
          PROVE  /\ joining[u] \in Joinable /\ joining[u] # t
                 /\ state[u] \in {"WAITING", "READY"}
                 /\ \A v \in Thread : joining[v] = joining[u] => v = u
                 /\ \/ In(waitQueue[JoinQueue(joining[u])], u)
                    \/ state[joining[u]] = "MORIBUND"
      BY <1>1, <1>2, <1>3, <3>3 DEF JoinInv
    <3>4. /\ state' = state /\ current' = current /\ state[t] = "MORIBUND"
          /\ t \in Joinable /\ \A u \in Thread : joining[u] # t
          /\ \A u \in Thread : joining'[u] = IF u = current[c] THEN t ELSE joining[u]
      BY <1>1, <1>2, <1>3, <2>1, HeldTypes DEF ToReap, ToSwitch
    <3>. QED
      BY <1>2, <3>1, <3>2, <3>3, <3>4, QueueTypes, SchedulerAssumption DEF JoinInv
  <2>2. CASE held' = ToSwitch(c)
    <3>1. /\ held'.op = "switch" /\ state'[current[c]] = "WAITING"
          /\ In(waitQueue'[JoinQueue(t)], current[c])
          /\ \A u \in Thread : u # current[c] => state'[u] = state[u]
          /\ \A r \in Queue, u \in Thread : In(waitQueue[r], u) => In(waitQueue'[r], u)
      BY <1>2, <1>3, <2>2, QueueTypes, SchedulerAssumption DEF ToSwitch, ToReap
    <3>2. ASSUME NEW u \in Thread, u # current[c], joining[u] # NoThread
          PROVE  /\ joining[u] \in Joinable /\ joining[u] # t
                 /\ state[u] \in {"WAITING", "READY"}
                 /\ \A v \in Thread : joining[v] = joining[u] => v = u
                 /\ \/ In(waitQueue[JoinQueue(joining[u])], u)
                    \/ state[joining[u]] = "MORIBUND"
      BY <1>1, <1>2, <1>3, <3>2 DEF JoinInv
    <3>3. ASSUME NEW u \in Thread, u # current[c], joining[u] # NoThread
          PROVE  \/ In(waitQueue'[JoinQueue(joining[u])], u)
                 \/ state'[joining[u]] = "MORIBUND"
      BY <1>2, <3>1, <3>2, <3>3, QueueTypes, SchedulerAssumption
    <3>. QED
      BY <1>2, <1>3, <3>1, <3>2, <3>3, SchedulerAssumption DEF JoinInv
  <2>. QED
    BY <1>3, <2>1, <2>2
<1>12. ReapInv'
  BY <1>1, <1>2, <1>3 DEF ReapInv, ToSwitch, ToReap
<1>. QED
  BY <1>5, <1>6, <1>7, <1>8, <1>9, <1>10, <1>11, <1>12 DEF IInv

LEMMA ReapStep ==
    ASSUME JoinDiscipline, IInv, NEW c \in Core,
           Reap(c)
    PROVE  IInv'
<1>1. /\ \A d \in Core : current[d] \in Thread \cup {NoThread}
      /\ TypeOK /\ RunQueuesExact /\ RunningOnOneCore /\ ActiveExact
      /\ LockInv /\ WaitInv /\ JoinInv /\ ReapInv
      /\ QueuesOK(runQueue, count)
      /\ \A d \in Core, u \in Thread :
             In(runQueue[d], u) <=> Runnable(u) /\ d \in affinity[u]
  BY IInvParts
<1>3. /\ suspend' = suspend /\ affinity' = affinity
      /\ priority' = priority /\ detached' = detached /\ cancel' = cancel
      /\ current' = current /\ waitQueue' = waitQueue /\ idle' = idle
      /\ held.op = "reap" /\ held.core = c /\ current[c] \in Thread
      /\ joining[current[c]] \in Thread
      /\ state[joining[current[c]]] = "MORIBUND"
      /\ held' = Free
      /\ active' = active \ {joining[current[c]]}
      /\ state' \in [Thread -> ThreadState]
      /\ \A u \in Thread : state'[u] = IF u = joining[current[c]] THEN "NONE" ELSE state[u]
      /\ joining' \in [Thread -> Thread \cup {NoThread}]
      /\ \A u \in Thread : joining'[u] = IF u = current[c] THEN NoThread ELSE joining[u]
  <2>1. /\ held.op = "reap" /\ held.core = c /\ current[c] \in Thread
        /\ joining[current[c]] # NoThread
    BY <1>1 DEF Reap, Holding, LockInv, ReapInv, TypeOK
  <2>2. state[current[c]] = "RUNNING"
    BY <1>1, <2>1, SchedulerAssumption DEF RunningOnOneCore, Holding
  <2>3. joining[current[c]] \in Thread
    BY <1>1, <2>1 DEF TypeOK
  <2>4. state[joining[current[c]]] = "MORIBUND"
    BY <1>1, <2>1, <2>2, <2>3, QueueTypes DEF JoinInv, WaitInv
  <2>. QED
    BY <1>1, <2>1, <2>2, <2>3, <2>4 DEF Reap, TypeOK, ThreadState
<1>4. /\ QueuesOK(runQueue', count')
      /\ \A d \in Core : \A u \in Thread :
             In(runQueue'[d], u) <=> In(runQueue[d], u) /\ u # joining[current[c]]
  <2>1. RemoveFromRunQueues(joining[current[c]])
    BY DEF Reap
  <2>. QED
    BY <1>1, <1>3, <2>1, RemoveFromRunQueuesStep
<1>5. TypeOK'
  BY <1>1, <1>3, <1>4, HeldTypes, QueueTypes, SchedulerAssumption
     DEF TypeOK, QueuesOK, ThreadState, IdleState, Free
<1>6. RunQueuesExact'
  <2>1. \A d \in Core, u \in Thread : In(runQueue'[d], u) <=>
            /\ state'[u] = "READY" /\ suspend'[u] = 0 /\ d \in affinity'[u]
    BY <1>1, <1>3, <1>4 DEF Runnable
  <2>. QED
    BY <1>4, <2>1, RunQueuesExactNext
<1>7. RunningOnOneCore'
  BY <1>1, <1>3, <1>4, SchedulerAssumption DEF RunningOnOneCore, Holding, Free
<1>8. ActiveExact'
  BY <1>1, <1>3, <1>4 DEF ActiveExact
<1>9. LockInv'
  BY <1>1, <1>3, <1>4, SchedulerAssumption DEF LockInv, Free
<1>10. WaitInv'
  BY <1>1, <1>3 DEF WaitInv, In
<1>11. JoinInv'
  <2>1. joining[joining[current[c]]] = NoThread
    BY <1>1, <1>3 DEF JoinInv
  <2>2. ASSUME NEW u \in Thread, joining'[u] # NoThread
        PROVE  /\ u # current[c] /\ u # joining[current[c]]
               /\ joining'[u] = joining[u] /\ joining[u] # joining[current[c]]
               /\ state'[u] = state[u]
    BY <1>1, <1>3, <2>1, <2>2, SchedulerAssumption DEF JoinInv
  <2>3. \A u \in Thread : u # joining[current[c]] => state'[u] = state[u]
    BY <1>3
  <2>4. \A r \in Queue, u \in Thread : In(waitQueue'[r], u) <=> In(waitQueue[r], u)
    BY <1>3 DEF In
  <2>. QED
    BY <1>1, <1>3, <2>2, <2>3, <2>4, QueueTypes, SchedulerAssumption
       DEF JoinInv, Free, RunningOnOneCore
<1>12. ReapInv'
  BY <1>1, <1>3, <1>4 DEF ReapInv, Free
<1>. QED
  BY <1>5, <1>6, <1>7, <1>8, <1>9, <1>10, <1>11, <1>12 DEF IInv
-----------------------------------------------------------------------------
(* Suspension and affinity. *)

LEMMA OSResumeThreadStep ==
    ASSUME JoinDiscipline, IInv, NEW c \in Core, NEW t \in Thread, NEW n \in 1..MaxSuspend,
           OSResumeThread(c, t, n)
    PROVE  IInv'
<1>1. /\ \A d \in Core : current[d] \in Thread \cup {NoThread}
      /\ TypeOK /\ RunQueuesExact /\ RunningOnOneCore /\ ActiveExact
      /\ LockInv /\ WaitInv /\ JoinInv /\ ReapInv
      /\ QueuesOK(runQueue, count)
      /\ \A d \in Core, u \in Thread :
             In(runQueue[d], u) <=> Runnable(u) /\ d \in affinity[u]
  BY IInvParts
<1>2. /\ current[c] \in Thread /\ state[current[c]] = "RUNNING"
      /\ joining[current[c]] = NoThread /\ held.op = "free"
      /\ held = Free /\ current[c] # NoThread
  BY CallsRunning DEF OSResumeThread, Calls
<1>3. /\ state' = state /\ affinity' = affinity /\ priority' = priority
      /\ detached' = detached /\ cancel' = cancel /\ active' = active
      /\ current' = current /\ waitQueue' = waitQueue
      /\ joining' = joining /\ idle' = idle
      /\ held' = ToSwitch(c) \/ held' = Free
      /\ suspend[t] # 0
      /\ suspend' \in [Thread -> 0..MaxSuspend]
      /\ \A u \in Thread : suspend'[u] = IF u = t THEN suspend[t] - n ELSE suspend[u]
  <2>1. /\ suspend[t] \in 0..MaxSuspend /\ n \in 1..suspend[t]
        /\ suspend' = [suspend EXCEPT ![t] = @ - n]
    BY <1>1, SchedulerAssumption DEF OSResumeThread, TypeOK
  <2>2. suspend[t] - n \in 0..MaxSuspend /\ suspend[t] # 0
    BY <2>1, SchedulerAssumption
  <2>3. held' = ToSwitch(c) \/ held' = Free
    BY <1>2 DEF OSResumeThread, SwitchIf
  <2>. QED
    BY <1>1, <2>1, <2>2, <2>3 DEF OSResumeThread, TypeOK
<1>4. /\ QueuesOK(runQueue', count')
      /\ \A d \in Core : \A u \in Thread : In(runQueue'[d], u) <=>
             \/ In(runQueue[d], u)
             \/ /\ u = t /\ state[t] = "READY"
                /\ suspend'[t] = 0 /\ d \in affinity[t]
  <2>1. CASE suspend[t] = n
    <3>1. AddReadyThread(t, state, suspend', affinity)
      BY <2>1 DEF OSResumeThread
    <3>. QED
      BY <1>1, <3>1, AddReadyThreadStep
  <2>2. CASE suspend[t] # n
    <3>1. runQueue' = runQueue /\ count' = count
      BY <2>2 DEF OSResumeThread
    <3>2. suspend'[t] # 0
      BY <1>1, <1>3, <2>2, SchedulerAssumption DEF TypeOK
    <3>. QED
      BY <1>1, <3>1, <3>2 DEF QueuesOK, In
  <2>. QED
    BY <2>1, <2>2
<1>5. TypeOK'
  <2>1. held' \in Held
    BY <1>1, <1>2, <1>3, HeldTypes, QueueTypes
  <2>. QED
    BY <1>1, <1>2, <1>3, <1>4, <2>1 DEF TypeOK, QueuesOK
<1>6. RunQueuesExact'
  <2>1. \A d \in Core, u \in Thread : In(runQueue'[d], u) <=>
            /\ state'[u] = "READY" /\ suspend'[u] = 0 /\ d \in affinity'[u]
    BY <1>1, <1>2, <1>3, <1>4 DEF Runnable
  <2>. QED
    BY <1>4, <2>1, RunQueuesExactNext
<1>7. RunningOnOneCore'
  BY <1>1, <1>2, <1>3, <1>4, SchedulerAssumption DEF RunningOnOneCore, Holding, Free, ToSwitch
<1>8. ActiveExact'
  BY <1>1, <1>2, <1>3, <1>4 DEF ActiveExact
<1>9. LockInv'
  BY <1>1, <1>2, <1>3, <1>4, SchedulerAssumption DEF LockInv, Free, ToSwitch
<1>10. WaitInv'
  BY <1>1, <1>2, <1>3 DEF WaitInv, In
<1>11. JoinInv'
  BY <1>1, <1>2, <1>3, SchedulerAssumption DEF JoinInv, In, Free, ToSwitch
<1>12. ReapInv'
  BY <1>1, <1>2, <1>3, <1>4 DEF ReapInv, Free, ToSwitch
<1>. QED
  BY <1>5, <1>6, <1>7, <1>8, <1>9, <1>10, <1>11, <1>12 DEF IInv

LEMMA OSSuspendThreadStep ==
    ASSUME JoinDiscipline, IInv, NEW c \in Core, NEW t \in Thread,
           OSSuspendThread(c, t)
    PROVE  IInv'
<1>1. /\ \A d \in Core : current[d] \in Thread \cup {NoThread}
      /\ TypeOK /\ RunQueuesExact /\ RunningOnOneCore /\ ActiveExact
      /\ LockInv /\ WaitInv /\ JoinInv /\ ReapInv
      /\ QueuesOK(runQueue, count)
      /\ \A d \in Core, u \in Thread :
             In(runQueue[d], u) <=> Runnable(u) /\ d \in affinity[u]
  BY IInvParts
<1>2. /\ current[c] \in Thread /\ state[current[c]] = "RUNNING"
      /\ joining[current[c]] = NoThread /\ held.op = "free"
      /\ held = Free /\ current[c] # NoThread
  BY CallsRunning DEF OSSuspendThread, Calls
<1>3. /\ state' = state /\ affinity' = affinity /\ priority' = priority
      /\ detached' = detached /\ cancel' = cancel /\ active' = active
      /\ current' = current /\ waitQueue' = waitQueue
      /\ joining' = joining /\ idle' = idle
      /\ held' = ToSwitch(c) \/ held' = Free
      /\ suspend'[t] # 0
      /\ suspend' \in [Thread -> 0..MaxSuspend]
      /\ \A u \in Thread : suspend'[u] = IF u = t THEN suspend[t] + 1 ELSE suspend[u]
  BY <1>1, <1>2, SchedulerAssumption
     DEF OSSuspendThread, TypeOK
<1>4. /\ QueuesOK(runQueue', count')
      /\ \A d \in Core : \A u \in Thread :
             In(runQueue'[d], u) <=> In(runQueue[d], u) /\ u # t
  <2>1. CASE t # current[c] /\ suspend[t] = 0
    <3>1. RemoveFromRunQueues(t)
      BY <2>1 DEF OSSuspendThread
    <3>. QED
      BY <1>1, <3>1, RemoveFromRunQueuesStep
  <2>2. CASE ~ (t # current[c] /\ suspend[t] = 0)
    <3>1. runQueue' = runQueue /\ count' = count
      BY <2>2 DEF OSSuspendThread
    <3>2. \A d \in Core : ~ In(runQueue[d], t)
      BY <1>1, <1>2, <2>2 DEF Runnable
    <3>. QED
      BY <1>1, <3>1, <3>2 DEF QueuesOK, In
  <2>. QED
    BY <2>1, <2>2
<1>5. TypeOK'
  <2>1. held' \in Held
    BY <1>1, <1>2, <1>3, HeldTypes, QueueTypes
  <2>. QED
    BY <1>1, <1>2, <1>3, <1>4, <2>1 DEF TypeOK, QueuesOK
<1>6. RunQueuesExact'
  <2>1. \A d \in Core, u \in Thread : In(runQueue'[d], u) <=>
            /\ state'[u] = "READY" /\ suspend'[u] = 0 /\ d \in affinity'[u]
    BY <1>1, <1>2, <1>3, <1>4 DEF Runnable
  <2>. QED
    BY <1>4, <2>1, RunQueuesExactNext
<1>7. RunningOnOneCore'
  BY <1>1, <1>2, <1>3, <1>4, SchedulerAssumption DEF RunningOnOneCore, Holding, Free, ToSwitch
<1>8. ActiveExact'
  BY <1>1, <1>2, <1>3, <1>4 DEF ActiveExact
<1>9. LockInv'
  BY <1>1, <1>2, <1>3, <1>4, SchedulerAssumption DEF LockInv, Free, ToSwitch
<1>10. WaitInv'
  BY <1>1, <1>2, <1>3 DEF WaitInv, In
<1>11. JoinInv'
  BY <1>1, <1>2, <1>3, SchedulerAssumption DEF JoinInv, In, Free, ToSwitch
<1>12. ReapInv'
  BY <1>1, <1>2, <1>3, <1>4 DEF ReapInv, Free, ToSwitch
<1>. QED
  BY <1>5, <1>6, <1>7, <1>8, <1>9, <1>10, <1>11, <1>12 DEF IInv

LEMMA OSSetThreadAffinityStep ==
    ASSUME JoinDiscipline, IInv, NEW c \in Core, NEW t \in Thread, NEW mask \in Mask,
           OSSetThreadAffinity(c, t, mask)
    PROVE  IInv'
<1>1. /\ \A d \in Core : current[d] \in Thread \cup {NoThread}
      /\ TypeOK /\ RunQueuesExact /\ RunningOnOneCore /\ ActiveExact
      /\ LockInv /\ WaitInv /\ JoinInv /\ ReapInv
      /\ QueuesOK(runQueue, count)
      /\ \A d \in Core, u \in Thread :
             In(runQueue[d], u) <=> Runnable(u) /\ d \in affinity[u]
  BY IInvParts
<1>2. /\ current[c] \in Thread /\ state[current[c]] = "RUNNING"
      /\ joining[current[c]] = NoThread /\ held.op = "free"
      /\ held = Free /\ current[c] # NoThread
  BY CallsRunning DEF OSSetThreadAffinity, Calls
<1>3. /\ state' = state /\ suspend' = suspend /\ priority' = priority
      /\ detached' = detached /\ cancel' = cancel /\ active' = active
      /\ current' = current /\ waitQueue' = waitQueue
      /\ joining' = joining /\ idle' = idle /\ held' = held
      /\ affinity' \in [Thread -> SUBSET Core]
      /\ \A u \in Thread : affinity'[u] = IF u = t THEN mask ELSE affinity[u]
  BY <1>1, <1>2, SchedulerAssumption
     DEF OSSetThreadAffinity, TypeOK
<1>4. /\ QueuesOK(runQueue', count')
      /\ \A d \in Core, u \in Thread : In(runQueue'[d], u) <=>
             \/ In(runQueue[d], u) /\ u # t
             \/ u = t /\ Runnable(t) /\ d \in mask
  <2> DEFINE to == IF state[t] = "READY" /\ suspend[t] = 0 THEN mask ELSE {}
  <2>1. CASE state[t] \in {"RUNNING", "NONE"}
    <3>1. runQueue' = runQueue /\ count' = count
      BY <2>1 DEF OSSetThreadAffinity
    <3>2. ~ Runnable(t) /\ \A d \in Core : ~ In(runQueue[d], t)
      BY <1>1, <2>1 DEF Runnable
    <3>. QED
      BY <1>1, <3>1, <3>2 DEF QueuesOK, In
  <2>2. CASE state[t] \notin {"RUNNING", "NONE"}
    <3>1. /\ runQueue' = [d \in Core |->
                 IF d \in to THEN AddThread(RemoveThread(runQueue[d], t), t)
                 ELSE RemoveThread(runQueue[d], t)]
          /\ count' = [d \in Core |->
                 IF d \in to
                 THEN (IF OnQueue(t, d) THEN count[d] - 1 ELSE count[d]) + 1
                 ELSE IF OnQueue(t, d) THEN count[d] - 1 ELSE count[d]]
      BY <2>2 DEF OSSetThreadAffinity
    <3>2. ASSUME NEW d \in Core
          PROVE  /\ runQueue'[d] \in Seq(Thread) /\ count'[d] \in Nat
                 /\ NoRepeat(runQueue'[d]) /\ count'[d] = Len(runQueue'[d])
                 /\ \A u \in Thread : In(runQueue'[d], u) <=>
                        \/ In(runQueue[d], u) /\ u # t
                        \/ u = t /\ d \in to
      <4> DEFINE q == RemoveThread(runQueue[d], t)
                 n == IF In(runQueue[d], t) THEN count[d] - 1 ELSE count[d]
      <4>1. /\ runQueue[d] \in Seq(Thread) /\ NoRepeat(runQueue[d])
            /\ count[d] = Len(runQueue[d]) /\ count[d] \in Nat
        BY <1>1 DEF QueuesOK
      <4>2. /\ q \in Seq(Thread) /\ NoRepeat(q) /\ n = Len(q)
            /\ \A u : In(q, u) <=> In(runQueue[d], u) /\ u # t
        BY <4>1, RemoveThreadProperties
      <4>3. runQueue'[d] = IF d \in to THEN AddThread(q, t) ELSE q
        BY <3>1
      <4>4. count'[d] = IF d \in to THEN n + 1 ELSE n
        BY <3>1 DEF OnQueue, In
      <4>5. Len(q) \in Nat
        BY <4>2, LenProperties
      <4> HIDE DEF q, n, to
      <4>6. CASE d \in to
        BY <4>2, <4>3, <4>4, <4>5, <4>6, AddThreadProperties
      <4>7. CASE d \notin to
        BY <4>2, <4>3, <4>4, <4>5, <4>7
      <4>. QED
        BY <4>6, <4>7
    <3>3. runQueue' \in [Core -> Seq(Thread)] /\ count' \in [Core -> Nat]
      BY <3>1, <3>2
    <3>4. \A d : d \in to <=> Runnable(t) /\ d \in mask
      BY DEF Runnable
    <3>. QED
      BY <3>2, <3>3, <3>4 DEF QueuesOK
  <2>. QED
    BY <2>1, <2>2
<1>5. TypeOK'
  BY <1>1, <1>2, <1>3, <1>4, HeldTypes, QueueTypes, SchedulerAssumption
     DEF TypeOK, QueuesOK, ThreadState, IdleState
<1>6. RunQueuesExact'
  <2>1. \A d \in Core, u \in Thread : In(runQueue'[d], u) <=>
            /\ state'[u] = "READY" /\ suspend'[u] = 0 /\ d \in affinity'[u]
    BY <1>1, <1>2, <1>3, <1>4 DEF Runnable
  <2>. QED
    BY <1>4, <2>1, RunQueuesExactNext
<1>7. RunningOnOneCore'
  BY <1>1, <1>2, <1>3, <1>4, SchedulerAssumption DEF RunningOnOneCore, Holding
<1>8. ActiveExact'
  BY <1>1, <1>2, <1>3, <1>4 DEF ActiveExact
<1>9. LockInv'
  BY <1>1, <1>2, <1>3, <1>4, SchedulerAssumption DEF LockInv
<1>10. WaitInv'
  BY <1>1, <1>2, <1>3 DEF WaitInv, In
<1>11. JoinInv'
  BY <1>1, <1>2, <1>3, SchedulerAssumption DEF JoinInv, In
<1>12. ReapInv'
  BY <1>1, <1>2, <1>3, <1>4 DEF ReapInv
<1>. QED
  BY <1>5, <1>6, <1>7, <1>8, <1>9, <1>10, <1>11, <1>12 DEF IInv
-----------------------------------------------------------------------------
(* Waiting and waking. *)

LEMMA OSSleepThreadStep ==
    ASSUME JoinDiscipline, IInv, NEW c \in Core, NEW q \in Queue,
           \A t \in Thread : q # JoinQueue(t),
           OSSleepThread(c, q)
    PROVE  IInv'
<1>1. /\ \A d \in Core : current[d] \in Thread \cup {NoThread}
      /\ TypeOK /\ RunQueuesExact /\ RunningOnOneCore /\ ActiveExact
      /\ LockInv /\ WaitInv /\ JoinInv /\ ReapInv
      /\ QueuesOK(runQueue, count)
      /\ \A d \in Core, u \in Thread :
             In(runQueue[d], u) <=> Runnable(u) /\ d \in affinity[u]
  BY IInvParts
<1>2. /\ current[c] \in Thread /\ state[current[c]] = "RUNNING"
      /\ joining[current[c]] = NoThread /\ held.op = "free"
      /\ held = Free /\ current[c] # NoThread
  BY CallsRunning DEF OSSleepThread, Calls
<1>3. /\ suspend' = suspend /\ affinity' = affinity
      /\ priority' = priority /\ detached' = detached /\ cancel' = cancel
      /\ active' = active /\ runQueue' = runQueue /\ count' = count
      /\ current' = current /\ joining' = joining /\ idle' = idle
      /\ held' = ToSwitch(c)
      /\ state' \in [Thread -> ThreadState]
      /\ \A u \in Thread : state'[u] = IF u = current[c] THEN "WAITING" ELSE state[u]
      /\ waitQueue' \in [Queue -> Seq(Thread)] /\ WaitInv'
      /\ \A r \in Queue, u \in Thread : In(waitQueue'[r], u) <=>
            \/ In(waitQueue[r], u)
            \/ r = q /\ u = current[c]
  <2>1. QueueAndWait(c, q)
    BY DEF OSSleepThread
  <2>2. held' = ToSwitch(c) /\ state' = [state EXCEPT ![current[c]] = "WAITING"]
    BY <2>1 DEF QueueAndWait
  <2>3. /\ waitQueue' \in [Queue -> Seq(Thread)] /\ WaitInv'
        /\ \A r \in Queue, u \in Thread : In(waitQueue'[r], u) <=>
               \/ In(waitQueue[r], u)
               \/ r = q /\ u = current[c]
    BY <1>1, <1>2, <2>1, QueueAndWaitStep
  <2>. QED
    BY <1>1, <1>2, <2>2, <2>3 DEF OSSleepThread, TypeOK, ThreadState
<1>5. TypeOK'
  BY <1>1, <1>2, <1>3, HeldTypes, QueueTypes, SchedulerAssumption
     DEF TypeOK, QueuesOK, ThreadState, IdleState, ToSwitch
<1>6. RunQueuesExact'
  <2>1. \A d \in Core, u \in Thread : In(runQueue'[d], u) <=>
            /\ state'[u] = "READY" /\ suspend'[u] = 0 /\ d \in affinity'[u]
    BY <1>1, <1>2, <1>3 DEF Runnable, In
  <2>. QED
    BY <1>1, <1>3, <2>1, RunQueuesExactNext DEF QueuesOK
<1>7. RunningOnOneCore'
  BY <1>1, <1>2, <1>3, SchedulerAssumption DEF RunningOnOneCore, Holding, ToSwitch
<1>8. ActiveExact'
  BY <1>1, <1>2, <1>3 DEF ActiveExact
<1>9. LockInv'
  BY <1>1, <1>2, <1>3, SchedulerAssumption DEF LockInv, ToSwitch
<1>10. WaitInv'
  BY <1>3
<1>11. JoinInv'
  <2>1. /\ held'.op = "switch"
        /\ \A r \in Queue, u \in Thread : In(waitQueue[r], u) => In(waitQueue'[r], u)
    BY <1>3 DEF ToSwitch
  <2>2. ASSUME NEW u \in Thread, joining[u] # NoThread
        PROVE  /\ joining[u] \in Joinable
               /\ u # current[c] /\ state[u] \in {"WAITING", "READY"}
               /\ \A v \in Thread : joining[v] = joining[u] => v = u
               /\ \/ In(waitQueue[JoinQueue(joining[u])], u)
                  \/ state[joining[u]] = "MORIBUND" /\ joining[u] # current[c]
    BY <1>1, <1>2, <1>3, <2>2 DEF JoinInv
  <2>3. joining' = joining /\ \A u \in Thread : u # current[c] => state'[u] = state[u]
    BY <1>3
  <2>. QED
    BY <2>1, <2>2, <2>3, QueueTypes, SchedulerAssumption DEF JoinInv
<1>12. ReapInv'
  BY <1>1, <1>2, <1>3 DEF ReapInv, ToSwitch
<1>. QED
  BY <1>5, <1>6, <1>7, <1>8, <1>9, <1>10, <1>11, <1>12 DEF IInv

LEMMA WakeupSingleStep ==
    ASSUME JoinDiscipline, IInv, NEW c \in Core, NEW q \in WaitQueue, NEW workaround \in BOOLEAN,
           WakeupSingle(c, q, workaround)
    PROVE  IInv'
<1>1. /\ \A d \in Core : current[d] \in Thread \cup {NoThread}
      /\ TypeOK /\ RunQueuesExact /\ RunningOnOneCore /\ ActiveExact
      /\ LockInv /\ WaitInv /\ JoinInv /\ ReapInv
      /\ QueuesOK(runQueue, count)
      /\ \A d \in Core, u \in Thread :
             In(runQueue[d], u) <=> Runnable(u) /\ d \in affinity[u]
  BY IInvParts
<1>2. /\ current[c] \in Thread /\ state[current[c]] = "RUNNING"
      /\ joining[current[c]] = NoThread /\ held.op = "free"
      /\ held = Free /\ current[c] # NoThread
  BY CallsRunning DEF WakeupSingle, Calls
<1> DEFINE t == Head(waitQueue[q])
<1>3. /\ suspend' = suspend /\ affinity' = affinity
      /\ priority' = priority /\ detached' = detached /\ cancel' = cancel
      /\ active' = active /\ current' = current /\ joining' = joining
      /\ idle' = idle
      /\ t \in Thread /\ q \in Queue /\ In(waitQueue[q], t) /\ WakeThread(q, t)
      /\ held' = ToSwitch(c) \/ held' = Free
  <2>1. q \in Queue /\ waitQueue[q] \in Seq(Thread) /\ waitQueue[q] # <<>>
    BY <1>1, QueueTypes DEF WakeupSingle, TypeOK
  <2>2. t \in Thread /\ In(waitQueue[q], t)
    BY <2>1, HeadIn
  <2> HIDE DEF t
  <2>. QED
    BY <1>2, <2>1, <2>2 DEF WakeupSingle, SwitchIf, t
<1>4. /\ waitQueue' \in [Queue -> Seq(Thread)] /\ WaitInv'
      /\ \A r \in Queue, u \in Thread :
             In(waitQueue'[r], u) <=> In(waitQueue[r], u) /\ u # t
      /\ state[t] = "WAITING" /\ state' \in [Thread -> ThreadState]
      /\ \A u \in Thread : state'[u] = IF u = t THEN "READY" ELSE state[u]
      /\ QueuesOK(runQueue', count')
      /\ \A d \in Core, u \in Thread : In(runQueue'[d], u) <=>
             \/ In(runQueue[d], u)
             \/ u = t /\ suspend[t] = 0 /\ d \in affinity[t]
  <2>1. /\ waitQueue' \in [Queue -> Seq(Thread)]
        /\ \A r \in Queue, u \in Thread :
               In(waitQueue'[r], u) <=> In(waitQueue[r], u) /\ u # t
        /\ state[t] = "WAITING" /\ state' = [state EXCEPT ![t] = "READY"]
        /\ WaitInv'
        /\ QueuesOK(runQueue', count')
        /\ \A d \in Core, u \in Thread : In(runQueue'[d], u) <=>
               \/ In(runQueue[d], u)
               \/ u = t /\ suspend[t] = 0 /\ d \in affinity[t]
    BY <1>1, <1>3, WakeThreadStep
  <2>2. /\ state' \in [Thread -> ThreadState]
        /\ \A u \in Thread : state'[u] = IF u = t THEN "READY" ELSE state[u]
    BY <1>1, <2>1 DEF TypeOK, ThreadState
  <2>. QED
    BY <2>1, <2>2
<1> HIDE DEF t
<1>5. TypeOK'
  <2>1. held' \in Held
    BY <1>1, <1>2, <1>3, HeldTypes, QueueTypes
  <2>. QED
    BY <1>1, <1>2, <1>3, <1>4, <2>1 DEF TypeOK, QueuesOK
<1>6. RunQueuesExact'
  <2>1. \A d \in Core, u \in Thread : In(runQueue'[d], u) <=>
            /\ state'[u] = "READY" /\ suspend'[u] = 0 /\ d \in affinity'[u]
    BY <1>1, <1>2, <1>3, <1>4 DEF Runnable
  <2>. QED
    BY <1>4, <2>1, RunQueuesExactNext
<1>7. RunningOnOneCore'
  BY <1>1, <1>2, <1>3, <1>4, SchedulerAssumption DEF RunningOnOneCore, Holding, Free, ToSwitch
<1>8. ActiveExact'
  BY <1>1, <1>3, <1>4 DEF ActiveExact
<1>9. LockInv'
  BY <1>1, <1>2, <1>3, <1>4, SchedulerAssumption DEF LockInv, Free, ToSwitch
<1>10. WaitInv'
  BY <1>4
<1>11. JoinInv'
  <2>1. ASSUME NEW u \in Thread, joining[u] # NoThread
        PROVE  /\ joining[u] \in Thread /\ JoinQueue(joining[u]) \in Queue
               /\ u = t => state[joining[u]] = "MORIBUND"
    BY <1>1, <1>2, <1>3, <2>1, QueueTypes, SchedulerAssumption DEF JoinInv, WaitInv
  <2>. QED
    BY <1>1, <1>2, <1>3, <1>4, <2>1, SchedulerAssumption DEF JoinInv, Free, ToSwitch
<1>12. ReapInv'
  BY <1>1, <1>2, <1>3, <1>4 DEF ReapInv, Free, ToSwitch
<1>. QED
  BY <1>5, <1>6, <1>7, <1>8, <1>9, <1>10, <1>11, <1>12 DEF IInv

LEMMA WakeNextStep ==
    ASSUME JoinDiscipline, IInv, NEW c \in Core,
           WakeNext(c)
    PROVE  IInv'
<1>1. /\ \A d \in Core : current[d] \in Thread \cup {NoThread}
      /\ TypeOK /\ RunQueuesExact /\ RunningOnOneCore /\ ActiveExact
      /\ LockInv /\ WaitInv /\ JoinInv /\ ReapInv
      /\ QueuesOK(runQueue, count)
      /\ \A d \in Core, u \in Thread :
             In(runQueue[d], u) <=> Runnable(u) /\ d \in affinity[u]
  BY IInvParts
<1> DEFINE q == held.queue
           t == Head(waitQueue[q])
<1>3. /\ suspend' = suspend /\ affinity' = affinity
      /\ priority' = priority /\ detached' = detached /\ cancel' = cancel
      /\ active' = active /\ current' = current /\ joining' = joining
      /\ idle' = idle
      /\ t \in Thread /\ q \in Queue /\ In(waitQueue[q], t) /\ WakeThread(q, t)
      /\ held.op = "wake" /\ held.core = c /\ held.queue = q
      /\ held.then \in {"return", "exit"} /\ held.reschedule \in BOOLEAN
      /\ held'.op = "wake" /\ held'.core = c /\ held'.queue = q
      /\ held'.then = held.then /\ held' \in Held
      /\ held'.should => held.should \/ current[c] # NoThread
  <2>1. /\ held.op = "wake" /\ held.core = c /\ waitQueue[q] # <<>>
        /\ held \in [op : {"wake"}, core : Core, queue : Queue,
                       reschedule : BOOLEAN, should : BOOLEAN,
                       then : {"return", "exit"}]
    BY <1>1 DEF WakeNext, Holding, TypeOK, Held, Free
  <2>2. q \in Queue /\ waitQueue[q] \in Seq(Thread)
    BY <1>1, <2>1 DEF TypeOK
  <2>3. t \in Thread /\ In(waitQueue[q], t)
    BY <2>1, <2>2, HeadIn
  <2>4. held' = [held EXCEPT !.should =
                   @ \/ /\ held.reschedule /\ suspend[t] = 0
                        /\ current[c] # NoThread
                        /\ ShouldSwitch(c, t, priority, FALSE)]
    BY DEF WakeNext
  <2>5. /\ held'.op = "wake" /\ held'.core = c /\ held'.queue = q
        /\ held'.then = held.then
        /\ held' \in Held
        /\ held'.should => held.should \/ current[c] # NoThread
    <3> DEFINE s == \/ held.should
                    \/ /\ held.reschedule /\ suspend[t] = 0
                       /\ current[c] # NoThread
                       /\ ShouldSwitch(c, t, priority, FALSE)
    <3>1. /\ held' = [held EXCEPT !.should = s] /\ s \in BOOLEAN
          /\ s => held.should \/ current[c] # NoThread
      BY <2>1, <2>4 DEF ShouldSwitch
    <3> HIDE DEF s
    <3>. QED
      BY <2>1, <3>1 DEF Held
  <2> HIDE DEF t
  <2>. QED
    BY <2>1, <2>2, <2>3, <2>5 DEF WakeNext, t
<1>4. /\ waitQueue' \in [Queue -> Seq(Thread)] /\ WaitInv'
      /\ \A r \in Queue, u \in Thread :
             In(waitQueue'[r], u) <=> In(waitQueue[r], u) /\ u # t
      /\ state[t] = "WAITING" /\ state' \in [Thread -> ThreadState]
      /\ \A u \in Thread : state'[u] = IF u = t THEN "READY" ELSE state[u]
      /\ QueuesOK(runQueue', count')
      /\ \A d \in Core, u \in Thread : In(runQueue'[d], u) <=>
             \/ In(runQueue[d], u)
             \/ u = t /\ suspend[t] = 0 /\ d \in affinity[t]
  <2>1. /\ waitQueue' \in [Queue -> Seq(Thread)]
        /\ \A r \in Queue, u \in Thread :
               In(waitQueue'[r], u) <=> In(waitQueue[r], u) /\ u # t
        /\ state[t] = "WAITING" /\ state' = [state EXCEPT ![t] = "READY"]
        /\ WaitInv'
        /\ QueuesOK(runQueue', count')
        /\ \A d \in Core, u \in Thread : In(runQueue'[d], u) <=>
               \/ In(runQueue[d], u)
               \/ u = t /\ suspend[t] = 0 /\ d \in affinity[t]
    BY <1>1, <1>3, WakeThreadStep
  <2>2. /\ state' \in [Thread -> ThreadState]
        /\ \A u \in Thread : state'[u] = IF u = t THEN "READY" ELSE state[u]
    BY <1>1, <2>1 DEF TypeOK, ThreadState
  <2>. QED
    BY <2>1, <2>2
<1> HIDE DEF q, t
<1>5. TypeOK'
  BY <1>1, <1>3, <1>4 DEF TypeOK, QueuesOK
<1>6. RunQueuesExact'
  <2>1. \A d \in Core, u \in Thread : In(runQueue'[d], u) <=>
            /\ state'[u] = "READY" /\ suspend'[u] = 0 /\ d \in affinity'[u]
    BY <1>1, <1>3, <1>4 DEF Runnable
  <2>. QED
    BY <1>4, <2>1, RunQueuesExactNext
<1>7. RunningOnOneCore'
  BY <1>1, <1>3, <1>4, SchedulerAssumption DEF RunningOnOneCore, Holding
<1>8. ActiveExact'
  BY <1>1, <1>3, <1>4 DEF ActiveExact
<1>9. LockInv'
  BY <1>1, <1>3, <1>4, SchedulerAssumption DEF LockInv
<1>10. WaitInv'
  BY <1>4
<1>11. JoinInv'
  <2>1. ASSUME NEW u \in Thread, joining[u] # NoThread
        PROVE  /\ joining[u] \in Thread /\ JoinQueue(joining[u]) \in Queue
               /\ u = t => \/ state[joining[u]] = "MORIBUND"
                            \/ /\ held.then = "exit"
                               /\ current[held.core] = joining[u]
    BY <1>1, <1>3, <2>1, QueueTypes, SchedulerAssumption
       DEF JoinInv, WaitInv, LockInv, JoinDiscipline
  <2>. QED
    BY <1>1, <1>3, <1>4, <2>1, SchedulerAssumption DEF JoinInv
<1>12. ReapInv'
  BY <1>1, <1>3, <1>4 DEF ReapInv
<1>. QED
  BY <1>5, <1>6, <1>7, <1>8, <1>9, <1>10, <1>11, <1>12 DEF IInv

LEMMA CancelWaitStep ==
    ASSUME JoinDiscipline, IInv, NEW t \in Thread, NEW q \in WaitQueue, CancelWait(t, q)
    PROVE  IInv'
<1>1. /\ \A d \in Core : current[d] \in Thread \cup {NoThread}
      /\ TypeOK /\ RunQueuesExact /\ RunningOnOneCore /\ ActiveExact
      /\ LockInv /\ WaitInv /\ JoinInv /\ ReapInv
      /\ QueuesOK(runQueue, count)
      /\ \A d \in Core, u \in Thread :
             In(runQueue[d], u) <=> Runnable(u) /\ d \in affinity[u]
  BY IInvParts
<1>3. /\ suspend' = suspend /\ affinity' = affinity
      /\ priority' = priority /\ detached' = detached /\ cancel' = cancel
      /\ active' = active /\ current' = current /\ joining' = joining
      /\ idle' = idle /\ held' = held
      /\ q \in Queue /\ In(waitQueue[q], t) /\ WakeThread(q, t)
      /\ held.op = "free"
  BY QueueTypes DEF CancelWait, In, Free
<1>4. /\ waitQueue' \in [Queue -> Seq(Thread)] /\ WaitInv'
      /\ \A r \in Queue, u \in Thread :
             In(waitQueue'[r], u) <=> In(waitQueue[r], u) /\ u # t
      /\ state[t] = "WAITING" /\ state' \in [Thread -> ThreadState]
      /\ \A u \in Thread : state'[u] = IF u = t THEN "READY" ELSE state[u]
      /\ QueuesOK(runQueue', count')
      /\ \A d \in Core, u \in Thread : In(runQueue'[d], u) <=>
             \/ In(runQueue[d], u)
             \/ u = t /\ suspend[t] = 0 /\ d \in affinity[t]
  <2>1. /\ waitQueue' \in [Queue -> Seq(Thread)]
        /\ \A r \in Queue, u \in Thread :
               In(waitQueue'[r], u) <=> In(waitQueue[r], u) /\ u # t
        /\ state[t] = "WAITING" /\ state' = [state EXCEPT ![t] = "READY"]
        /\ WaitInv'
        /\ QueuesOK(runQueue', count')
        /\ \A d \in Core, u \in Thread : In(runQueue'[d], u) <=>
               \/ In(runQueue[d], u)
               \/ u = t /\ suspend[t] = 0 /\ d \in affinity[t]
    BY <1>1, <1>3, WakeThreadStep
  <2>2. /\ state' \in [Thread -> ThreadState]
        /\ \A u \in Thread : state'[u] = IF u = t THEN "READY" ELSE state[u]
    BY <1>1, <2>1 DEF TypeOK, ThreadState
  <2>. QED
    BY <2>1, <2>2
<1>5. TypeOK'
  BY <1>1, <1>3, <1>4, HeldTypes, QueueTypes, SchedulerAssumption
     DEF TypeOK, QueuesOK, ThreadState, IdleState
<1>6. RunQueuesExact'
  <2>1. \A d \in Core, u \in Thread : In(runQueue'[d], u) <=>
            /\ state'[u] = "READY" /\ suspend'[u] = 0 /\ d \in affinity'[u]
    BY <1>1, <1>3, <1>4 DEF Runnable
  <2>. QED
    BY <1>4, <2>1, RunQueuesExactNext
<1>7. RunningOnOneCore'
  BY <1>1, <1>3, <1>4, SchedulerAssumption DEF RunningOnOneCore, Holding
<1>8. ActiveExact'
  BY <1>1, <1>3, <1>4 DEF ActiveExact
<1>9. LockInv'
  BY <1>1, <1>3, <1>4, SchedulerAssumption DEF LockInv
<1>10. WaitInv'
  BY <1>4
<1>11. JoinInv'
  <2>1. ASSUME NEW u \in Thread, joining[u] # NoThread
        PROVE  /\ joining[u] \in Thread /\ JoinQueue(joining[u]) \in Queue
               /\ u = t => state[joining[u]] = "MORIBUND"
    BY <1>1, <1>3, <2>1, QueueTypes, SchedulerAssumption DEF JoinInv, WaitInv
  <2>. QED
    BY <1>1, <1>3, <1>4, <2>1, SchedulerAssumption DEF JoinInv
<1>12. ReapInv'
  BY <1>1, <1>3, <1>4 DEF ReapInv
<1>. QED
  BY <1>5, <1>6, <1>7, <1>8, <1>9, <1>10, <1>11, <1>12 DEF IInv
-----------------------------------------------------------------------------
(* Dispatching. *)

LEMMA PickThreadStep ==
    ASSUME JoinDiscipline, IInv, NEW c \in Core,
           PickThread(c)
    PROVE  IInv'
<1>1. /\ \A d \in Core : current[d] \in Thread \cup {NoThread}
      /\ TypeOK /\ RunQueuesExact /\ RunningOnOneCore /\ ActiveExact
      /\ LockInv /\ WaitInv /\ JoinInv /\ ReapInv
      /\ QueuesOK(runQueue, count)
      /\ \A d \in Core, u \in Thread :
             In(runQueue[d], u) <=> Runnable(u) /\ d \in affinity[u]
  BY IInvParts
<1> DEFINE t == MostUrgent(runQueue[c], priority)
<1>3. /\ suspend' = suspend /\ affinity' = affinity
      /\ priority' = priority /\ detached' = detached /\ cancel' = cancel
      /\ active' = active /\ waitQueue' = waitQueue /\ joining' = joining
      /\ t \in Thread /\ Runnable(t) /\ held.op = "pick" /\ held.core = c
      /\ current[c] = NoThread /\ RemoveFromRunQueues(t)
      /\ idle' \in [Core -> IdleState] /\ idle'[c] = "off"
      /\ \A d \in Core : d # c => idle'[d] = idle[d]
      /\ held' = IF joining[t] # NoThread THEN ToReap(c) ELSE Free
      /\ current' \in [Core -> Thread \cup {NoThread}]
      /\ \A d \in Core : current'[d] = IF d = c THEN t ELSE current[d]
      /\ state' \in [Thread -> ThreadState]
      /\ \A u \in Thread : state'[u] = IF u = t THEN "RUNNING" ELSE state[u]
  <2>1. runQueue[c] # <<>> /\ held.op = "pick" /\ held.core = c
    BY DEF PickThread, Holding
  <2>2. runQueue[c] \in Seq(Thread) /\ priority \in [Thread -> Nat]
    BY <1>1, SchedulerAssumption DEF TypeOK
  <2>3. t \in Thread /\ In(runQueue[c], t)
    BY <2>1, <2>2, MostUrgentProperties
  <2>4. Runnable(t) /\ current[c] = NoThread
    BY <1>1, <2>1, <2>3 DEF LockInv
  <2> HIDE DEF t
  <2>. QED
    BY <1>1, <2>1, <2>3, <2>4 DEF PickThread, TypeOK, ThreadState, IdleState, t
<1>4. /\ QueuesOK(runQueue', count')
      /\ \A d \in Core : \A u \in Thread :
             In(runQueue'[d], u) <=> In(runQueue[d], u) /\ u # t
  BY <1>1, <1>3, RemoveFromRunQueuesStep
<1> HIDE DEF t
<1>5. TypeOK'
  <2>1. held' \in Held
    BY <1>1, <1>3, HeldTypes, QueueTypes
  <2>. QED
    BY <1>1, <1>3, <1>4, <2>1 DEF TypeOK, QueuesOK
<1>6. RunQueuesExact'
  <2>1. \A d \in Core, u \in Thread : In(runQueue'[d], u) <=>
            /\ state'[u] = "READY" /\ suspend'[u] = 0 /\ d \in affinity'[u]
    BY <1>1, <1>3, <1>4 DEF Runnable
  <2>. QED
    BY <1>4, <2>1, RunQueuesExactNext
<1>7. RunningOnOneCore'
  BY <1>1, <1>3, <1>4, SchedulerAssumption DEF RunningOnOneCore, Holding, Free, ToReap, Runnable
<1>8. ActiveExact'
  BY <1>1, <1>3, <1>4 DEF ActiveExact, Free, ToReap, Runnable
<1>9. LockInv'
  BY <1>1, <1>3, <1>4, SchedulerAssumption DEF LockInv, Free, ToReap, Runnable
<1>10. WaitInv'
  BY <1>1, <1>3 DEF WaitInv, In, Free, ToReap, Runnable
<1>11. JoinInv'
  BY <1>1, <1>3, SchedulerAssumption DEF JoinInv, In, Free, ToReap, Runnable
<1>12. ReapInv'
  BY <1>1, <1>3, <1>4 DEF ReapInv, Free, ToReap, Runnable
<1>. QED
  BY <1>5, <1>6, <1>7, <1>8, <1>9, <1>10, <1>11, <1>12 DEF IInv
-----------------------------------------------------------------------------
LEMMA InitIInv == Init => IInv
<1> SUFFICES ASSUME Init PROVE IInv
  OBVIOUS
<1>1. TypeOK
  <2>1. \A c \in Core : (IF c = MainCore THEN <<MainThread>> ELSE <<>>) \in Seq(Thread)
    BY SchedulerAssumption
  <2>2. \A c \in Core : (IF c = MainCore THEN 1 ELSE 0) \in Nat
    OBVIOUS
  <2>. QED
    BY <2>1, <2>2, SchedulerAssumption, HeldTypes
       DEF Init, TypeOK, ThreadState, IdleState
<1>2. \A q \in Queue : \A u : ~ In(waitQueue[q], u)
  BY DEF Init, In
<1>3. RunQueuesExact
  BY SchedulerAssumption DEF Init, RunQueuesExact, OnQueue, NoRepeat, Runnable
<1>4. RunningOnOneCore
  BY SchedulerAssumption DEF Init, RunningOnOneCore
<1>5. ActiveExact /\ LockInv
  BY SchedulerAssumption DEF Init, ActiveExact, LockInv, Free
<1>6. WaitInv /\ JoinInv /\ ReapInv
  BY <1>2, SchedulerAssumption DEF Init, WaitInv, JoinInv, ReapInv, NoRepeat, Free
<1>. QED
  BY <1>1, <1>3, <1>4, <1>5, <1>6 DEF IInv

LEMMA StutterIInv == IInv /\ UNCHANGED vars => IInv'
<1> SUFFICES ASSUME IInv, UNCHANGED vars PROVE IInv'
  OBVIOUS
<1> USE DEF vars
<1>1. TypeOK'
  BY DEF IInv, TypeOK
<1>2. RunQueuesExact'
  BY DEF IInv, RunQueuesExact, OnQueue, Runnable
<1>3. RunningOnOneCore' /\ ActiveExact' /\ LockInv' /\ ReapInv'
  BY DEF IInv, RunningOnOneCore, ActiveExact, LockInv, ReapInv, Holding
<1>4. WaitInv' /\ JoinInv'
  BY DEF IInv, WaitInv, JoinInv, In
<1>. QED
  BY <1>1, <1>2, <1>3, <1>4 DEF IInv

LEMMA GuestCallStep ==
    ASSUME JoinDiscipline, IInv, NEW c \in Core, GuestCall(c)
    PROVE  IInv'
<1>1. ASSUME NEW t \in Thread,
             \/ \E entry, detach \in BOOLEAN, mask \in Mask, prio \in Priority :
                    OSCreateThread(c, t, entry, mask, prio, detach)
             \/ OSRunThread(c, t)
             \/ OSDetachThread(c, t)
             \/ OSJoinThread(c, t)
             \/ \E n \in 1..MaxSuspend : OSResumeThread(c, t, n)
             \/ OSSuspendThread(c, t)
             \/ \E prio \in Priority : OSSetThreadPriority(c, t, prio)
             \/ \E mask \in Mask : OSSetThreadAffinity(c, t, mask)
             \/ OSCancelThread(c, t)
      PROVE  IInv'
  BY <1>1, OSCreateThreadStep, OSRunThreadStep, OSDetachThreadStep,
     OSJoinThreadStep, OSResumeThreadStep, OSSuspendThreadStep,
     OSSetThreadPriorityStep, OSSetThreadAffinityStep, OSCancelThreadStep
<1>2. CASE OSExitThread(c) \/ OSTestThreadCancel(c)
  BY <1>2, OSExitThreadStep DEF OSTestThreadCancel
<1>3. CASE OSYieldThread(c)
  BY <1>3, OSYieldThreadStep
<1>4. CASE OSSleepTicks(c)
  <2>1. current[c] \in Thread
    BY <1>4, CallsRunning DEF OSSleepTicks
  <2>. QED
    BY <1>4, <2>1, QueueTypes, OSSleepThreadStep DEF OSSleepTicks
<1>5. ASSUME NEW q \in WaitQueue,
             \/ OSSleepThread(c, q)
             \/ OSWakeupThread(c, q)
             \/ \E workaround \in BOOLEAN : WakeupSingle(c, q, workaround)
      PROVE  IInv'
  BY <1>5, QueueTypes, OSSleepThreadStep, OSWakeupThreadStep, WakeupSingleStep
<1>. QED
  BY <1>1, <1>2, <1>3, <1>4, <1>5 DEF GuestCall

LEMMA NextIInv ==
    ASSUME JoinDiscipline, IInv, Next
    PROVE  IInv'
<1>1. ASSUME NEW c \in Core, GuestCall(c) PROVE IInv'
  BY <1>1, GuestCallStep
<1>2. ASSUME NEW c \in Core, UnderLock(c) PROVE IInv'
  BY <1>2, WakeNextStep, WakeReturnStep, ExitDoneStep, ReapStep,
     StoreThreadStep, PickThreadStep, PickNothingStep DEF UnderLock
<1>3. ASSUME NEW c \in Core, IdleStep(c) PROVE IInv'
  BY <1>3, IdleCheckStep, IdleLockStep, IdleWakeStep DEF IdleStep
<1>4. CASE SystemEvents
  BY <1>4, AlarmWakeStep, CancelWaitStep, EventsDoneStep DEF SystemEvents
<1>. QED
  BY <1>1, <1>2, <1>3, <1>4 DEF Next

\* The inductive invariant holds in every reachable state.
THEOREM InductiveInvariant == JoinDiscipline => (Spec => []IInv)
<1> SUFFICES ASSUME JoinDiscipline PROVE Spec => []IInv
  OBVIOUS
<1>1. Init => IInv
  BY InitIInv
<1>2. IInv /\ [Next]_vars => IInv'
  BY NextIInv, StutterIInv
<1>. QED
  BY <1>1, <1>2, PTL DEF Spec
-----------------------------------------------------------------------------
(* The properties of Scheduler, for every value of its constants. *)

\* Every variable keeps its type; suspendCounter stays within its bound and no
\* run queue count goes below zero, whatever the guest calls.
THEOREM TypeCorrect == JoinDiscipline => (Spec => []TypeOK)
<1>1. IInv => TypeOK
  BY DEF IInv
<1>. QED
  BY <1>1, InductiveInvariant, PTL

\* The run queues hold exactly the runnable threads and the semaphores count
\* them, in whatever order cores, wakeups and suspensions interleave.
THEOREM RunQueuesAreExact == JoinDiscipline => (Spec => []RunQueuesExact)
<1>1. IInv => RunQueuesExact
  BY DEF IInv
<1>. QED
  BY <1>1, InductiveInvariant, PTL

\* No guest thread runs on two cores, and none runs unless it is RUNNING.
THEOREM ThreadsRunOnOneCore == JoinDiscipline => (Spec => []RunningOnOneCore)
<1>1. IInv => RunningOnOneCore
  BY DEF IInv
<1>. QED
  BY <1>1, InductiveInvariant, PTL

\* A waiting thread is in one wait queue, once.
THEOREM ThreadsWaitInOneQueue == JoinDiscipline => (Spec => []WaitingInOneQueue)
<1>1. IInv => WaitingInOneQueue
  <2> SUFFICES ASSUME IInv PROVE WaitingInOneQueue
    OBVIOUS
  <2>1. WaitInv /\ \A q \in Queue : waitQueue[q] \in Seq(Thread)
    BY IInvParts DEF TypeOK
  <2>2. ASSUME NEW q \in Queue, NEW i \in 1..Len(waitQueue[q])
        PROVE  /\ state[waitQueue[q][i]] = "WAITING"
               /\ \A r \in Queue : \A j \in 1..Len(waitQueue[r]) :
                      waitQueue[r][j] = waitQueue[q][i] => r = q /\ j = i
    <3>1. waitQueue[q][i] \in Thread /\ In(waitQueue[q], waitQueue[q][i])
      BY <2>1, ElementOfSeq DEF In
    <3>2. ASSUME NEW r \in Queue, NEW j \in 1..Len(waitQueue[r]),
                 waitQueue[r][j] = waitQueue[q][i]
          PROVE  r = q /\ j = i
      <4>1. In(waitQueue[r], waitQueue[q][i])
        BY <3>2 DEF In
      <4>2. r = q
        BY <2>1, <3>1, <4>1 DEF WaitInv
      <4>. QED
        BY <2>1, <3>2, <4>2 DEF WaitInv, NoRepeat
    <3>. QED
      BY <2>1, <3>1, <3>2 DEF WaitInv
  <2>3. ASSUME NEW t \in Thread, state[t] = "WAITING"
        PROVE  \E q \in Queue : \E i \in 1..Len(waitQueue[q]) : waitQueue[q][i] = t
    BY <2>1, <2>3 DEF WaitInv, In
  <2>. QED
    BY <2>2, <2>3 DEF WaitingInOneQueue
<1>. QED
  BY <1>1, InductiveInvariant, PTL

\* The asserts behind the wait of OSJoinThread never fail for a guest that does
\* not detach a thread it joins.
THEOREM JoinersFindTheirThread == JoinDiscipline => (Spec => []JoinedThreadIsMoribund)
<1> SUFFICES ASSUME JoinDiscipline PROVE Spec => []JoinedThreadIsMoribund
  OBVIOUS
<1>1. IInv => JoinedThreadIsMoribund
  <2> SUFFICES ASSUME IInv, NEW c \in Core, Holding(c, "reap")
               PROVE  LET t == joining[current[c]]
                      IN  t \in active /\ state[t] = "MORIBUND" /\ ~detached[t]
    BY DEF JoinedThreadIsMoribund
  <2> DEFINE t == joining[current[c]]
  <2>1. /\ TypeOK /\ RunningOnOneCore /\ ActiveExact /\ LockInv /\ WaitInv
        /\ JoinInv /\ ReapInv
        /\ held.op = "reap" /\ held.core = c
    BY IInvParts DEF Holding
  <2>2. current[c] \in Thread /\ t # NoThread
    BY <2>1 DEF LockInv, ReapInv, TypeOK
  <2>3. state[current[c]] = "RUNNING"
    BY <2>1, <2>2, SchedulerAssumption DEF RunningOnOneCore, Holding
  <2>4. t \in Thread /\ t \in Joinable
    BY <2>1, <2>2, SchedulerAssumption DEF JoinInv
  <2>5. state[t] = "MORIBUND"
    <3>1. /\ JoinQueue(t) \in Queue
          /\ ~ In(waitQueue[JoinQueue(t)], current[c])
      BY <2>1, <2>2, <2>3, <2>4, QueueTypes DEF WaitInv
    <3>. QED
      BY <2>1, <2>2, <3>1 DEF JoinInv
  <2>. QED
    BY <2>1, <2>4, <2>5 DEF ActiveExact, JoinDiscipline
<1>. QED
  BY <1>1, InductiveInvariant, PTL

\* Only PickThread makes a thread run, and it takes one from the run queue, so
\* a thread whose suspendCounter is positive is never given a core.
THEOREM SuspendedStayOffTheCores == JoinDiscipline => (Spec => SuspendedNotDispatched)
<1> SUFFICES ASSUME JoinDiscipline PROVE Spec => SuspendedNotDispatched
  OBVIOUS
<1>1. ASSUME IInv, NEW t \in Thread, state[t] # "RUNNING", state'[t] = "RUNNING",
             [Next]_vars
      PROVE  suspend[t] = 0
  <2>0. state \in [Thread -> ThreadState]
    BY <1>1, IInvParts DEF TypeOK
  <2>1. ASSUME NEW c \in Core, PickThread(c) PROVE suspend[t] = 0
    <3> DEFINE p == MostUrgent(runQueue[c], priority)
    <3>1. state' = [state EXCEPT ![p] = "RUNNING"] /\ runQueue[c] # <<>>
      BY <2>1 DEF PickThread
    <3>2. runQueue[c] \in Seq(Thread) /\ priority \in [Thread -> Nat]
      BY <1>1, IInvParts, SchedulerAssumption DEF TypeOK
    <3>3. p \in Thread /\ In(runQueue[c], p)
      BY <3>1, <3>2, MostUrgentProperties
    <3>4. t = p
      BY <1>1, <2>0, <3>1
    <3>. QED
      BY <1>1, <3>3, <3>4, IInvParts DEF Runnable
  <2>2. ASSUME NEW c \in Core, UnderLock(c), ~ PickThread(c) PROVE FALSE
    BY <1>1, <2>0, <2>2
       DEF UnderLock, WakeNext, WakeThread, WakeReturn, ExitDone, Reap,
           StoreThread, PickNothing, threadVars
  <2>3. ASSUME NEW c \in Core, GuestCall(c) PROVE FALSE
    <3>1. ASSUME NEW u \in Thread, NEW q \in Queue,
                 \/ \E entry, detach \in BOOLEAN, mask \in Mask, prio \in Priority :
                        OSCreateThread(c, u, entry, mask, prio, detach)
                 \/ OSRunThread(c, u)
                 \/ OSDetachThread(c, u)
                 \/ OSJoinThread(c, u)
                 \/ OSSleepThread(c, q)
          PROVE  FALSE
      BY <1>1, <2>0, <3>1
         DEF OSCreateThread, OSRunThread, OSDetachThread, OSJoinThread,
             OSSleepThread, QueueAndWait
    <3>2. ASSUME NEW u \in Thread,
                 \/ \E n \in 1..MaxSuspend : OSResumeThread(c, u, n)
                 \/ OSSuspendThread(c, u)
                 \/ \E prio \in Priority : OSSetThreadPriority(c, u, prio)
                 \/ \E mask \in Mask : OSSetThreadAffinity(c, u, mask)
                 \/ OSCancelThread(c, u)
                 \/ OSExitThread(c) \/ OSTestThreadCancel(c) \/ OSYieldThread(c)
          PROVE  FALSE
      BY <1>1, <3>2
         DEF OSResumeThread, OSSuspendThread, OSSetThreadPriority,
             OSSetThreadAffinity, OSCancelThread, OSExitThread,
             OSTestThreadCancel, OSYieldThread, threadVars
    <3>3. ASSUME NEW q \in WaitQueue,
                 \/ OSWakeupThread(c, q)
                 \/ \E workaround \in BOOLEAN : WakeupSingle(c, q, workaround)
          PROVE  FALSE
      BY <1>1, <2>0, <3>3 DEF OSWakeupThread, WakeupSingle, WakeThread, threadVars
    <3>4. ASSUME OSSleepTicks(c) PROVE FALSE
      <4>1. current[c] \in Thread
        BY <1>1, <3>4, CallsRunning DEF OSSleepTicks
      <4>. QED
        BY <1>1, <3>1, <3>4, <4>1, QueueTypes DEF OSSleepTicks
    <3>. QED
      BY <1>1, <2>3, <3>1, <3>2, <3>3, <3>4, QueueTypes DEF GuestCall
  <2>4. ASSUME NEW c \in Core, IdleStep(c) PROVE FALSE
    BY <1>1, <2>4 DEF IdleStep, IdleCheck, IdleLock, IdleWake, threadVars
  <2>5. ASSUME SystemEvents PROVE FALSE
    BY <1>1, <2>0, <2>5
       DEF SystemEvents, AlarmWake, CancelWait, WakeThread, EventsDone, threadVars
  <2>. QED
    BY <1>1, <2>1, <2>2, <2>3, <2>4, <2>5 DEF Next, vars
<1>2. IInv /\ [Next]_vars =>
        [\A t \in Thread : state[t] # "RUNNING" /\ state'[t] = "RUNNING"
                           => suspend[t] = 0]_vars
  BY <1>1
<1>. QED
  BY <1>2, InductiveInvariant, PTL DEF Spec, SuspendedNotDispatched
=============================================================================
