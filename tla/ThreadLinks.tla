----------------------------- MODULE ThreadLinks -----------------------------
(***************************************************************************)
(* The doubly linked lists of OSThreadQueueInternal (coreinit_Thread.h and *)
(* coreinit_ThreadQueue.cpp): head and tail of a queue, next and prev of   *)
(* one OSThreadLink in every thread.  The lists run under the scheduler    *)
(* lock, so each function is one action.                                   *)
(***************************************************************************)
EXTENDS Naturals, Sequences, SequencesExt, FiniteSets

CONSTANTS Thread, Queue, Priority, Null

VARIABLES head, tail, next, prev, prio

links == <<head, tail, next, prev>>
vars == <<head, tail, next, prev, prio>>

\* OSInitThreadQueueEx
Init ==
    /\ head = [q \in Queue |-> Null] /\ tail = [q \in Queue |-> Null]
    /\ next = [t \in Thread |-> Null] /\ prev = [t \in Thread |-> Null]
    /\ prio \in [Thread -> Priority]

\* The threads from t on, of which there are at most n.
Walk(link, t, n) ==
    LET step(s) == IF link[Last(s)] = Null THEN s ELSE Append(s, link[Last(s)])
        walk[m \in 1..n] == IF m = 1 THEN <<t>> ELSE step(walk[m - 1])
    IN  IF t = Null THEN <<>> ELSE walk[n]

Forward(q) == Walk(next, head[q], Cardinality(Thread) + 1)
Backward(q) == Walk(prev, tail[q], Cardinality(Thread) + 1)

Linked(t) == \E q \in Queue : t \in ToSet(Forward(q))

InsertAfterTail(q, t) ==
    /\ tail' = [tail EXCEPT ![q] = t]
    /\ prev' = [prev EXCEPT ![t] = tail[q]]
    /\ IF tail[q] = Null
       THEN head' = [head EXCEPT ![q] = t] /\ next' = [next EXCEPT ![t] = Null]
       ELSE next' = [next EXCEPT ![t] = Null, ![tail[q]] = t] /\ UNCHANGED head

addThread(q, t) == ~Linked(t) /\ InsertAfterTail(q, t) /\ UNCHANGED prio

\* Mutant: a thread is inserted before those of its own priority.
WalkOverEqual(t, u) == u # Null /\ prio[u] >= prio[t]

\* The walk of addThreadByPriority goes on over u.
WalkOver(t, u) == u # Null /\ prio[u] > prio[t]

\* Where the walk that starts at u ends.
InsertAfter(t, u) ==
    LET end[w \in Thread \cup {Null}] == IF WalkOver(t, w) THEN end[prev[w]] ELSE w
    IN  end[u]

InsertInFront(q, t) ==
    /\ next' = [next EXCEPT ![t] = head[q]]
    /\ prev' = [prev EXCEPT ![t] = Null, ![head[q]] = t]
    /\ head' = [head EXCEPT ![q] = t]
    /\ UNCHANGED tail

\* Mutant: the thread behind t does not get its prev.
InsertBetweenHalf(q, t, u) ==
    /\ next' = [next EXCEPT ![t] = next[u], ![u] = t]
    /\ prev' = [prev EXCEPT ![t] = u]
    /\ tail' = IF next[u] = Null THEN [tail EXCEPT ![q] = t] ELSE tail
    /\ UNCHANGED head

\* Behind u, which may be the tail.
InsertBetween(q, t, u) ==
    /\ next' = [next EXCEPT ![t] = next[u], ![u] = t]
    /\ IF next[u] = Null
       THEN prev' = [prev EXCEPT ![t] = u] /\ tail' = [tail EXCEPT ![q] = t]
       ELSE prev' = [prev EXCEPT ![t] = u, ![next[u]] = t] /\ UNCHANGED tail
    /\ UNCHANGED head

addThreadByPriority(q, t) ==
    LET u == InsertAfter(t, tail[q]) IN
    /\ ~Linked(t)
    /\ IF tail[q] = Null THEN InsertAfterTail(q, t)
       ELSE IF u = Null THEN InsertInFront(q, t)
       ELSE InsertBetween(q, t, u)
    /\ UNCHANGED prio

\* Of a thread that is in the queue, as the debug check asserts.
removeThread(q, t) ==
    /\ t \in ToSet(Forward(q))
    /\ IF prev[t] # Null
       THEN next' = [next EXCEPT ![prev[t]] = next[t], ![t] = Null] /\ UNCHANGED head
       ELSE next' = [next EXCEPT ![t] = Null] /\ head' = [head EXCEPT ![q] = next[t]]
    /\ IF next[t] # Null
       THEN prev' = [prev EXCEPT ![next[t]] = prev[t], ![t] = Null] /\ UNCHANGED tail
       ELSE prev' = [prev EXCEPT ![t] = Null] /\ tail' = [tail EXCEPT ![q] = prev[t]]
    /\ UNCHANGED prio

takeFirstFromQueue(q) == head[q] # Null /\ removeThread(q, head[q])

OSSetThreadPriority(t, p) ==
    /\ prio' = [prio EXCEPT ![t] = p]
    /\ UNCHANGED links

Next ==
    \/ \E q \in Queue :
        \/ takeFirstFromQueue(q)
        \/ \E t \in Thread : addThread(q, t) \/ addThreadByPriority(q, t) \/ removeThread(q, t)
    \/ \E t \in Thread, p \in Priority : OSSetThreadPriority(t, p)

Spec == Init /\ [][Next]_vars
-----------------------------------------------------------------------------
\* The asserts of queueAndWait and _debugCheckChain: a list reads the same in
\* both directions, has both ends or none, and a thread that is in no queue
\* has no neighbours left.
LinksAgree ==
    /\ \A q \in Queue : Backward(q) = Reverse(Forward(q))
    /\ \A t \in Thread : ~Linked(t) => next[t] = Null /\ prev[t] = Null

\* The linked lists implement the queues the scheduler model works with.
Lists == INSTANCE ThreadLists WITH queue <- [q \in Queue |-> Forward(q)]

ListsSpec == Lists!Spec
=============================================================================
