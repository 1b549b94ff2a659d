----------------------------- MODULE ThreadLists -----------------------------
(***************************************************************************)
(* What OSThreadQueueInternal promises: queues of threads, each thread in  *)
(* one of them at most, extended at the tail or by priority and taken from *)
(* the front or out of the middle.                                         *)
(***************************************************************************)
EXTENDS ThreadQueues

CONSTANTS Thread, Queue, Priority

VARIABLES
    queue,  \* the threads of each queue from head to tail
    prio    \* effectivePriority

Init ==
    /\ queue = [q \in Queue |-> <<>>]
    /\ prio \in [Thread -> Priority]

In(t, q) == \E i \in 1..Len(queue[q]) : queue[q][i] = t

Add(q, t) ==
    /\ \A r \in Queue : ~In(t, r)
    /\ \/ queue' = [queue EXCEPT ![q] = AddThread(@, t)]
       \/ queue' = [queue EXCEPT ![q] = AddThreadByPriority(@, t, prio)]
    /\ UNCHANGED prio

TakeOut(q, t) ==
    /\ In(t, q)
    /\ queue' = [queue EXCEPT ![q] = RemoveThread(@, t)]
    /\ UNCHANGED prio

\* The threads of a queue are not sorted again.
SetPriority == prio' \in [Thread -> Priority] /\ UNCHANGED queue

Next ==
    \/ \E q \in Queue, t \in Thread : Add(q, t) \/ TakeOut(q, t)
    \/ SetPriority

Spec == Init /\ [][Next]_<<queue, prio>>
=============================================================================
