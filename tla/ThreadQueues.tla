---------------------------- MODULE ThreadQueues ----------------------------
(***************************************************************************)
(* The pure operations of OSThreadQueueInternal (coreinit_ThreadQueue.cpp) *)
(* on a queue seen as the sequence of threads from head to tail.  Module   *)
(* ThreadLinks shows that the head/tail/next/prev code implements them.    *)
(* `prio' maps a thread to its effectivePriority; lower is more urgent.    *)
(***************************************************************************)
EXTENDS Naturals, Sequences, SequencesExt

\* The queue holds a thread at most once.
NoRepeat(q) == \A i, j \in 1..Len(q) : q[i] = q[j] => i = j

\* Mutant: in front of the head.
AddThreadFront(q, t) == <<t>> \o q

\* addThread: behind the tail.
AddThread(q, t) == Append(q, t)

\* addThreadByPriority: walk from the tail over the less urgent threads and
\* insert behind the first one that is at least as urgent.
InsertPosition(q, t, prio) ==
    CHOOSE i \in 1..Len(q) + 1 :
        /\ \A j \in i..Len(q) : prio[q[j]] > prio[t]
        /\ i > 1 => prio[q[i - 1]] <= prio[t]

AddThreadByPriority(q, t, prio) == InsertAt(q, InsertPosition(q, t, prio), t)

\* removeThread: unlink t; a thread that is not linked leaves the queue alone.
RemoveThread(q, t) ==
    IF \E i \in 1..Len(q) : q[i] = t
    THEN RemoveAt(q, CHOOSE i \in 1..Len(q) : q[i] = t)
    ELSE q

\* The first of the most urgent threads of a queue that is not empty.
MostUrgent(q, prio) ==
    q[CHOOSE i \in 1..Len(q) :
        /\ \A j \in 1..Len(q) : prio[q[i]] <= prio[q[j]]
        /\ \A j \in 1..i - 1 : prio[q[i]] < prio[q[j]]]
=============================================================================
