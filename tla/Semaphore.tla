------------------------------ MODULE Semaphore ------------------------------
(***************************************************************************)
(* OSSemaphore (coreinit_Synchronization.cpp).  A signal adds one unit and *)
(* wakes every waiting thread; whoever comes first takes the unit, the     *)
(* others wait again.  A pass through the loop of OSWaitSemaphoreInternal  *)
(* holds the scheduler lock up to its wait or return and is one action.    *)
(***************************************************************************)
EXTENDS Integers

CONSTANTS
    Thread,
    InitialCount,   \* the guest may give any, also a negative one
    MaxCount        \* bound on count

VARIABLES
    count,
    threadQueue,    \* the threads in the wait queue
    waiting         \* the threads in OSWaitSemaphore

vars == <<count, threadQueue, waiting>>

\* OSInitSemaphoreEx
Init == count = InitialCount /\ threadQueue = {} /\ waiting = {}

TakeUnit(t) ==
    /\ count > 0
    /\ count' = count - 1
    /\ waiting' = waiting \ {t}
    /\ UNCHANGED threadQueue

WaitForUnit(t) ==
    /\ count <= 0
    /\ threadQueue' = threadQueue \cup {t}
    /\ waiting' = waiting \cup {t}
    /\ UNCHANGED count

\* OSWaitSemaphore, and OSTryWaitSemaphore, which fails where this waits.
OSWaitSemaphore(t, try) ==
    /\ t \notin waiting
    /\ TakeUnit(t) \/ (~try /\ WaitForUnit(t))

\* A woken thread looks at the count again.
OSWaitSemaphoreInternal(t) ==
    /\ t \in waiting \ threadQueue
    /\ TakeUnit(t) \/ WaitForUnit(t)

\* Mutant: waiting threads are woken only when the count was zero.
OSSignalSemaphoreWakesAtZero(t) ==
    /\ t \notin waiting /\ count < MaxCount
    /\ count' = count + 1
    /\ threadQueue' = IF count = 0 /\ threadQueue # {}
                      THEN threadQueue \ {CHOOSE u \in threadQueue : TRUE}
                      ELSE threadQueue
    /\ UNCHANGED waiting

OSSignalSemaphore(t) ==
    /\ t \notin waiting /\ count < MaxCount
    /\ count' = count + 1
    /\ threadQueue' = {}
    /\ UNCHANGED waiting

Next ==
    \E t \in Thread :
        \/ \E try \in BOOLEAN : OSWaitSemaphore(t, try)
        \/ OSWaitSemaphoreInternal(t)
        \/ OSSignalSemaphore(t)

Spec == Init /\ [][Next]_vars
-----------------------------------------------------------------------------
\* No thread sleeps while there are units, whoever took the others.
NobodySleepsBesideUnits == count > 0 => threadQueue = {}
=============================================================================
