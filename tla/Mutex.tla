------------------------------- MODULE Mutex -------------------------------
(***************************************************************************)
(* OSMutex and OSCond (coreinit_Synchronization.cpp), with the part of     *)
(* OSExitThread that releases the mutexes of a thread.  All of it runs     *)
(* under the scheduler lock, so a pass through the loop of                 *)
(* OSLockMutexInternal, up to its wait or return, is one action.           *)
(*                                                                         *)
(* A woken thread goes on whenever the scheduler gets to it, and another   *)
(* may lock the mutex first; any waiting thread may be the one woken,      *)
(* because the order of a wait queue depends on changing priorities.       *)
(***************************************************************************)
EXTENDS Locks

VARIABLES
    owner, lockCount,   \* of each OSMutex
    threadQueue,        \* the threads in its wait queue
    condQueue,          \* the threads in the wait queue of each OSCond
    mutexQueue,         \* OSThread_t::mutexQueue as a set
    call                \* the call a thread is in

mutexVars == <<owner, lockCount, threadQueue, mutexQueue>>
vars == <<owner, lockCount, threadQueue, condQueue, mutexQueue, call>>

NoCall == [op |-> "none"]
Exiting == [op |-> "exit"]
Ended == [op |-> "ended"]
\* In OSLockMutexInternal; prev is prevLockCount of OSWaitCond or 0.
Locking(m, prev) == [op |-> "lock", mutex |-> m, prev |-> prev]
Call == {NoCall, Exiting, Ended}
            \cup {Locking(m, p) : m \in Mutex, p \in 0..MaxLockCount}

\* OSInitMutexEx, OSInitCond
Init ==
    /\ owner = [m \in Mutex |-> NoThread]
    /\ lockCount = [m \in Mutex |-> 0]
    /\ threadQueue = [m \in Mutex |-> {}]
    /\ condQueue = [c \in Cond |-> {}]
    /\ mutexQueue = [t \in Thread |-> {}]
    /\ call = [t \in Thread |-> NoCall]

\* wakeupSingleThreadWaitQueue on the queue of m.
WakeSingle(m) ==
    \/ threadQueue[m] = {} /\ UNCHANGED threadQueue
    \/ \E t \in threadQueue[m] : threadQueue' = [threadQueue EXCEPT ![m] = @ \ {t}]
-----------------------------------------------------------------------------
\* Mutant: the lock count is not restored.
AcquireOnce(t, m, prev) ==
    /\ owner[m] = NoThread
    /\ owner' = [owner EXCEPT ![m] = t]
    /\ lockCount' = [lockCount EXCEPT ![m] = 1]
    /\ mutexQueue' = [mutexQueue EXCEPT ![t] = @ \cup {m}]
    /\ call' = [call EXCEPT ![t] = NoCall]
    /\ UNCHANGED <<threadQueue, condQueue>>

\* Take the mutex if it is free; OSWaitCond then restores the lock count.
Acquire(t, m, prev) ==
    /\ owner[m] = NoThread
    /\ owner' = [owner EXCEPT ![m] = t]
    /\ lockCount' = [lockCount EXCEPT ![m] = IF prev = 0 THEN 1 ELSE prev]
    /\ mutexQueue' = [mutexQueue EXCEPT ![t] = @ \cup {m}]
    /\ call' = [call EXCEPT ![t] = NoCall]
    /\ UNCHANGED <<threadQueue, condQueue>>

LockAgain(t, m) ==
    /\ owner[m] = t /\ lockCount[m] < MaxLockCount
    /\ lockCount' = [lockCount EXCEPT ![m] = @ + 1]
    /\ UNCHANGED <<owner, threadQueue, condQueue, mutexQueue, call>>

WaitForMutex(t, m, prev) ==
    /\ owner[m] \notin {NoThread, t}
    /\ threadQueue' = [threadQueue EXCEPT ![m] = @ \cup {t}]
    /\ call' = [call EXCEPT ![t] = Locking(m, prev)]
    /\ UNCHANGED <<owner, lockCount, condQueue, mutexQueue>>

\* OSLockMutex, and OSTryLockMutex, which fails where this waits.
OSLockMutex(t, m, try) ==
    /\ call[t] = NoCall
    /\ Acquire(t, m, 0) \/ LockAgain(t, m) \/ (~try /\ WaitForMutex(t, m, 0))

\* A thread that was woken, from the mutex or from its condition, tries
\* to lock.
Woken(t) ==
    /\ call[t].op = "lock"
    /\ t \notin threadQueue[call[t].mutex] /\ \A c \in Cond : t \notin condQueue[c]

OSLockMutexInternal(t) ==
    /\ Woken(t)
    /\ \/ Acquire(t, call[t].mutex, call[t].prev)
       \/ WaitForMutex(t, call[t].mutex, call[t].prev)
-----------------------------------------------------------------------------
\* Mutant: nobody is woken.
OSUnlockMutexInternalNoWake(t, m) ==
    /\ lockCount[m] > 0 /\ owner[m] = t
    /\ lockCount' = [lockCount EXCEPT ![m] = @ - 1]
    /\ IF lockCount[m] = 1
       THEN /\ owner' = [owner EXCEPT ![m] = NoThread]
            /\ mutexQueue' = [mutexQueue EXCEPT ![t] = @ \ {m}]
       ELSE UNCHANGED <<owner, mutexQueue>>
    /\ UNCHANGED threadQueue

\* Of the owner; any other call changes nothing.
OSUnlockMutexInternal(t, m) ==
    /\ lockCount[m] > 0 /\ owner[m] = t
    /\ lockCount' = [lockCount EXCEPT ![m] = @ - 1]
    /\ IF lockCount[m] = 1
       THEN /\ owner' = [owner EXCEPT ![m] = NoThread]
            /\ mutexQueue' = [mutexQueue EXCEPT ![t] = @ \ {m}]
            /\ WakeSingle(m)
       ELSE UNCHANGED <<owner, mutexQueue, threadQueue>>

OSUnlockMutex(t, m) ==
    /\ call[t] = NoCall
    /\ OSUnlockMutexInternal(t, m)
    /\ UNCHANGED <<condQueue, call>>

\* Mutant: the mutex stays in the list of the thread.
OSWaitCondKeepsMutex(t, c, m) ==
    /\ call[t] = NoCall /\ owner[m] = t
    /\ lockCount' = [lockCount EXCEPT ![m] = 0]
    /\ owner' = [owner EXCEPT ![m] = NoThread]
    /\ threadQueue' = [threadQueue EXCEPT ![m] = {}]
    /\ condQueue' = [condQueue EXCEPT ![c] = @ \cup {t}]
    /\ call' = [call EXCEPT ![t] = Locking(m, lockCount[m])]
    /\ UNCHANGED mutexQueue

\* Mutant: the threads that wait for the mutex are not woken.
OSWaitCondNoWake(t, c, m) ==
    /\ call[t] = NoCall /\ owner[m] = t
    /\ lockCount' = [lockCount EXCEPT ![m] = 0]
    /\ mutexQueue' = [mutexQueue EXCEPT ![t] = @ \ {m}]
    /\ owner' = [owner EXCEPT ![m] = NoThread]
    /\ condQueue' = [condQueue EXCEPT ![c] = @ \cup {t}]
    /\ call' = [call EXCEPT ![t] = Locking(m, lockCount[m])]
    /\ UNCHANGED threadQueue

\* By the owner of m, as the code asserts.
OSWaitCond(t, c, m) ==
    /\ call[t] = NoCall /\ owner[m] = t
    /\ lockCount' = [lockCount EXCEPT ![m] = 0]
    /\ mutexQueue' = [mutexQueue EXCEPT ![t] = @ \ {m}]
    /\ owner' = [owner EXCEPT ![m] = NoThread]
    /\ threadQueue' = [threadQueue EXCEPT ![m] = {}]
    /\ condQueue' = [condQueue EXCEPT ![c] = @ \cup {t}]
    /\ call' = [call EXCEPT ![t] = Locking(m, lockCount[m])]

OSSignalCond(t, c) ==
    /\ call[t] = NoCall
    /\ condQueue' = [condQueue EXCEPT ![c] = {}]
    /\ UNCHANGED <<mutexVars, call>>
-----------------------------------------------------------------------------
OSExitThread(t) ==
    /\ call[t] = NoCall
    /\ call' = [call EXCEPT ![t] = Exiting]
    /\ UNCHANGED <<mutexVars, condQueue>>

\* One turn of the loop of OSExitThread; the unlock may switch to the thread
\* it wakes.
ReleaseHeld(t) ==
    /\ call[t] = Exiting
    /\ \E m \in mutexQueue[t] :
        \/ OSUnlockMutexInternal(t, m)
        \/ /\ owner[m] # t
           /\ mutexQueue' = [mutexQueue EXCEPT ![t] = @ \ {m}]
           /\ UNCHANGED <<owner, lockCount, threadQueue>>
    /\ UNCHANGED <<condQueue, call>>

ExitDone(t) ==
    /\ call[t] = Exiting /\ mutexQueue[t] = {}
    /\ call' = [call EXCEPT ![t] = Ended]
    /\ UNCHANGED <<mutexVars, condQueue>>
-----------------------------------------------------------------------------
Next ==
    \E t \in Thread :
        \/ \E m \in Mutex :
            \/ \E try \in BOOLEAN : OSLockMutex(t, m, try)
            \/ OSUnlockMutex(t, m)
            \/ \E c \in Cond : OSWaitCond(t, c, m)
        \/ \E c \in Cond : OSSignalCond(t, c)
        \/ OSLockMutexInternal(t)
        \/ OSExitThread(t) \/ ReleaseHeld(t) \/ ExitDone(t)

Spec == Init /\ [][Next]_vars

\* A woken thread is scheduled in the end.
Fairness == \A t \in Thread :
    WF_vars(OSLockMutexInternal(t)) /\ WF_vars(ReleaseHeld(t)) /\ WF_vars(ExitDone(t))

FairSpec == Spec /\ Fairness
-----------------------------------------------------------------------------
\* A mutex queue holds only threads that are locking that mutex, a condition
\* queue only threads that gave a mutex up, and no thread is in both.
TypeOK ==
    /\ owner \in [Mutex -> Thread \cup {NoThread}]
    /\ lockCount \in [Mutex -> 0..MaxLockCount]
    /\ threadQueue \in [Mutex -> SUBSET Thread]
    /\ condQueue \in [Cond -> SUBSET Thread]
    /\ mutexQueue \in [Thread -> SUBSET Mutex]
    /\ call \in [Thread -> Call]
    /\ \A m \in Mutex, t \in Thread :
           t \in threadQueue[m] => call[t].op = "lock" /\ call[t].mutex = m
    /\ \A c \in Cond, t \in Thread :
           t \in condQueue[c] => call[t].op = "lock" /\ call[t].prev > 0
    /\ \A m \in Mutex, c \in Cond : threadQueue[m] \cap condQueue[c] = {}

\* The asserts on lockCount in OSLockMutexInternal and OSTryLockMutex, and the
\* list OSExitThread relies on: a mutex is counted as locked while it has an
\* owner, and it is in the mutex queue of that thread and in no other.
OwnersAndQueuesAgree ==
    \A m \in Mutex :
        /\ owner[m] = NoThread <=> lockCount[m] = 0
        /\ \A t \in Thread : m \in mutexQueue[t] <=> owner[m] = t

\* An unlock wakes one thread, which may find the mutex locked again.  No
\* thread sleeps beside a free mutex that nobody is on his way to lock.
NoMutexLockerForgotten ==
    \A m \in Mutex : owner[m] = NoThread /\ threadQueue[m] # {} =>
        \E t \in Thread : Woken(t) /\ call[t].mutex = m

\* OSExitThread leaves no mutex locked by a thread that has ended.
EndedThreadsOwnNothing ==
    \A t \in Thread : call[t] = Ended => \A m \in Mutex : owner[m] # t

\* The mutexes and conditions are monitors.
LeftBy(k) == IF k.op = "lock" /\ k.prev > 0
             THEN [mutex |-> k.mutex, depth |-> k.prev] ELSE [depth |-> 0]
Left == [t \in Thread |-> LeftBy(call[t])]

Abstract == INSTANCE Monitor WITH depth <- lockCount, waitSet <- condQueue,
                                  left <- Left

MutexMonitorSpec == Abstract!Spec

\* A free mutex that somebody waits for is locked again.
FreeMutexIsTakenAgain ==
    \A m \in Mutex : owner[m] = NoThread /\ threadQueue[m] # {} ~> owner[m] # NoThread
=============================================================================
