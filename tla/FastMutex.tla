----------------------------- MODULE FastMutex -----------------------------
(***************************************************************************)
(* OSFastMutex and OSFastCond (coreinit_Synchronization.cpp).  The owner   *)
(* and the lock count of every fast mutex are guarded by one spinlock      *)
(* (g_fastMutexSpinlock), the wait queues by the scheduler lock; a thread  *)
(* that has the spinlock may wait for the scheduler lock, never the other  *)
(* way round.  OSFastCond_Wait takes only the scheduler lock, and under it *)
(* frees the mutex before it looks at the wait queue.                      *)
(*                                                                         *)
(* Grain of atomicity: what runs from the taking of the spinlock to its    *)
(* release, or to the taking of the scheduler lock, is one action, as is   *)
(* what runs under the scheduler lock, OSFastCond_Wait excepted.           *)
(***************************************************************************)
EXTENDS Locks

VARIABLES
    owner, lockCount,   \* of each OSFastMutex
    threadQueueSmall,   \* the threads in its wait queue
    condQueue,          \* the threads in the wait queue of each OSFastCond
    spin,               \* who has g_fastMutexSpinlock
    call                \* where a thread is in its call

vars == <<owner, lockCount, threadQueueSmall, condQueue, spin, call>>

NoCall == [op |-> "none"]
Ended == [op |-> "ended"]
\* In OSFastMutex_LockInternal: about to take the spinlock ("lock"), or with
\* it and about to enter the wait queue ("queue").  prev is prevLockCount of
\* OSFastCond_Wait or 0.
Locking(m, prev) == [op |-> "lock", mutex |-> m, prev |-> prev]
Queueing(m, prev) == [op |-> "queue", mutex |-> m, prev |-> prev]
Waking(m) == [op |-> "wake", mutex |-> m]   \* in OSFastMutex_UnlockInternal
Restoring(m, prev) == [op |-> "restore", mutex |-> m, prev |-> prev]
\* In OSFastCond_Wait with the scheduler lock, after the mutex was freed.
Leaving(c, m, prev) == [op |-> "leave", cond |-> c, mutex |-> m, prev |-> prev]

Call == {NoCall, Ended} \cup {Waking(m) : m \in Mutex}
            \cup [op : {"lock", "queue", "restore"}, mutex : Mutex, prev : 0..MaxLockCount]
            \cup {Leaving(c, m, prev) : c \in Cond, m \in Mutex, prev \in 1..MaxLockCount}

SchedulerFree == \A t \in Thread : call[t].op # "leave"

\* OSFastMutex_Init, OSFastCond_Init
Init ==
    /\ owner = [m \in Mutex |-> NoThread]
    /\ lockCount = [m \in Mutex |-> 0]
    /\ threadQueueSmall = [m \in Mutex |-> {}]
    /\ condQueue = [c \in Cond |-> {}]
    /\ spin = NoThread
    /\ call = [t \in Thread |-> NoCall]
-----------------------------------------------------------------------------
Acquire(t, m, prev) ==
    /\ owner[m] = NoThread
    /\ owner' = [owner EXCEPT ![m] = t]
    /\ lockCount' = [lockCount EXCEPT ![m] = 1]
    /\ call' = [call EXCEPT ![t] = IF prev = 0 THEN NoCall ELSE Restoring(m, prev)]
    /\ UNCHANGED <<threadQueueSmall, condQueue, spin>>

LockAgain(t, m) ==
    /\ owner[m] = t /\ lockCount[m] < MaxLockCount
    /\ lockCount' = [lockCount EXCEPT ![m] = @ + 1]
    /\ UNCHANGED <<owner, threadQueueSmall, condQueue, spin, call>>

\* The mutex is taken: keep the spinlock and ask for the scheduler lock.
Contend(t, m, prev) ==
    /\ owner[m] \notin {NoThread, t}
    /\ spin' = t
    /\ call' = [call EXCEPT ![t] = Queueing(m, prev)]
    /\ UNCHANGED <<owner, lockCount, threadQueueSmall, condQueue>>

\* OSFastMutex_Lock, and OSFastMutex_TryLock, which fails where this waits.
OSFastMutex_Lock(t, m, try) ==
    /\ call[t] = NoCall /\ spin = NoThread
    /\ Acquire(t, m, 0) \/ LockAgain(t, m) \/ (~try /\ Contend(t, m, 0))

\* queueOnly, then the spinlock and the core are given up.
EnterQueue(t) ==
    LET m == call[t].mutex IN
    /\ call[t].op = "queue" /\ SchedulerFree
    /\ threadQueueSmall' = [threadQueueSmall EXCEPT ![m] = @ \cup {t}]
    /\ call' = [call EXCEPT ![t] = Locking(m, call[t].prev)]
    /\ spin' = NoThread
    /\ UNCHANGED <<owner, lockCount, condQueue>>

\* A thread that was woken, from the mutex or from its condition, tries
\* to lock.
Woken(t) ==
    /\ call[t].op = "lock"
    /\ t \notin threadQueueSmall[call[t].mutex]
    /\ \A c \in Cond : t \notin condQueue[c]

OSFastMutex_LockInternal(t) ==
    /\ Woken(t) /\ spin = NoThread
    /\ \/ Acquire(t, call[t].mutex, call[t].prev)
       \/ Contend(t, call[t].mutex, call[t].prev)
-----------------------------------------------------------------------------
\* Mutant: the owner is not checked.
OSFastMutex_UnlockByAnyone(t, m) ==
    /\ call[t] = NoCall /\ spin = NoThread
    /\ lockCount' = [lockCount EXCEPT ![m] = @ - 1]
    /\ IF lockCount[m] = 1
       THEN /\ owner' = [owner EXCEPT ![m] = NoThread]
            /\ IF threadQueueSmall[m] = {}
               THEN UNCHANGED <<spin, call>>
               ELSE spin' = t /\ call' = [call EXCEPT ![t] = Waking(m)]
       ELSE UNCHANGED <<owner, spin, call>>
    /\ UNCHANGED <<threadQueueSmall, condQueue>>

\* Mutant: nobody is woken.
OSFastMutex_UnlockNoWake(t, m) ==
    /\ call[t] = NoCall /\ spin = NoThread /\ owner[m] = t
    /\ lockCount' = [lockCount EXCEPT ![m] = @ - 1]
    /\ owner' = IF lockCount[m] = 1 THEN [owner EXCEPT ![m] = NoThread] ELSE owner
    /\ UNCHANGED <<threadQueueSmall, condQueue, spin, call>>

\* By the owner; any other call changes nothing.  If somebody waits the
\* spinlock is kept until the scheduler lock is there.
OSFastMutex_Unlock(t, m) ==
    /\ call[t] = NoCall /\ spin = NoThread /\ owner[m] = t
    /\ lockCount' = [lockCount EXCEPT ![m] = @ - 1]
    /\ IF lockCount[m] = 1
       THEN /\ owner' = [owner EXCEPT ![m] = NoThread]
            /\ IF threadQueueSmall[m] = {}
               THEN UNCHANGED <<spin, call>>
               ELSE spin' = t /\ call' = [call EXCEPT ![t] = Waking(m)]
       ELSE UNCHANGED <<owner, spin, call>>
    /\ UNCHANGED <<threadQueueSmall, condQueue>>

\* wakeupSingleThreadWaitQueue; any waiting thread may be at the head, and
\* with none the debug build stops at an assert.
WakeOne(t) ==
    LET m == call[t].mutex IN
    /\ call[t].op = "wake" /\ SchedulerFree
    /\ IF threadQueueSmall[m] = {} THEN UNCHANGED threadQueueSmall
       ELSE \E u \in threadQueueSmall[m] :
                threadQueueSmall' = [threadQueueSmall EXCEPT ![m] = @ \ {u}]
    /\ spin' = NoThread
    /\ call' = [call EXCEPT ![t] = NoCall]
    /\ UNCHANGED <<owner, lockCount, condQueue>>
-----------------------------------------------------------------------------
\* Mutant: the lock count is left as it was.
OSFastCond_WaitKeepsCount(t, c, m) ==
    /\ call[t] = NoCall /\ owner[m] = t /\ SchedulerFree
    /\ owner' = [owner EXCEPT ![m] = NoThread]
    /\ call' = [call EXCEPT ![t] = Leaving(c, m, lockCount[m])]
    /\ UNCHANGED <<lockCount, threadQueueSmall, condQueue, spin>>

\* By the owner of m, as the code asserts, whoever has the spinlock.
OSFastCond_Wait(t, c, m) ==
    /\ call[t] = NoCall /\ owner[m] = t /\ SchedulerFree
    /\ lockCount' = [lockCount EXCEPT ![m] = 0]
    /\ owner' = [owner EXCEPT ![m] = NoThread]
    /\ call' = [call EXCEPT ![t] = Leaving(c, m, lockCount[m])]
    /\ UNCHANGED <<threadQueueSmall, condQueue, spin>>

\* Still under the scheduler lock: wake the lockers that sleep, then sleep.
WaitOnCond(t) ==
    /\ call[t].op = "leave"
    /\ threadQueueSmall' = [threadQueueSmall EXCEPT ![call[t].mutex] = {}]
    /\ condQueue' = [condQueue EXCEPT ![call[t].cond] = @ \cup {t}]
    /\ call' = [call EXCEPT ![t] = Locking(call[t].mutex, call[t].prev)]
    /\ UNCHANGED <<owner, lockCount, spin>>

\* Mutant: the lock count is not restored.
RestoreNothing(t) ==
    /\ call[t].op = "restore"
    /\ call' = [call EXCEPT ![t] = NoCall]
    /\ UNCHANGED <<owner, lockCount, threadQueueSmall, condQueue, spin>>

\* OSFastCond_Wait restores the lock count when it has the mutex again, after
\* the spinlock was released.
Restore(t) ==
    /\ call[t].op = "restore"
    /\ lockCount' = [lockCount EXCEPT ![call[t].mutex] = call[t].prev]
    /\ call' = [call EXCEPT ![t] = NoCall]
    /\ UNCHANGED <<owner, threadQueueSmall, condQueue, spin>>

OSFastCond_Signal(t, c) ==
    /\ call[t] = NoCall /\ SchedulerFree
    /\ condQueue' = [condQueue EXCEPT ![c] = {}]
    /\ UNCHANGED <<owner, lockCount, threadQueueSmall, spin, call>>

\* The fast mutexes of the thread stay locked.
OSExitThread(t) ==
    /\ call[t] = NoCall /\ SchedulerFree
    /\ call' = [call EXCEPT ![t] = Ended]
    /\ UNCHANGED <<owner, lockCount, threadQueueSmall, condQueue, spin>>
-----------------------------------------------------------------------------
Next ==
    \E t \in Thread :
        \/ \E m \in Mutex :
            \/ \E try \in BOOLEAN : OSFastMutex_Lock(t, m, try)
            \/ OSFastMutex_Unlock(t, m)
            \/ \E c \in Cond : OSFastCond_Wait(t, c, m)
        \/ \E c \in Cond : OSFastCond_Signal(t, c)
        \/ EnterQueue(t) \/ OSFastMutex_LockInternal(t)
        \/ WakeOne(t) \/ WaitOnCond(t) \/ Restore(t) \/ OSExitThread(t)

Spec == Init /\ [][Next]_vars

\* A thread in a call goes on, and one that spins gets the spinlock if it is
\* free for good.
Fairness == \A t \in Thread :
    /\ WF_vars(EnterQueue(t)) /\ WF_vars(WakeOne(t))
    /\ WF_vars(WaitOnCond(t)) /\ WF_vars(Restore(t))
    /\ WF_vars(OSFastMutex_LockInternal(t))

FairSpec == Spec /\ Fairness
-----------------------------------------------------------------------------
\* Only a thread that waits for the scheduler lock has the spinlock, and a
\* mutex queue holds only threads that are locking the mutex.
TypeOK ==
    /\ owner \in [Mutex -> Thread \cup {NoThread}]
    /\ lockCount \in [Mutex -> 0..MaxLockCount]
    /\ threadQueueSmall \in [Mutex -> SUBSET Thread]
    /\ condQueue \in [Cond -> SUBSET Thread]
    /\ spin \in Thread \cup {NoThread}
    /\ call \in [Thread -> Call]
    /\ \A t \in Thread : call[t].op \in {"queue", "wake"} <=> spin = t
    /\ \A m \in Mutex, t \in Thread :
           t \in threadQueueSmall[m] => call[t].op = "lock" /\ call[t].mutex = m

\* The asserts on lockCount: a fast mutex is counted as locked while it has an
\* owner, though OSFastCond_Wait writes the count without the spinlock.
OwnersAreCounted ==
    \A m \in Mutex : owner[m] = NoThread <=> lockCount[m] = 0

\* The thread is awake and will lock the mutex, or wake one that does.
OnHisWay(t, m) == (Woken(t) /\ call[t].mutex = m) \/ call[t] = Waking(m)

\* The thread gave the mutex up to wait for a condition and still sleeps.
InCondWait(t, m) ==
    \/ call[t].op = "leave" /\ call[t].mutex = m
    \/ /\ call[t].op = "lock" /\ call[t].mutex = m
       /\ \E c \in Cond : t \in condQueue[c]

\* No thread sleeps beside a free mutex while nobody is on his way to lock it
\* or to wake it.  Only a condition wait can leave lockers behind like that.
NoLockerForgotten ==
    \A m \in Mutex : owner[m] = NoThread /\ threadQueueSmall[m] # {} =>
        \E t \in Thread : OnHisWay(t, m) \/ InCondWait(t, m)

\* OSFastCond_Wait, by its comment, "releases the mutex while waiting for the
\* condition to be signaled": when the mutex is free because its last owner
\* waits for a condition, the threads that were locking it are woken.
ReleasedWhileWaiting ==
    \A m \in Mutex, t \in Thread :
        /\ owner[m] = NoThread /\ threadQueueSmall[m] # {}
        /\ InCondWait(t, m) /\ call[t].op = "lock"
        => \E u \in Thread : OnHisWay(u, m)

\* The mutexes and conditions are monitors.  A wait has begun when the mutex is
\* free, and has returned as soon as it owns the mutex again.
Depth == [m \in Mutex |->
    IF owner[m] # NoThread /\ call[owner[m]] \in {Restoring(m, p) : p \in 1..MaxLockCount}
    THEN call[owner[m]].prev ELSE lockCount[m]]

Left == [t \in Thread |->
    IF call[t].op \in {"lock", "queue", "leave"} /\ call[t].prev > 0
    THEN [mutex |-> call[t].mutex, depth |-> call[t].prev] ELSE [depth |-> 0]]

WaitSet == [c \in Cond |->
    condQueue[c] \cup {t \in Thread : call[t].op = "leave" /\ call[t].cond = c}]

Abstract == INSTANCE Monitor WITH depth <- Depth, waitSet <- WaitSet, left <- Left

MonitorSpec == Abstract!Spec

\* A free mutex that somebody waits for is locked again, unless a condition
\* wait has left it.
FreeMutexIsTaken ==
    \A m \in Mutex : owner[m] = NoThread /\ threadQueueSmall[m] # {}
        ~> owner[m] # NoThread \/ \E t \in Thread : InCondWait(t, m)
=============================================================================
