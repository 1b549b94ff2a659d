------------------------------ MODULE MutexMC ------------------------------
(***************************************************************************)
(* Small instances for TLC of FastMutex and of Mutex, which share no       *)
(* state.  A behaviour is one of the kind that is picked at its start.     *)
(***************************************************************************)
EXTENDS FastMutex

CONSTANTS SlowThread, SlowMutex, SlowCond, SlowCount

ASSUME SlowAssumption == NoThread \notin SlowThread /\ SlowCount \in Nat \ {0}

VARIABLES
    picked,
    mutexOwner, mutexLockCount, threadQueue, mutexCondQueue, mutexQueue, mutexCall

Slow == INSTANCE Mutex WITH
    Thread <- SlowThread, Mutex <- SlowMutex, Cond <- SlowCond, MaxLockCount <- SlowCount,
    owner <- mutexOwner, lockCount <- mutexLockCount, condQueue <- mutexCondQueue,
    call <- mutexCall

slowVars == <<mutexOwner, mutexLockCount, threadQueue, mutexCondQueue, mutexQueue, mutexCall>>

AnyInit == picked \in {"fast", "slow"} /\ Init /\ Slow!Init

AnyNext ==
    /\ UNCHANGED picked
    /\ \/ picked = "fast" /\ Next /\ UNCHANGED slowVars
       \/ picked = "slow" /\ Slow!Next /\ UNCHANGED vars

\* What is not picked stays at rest, where its fairness asks for nothing.
AnyFairSpec == AnyInit /\ [][AnyNext]_<<picked, vars, slowVars>> /\ Fairness /\ Slow!Fairness
-----------------------------------------------------------------------------
\* The owners, counts and lists of OSMutex agree: see Mutex, as for the others.
OwnersAndQueuesAgree == Slow!OwnersAndQueuesAgree

\* No thread sleeps beside a free OSMutex that nobody is on his way to lock.
NoMutexLockerForgotten == Slow!NoMutexLockerForgotten

\* OSMutex and OSCond are monitors.
MutexMonitorSpec == Slow!MutexMonitorSpec

\* A free OSMutex that somebody waits for is locked again.
FreeMutexIsTakenAgain == Slow!FreeMutexIsTakenAgain
=============================================================================
