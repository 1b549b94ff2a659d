------------------------------- MODULE Locks -------------------------------
(* The parameters of Mutex and FastMutex. *)
EXTENDS Naturals

CONSTANTS
    Thread, Mutex, Cond, NoThread,
    MaxLockCount    \* bound on lockCount

ASSUME LockAssumption == NoThread \notin Thread /\ MaxLockCount \in Nat \ {0}
=============================================================================
