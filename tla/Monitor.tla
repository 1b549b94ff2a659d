------------------------------ MODULE Monitor ------------------------------
(***************************************************************************)
(* What a mutex with a condition variable promises, for OSMutex with       *)
(* OSCond and for OSFastMutex with OSFastCond: one owner at a time, who    *)
(* may lock again; a wait gives the mutex up completely and takes it back  *)
(* as often as it was locked; a signal ends every wait that has begun.     *)
(***************************************************************************)
EXTENDS Naturals

CONSTANTS Thread, Mutex, Cond, NoThread

VARIABLES
    owner,      \* who has locked a mutex
    depth,      \* how often
    waitSet,    \* who waits for a condition
    left        \* the mutex a thread gave up to wait, and how often it had it

NotLeft == [depth |-> 0]

Init ==
    /\ owner = [m \in Mutex |-> NoThread]
    /\ depth = [m \in Mutex |-> 0]
    /\ waitSet = [c \in Cond |-> {}]
    /\ left = [t \in Thread |-> NotLeft]

Acquire(t, m) ==
    /\ owner[m] \in {NoThread, t} /\ left[t] = NotLeft
    /\ owner' = [owner EXCEPT ![m] = t]
    /\ depth' = [depth EXCEPT ![m] = @ + 1]
    /\ UNCHANGED <<waitSet, left>>

Release(t, m) ==
    /\ owner[m] = t
    /\ owner' = [owner EXCEPT ![m] = IF depth[m] = 1 THEN NoThread ELSE t]
    /\ depth' = [depth EXCEPT ![m] = @ - 1]
    /\ UNCHANGED <<waitSet, left>>

Wait(t, c, m) ==
    /\ owner[m] = t
    /\ left' = [left EXCEPT ![t] = [mutex |-> m, depth |-> depth[m]]]
    /\ owner' = [owner EXCEPT ![m] = NoThread]
    /\ depth' = [depth EXCEPT ![m] = 0]
    /\ waitSet' = [waitSet EXCEPT ![c] = @ \cup {t}]

Signal(c) ==
    /\ waitSet' = [waitSet EXCEPT ![c] = {}]
    /\ UNCHANGED <<owner, depth, left>>

Return(t) ==
    LET m == left[t].mutex IN
    /\ left[t] # NotLeft
    /\ \A c \in Cond : t \notin waitSet[c]
    /\ owner[m] = NoThread
    /\ owner' = [owner EXCEPT ![m] = t]
    /\ depth' = [depth EXCEPT ![m] = left[t].depth]
    /\ left' = [left EXCEPT ![t] = NotLeft]
    /\ UNCHANGED waitSet

Next ==
    \/ \E t \in Thread : Return(t) \/ \E m \in Mutex :
           Acquire(t, m) \/ Release(t, m) \/ \E c \in Cond : Wait(t, c, m)
    \/ \E c \in Cond : Signal(c)

Spec == Init /\ [][Next]_<<owner, depth, waitSet, left>>
=============================================================================
