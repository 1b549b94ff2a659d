-------------------------- MODULE FastMutex_proofs --------------------------
(***************************************************************************)
(* For any number of threads, fast mutexes and conditions: the owners are  *)
(* counted, only a condition wait leaves lockers behind, and OSFastMutex   *)
(* with OSFastCond is a monitor, though OSFastCond_Wait and the others     *)
(* write owner and count under different locks.                            *)
(***************************************************************************)
EXTENDS FastMutex, TLAPS

\* Threads that sleep for the mutex or, with the spinlock, are about to.
Behind(m) ==
    \/ threadQueueSmall[m] # {}
    \/ \E t \in Thread : call[t].op = "queue" /\ call[t].mutex = m

Comes(t, m) == OnHisWay(t, m) \/ InCondWait(t, m)

\* NoLockerForgotten, for the lockers in flight as well: a condition wait may
\* have freed the mutex since they saw it taken.
LockersCovered ==
    \A m \in Mutex : owner[m] = NoThread /\ Behind(m) =>
        \E t \in Thread : Comes(t, m)

\* Nobody else writes a count that OSFastCond_Wait is about to restore.
RestoringOwns ==
    \A t \in Thread : call[t].op = "restore" =>
        owner[call[t].mutex] = t /\ call[t].prev > 0

\* Who waits for a condition waits for no mutex until it is signaled.
SleepersSleepOnce ==
    \A c \in Cond, t \in Thread : t \in condQueue[c] =>
        /\ call[t].op = "lock" /\ call[t].prev > 0
        /\ \A m \in Mutex : t \notin threadQueueSmall[m]

IInv ==
    /\ TypeOK /\ OwnersAreCounted
    /\ RestoringOwns /\ SleepersSleepOnce /\ LockersCovered

\* Thread t may take m: it calls OSFastMutex_Lock now, or was woken.
MayLock(t, m, prev) ==
    /\ spin = NoThread
    /\ \/ call[t] = NoCall /\ prev = 0
       \/ Woken(t) /\ call[t].mutex = m /\ call[t].prev = prev

\* The calls are told apart by their operation.
LEMMA CallKinds ==
    /\ NoCall \in Call /\ NoCall.op = "none"
    /\ Ended \in Call /\ Ended.op = "ended"
    /\ \A m \in Mutex :
           Waking(m) \in Call /\ Waking(m).op = "wake" /\ Waking(m).mutex = m
    /\ \A m \in Mutex, p \in 0..MaxLockCount :
           /\ Locking(m, p) \in Call /\ Locking(m, p).op = "lock"
           /\ Locking(m, p).mutex = m /\ Locking(m, p).prev = p
           /\ Queueing(m, p) \in Call /\ Queueing(m, p).op = "queue"
           /\ Queueing(m, p).mutex = m /\ Queueing(m, p).prev = p
           /\ Restoring(m, p) \in Call /\ Restoring(m, p).op = "restore"
           /\ Restoring(m, p).mutex = m /\ Restoring(m, p).prev = p
    /\ \A c \in Cond, m \in Mutex, p \in 1..MaxLockCount :
           /\ Leaving(c, m, p) \in Call /\ Leaving(c, m, p).op = "leave"
           /\ Leaving(c, m, p).cond = c /\ Leaving(c, m, p).mutex = m
           /\ Leaving(c, m, p).prev = p
<1>1. /\ NoCall \in Call /\ NoCall.op = "none"
      /\ Ended \in Call /\ Ended.op = "ended"
  BY DEF Call, NoCall, Ended
<1>2. ASSUME NEW m \in Mutex
      PROVE  Waking(m) \in Call /\ Waking(m).op = "wake" /\ Waking(m).mutex = m
  BY DEF Call, Waking
<1>3. ASSUME NEW m \in Mutex, NEW p \in 0..MaxLockCount
      PROVE  /\ Locking(m, p) \in Call /\ Locking(m, p).op = "lock"
             /\ Locking(m, p).mutex = m /\ Locking(m, p).prev = p
             /\ Queueing(m, p) \in Call /\ Queueing(m, p).op = "queue"
             /\ Queueing(m, p).mutex = m /\ Queueing(m, p).prev = p
             /\ Restoring(m, p) \in Call /\ Restoring(m, p).op = "restore"
             /\ Restoring(m, p).mutex = m /\ Restoring(m, p).prev = p
  BY DEF Call, Locking, Queueing, Restoring
<1>4. ASSUME NEW c \in Cond, NEW m \in Mutex, NEW p \in 1..MaxLockCount
      PROVE  /\ Leaving(c, m, p) \in Call /\ Leaving(c, m, p).op = "leave"
             /\ Leaving(c, m, p).cond = c /\ Leaving(c, m, p).mutex = m
             /\ Leaving(c, m, p).prev = p
  BY DEF Call, Leaving
<1>. QED
  BY <1>1, <1>2, <1>3, <1>4

\* What a call of each kind holds.
LEMMA CallFields ==
    ASSUME NEW k \in Call
    PROVE  /\ k.op \in {"none", "ended", "lock", "queue", "wake", "restore", "leave"}
           /\ k.op \in {"lock", "queue", "restore"} =>
                  k.mutex \in Mutex /\ k.prev \in 0..MaxLockCount
           /\ k.op = "wake" => k.mutex \in Mutex /\ k = Waking(k.mutex)
           /\ k.op = "restore" => k = Restoring(k.mutex, k.prev)
           /\ k.op = "leave" =>
                  k.cond \in Cond /\ k.mutex \in Mutex /\ k.prev \in 1..MaxLockCount
<1>1. CASE k \in {NoCall, Ended}
  BY <1>1, CallKinds
<1>2. ASSUME NEW m \in Mutex, k = Waking(m)
      PROVE  k.op = "wake" /\ k.mutex = m
  BY <1>2, CallKinds
<1>3. CASE k \in [op : {"lock", "queue", "restore"}, mutex : Mutex, prev : 0..MaxLockCount]
  BY <1>3 DEF Restoring
<1>4. ASSUME NEW c \in Cond, NEW m \in Mutex, NEW p \in 1..MaxLockCount,
             k = Leaving(c, m, p)
      PROVE  k.op = "leave" /\ k.cond = c /\ k.mutex = m /\ k.prev = p
  BY <1>4, CallKinds
<1>5. \/ k \in {NoCall, Ended} \/ \E m \in Mutex : k = Waking(m)
      \/ k \in [op : {"lock", "queue", "restore"}, mutex : Mutex, prev : 0..MaxLockCount]
      \/ \E c \in Cond, m \in Mutex, p \in 1..MaxLockCount : k = Leaving(c, m, p)
  BY DEF Call
<1>. QED
  BY <1>1, <1>2, <1>3, <1>4, <1>5

\* Who comes for a mutex still comes when a step of another thread wakes it or
\* leaves it alone.
LEMMA ComesStays ==
    ASSUME IInv, NEW u \in Thread, NEW m \in Mutex, Comes(u, m),
           call'[u] = call[u],
           \A n \in Mutex : u \in threadQueueSmall'[n] => u \in threadQueueSmall[n],
           \A c \in Cond : u \in condQueue'[c] => u \in condQueue[c]
    PROVE  Comes(u, m)'
<1>1. CASE Woken(u) /\ call[u].mutex = m
  BY <1>1 DEF Comes, OnHisWay, Woken
<1>2. CASE call[u] = Waking(m)
  BY <1>2 DEF Comes, OnHisWay
<1>3. CASE call[u].op = "leave" /\ call[u].mutex = m
  BY <1>3 DEF Comes, InCondWait
<1>4. ASSUME call[u].op = "lock", call[u].mutex = m, NEW c \in Cond, u \in condQueue[c]
      PROVE  Comes(u, m)'
  <2>1. u \notin threadQueueSmall'[m]
    BY <1>4 DEF IInv, SleepersSleepOnce
  <2>2. CASE \E d \in Cond : u \in condQueue'[d]
    BY <1>4, <2>2 DEF Comes, InCondWait
  <2>3. CASE \A d \in Cond : u \notin condQueue'[d]
    BY <1>4, <2>1, <2>3 DEF Comes, OnHisWay, Woken
  <2>. QED
    BY <2>2, <2>3
<1>. QED
  BY <1>1, <1>2, <1>3, <1>4 DEF Comes, OnHisWay, InCondWait

\* A step of t leaves no locker behind if those it leaves behind were so
\* before, and t was not the one who came for them.
LEMMA StillCovered ==
    ASSUME IInv, NEW t \in Thread,
           \A u \in Thread \ {t} :
               /\ call'[u] = call[u]
               /\ \A n \in Mutex : u \in threadQueueSmall'[n] => u \in threadQueueSmall[n]
               /\ \A c \in Cond : u \in condQueue'[c] => u \in condQueue[c],
           \A m \in Mutex : owner'[m] = NoThread /\ Behind(m)' =>
               \/ \E u \in Thread : Comes(u, m)'
               \/ owner[m] = NoThread /\ Behind(m) /\ ~Comes(t, m)
    PROVE  LockersCovered'
<1>. SUFFICES ASSUME NEW m \in Mutex, owner[m] = NoThread, Behind(m), ~Comes(t, m)
              PROVE  \E u \in Thread : Comes(u, m)'
  BY DEF LockersCovered
<1>1. PICK u \in Thread : Comes(u, m)
  BY DEF IInv, LockersCovered
<1>2. Comes(u, m)'
  BY <1>1, ComesStays
<1>. QED
  BY <1>2
-----------------------------------------------------------------------------
LEMMA AcquireStep ==
    ASSUME IInv, NEW t \in Thread, NEW m \in Mutex, NEW prev \in 0..MaxLockCount,
           MayLock(t, m, prev), Acquire(t, m, prev)
    PROVE  IInv'
<1>1. TypeOK /\ OwnersAreCounted /\ RestoringOwns /\ SleepersSleepOnce
  BY DEF IInv
<1>2. DEFINE k == IF prev = 0 THEN NoCall ELSE Restoring(m, prev)
<1>3. /\ k \in Call /\ k.op \in {"none", "restore"} /\ k # Waking(m)
      /\ k.op = "restore" => k.mutex = m /\ k.prev > 0
  BY CallKinds
<1>. HIDE DEF k
<1>4. /\ owner[m] = NoThread /\ spin = NoThread
      /\ owner' = [owner EXCEPT ![m] = t] /\ lockCount' = [lockCount EXCEPT ![m] = 1]
      /\ call' = [call EXCEPT ![t] = k]
      /\ UNCHANGED <<threadQueueSmall, condQueue, spin>>
  BY DEF MayLock, Acquire, k
<1>5. /\ \A n \in Mutex : owner'[n] = IF n = m THEN t ELSE owner[n]
      /\ \A n \in Mutex : lockCount'[n] = IF n = m THEN 1 ELSE lockCount[n]
      /\ \A u \in Thread : call'[u] = IF u = t THEN k ELSE call[u]
  BY <1>1, <1>4 DEF TypeOK
<1>6. /\ call[t].op \in {"none", "lock"} /\ (call[t].op = "lock" => call[t].mutex = m)
      /\ \A n \in Mutex : t \notin threadQueueSmall[n]
      /\ \A c \in Cond : t \notin condQueue[c]
  <2>1. CASE call[t] = NoCall
    BY <1>1, <2>1, CallKinds DEF TypeOK, SleepersSleepOnce
  <2>2. CASE Woken(t) /\ call[t].mutex = m
    BY <1>1, <2>2 DEF TypeOK, Woken
  <2>. QED
    BY <2>1, <2>2 DEF MayLock
<1>7. TypeOK'
  <2>1. /\ owner' \in [Mutex -> Thread \cup {NoThread}]
        /\ lockCount' \in [Mutex -> 0..MaxLockCount]
        /\ call' \in [Thread -> Call]
    BY <1>1, <1>3, <1>4, LockAssumption DEF TypeOK
  <2>2. \A u \in Thread : call'[u].op \in {"queue", "wake"} <=> spin' = u
    BY <1>1, <1>3, <1>4, <1>5, <1>6 DEF TypeOK
  <2>3. \A n \in Mutex, u \in Thread :
            u \in threadQueueSmall'[n] => call'[u].op = "lock" /\ call'[u].mutex = n
    BY <1>1, <1>4, <1>5, <1>6 DEF TypeOK
  <2>. QED
    BY <1>1, <1>4, <2>1, <2>2, <2>3 DEF TypeOK
<1>8. OwnersAreCounted'
  BY <1>1, <1>5, LockAssumption DEF OwnersAreCounted
<1>9. RestoringOwns'
  <2>. SUFFICES ASSUME NEW u \in Thread, call'[u].op = "restore"
                PROVE  owner'[call'[u].mutex] = u /\ call'[u].prev > 0
    BY DEF RestoringOwns
  <2>1. CASE u = t
    BY <1>3, <1>5, <2>1
  <2>2. CASE u # t
    <3>1. call'[u] = call[u] /\ owner[call[u].mutex] = u /\ call[u].prev > 0
      BY <1>1, <1>5, <2>2 DEF RestoringOwns
    <3>2. call[u].mutex \in Mutex
      BY <1>1, <3>1, CallFields DEF TypeOK
    <3>3. call[u].mutex # m
      BY <1>4, <3>1, LockAssumption
    <3>. QED
      BY <1>5, <3>1, <3>2, <3>3
  <2>. QED
    BY <2>1, <2>2
<1>10. SleepersSleepOnce'
  BY <1>1, <1>4, <1>5, <1>6 DEF SleepersSleepOnce
<1>11. LockersCovered'
  <2>1. ASSUME NEW n \in Mutex, owner'[n] = NoThread, Behind(n)'
        PROVE  owner[n] = NoThread /\ Behind(n) /\ ~Comes(t, n)
    <3>1. n # m /\ owner[n] = NoThread
      BY <1>5, <2>1, LockAssumption
    <3>2. Behind(n)
      BY <1>3, <1>4, <1>5, <2>1 DEF Behind
    <3>3. ~Comes(t, n)
      BY <1>6, <3>1, CallKinds DEF Comes, OnHisWay, InCondWait, Woken
    <3>. QED
      BY <3>1, <3>2, <3>3
  <2>. QED
    BY <1>4, <1>5, <2>1, StillCovered
<1>. QED
  BY <1>7, <1>8, <1>9, <1>10, <1>11 DEF IInv

\* A step that changes at most the count of a mutex that somebody owns.
LEMMA CountStep ==
    ASSUME IInv, NEW t \in Thread, NEW m \in Mutex, NEW n \in 1..MaxLockCount,
           call[t] = NoCall, owner[m] = t,
           lockCount' = [lockCount EXCEPT ![m] = n],
           UNCHANGED <<owner, threadQueueSmall, condQueue, spin, call>>
    PROVE  IInv'
<1>1. TypeOK' /\ OwnersAreCounted'
  BY LockAssumption DEF IInv, TypeOK, OwnersAreCounted
<1>2. RestoringOwns' /\ SleepersSleepOnce'
  BY DEF IInv, RestoringOwns, SleepersSleepOnce
<1>3. LockersCovered'
  BY DEF IInv, LockersCovered, Behind, Comes, OnHisWay, InCondWait, Woken
<1>. QED
  BY <1>1, <1>2, <1>3 DEF IInv

LEMMA ContendStep ==
    ASSUME IInv, NEW t \in Thread, NEW m \in Mutex, NEW prev \in 0..MaxLockCount,
           MayLock(t, m, prev), Contend(t, m, prev)
    PROVE  IInv'
<1>1. TypeOK /\ OwnersAreCounted /\ RestoringOwns /\ SleepersSleepOnce
  BY DEF IInv
<1>2. DEFINE k == Queueing(m, prev)
<1>3. k \in Call /\ k.op = "queue" /\ k.mutex = m
  BY CallKinds
<1>. HIDE DEF k
<1>4. /\ owner[m] # NoThread /\ spin = NoThread /\ spin' = t
      /\ call' = [call EXCEPT ![t] = k]
      /\ UNCHANGED <<owner, lockCount, threadQueueSmall, condQueue>>
  BY DEF MayLock, Contend, k
<1>5. \A u \in Thread : call'[u] = IF u = t THEN k ELSE call[u]
  BY <1>1, <1>4 DEF TypeOK
<1>6. /\ call[t].op \in {"none", "lock"} /\ (call[t].op = "lock" => call[t].mutex = m)
      /\ \A n \in Mutex : t \notin threadQueueSmall[n]
      /\ \A c \in Cond : t \notin condQueue[c]
  <2>1. CASE call[t] = NoCall
    BY <1>1, <2>1, CallKinds DEF TypeOK, SleepersSleepOnce
  <2>2. CASE Woken(t) /\ call[t].mutex = m
    BY <1>1, <2>2 DEF TypeOK, Woken
  <2>. QED
    BY <2>1, <2>2 DEF MayLock
<1>7. TypeOK'
  <2>1. call' \in [Thread -> Call]
    BY <1>1, <1>3, <1>4 DEF TypeOK
  <2>2. \A u \in Thread : call'[u].op \in {"queue", "wake"} <=> spin' = u
    BY <1>1, <1>3, <1>4, <1>5, LockAssumption DEF TypeOK
  <2>3. \A n \in Mutex, u \in Thread :
            u \in threadQueueSmall'[n] => call'[u].op = "lock" /\ call'[u].mutex = n
    BY <1>1, <1>4, <1>5, <1>6 DEF TypeOK
  <2>. QED
    BY <1>1, <1>4, <2>1, <2>2, <2>3 DEF TypeOK
<1>8. OwnersAreCounted' /\ RestoringOwns' /\ SleepersSleepOnce'
  BY <1>1, <1>3, <1>4, <1>5, <1>6 DEF OwnersAreCounted, RestoringOwns, SleepersSleepOnce
<1>9. LockersCovered'
  <2>1. ASSUME NEW n \in Mutex, owner'[n] = NoThread, Behind(n)'
        PROVE  owner[n] = NoThread /\ Behind(n) /\ ~Comes(t, n)
    <3>1. n # m /\ owner[n] = NoThread
      BY <1>4, <2>1
    <3>2. Behind(n)
      BY <1>3, <1>4, <1>5, <2>1, <3>1 DEF Behind
    <3>3. ~Comes(t, n)
      BY <1>6, <3>1, CallKinds DEF Comes, OnHisWay, InCondWait, Woken
    <3>. QED
      BY <3>1, <3>2, <3>3
  <2>. QED
    BY <1>4, <1>5, <2>1, StillCovered
<1>. QED
  BY <1>7, <1>8, <1>9 DEF IInv

LEMMA EnterQueueStep ==
    ASSUME IInv, NEW t \in Thread, EnterQueue(t)
    PROVE  IInv'
<1>1. TypeOK /\ OwnersAreCounted /\ RestoringOwns /\ SleepersSleepOnce
  BY DEF IInv
<1>2. DEFINE m == call[t].mutex
             k == Locking(m, call[t].prev)
<1>3. /\ call[t].op = "queue" /\ m \in Mutex /\ call[t].prev \in 0..MaxLockCount
      /\ k \in Call /\ k.op = "lock" /\ k.mutex = m
  BY <1>1, CallKinds, CallFields DEF EnterQueue, TypeOK
<1>4. /\ threadQueueSmall' = [threadQueueSmall EXCEPT ![m] = @ \cup {t}]
      /\ call' = [call EXCEPT ![t] = k] /\ spin' = NoThread
      /\ UNCHANGED <<owner, lockCount, condQueue>>
  BY DEF EnterQueue
<1>. HIDE DEF m, k
<1>5. /\ \A u \in Thread : call'[u] = IF u = t THEN k ELSE call[u]
      /\ \A n \in Mutex : threadQueueSmall'[n] =
             IF n = m THEN threadQueueSmall[n] \cup {t} ELSE threadQueueSmall[n]
  BY <1>1, <1>4 DEF TypeOK
<1>6. /\ \A n \in Mutex : t \notin threadQueueSmall[n]
      /\ \A c \in Cond : t \notin condQueue[c]
  BY <1>1, <1>3 DEF TypeOK, SleepersSleepOnce
<1>7. TypeOK'
  <2>1. /\ call' \in [Thread -> Call]
        /\ threadQueueSmall' \in [Mutex -> SUBSET Thread]
    BY <1>1, <1>3, <1>4 DEF TypeOK
  <2>2. \A u \in Thread : call'[u].op \in {"queue", "wake"} <=> spin' = u
    BY <1>1, <1>3, <1>4, <1>5, LockAssumption DEF TypeOK
  <2>3. ASSUME NEW n \in Mutex, NEW u \in Thread, u \in threadQueueSmall'[n]
        PROVE  call'[u].op = "lock" /\ call'[u].mutex = n
    <3>1. CASE u = t
      BY <1>3, <1>5, <1>6, <2>3, <3>1
    <3>2. CASE u # t
      <4>1. u \in threadQueueSmall[n] /\ call'[u] = call[u]
        BY <1>5, <2>3, <3>2
      <4>. QED
        BY <1>1, <4>1 DEF TypeOK
    <3>. QED
      BY <3>1, <3>2
  <2>. QED
    BY <1>1, <1>4, <2>1, <2>2, <2>3 DEF TypeOK
<1>8. OwnersAreCounted' /\ RestoringOwns' /\ SleepersSleepOnce'
  BY <1>1, <1>3, <1>4, <1>5, <1>6 DEF OwnersAreCounted, RestoringOwns, SleepersSleepOnce
<1>9. LockersCovered'
  <2>1. ASSUME NEW n \in Mutex, owner'[n] = NoThread, Behind(n)'
        PROVE  owner[n] = NoThread /\ Behind(n) /\ ~Comes(t, n)
    <3>1. CASE n = m
      BY <1>3, <1>4, <2>1, <3>1, CallKinds
         DEF Behind, m, Comes, OnHisWay, InCondWait, Woken
    <3>2. CASE n # m
      BY <1>3, <1>4, <1>5, <2>1, <3>2, CallKinds
         DEF Behind, Comes, OnHisWay, InCondWait, Woken
    <3>. QED
      BY <3>1, <3>2
  <2>. QED
    BY <1>4, <1>5, <2>1, StillCovered
<1>. QED
  BY <1>7, <1>8, <1>9 DEF IInv

\* The owner unlocks for the last time.  If nobody sleeps nobody is about to,
\* because the spinlock was free; otherwise the thread wakes one.
LEMMA LastUnlockStep ==
    ASSUME IInv, NEW t \in Thread, NEW m \in Mutex, OSFastMutex_Unlock(t, m),
           lockCount[m] = 1
    PROVE  IInv'
<1>1. TypeOK /\ OwnersAreCounted /\ RestoringOwns /\ SleepersSleepOnce
  BY DEF IInv
<1>2. DEFINE k == IF threadQueueSmall[m] = {} THEN NoCall ELSE Waking(m)
<1>3. /\ k \in Call /\ k.op \in {"none", "wake"}
      /\ k.op = "wake" <=> threadQueueSmall[m] # {}
      /\ k.op = "wake" => k = Waking(m)
  BY CallKinds
<1>. HIDE DEF k
<1>4. /\ call[t] = NoCall /\ owner[m] = t /\ spin = NoThread
      /\ lockCount' = [lockCount EXCEPT ![m] = 0]
      /\ owner' = [owner EXCEPT ![m] = NoThread]
      /\ UNCHANGED <<threadQueueSmall, condQueue>>
  BY DEF OSFastMutex_Unlock
<1>5. call' = [call EXCEPT ![t] = k] /\ spin' = IF k.op = "wake" THEN t ELSE NoThread
  <2>1. CASE threadQueueSmall[m] = {}
    <3>1. call' = call /\ spin' = spin /\ k = NoCall
      BY <2>1 DEF OSFastMutex_Unlock, k
    <3>2. call' = [call EXCEPT ![t] = k]
      BY <1>1, <1>4, <3>1 DEF TypeOK
    <3>. QED
      BY <1>3, <1>4, <2>1, <3>1, <3>2
  <2>2. CASE threadQueueSmall[m] # {}
    BY <1>3, <2>2 DEF OSFastMutex_Unlock, k
  <2>. QED
    BY <2>1, <2>2
<1>6. /\ \A n \in Mutex : owner'[n] = IF n = m THEN NoThread ELSE owner[n]
      /\ \A n \in Mutex : lockCount'[n] = IF n = m THEN 0 ELSE lockCount[n]
      /\ \A u \in Thread : call'[u] = IF u = t THEN k ELSE call[u]
  BY <1>1, <1>4, <1>5 DEF TypeOK
<1>7. /\ call[t].op = "none"
      /\ \A n \in Mutex : t \notin threadQueueSmall[n]
      /\ \A c \in Cond : t \notin condQueue[c]
  BY <1>1, <1>4, CallKinds DEF TypeOK, SleepersSleepOnce
<1>8. TypeOK'
  <2>1. /\ owner' \in [Mutex -> Thread \cup {NoThread}]
        /\ lockCount' \in [Mutex -> 0..MaxLockCount]
        /\ call' \in [Thread -> Call]
    BY <1>1, <1>3, <1>4, <1>5, LockAssumption DEF TypeOK
  <2>2. \A u \in Thread : call'[u].op \in {"queue", "wake"} <=> spin' = u
    BY <1>1, <1>3, <1>4, <1>5, <1>6, LockAssumption DEF TypeOK
  <2>3. \A n \in Mutex, u \in Thread :
            u \in threadQueueSmall'[n] => call'[u].op = "lock" /\ call'[u].mutex = n
    BY <1>1, <1>4, <1>6, <1>7 DEF TypeOK
  <2>4. spin' \in Thread \cup {NoThread}
    BY <1>5
  <2>. QED
    BY <1>1, <1>4, <2>1, <2>2, <2>3, <2>4 DEF TypeOK
<1>9. OwnersAreCounted'
  BY <1>1, <1>6 DEF OwnersAreCounted
<1>10. RestoringOwns'
  <2>. SUFFICES ASSUME NEW u \in Thread, call'[u].op = "restore"
                PROVE  owner'[call'[u].mutex] = u /\ call'[u].prev > 0
    BY DEF RestoringOwns
  <2>1. u # t /\ call'[u] = call[u] /\ owner[call[u].mutex] = u /\ call[u].prev > 0
    BY <1>1, <1>3, <1>6 DEF RestoringOwns
  <2>2. call[u].mutex \in Mutex /\ call[u].mutex # m
    BY <1>1, <1>4, <2>1, CallFields DEF TypeOK
  <2>. QED
    BY <1>6, <2>1, <2>2
<1>11. SleepersSleepOnce'
  BY <1>1, <1>4, <1>6, <1>7 DEF SleepersSleepOnce
<1>12. LockersCovered'
  <2>1. ASSUME NEW n \in Mutex, owner'[n] = NoThread, Behind(n)'
        PROVE  \/ \E u \in Thread : Comes(u, n)'
               \/ owner[n] = NoThread /\ Behind(n) /\ ~Comes(t, n)
    <3>1. Behind(n)
      BY <1>3, <1>4, <1>6, <2>1 DEF Behind
    <3>2. CASE n # m
      BY <1>6, <1>7, <2>1, <3>1, <3>2, CallKinds
         DEF Comes, OnHisWay, InCondWait, Woken
    <3>3. CASE n = m
      <4>1. \A u \in Thread : call[u].op # "queue"
        BY <1>1, <1>4, LockAssumption DEF TypeOK
      <4>2. call'[t] = Waking(m)
        BY <1>3, <1>6, <3>1, <3>3, <4>1 DEF Behind
      <4>. QED
        BY <3>3, <4>2 DEF Comes, OnHisWay
    <3>. QED
      BY <3>2, <3>3
  <2>. QED
    BY <1>4, <1>6, <2>1, StillCovered
<1>. QED
  BY <1>8, <1>9, <1>10, <1>11, <1>12 DEF IInv

LEMMA UnlockStep ==
    ASSUME IInv, NEW t \in Thread, NEW m \in Mutex, OSFastMutex_Unlock(t, m)
    PROVE  IInv'
<1>1. CASE lockCount[m] = 1
  BY <1>1, LastUnlockStep
<1>2. CASE lockCount[m] # 1
  <2>1. lockCount[m] \in 2..MaxLockCount
    BY <1>2, LockAssumption DEF OSFastMutex_Unlock, IInv, TypeOK, OwnersAreCounted
  <2>2. lockCount[m] - 1 \in 1..MaxLockCount
    BY <2>1, LockAssumption
  <2>. QED
    BY <1>2, <2>2, CountStep DEF OSFastMutex_Unlock
<1>. QED
  BY <1>1, <1>2

\* The thread that is woken comes; if a condition wait woke all of them
\* before, nobody can have queued himself since.
LEMMA WakeOneStep ==
    ASSUME IInv, NEW t \in Thread, WakeOne(t)
    PROVE  IInv'
<1>1. TypeOK /\ OwnersAreCounted /\ RestoringOwns /\ SleepersSleepOnce
  BY DEF IInv
<1>2. DEFINE m == call[t].mutex
<1>3. call[t].op = "wake" /\ m \in Mutex /\ call[t] = Waking(m)
  BY <1>1, CallFields DEF WakeOne, TypeOK
<1>4. /\ spin' = NoThread /\ call' = [call EXCEPT ![t] = NoCall]
      /\ UNCHANGED <<owner, lockCount, condQueue>>
      /\ \/ threadQueueSmall[m] = {} /\ UNCHANGED threadQueueSmall
         \/ \E u \in threadQueueSmall[m] :
                threadQueueSmall' = [threadQueueSmall EXCEPT ![m] = @ \ {u}]
  BY DEF WakeOne
<1>. HIDE DEF m
<1>5. \A u \in Thread : call'[u] = IF u = t THEN NoCall ELSE call[u]
  BY <1>1, <1>4 DEF TypeOK
<1>6. /\ threadQueueSmall' \in [Mutex -> SUBSET Thread]
      /\ \A n \in Mutex : threadQueueSmall'[n] \subseteq threadQueueSmall[n]
      /\ \A n \in Mutex \ {m} : threadQueueSmall'[n] = threadQueueSmall[n]
  BY <1>1, <1>4 DEF TypeOK
<1>7. spin = t /\ \A n \in Mutex : t \notin threadQueueSmall[n]
  BY <1>1, <1>3 DEF TypeOK
<1>8. TypeOK'
  <2>1. call' \in [Thread -> Call]
    BY <1>1, <1>4, CallKinds DEF TypeOK
  <2>2. \A u \in Thread : call'[u].op \in {"queue", "wake"} <=> spin' = u
    BY <1>1, <1>4, <1>5, <1>7, CallKinds, LockAssumption DEF TypeOK
  <2>3. \A n \in Mutex, u \in Thread :
            u \in threadQueueSmall'[n] => call'[u].op = "lock" /\ call'[u].mutex = n
    BY <1>1, <1>5, <1>6, <1>7 DEF TypeOK
  <2>. QED
    BY <1>1, <1>4, <1>6, <2>1, <2>2, <2>3 DEF TypeOK
<1>9. OwnersAreCounted' /\ RestoringOwns'
  BY <1>1, <1>4, <1>5, CallKinds DEF OwnersAreCounted, RestoringOwns
<1>10. SleepersSleepOnce'
  BY <1>1, <1>3, <1>4, <1>5, <1>6 DEF SleepersSleepOnce
<1>11. LockersCovered'
  <2>1. ASSUME NEW n \in Mutex, owner'[n] = NoThread, Behind(n)'
        PROVE  \/ \E u \in Thread : Comes(u, n)'
               \/ owner[n] = NoThread /\ Behind(n) /\ ~Comes(t, n)
    <3>1. CASE n # m
      <4>1. Behind(n)
        BY <1>5, <1>6, <2>1, <3>1, CallKinds DEF Behind
      <4>2. ~Comes(t, n)
        BY <1>3, <3>1, CallKinds DEF Comes, OnHisWay, InCondWait, Woken
      <4>. QED
        BY <1>4, <2>1, <4>1, <4>2
    <3>2. CASE n = m
      <4>1. \A u \in Thread : call'[u].op # "queue"
        <5>1. \A u \in Thread \ {t} : call[u].op # "queue"
          BY <1>1, <1>7 DEF TypeOK
        <5>. QED
          BY <1>5, <5>1, CallKinds
      <4>2. threadQueueSmall'[m] # {}
        BY <2>1, <3>2, <4>1 DEF Behind
      <4>3. PICK u \in threadQueueSmall[m] :
                threadQueueSmall' = [threadQueueSmall EXCEPT ![m] = @ \ {u}]
        BY <1>4, <4>2
      <4>4. u \in Thread /\ u # t /\ u \notin threadQueueSmall'[m]
        BY <1>1, <1>3, <1>7, <4>3 DEF TypeOK
      <4>5. call'[u].op = "lock" /\ call'[u].mutex = m
        BY <1>1, <1>3, <1>5, <4>3, <4>4 DEF TypeOK
      <4>6. Comes(u, n)'
        BY <3>2, <4>4, <4>5 DEF Comes, OnHisWay, InCondWait, Woken
      <4>. QED
        BY <4>4, <4>6
    <3>. QED
      BY <3>1, <3>2
  <2>2. \A u \in Thread \ {t} :
            /\ call'[u] = call[u]
            /\ \A n \in Mutex : u \in threadQueueSmall'[n] => u \in threadQueueSmall[n]
            /\ \A c \in Cond : u \in condQueue'[c] => u \in condQueue[c]
    BY <1>4, <1>5, <1>6
  <2>. QED
    BY <2>1, <2>2, StillCovered
<1>. QED
  BY <1>8, <1>9, <1>10, <1>11 DEF IInv

LEMMA OSFastCond_WaitStep ==
    ASSUME IInv, NEW t \in Thread, NEW c \in Cond, NEW m \in Mutex,
           OSFastCond_Wait(t, c, m)
    PROVE  IInv'
<1>1. TypeOK /\ OwnersAreCounted /\ RestoringOwns /\ SleepersSleepOnce
  BY DEF IInv
<1>2. DEFINE k == Leaving(c, m, lockCount[m])
<1>3. lockCount[m] \in 1..MaxLockCount
  BY <1>1, LockAssumption DEF OSFastCond_Wait, TypeOK, OwnersAreCounted
<1>4. k \in Call /\ k.op = "leave" /\ k.mutex = m
  BY <1>3, CallKinds
<1>. HIDE DEF k
<1>5. /\ call[t] = NoCall /\ owner[m] = t
      /\ lockCount' = [lockCount EXCEPT ![m] = 0]
      /\ owner' = [owner EXCEPT ![m] = NoThread]
      /\ call' = [call EXCEPT ![t] = k]
      /\ UNCHANGED <<threadQueueSmall, condQueue, spin>>
  BY DEF OSFastCond_Wait, k
<1>6. /\ \A n \in Mutex : owner'[n] = IF n = m THEN NoThread ELSE owner[n]
      /\ \A n \in Mutex : lockCount'[n] = IF n = m THEN 0 ELSE lockCount[n]
      /\ \A u \in Thread : call'[u] = IF u = t THEN k ELSE call[u]
  BY <1>1, <1>5 DEF TypeOK
<1>7. /\ call[t].op = "none"
      /\ \A n \in Mutex : t \notin threadQueueSmall[n]
      /\ \A d \in Cond : t \notin condQueue[d]
  BY <1>1, <1>5, CallKinds DEF TypeOK, SleepersSleepOnce
<1>8. TypeOK'
  <2>1. /\ owner' \in [Mutex -> Thread \cup {NoThread}]
        /\ lockCount' \in [Mutex -> 0..MaxLockCount]
        /\ call' \in [Thread -> Call]
    BY <1>1, <1>4, <1>5, LockAssumption DEF TypeOK
  <2>2. \A u \in Thread : call'[u].op \in {"queue", "wake"} <=> spin' = u
    BY <1>1, <1>4, <1>5, <1>6, <1>7 DEF TypeOK
  <2>3. \A n \in Mutex, u \in Thread :
            u \in threadQueueSmall'[n] => call'[u].op = "lock" /\ call'[u].mutex = n
    BY <1>1, <1>5, <1>6, <1>7 DEF TypeOK
  <2>. QED
    BY <1>1, <1>5, <2>1, <2>2, <2>3 DEF TypeOK
<1>9. OwnersAreCounted'
  BY <1>1, <1>6 DEF OwnersAreCounted
<1>10. RestoringOwns'
  <2>. SUFFICES ASSUME NEW u \in Thread, call'[u].op = "restore"
                PROVE  owner'[call'[u].mutex] = u /\ call'[u].prev > 0
    BY DEF RestoringOwns
  <2>1. u # t /\ call'[u] = call[u] /\ owner[call[u].mutex] = u /\ call[u].prev > 0
    BY <1>1, <1>4, <1>6 DEF RestoringOwns
  <2>2. call[u].mutex \in Mutex /\ call[u].mutex # m
    BY <1>1, <1>5, <2>1, CallFields DEF TypeOK
  <2>. QED
    BY <1>6, <2>1, <2>2
<1>11. SleepersSleepOnce'
  BY <1>1, <1>5, <1>6, <1>7 DEF SleepersSleepOnce
<1>12. LockersCovered'
  <2>1. ASSUME NEW n \in Mutex, owner'[n] = NoThread, Behind(n)'
        PROVE  \/ \E u \in Thread : Comes(u, n)'
               \/ owner[n] = NoThread /\ Behind(n) /\ ~Comes(t, n)
    <3>1. CASE n # m
      BY <1>4, <1>5, <1>6, <1>7, <2>1, <3>1, CallKinds
         DEF Behind, Comes, OnHisWay, InCondWait, Woken
    <3>2. CASE n = m
      BY <1>4, <1>6, <3>2 DEF Comes, InCondWait
    <3>. QED
      BY <3>1, <3>2
  <2>. QED
    BY <1>5, <1>6, <2>1, StillCovered
<1>. QED
  BY <1>8, <1>9, <1>10, <1>11, <1>12 DEF IInv

LEMMA WaitOnCondStep ==
    ASSUME IInv, NEW t \in Thread, WaitOnCond(t)
    PROVE  IInv'
<1>1. TypeOK /\ OwnersAreCounted /\ RestoringOwns /\ SleepersSleepOnce
  BY DEF IInv
<1>2. DEFINE m == call[t].mutex
             c == call[t].cond
             k == Locking(m, call[t].prev)
<1>3. /\ call[t].op = "leave" /\ m \in Mutex /\ c \in Cond
      /\ call[t].prev \in 1..MaxLockCount
  BY <1>1, CallFields DEF WaitOnCond, TypeOK
<1>4. k \in Call /\ k.op = "lock" /\ k.mutex = m /\ k.prev > 0
  <2>1. call[t].prev \in 0..MaxLockCount /\ call[t].prev > 0
    BY <1>3, LockAssumption
  <2>. QED
    BY <1>3, <2>1, CallKinds
<1>5. /\ threadQueueSmall' = [threadQueueSmall EXCEPT ![m] = {}]
      /\ condQueue' = [condQueue EXCEPT ![c] = @ \cup {t}]
      /\ call' = [call EXCEPT ![t] = k]
      /\ UNCHANGED <<owner, lockCount, spin>>
  BY DEF WaitOnCond
<1>. HIDE DEF m, c, k
<1>6. /\ \A n \in Mutex : threadQueueSmall'[n] = IF n = m THEN {} ELSE threadQueueSmall[n]
      /\ \A d \in Cond : condQueue'[d] =
             IF d = c THEN condQueue[d] \cup {t} ELSE condQueue[d]
      /\ \A u \in Thread : call'[u] = IF u = t THEN k ELSE call[u]
  BY <1>1, <1>5 DEF TypeOK
<1>7. \A n \in Mutex : t \notin threadQueueSmall[n]
  BY <1>1, <1>3 DEF TypeOK
<1>8. TypeOK'
  <2>1. /\ threadQueueSmall' \in [Mutex -> SUBSET Thread]
        /\ condQueue' \in [Cond -> SUBSET Thread]
        /\ call' \in [Thread -> Call]
    BY <1>1, <1>4, <1>5 DEF TypeOK
  <2>2. \A u \in Thread : call'[u].op \in {"queue", "wake"} <=> spin' = u
    BY <1>1, <1>3, <1>4, <1>5, <1>6 DEF TypeOK
  <2>3. \A n \in Mutex, u \in Thread :
            u \in threadQueueSmall'[n] => call'[u].op = "lock" /\ call'[u].mutex = n
    BY <1>1, <1>6, <1>7 DEF TypeOK
  <2>. QED
    BY <1>1, <1>5, <2>1, <2>2, <2>3 DEF TypeOK
<1>9. OwnersAreCounted' /\ RestoringOwns'
  BY <1>1, <1>4, <1>5, <1>6 DEF OwnersAreCounted, RestoringOwns
<1>10. SleepersSleepOnce'
  <2>. SUFFICES ASSUME NEW d \in Cond, NEW u \in Thread, u \in condQueue'[d]
                PROVE  /\ call'[u].op = "lock" /\ call'[u].prev > 0
                       /\ \A n \in Mutex : u \notin threadQueueSmall'[n]
    BY DEF SleepersSleepOnce
  <2>1. CASE u = t
    BY <1>4, <1>6, <1>7, <2>1
  <2>2. CASE u # t
    <3>1. /\ u \in condQueue[d] /\ call'[u] = call[u]
          /\ \A n \in Mutex : threadQueueSmall'[n] \subseteq threadQueueSmall[n]
      BY <1>6, <2>2
    <3>. QED
      BY <1>1, <3>1 DEF SleepersSleepOnce
  <2>. QED
    BY <2>1, <2>2
<1>11. LockersCovered'
  <2>1. ASSUME NEW n \in Mutex, owner'[n] = NoThread, Behind(n)'
        PROVE  \/ \E u \in Thread : Comes(u, n)'
               \/ owner[n] = NoThread /\ Behind(n) /\ ~Comes(t, n)
    <3>1. CASE n # m
      <4>1. Behind(n)
        BY <1>4, <1>6, <2>1, <3>1 DEF Behind
      <4>2. ~Comes(t, n)
        BY <1>3, <3>1, CallKinds DEF m, Comes, OnHisWay, InCondWait, Woken
      <4>. QED
        BY <1>5, <2>1, <4>1, <4>2
    <3>2. CASE n = m
      <4>1. call'[t].op = "lock" /\ call'[t].mutex = m /\ t \in condQueue'[c]
        BY <1>4, <1>3, <1>6
      <4>. QED
        BY <1>3, <3>2, <4>1 DEF Comes, InCondWait
    <3>. QED
      BY <3>1, <3>2
  <2>2. \A u \in Thread \ {t} :
            /\ call'[u] = call[u]
            /\ \A n \in Mutex : u \in threadQueueSmall'[n] => u \in threadQueueSmall[n]
            /\ \A d \in Cond : u \in condQueue'[d] => u \in condQueue[d]
    BY <1>6
  <2>. QED
    BY <2>1, <2>2, StillCovered
<1>. QED
  BY <1>8, <1>9, <1>10, <1>11 DEF IInv

LEMMA RestoreStep ==
    ASSUME IInv, NEW t \in Thread, Restore(t)
    PROVE  IInv'
<1>1. TypeOK /\ OwnersAreCounted /\ RestoringOwns /\ SleepersSleepOnce
  BY DEF IInv
<1>2. DEFINE m == call[t].mutex
             p == call[t].prev
<1>3. /\ call[t].op = "restore" /\ m \in Mutex /\ p \in 1..MaxLockCount
      /\ owner[m] = t
  BY <1>1, CallFields, LockAssumption DEF Restore, TypeOK, RestoringOwns
<1>4. /\ lockCount' = [lockCount EXCEPT ![m] = p]
      /\ call' = [call EXCEPT ![t] = NoCall]
      /\ UNCHANGED <<owner, threadQueueSmall, condQueue, spin>>
  BY DEF Restore
<1>. HIDE DEF m, p
<1>5. /\ \A n \in Mutex : lockCount'[n] = IF n = m THEN p ELSE lockCount[n]
      /\ \A u \in Thread : call'[u] = IF u = t THEN NoCall ELSE call[u]
  BY <1>1, <1>4 DEF TypeOK
<1>6. /\ \A n \in Mutex : t \notin threadQueueSmall[n]
      /\ \A c \in Cond : t \notin condQueue[c]
  BY <1>1, <1>3 DEF TypeOK, SleepersSleepOnce
<1>7. TypeOK'
  <2>1. /\ lockCount' \in [Mutex -> 0..MaxLockCount]
        /\ call' \in [Thread -> Call]
    BY <1>1, <1>3, <1>4, CallKinds, LockAssumption DEF TypeOK
  <2>2. \A u \in Thread : call'[u].op \in {"queue", "wake"} <=> spin' = u
    BY <1>1, <1>3, <1>4, <1>5, CallKinds DEF TypeOK
  <2>3. \A n \in Mutex, u \in Thread :
            u \in threadQueueSmall'[n] => call'[u].op = "lock" /\ call'[u].mutex = n
    BY <1>1, <1>4, <1>5, <1>6 DEF TypeOK
  <2>. QED
    BY <1>1, <1>4, <2>1, <2>2, <2>3 DEF TypeOK
<1>8. OwnersAreCounted'
  BY <1>1, <1>3, <1>4, <1>5, LockAssumption DEF OwnersAreCounted
<1>9. RestoringOwns' /\ SleepersSleepOnce'
  BY <1>1, <1>4, <1>5, <1>6, CallKinds DEF RestoringOwns, SleepersSleepOnce
<1>10. LockersCovered'
  <2>1. ASSUME NEW n \in Mutex, owner'[n] = NoThread, Behind(n)'
        PROVE  owner[n] = NoThread /\ Behind(n) /\ ~Comes(t, n)
    BY <1>3, <1>4, <1>5, <2>1, CallKinds
       DEF Behind, Comes, OnHisWay, InCondWait, Woken
  <2>. QED
    BY <1>4, <1>5, <2>1, StillCovered
<1>. QED
  BY <1>7, <1>8, <1>9, <1>10 DEF IInv

LEMMA OSFastCond_SignalStep ==
    ASSUME IInv, NEW t \in Thread, NEW c \in Cond, OSFastCond_Signal(t, c)
    PROVE  IInv'
<1>1. /\ call[t] = NoCall
      /\ condQueue' = [condQueue EXCEPT ![c] = {}]
      /\ UNCHANGED <<owner, lockCount, threadQueueSmall, spin, call>>
  BY DEF OSFastCond_Signal
<1>2. condQueue' \in [Cond -> SUBSET Thread]
      /\ \A d \in Cond : condQueue'[d] \subseteq condQueue[d]
  BY <1>1 DEF IInv, TypeOK
<1>3. TypeOK' /\ OwnersAreCounted' /\ RestoringOwns' /\ SleepersSleepOnce'
  BY <1>1, <1>2 DEF IInv, TypeOK, OwnersAreCounted, RestoringOwns, SleepersSleepOnce
<1>4. LockersCovered'
  <2>1. ASSUME NEW n \in Mutex, owner'[n] = NoThread, Behind(n)'
        PROVE  owner[n] = NoThread /\ Behind(n) /\ ~Comes(t, n)
    BY <1>1, <2>1, CallKinds DEF Behind, Comes, OnHisWay, InCondWait, Woken
  <2>. QED
    BY <1>1, <1>2, <2>1, StillCovered
<1>. QED
  BY <1>3, <1>4 DEF IInv

LEMMA OSExitThreadStep ==
    ASSUME IInv, NEW t \in Thread, OSExitThread(t)
    PROVE  IInv'
<1>1. TypeOK /\ OwnersAreCounted /\ RestoringOwns /\ SleepersSleepOnce
  BY DEF IInv
<1>2. /\ call[t] = NoCall /\ call' = [call EXCEPT ![t] = Ended]
      /\ UNCHANGED <<owner, lockCount, threadQueueSmall, condQueue, spin>>
  BY DEF OSExitThread
<1>3. \A u \in Thread : call'[u] = IF u = t THEN Ended ELSE call[u]
  BY <1>1, <1>2 DEF TypeOK
<1>4. /\ \A n \in Mutex : t \notin threadQueueSmall[n]
      /\ \A c \in Cond : t \notin condQueue[c]
  BY <1>1, <1>2, CallKinds DEF TypeOK, SleepersSleepOnce
<1>5. TypeOK'
  <2>1. call' \in [Thread -> Call]
    BY <1>1, <1>2, CallKinds DEF TypeOK
  <2>2. \A u \in Thread : call'[u].op \in {"queue", "wake"} <=> spin' = u
    BY <1>1, <1>2, <1>3, CallKinds DEF TypeOK
  <2>3. \A n \in Mutex, u \in Thread :
            u \in threadQueueSmall'[n] => call'[u].op = "lock" /\ call'[u].mutex = n
    BY <1>1, <1>2, <1>3, <1>4 DEF TypeOK
  <2>. QED
    BY <1>1, <1>2, <2>1, <2>2, <2>3 DEF TypeOK
<1>6. OwnersAreCounted' /\ RestoringOwns' /\ SleepersSleepOnce'
  BY <1>1, <1>2, <1>3, <1>4, CallKinds
     DEF OwnersAreCounted, RestoringOwns, SleepersSleepOnce
<1>7. LockersCovered'
  <2>1. ASSUME NEW n \in Mutex, owner'[n] = NoThread, Behind(n)'
        PROVE  owner[n] = NoThread /\ Behind(n) /\ ~Comes(t, n)
    BY <1>2, <1>3, <2>1, CallKinds
       DEF Behind, Comes, OnHisWay, InCondWait, Woken
  <2>. QED
    BY <1>2, <1>3, <2>1, StillCovered
<1>. QED
  BY <1>5, <1>6, <1>7 DEF IInv
-----------------------------------------------------------------------------
LEMMA InitIInv == Init => IInv
<1>. SUFFICES ASSUME Init PROVE IInv
  OBVIOUS
<1>1. TypeOK
  BY CallKinds, LockAssumption DEF Init, TypeOK
<1>2. OwnersAreCounted /\ RestoringOwns /\ SleepersSleepOnce
  BY CallKinds DEF Init, OwnersAreCounted, RestoringOwns, SleepersSleepOnce
<1>3. LockersCovered
  BY CallKinds DEF Init, LockersCovered, Behind
<1>. QED
  BY <1>1, <1>2, <1>3 DEF IInv

\* A call to lock a mutex, as OSFastMutex_LockInternal sees it.
LEMMA LockKinds ==
    ASSUME IInv, NEW t \in Thread,
           \/ \E m \in Mutex, try \in BOOLEAN : OSFastMutex_Lock(t, m, try)
           \/ OSFastMutex_LockInternal(t)
    PROVE  \/ \E m \in Mutex, prev \in 0..MaxLockCount :
                  MayLock(t, m, prev) /\ (Acquire(t, m, prev) \/ Contend(t, m, prev))
           \/ \E m \in Mutex : call[t] = NoCall /\ LockAgain(t, m)
<1>1. ASSUME NEW m \in Mutex, NEW try \in BOOLEAN, OSFastMutex_Lock(t, m, try)
      PROVE  \/ MayLock(t, m, 0) /\ (Acquire(t, m, 0) \/ Contend(t, m, 0))
             \/ call[t] = NoCall /\ LockAgain(t, m)
  BY <1>1 DEF OSFastMutex_Lock, MayLock
<1>2. 0 \in 0..MaxLockCount
  BY LockAssumption
<1>3. ASSUME OSFastMutex_LockInternal(t)
      PROVE  \E m \in Mutex, prev \in 0..MaxLockCount :
                 MayLock(t, m, prev) /\ (Acquire(t, m, prev) \/ Contend(t, m, prev))
  <2>. DEFINE m == call[t].mutex
              prev == call[t].prev
  <2>1. m \in Mutex /\ prev \in 0..MaxLockCount
    BY <1>3, CallFields DEF OSFastMutex_LockInternal, Woken, IInv, TypeOK
  <2>2. MayLock(t, m, prev) /\ (Acquire(t, m, prev) \/ Contend(t, m, prev))
    BY <1>3 DEF OSFastMutex_LockInternal, MayLock
  <2>. QED
    BY <2>1, <2>2
<1>. QED
  BY <1>1, <1>2, <1>3

LEMMA NextIInv == IInv /\ [Next]_vars => IInv'
<1>. SUFFICES ASSUME IInv, [Next]_vars PROVE IInv'
  OBVIOUS
<1>1. CASE UNCHANGED vars
  BY <1>1 DEF IInv, vars, TypeOK, OwnersAreCounted, RestoringOwns, SleepersSleepOnce,
              LockersCovered, Behind, Comes, OnHisWay, InCondWait, Woken
<1>2. ASSUME NEW t \in Thread,
             \/ \E m \in Mutex, try \in BOOLEAN : OSFastMutex_Lock(t, m, try)
             \/ OSFastMutex_LockInternal(t)
      PROVE  IInv'
  <2>1. ASSUME NEW m \in Mutex, call[t] = NoCall, LockAgain(t, m)
        PROVE  IInv'
    <3>1. lockCount[m] + 1 \in 1..MaxLockCount
      BY <2>1, LockAssumption DEF LockAgain, IInv, TypeOK
    <3>. QED
      BY <2>1, <3>1, CountStep DEF LockAgain
  <2>. QED
    BY <1>2, <2>1, LockKinds, AcquireStep, ContendStep
<1>3. ASSUME NEW t \in Thread, NEW m \in Mutex,
             OSFastMutex_Unlock(t, m) \/ \E c \in Cond : OSFastCond_Wait(t, c, m)
      PROVE  IInv'
  BY <1>3, UnlockStep, OSFastCond_WaitStep
<1>4. ASSUME NEW t \in Thread,
             \/ \E c \in Cond : OSFastCond_Signal(t, c)
             \/ EnterQueue(t) \/ WakeOne(t) \/ WaitOnCond(t) \/ Restore(t)
             \/ OSExitThread(t)
      PROVE  IInv'
  BY <1>4, OSFastCond_SignalStep, EnterQueueStep, WakeOneStep, WaitOnCondStep,
     RestoreStep, OSExitThreadStep
<1>. QED
  BY <1>1, <1>2, <1>3, <1>4 DEF Next

LEMMA InductiveInvariant == Spec => []IInv
  BY InitIInv, NextIInv, PTL DEF Spec

\* One thread has the spinlock, and the queue of a mutex holds only threads
\* that are locking it.
THEOREM TypeCorrect == Spec => []TypeOK
<1>1. IInv => TypeOK
  BY DEF IInv
<1>. QED
  BY <1>1, InductiveInvariant, PTL

\* The asserts on lockCount never fail.
THEOREM CountsAreExact == Spec => []OwnersAreCounted
<1>1. IInv => OwnersAreCounted
  BY DEF IInv
<1>. QED
  BY <1>1, InductiveInvariant, PTL

\* No thread sleeps beside a free fast mutex with nobody coming, except for a
\* condition wait.
THEOREM LockersAreRemembered == Spec => []NoLockerForgotten
<1>1. IInv => NoLockerForgotten
  BY DEF IInv, LockersCovered, NoLockerForgotten, Behind, Comes
<1>. QED
  BY <1>1, InductiveInvariant, PTL
-----------------------------------------------------------------------------
(* The refinement: what Depth, Left and WaitSet see of a call.             *)

DepthBy(m, o, k, n) ==
    IF o # NoThread /\ k.op = "restore" /\ k.mutex = m THEN k.prev ELSE n

LeftBy(k) ==
    IF k.op \in {"lock", "queue", "leave"} /\ k.prev > 0
    THEN [mutex |-> k.mutex, depth |-> k.prev] ELSE [depth |-> 0]

Leaves(k, c) == k.op = "leave" /\ k.cond = c

abstractVars == <<owner, Depth, WaitSet, Left>>

LEMMA DepthIs ==
    ASSUME NEW m \in Mutex, NEW o, NEW k, NEW n,
           o # NoThread => k \in Call /\ (k.op = "restore" => k.prev > 0)
    PROVE  (IF o # NoThread /\ k \in {Restoring(m, p) : p \in 1..MaxLockCount}
            THEN k.prev ELSE n) = DepthBy(m, o, k, n)
<1>1. ASSUME NEW p \in 1..MaxLockCount, k = Restoring(m, p)
      PROVE  k.op = "restore" /\ k.mutex = m
  <2>1. p \in 0..MaxLockCount
    BY LockAssumption
  <2>. QED
    BY <1>1, <2>1, CallKinds
<1>2. ASSUME o # NoThread, k.op = "restore", k.mutex = m
      PROVE  \E p \in 1..MaxLockCount : k = Restoring(m, p)
  <2>1. k.prev \in 0..MaxLockCount /\ k = Restoring(m, k.prev) /\ k.prev > 0
    BY <1>2, CallFields
  <2>2. k.prev \in 1..MaxLockCount
    BY <2>1, LockAssumption
  <2>. QED
    BY <2>1, <2>2
<1>. QED
  BY <1>1, <1>2 DEF DepthBy

LEMMA AbstractState ==
    ASSUME IInv, IInv'
    PROVE  /\ Depth = [m \in Mutex |->
                           DepthBy(m, owner[m], call[owner[m]], lockCount[m])]
           /\ Depth' = [m \in Mutex |->
                           DepthBy(m, owner'[m], call'[owner'[m]], lockCount'[m])]
           /\ Left = [t \in Thread |-> LeftBy(call[t])]
           /\ Left' = [t \in Thread |-> LeftBy(call'[t])]
           /\ WaitSet = [c \in Cond |->
                             condQueue[c] \cup {t \in Thread : Leaves(call[t], c)}]
           /\ WaitSet' = [c \in Cond |->
                             condQueue'[c] \cup {t \in Thread : Leaves(call'[t], c)}]
<1>1. ASSUME NEW m \in Mutex
      PROVE  /\ owner[m] # NoThread => /\ call[owner[m]] \in Call
                                       /\ call[owner[m]].op = "restore" =>
                                              call[owner[m]].prev > 0
             /\ owner'[m] # NoThread => /\ call'[owner'[m]] \in Call
                                        /\ call'[owner'[m]].op = "restore" =>
                                               call'[owner'[m]].prev > 0
  BY DEF IInv, TypeOK, RestoringOwns
<1>2. Depth = [m \in Mutex |-> DepthBy(m, owner[m], call[owner[m]], lockCount[m])]
  BY <1>1, DepthIs DEF Depth
<1>3. Depth' = [m \in Mutex |-> DepthBy(m, owner'[m], call'[owner'[m]], lockCount'[m])]
  BY <1>1, DepthIs DEF Depth
<1>4. /\ Left = [t \in Thread |-> LeftBy(call[t])]
      /\ Left' = [t \in Thread |-> LeftBy(call'[t])]
  BY DEF Left, LeftBy
<1>5. /\ WaitSet = [c \in Cond |->
                        condQueue[c] \cup {t \in Thread : Leaves(call[t], c)}]
      /\ WaitSet' = [c \in Cond |->
                        condQueue'[c] \cup {t \in Thread : Leaves(call'[t], c)}]
  BY DEF WaitSet, Leaves
<1>. QED
  BY <1>2, <1>3, <1>4, <1>5

\* A step of t that neither begins nor ends a restore or a condition wait.
LEMMA Stutter ==
    ASSUME IInv, IInv', NEW t \in Thread, NEW k,
           call' = [call EXCEPT ![t] = k],
           UNCHANGED <<owner, lockCount, condQueue>>,
           k.op \notin {"restore", "leave"}, call[t].op \notin {"restore", "leave"},
           LeftBy(k) = LeftBy(call[t])
    PROVE  UNCHANGED abstractVars
<1>1. \A u \in Thread : call'[u] = IF u = t THEN k ELSE call[u]
  BY DEF IInv, TypeOK
<1>2. Depth' = Depth
  <2>1. ASSUME NEW m \in Mutex
        PROVE  DepthBy(m, owner'[m], call'[owner'[m]], lockCount'[m])
               = DepthBy(m, owner[m], call[owner[m]], lockCount[m])
    BY <1>1 DEF IInv, TypeOK, DepthBy
  <2>. QED
    BY <2>1, AbstractState
<1>3. Left' = Left
  BY <1>1, AbstractState
<1>4. WaitSet' = WaitSet
  <2>1. \A c \in Cond, u \in Thread : Leaves(call'[u], c) <=> Leaves(call[u], c)
    BY <1>1 DEF Leaves
  <2>. QED
    BY <2>1, AbstractState
<1>. QED
  BY <1>2, <1>3, <1>4 DEF abstractVars

\* A first lock, or the return of a condition wait.
LEMMA AcquireRefines ==
    ASSUME IInv, IInv', NEW t \in Thread, NEW m \in Mutex, NEW prev \in 0..MaxLockCount,
           MayLock(t, m, prev), Acquire(t, m, prev)
    PROVE  Abstract!Next
<1>1. DEFINE k == IF prev = 0 THEN NoCall ELSE Restoring(m, prev)
<1>2. /\ k \in Call /\ k.op \in {"none", "restore"}
      /\ (k.op = "restore") <=> (prev # 0)
      /\ k.op = "restore" => k.mutex = m /\ k.prev = prev
  BY CallKinds
<1>. HIDE DEF k
<1>3. /\ owner[m] = NoThread /\ lockCount[m] = 0
      /\ owner' = [owner EXCEPT ![m] = t] /\ lockCount' = [lockCount EXCEPT ![m] = 1]
      /\ call' = [call EXCEPT ![t] = k] /\ condQueue' = condQueue
  BY DEF Acquire, k, IInv, OwnersAreCounted
<1>4. /\ \A n \in Mutex : owner'[n] = IF n = m THEN t ELSE owner[n]
      /\ \A n \in Mutex : lockCount'[n] = IF n = m THEN 1 ELSE lockCount[n]
      /\ \A u \in Thread : call'[u] = IF u = t THEN k ELSE call[u]
  BY <1>3 DEF IInv, TypeOK
<1>5. /\ call[t].op \in {"none", "lock"} /\ (call[t].op = "none" => prev = 0)
      /\ call[t].op = "lock" => call[t].mutex = m /\ call[t].prev = prev
      /\ prev # 0 => \A c \in Cond : t \notin condQueue[c]
  BY CallKinds DEF MayLock, Woken
<1>6. Depth' = [Depth EXCEPT ![m] = IF prev = 0 THEN 1 ELSE prev] /\ Depth[m] = 0
  <2>1. ASSUME NEW n \in Mutex, n # m
        PROVE  DepthBy(n, owner'[n], call'[owner'[n]], lockCount'[n])
               = DepthBy(n, owner[n], call[owner[n]], lockCount[n])
    BY <1>2, <1>4, <1>5, <2>1 DEF IInv, TypeOK, DepthBy
  <2>2. DepthBy(m, owner'[m], call'[owner'[m]], lockCount'[m])
        = IF prev = 0 THEN 1 ELSE prev
    BY <1>2, <1>4, LockAssumption DEF DepthBy
  <2>3. DepthBy(m, owner[m], call[owner[m]], lockCount[m]) = 0
    BY <1>3 DEF DepthBy
  <2>. QED
    BY <2>1, <2>2, <2>3, AbstractState
<1>7. WaitSet' = WaitSet /\ \A c \in Cond : prev # 0 => t \notin WaitSet[c]
  <2>1. \A c \in Cond, u \in Thread : Leaves(call'[u], c) <=> Leaves(call[u], c)
    BY <1>2, <1>4, <1>5 DEF Leaves
  <2>2. \A c \in Cond : ~Leaves(call[t], c)
    BY <1>5 DEF Leaves
  <2>. QED
    BY <1>3, <1>5, <2>1, <2>2, AbstractState
<1>8. /\ Left' = [Left EXCEPT ![t] = Abstract!NotLeft]
      /\ Left[t] = IF prev = 0 THEN Abstract!NotLeft ELSE [mutex |-> m, depth |-> prev]
  <2>1. LeftBy(k) = Abstract!NotLeft
    BY <1>2 DEF LeftBy, Abstract!NotLeft
  <2>2. LeftBy(call[t]) =
            IF prev = 0 THEN Abstract!NotLeft ELSE [mutex |-> m, depth |-> prev]
    BY <1>5, LockAssumption DEF LeftBy, Abstract!NotLeft
  <2>. QED
    BY <1>4, <2>1, <2>2, AbstractState
<1>9. CASE prev = 0
  <2>1. Left' = Left /\ Left[t] = Abstract!NotLeft
    BY <1>8, <1>9, AbstractState
  <2>2. Depth' = [Depth EXCEPT ![m] = Depth[m] + 1]
    BY <1>6, <1>9
  <2>3. Abstract!Acquire(t, m)
    BY <1>3, <1>7, <2>1, <2>2 DEF Abstract!Acquire
  <2>. QED
    BY <2>3 DEF Abstract!Next
<1>10. CASE prev # 0
  <2>1. Left[t].mutex = m /\ Left[t].depth = prev
    BY <1>8, <1>10
  <2>2. Left[t] # Abstract!NotLeft
    <3>1. Abstract!NotLeft.depth = 0
      BY DEF Abstract!NotLeft
    <3>. QED
      BY <1>10, <2>1, <3>1
  <2>3. Depth' = [Depth EXCEPT ![m] = prev]
    BY <1>6, <1>10
  <2>4. Abstract!Return(t)
    BY <1>3, <1>7, <1>8, <1>10, <2>1, <2>2, <2>3 DEF Abstract!Return
  <2>. QED
    BY <2>4 DEF Abstract!Next
<1>. QED
  BY <1>9, <1>10

LEMMA LockAgainRefines ==
    ASSUME IInv, IInv', NEW t \in Thread, NEW m \in Mutex, call[t] = NoCall,
           LockAgain(t, m)
    PROVE  Abstract!Next
<1>1. /\ owner[m] = t /\ lockCount' = [lockCount EXCEPT ![m] = @ + 1]
      /\ UNCHANGED <<owner, condQueue, call>>
  BY DEF LockAgain
<1>2. Left' = Left /\ WaitSet' = WaitSet /\ Left[t] = Abstract!NotLeft
  <2>1. Left' = Left
    BY <1>1, AbstractState
  <2>2. WaitSet' = WaitSet
    BY <1>1, AbstractState
  <2>3. LeftBy(call[t]) = Abstract!NotLeft
    BY CallKinds DEF LeftBy, Abstract!NotLeft
  <2>. QED
    BY <2>1, <2>2, <2>3, AbstractState
<1>3. Depth' = [Depth EXCEPT ![m] = @ + 1]
  <2>1. \A n \in Mutex : lockCount'[n] = IF n = m THEN lockCount[n] + 1 ELSE lockCount[n]
    BY <1>1 DEF IInv, TypeOK
  <2>2. ASSUME NEW n \in Mutex, n # m
        PROVE  DepthBy(n, owner'[n], call'[owner'[n]], lockCount'[n])
               = DepthBy(n, owner[n], call[owner[n]], lockCount[n])
    BY <1>1, <2>1, <2>2
  <2>3. /\ DepthBy(m, owner'[m], call'[owner'[m]], lockCount'[m]) = lockCount[m] + 1
        /\ DepthBy(m, owner[m], call[owner[m]], lockCount[m]) = lockCount[m]
    BY <1>1, <2>1, CallKinds DEF DepthBy
  <2>. QED
    BY <2>2, <2>3, AbstractState
<1>4. owner' = [owner EXCEPT ![m] = t]
  BY <1>1 DEF IInv, TypeOK
<1>5. Abstract!Acquire(t, m)
  BY <1>1, <1>2, <1>3, <1>4 DEF Abstract!Acquire
<1>. QED
  BY <1>5 DEF Abstract!Next

LEMMA UnlockRefines ==
    ASSUME IInv, IInv', NEW t \in Thread, NEW m \in Mutex, OSFastMutex_Unlock(t, m)
    PROVE  Abstract!Next
<1>1. /\ call[t] = NoCall /\ owner[m] = t /\ condQueue' = condQueue
      /\ lockCount' = [lockCount EXCEPT ![m] = @ - 1]
      /\ owner' = [owner EXCEPT ![m] = IF lockCount[m] = 1 THEN NoThread ELSE t]
      /\ call' = call \/ call' = [call EXCEPT ![t] = Waking(m)]
  BY DEF OSFastMutex_Unlock, IInv, TypeOK
<1>2. \A n \in Mutex : lockCount'[n] = IF n = m THEN lockCount[n] - 1 ELSE lockCount[n]
  BY <1>1 DEF IInv, TypeOK
<1>3. /\ \A u \in Thread : call'[u] = call[u] \/ (u = t /\ call'[u] = Waking(m))
      /\ call[t].op = "none" /\ Waking(m).op = "wake"
  BY <1>1, CallKinds DEF IInv, TypeOK
<1>4. Left' = Left
  <2>1. \A u \in Thread : LeftBy(call'[u]) = LeftBy(call[u])
    BY <1>3 DEF LeftBy
  <2>. QED
    BY <2>1, AbstractState
<1>5. WaitSet' = WaitSet
  <2>1. \A c \in Cond, u \in Thread : Leaves(call'[u], c) <=> Leaves(call[u], c)
    BY <1>3 DEF Leaves
  <2>. QED
    BY <1>1, <2>1, AbstractState
<1>6. Depth' = [Depth EXCEPT ![m] = @ - 1] /\ Depth[m] = lockCount[m]
  <2>1. ASSUME NEW n \in Mutex, n # m
        PROVE  DepthBy(n, owner'[n], call'[owner'[n]], lockCount'[n])
               = DepthBy(n, owner[n], call[owner[n]], lockCount[n])
    <3>1. owner'[n] = owner[n] /\ lockCount'[n] = lockCount[n]
      BY <1>1, <1>2, <2>1 DEF IInv, TypeOK
    <3>. QED
      BY <1>3, <3>1 DEF DepthBy, IInv, TypeOK
  <2>2. /\ DepthBy(m, owner'[m], call'[owner'[m]], lockCount'[m]) = lockCount[m] - 1
        /\ DepthBy(m, owner[m], call[owner[m]], lockCount[m]) = lockCount[m]
    <3>1. owner'[m] = NoThread \/ owner'[m] = t
      BY <1>1 DEF IInv, TypeOK
    <3>. QED
      BY <1>1, <1>2, <1>3, <3>1 DEF DepthBy
  <2>. QED
    BY <2>1, <2>2, AbstractState
<1>7. Abstract!Release(t, m)
  BY <1>1, <1>4, <1>5, <1>6 DEF Abstract!Release
<1>. QED
  BY <1>7 DEF Abstract!Next

LEMMA WaitRefines ==
    ASSUME IInv, IInv', NEW t \in Thread, NEW c \in Cond, NEW m \in Mutex,
           OSFastCond_Wait(t, c, m)
    PROVE  Abstract!Next
<1>1. DEFINE k == Leaving(c, m, lockCount[m])
<1>2. lockCount[m] \in 1..MaxLockCount
  BY LockAssumption DEF OSFastCond_Wait, IInv, TypeOK, OwnersAreCounted
<1>3. /\ k.op = "leave" /\ k.mutex = m /\ k.cond = c
      /\ k.prev = lockCount[m] /\ k.prev > 0
  BY <1>2, CallKinds, LockAssumption
<1>. HIDE DEF k
<1>4. /\ call[t] = NoCall /\ owner[m] = t /\ condQueue' = condQueue
      /\ lockCount' = [lockCount EXCEPT ![m] = 0]
      /\ owner' = [owner EXCEPT ![m] = NoThread]
      /\ call' = [call EXCEPT ![t] = k]
  BY DEF OSFastCond_Wait, k
<1>5. /\ \A n \in Mutex : owner'[n] = IF n = m THEN NoThread ELSE owner[n]
      /\ \A n \in Mutex : lockCount'[n] = IF n = m THEN 0 ELSE lockCount[n]
      /\ \A u \in Thread : call'[u] = IF u = t THEN k ELSE call[u]
      /\ call[t].op = "none"
  BY <1>4, CallKinds DEF IInv, TypeOK
<1>6. Depth' = [Depth EXCEPT ![m] = 0] /\ Depth[m] = lockCount[m]
  <2>1. ASSUME NEW n \in Mutex, n # m
        PROVE  DepthBy(n, owner'[n], call'[owner'[n]], lockCount'[n])
               = DepthBy(n, owner[n], call[owner[n]], lockCount[n])
    BY <1>3, <1>5, <2>1 DEF IInv, TypeOK, DepthBy
  <2>2. /\ DepthBy(m, owner'[m], call'[owner'[m]], lockCount'[m]) = 0
        /\ DepthBy(m, owner[m], call[owner[m]], lockCount[m]) = lockCount[m]
    BY <1>4, <1>5 DEF DepthBy
  <2>. QED
    BY <2>1, <2>2, AbstractState
<1>7. Left' = [Left EXCEPT ![t] = [mutex |-> m, depth |-> Depth[m]]]
  <2>1. LeftBy(k) = [mutex |-> m, depth |-> lockCount[m]]
    BY <1>3 DEF LeftBy
  <2>. QED
    BY <1>5, <1>6, <2>1, AbstractState
<1>8. WaitSet' = [WaitSet EXCEPT ![c] = @ \cup {t}]
  <2>1. \A d \in Cond, u \in Thread : Leaves(call'[u], d) <=>
            Leaves(call[u], d) \/ (u = t /\ d = c)
    BY <1>3, <1>5 DEF Leaves
  <2>2. ASSUME NEW d \in Cond
        PROVE  {u \in Thread : Leaves(call'[u], d)} =
                   {u \in Thread : Leaves(call[u], d)} \cup (IF d = c THEN {t} ELSE {})
    BY <2>1
  <2>3. ASSUME NEW d \in Cond
        PROVE  WaitSet'[d] = IF d = c THEN WaitSet[d] \cup {t} ELSE WaitSet[d]
    <3>1. /\ WaitSet[d] = condQueue[d] \cup {u \in Thread : Leaves(call[u], d)}
          /\ WaitSet'[d] = condQueue'[d] \cup {u \in Thread : Leaves(call'[u], d)}
      BY AbstractState
    <3>. QED
      BY <1>4, <2>2, <3>1
  <2>. QED
    BY <2>3, AbstractState
<1>9. Abstract!Wait(t, c, m)
  BY <1>4, <1>6, <1>7, <1>8 DEF Abstract!Wait
<1>. QED
  BY <1>9 DEF Abstract!Next

\* To the user of the condition the wait had begun before.
LEMMA WaitOnCondRefines ==
    ASSUME IInv, IInv', NEW t \in Thread, WaitOnCond(t)
    PROVE  UNCHANGED abstractVars
<1>1. DEFINE m == call[t].mutex
             c == call[t].cond
             k == Locking(m, call[t].prev)
<1>2. /\ call[t].op = "leave" /\ m \in Mutex /\ c \in Cond
      /\ call[t].prev \in 1..MaxLockCount /\ call[t].prev \in 0..MaxLockCount
  BY CallFields, LockAssumption DEF WaitOnCond, IInv, TypeOK
<1>3. k.op = "lock" /\ k.mutex = call[t].mutex /\ k.prev = call[t].prev
  BY <1>2, CallKinds
<1>4. /\ condQueue' = [condQueue EXCEPT ![c] = @ \cup {t}]
      /\ call' = [call EXCEPT ![t] = k] /\ UNCHANGED <<owner, lockCount>>
  BY DEF WaitOnCond
<1>. HIDE DEF m, c, k
<1>5. /\ \A d \in Cond : condQueue'[d] =
             IF d = c THEN condQueue[d] \cup {t} ELSE condQueue[d]
      /\ \A u \in Thread : call'[u] = IF u = t THEN k ELSE call[u]
  <2>1. TypeOK
    BY DEF IInv
  <2>. QED
    BY <1>4, <2>1 DEF TypeOK
<1>6. Depth' = Depth
  <2>1. ASSUME NEW n \in Mutex
        PROVE  DepthBy(n, owner'[n], call'[owner'[n]], lockCount'[n])
               = DepthBy(n, owner[n], call[owner[n]], lockCount[n])
    BY <1>2, <1>3, <1>4, <1>5 DEF IInv, TypeOK, DepthBy
  <2>. QED
    BY <2>1, AbstractState
<1>7. Left' = Left
  <2>1. LeftBy(k) = LeftBy(call[t])
    BY <1>2, <1>3 DEF LeftBy
  <2>. QED
    BY <1>5, <2>1, AbstractState
<1>8. WaitSet' = WaitSet
  <2>1. \A d \in Cond, u \in Thread : (u \in condQueue'[d] \/ Leaves(call'[u], d)) <=>
            (u \in condQueue[d] \/ Leaves(call[u], d))
    BY <1>2, <1>3, <1>5 DEF c, Leaves
  <2>2. \A d \in Cond : condQueue'[d] \cup {u \in Thread : Leaves(call'[u], d)}
                        = condQueue[d] \cup {u \in Thread : Leaves(call[u], d)}
    BY <2>1 DEF IInv, TypeOK
  <2>. QED
    BY <2>2, AbstractState
<1>. QED
  BY <1>4, <1>6, <1>7, <1>8 DEF abstractVars

\* And with the mutex it has its depth back.
LEMMA RestoreRefines ==
    ASSUME IInv, IInv', NEW t \in Thread, Restore(t)
    PROVE  UNCHANGED abstractVars
<1>1. DEFINE m == call[t].mutex
<1>2. call[t].op = "restore" /\ m \in Mutex /\ owner[m] = t
  BY CallFields DEF Restore, IInv, TypeOK, RestoringOwns
<1>3. /\ lockCount' = [lockCount EXCEPT ![m] = call[t].prev]
      /\ call' = [call EXCEPT ![t] = NoCall] /\ UNCHANGED <<owner, condQueue>>
  BY DEF Restore
<1>4. /\ \A n \in Mutex : lockCount'[n] =
             IF n = call[t].mutex THEN call[t].prev ELSE lockCount[n]
      /\ \A u \in Thread : call'[u] = IF u = t THEN NoCall ELSE call[u]
  BY <1>3 DEF IInv, TypeOK
<1>. HIDE DEF m
<1>5. Depth' = Depth
  <2>1. ASSUME NEW n \in Mutex
        PROVE  DepthBy(n, owner'[n], call'[owner'[n]], lockCount'[n])
               = DepthBy(n, owner[n], call[owner[n]], lockCount[n])
    <3>1. CASE owner[n] = t
      BY <1>2, <1>3, <1>4, <3>1, CallKinds, LockAssumption DEF DepthBy
    <3>2. CASE owner[n] # t
      <4>1. n # call[t].mutex
        BY <1>2, <3>2 DEF m
      <4>2. owner[n] # NoThread => call'[owner[n]] = call[owner[n]]
        BY <1>4, <3>2 DEF IInv, TypeOK
      <4>. QED
        BY <1>3, <1>4, <4>1, <4>2 DEF DepthBy
    <3>. QED
      BY <3>1, <3>2
  <2>. QED
    BY <2>1, AbstractState
<1>6. Left' = Left
  <2>1. LeftBy(NoCall) = LeftBy(call[t])
    BY <1>2, CallKinds DEF LeftBy
  <2>. QED
    BY <1>4, <2>1, AbstractState
<1>7. WaitSet' = WaitSet
  <2>1. \A c \in Cond, u \in Thread : Leaves(call'[u], c) <=> Leaves(call[u], c)
    BY <1>2, <1>4, CallKinds DEF Leaves
  <2>. QED
    BY <1>3, <2>1, AbstractState
<1>. QED
  BY <1>3, <1>5, <1>6, <1>7 DEF abstractVars

LEMMA SignalRefines ==
    ASSUME IInv, IInv', NEW t \in Thread, NEW c \in Cond, OSFastCond_Signal(t, c)
    PROVE  Abstract!Next
<1>1. /\ condQueue' = [condQueue EXCEPT ![c] = {}]
      /\ UNCHANGED <<owner, lockCount, call>>
      /\ \A u \in Thread : call[u].op # "leave"
  BY DEF OSFastCond_Signal, SchedulerFree
<1>2. Depth' = Depth /\ Left' = Left
  BY <1>1, AbstractState
<1>3. WaitSet' = [WaitSet EXCEPT ![c] = {}]
  <2>1. \A d \in Cond, u \in Thread : ~Leaves(call[u], d)
    BY <1>1 DEF Leaves
  <2>2. \A d \in Cond : {u \in Thread : Leaves(call[u], d)} = {}
    BY <2>1
  <2>3. WaitSet = [d \in Cond |-> condQueue[d]] /\ WaitSet' = [d \in Cond |-> condQueue'[d]]
    BY <1>1, <2>2, AbstractState
  <2>4. WaitSet = condQueue /\ WaitSet' = condQueue'
    BY <2>3 DEF IInv, TypeOK
  <2>. QED
    BY <1>1, <2>4
<1>4. Abstract!Signal(c)
  BY <1>1, <1>2, <1>3 DEF Abstract!Signal
<1>. QED
  BY <1>4 DEF Abstract!Next

LEMMA StutterRefines ==
    ASSUME IInv, IInv', NEW t \in Thread,
           \/ \E m \in Mutex, prev \in 0..MaxLockCount :
                  MayLock(t, m, prev) /\ Contend(t, m, prev)
           \/ EnterQueue(t) \/ WakeOne(t) \/ OSExitThread(t)
    PROVE  UNCHANGED abstractVars
<1>1. ASSUME NEW m \in Mutex, NEW prev \in 0..MaxLockCount,
             MayLock(t, m, prev), Contend(t, m, prev)
      PROVE  UNCHANGED abstractVars
  <2>1. /\ call' = [call EXCEPT ![t] = Queueing(m, prev)]
        /\ UNCHANGED <<owner, lockCount, condQueue>>
    BY <1>1 DEF Contend
  <2>2. \/ call[t].op = "none" /\ prev = 0
        \/ call[t].op = "lock" /\ call[t].mutex = m /\ call[t].prev = prev
    BY <1>1, CallKinds DEF MayLock, Woken
  <2>3. LeftBy(Queueing(m, prev)) = LeftBy(call[t])
    BY <2>2, CallKinds DEF LeftBy
  <2>4. /\ Queueing(m, prev).op \notin {"restore", "leave"}
        /\ call[t].op \notin {"restore", "leave"}
    BY <2>2, CallKinds
  <2>. QED
    BY <2>1, <2>3, <2>4, Stutter
<1>2. ASSUME EnterQueue(t)
      PROVE  UNCHANGED abstractVars
  <2>. DEFINE k == Locking(call[t].mutex, call[t].prev)
  <2>1. /\ call' = [call EXCEPT ![t] = k] /\ call[t].op = "queue"
        /\ UNCHANGED <<owner, lockCount, condQueue>>
    BY <1>2 DEF EnterQueue
  <2>2. k.op = "lock" /\ k.mutex = call[t].mutex /\ k.prev = call[t].prev
    BY <2>1, CallKinds, CallFields DEF IInv, TypeOK
  <2>. HIDE DEF k
  <2>3. LeftBy(k) = LeftBy(call[t])
    BY <2>1, <2>2 DEF LeftBy
  <2>4. k.op \notin {"restore", "leave"} /\ call[t].op \notin {"restore", "leave"}
    BY <2>1, <2>2
  <2>. QED
    BY <2>1, <2>3, <2>4, Stutter
<1>3. ASSUME WakeOne(t)
      PROVE  UNCHANGED abstractVars
  <2>1. /\ call' = [call EXCEPT ![t] = NoCall] /\ call[t].op = "wake"
        /\ UNCHANGED <<owner, lockCount, condQueue>>
    BY <1>3 DEF WakeOne
  <2>2. LeftBy(NoCall) = LeftBy(call[t]) /\ NoCall.op \notin {"restore", "leave"}
    BY <2>1, CallKinds DEF LeftBy
  <2>3. call[t].op \notin {"restore", "leave"}
    BY <2>1
  <2>. QED
    BY <2>1, <2>2, <2>3, Stutter
<1>4. ASSUME OSExitThread(t)
      PROVE  UNCHANGED abstractVars
  <2>1. /\ call' = [call EXCEPT ![t] = Ended] /\ call[t].op = "none"
        /\ UNCHANGED <<owner, lockCount, condQueue>>
    BY <1>4, CallKinds DEF OSExitThread
  <2>2. LeftBy(Ended) = LeftBy(call[t]) /\ Ended.op \notin {"restore", "leave"}
    BY <2>1, CallKinds DEF LeftBy
  <2>3. call[t].op \notin {"restore", "leave"}
    BY <2>1
  <2>. QED
    BY <2>1, <2>2, <2>3, Stutter
<1>. QED
  BY <1>1, <1>2, <1>3, <1>4

LEMMA StepRefines == IInv /\ IInv' /\ [Next]_vars => [Abstract!Next]_abstractVars
<1>. SUFFICES ASSUME IInv, IInv', [Next]_vars
              PROVE  Abstract!Next \/ UNCHANGED abstractVars
  OBVIOUS
<1>1. CASE UNCHANGED vars
  BY <1>1, AbstractState DEF vars, abstractVars
<1>2. ASSUME NEW t \in Thread,
             \/ \E m \in Mutex, try \in BOOLEAN : OSFastMutex_Lock(t, m, try)
             \/ OSFastMutex_LockInternal(t)
      PROVE  Abstract!Next \/ UNCHANGED abstractVars
  BY <1>2, LockKinds, AcquireRefines, LockAgainRefines, StutterRefines
<1>3. ASSUME NEW t \in Thread, NEW m \in Mutex,
             OSFastMutex_Unlock(t, m) \/ \E c \in Cond : OSFastCond_Wait(t, c, m)
      PROVE  Abstract!Next
  BY <1>3, UnlockRefines, WaitRefines
<1>4. ASSUME NEW t \in Thread,
             \/ \E c \in Cond : OSFastCond_Signal(t, c)
             \/ EnterQueue(t) \/ WakeOne(t) \/ WaitOnCond(t) \/ Restore(t)
             \/ OSExitThread(t)
      PROVE  Abstract!Next \/ UNCHANGED abstractVars
  BY <1>4, SignalRefines, StutterRefines, WaitOnCondRefines, RestoreRefines
<1>. QED
  BY <1>1, <1>2, <1>3, <1>4 DEF Next

\* OSFastMutex with OSFastCond is a monitor, although OSFastCond_Wait takes
\* only one of the two locks: one owner at a time, and a wait that returns has
\* the mutex as deep as before.
THEOREM FastMutexIsAMonitor == Spec => MonitorSpec
<1>1. Init => Abstract!Init
  <2>. SUFFICES ASSUME Init PROVE Abstract!Init
    OBVIOUS
  <2>1. Depth = [m \in Mutex |-> 0]
    BY DEF Init, Depth
  <2>2. Left = [t \in Thread |-> Abstract!NotLeft]
    BY CallKinds DEF Init, Left, Abstract!NotLeft
  <2>3. WaitSet = [c \in Cond |-> {}]
    BY CallKinds DEF Init, WaitSet
  <2>. QED
    BY <2>1, <2>2, <2>3 DEF Init, Abstract!Init
<1>2. IInv /\ [Next]_vars => [Abstract!Next]_<<owner, Depth, WaitSet, Left>>
  BY NextIInv, StepRefines DEF abstractVars
<1>. QED
  BY <1>1, <1>2, InductiveInvariant, PTL DEF Spec, MonitorSpec, Abstract!Spec
=============================================================================
