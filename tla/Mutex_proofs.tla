---------------------------- MODULE Mutex_proofs ----------------------------
(***************************************************************************)
(* For any number of threads, mutexes and conditions: owners, lock counts  *)
(* and mutex queues agree, no locker is forgotten, a thread that has ended *)
(* owns nothing, and OSMutex with OSCond is a monitor.  Slow is the        *)
(* instance of Mutex in MutexMC; its constants and variables are any.      *)
(***************************************************************************)
EXTENDS MutexMC, TLAPS

IInv ==
    /\ Slow!TypeOK
    /\ Slow!OwnersAndQueuesAgree
    /\ Slow!NoMutexLockerForgotten
    /\ Slow!EndedThreadsOwnNothing

\* Thread t may take m: it calls OSLockMutex now, or was woken.
MayLock(t, m, prev) ==
    \/ mutexCall[t] = Slow!NoCall /\ prev = 0
    \/ Slow!Woken(t) /\ mutexCall[t].mutex = m /\ mutexCall[t].prev = prev

\* The calls are told apart by their operation.
LEMMA CallKinds ==
    /\ Slow!NoCall \in Slow!Call /\ Slow!NoCall.op = "none"
    /\ Slow!Exiting \in Slow!Call /\ Slow!Exiting.op = "exit"
    /\ Slow!Ended \in Slow!Call /\ Slow!Ended.op = "ended"
    /\ \A m \in SlowMutex, p \in 0..SlowCount :
           /\ Slow!Locking(m, p) \in Slow!Call /\ Slow!Locking(m, p).op = "lock"
           /\ Slow!Locking(m, p).mutex = m /\ Slow!Locking(m, p).prev = p
    /\ \A k \in Slow!Call : k.op = "lock" =>
           /\ k.mutex \in SlowMutex /\ k.prev \in 0..SlowCount
           /\ k = Slow!Locking(k.mutex, k.prev)
<1>1. /\ Slow!NoCall \in Slow!Call /\ Slow!NoCall.op = "none"
      /\ Slow!Exiting \in Slow!Call /\ Slow!Exiting.op = "exit"
      /\ Slow!Ended \in Slow!Call /\ Slow!Ended.op = "ended"
  BY DEF Slow!Call, Slow!NoCall, Slow!Exiting, Slow!Ended
<1>2. ASSUME NEW m \in SlowMutex, NEW p \in 0..SlowCount
      PROVE  /\ Slow!Locking(m, p) \in Slow!Call /\ Slow!Locking(m, p).op = "lock"
             /\ Slow!Locking(m, p).mutex = m /\ Slow!Locking(m, p).prev = p
  BY DEF Slow!Call, Slow!Locking
<1>3. ASSUME NEW k \in Slow!Call, k.op = "lock"
      PROVE  /\ k.mutex \in SlowMutex /\ k.prev \in 0..SlowCount
             /\ k = Slow!Locking(k.mutex, k.prev)
  <2>1. PICK m \in SlowMutex, p \in 0..SlowCount : k = Slow!Locking(m, p)
    BY <1>1, <1>3 DEF Slow!Call
  <2>. QED
    BY <1>2, <2>1
<1>. QED
  BY <1>1, <1>2, <1>3

\* NoMutexLockerForgotten holds after a step if somebody is on his way to each free
\* mutex then, or was before and still is.
LEMMA StillWoken ==
    ASSUME Slow!NoMutexLockerForgotten,
           \A m \in SlowMutex : mutexOwner'[m] = NoThread /\ threadQueue'[m] # {} =>
               \/ \E t \in SlowThread : Slow!Woken(t)' /\ mutexCall'[t].mutex = m
               \/ /\ mutexOwner[m] = NoThread /\ threadQueue[m] # {}
                  /\ \A t \in SlowThread : Slow!Woken(t) /\ mutexCall[t].mutex = m =>
                         Slow!Woken(t)' /\ mutexCall'[t].mutex = m
    PROVE  Slow!NoMutexLockerForgotten'
<1>. SUFFICES ASSUME NEW m \in SlowMutex, mutexOwner'[m] = NoThread, threadQueue'[m] # {}
              PROVE  \E t \in SlowThread : Slow!Woken(t)' /\ mutexCall'[t].mutex = m
  BY DEF Slow!NoMutexLockerForgotten
<1>1. CASE mutexOwner[m] = NoThread /\ threadQueue[m] # {}
  <2>1. PICK t \in SlowThread : Slow!Woken(t) /\ mutexCall[t].mutex = m
    BY <1>1 DEF Slow!NoMutexLockerForgotten
  <2>. QED
    BY <2>1
<1>2. CASE ~(mutexOwner[m] = NoThread /\ threadQueue[m] # {})
  BY <1>2
<1>. QED
  BY <1>1, <1>2

LEMMA AcquireStep ==
    ASSUME IInv, NEW t \in SlowThread, NEW m \in SlowMutex, NEW prev \in 0..SlowCount,
           MayLock(t, m, prev), Slow!Acquire(t, m, prev)
    PROVE  IInv'
<1>1. /\ Slow!TypeOK /\ Slow!OwnersAndQueuesAgree
      /\ Slow!NoMutexLockerForgotten /\ Slow!EndedThreadsOwnNothing
  BY DEF IInv
<1>2. /\ mutexOwner[m] = NoThread
      /\ \A n \in SlowMutex : mutexOwner'[n] = IF n = m THEN t ELSE mutexOwner[n]
      /\ \A n \in SlowMutex : mutexLockCount'[n] =
             IF n = m THEN (IF prev = 0 THEN 1 ELSE prev) ELSE mutexLockCount[n]
      /\ \A u \in SlowThread, n \in SlowMutex : n \in mutexQueue'[u] <=>
             n \in mutexQueue[u] \/ (u = t /\ n = m)
      /\ \A u \in SlowThread : mutexCall'[u] = IF u = t THEN Slow!NoCall ELSE mutexCall[u]
      /\ threadQueue' = threadQueue /\ mutexCondQueue' = mutexCondQueue
  BY <1>1 DEF Slow!TypeOK, Slow!Acquire
<1>3. /\ \A n \in SlowMutex : t \notin threadQueue[n]
      /\ \A c \in SlowCond : t \notin mutexCondQueue[c]
  <2>1. CASE mutexCall[t] = Slow!NoCall
    BY <1>1, <2>1, CallKinds DEF Slow!TypeOK
  <2>2. CASE Slow!Woken(t)
    BY <1>1, <2>2 DEF Slow!TypeOK, Slow!Woken
  <2>. QED
    BY <2>1, <2>2 DEF MayLock
<1>4. Slow!TypeOK'
  <2>1. /\ mutexOwner' \in [SlowMutex -> SlowThread \cup {NoThread}]
        /\ mutexLockCount' \in [SlowMutex -> 0..SlowCount]
    BY <1>1, SlowAssumption DEF Slow!TypeOK, Slow!Acquire
  <2>2. /\ mutexQueue' \in [SlowThread -> SUBSET SlowMutex]
        /\ mutexCall' \in [SlowThread -> Slow!Call]
    BY <1>1, CallKinds DEF Slow!TypeOK, Slow!Acquire
  <2>3. /\ \A n \in SlowMutex, u \in SlowThread : u \in threadQueue'[n] =>
               mutexCall'[u].op = "lock" /\ mutexCall'[u].mutex = n
        /\ \A c \in SlowCond, u \in SlowThread : u \in mutexCondQueue'[c] =>
               mutexCall'[u].op = "lock" /\ mutexCall'[u].prev > 0
    BY <1>1, <1>2, <1>3 DEF Slow!TypeOK
  <2>. QED
    BY <1>1, <1>2, <2>1, <2>2, <2>3 DEF Slow!TypeOK
<1>5. Slow!OwnersAndQueuesAgree'
  <2>. SUFFICES ASSUME NEW n \in SlowMutex
                PROVE  /\ mutexOwner'[n] = NoThread <=> mutexLockCount'[n] = 0
                       /\ \A u \in SlowThread : n \in mutexQueue'[u] <=> mutexOwner'[n] = u
    BY DEF Slow!OwnersAndQueuesAgree
  <2>1. /\ mutexOwner[n] = NoThread <=> mutexLockCount[n] = 0
        /\ \A u \in SlowThread : n \in mutexQueue[u] <=> mutexOwner[n] = u
    BY <1>1 DEF Slow!OwnersAndQueuesAgree
  <2>2. CASE n = m
    BY <1>2, <2>1, <2>2, SlowAssumption
  <2>3. CASE n # m
    BY <1>2, <2>1, <2>3
  <2>. QED
    BY <2>2, <2>3
<1>6. Slow!NoMutexLockerForgotten'
  <2>1. \A n \in SlowMutex : mutexOwner'[n] = NoThread => n # m /\ mutexOwner[n] = NoThread
    BY <1>2, SlowAssumption
  <2>2. ASSUME NEW n \in SlowMutex, NEW u \in SlowThread, Slow!Woken(u),
               mutexCall[u].mutex = n,
               mutexOwner'[n] = NoThread
        PROVE  Slow!Woken(u)' /\ mutexCall'[u].mutex = n
    <3>1. u # t
      BY <2>1, <2>2, CallKinds DEF MayLock, Slow!Woken
    <3>. QED
      BY <1>2, <2>2, <3>1 DEF Slow!Woken
  <2>3. ASSUME NEW n \in SlowMutex, mutexOwner'[n] = NoThread, threadQueue'[n] # {}
        PROVE  mutexOwner[n] = NoThread /\ threadQueue[n] # {}
    BY <1>2, <2>1, <2>3
  <2>. QED
    BY <1>1, <2>2, <2>3, StillWoken
<1>7. Slow!EndedThreadsOwnNothing'
  <2>1. Slow!NoCall # Slow!Ended
    BY CallKinds
  <2>. QED
    BY <1>1, <1>2, <2>1 DEF Slow!EndedThreadsOwnNothing
<1>. QED
  BY <1>4, <1>5, <1>6, <1>7 DEF IInv

LEMMA LockAgainStep ==
    ASSUME IInv, NEW t \in SlowThread, NEW m \in SlowMutex, Slow!LockAgain(t, m)
    PROVE  IInv'
<1>1. /\ Slow!TypeOK /\ Slow!OwnersAndQueuesAgree
      /\ Slow!NoMutexLockerForgotten /\ Slow!EndedThreadsOwnNothing
  BY DEF IInv
<1>2. /\ mutexOwner[m] = t /\ mutexLockCount[m] < SlowCount
      /\ mutexLockCount' = [mutexLockCount EXCEPT ![m] = @ + 1]
      /\ UNCHANGED <<mutexOwner, threadQueue, mutexCondQueue, mutexQueue, mutexCall>>
  BY DEF Slow!LockAgain
<1>3. Slow!TypeOK'
  BY <1>1, <1>2, SlowAssumption DEF Slow!TypeOK
<1>4. Slow!OwnersAndQueuesAgree'
  <2>1. t # NoThread
    BY SlowAssumption
  <2>. QED
    BY <1>1, <1>2, <2>1 DEF Slow!OwnersAndQueuesAgree, Slow!TypeOK
<1>5. Slow!NoMutexLockerForgotten' /\ Slow!EndedThreadsOwnNothing'
  BY <1>1, <1>2 DEF Slow!NoMutexLockerForgotten, Slow!EndedThreadsOwnNothing, Slow!Woken
<1>. QED
  BY <1>3, <1>4, <1>5 DEF IInv

LEMMA WaitForMutexStep ==
    ASSUME IInv, NEW t \in SlowThread, NEW m \in SlowMutex, NEW prev \in 0..SlowCount,
           MayLock(t, m, prev), Slow!WaitForMutex(t, m, prev)
    PROVE  IInv'
<1>1. /\ Slow!TypeOK /\ Slow!OwnersAndQueuesAgree
      /\ Slow!NoMutexLockerForgotten /\ Slow!EndedThreadsOwnNothing
  BY DEF IInv
<1>2. /\ mutexOwner[m] # NoThread
      /\ \A n \in SlowMutex : threadQueue'[n] =
             IF n = m THEN threadQueue[n] \cup {t} ELSE threadQueue[n]
      /\ \A u \in SlowThread : mutexCall'[u] =
             IF u = t THEN Slow!Locking(m, prev) ELSE mutexCall[u]
      /\ UNCHANGED <<mutexOwner, mutexLockCount, mutexCondQueue, mutexQueue>>
  BY <1>1 DEF Slow!TypeOK, Slow!WaitForMutex
<1>3. /\ \A n \in SlowMutex : t \notin threadQueue[n]
      /\ \A c \in SlowCond : t \notin mutexCondQueue[c]
  <2>1. CASE mutexCall[t] = Slow!NoCall
    BY <1>1, <2>1, CallKinds DEF Slow!TypeOK
  <2>2. CASE Slow!Woken(t)
    BY <1>1, <2>2 DEF Slow!TypeOK, Slow!Woken
  <2>. QED
    BY <2>1, <2>2 DEF MayLock
<1>4. /\ Slow!Locking(m, prev) \in Slow!Call /\ Slow!Locking(m, prev).op = "lock"
      /\ Slow!Locking(m, prev).mutex = m /\ Slow!Locking(m, prev) # Slow!Ended
  BY CallKinds
<1>5. Slow!TypeOK'
  <2>1. /\ threadQueue' \in [SlowMutex -> SUBSET SlowThread]
        /\ mutexCall' \in [SlowThread -> Slow!Call]
    BY <1>1, <1>4 DEF Slow!TypeOK, Slow!WaitForMutex
  <2>2. ASSUME NEW n \in SlowMutex, NEW u \in SlowThread, u \in threadQueue'[n]
        PROVE  mutexCall'[u].op = "lock" /\ mutexCall'[u].mutex = n
    <3>1. CASE u = t
      BY <1>2, <1>3, <1>4, <2>2, <3>1
    <3>2. CASE u # t
      <4>1. u \in threadQueue[n] /\ mutexCall'[u] = mutexCall[u]
        BY <1>2, <2>2, <3>2
      <4>. QED
        BY <1>1, <4>1 DEF Slow!TypeOK
    <3>. QED
      BY <3>1, <3>2
  <2>3. ASSUME NEW c \in SlowCond, NEW u \in SlowThread, u \in mutexCondQueue'[c]
        PROVE  mutexCall'[u].op = "lock" /\ mutexCall'[u].prev > 0
    <3>1. u \in mutexCondQueue[c] /\ u # t
      BY <1>2, <1>3, <2>3
    <3>. QED
      BY <1>1, <1>2, <3>1 DEF Slow!TypeOK
  <2>4. \A n \in SlowMutex, c \in SlowCond : threadQueue'[n] \cap mutexCondQueue'[c] = {}
    <3>1. \A n \in SlowMutex, c \in SlowCond : threadQueue[n] \cap mutexCondQueue[c] = {}
      BY <1>1 DEF Slow!TypeOK
    <3>. QED
      BY <1>2, <1>3, <3>1
  <2>. QED
    BY <1>1, <1>2, <2>1, <2>2, <2>3, <2>4 DEF Slow!TypeOK
<1>6. Slow!OwnersAndQueuesAgree'
  BY <1>1, <1>2 DEF Slow!OwnersAndQueuesAgree
<1>7. Slow!NoMutexLockerForgotten'
  <2>1. ASSUME NEW n \in SlowMutex, mutexOwner'[n] = NoThread
        PROVE  mutexOwner[n] = NoThread /\ threadQueue'[n] \subseteq threadQueue[n]
    BY <1>2, <2>1
  <2>2. ASSUME NEW n \in SlowMutex, NEW u \in SlowThread, Slow!Woken(u),
               mutexCall[u].mutex = n,
               mutexOwner'[n] = NoThread
        PROVE  Slow!Woken(u)' /\ mutexCall'[u].mutex = n
    <3>1. u # t
      BY <1>2, <2>2, CallKinds DEF MayLock, Slow!Woken
    <3>2. n # m
      BY <1>2, <2>2
    <3>. QED
      BY <1>2, <2>2, <3>1, <3>2 DEF Slow!Woken
  <2>3. ASSUME NEW n \in SlowMutex, mutexOwner'[n] = NoThread, threadQueue'[n] # {}
        PROVE  mutexOwner[n] = NoThread /\ threadQueue[n] # {}
    BY <1>2, <2>1, <2>3
  <2>. QED
    BY <1>1, <2>2, <2>3, StillWoken
<1>8. Slow!EndedThreadsOwnNothing'
  BY <1>1, <1>2, <1>4 DEF Slow!EndedThreadsOwnNothing
<1>. QED
  BY <1>5, <1>6, <1>7, <1>8 DEF IInv

\* An unlock by the owner, outside OSWaitCond.
LEMMA UnlockStep ==
    ASSUME IInv, NEW t \in SlowThread, NEW m \in SlowMutex, mutexCall[t] # Slow!Ended,
           Slow!OSUnlockMutexInternal(t, m), UNCHANGED <<mutexCondQueue, mutexCall>>
    PROVE  IInv'
<1>1. /\ Slow!TypeOK /\ Slow!OwnersAndQueuesAgree
      /\ Slow!NoMutexLockerForgotten /\ Slow!EndedThreadsOwnNothing
  BY DEF IInv
<1>2. /\ mutexOwner[m] = t /\ mutexLockCount[m] \in 1..SlowCount
      /\ \A n \in SlowMutex : mutexLockCount'[n] =
             IF n = m THEN mutexLockCount[n] - 1 ELSE mutexLockCount[n]
      /\ mutexCondQueue' = mutexCondQueue /\ mutexCall' = mutexCall
  BY <1>1, SlowAssumption DEF Slow!TypeOK, Slow!OSUnlockMutexInternal
<1>3. /\ mutexLockCount' \in [SlowMutex -> 0..SlowCount]
      /\ mutexOwner' \in [SlowMutex -> SlowThread \cup {NoThread}]
      /\ mutexQueue' \in [SlowThread -> SUBSET SlowMutex]
  BY <1>1, SlowAssumption DEF Slow!TypeOK, Slow!OSUnlockMutexInternal
<1>4. /\ \A n \in SlowMutex : mutexOwner'[n] =
             IF n = m /\ mutexLockCount[m] = 1 THEN NoThread ELSE mutexOwner[n]
      /\ \A u \in SlowThread, n \in SlowMutex : n \in mutexQueue'[u] <=>
             n \in mutexQueue[u] /\ ~(u = t /\ n = m /\ mutexLockCount[m] = 1)
  BY <1>1, <1>2 DEF Slow!TypeOK, Slow!OSUnlockMutexInternal
<1>5. /\ threadQueue' \in [SlowMutex -> SUBSET SlowThread]
      /\ \A n \in SlowMutex : threadQueue'[n] \subseteq threadQueue[n]
      /\ \A n \in SlowMutex \ {m} : threadQueue'[n] = threadQueue[n]
      /\ mutexLockCount[m] = 1 /\ threadQueue[m] # {} =>
             \E u \in threadQueue[m] : u \notin threadQueue'[m]
  <2>1. CASE UNCHANGED threadQueue /\ (mutexLockCount[m] = 1 => threadQueue[m] = {})
    BY <1>1, <2>1 DEF Slow!TypeOK
  <2>2. CASE \E u \in threadQueue[m] : threadQueue' = [threadQueue EXCEPT ![m] = @ \ {u}]
    BY <1>1, <2>2 DEF Slow!TypeOK
  <2>. QED
    BY <2>1, <2>2 DEF Slow!OSUnlockMutexInternal, Slow!WakeSingle
<1>6. Slow!TypeOK'
  BY <1>1, <1>2, <1>3, <1>5 DEF Slow!TypeOK
<1>7. Slow!OwnersAndQueuesAgree'
  <2>. SUFFICES ASSUME NEW n \in SlowMutex
                PROVE  /\ mutexOwner'[n] = NoThread <=> mutexLockCount'[n] = 0
                       /\ \A u \in SlowThread : n \in mutexQueue'[u] <=> mutexOwner'[n] = u
    BY DEF Slow!OwnersAndQueuesAgree
  <2>1. /\ mutexOwner[n] = NoThread <=> mutexLockCount[n] = 0
        /\ \A u \in SlowThread : n \in mutexQueue[u] <=> mutexOwner[n] = u
    BY <1>1 DEF Slow!OwnersAndQueuesAgree
  <2>2. t # NoThread /\ NoThread \notin SlowThread
    BY SlowAssumption
  <2>3. CASE n = m /\ mutexLockCount[m] = 1
    BY <1>2, <1>4, <2>1, <2>2, <2>3
  <2>4. CASE n = m /\ mutexLockCount[m] # 1
    BY <1>2, <1>4, <2>1, <2>2, <2>4
  <2>5. CASE n # m
    BY <1>2, <1>4, <2>1, <2>5
  <2>. QED
    BY <2>3, <2>4, <2>5
<1>8. Slow!NoMutexLockerForgotten'
  <2>1. ASSUME NEW u \in SlowThread, Slow!Woken(u)
        PROVE  Slow!Woken(u)'
    <3>1. mutexCall[u].mutex \in SlowMutex
      BY <1>1, <2>1, CallKinds DEF Slow!TypeOK, Slow!Woken
    <3>. QED
      BY <1>2, <1>5, <2>1, <3>1 DEF Slow!Woken
  <2>2. ASSUME NEW n \in SlowMutex, mutexOwner'[n] = NoThread, threadQueue'[n] # {}
        PROVE  \/ \E u \in SlowThread : Slow!Woken(u)' /\ mutexCall'[u].mutex = n
               \/ mutexOwner[n] = NoThread /\ threadQueue[n] # {}
    <3>1. CASE n = m
      <4>1. mutexLockCount[m] = 1 /\ threadQueue[m] # {}
        BY <1>2, <1>4, <1>5, <2>2, <3>1, SlowAssumption
      <4>2. PICK u \in threadQueue[m] : u \notin threadQueue'[m]
        BY <1>5, <4>1
      <4>3. u \in SlowThread /\ mutexCall[u].op = "lock" /\ mutexCall[u].mutex = m
        BY <1>1, <4>2 DEF Slow!TypeOK
      <4>4. \A c \in SlowCond : u \notin mutexCondQueue[c]
        BY <1>1, <4>2 DEF Slow!TypeOK
      <4>. QED
        BY <1>2, <3>1, <4>2, <4>3, <4>4 DEF Slow!Woken
    <3>2. CASE n # m
      BY <1>4, <1>5, <2>2, <3>2
    <3>. QED
      BY <3>1, <3>2
  <2>. QED
    BY <1>1, <1>2, <2>1, <2>2, StillWoken
<1>9. Slow!EndedThreadsOwnNothing'
  BY <1>1, <1>2, <1>4, SlowAssumption DEF Slow!EndedThreadsOwnNothing
<1>. QED
  BY <1>6, <1>7, <1>8, <1>9 DEF IInv

LEMMA OSWaitCondStep ==
    ASSUME IInv, NEW t \in SlowThread, NEW c \in SlowCond, NEW m \in SlowMutex,
           Slow!OSWaitCond(t, c, m)
    PROVE  IInv'
<1>1. /\ Slow!TypeOK /\ Slow!OwnersAndQueuesAgree
      /\ Slow!NoMutexLockerForgotten /\ Slow!EndedThreadsOwnNothing
  BY DEF IInv
<1>2. /\ mutexCall[t] = Slow!NoCall /\ mutexOwner[m] = t
      /\ \A n \in SlowMutex : mutexOwner'[n] = IF n = m THEN NoThread ELSE mutexOwner[n]
      /\ \A n \in SlowMutex : mutexLockCount'[n] = IF n = m THEN 0 ELSE mutexLockCount[n]
      /\ \A n \in SlowMutex, u \in SlowThread :
             u \in threadQueue'[n] <=> u \in threadQueue[n] /\ n # m
      /\ \A d \in SlowCond, u \in SlowThread :
             u \in mutexCondQueue'[d] <=> u \in mutexCondQueue[d] \/ (u = t /\ d = c)
      /\ threadQueue'[m] = {} /\ \A n \in SlowMutex \ {m} : threadQueue'[n] = threadQueue[n]
      /\ \A u \in SlowThread, n \in SlowMutex : n \in mutexQueue'[u] <=>
             n \in mutexQueue[u] /\ ~(u = t /\ n = m)
      /\ \A u \in SlowThread : mutexCall'[u] =
             IF u = t THEN Slow!Locking(m, mutexLockCount[m]) ELSE mutexCall[u]
  BY <1>1 DEF Slow!TypeOK, Slow!OSWaitCond
<1>3. mutexLockCount[m] \in 1..SlowCount
  <2>1. mutexLockCount[m] # 0
    BY <1>1, <1>2, SlowAssumption DEF Slow!OwnersAndQueuesAgree
  <2>. QED
    BY <1>1, <2>1, SlowAssumption DEF Slow!TypeOK
<1>4. /\ Slow!Locking(m, mutexLockCount[m]) \in Slow!Call
      /\ Slow!Locking(m, mutexLockCount[m]).op = "lock"
      /\ Slow!Locking(m, mutexLockCount[m]).mutex = m
      /\ Slow!Locking(m, mutexLockCount[m]).prev = mutexLockCount[m]
      /\ Slow!Locking(m, mutexLockCount[m]) # Slow!Ended
  BY <1>3, CallKinds, SlowAssumption
<1>5. /\ \A n \in SlowMutex : t \notin threadQueue[n]
      /\ \A d \in SlowCond : t \notin mutexCondQueue[d]
  BY <1>1, <1>2, CallKinds DEF Slow!TypeOK
<1>6. Slow!TypeOK'
  <2>1. /\ mutexOwner' \in [SlowMutex -> SlowThread \cup {NoThread}]
        /\ mutexLockCount' \in [SlowMutex -> 0..SlowCount]
        /\ threadQueue' \in [SlowMutex -> SUBSET SlowThread]
        /\ mutexCondQueue' \in [SlowCond -> SUBSET SlowThread]
        /\ mutexQueue' \in [SlowThread -> SUBSET SlowMutex]
    BY <1>1, SlowAssumption DEF Slow!TypeOK, Slow!OSWaitCond
  <2>2. mutexCall' \in [SlowThread -> Slow!Call]
    BY <1>1, <1>4 DEF Slow!TypeOK, Slow!OSWaitCond
  <2>3. ASSUME NEW n \in SlowMutex, NEW u \in SlowThread, u \in threadQueue'[n]
        PROVE  mutexCall'[u].op = "lock" /\ mutexCall'[u].mutex = n
    <3>1. u \in threadQueue[n] /\ u # t /\ mutexCall'[u] = mutexCall[u]
      BY <1>2, <1>5, <2>3
    <3>. QED
      BY <1>1, <3>1 DEF Slow!TypeOK
  <2>4. ASSUME NEW d \in SlowCond, NEW u \in SlowThread, u \in mutexCondQueue'[d]
        PROVE  mutexCall'[u].op = "lock" /\ mutexCall'[u].prev > 0
    <3>1. CASE u = t
      BY <1>2, <1>3, <1>4, <3>1
    <3>2. CASE u # t
      <4>1. u \in mutexCondQueue[d] /\ mutexCall'[u] = mutexCall[u]
        BY <1>2, <2>4, <3>2
      <4>. QED
        BY <1>1, <4>1 DEF Slow!TypeOK
    <3>. QED
      BY <3>1, <3>2
  <2>5. \A n \in SlowMutex, d \in SlowCond : threadQueue'[n] \cap mutexCondQueue'[d] = {}
    <3>1. \A n \in SlowMutex, d \in SlowCond : threadQueue[n] \cap mutexCondQueue[d] = {}
      BY <1>1 DEF Slow!TypeOK
    <3>2. \A n \in SlowMutex : threadQueue[n] \subseteq SlowThread
      BY <1>1 DEF Slow!TypeOK
    <3>. QED
      BY <1>2, <1>5, <2>1, <3>1, <3>2
  <2>. QED
    BY <2>1, <2>2, <2>3, <2>4, <2>5 DEF Slow!TypeOK
<1>7. Slow!OwnersAndQueuesAgree'
  <2>. SUFFICES ASSUME NEW n \in SlowMutex
                PROVE  /\ mutexOwner'[n] = NoThread <=> mutexLockCount'[n] = 0
                       /\ \A u \in SlowThread : n \in mutexQueue'[u] <=> mutexOwner'[n] = u
    BY DEF Slow!OwnersAndQueuesAgree
  <2>1. /\ mutexOwner[n] = NoThread <=> mutexLockCount[n] = 0
        /\ \A u \in SlowThread : n \in mutexQueue[u] <=> mutexOwner[n] = u
    BY <1>1 DEF Slow!OwnersAndQueuesAgree
  <2>2. CASE n = m
    BY <1>2, <2>1, <2>2, SlowAssumption
  <2>3. CASE n # m
    BY <1>2, <2>1, <2>3
  <2>. QED
    BY <2>2, <2>3
<1>8. Slow!NoMutexLockerForgotten'
  <2>1. ASSUME NEW u \in SlowThread, Slow!Woken(u)
        PROVE  Slow!Woken(u)' /\ mutexCall'[u].mutex = mutexCall[u].mutex
    <3>1. mutexCall[u].mutex \in SlowMutex
      BY <1>1, <2>1, CallKinds DEF Slow!TypeOK, Slow!Woken
    <3>2. u # t
      BY <1>2, <2>1, CallKinds DEF Slow!Woken
    <3>. QED
      BY <1>2, <2>1, <3>1, <3>2 DEF Slow!Woken
  <2>2. ASSUME NEW n \in SlowMutex, mutexOwner'[n] = NoThread, threadQueue'[n] # {}
        PROVE  mutexOwner[n] = NoThread /\ threadQueue[n] # {}
    BY <1>2, <2>2
  <2>. QED
    BY <1>1, <2>1, <2>2, StillWoken
<1>9. Slow!EndedThreadsOwnNothing'
  BY <1>1, <1>2, <1>4, SlowAssumption DEF Slow!EndedThreadsOwnNothing
<1>. QED
  BY <1>6, <1>7, <1>8, <1>9 DEF IInv

LEMMA OSSignalCondStep ==
    ASSUME IInv, NEW t \in SlowThread, NEW c \in SlowCond, Slow!OSSignalCond(t, c)
    PROVE  IInv'
<1>1. /\ Slow!TypeOK /\ Slow!OwnersAndQueuesAgree
      /\ Slow!NoMutexLockerForgotten /\ Slow!EndedThreadsOwnNothing
  BY DEF IInv
<1>2. /\ mutexCondQueue' \in [SlowCond -> SUBSET SlowThread]
      /\ \A d \in SlowCond : mutexCondQueue'[d] \subseteq mutexCondQueue[d]
      /\ UNCHANGED <<mutexOwner, mutexLockCount, threadQueue, mutexQueue, mutexCall>>
  BY <1>1 DEF Slow!TypeOK, Slow!OSSignalCond, Slow!mutexVars
<1>3. Slow!TypeOK'
  BY <1>1, <1>2 DEF Slow!TypeOK
<1>4. Slow!OwnersAndQueuesAgree' /\ Slow!EndedThreadsOwnNothing'
  BY <1>1, <1>2 DEF Slow!OwnersAndQueuesAgree, Slow!EndedThreadsOwnNothing
<1>5. Slow!NoMutexLockerForgotten'
  <2>1. ASSUME NEW u \in SlowThread, Slow!Woken(u)
        PROVE  Slow!Woken(u)'
    BY <1>2, <2>1 DEF Slow!Woken
  <2>. QED
    BY <1>1, <1>2, <2>1, StillWoken
<1>. QED
  BY <1>3, <1>4, <1>5 DEF IInv

\* A step of OSExitThread that only changes the call of the thread.
LEMMA ExitStep ==
    ASSUME IInv, NEW t \in SlowThread, NEW k \in {Slow!Exiting, Slow!Ended},
           mutexCall[t].op # "lock", k = Slow!Ended => mutexQueue[t] = {},
           mutexCall' = [mutexCall EXCEPT ![t] = k],
           UNCHANGED <<mutexOwner, mutexLockCount, threadQueue, mutexCondQueue,
                       mutexQueue>>
    PROVE  IInv'
<1>1. /\ Slow!TypeOK /\ Slow!OwnersAndQueuesAgree
      /\ Slow!NoMutexLockerForgotten /\ Slow!EndedThreadsOwnNothing
  BY DEF IInv
<1>2. /\ k \in Slow!Call /\ k.op # "lock" /\ Slow!Exiting # Slow!Ended
      /\ \A u \in SlowThread : mutexCall'[u] = IF u = t THEN k ELSE mutexCall[u]
  BY <1>1, CallKinds DEF Slow!TypeOK
<1>3. Slow!TypeOK'
  <2>1. mutexCall' \in [SlowThread -> Slow!Call]
    BY <1>1, <1>2 DEF Slow!TypeOK
  <2>2. /\ \A m \in SlowMutex, u \in SlowThread :
               u \in threadQueue[m] => mutexCall'[u].op = "lock" /\ mutexCall'[u].mutex = m
        /\ \A c \in SlowCond, u \in SlowThread :
               u \in mutexCondQueue[c] => mutexCall'[u].op = "lock" /\ mutexCall'[u].prev > 0
    BY <1>1, <1>2 DEF Slow!TypeOK
  <2>. QED
    BY <1>1, <2>1, <2>2 DEF Slow!TypeOK
<1>4. Slow!OwnersAndQueuesAgree'
  BY <1>1 DEF Slow!OwnersAndQueuesAgree
<1>5. Slow!NoMutexLockerForgotten'
  <2>1. ASSUME NEW u \in SlowThread, Slow!Woken(u)
        PROVE  Slow!Woken(u)' /\ mutexCall'[u] = mutexCall[u]
    BY <1>2, <2>1 DEF Slow!Woken
  <2>. QED
    BY <1>1, <2>1, StillWoken
<1>6. Slow!EndedThreadsOwnNothing'
  <2>1. \A m \in SlowMutex : m \in mutexQueue[t] <=> mutexOwner[m] = t
    BY <1>1 DEF Slow!OwnersAndQueuesAgree
  <2>. QED
    BY <1>1, <1>2, <2>1 DEF Slow!EndedThreadsOwnNothing
<1>. QED
  BY <1>3, <1>4, <1>5, <1>6 DEF IInv

LEMMA InitIInv == Slow!Init => IInv
<1>. SUFFICES ASSUME Slow!Init PROVE IInv
  OBVIOUS
<1>1. Slow!TypeOK
  BY CallKinds, SlowAssumption DEF Slow!Init, Slow!TypeOK
<1>2. Slow!OwnersAndQueuesAgree
  BY SlowAssumption DEF Slow!Init, Slow!OwnersAndQueuesAgree
<1>3. Slow!NoMutexLockerForgotten /\ Slow!EndedThreadsOwnNothing
  BY CallKinds, SlowAssumption
     DEF Slow!Init, Slow!NoMutexLockerForgotten, Slow!EndedThreadsOwnNothing
<1>. QED
  BY <1>1, <1>2, <1>3 DEF IInv

\* The steps by what they do.  The branch of OSExitThread for a mutex the
\* thread does not own is never taken.
LEMMA StepKinds ==
    ASSUME IInv, Slow!Next
    PROVE  \/ \E t \in SlowThread, m \in SlowMutex, prev \in 0..SlowCount :
                  /\ MayLock(t, m, prev)
                  /\ Slow!Acquire(t, m, prev) \/ Slow!WaitForMutex(t, m, prev)
           \/ \E t \in SlowThread, m \in SlowMutex :
                  mutexCall[t] = Slow!NoCall /\ Slow!LockAgain(t, m)
           \/ \E t \in SlowThread, m \in SlowMutex :
                  /\ mutexCall[t] # Slow!Ended /\ Slow!OSUnlockMutexInternal(t, m)
                  /\ UNCHANGED <<mutexCondQueue, mutexCall>>
           \/ \E t \in SlowThread, c \in SlowCond, m \in SlowMutex : Slow!OSWaitCond(t, c, m)
           \/ \E t \in SlowThread, c \in SlowCond : Slow!OSSignalCond(t, c)
           \/ \E t \in SlowThread, k \in {Slow!Exiting, Slow!Ended} :
                  /\ mutexCall[t].op # "lock" /\ (k = Slow!Ended => mutexQueue[t] = {})
                  /\ mutexCall' = [mutexCall EXCEPT ![t] = k]
                  /\ UNCHANGED <<mutexOwner, mutexLockCount, threadQueue,
                                 mutexCondQueue, mutexQueue>>
<1>. PICK t \in SlowThread :
        \/ \E m \in SlowMutex :
            \/ \E try \in BOOLEAN : Slow!OSLockMutex(t, m, try)
            \/ Slow!OSUnlockMutex(t, m)
            \/ \E c \in SlowCond : Slow!OSWaitCond(t, c, m)
        \/ \E c \in SlowCond : Slow!OSSignalCond(t, c)
        \/ Slow!OSLockMutexInternal(t)
        \/ Slow!OSExitThread(t) \/ Slow!ReleaseHeld(t) \/ Slow!ExitDone(t)
  BY DEF Slow!Next
<1>1. Slow!TypeOK /\ Slow!OwnersAndQueuesAgree
  BY DEF IInv
<1>2. ASSUME NEW m \in SlowMutex, NEW try \in BOOLEAN, Slow!OSLockMutex(t, m, try)
      PROVE  \/ MayLock(t, m, 0) /\ (Slow!Acquire(t, m, 0) \/ Slow!WaitForMutex(t, m, 0))
             \/ mutexCall[t] = Slow!NoCall /\ Slow!LockAgain(t, m)
  BY <1>2 DEF Slow!OSLockMutex, MayLock
<1>3. ASSUME NEW m \in SlowMutex, Slow!OSUnlockMutex(t, m)
      PROVE  /\ mutexCall[t] # Slow!Ended /\ Slow!OSUnlockMutexInternal(t, m)
             /\ UNCHANGED <<mutexCondQueue, mutexCall>>
  BY <1>3, CallKinds DEF Slow!OSUnlockMutex
<1>4. ASSUME Slow!OSLockMutexInternal(t)
      PROVE  \E m \in SlowMutex, prev \in 0..SlowCount :
                 /\ MayLock(t, m, prev)
                 /\ Slow!Acquire(t, m, prev) \/ Slow!WaitForMutex(t, m, prev)
  <2>. DEFINE m == mutexCall[t].mutex
              prev == mutexCall[t].prev
  <2>1. m \in SlowMutex /\ prev \in 0..SlowCount
    BY <1>1, <1>4, CallKinds DEF Slow!OSLockMutexInternal, Slow!Woken, Slow!TypeOK
  <2>2. MayLock(t, m, prev) /\ (Slow!Acquire(t, m, prev) \/ Slow!WaitForMutex(t, m, prev))
    BY <1>4 DEF Slow!OSLockMutexInternal, MayLock
  <2>. QED
    BY <2>1, <2>2
<1>5. ASSUME Slow!OSExitThread(t)
      PROVE  /\ mutexCall[t].op # "lock" /\ mutexCall' = [mutexCall EXCEPT ![t] = Slow!Exiting]
             /\ UNCHANGED <<mutexOwner, mutexLockCount, threadQueue,
                            mutexCondQueue, mutexQueue>>
  BY <1>5, CallKinds DEF Slow!OSExitThread, Slow!mutexVars
<1>6. ASSUME Slow!ReleaseHeld(t)
      PROVE  \E m \in SlowMutex :
                 /\ mutexCall[t] # Slow!Ended /\ Slow!OSUnlockMutexInternal(t, m)
                 /\ UNCHANGED <<mutexCondQueue, mutexCall>>
  <2>1. PICK m \in mutexQueue[t] :
            \/ Slow!OSUnlockMutexInternal(t, m)
            \/ mutexOwner[m] # t
    BY <1>6 DEF Slow!ReleaseHeld
  <2>2. m \in SlowMutex /\ mutexOwner[m] = t
    BY <1>1 DEF Slow!TypeOK, Slow!OwnersAndQueuesAgree
  <2>. QED
    BY <1>6, <2>1, <2>2, CallKinds DEF Slow!ReleaseHeld
<1>7. ASSUME Slow!ExitDone(t)
      PROVE  /\ mutexCall[t].op # "lock" /\ mutexQueue[t] = {}
             /\ mutexCall' = [mutexCall EXCEPT ![t] = Slow!Ended]
             /\ UNCHANGED <<mutexOwner, mutexLockCount, threadQueue,
                            mutexCondQueue, mutexQueue>>
  BY <1>7, CallKinds DEF Slow!ExitDone, Slow!mutexVars
<1>8. 0 \in 0..SlowCount /\ Slow!Exiting # Slow!Ended
  BY SlowAssumption, CallKinds
<1>. QED
  BY <1>2, <1>3, <1>4, <1>5, <1>6, <1>7, <1>8

LEMMA NextIInv == IInv /\ [Slow!Next]_(Slow!vars) => IInv'
<1>. SUFFICES ASSUME IInv, [Slow!Next]_(Slow!vars) PROVE IInv'
  OBVIOUS
<1>1. CASE UNCHANGED Slow!vars
  BY <1>1 DEF IInv, Slow!vars, Slow!TypeOK, Slow!OwnersAndQueuesAgree, Slow!NoMutexLockerForgotten,
              Slow!EndedThreadsOwnNothing, Slow!Woken
<1>2. CASE Slow!Next
  <2>1. ASSUME NEW t \in SlowThread, NEW m \in SlowMutex, NEW prev \in 0..SlowCount,
               MayLock(t, m, prev), Slow!Acquire(t, m, prev) \/ Slow!WaitForMutex(t, m, prev)
        PROVE  IInv'
    BY <2>1, AcquireStep, WaitForMutexStep
  <2>2. ASSUME NEW t \in SlowThread, NEW m \in SlowMutex, Slow!LockAgain(t, m)
        PROVE  IInv'
    BY <2>2, LockAgainStep
  <2>3. ASSUME NEW t \in SlowThread, NEW m \in SlowMutex, mutexCall[t] # Slow!Ended,
               Slow!OSUnlockMutexInternal(t, m), UNCHANGED <<mutexCondQueue, mutexCall>>
        PROVE  IInv'
    BY <2>3, UnlockStep
  <2>4. ASSUME NEW t \in SlowThread, NEW c \in SlowCond, NEW m \in SlowMutex,
               Slow!OSWaitCond(t, c, m)
        PROVE  IInv'
    BY <2>4, OSWaitCondStep
  <2>5. ASSUME NEW t \in SlowThread, NEW c \in SlowCond, Slow!OSSignalCond(t, c)
        PROVE  IInv'
    BY <2>5, OSSignalCondStep
  <2>6. ASSUME NEW t \in SlowThread, NEW k \in {Slow!Exiting, Slow!Ended},
             mutexCall[t].op # "lock",
               k = Slow!Ended => mutexQueue[t] = {}, mutexCall' = [mutexCall EXCEPT ![t] = k],
               UNCHANGED <<mutexOwner, mutexLockCount, threadQueue, mutexCondQueue,
                           mutexQueue>>
        PROVE  IInv'
    BY <2>6, ExitStep
  <2>. QED
    BY <1>2, <2>1, <2>2, <2>3, <2>4, <2>5, <2>6, StepKinds
<1>. QED
  BY <1>1, <1>2

THEOREM InductiveInvariant == Slow!Spec => []IInv
  BY InitIInv, NextIInv, PTL DEF Slow!Spec

\* The wait queues of mutexes and conditions hold only threads that wait for
\* them.
THEOREM TypeCorrect == Slow!Spec => []Slow!TypeOK
<1>1. IInv => Slow!TypeOK
  BY DEF IInv
<1>. QED
  BY <1>1, InductiveInvariant, PTL

\* The asserts on lockCount never fail, and OSExitThread finds every mutex of
\* the thread in its mutex queue.
THEOREM MutexQueuesAreExact == Slow!Spec => []OwnersAndQueuesAgree
<1>1. IInv => OwnersAndQueuesAgree
  BY DEF IInv, OwnersAndQueuesAgree
<1>. QED
  BY <1>1, InductiveInvariant, PTL

\* One wakeup for each unlock is enough: no thread sleeps beside a free mutex
\* that nobody is on his way to lock.
THEOREM LockersAreRemembered == Slow!Spec => []NoMutexLockerForgotten
<1>1. IInv => NoMutexLockerForgotten
  BY DEF IInv, NoMutexLockerForgotten
<1>. QED
  BY <1>1, InductiveInvariant, PTL

\* No mutex stays locked by a thread that has ended.
THEOREM EndedThreadsHoldNothing == Slow!Spec => []Slow!EndedThreadsOwnNothing
<1>1. IInv => Slow!EndedThreadsOwnNothing
  BY DEF IInv
<1>. QED
  BY <1>1, InductiveInvariant, PTL
-----------------------------------------------------------------------------
(* The refinement.                                                         *)

LEMMA LeftByCall ==
    /\ Slow!LeftBy(Slow!NoCall) = Slow!Abstract!NotLeft
    /\ Slow!LeftBy(Slow!Exiting) = Slow!Abstract!NotLeft
    /\ Slow!LeftBy(Slow!Ended) = Slow!Abstract!NotLeft
    /\ \A m \in SlowMutex : Slow!LeftBy(Slow!Locking(m, 0)) = Slow!Abstract!NotLeft
    /\ \A m \in SlowMutex, p \in 1..SlowCount :
           Slow!LeftBy(Slow!Locking(m, p)) = [mutex |-> m, depth |-> p]
<1>1. 0 \in 0..SlowCount /\ 1..SlowCount \subseteq 0..SlowCount
  BY SlowAssumption
<1>2. /\ Slow!LeftBy(Slow!NoCall) = Slow!Abstract!NotLeft
      /\ Slow!LeftBy(Slow!Exiting) = Slow!Abstract!NotLeft
      /\ Slow!LeftBy(Slow!Ended) = Slow!Abstract!NotLeft
  BY CallKinds DEF Slow!LeftBy, Slow!Abstract!NotLeft
<1>3. ASSUME NEW m \in SlowMutex
      PROVE  Slow!LeftBy(Slow!Locking(m, 0)) = Slow!Abstract!NotLeft
  BY <1>1, CallKinds DEF Slow!LeftBy, Slow!Abstract!NotLeft
<1>4. ASSUME NEW m \in SlowMutex, NEW p \in 1..SlowCount
      PROVE  Slow!LeftBy(Slow!Locking(m, p)) = [mutex |-> m, depth |-> p]
  <2>1. /\ Slow!Locking(m, p).op = "lock" /\ Slow!Locking(m, p).mutex = m
        /\ Slow!Locking(m, p).prev = p /\ p > 0
    BY <1>1, CallKinds, SlowAssumption
  <2>. QED
    BY <2>1 DEF Slow!LeftBy
<1>. QED
  BY <1>2, <1>3, <1>4

\* Seen through Left, every step is a step of the monitor or none.
LEMMA StepRefines ==
    IInv /\ [Slow!Next]_(Slow!vars) =>
        [Slow!Abstract!Next]_<<mutexOwner, mutexLockCount, mutexCondQueue, Slow!Left>>
<1>. SUFFICES ASSUME IInv, [Slow!Next]_(Slow!vars)
              PROVE  [Slow!Abstract!Next]_<<mutexOwner, mutexLockCount, mutexCondQueue, Slow!Left>>
  OBVIOUS
<1>1. Slow!TypeOK /\ Slow!OwnersAndQueuesAgree
  BY DEF IInv
<1>2. /\ Slow!Left = [t \in SlowThread |-> Slow!LeftBy(mutexCall[t])]
      /\ Slow!Left' = [t \in SlowThread |-> Slow!LeftBy(mutexCall'[t])]
  BY DEF Slow!Left
<1>3. ASSUME NEW t \in SlowThread, NEW m \in SlowMutex, NEW prev \in 0..SlowCount,
             MayLock(t, m, prev), Slow!Acquire(t, m, prev)
      PROVE  Slow!Abstract!Next
  <2>1. /\ mutexOwner[m] = NoThread /\ mutexLockCount[m] = 0
        /\ mutexOwner' = [mutexOwner EXCEPT ![m] = t]
        /\ mutexLockCount' = [mutexLockCount EXCEPT ![m] = IF prev = 0 THEN 1 ELSE prev]
        /\ mutexCall' = [mutexCall EXCEPT ![t] = Slow!NoCall]
        /\ mutexCondQueue' = mutexCondQueue
    BY <1>1, <1>3 DEF Slow!Acquire, Slow!OwnersAndQueuesAgree
  <2>2. Slow!Left' = [Slow!Left EXCEPT ![t] = Slow!Abstract!NotLeft]
    BY <1>1, <1>2, <2>1, LeftByCall DEF Slow!TypeOK
  <2>3. CASE prev = 0
    <3>1. Slow!Left[t] = Slow!Abstract!NotLeft
      <4>1. mutexCall[t] = Slow!NoCall \/ mutexCall[t] = Slow!Locking(m, 0)
        BY <1>1, <1>3, <2>3, CallKinds DEF MayLock, Slow!Woken, Slow!TypeOK
      <4>. QED
        BY <1>2, <4>1, LeftByCall
    <3>2. Slow!Left' = Slow!Left
      BY <1>2, <2>2, <3>1
    <3>3. mutexLockCount' = [mutexLockCount EXCEPT ![m] = mutexLockCount[m] + 1]
      BY <2>1, <2>3
    <3>4. Slow!Abstract!Acquire(t, m)
      BY <2>1, <3>1, <3>2, <3>3 DEF Slow!Abstract!Acquire
    <3>. QED
      BY <3>4 DEF Slow!Abstract!Next
  <2>4. CASE prev # 0
    <3>1. prev \in 1..SlowCount
      BY <2>4, SlowAssumption
    <3>2. mutexCall[t] = Slow!Locking(m, prev) /\ Slow!Woken(t)
      BY <1>1, <1>3, <2>4, CallKinds DEF MayLock, Slow!Woken, Slow!TypeOK
    <3>3. Slow!Left[t] = [mutex |-> m, depth |-> prev] /\ Slow!Left[t] # Slow!Abstract!NotLeft
      <4>1. Slow!Left[t] = [mutex |-> m, depth |-> prev]
        BY <1>2, <3>1, <3>2, LeftByCall
      <4>2. Slow!Left[t].depth # 0
        BY <2>4, <4>1
      <4>3. Slow!Abstract!NotLeft.depth = 0
        BY DEF Slow!Abstract!NotLeft
      <4>. QED
        BY <4>1, <4>2, <4>3
    <3>4. Slow!Left[t].mutex = m /\ Slow!Left[t].depth = prev
      BY <3>3
    <3>5. \A c \in SlowCond : t \notin mutexCondQueue[c]
      BY <3>2 DEF Slow!Woken
    <3>6. mutexLockCount' = [mutexLockCount EXCEPT ![m] = prev]
      BY <2>1, <2>4
    <3>7. Slow!Abstract!Return(t)
      BY <2>1, <2>2, <3>3, <3>4, <3>5, <3>6 DEF Slow!Abstract!Return
    <3>. QED
      BY <3>7 DEF Slow!Abstract!Next
  <2>. QED
    BY <2>3, <2>4
<1>4. ASSUME NEW t \in SlowThread, NEW m \in SlowMutex, NEW prev \in 0..SlowCount,
             MayLock(t, m, prev), Slow!WaitForMutex(t, m, prev)
      PROVE  UNCHANGED <<mutexOwner, mutexLockCount, mutexCondQueue, Slow!Left>>
  <2>1. /\ mutexCall' = [mutexCall EXCEPT ![t] = Slow!Locking(m, prev)]
        /\ UNCHANGED <<mutexOwner, mutexLockCount, mutexCondQueue>>
    BY <1>4 DEF Slow!WaitForMutex
  <2>2. Slow!LeftBy(Slow!Locking(m, prev)) = Slow!LeftBy(mutexCall[t])
    <3>1. CASE mutexCall[t] = Slow!NoCall /\ prev = 0
      BY <3>1, LeftByCall
    <3>2. CASE Slow!Woken(t) /\ mutexCall[t].mutex = m /\ mutexCall[t].prev = prev
      <4>1. mutexCall[t] = Slow!Locking(m, prev)
        BY <1>1, <3>2, CallKinds DEF Slow!Woken, Slow!TypeOK
      <4>. QED
        BY <4>1
    <3>. QED
      BY <1>4, <3>1, <3>2 DEF MayLock
  <2>3. Slow!Left' = Slow!Left
    BY <1>1, <1>2, <2>1, <2>2 DEF Slow!TypeOK
  <2>. QED
    BY <2>1, <2>3
<1>5. ASSUME NEW t \in SlowThread, NEW m \in SlowMutex, mutexCall[t] = Slow!NoCall,
             Slow!LockAgain(t, m)
      PROVE  Slow!Abstract!Next
  <2>1. /\ mutexOwner[m] = t /\ mutexLockCount' = [mutexLockCount EXCEPT ![m] = @ + 1]
        /\ UNCHANGED <<mutexOwner, mutexCondQueue, mutexCall>>
    BY <1>5 DEF Slow!LockAgain
  <2>2. Slow!Left[t] = Slow!Abstract!NotLeft /\ Slow!Left' = Slow!Left
    BY <1>2, <1>5, <2>1, LeftByCall
  <2>3. mutexOwner' = [mutexOwner EXCEPT ![m] = t]
    BY <1>1, <2>1 DEF Slow!TypeOK
  <2>4. Slow!Abstract!Acquire(t, m)
    BY <2>1, <2>2, <2>3 DEF Slow!Abstract!Acquire
  <2>. QED
    BY <2>4 DEF Slow!Abstract!Next
<1>6. ASSUME NEW t \in SlowThread, NEW m \in SlowMutex, Slow!OSUnlockMutexInternal(t, m),
             UNCHANGED <<mutexCondQueue, mutexCall>>
      PROVE  Slow!Abstract!Next
  <2>1. /\ mutexOwner[m] = t /\ mutexLockCount' = [mutexLockCount EXCEPT ![m] = @ - 1]
        /\ Slow!Left' = Slow!Left
    BY <1>2, <1>6 DEF Slow!OSUnlockMutexInternal
  <2>2. mutexOwner' = [mutexOwner EXCEPT ![m] = IF mutexLockCount[m] = 1 THEN NoThread ELSE t]
    BY <1>1, <1>6, <2>1 DEF Slow!TypeOK, Slow!OSUnlockMutexInternal
  <2>3. Slow!Abstract!Release(t, m)
    BY <1>6, <2>1, <2>2 DEF Slow!Abstract!Release
  <2>. QED
    BY <2>3 DEF Slow!Abstract!Next
<1>7. ASSUME NEW t \in SlowThread, NEW c \in SlowCond, NEW m \in SlowMutex,
               Slow!OSWaitCond(t, c, m)
      PROVE  Slow!Abstract!Next
  <2>1. /\ mutexOwner[m] = t
        /\ mutexOwner' = [mutexOwner EXCEPT ![m] = NoThread]
        /\ mutexLockCount' = [mutexLockCount EXCEPT ![m] = 0]
        /\ mutexCondQueue' = [mutexCondQueue EXCEPT ![c] = @ \cup {t}]
        /\ mutexCall' = [mutexCall EXCEPT ![t] = Slow!Locking(m, mutexLockCount[m])]
    BY <1>7 DEF Slow!OSWaitCond
  <2>2. mutexLockCount[m] \in 1..SlowCount
    BY <1>1, <2>1, SlowAssumption DEF Slow!TypeOK, Slow!OwnersAndQueuesAgree
  <2>3. Slow!LeftBy(Slow!Locking(m, mutexLockCount[m])) =
            [mutex |-> m, depth |-> mutexLockCount[m]]
    BY <2>2, LeftByCall
  <2>4. Slow!Left' = [Slow!Left EXCEPT ![t] = [mutex |-> m, depth |-> mutexLockCount[m]]]
    BY <1>1, <1>2, <2>1, <2>3 DEF Slow!TypeOK
  <2>5. Slow!Abstract!Wait(t, c, m)
    BY <2>1, <2>4 DEF Slow!Abstract!Wait
  <2>. QED
    BY <2>5 DEF Slow!Abstract!Next
<1>8. ASSUME NEW t \in SlowThread, NEW c \in SlowCond, Slow!OSSignalCond(t, c)
      PROVE  Slow!Abstract!Next
  <2>1. Slow!Left' = Slow!Left /\ Slow!Abstract!Signal(c)
    BY <1>2, <1>8 DEF Slow!OSSignalCond, Slow!mutexVars, Slow!Abstract!Signal
  <2>. QED
    BY <2>1 DEF Slow!Abstract!Next
<1>9. ASSUME NEW t \in SlowThread, NEW k \in {Slow!Exiting, Slow!Ended},
             mutexCall[t].op # "lock",
             mutexCall' = [mutexCall EXCEPT ![t] = k],
             UNCHANGED <<mutexOwner, mutexLockCount, mutexCondQueue>>
      PROVE  UNCHANGED <<mutexOwner, mutexLockCount, mutexCondQueue, Slow!Left>>
  <2>1. Slow!LeftBy(k) = Slow!LeftBy(mutexCall[t])
    BY <1>9, LeftByCall DEF Slow!LeftBy, Slow!Abstract!NotLeft
  <2>2. Slow!Left' = Slow!Left
    BY <1>1, <1>2, <1>9, <2>1 DEF Slow!TypeOK
  <2>. QED
    BY <1>9, <2>2
<1>10. CASE UNCHANGED Slow!vars
  BY <1>2, <1>10 DEF Slow!vars
<1>11. CASE Slow!Next
  BY <1>3, <1>4, <1>5, <1>6, <1>7, <1>8, <1>9, <1>11, StepKinds
<1>. QED
  BY <1>10, <1>11

\* OSMutex with OSCond is a monitor: a wait gives the mutex up and returns
\* with it locked as often as before, after the signal.
THEOREM MutexIsAMonitor == Slow!Spec => MutexMonitorSpec
<1>1. Slow!Init => Slow!Abstract!Init
  <2>. SUFFICES ASSUME Slow!Init PROVE Slow!Abstract!Init
    OBVIOUS
  <2>1. Slow!Left = [t \in SlowThread |-> Slow!Abstract!NotLeft]
    BY LeftByCall DEF Slow!Init, Slow!Left
  <2>. QED
    BY <2>1 DEF Slow!Init, Slow!Abstract!Init
<1>. QED
  BY <1>1, StepRefines, InductiveInvariant, PTL
     DEF Slow!Spec, MutexMonitorSpec, Slow!MutexMonitorSpec, Slow!Abstract!Spec
=============================================================================
