------------------------------ MODULE Scheduler ------------------------------
(***************************************************************************)
(* The guest thread scheduler of coreinit (coreinit_Thread.cpp and         *)
(* coreinit_ThreadQueue.cpp) in multicore mode.  Every PPC core is one     *)
(* host thread that runs guest threads as fibers; all scheduling state is  *)
(* guarded by one global lock, the scheduler lock.                         *)
(*                                                                         *)
(* Grain of atomicity: a function that runs under the scheduler lock is    *)
(* one action.  `held' says which core holds the lock and what it does     *)
(* next before it lets go of it, so a call that wakes a queue or switches  *)
(* threads is a chain of actions nothing else can interrupt.               *)
(***************************************************************************)
EXTENDS ThreadQueues, FiniteSets

CONSTANTS
    Thread,         \* the OSThread_t structures of the guest
    MainThread,     \* the default thread of the main core, run by the loader
    Core,           \* the PPC cores
    MainCore,       \* the core whose idle loop serves system events (core 1)
    WaitQueue,      \* the OSThreadQueues of the guest
    Priority,       \* effective priorities, lower is more urgent
    DefaultPriority,
    Mask,           \* affinity masks the guest uses
    MaxSuspend,     \* bound on suspendCounter
    Joinable,       \* threads the guest joins
    Detachable,     \* threads the guest creates detached or detaches
    Cancellable,    \* threads the guest cancels
    NoThread

JoinQueue(t) == <<"joinQueue", t>>
SleepQueue(t) == <<"sleepQueue", t>>   \* on the stack of OSSleepTicks
Queue == WaitQueue \cup {JoinQueue(t) : t \in Thread}
                   \cup {SleepQueue(t) : t \in Thread}

ASSUME SchedulerAssumption ==
    /\ MainThread \in Thread /\ NoThread \notin Thread
    /\ MainCore \in Core
    /\ Priority \subseteq Nat /\ DefaultPriority \in Priority
    /\ Mask \subseteq SUBSET Core /\ {} \notin Mask
    /\ MaxSuspend \in Nat \ {0}
    /\ Joinable \subseteq Thread /\ Detachable \subseteq Thread
    /\ Cancellable \subseteq Thread
    /\ \A q \in WaitQueue, t \in Thread :
           q # JoinQueue(t) /\ q # SleepQueue(t)

VARIABLES
    state,      \* OSThread_t::state
    suspend,    \* OSThread_t::suspendCounter
    affinity,   \* context.affinity, {} in a structure nobody created
    priority,   \* effectivePriority
    detached,   \* ATTR_DETACHED
    cancel,     \* requestFlags = REQUEST_FLAG_CANCEL
    active,     \* g_activeThreadQueue and activeThread[]
    runQueue,   \* g_coreRunQueue; membership stands for currentRunQueue[]
    count,      \* g_coreRunQueueThreadCount
    current,    \* __currentCoreThread
    waitQueue,  \* the threads linked by waitQueueLink
    joining,    \* the thread whose OSJoinThread frame is on the fiber's stack
    idle,       \* where the idle fiber of a core is
    held        \* the scheduler lock

threadVars == <<state, suspend, affinity, priority, detached, cancel, active>>
queueVars  == <<runQueue, count, waitQueue>>
vars == <<state, suspend, affinity, priority, detached, cancel, active,
          runQueue, count, current, waitQueue, joining, idle, held>>

ThreadState == {"NONE", "READY", "RUNNING", "WAITING", "MORIBUND"}
IdleState == {"off", "events", "check", "pick", "wait"}

\* What the holder of the scheduler lock does next.
Free == [op |-> "free"]
ToSwitch(c) == [op |-> "switch", core |-> c]
ToPick(c) == [op |-> "pick", core |-> c]
ToReap(c) == [op |-> "reap", core |-> c]
\* In the loop of wakeupEntireWaitQueue: `should' is shouldReschedule, `then'
\* what follows the loop.  The idle fiber has no current PPC instance.
ToWake(c, q, resched, should, then) ==
    [op |-> "wake", core |-> c, queue |-> q, reschedule |-> resched,
     should |-> should, then |-> then]

Held == {Free} \cup [op : {"switch", "pick", "reap"}, core : Core]
               \cup [op : {"wake"}, core : Core, queue : Queue,
                     reschedule : BOOLEAN, should : BOOLEAN,
                     then : {"return", "exit"}]

Holding(c, op) == held.op = op /\ held.core = c
-----------------------------------------------------------------------------
(* Helpers called with the scheduler lock held. *)

\* Mutant: the suspend counter is not looked at.
NewCoresOfSuspended(t, st, su, af) ==
    IF st[t] = "READY"
    THEN {c \in af[t] : \A i \in 1..Len(runQueue[c]) : runQueue[c][i] # t}
    ELSE {}

\* __OSAddReadyThreadToRunQueue, for the thread states st, suspend counters
\* su and affinities af the caller has just set: the cores that get the thread.
NewCores(t, st, su, af) ==
    IF st[t] = "READY" /\ su[t] = 0
    THEN {c \in af[t] : \A i \in 1..Len(runQueue[c]) : runQueue[c][i] # t}
    ELSE {}

AddReadyThread(t, st, su, af) ==
    LET new == NewCores(t, st, su, af) IN
    /\ runQueue' = [c \in Core |-> IF c \in new THEN AddThread(runQueue[c], t)
                                   ELSE runQueue[c]]
    /\ count' = [c \in Core |-> IF c \in new THEN count[c] + 1 ELSE count[c]]

OnQueue(t, c) == \E i \in 1..Len(runQueue[c]) : runQueue[c][i] = t

\* __OSRemoveThreadFromRunQueues
RemoveFromRunQueues(t) ==
    /\ runQueue' = [c \in Core |-> RemoveThread(runQueue[c], t)]
    /\ count' = [c \in Core |-> IF OnQueue(t, c) THEN count[c] - 1 ELSE count[c]]

\* __OSCoreShouldSwitchToThread, called by the thread that runs on core c.
ShouldSwitch(c, t, pr, workaround) ==
    /\ c \in affinity[t]
    /\ \/ pr[t] < pr[current[c]]
       \/ /\ workaround
          /\ affinity[t] = {c} /\ affinity[current[c]] = {c}
          /\ pr[t] = pr[current[c]]

\* Mutant: the thread stays RUNNING in the queue.
QueueAndWaitStillRunning(c, q) ==
    /\ waitQueue' = [waitQueue EXCEPT
                        ![q] = AddThreadByPriority(@, current[c], priority)]
    /\ held' = ToSwitch(c)
    /\ UNCHANGED state

\* queueAndWait up to the switch.
QueueAndWait(c, q) ==
    /\ waitQueue' = [waitQueue EXCEPT
                        ![q] = AddThreadByPriority(@, current[c], priority)]
    /\ state' = [state EXCEPT ![current[c]] = "WAITING"]
    /\ held' = ToSwitch(c)

\* Switch in this same lock region or return to the guest.
SwitchIf(should, c) == held' = IF should THEN ToSwitch(c) ELSE Free

\* Where an idle fiber goes when it has found nothing to run.
Rest(c) == IF c = MainCore THEN "events" ELSE "wait"
-----------------------------------------------------------------------------
Init ==
    /\ state = [t \in Thread |-> IF t = MainThread THEN "READY" ELSE "NONE"]
    /\ suspend = [t \in Thread |-> 0]
    /\ affinity = [t \in Thread |-> IF t = MainThread THEN {MainCore} ELSE {}]
    /\ priority = [t \in Thread |-> DefaultPriority]
    /\ detached = [t \in Thread |-> FALSE]
    /\ cancel = [t \in Thread |-> FALSE]
    /\ active = {MainThread}
    /\ runQueue = [c \in Core |-> IF c = MainCore THEN <<MainThread>> ELSE <<>>]
    /\ count = [c \in Core |-> IF c = MainCore THEN 1 ELSE 0]
    /\ current = [c \in Core |-> NoThread]
    /\ waitQueue = [q \in Queue |-> <<>>]
    /\ joining = [t \in Thread |-> NoThread]
    /\ idle = [c \in Core |-> "check"]
    /\ held = Free

\* Core c runs guest code, which calls into coreinit.
Calls(c) == held = Free /\ current[c] # NoThread

NoJoiner(t) == waitQueue[JoinQueue(t)] = <<>> /\ \A u \in Thread : joining[u] # t
-----------------------------------------------------------------------------
(* Thread creation and termination. *)

\* OSCreateThread on a structure that is not active (the code asserts it once
\* its workaround has waited for and detached an old thread); nobody joins it.
\* Without an entry point the thread is only initialised.
OSCreateThread(c, t, entry, mask, prio, detach) ==
    /\ Calls(c) /\ t \notin active /\ NoJoiner(t)
    /\ detach => t \in Detachable
    /\ state' = [state EXCEPT ![t] = IF entry THEN "READY" ELSE "NONE"]
    /\ suspend' = [suspend EXCEPT ![t] = IF entry THEN 1 ELSE 0]
    /\ affinity' = [affinity EXCEPT ![t] = mask]
    /\ priority' = [priority EXCEPT ![t] = prio]
    /\ detached' = [detached EXCEPT ![t] = detach]
    /\ cancel' = [cancel EXCEPT ![t] = FALSE]
    /\ active' = IF entry THEN active \cup {t} ELSE active
    /\ UNCHANGED <<queueVars, current, joining, idle, held>>

\* OSRunThread starts a created thread that does not run, or runs a finished
\* one again; the guest does not do that while somebody is about to join it.
\* The request flags survive.
OSRunThread(c, t) ==
    /\ Calls(c) /\ state[t] \in {"NONE", "MORIBUND"} /\ affinity[t] # {}
    /\ state[t] = "MORIBUND" => NoJoiner(t)
    /\ state' = [state EXCEPT ![t] = "READY"]
    /\ suspend' = [suspend EXCEPT ![t] = 0]
    /\ active' = active \cup {t}
    /\ AddReadyThread(t, state', suspend', affinity)
    /\ UNCHANGED <<affinity, priority, detached, cancel, waitQueue, current,
                   joining, idle, held>>

\* OSExitThread first wakes the joiners, see ExitDone.
OSExitThread(c) ==
    /\ Calls(c)
    /\ held' = ToWake(c, JoinQueue(current[c]), FALSE, FALSE, "exit")
    /\ UNCHANGED <<threadVars, queueVars, current, joining, idle>>

\* Mutant: a thread that ends is lost whether it is detached or not.
ExitDoneDetaches(c) ==
    LET t == current[c] IN
    /\ Holding(c, "wake") /\ held.then = "exit" /\ waitQueue[held.queue] = <<>>
    /\ state' = [state EXCEPT ![t] = "NONE"]
    /\ active' = active \ {t}
    /\ held' = ToSwitch(c)
    /\ UNCHANGED <<suspend, affinity, priority, detached, cancel, queueVars,
                   current, joining, idle>>

\* A detached thread goes away, any other waits to be joined or detached.
ExitDone(c) ==
    LET t == current[c] IN
    /\ Holding(c, "wake") /\ held.then = "exit" /\ waitQueue[held.queue] = <<>>
    /\ state' = [state EXCEPT ![t] = IF detached[t] THEN "NONE" ELSE "MORIBUND"]
    /\ active' = IF detached[t] THEN active \ {t} ELSE active
    /\ held' = ToSwitch(c)
    /\ UNCHANGED <<suspend, affinity, priority, detached, cancel, queueVars,
                   current, joining, idle>>

OSDetachThread(c, t) ==
    /\ Calls(c) /\ t \in Detachable /\ affinity[t] # {}
    /\ detached' = [detached EXCEPT ![t] = TRUE]
    /\ IF state[t] = "MORIBUND"
       THEN /\ state' = [state EXCEPT ![t] = "NONE"]
            /\ active' = active \ {t}
            /\ held' = ToWake(c, JoinQueue(t), TRUE, FALSE, "return")
       ELSE UNCHANGED <<state, active, held>>
    /\ UNCHANGED <<suspend, affinity, priority, cancel, queueVars, current,
                   joining, idle>>

\* OSJoinThread by the thread on core c: reap a finished thread, wait for an
\* attached one, refuse a detached one.  One thread joins (the code asserts it).
OSJoinThread(c, t) ==
    /\ Calls(c) /\ t \in Joinable /\ affinity[t] # {} /\ NoJoiner(t)
    /\ joining' = [joining EXCEPT ![current[c]] = t]
    /\ \/ /\ state[t] = "MORIBUND"
          /\ held' = ToReap(c)
          /\ UNCHANGED <<state, waitQueue>>
       \/ /\ state[t] # "MORIBUND" /\ ~detached[t]
          /\ QueueAndWait(c, JoinQueue(t))
    /\ UNCHANGED <<suspend, affinity, priority, detached, cancel, active,
                   runQueue, count, current, idle>>

\* The rest of OSJoinThread, in the lock region in which the joiner got the
\* core back; what it asserts of the joined thread is JoinedThreadIsMoribund.
Reap(c) ==
    LET t == joining[current[c]] IN
    /\ Holding(c, "reap")
    /\ state' = [state EXCEPT ![t] = "NONE"]
    /\ active' = active \ {t}
    /\ RemoveFromRunQueues(t)
    /\ joining' = [joining EXCEPT ![current[c]] = NoThread]
    /\ held' = Free
    /\ UNCHANGED <<suspend, affinity, priority, detached, cancel, waitQueue,
                   current, idle>>
-----------------------------------------------------------------------------
(* Suspension, priority, affinity, cancellation. *)

\* OSResumeThread (n = 1) and OSContinueThread (n = the counter).
OSResumeThread(c, t, n) ==
    /\ Calls(c) /\ suspend[t] > 0 /\ n \in {1, suspend[t]}
    /\ suspend' = [suspend EXCEPT ![t] = @ - n]
    /\ IF suspend[t] = n
       THEN /\ AddReadyThread(t, state, suspend', affinity)
            /\ SwitchIf(ShouldSwitch(c, t, priority, FALSE), c)
       ELSE UNCHANGED <<runQueue, count, held>>
    /\ UNCHANGED <<state, affinity, priority, detached, cancel, active,
                   waitQueue, current, joining, idle>>

\* A thread that runs on another core keeps that core for its timeslice.
OSSuspendThread(c, t) ==
    /\ Calls(c) /\ state[t] \notin {"NONE", "MORIBUND"}
    /\ suspend[t] < MaxSuspend
    /\ suspend' = [suspend EXCEPT ![t] = @ + 1]
    /\ IF t = current[c]
       THEN held' = ToSwitch(c) /\ UNCHANGED <<runQueue, count>>
       ELSE /\ IF suspend[t] = 0 THEN RemoveFromRunQueues(t)
                                 ELSE UNCHANGED <<runQueue, count>>
            /\ UNCHANGED held
    /\ UNCHANGED <<state, affinity, priority, detached, cancel, active,
                   waitQueue, current, joining, idle>>

OSSetThreadPriority(c, t, prio) ==
    /\ Calls(c) /\ affinity[t] # {}
    /\ priority' = [priority EXCEPT ![t] = prio]
    /\ SwitchIf(t # current[c] /\ ShouldSwitch(c, t, priority', FALSE), c)
    /\ UNCHANGED <<state, suspend, affinity, detached, cancel, active,
                   queueVars, current, joining, idle>>

\* Mutant: a READY thread is queued on its new cores though it is suspended.
OSSetThreadAffinityResumes(c, t, mask) ==
    LET to == IF state[t] = "READY" THEN mask ELSE {} IN
    /\ Calls(c) /\ affinity[t] \notin {{}, mask}
    /\ affinity' = [affinity EXCEPT ![t] = mask]
    /\ runQueue' = [d \in Core |->
           LET q == RemoveThread(runQueue[d], t)
           IN  IF d \in to THEN AddThread(q, t) ELSE q]
    /\ count' = [d \in Core |->
           LET n == IF OnQueue(t, d) THEN count[d] - 1 ELSE count[d]
           IN  IF d \in to THEN n + 1 ELSE n]
    /\ UNCHANGED <<state, suspend, priority, detached, cancel, active,
                   waitQueue, current, joining, idle, held>>

\* A thread in the run queues goes to the tail of the queues of its new mask.
OSSetThreadAffinity(c, t, mask) ==
    LET to == IF state[t] = "READY" /\ suspend[t] = 0 THEN mask ELSE {} IN
    /\ Calls(c) /\ affinity[t] \notin {{}, mask}
    /\ affinity' = [affinity EXCEPT ![t] = mask]
    /\ IF state[t] \in {"RUNNING", "NONE"}
       THEN UNCHANGED <<runQueue, count>>
       ELSE /\ runQueue' = [d \in Core |->
                  LET q == RemoveThread(runQueue[d], t)
                  IN  IF d \in to THEN AddThread(q, t) ELSE q]
            /\ count' = [d \in Core |->
                  LET n == IF OnQueue(t, d) THEN count[d] - 1 ELSE count[d]
                  IN  IF d \in to THEN n + 1 ELSE n]
    /\ UNCHANGED <<state, suspend, priority, detached, cancel, active,
                   waitQueue, current, joining, idle, held>>

\* A thread that cancels itself exits at once.
OSCancelThread(c, t) ==
    /\ Calls(c) /\ t \in Cancellable
    /\ cancel' = [cancel EXCEPT ![t] = TRUE]
    /\ held' = IF t = current[c]
               THEN ToWake(c, JoinQueue(t), FALSE, FALSE, "exit") ELSE Free
    /\ UNCHANGED <<state, suspend, affinity, priority, detached, active,
                   queueVars, current, joining, idle>>

OSTestThreadCancel(c) == Calls(c) /\ cancel[current[c]] /\ OSExitThread(c)
-----------------------------------------------------------------------------
(* Waiting and waking. *)

\* Also the end of a timeslice.
OSYieldThread(c) ==
    /\ Calls(c)
    /\ held' = ToSwitch(c)
    /\ UNCHANGED <<threadVars, queueVars, current, joining, idle>>

OSSleepThread(c, q) ==
    /\ Calls(c)
    /\ QueueAndWait(c, q)
    /\ UNCHANGED <<suspend, affinity, priority, detached, cancel, active,
                   runQueue, count, current, joining, idle>>

\* The host alarm that ends the sleep is AlarmWake.
OSSleepTicks(c) == Calls(c) /\ OSSleepThread(c, SleepQueue(current[c]))

OSWakeupThread(c, q) ==
    /\ Calls(c)
    /\ held' = ToWake(c, q, TRUE, FALSE, "return")
    /\ UNCHANGED <<threadVars, queueVars, current, joining, idle>>

\* Mutant: the woken thread stays linked.
WakeThreadLinked(q, t) ==
    /\ state' = [state EXCEPT ![t] = "READY"]
    /\ AddReadyThread(t, state', suspend, affinity)
    /\ UNCHANGED waitQueue

\* What wakeupEntireWaitQueue, wakeupSingleThreadWaitQueue and cancelWait do to
\* the thread t of queue q.
WakeThread(q, t) ==
    /\ waitQueue' = [waitQueue EXCEPT ![q] = RemoveThread(@, t)]
    /\ state' = [state EXCEPT ![t] = "READY"]
    /\ AddReadyThread(t, state', suspend, affinity)

\* wakeupSingleThreadWaitQueue(true, workaround), for the primitives that hand
\* something to one waiter (mutexes, message queues, auto events).
WakeupSingle(c, q, workaround) ==
    LET t == Head(waitQueue[q]) IN
    /\ Calls(c) /\ waitQueue[q] # <<>>
    /\ WakeThread(q, t)
    /\ SwitchIf(suspend[t] = 0 /\ ShouldSwitch(c, t, priority, workaround), c)
    /\ UNCHANGED <<suspend, affinity, priority, detached, cancel, active,
                   current, joining, idle>>

\* One turn of the loop of wakeupEntireWaitQueue.
WakeNext(c) ==
    LET q == held.queue
        t == Head(waitQueue[q])
    IN
    /\ Holding(c, "wake") /\ waitQueue[q] # <<>>
    /\ WakeThread(q, t)
    /\ held' = [held EXCEPT !.should =
                  @ \/ /\ held.reschedule /\ suspend[t] = 0
                       /\ current[c] # NoThread
                       /\ ShouldSwitch(c, t, priority, FALSE)]
    /\ UNCHANGED <<suspend, affinity, priority, detached, cancel, active,
                   current, joining, idle>>

WakeReturn(c) ==
    /\ Holding(c, "wake") /\ held.then = "return"
    /\ waitQueue[held.queue] = <<>>
    /\ SwitchIf(held.should, c)
    /\ UNCHANGED <<threadVars, queueVars, current, joining, idle>>
-----------------------------------------------------------------------------
(* Switching, __OSThreadSwitchToNext, and the idle fibers. *)

\* __OSStoreThread, after which the main core always goes through its idle
\* fiber and the other cores look for the next thread under the same lock.
StoreThread(c) ==
    LET t == current[c] IN
    /\ Holding(c, "switch")
    /\ IF state[t] = "RUNNING"
       THEN /\ state' = [state EXCEPT ![t] = "READY"]
            /\ AddReadyThread(t, state', suspend, affinity)
       ELSE UNCHANGED <<state, runQueue, count>>
    /\ current' = [current EXCEPT ![c] = NoThread]
    /\ IF c = MainCore
       THEN held' = Free /\ idle' = [idle EXCEPT ![c] = "events"]
       ELSE held' = ToPick(c) /\ UNCHANGED idle
    /\ UNCHANGED <<suspend, affinity, priority, detached, cancel, active,
                   waitQueue, joining>>

\* Mutant: the thread leaves only the run queue of the core that picked it.
PickThreadFromOneQueue(c) ==
    LET t == MostUrgent(runQueue[c], priority) IN
    /\ Holding(c, "pick") /\ runQueue[c] # <<>>
    /\ runQueue' = [runQueue EXCEPT ![c] = RemoveThread(@, t)]
    /\ count' = [count EXCEPT ![c] = @ - 1]
    /\ state' = [state EXCEPT ![t] = "RUNNING"]
    /\ current' = [current EXCEPT ![c] = t]
    /\ idle' = [idle EXCEPT ![c] = "off"]
    /\ held' = IF joining[t] # NoThread THEN ToReap(c) ELSE Free
    /\ UNCHANGED <<suspend, affinity, priority, detached, cancel, active,
                   waitQueue, joining>>

\* __OSGetNextRunableThread and __OSLoadThread.  A thread that waited inside
\* OSJoinThread goes on with it before the lock is released.
PickThread(c) ==
    LET t == MostUrgent(runQueue[c], priority) IN
    /\ Holding(c, "pick") /\ runQueue[c] # <<>>
    /\ RemoveFromRunQueues(t)
    /\ state' = [state EXCEPT ![t] = "RUNNING"]
    /\ current' = [current EXCEPT ![c] = t]
    /\ idle' = [idle EXCEPT ![c] = "off"]
    /\ held' = IF joining[t] # NoThread THEN ToReap(c) ELSE Free
    /\ UNCHANGED <<suspend, affinity, priority, detached, cancel, active,
                   waitQueue, joining>>

PickNothing(c) ==
    /\ Holding(c, "pick") /\ runQueue[c] = <<>>
    /\ idle' = [idle EXCEPT ![c] = Rest(c)]
    /\ held' = Free
    /\ UNCHANGED <<threadVars, queueVars, current, joining>>

\* The idle fiber reads the count of its queue without the lock.
IdleCheck(c) ==
    /\ idle[c] = "check"
    /\ idle' = [idle EXCEPT ![c] = IF count[c] = 0 THEN Rest(c) ELSE "pick"]
    /\ UNCHANGED <<threadVars, queueVars, current, joining, held>>

IdleLock(c) ==
    /\ idle[c] = "pick" /\ held = Free
    /\ held' = ToPick(c)
    /\ UNCHANGED <<threadVars, queueVars, current, joining, idle>>

\* waitUntilNonZero
IdleWake(c) ==
    /\ idle[c] = "wait" /\ count[c] # 0
    /\ idle' = [idle EXCEPT ![c] = "check"]
    /\ UNCHANGED <<threadVars, queueVars, current, joining, held>>

\* __OSCheckSystemEvents of the main core: a host alarm ends an OSSleepTicks,
\* or a timed wait (_OSWaitEventWithTimeoutHandler); then the loop goes on.
AlarmWake(t) ==
    /\ idle[MainCore] = "events" /\ held = Free
    /\ waitQueue[SleepQueue(t)] # <<>>
    /\ held' = ToWake(MainCore, SleepQueue(t), FALSE, FALSE, "return")
    /\ UNCHANGED <<threadVars, queueVars, current, joining, idle>>

CancelWait(t, q) ==
    /\ idle[MainCore] = "events" /\ held = Free
    /\ \E i \in 1..Len(waitQueue[q]) : waitQueue[q][i] = t
    /\ WakeThread(q, t)
    /\ UNCHANGED <<suspend, affinity, priority, detached, cancel, active,
                   current, joining, idle, held>>

EventsDone ==
    /\ idle[MainCore] = "events"
    /\ held # Free => held.core # MainCore
    /\ idle' = [idle EXCEPT ![MainCore] = "check"]
    /\ UNCHANGED <<threadVars, queueVars, current, joining, held>>
-----------------------------------------------------------------------------
GuestCall(c) ==
    \/ \E t \in Thread :
        \/ \E entry, detach \in BOOLEAN, mask \in Mask, prio \in Priority :
               OSCreateThread(c, t, entry, mask, prio, detach)
        \/ OSRunThread(c, t)
        \/ OSDetachThread(c, t)
        \/ OSJoinThread(c, t)
        \/ \E n \in 1..MaxSuspend : OSResumeThread(c, t, n)
        \/ OSSuspendThread(c, t)
        \/ \E prio \in Priority : OSSetThreadPriority(c, t, prio)
        \/ \E mask \in Mask : OSSetThreadAffinity(c, t, mask)
        \/ OSCancelThread(c, t)
    \/ OSExitThread(c)
    \/ OSTestThreadCancel(c)
    \/ OSYieldThread(c)
    \/ OSSleepTicks(c)
    \/ \E q \in WaitQueue :
        \/ OSSleepThread(c, q)
        \/ OSWakeupThread(c, q)
        \/ \E workaround \in BOOLEAN : WakeupSingle(c, q, workaround)

\* What a core does with the scheduler lock held.
UnderLock(c) ==
    \/ WakeNext(c) \/ WakeReturn(c) \/ ExitDone(c) \/ Reap(c)
    \/ StoreThread(c) \/ PickThread(c) \/ PickNothing(c)

IdleStep(c) == IdleCheck(c) \/ IdleLock(c) \/ IdleWake(c)

SystemEvents ==
    \/ \E t \in Thread : AlarmWake(t) \/ \E q \in WaitQueue : CancelWait(t, q)
    \/ EventsDone

Next ==
    \/ \E c \in Core : GuestCall(c) \/ UnderLock(c) \/ IdleStep(c)
    \/ SystemEvents

Spec == Init /\ [][Next]_vars

\* Cores make progress, timeslices end, and no core is starved of the lock.
Fairness ==
    /\ \A c \in Core :
        /\ WF_vars(UnderLock(c))
        /\ WF_vars(IdleCheck(c)) /\ WF_vars(IdleWake(c))
        /\ SF_vars(IdleLock(c))
        /\ SF_vars(OSYieldThread(c))
    /\ SF_vars(EventsDone)

FairSpec == Spec /\ Fairness
-----------------------------------------------------------------------------
\* The run queue counts never go below zero, suspendCounter stays within its
\* bound, and every other variable keeps its type.
TypeOK ==
    /\ state \in [Thread -> ThreadState]
    /\ suspend \in [Thread -> 0..MaxSuspend]
    /\ affinity \in [Thread -> SUBSET Core]
    /\ priority \in [Thread -> Priority]
    /\ detached \in [Thread -> BOOLEAN]
    /\ cancel \in [Thread -> BOOLEAN]
    /\ active \in SUBSET Thread
    /\ runQueue \in [Core -> Seq(Thread)]
    /\ count \in [Core -> Nat]
    /\ current \in [Core -> Thread \cup {NoThread}]
    /\ waitQueue \in [Queue -> Seq(Thread)]
    /\ joining \in [Thread -> Thread \cup {NoThread}]
    /\ idle \in [Core -> IdleState]
    /\ held \in Held

Runnable(t) == state[t] = "READY" /\ suspend[t] = 0

\* The run queue of a core holds, once each, exactly the runnable threads whose
\* affinity has the core, and its semaphore counts them.  A missing entry is a
\* thread that never runs, a stale one a thread that runs twice or after its
\* end, a wrong count an idle core asleep beside a runnable thread.
RunQueuesExact ==
    \A c \in Core :
        /\ \A t \in Thread : OnQueue(t, c) <=> Runnable(t) /\ c \in affinity[t]
        /\ NoRepeat(runQueue[c])
        /\ count[c] = Len(runQueue[c])

\* A RUNNING thread is on one core, no thread is on two, and a core runs only
\* a RUNNING thread unless it is about to switch away from it.
RunningOnOneCore ==
    /\ \A t \in Thread : state[t] = "RUNNING" => \E c \in Core : current[c] = t
    /\ \A c, d \in Core : current[c] = current[d] /\ current[c] # NoThread => c = d
    /\ \A c \in Core : current[c] # NoThread =>
           state[current[c]] = "RUNNING" \/ Holding(c, "switch")

\* waitQueueLink serves all wait queues: a WAITING thread is in one queue, at
\* one place, and no other thread is in any.
WaitingInOneQueue ==
    /\ \A q \in Queue : \A i \in 1..Len(waitQueue[q]) :
        LET t == waitQueue[q][i] IN
        /\ state[t] = "WAITING"
        /\ \A r \in Queue : \A j \in 1..Len(waitQueue[r]) :
               waitQueue[r][j] = t => r = q /\ j = i
    /\ \A t \in Thread : state[t] = "WAITING" =>
           \E q \in Queue : \E i \in 1..Len(waitQueue[q]) : waitQueue[q][i] = t

\* The asserts of OSJoinThread behind its wait: the joined thread has ended, is
\* still attached and nobody else has taken it away in the meantime.
JoinedThreadIsMoribund ==
    \A c \in Core : Holding(c, "reap") =>
        LET t == joining[current[c]]
        IN  t \in active /\ state[t] = "MORIBUND" /\ ~detached[t]

\* A suspended thread is not given a core, however it became ready.
SuspendedNotDispatched ==
    [][\A t \in Thread : state[t] # "RUNNING" /\ state'[t] = "RUNNING"
                         => suspend[t] = 0]_vars

\* A runnable thread of the highest priority gets a core in the end, whatever
\* the others of that priority do.
UrgentThreadsRun ==
    \A t \in Thread :
        (Runnable(t) /\ \A p \in Priority : priority[t] <= p)
            ~> (state[t] = "RUNNING" \/ ~Runnable(t) \/ \E p \in Priority : p < priority[t])
=============================================================================
