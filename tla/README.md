# Verification of the coreinit scheduler, its primitives, ProcUI and IPC

Melomuffin is a port of the Cemu Wii U emulator. Its own core logic, as opposed
to data conversion around host APIs, is the high level emulation of the guest
operating system: guest threads that the emulator schedules on three PPC cores,
the primitives those threads wait on, and the services (IPC, IOSU, ProcUI)
built from them. This directory models that core in TLA+, checks it with TLC on
small instances and proves the safety properties of the scheduler, the
primitives, ProcUI and IPC with TLAPS.

Paths below are relative to `src/src/Cafe/`; `coreinit_X` stands for
`OS/libs/coreinit/coreinit_X.cpp`.

1. [The system](#1-the-system)
2. [The modules](#2-the-modules)
3. [The runs](#3-the-runs)
4. [The proofs](#4-the-proofs)
5. [What the code does otherwise than it says](#5-what-the-code-does-otherwise-than-it-says)
6. [Assumptions about the guest](#6-assumptions-about-the-guest)
7. [What is not modelled](#7-what-is-not-modelled)
8. [Plan](#8-plan)

## 1. The system

### Actors

* **PPC cores.** Three host threads, one per emulated core (multicore mode).
  Each runs guest threads as fibers, one at a time, and an *idle fiber* when
  there is none. Core 1, the main core, also serves *system events* (host
  alarms, interrupts) from its idle fiber and goes through it on every switch.
* **Guest threads.** `OSThread_t` structures in guest memory, multiplexed on
  the cores; guest code calls into coreinit on the core it runs on.
* **Host threads** outside the cores: the IOSU services, the timer thread, the
  renderer. They reach guest threads only through replies and alarms.

### Locks

* the **scheduler lock** (`coreinit_Scheduler`): one global recursive lock for
  all thread states, run queues and wait queues. A thread that blocks gives up
  its core *with* the lock, which is released by whoever runs next;
* the **fast mutex spinlock** (`coreinit_Synchronization:470-480`): owner and
  count of all fast mutexes. Its holder may wait for the scheduler lock;
* guest spinlocks (`coreinit_Spinlock`) and the host mutexes of IOSU.

### Components

| component | state it keeps | operations | what is hard | what makes it correct |
|---|---|---|---|---|
| Thread scheduler, `coreinit_Thread` | state, suspend counter, priority, affinity, attributes of every thread; one run queue and one counting semaphore per core; current thread per core | create, run, exit, join, detach, suspend, resume, set priority / affinity, cancel, yield, sleep; thread switch; idle fiber | a thread is in the run queue of *every* core of its affinity; idle fibers read the counts without the lock; a woken joiner runs long after it was woken; suspension of waiting or running threads | run queues hold exactly the runnable threads and are counted right; one core per thread; one wait queue per waiting thread; an ended thread is reaped once; the most urgent thread runs |
| Thread queues, `coreinit_ThreadQueue` | head, tail; next, prev in each thread | add, add by priority, take first, remove, queue and wait, wake one, wake all, cancel | four insertion cases; priorities change while threads are queued; one link serves all wait queues | the links are a sequence |
| Message queues, `coreinit_MessageQueue` | ring of messages, two wait queues | init, send, send in front, receive, peek | woken threads may be overtaken; wrap of a full ring in both directions | bounded deque; no sleeper is forgotten |
| Mutexes and conditions, `coreinit_Synchronization:214-374` | owner, depth, wait queue; list of mutexes per thread | lock, try, unlock, wait, signal, release at exit | unlock frees before it wakes; exit releases one by one; wait restores depth | a monitor; no locker is forgotten; the dead own nothing |
| Fast mutexes and conditions, `:444-621` | the same, without the list | the same | two locks; condition wait takes only one of them | the same, see section 5 |
| Events, `:7-173` | signaled, mode, wait queue; a host alarm per timed wait | init, reset, wait, timed wait, signal, signal all | alarm against signal; signal of a set event is dropped | a gate; each wait has one outcome |
| Rendezvous, `:175-212` | cores that arrived; one automatic event for *all* rendezvous | init, wait | a wakeup meant for one rendezvous is used up by another | nobody sleeps when all have arrived |
| Semaphores, `:374-442` | count, wait queue | init, wait, try, signal | all waiters wake for one unit | nobody sleeps beside units |
| Alarms, `coreinit_Alarm` | set of host alarms by time, map of guest alarms, alarm thread and its event | set, set periodic, cancel, update (from the main core's idle fiber), alarm thread | the alarm thread has a clock of its own and may be ahead of or behind the host alarm; it takes an alarm under the lock and calls it outside; `begin()` of an emptied set; wrap of 64 bit times | an alarm clock: taken when due and set, once per period; called once for each take |
| Spinlocks, `coreinit_Spinlock` | owner, count; boosted priority | acquire, try, timed, release, uninterruptible variants | owner changes before the boost and the deboost | boosted exactly while it owns one |
| MPQueue, `coreinit_MPQueue` | task states, queue indices, granularity | enqueue, dequeue, run, wait | tasks finish on several cores | each task runs once |
| ProcUI, `OS/libs/proc_ui` | core threads, command, four events, three rendezvous, foreground flag, background thread, callbacks and their alarms | init, process messages, draw done, sub threads, callbacks, shutdown | three threads cycle through three rendezvous that core 0 re-initialises; event reset after the command was submitted; a background thread that may not have been started | every core runs every command once; no rendezvous is re-initialised under a waiter; background alarms end with the background |
| System messages, `coreinit_Misc`, `coreinit_FG` | two transition flags, system message queue | request, poll, receive hook | flags tested and cleared without a lock | one message per request |
| coreinit IPC, `coreinit_IPC` | per core driver: buffers, their requests and events, one response area, IPC thread and its message queue | open, close, ioctl, ioctlv, synchronous and asynchronous; handle response | buffers pushed by host threads without a lock; re-entrant answers; buffer free before its callback | a buffer is in one place; each request is answered once, to its client, in order |
| IOSU kernel, `IOSU/kernel` | message queues with condition variables, timers, resource managers, handles, command pool | send, receive, create, destroy; open, close, dispatch, reply | destroy does not wake blocked threads; timer fires after unlock; slot race; handles used after close | bounded queues; a handle leads to its client and to no other |
| FS client and FSA | command queue and client state | submit, finish, cancel | state machine across threads | one outcome per command |
| Guest heaps, `coreinit_MEM*` | block lists, bitmaps | alloc, free, resize | sequential | blocks disjoint |
| Others | loader, CPU and GPU emulation, other libraries, titles, shell, iOS application, vendored code | | data conversion and host I/O | not planned |

`PROJECT.json` lists every component with its status and, under `hazards`, what
is hard to test in this code, line by line, with the properties that cover it.

### How they interact

Everything blocks through one function: `queueAndWait` (`coreinit_ThreadQueue`)
puts the caller into a wait queue, sets it `WAITING` and switches with the
scheduler lock held; `wakeupSingle`, `wakeupEntire` and `cancelWait` take
threads out, set them `READY` and put them into run queues. A woken thread runs
some time later, without any hand-over, so all primitives re-test their
condition in a loop. The primitives call nothing of each other except:
`OSExitThread` unlocks the mutexes of the thread; rendezvous use an event; a
timed event wait creates a host alarm whose handler runs on the main core;
ProcUI uses events, rendezvous, mutex, alarms and the system message queue;
alarms of the guest use an event; the IPC driver uses a host mutex, events and a
message queue per core, and hands its requests to a service on a host thread,
which answers through the driver.

## 2. The modules

```
ThreadQueues --- Scheduler --- SchedulerMC    Scheduler_proofs
MessageQueue --implements--> BoundedDeque     MessageQueue_proofs
Mutex        --implements--> Monitor          Mutex_proofs    \ MutexMC
FastMutex    --implements--> Monitor          FastMutex_proofs /
  (both over Locks)
Event        --implements--> Gate             \
ThreadLinks  --implements--> ThreadLists       | PrimitivesMC
Alarm        --implements--> AlarmClock        | Primitives_proofs
Semaphore                  (Alarm over Gate)  /
Rendezvous                                    Rendezvous_proofs
ProcUI       --implements--> Broadcast        ProcUI_proofs
  over Rendezvous              (over Rendezvous_proofs)
Ipc --- IpcMC                                 Ipc_proofs
```

**ThreadQueues** holds the pure queue operations on sequences (`AddThread`,
`AddThreadByPriority`, `RemoveThread`, `MostUrgent`). **ThreadLinks** has the
same queues as the code has them, `head`, `tail`, `next`, `prev` in one link per
thread, one action per function, with the four cases of the insertion by
priority; it is shown to implement **ThreadLists**, the abstract queues that
Scheduler uses.

**Scheduler** is the detailed model. Correspondence:

| variable | code |
|---|---|
| `state`, `suspend`, `affinity`, `priority`, `detached`, `cancel` | fields of `OSThread_t`; `affinity = {}` is a structure nobody created |
| `active` | `g_activeThreadQueue` and `activeThread[]` |
| `runQueue`, `count` | `g_coreRunQueue`, `g_coreRunQueueThreadCount` |
| `current` | `__currentCoreThread` |
| `waitQueue` | the `OSThreadQueue`s of the guest, the join queue of each thread, the stack queue of `OSSleepTicks` |
| `joining` | the frame of `OSJoinThread` on the fiber of a waiting joiner |
| `idle` | where the idle fiber of a core is: serving events, about to read the count, about to lock, asleep on the count |
| `held` | who has the scheduler lock and what it does next before it releases it |

Every exported call is an action of the core it is made on. A function that runs
under the lock is one action, except where the code itself loops or switches
inside: waking a whole queue (`WakeNext`, one thread a turn, then `WakeReturn`),
exit (`OSExitThread`, wake the joiners, `ExitDone`), switch (`StoreThread`,
`PickThread`/`PickNothing`), join (`OSJoinThread`, wait, `Reap` in the lock
region in which the joiner got its core back). No other core acts under the lock
in between, but the idle fibers do read the counts. The end of a timeslice is
`OSYieldThread`.

**MessageQueue**, **Mutex**, **Event**, **Rendezvous**, **Semaphore** model the
primitives at the grain the lock gives: one pass through the wait loop, from
the test to the wait or the return, is one action. They abstract the scheduler
to two facts that Scheduler establishes: a waiting thread is in one wait queue
until something takes it out, and a woken thread runs at some later time, in
any order with all others. Wait queues are sets, because their order depends on
priorities that the guest changes at will, so "the first" may be any member;
`call` says what a blocked or woken thread is about to re-test. Event and
Semaphore, with ThreadLinks and Alarm, are small and independent of each other;
**PrimitivesMC** checks the four in one run, as a sum: each behaviour picks one
component at its start (`picked`) and takes the steps of that one only.

**FastMutex** has two locks, hence more steps: a locker that loses the
compare-and-swap keeps the spinlock until it has the scheduler lock and has
queued itself (`Contend`, `EnterQueue`); an unlocker keeps the spinlock until it
has woken one (`OSFastMutex_Unlock`, `WakeOne`). `OSFastCond_Wait` holds the
scheduler lock but not the spinlock, so its writes to owner and count
(`OSFastCond_Wait`) and its look at the queue (`WaitOnCond`) are two actions
between which others lock and unlock. Mutex and FastMutex have the same
parameters, in **Locks**, and share no state; **MutexMC** checks both in one run, in
the way of PrimitivesMC. The properties of Mutex have names of their own there:
`NoMutexLockerForgotten`, `MutexMonitorSpec`, `FreeMutexIsTakenAgain`.

**Alarm** has two views of an alarm: the host alarm in the ordered list, which
the main core looks at (`UpdateReads` without the lock, then `UpdateRuns`), and
`nextTime` and `period` in the guest's `OSAlarm_t`, which the alarm thread looks
at with a clock of its own (`AlarmThreadReads`, then one `AlarmThreadTakes` per
due alarm, under the lock, and `AlarmThreadCalls` for its callback, outside it;
`calling` is the alarm in between, whose cancellation comes too late). `host` is
`g_activeAlarms`; `orphans` are host alarms that stay in the list after the
thread took their alarm. A look of the main core signals the event once, where
the code signals for each host alarm and each period that has passed: the code
may leave the event set for one pass more. Their event is **Gate**, the
specification that Event is proved to implement. Times wrap at 2^`Width`.

**ProcUI** composes the core threads, the main thread of the application and the
background thread:

| variable | code |
|---|---|
| `pc`, `mine` | where `ProcUICoreThread` of each core is, its local copy of the command |
| `coreHit`, `signaled`, `threadQueue`, `call` | the three rendezvous and their event: the state of the instance `R` of Rendezvous |
| `event`, `command` | the four manual events, `s_commandForCoreThread` |
| `mainPc`, `then`, `blocking` | where the main thread is in an API call, where it goes on when its command is done, the argument of `ProcUIProcessMessages` |
| `initialized`, `foreground`, `drawDone` | `s_isInitialized`, `s_isInForeground`, `s_drawDoneReleaseCalled` |
| `background`, `lastMsg` | where the background thread is, `g_lastMsg` |
| `toBackground`, `toForeground`, `queue` | the flags of coreinit_Misc and the system message queue, a message of a flag in two steps: send, clear |
| `callbacks`, `alarms` | whether background callbacks are registered; which kinds of alarms are set, those of callbacks in the list and those of a list that was dropped |
| `submission`, `ran` | history: what was submitted last, what each core ran of it |

A call that blocks or that others can overtake is cut at every such point
(`ResetDone`, `SignalReady`, `AwaitDone` are `_SubmitCommandToCoreThreads`; core
0 has a step of its own after each rendezvous, `MetA`, `MetB`, `MetC`).

**Ipc** follows a request from the guest call through the driver, the kernel and
a service and back:

| variable | code |
|---|---|
| `free`, `request`, `signaled` | the free FIFO, the resource buffers and their events, per core |
| `callbacks` | the message queue of the IPC thread of a core |
| `pool`, `slots`, `counter` | free dispatchable commands, `sActiveDeviceHandles`, `sHandleCreationCounter` |
| `replier`, `response` | `sMtxReply` of a core, and the driver's shared area with the one buffer that is being answered |
| `queue`, `service`, `clients` | the message queue of the service, where the service is, which handle opened each of its clients |
| `pc`, `mine` | where a guest thread is in a call, with its buffer, command and slot |
| `known`, `closed` | handles the game has open, and handles it has called to close, which its threads may still use |
| `order` | history: asynchronous requests in the order of sending |

The call runs through `Submit`, `FindSlot` and `ClaimSlot` (opens only),
`Dispatch` and `SendMessage`; where one of them fails the thread answers its own
request (`Fail`, `FailRespond`, `FailRelease`), as the service does
(`Reply`, `ReplyRespond`, `ReplyRelease`). These three steps differ in the locks
they hold, and the other side may act between any two. A game may use a handle while
it is closed and after. The kernel turns such an ioctl down once the handle is
destroyed (`DestroyHandle`), which is after the answer to the close; an earlier one
reaches the service behind the close. There the service asserts that the client is
allocated (`ServeIoctl`), and the emulator stops when it is not (`stopped`).

The abstract specifications say what a user of the component relies on.
**BoundedDeque**: messages are put at either end and taken at the front, each
once. **Monitor**: one owner, recursive; a condition wait gives the mutex up
completely and takes it back to the same depth; a signal ends every wait that
has begun. **Gate**: a wait passes or times out, never both; a signal of an
automatic event lets exactly one wait pass; one that timed out used none up.
**AlarmClock**: an alarm is taken when it is due, once or once per period, not put
off for ever and not once it is cancelled; what was taken is called, once, and a
cancel between take and callback does not stop it. **Broadcast**: a command is run
once by every core before its submitter goes on. **ThreadLists**: the queues are
sequences.

In each module the definitions marked *Mutant* are plausible bugs of the code
(a dropped guard, a missing wakeup, a swapped order); each property is shown to
fail under one of them.

## 3. The runs

Passing runs. "States" are distinct states.

| run | instance | states | what it shows |
|---|---|---|---|
| `scheduler_core` | 2 cores shared by 3 threads, one joinable, one detachable, suspension once | 118 000 | a joiner finds its thread, no suspended thread is dispatched, and, under fairness, the most urgent runnable threads run |
| `scheduler_queues` | 2 cores, 2 threads, 2 priorities, all affinity masks, a guest queue and sleeps, suspension up to 2, cancellation | 346 000 | run queues are exact, one core per thread and one queue per waiting thread while threads move between cores and queues |
| `messagequeue` | 3 threads, 2 messages, ring of 3 | 842 000 | deque across the wrap at both ends; no receiver or sender forgotten; what somebody waits for is taken |
| `mutexes` | fast: 4 threads, 1 mutex, 1 condition, depth up to 3; not fast: 3 threads, 2 mutexes, 1 condition, depth up to 2 | 345 000 | monitors; owners, counts and lists agree; the dead own no mutex; lockers are left behind only by fast condition waits; a free mutex is taken |
| `primitives` | events: 3 threads, one automatic and one manual event; links: 4 threads, 2 queues, 2 priorities; semaphore: 4 threads, count from -1 to 3; alarms: 2 alarms, delays and periods 1 and 2, clock to 2, times modulo 2^6 | 113 000 | events are gates and timed waits return; links and sequences agree and implement the abstract queues; nobody sleeps beside units; alarms are an alarm clock that takes what is due and calls what it took, and one that expired is looked at again |
| `procui` | 3 cores, both modes | 478 000 | every core runs every command once and its submitter comes back; a rendezvous is re-initialised only when nobody is in it, and none of the three loses a wakeup through the event they share; no background alarm goes on in the foreground; one background thread at a time |
| `ipc` | 2 cores with a thread each: one opens and closes devices, one sends 2 asynchronous ioctls under the handles of the first, open, closing or closed; 2 buffers per core, 2 slots, 2 clients, queue of 2, 2 opens | 91 000 | a buffer is in one place and every command is accounted for; a response finds its request; a request is passed on to the client its handle opened, or into the window of its close, and a handle that is gone or whose slot was given away reaches nobody; every client can be reached and closed; callbacks in order; every request is answered unless the service has stopped |

The five runs that end in a violation, `scheduler_join`, `fastmutex_cond`,
`procui_background`, `ipc_callbacks` and `ipc_stop`, are described in section 5. Type
invariants that are proved for every instance are not checked again by a run,
except where they say more than types.

**Why the bounds are enough.** Every race above needs at most three roles: one
thread that sleeps, one that makes the change, and one that interferes between
the wakeup and the run of the sleeper. Three threads give each role an actor;
four are used where two sleepers and two others matter (fast mutex with an
owner, a sleeper, a locker in flight and a waker; semaphore with several
waiters for one unit). Two cores give one that is the main core, with its own
path through the idle fiber, and one that is not; two rendezvous suffice to
share one event; a ring of three distinguishes stepping forward from stepping
back, which a ring of two does not. Suspension to depth 2 and lock depth 2 show
nesting; in the fast mutex depth 3, because a wait that came back with depth 1
instead of 2 could be mistaken for an unlock. For the alarms a clock that goes to 2 with
delays up to 2 lets an alarm expire, be taken late and come again, and two alarms
are enough for one to expire while the thread looks with a clock it read for the
other; 6 bits hold every time that can occur and the wrap of a start in the
future. ProcUI needs its three cores and rendezvous, no more exist; its
behaviour repeats after each command. One bound keeps the flags and the queue of
the system messages small: they change only while somebody reads them
(`Receiving`), since no other step depends on them. In Ipc the second
open gets the slot and the client of the first again after a close, also while an
ioctl of the first handle is on its way; `PoolSize` 4 is the smallest
that has a command for each request the instance can have under way (the code
has 96 for 144 buffers), `CallbackSize` is the number of buffers, as in the
code. Each counter that the guest could drive without end is capped by a
named constant: `MaxSuspend`, `MaxLockCount`, `MaxCount`, `MaxTime`, `MaxOpens`.
What goes beyond the bounds is covered by the proofs, which reach every
safety property of the passing runs (section 4).

Two restrictions are about what the application does, not about size:
`ResizeInBackground` is FALSE in the runs of ProcUI, because
`ProcUISetCallbackStackSize`, called in the background, drops the list of
callbacks and leaves their alarms on, which `AlarmsOnlyInBackground` would
report; and in Ipc one thread opens and closes (section 6).

**Deadlock** is checked for the scheduler, where something can always happen. In
the other runs a guest may put all its threads to sleep or make no more calls,
which is the guest's right, so the check is off there; that those who wait are
served is stated by the liveness properties instead.

**Fairness**, and why the code justifies it:

* Scheduler: a core under the lock goes on and an idle fiber goes on (weak):
  they are host threads. A core that waits for the scheduler lock gets it
  (strong): it is a host lock that others keep releasing. A timeslice ends
  (strong on `OSYieldThread`): the recompiler counts cycles and forces it.
  The event loop of the main core comes back to its check (strong). Guest calls
  have no fairness: a guest may never make one.
* `UrgentThreadsRun` is stated for the highest priority only, since the code
  starves lower ones by design, and with constant affinities: a guest that moves
  a READY thread to and fro sends it to the tail each time and can starve it.
* Primitives: a woken thread runs (weak), which is `UrgentThreadsRun` for guests
  that do not starve it by priority; a host alarm that was set fires (weak).
* FastMutex: weak fairness of each step, with one mutex. With more mutexes on
  the one spinlock a locker may lose every race for it; nothing in the code
  prevents that, and it is not assumed away.
* Alarms: the main core's idle fiber comes to `alarm_update` again and again
  (weak), the alarm thread has the highest priority (weak).
* ProcUI: the main thread inside a call and every core thread go on (weak): each
  is the most urgent thread when it is awake and the game lets its cores go.
  Calls have no fairness, nor do requests to change the foreground.
* Ipc: the service and a thread in a call go on, and get `sMtxReply` and their
  core though others take them in between (strong); the IPC thread has a higher
  priority than the application and gets its core (strong).

## 4. The proofs

Proved for every set of threads, cores, queues, priorities, mutexes, messages
and sizes, from the `ASSUME`s of the modules only, except where noted.

**Scheduler_proofs.** First the operators of ThreadQueues: what adding, adding
by priority, removing and finding the most urgent do to the members of a queue;
`AddThreadByPrioritySorted`: a sorted queue stays sorted.

`IInv` is inductive under `JoinDiscipline` (no thread is
both joined and detached by the guest; section 5 shows the assumption is
needed). Its parts and why each is there:

* `TypeOK`, `RunQueuesExact`, `RunningOnOneCore`: the goals. Exactness is needed
  for types: a count is decremented only where an entry is removed.
* `WaitInv`: `WaitingInOneQueue` in terms of membership. Without it a wakeup
  could make a thread READY that runs elsewhere, breaking both others.
* `LockInv`: what the holder of the lock is about to do fits the core it is on:
  a core that switches or reaps has a thread, one that picks has none; an exit
  wakes the queue of its own thread. It carries the guard of a chain's first
  step to its last.
* `ActiveExact`: the active list is exactly the threads with a state.
* `JoinInv`, `ReapInv`: a joiner is in the join queue, or the thread it joins is
  just waking it, or that thread is MORIBUND and stays so until the joiner
  reaps it. `JoinedThreadIsMoribund` follows. This is the part that needs
  `JoinDiscipline`: a detach takes the MORIBUND thread away.

There is one lemma per action, over three lemmas about the shared helpers
(`AddReadyThreadStep`, `RemoveFromRunQueuesStep`, `WakeThreadStep`). Theorems:
`TypeCorrect`, `RunQueuesAreExact`, `ThreadsRunOnOneCore`,
`ThreadsWaitInOneQueue`, `JoinersFindTheirThread`, and the action property
`SuspendedStayOffTheCores`, which follows because run queues hold only runnable
threads and a core takes its thread from one.

**MessageQueue_proofs.** `TypeOK`, `NoReceiverForgotten` and `NoSenderForgotten`
together are inductive: "while somebody sleeps, there are no more messages than
woken receivers". Each put adds one message and wakes one; the step that needs
the count is a receiver that finds its message taken. Then `QueueIsADeque`, the
refinement, with index arithmetic in `RingTail`, `RingAppend`, `RingFront`.

**Mutex_proofs**, about the instance `Slow` of Mutex in MutexMC. `TypeOK`,
`OwnersAndQueuesAgree`, `NoMutexLockerForgotten` and `EndedThreadsOwnNothing`
together are inductive; `MutexIsAMonitor` is the refinement.

**FastMutex_proofs.** `NoLockerForgotten` is not inductive: it speaks of those
who sleep, and a locker that has seen the mutex taken, but has not queued itself
yet, would break it with its next step. `LockersCovered` says the same of
lockers in flight too: when the mutex is free and somebody is behind it, asleep
or on the way to the queue, somebody comes to take it or to wake them, unless a
condition wait left it. Two more parts make it inductive: `RestoringOwns` (a
thread about to restore its depth owns the mutex, so nobody else's count is
overwritten) and `SleepersSleepOnce` (who waits for a condition is in no mutex
queue). The same invariant gives the refinement `FastMutexIsAMonitor`; the
mapping reads the depth of an owner that is about to restore it as the depth it
will restore.

**Primitives_proofs**, a part for each of the components of `primitives`.

* *Events.* `TypeOK`, `NobodyWaitsForASetEvent`, `AlarmsBelongToTheWait` together
  are inductive. The last carries the refinement `EventIsAGate`: an alarm handler
  that fires for a wait that has ended would change an outcome already settled.
* *Semaphores.* `SleepersFindNoUnits`, for any integer as the initial count
  (`Owed` is what a negative one owes); the count may be negative, and sleepers
  then stay asleep until it is not.
* *Alarms.* `ExpiredAlarmsAreSeen` is not inductive. It needs `HostAlarms` (a
  host alarm of a periodic alarm is in the list, a whole number of periods off the
  alarm's own time and due within a period; one of a single alarm fires at that
  time, once), `Readings` (what the main core and the alarm thread have read of
  the clock is past, and only the alarm thread waits for the event), and a
  stronger form of itself, `FiredAreSeen`: it speaks of the time at which the
  fired host alarm *was* due, since a periodic one is back in the list, with its
  next time, when the thread comes to look. `AlarmsKeepTime` is the safety part of
  `ClockSpec`, for delays and periods that the clock of the model can reach: no
  alarm is taken before its time, or when it is cancelled, and callbacks and takes
  go in pairs. It does not say that a cancelled alarm is not called (section 5).
* *Linked lists.* `Spells(Q)` says, element by element, that the links spell the
  sequences `Q`: head and tail are the ends of each, every element names the ones
  before and after it, nobody is on two, and who is on none names nobody. The
  invariant is that some sequences are spelled, and these are the ones that
  ThreadLinks gets by walking. That a walk finds the whole list, at most as many
  elements as there are threads, is shown by giving its function explicitly and
  by taking the least position at which it could differ. Each operation then
  edits a sequence at one position (`InsertSpells` and its like), also the
  addition by priority, which searches from the tail. `ListsReadBothWays` and the
  refinement `LinksAreLists` follow.

**Rendezvous_proofs.** `TypeOK`, `NobodySleepsWhenMet` and
`NobodySleepsOnASignal` together are inductive: the one automatic event of all
rendezvous is left signaled only when nobody sleeps on it, and whoever completes
a rendezvous wakes all. Assumes in `Next` that no rendezvous is initialised while
somebody is in it, which ProcUI_proofs discharges for ProcUI.

**ProcUI_proofs**, for any set of cores that contains the two special ones. The
proof uses the lemmas of Rendezvous_proofs for its instance, and needs for each
of them that core 0 initialises an empty rendezvous only. `IInv` says why:

* `Barrier`: `InStep` lists, for each place core 0 can be at in the three
  rendezvous, where the others can be and who has arrived where. A core that has
  passed ahead cannot pass the next rendezvous before core 0 arrives there, and
  core 0 initialises the one after next; so the one it initialises is empty
  (`ReadyRendezvousAreEmpty`), no core sleeps in a rendezvous that is met
  (`MetThreadsAreAwake`) and the shared event is free (`SignalsFindNoSleepers`).
* `CommandInv`: between commands all cores rest and `ready` is reset; while one
  is run, `RoundInv` relates where core 0 is to which cores have run it. With
  `Barrier` it gives `CommandsAreBroadcast`, the refinement of Broadcast: no core
  finds `ready` still set and runs the command twice.
* `ControlInv`, `BackgroundInv`: what the main thread is in the middle of, and
  whether there is a background thread then; `BackgroundThreadIsAlone` follows.
* `AlarmInv`, apart from the others because it needs `~ResizeInBackground`, gives
  `AlarmsStayInTheBackground`.

**Ipc_proofs**, for any number of cores, threads, buffers, slots and clients. The
invariant has three parts, each checked by TLC before it was proved:

* `BufferPart` says where a request is. `OnePlace`: it is with one thread, in the
  queue once or with the service; without it the service and a core that gives
  a request up could both answer it. `PoolInv` counts the same places, so that
  the pool never hands out a command too many (`TypeCorrect`). `ReplyInv`:
  whoever is between writing the response area and reading it has `sMtxReply`
  (`AnswersFindTheirRequest`). `BufferInv`: a free buffer is nowhere else, except
  with the caller of an asynchronous request that was answered before the call
  returned. `OneRuns`: a core runs one thread at a time. `Agreement`: the
  command and the request in the buffer say the same, and every handle anybody
  has was made by the kernel.
* `HandlePart` follows a handle from the claim of its slot until it is destroyed.
  `SlotInv` and `OpensInv`: only one open has it. `ProgressInv`: its client is
  bound to it before the answer. `UseInv`: what is on its way under the handle is
  `Right`: meant for the client it opened, or an ioctl of a `Stale` handle, which the
  game has called to close and whose client is freed (`Gone`). `CloseInv`: a handle is
  closed once, and until the service gets the close its client is there, whatever
  else is on its way. `GameInv`: the game has open only handles that are live, and one
  it has called to close is live while it is valid, but for the window after the
  service has freed the client. `OwnerInv`: a bound client's handle is with somebody.
  `RequestsFindTheirClient` follows. Its first half is about the step in which the
  kernel passes a request on: the client is there, or the service is between freeing
  it and destroying its handle. The second half is about what the service then
  finds: the client of that handle, except for an ioctl of a handle the game has
  called to close. Then that handle has no client any more, and the one in its
  place may be free (section 5) or another handle's.
  `ClientsCanBeClosed` follows as well. Both are under
  `OneOpenerCore`: the threads that open and close are on one core. The kernel's scan for a
  free slot is not atomic with its claim, and TLC finds two handles in one slot
  for openers on two cores.
* `OrderPart` gives every asynchronous request that was sent a place: a number, 0
  for the newest callback, below it the older ones, 1 for the request with the
  service, above it those in its queue. `SentInOrder`: the requests that were sent
  have one place each, and the order of the places is that of sending; who moves
  a request moves it past nobody. `HeldIsNew`: a request that a thread still has in
  hand was neither sent nor called back, so that its failure, which is called back
  at once, cannot be taken for the answer. `CalledOnce`: no request is called back
  twice. The first callback that is no error is then that of the first request
  sent, the next that of the second (`CallbackIsNth`), and
  `CallbacksRunInOrder` follows. An answer that finds the queue of the IPC thread full
  is lost, and with it the order; hence `FewRequests`: of one core no more
  requests are between their submission and their callback than that queue
  holds. `CallbacksFindRoom` says that then no answer is lost: a callback
  that waits, and the answer, are of different requests. The run `ipc` keeps
  `FewRequests`, `ipc_callbacks` breaks it with one request more.

There is a lemma per action for what it does to the elements of the variables
(`...Does`), and one for each part (`...Keeps`, `...Handles`, `...Order`).

**Model-checked only.** All liveness: fairness and `ENABLED` are outside the
prover. This includes the fairness that `ClockSpec` contains; its safety part is
`AlarmsKeepTime`.

**Hypotheses** that theorems add to the `ASSUME`s: `JoinDiscipline`,
`~ResizeInBackground`, `OneOpenerCore` and `FewRequests`. The passing runs satisfy
them, and without any one of them TLC finds a counterexample to a theorem that
has it. Besides these there are only bounds on the numbers: `SleepersFindNoUnits`
is about integers, `AlarmsKeepTime` about delays and periods up to `MaxTime`.

## 5. What the code does otherwise than it says

* **Join against detach** (`scheduler_join`). `OSJoinThread` continues after its
  wait under the comment "thread already ended and is still attached", asserting
  MORIBUND and not detached (`coreinit_Thread:735-737`). The joiner was woken
  when the thread ended and runs later; in between `OSDetachThread` may end and
  deactivate the thread. The joiner then deactivates it again.
* **Fast condition wait loses a locker** (`fastmutex_cond`). `OSFastCond_Wait`
  frees the mutex and looks at its queue without the spinlock
  (`coreinit_Synchronization:602-609`). A locker that has seen the mutex taken
  and waits for the scheduler lock queues itself after that look and sleeps
  beside a free mutex until somebody happens to lock and unlock it.
  `NoLockerForgotten` and `FreeMutexIsTaken` of the passing run state that this
  is the *only* way: they exempt mutexes that a condition wait has left.
* **A background thread that was never started** (`procui_background`).
  `ProcUIProcessMessages` waits for the background thread and joins it
  (`proc_ui:709-712`), under a comment that asks whether this is so. It starts
  one only when the call that releases the foreground is a blocking one
  (`:675-683`). A game that releases the foreground with a call that does not
  block, and then makes a blocking call, waits for a thread that does not exist.
  The warning meant for this (`:660-663`) cannot fire: it tests
  `s_previouslyWasBlocking`, which a blocking call clears before it returns.
* **The queue of callbacks can be full** (`ipc_callbacks`). The IPC thread's
  queue has room for as many messages as there are buffers
  (`coreinit_IPC:204`), but the buffer of an asynchronous request is free as
  soon as its message is sent (`:293-294`), not when the IPC thread has received
  it. While a guest thread keeps the core, one request more than there are
  buffers may be answered; the assert on `:293` fails, and in a release build
  the callback is lost. The game of the passing run `ipc` has no more
  asynchronous requests under way than there are buffers, so that none is lost
  and `CallbacksInOrder` and `RequestsAreAnswered` speak of all of them.
* **An ioctl meets a client that is freed** (`ipc_stop`). A close frees the client
  (`IOSU/fsa/iosu_fsa:863`), is answered, and only then is the handle destroyed
  (`iosu_kernel:742-745`). Until it is, `_IPCDispatchToResourceManager` accepts
  requests under it, also from another core (`:547-575`), and sends them to the
  client's place. Such an ioctl comes behind the close, and
  `cemu_assert(sFSAClientArray[clientHandle].isAllocated)` (`iosu_fsa:870`) fails;
  an emulator that should turn the call of a game down stops. If another open has
  been given the place meanwhile, the ioctl is served to that client.
  `RequestsReachTheirClient` of the passing run states that this window is the only
  one, and `RequestsAreAnswered` that everything is answered unless the service
  stops there.

One more divergence is visible in FastMutex and harmless: an unlocker has seen a
sleeper and waits for the scheduler lock; a condition wait in progress, which
freed the mutex before, wakes the whole queue; the debug assert of
`wakeupSingleThreadWaitQueue` (`coreinit_ThreadQueue:156`) fails. Release builds
skip the wakeup.

The alarm thread takes an alarm under the scheduler lock and calls it after it has
released the lock (`coreinit_Alarm:339-347`). `OSCancelAlarm` may return in between,
and the callback runs all the same; `OSSetAlarm` in between, with a new handler, has
that handler called early. Nothing in the code promises otherwise, so this is
no finding, but a game that frees what its alarm uses after it has cancelled it
meets it. `ClockSpec` allows for it.

`TypeOK` of FastMutex and the refinement of Monitor are proved all the same:
mutual exclusion and depth are not affected.

## 6. Assumptions about the guest

Guards of the models that the code asserts or that its callers keep:

* `OSCreateThread` gets a structure that is not active, and `OSRunThread` does
  not restart an ended thread, while somebody joins it; one thread joins
  (asserted in `OSJoinThread`).
* Which threads the guest joins, detaches and cancels are constants
  (`Joinable`, `Detachable`, `Cancellable`), so that instances can choose.
* `OSWaitCond` and `OSFastCond_Wait` are called by the owner (asserted).
* `OSInitRendezvous` is not called on a rendezvous that somebody is in. ProcUI,
  which re-initialises its three in turn, keeps this (`InitMeetsNobody`).
* proc_ui is called by one main thread, and not from its own callbacks; the
  foreground is always a game's.
* A device handle is closed once. A second close is left out: in the window of the
  first (section 5) it would free the client of another handle. Devices
  are opened and closed by threads of one core, one at a time: the kernel
  searches a free slot and claims it in separate steps without a lock
  (`FindSlot`, `ClaimSlot`). The search itself is one step. The second half is
  the hypothesis `OneOpenerCore` of two theorems about Ipc, not a guard.
* A FIFO of IPC buffers is changed by one thread at a time (the code has no lock
  for it).
* IPC callbacks submit no request themselves.
* The pool of the kernel has a command for every request.
* Of one core no more asynchronous requests are under way, their callbacks
  included, than the IPC thread's queue holds: the hypothesis `FewRequests` of
  `CallbacksRunInOrder` and `CallbacksFindRoom`, not a guard. The code does not
  enforce it (section 5).
* A thread waits in one call at a time.

The `ASSUME`s of the modules ask for no more than that constants have their
sorts and that names which stand for "none" (`Nobody`, `NoClient`, `NoHost`,
`NoTime`, `Null`) are none of the things they are none of; `LinkAssumption` also
says that the threads are finitely many, which bounds the walks; `AlarmAssumption`
that `Width` bits hold the times of the model, as 64 bits hold those of the code.

## 7. What is not modelled

Of the modelled components:

* scheduler: single core mode, shutdown and restart, deallocators and cleanup
  callbacks, thread specific data, register contexts, the priority boost of
  spinlocks, the size of the array of active threads. `OSThreadQueue`s are
  initialised once. The scheduler lock is not recursive in the models: nested
  regions are one region;
* message queues: payloads are model values; the handler of a received system
  message. The hook that fills the system message queue is in ProcUI;
* timed waits and sleeps: the alarm fires at any time after it was set;
* alarms: `OSAlarm_Shutdown`, and what `updateAlarms` reads from a list it has
  emptied (`coreinit_Alarm:88`), which is up to the standard library;
* ProcUI: `s_currentProcUIStatus` with `ProcUISubProcessMessages`, the driver
  interface, the memory of the stacks, and the messages no code here sends (exit,
  network, home button);
* IPC: requests answered to a message queue of the caller, the ring that
  implements the FIFO of buffers, the buffer pools of `coreinit_IPCBuf`;
* IOSU: creating and destroying message queues and resource managers, timers,
  services that answer late or in another order than they were asked.

Other components are listed with their reasons in `PROJECT.json`: those marked
as planned follow in section 8; the rest is data conversion, host I/O or
third-party code with no protocol of its own.

## 8. Plan

Done: the scheduler and its queues, message queues, mutexes, fast mutexes,
events, rendezvous, semaphores, alarms, ProcUI with the system messages, IPC with
handles and dispatch of the IOSU kernel; proofs of every safety property of
these. Next, in order of importance:

1. **IOSU kernel** message queues and timers: destroy against blocked threads,
   fire against stop. Hazards `iosu_kernel:99`, `:281`.
2. The **FIFO of IPC buffers** as a ring pushed by host threads and popped by
   guest threads without a common lock. Hazard `coreinit_IPC:174`.
3. **Spinlock** with boost and deboost, **MPQueue**, the client of FS.
4. Guest heaps (unit and frame) as sequential allocators.
