--------------------------------- MODULE Ipc ---------------------------------
(***************************************************************************)
(* Requests of the guest to an IOSU service: the driver of coreinit        *)
(* (coreinit_IPC.cpp), the IPC part of the IOSU kernel (iosu_kernel.cpp)   *)
(* and a service that answers one command after the other, as FSA does     *)
(* (iosu_fsa.cpp).  The guest's calls run on the host thread of their      *)
(* core, the service on a host thread of its own.                          *)
(*                                                                         *)
(* Assumed: a FIFO of buffers is changed by one thread at a time, and the  *)
(* scan for a free handle slot reads all slots at once, though no lock is  *)
(* held; the pool has a command for every request.  Left out: the          *)
(* arguments of requests, and replies that a service delays or never makes.*)
(***************************************************************************)
EXTENDS Naturals, Sequences, FiniteSets

CONSTANTS
    Core, Thread,
    CoreOf,         \* the core of each thread
    Opener,         \* the threads that open and close devices
    Param,          \* for each core, what tells its callbacks apart, and NoParam
                    \* if it makes synchronous requests
    Buffer,         \* the resource buffers of a core
    PoolSize,       \* how many dispatchable commands the kernel has
    Slot,           \* the indices of sActiveDeviceHandles
    Client,         \* the clients a service can have
    QueueSize, CallbackSize,
    MaxOpens,       \* bound on the handles created
    NoParam, NoClient, Nobody, Service

ASSUME IpcAssumption ==
    /\ CoreOf \in [Thread -> Core] /\ Opener \subseteq Thread
    /\ Slot \subseteq Nat \ {0}
    /\ {PoolSize, QueueSize, CallbackSize, MaxOpens} \subseteq Nat
    /\ NoClient \notin Client
    /\ {Nobody, Service} \cap Thread = {} /\ Nobody # Service /\ Nobody \notin Buffer

VARIABLES
    free,           \* fifoFreeBuffers of each core
    request,        \* the request in each buffer
    signaled,       \* the buffers whose event is signaled
    callbacks,      \* the message queue of each IPC thread
    pool,           \* how many of the commands are free
    slots,          \* sActiveDeviceHandles
    counter,        \* sHandleCreationCounter
    replier,        \* who has sMtxReply of a core
    response,       \* the driver's kernelSharedArea: a buffer to answer
    queue,          \* the message queue of the service
    service,        \* where the service is
    clients,        \* its clients, and the handle that opened each
    pc, mine,       \* where a thread is in a call; its buffer, command, slot
    known, closed,  \* the handles the game has open, and has called to close
    order           \* history: asynchronous requests in the order of sending

driverVars == <<free, request, signaled, callbacks>>
kernelVars == <<pool, slots, counter, replier, response>>
serviceVars == <<service, clients>>
guestVars == <<pc, mine, known, closed>>
vars == <<driverVars, kernelVars, queue, serviceVars, guestVars, order>>

\* A handle is its slot and the counter; results share their form.
NoHandle == <<0, 0>>
Error == <<0, 1>>
Ok == <<0, 2>>

NoRequest == [op |-> "none", handle |-> NoHandle, param |-> NoParam, result |-> Ok]
\* A dispatchable command that is in use, wherever it is.
Command(op, c, b, h) ==
    [op |-> op, core |-> c, buffer |-> b, handle |-> h, target |-> NoClient]
NoCommand == Command("none", Nobody, Nobody, NoHandle)
FreeSlot == [set |-> FALSE, check |-> NoHandle, target |-> NoClient]
AtRest == [buffer |-> Nobody, command |-> NoCommand, slot |-> 0, async |-> FALSE]
Receiving == [at |-> "receive", command |-> NoCommand, client |-> NoClient, result |-> Ok]

Init ==
    /\ free = [c \in Core |-> Buffer]
    /\ request = [c \in Core |-> [b \in Buffer |-> NoRequest]]
    /\ signaled = [c \in Core |-> {}]
    /\ callbacks = [c \in Core |-> <<>>]
    /\ pool = PoolSize
    /\ slots = [s \in Slot |-> FreeSlot] /\ counter = 1
    /\ replier = [c \in Core |-> Nobody] /\ response = [c \in Core |-> Nobody]
    /\ queue = <<>>
    /\ service = Receiving /\ clients = [x \in Client |-> NoHandle]
    /\ pc = [t \in Thread |-> "idle"] /\ mine = [t \in Thread |-> AtRest]
    /\ known = {} /\ closed = {}
    /\ order = [c \in Core |-> <<>>]
-----------------------------------------------------------------------------
(* Answering a command: _IPCReplyAndRelease and the driver's part of it.   *)

\* Mutant: without the mutex.
BeginReplyUnlocked(who, d, result) ==
    LET c == d.core b == d.buffer IN
    /\ replier' = [replier EXCEPT ![c] = who]
    /\ request' = [request EXCEPT ![c][b].result = result]
    /\ response' = [response EXCEPT ![c] = b]

\* The result is stored and the buffer put into the driver's shared area.
BeginReply(who, d, result) ==
    LET c == d.core b == d.buffer IN
    /\ replier[c] = Nobody
    /\ replier' = [replier EXCEPT ![c] = who]
    /\ request' = [request EXCEPT ![c][b].result = result]
    /\ response' = [response EXCEPT ![c] = b]

\* Mutant: the buffer of a synchronous request is released as well.
IPCDriver_HandleResponseReleases(c) ==
    LET b == response[c] r == request[c][b] IN
    /\ response' = [response EXCEPT ![c] = Nobody]
    /\ IF r.param = NoParam
       THEN signaled' = [signaled EXCEPT ![c] = @ \cup {b}] /\ UNCHANGED <<callbacks, request>>
       ELSE /\ callbacks' = [callbacks EXCEPT ![c] =
                   Append(@, [param |-> r.param, ok |-> r.result # Error])]
            /\ request' = [request EXCEPT ![c][b] = NoRequest]
            /\ UNCHANGED signaled
    /\ free' = [free EXCEPT ![c] = @ \cup {b}]

\* Mutant: nobody is told of an error.
IPCDriver_HandleResponseIfOk(c) ==
    LET b == response[c] r == request[c][b] IN
    /\ response' = [response EXCEPT ![c] = Nobody]
    /\ IF r.param = NoParam
       THEN /\ signaled' = IF r.result = Error THEN signaled
                           ELSE [signaled EXCEPT ![c] = @ \cup {b}]
            /\ UNCHANGED <<callbacks, request, free>>
       ELSE /\ callbacks' = [callbacks EXCEPT ![c] =
                   Append(@, [param |-> r.param, ok |-> r.result # Error])]
            /\ request' = [request EXCEPT ![c][b] = NoRequest]
            /\ free' = [free EXCEPT ![c] = @ \cup {b}]
            /\ UNCHANGED signaled

\* The buffer of an asynchronous request is free before its callback has run,
\* that of a synchronous one stays with the thread that waits for its event.
IPCDriver_HandleResponse(c) ==
    LET b == response[c]
        r == request[c][b]
        msg == [param |-> r.param, ok |-> r.result # Error]
    IN  /\ response' = [response EXCEPT ![c] = Nobody]
        /\ IF r.param = NoParam
           THEN /\ signaled' = [signaled EXCEPT ![c] = @ \cup {b}]
                /\ UNCHANGED <<callbacks, request, free>>
           ELSE /\ callbacks' = [callbacks EXCEPT ![c] =
                       IF Len(@) < CallbackSize THEN Append(@, msg) ELSE @]
                /\ request' = [request EXCEPT ![c][b] = NoRequest]
                /\ free' = [free EXCEPT ![c] = @ \cup {b}]
                /\ UNCHANGED signaled

EndReply(d) ==
    /\ pool' = pool + 1
    /\ replier' = [replier EXCEPT ![d.core] = Nobody]
-----------------------------------------------------------------------------
(* The calls of the guest.  A thread leaves its core inside a call only    *)
(* while it waits for the answer.                                          *)

Runs(t) == \A u \in Thread \ {t} : CoreOf[u] = CoreOf[t] => pc[u] \in {"idle", "wait"}

\* IPCDriver_AllocateResource, _IPCDriver_SubmitCmd and the copy of the request
\* that IPCSubmitFromCOS makes.
Submit(t, op, h, p, next) ==
    LET c == CoreOf[t]
        b == CHOOSE x \in free[c] : TRUE
    IN  /\ pc[t] = "idle" /\ Runs(t)
        /\ free[c] # {} /\ pool > 0
        /\ free' = [free EXCEPT ![c] = @ \ {b}]
        /\ request' = [request EXCEPT ![c][b] =
                           [op |-> op, handle |-> h, param |-> p, result |-> Ok]]
        /\ signaled' = [signaled EXCEPT ![c] = @ \ {b}]
        /\ pool' = pool - 1
        /\ mine' = [mine EXCEPT ![t] = [buffer |-> b, command |-> Command(op, c, b, h),
                                        slot |-> 0, async |-> p # NoParam]]
        /\ pc' = [pc EXCEPT ![t] = next]
        /\ UNCHANGED <<callbacks, slots, counter, replier, response, queue,
                       serviceVars, order>>

IOS_Open(t) ==
    /\ t \in Opener
    /\ counter + Cardinality({u \in Thread : pc[u] \in {"open", "claim"}}) <= MaxOpens
    /\ Submit(t, "open", NoHandle, NoParam, "open")
    /\ UNCHANGED <<known, closed>>

\* The game closes a handle once, though other threads may be using it.
IOS_Close(t) ==
    \E h \in known :
        /\ t \in Opener
        /\ Submit(t, "close", h, NoParam, "dispatch")
        /\ known' = known \ {h} /\ closed' = closed \cup {h}

Sent(c, p) == \E i \in DOMAIN order[c] : order[c][i] = p

\* The game may also use a handle that it is closing or has closed.  The vectors
\* of an ioctlv may be bad: it fails.
IOS_Ioctl(t) ==
    LET c == CoreOf[t] IN
    \E h \in known \cup closed, next \in {"dispatch", "fail"}, p \in Param[c] :
        /\ ~Sent(c, p)
        /\ \A i \in DOMAIN callbacks[c] : callbacks[c][i].param # p
        /\ Submit(t, "ioctl", h, p, next)
        /\ UNCHANGED <<known, closed>>

Goes(t, to) == pc' = [pc EXCEPT ![t] = to]

\* _IPCCreateResourceHandle: the manager is looked up under the kernel's mutex,
\* the slots without it.
FindSlot(t) ==
    LET unset == {s \in Slot : ~slots[s].set}
        lowest == CHOOSE s \in unset : \A r \in unset : s <= r
    IN  /\ pc[t] = "open"
        /\ \/ /\ unset # {}
              /\ mine' = [mine EXCEPT ![t].slot = lowest]
              /\ Goes(t, "claim")
           \/ Goes(t, "fail") /\ UNCHANGED mine    \* unknown device, or no slot
        /\ UNCHANGED <<driverVars, kernelVars, queue, serviceVars, known, closed, order>>

ClaimSlot(t) ==
    LET h == <<mine[t].slot, counter>> IN
    /\ pc[t] = "claim"
    /\ slots' = [slots EXCEPT ![mine[t].slot] =
                     [set |-> TRUE, check |-> h, target |-> NoClient]]
    /\ counter' = counter + 1
    /\ mine' = [mine EXCEPT ![t].command.handle = h, ![t].slot = 0]
    /\ Goes(t, "dispatch")
    /\ UNCHANGED <<driverVars, pool, replier, response, queue, serviceVars, known,
                   closed, order>>

\* Mutant: the check value is not compared.
ValidUnchecked(h) == slots[h[1]].set

Valid(h) == slots[h[1]].set /\ slots[h[1]].check = h

\* _IPCDispatchToResourceManager up to the message.
Dispatch(t) ==
    LET h == mine[t].command.handle IN
    /\ pc[t] = "dispatch"
    /\ IF Valid(h)
       THEN /\ mine' = [mine EXCEPT ![t].command.target = slots[h[1]].target]
            /\ Goes(t, "send")
       ELSE Goes(t, "fail") /\ UNCHANGED mine
    /\ UNCHANGED <<driverVars, kernelVars, queue, serviceVars, known, closed, order>>

\* The call of an asynchronous request is over, another one waits.
Leave(t) ==
    LET m == mine[t] IN
    /\ Goes(t, IF m.async THEN "idle" ELSE "wait")
    /\ mine' = [mine EXCEPT ![t] = IF m.async THEN AtRest
                                   ELSE [AtRest EXCEPT !.buffer = m.buffer]]

\* Mutant: the newest message first.
PutFirst(d) == queue' = <<d>> \o queue

Put(d) == queue' = Append(queue, d)

\* A full queue refuses the message, and an open keeps its slot.
SendMessage(t) ==
    LET c == CoreOf[t] p == request[c][mine[t].buffer].param IN
    /\ pc[t] = "send"
    /\ IF Len(queue) < QueueSize
       THEN /\ Put(mine[t].command)
            /\ order' = IF mine[t].async THEN [order EXCEPT ![c] = Append(@, p)] ELSE order
            /\ Leave(t)
       ELSE Goes(t, "fail") /\ UNCHANGED <<queue, order, mine>>
    /\ UNCHANGED <<driverVars, kernelVars, serviceVars, known, closed>>

\* The thread itself answers what could not be sent.
Fail(t) ==
    /\ pc[t] = "fail"
    /\ BeginReply(t, mine[t].command, Error)
    /\ Goes(t, "respond")
    /\ UNCHANGED <<free, signaled, callbacks, pool, slots, counter, queue,
                   serviceVars, mine, known, closed, order>>

FailRespond(t) ==
    /\ pc[t] = "respond"
    /\ IPCDriver_HandleResponse(CoreOf[t])
    /\ Goes(t, "release")
    /\ UNCHANGED <<pool, slots, counter, replier, queue, serviceVars, mine, known, closed, order>>

FailRelease(t) ==
    /\ pc[t] = "release"
    /\ EndReply(mine[t].command)
    /\ Leave(t)
    /\ UNCHANGED <<driverVars, slots, counter, response, queue, serviceVars, known, closed,
                   order>>

\* _IPCDriver_WaitForResultAndRelease
WaitReturns(t) ==
    LET c == CoreOf[t] b == mine[t].buffer r == request[c][b] IN
    /\ pc[t] = "wait" /\ Runs(t)
    /\ b \in signaled[c]
    /\ signaled' = [signaled EXCEPT ![c] = @ \ {b}]
    /\ request' = [request EXCEPT ![c][b] = NoRequest]
    /\ free' = [free EXCEPT ![c] = @ \cup {b}]
    /\ known' = IF r.op = "open" /\ r.result # Error THEN known \cup {r.result}
                ELSE IF r.op = "close" /\ r.result = Error THEN known \cup {r.handle}
                ELSE known
    /\ closed' = IF r.op = "close" /\ r.result = Error THEN closed \ {r.handle} ELSE closed
    /\ Goes(t, "idle") /\ mine' = [mine EXCEPT ![t] = AtRest]
    /\ UNCHANGED <<callbacks, kernelVars, queue, serviceVars, order>>

\* __IPCDriverThreadFunc.  The message of a request that failed may switch to it
\* before FailRelease, with the same outcome as after it.
IPCThreadCalls(c) ==
    LET p == Head(callbacks[c]) IN
    /\ callbacks[c] # <<>>
    /\ \A t \in Thread : CoreOf[t] = c => pc[t] \in {"idle", "wait"}
    /\ callbacks' = [callbacks EXCEPT ![c] = Tail(@)]
    /\ order' = IF p.ok THEN [order EXCEPT ![c] = Tail(@)] ELSE order
    /\ UNCHANGED <<free, request, signaled, kernelVars, queue, serviceVars, guestVars>>
-----------------------------------------------------------------------------
(* The service, and IOS_ResourceReply, which it calls.                     *)

ServiceGoes(to) == service' = [service EXCEPT !.at = to]

ReceiveMessage ==
    /\ service.at = "receive" /\ queue # <<>>
    /\ service' = [Receiving EXCEPT !.at = Head(queue).op, !.command = Head(queue)]
    /\ queue' = Tail(queue)
    /\ UNCHANGED <<driverVars, kernelVars, clients, guestVars, order>>

\* An open takes a free client; the service may also refuse.
ServeOpen ==
    LET unused == {x \in Client : clients[x] = NoHandle}
        x == CHOOSE y \in unused : TRUE
    IN  /\ service.at = "open"
        /\ \/ /\ unused # {}
              /\ clients' = [clients EXCEPT ![x] = service.command.handle]
              /\ service' = [service EXCEPT !.at = "assign", !.client = x,
                                           !.result = service.command.handle]
           \/ service' = [service EXCEPT !.at = "refuse", !.result = Error]
              /\ UNCHANGED clients
        /\ UNCHANGED <<driverVars, kernelVars, queue, guestVars, order>>

\* Mutant: the client stays allocated.
ServeCloseKeepsClient ==
    /\ service.at = "close"
    /\ ServiceGoes("reply")
    /\ UNCHANGED <<driverVars, kernelVars, queue, clients, guestVars, order>>

ServeClose ==
    /\ service.at = "close"
    /\ clients' = [clients EXCEPT ![service.command.target] = NoHandle]
    /\ ServiceGoes("reply")
    /\ UNCHANGED <<driverVars, kernelVars, queue, guestVars, order>>

\* The service asserts that the client is allocated, and stops if it is not.
ServeIoctl ==
    /\ service.at = "ioctl"
    /\ ServiceGoes(IF clients[service.command.target] = NoHandle THEN "stopped" ELSE "reply")
    /\ UNCHANGED <<driverVars, kernelVars, queue, clients, guestVars, order>>

\* _IPCAssignDispatchTargetHandle
AssignTarget ==
    LET h == service.command.handle IN
    /\ service.at = "assign"
    /\ slots' = IF Valid(h) THEN [slots EXCEPT ![h[1]].target = service.client] ELSE slots
    /\ ServiceGoes("reply")
    /\ UNCHANGED <<driverVars, pool, counter, replier, response, queue,
                   clients, guestVars, order>>

\* _IPCDestroyResourceHandle, before the reply to an open that was refused,
\* after the reply to a close.
DestroyHandle ==
    LET h == service.command.handle IN
    /\ service.at \in {"refuse", "destroy"}
    /\ slots' = IF Valid(h) THEN [slots EXCEPT ![h[1]] = FreeSlot] ELSE slots
    /\ service' = IF service.at = "refuse" THEN [service EXCEPT !.at = "reply"] ELSE Receiving
    /\ UNCHANGED <<driverVars, pool, counter, replier, response, queue,
                   clients, guestVars, order>>

Reply ==
    /\ service.at = "reply"
    /\ BeginReply(Service, service.command, service.result)
    /\ ServiceGoes("respond")
    /\ UNCHANGED <<free, signaled, callbacks, pool, slots, counter, queue,
                   clients, guestVars, order>>

ReplyRespond ==
    /\ service.at = "respond"
    /\ IPCDriver_HandleResponse(service.command.core)
    /\ ServiceGoes("release")
    /\ UNCHANGED <<pool, slots, counter, replier, queue, clients, guestVars,
                   order>>

ReplyRelease ==
    /\ service.at = "release"
    /\ EndReply(service.command)
    /\ service' = IF service.command.op = "close"
                  THEN [service EXCEPT !.at = "destroy"]
                  ELSE Receiving
    /\ UNCHANGED <<driverVars, slots, counter, response, queue, clients, guestVars,
                   order>>
-----------------------------------------------------------------------------
Call(t) == IOS_Open(t) \/ IOS_Close(t) \/ IOS_Ioctl(t)

ThreadStep(t) ==
    \/ FindSlot(t) \/ ClaimSlot(t) \/ Dispatch(t) \/ SendMessage(t)
    \/ Fail(t) \/ FailRespond(t) \/ FailRelease(t) \/ WaitReturns(t)

ServiceStep ==
    \/ ReceiveMessage \/ ServeOpen \/ ServeClose \/ ServeIoctl
    \/ AssignTarget \/ DestroyHandle \/ Reply \/ ReplyRespond \/ ReplyRelease

\* An assertion that fails ends the emulator.
Next ==
    /\ service.at # "stopped"
    /\ \/ \E t \in Thread : Call(t) \/ ThreadStep(t)
       \/ \E c \in Core : IPCThreadCalls(c)
       \/ ServiceStep

Spec == Init /\ [][Next]_vars

\* Host threads go on and get their mutexes; the scheduler gives a core to
\* every thread that is ready, again and again.
Fairness ==
    /\ SF_vars(ServiceStep)
    /\ \A t \in Thread : SF_vars(ThreadStep(t))
    /\ \A c \in Core : SF_vars(IPCThreadCalls(c))

FairSpec == Spec /\ Fairness
-----------------------------------------------------------------------------
\* A buffer that is free is nowhere else, and every command that was taken from
\* the pool is with a thread, in the queue or with the service.
TypeOK ==
    /\ \A c \in Core : \A b \in free[c] :
          /\ request[c][b] = NoRequest /\ b \notin signaled[c] /\ b # response[c]
          /\ \A i \in DOMAIN queue : queue[i].core = c => queue[i].buffer # b
          /\ \A t \in Thread : CoreOf[t] = c /\ mine[t].buffer = b => pc[t] = "release"
    /\ pool + Len(queue) + Cardinality({t \in Thread : pc[t] \notin {"idle", "wait"}})
          + (IF service.at \in {"receive", "destroy"} THEN 0 ELSE 1) = PoolSize
    /\ Len(queue) <= QueueSize
    /\ \A c \in Core : Len(callbacks[c]) <= CallbackSize

\* The driver finds in its shared area the request that is answered, though the
\* service and the core may answer at once.
ResponsesFindTheirRequest ==
    /\ \A t \in Thread : pc[t] = "respond" => response[CoreOf[t]] = mine[t].buffer
    /\ service.at = "respond" =>
          LET d == service.command IN response[d.core] = d.buffer

\* The kernel passes a request on only while the client is there that its handle
\* opened, or while the service closes it and the handle is not destroyed yet.
PassedOnRightly(t) ==
    LET d == mine'[t].command
        e == service.command
    IN  pc[t] = "dispatch" /\ pc'[t] = "send" /\ d.op # "open" =>
            /\ d.target # NoClient
            /\ \/ clients[d.target] = d.handle
               \/ e.op = "close" /\ e.handle = d.handle /\ e.target = d.target

\* The client is still there when the request is served, unless this is an ioctl of
\* a handle that the game has called to close: then no client is the handle's.
ServedRightly ==
    LET d == service.command IN
    service.at \in {"ioctl", "close"} =>
        \/ clients[d.target] = d.handle
        \/ d.op = "ioctl" /\ d.handle \in closed /\ \A x \in Client : clients[x] # d.handle

\* A request goes to the client that its handle opened, and to no other, when the
\* kernel passes it on and when the service has it, except in the window of a close.
RequestsReachTheirClient ==
    [][\A t \in Thread : PassedOnRightly(t)]_vars /\ []ServedRightly

\* "cemu_assert(sFSAClientArray[clientHandle].isAllocated)": an ioctl finds its
\* client allocated.
IoctlsFindAClient ==
    service.at = "ioctl" => clients[service.command.target] # NoHandle

\* Every client of the service can be reached and closed: the handle that opened
\* it is known to the game or in a call, and its slot leads to the client.
ClientsAreOwned ==
    \A x \in Client :
        LET h == clients[x] IN
        h = NoHandle \/ (service.at = "assign" /\ service.client = x) \/
            /\ Valid(h) /\ slots[h[1]].target = x
            /\ \/ h \in known
               \/ \E c \in Core, b \in Buffer : request[c][b].handle = h
               \/ \E c \in Core, b \in Buffer : request[c][b].result = h
               \/ service.command.handle = h

\* The callbacks of a core run in the order in which its requests were sent.
CallbacksInOrder ==
    \A c \in Core : \A i \in DOMAIN callbacks[c] :
        callbacks[c][i].ok =>
            LET n == Cardinality({j \in 1..i : callbacks[c][j].ok}) IN
            n <= Len(order[c]) /\ callbacks[c][i].param = order[c][n]

\* "a message queue large enough to hold the maximum number of commands": the
\* answer to an asynchronous request finds room in the queue of the IPC thread.
CallbacksAreKept ==
    \A c \in Core :
        response[c] # Nobody /\ request[c][response[c]].param # NoParam =>
            Len(callbacks[c]) < CallbackSize

\* Every call returns, and every asynchronous request is called back, unless the
\* service has stopped at its assertion.
RequestsAreAnswered ==
    /\ \A t \in Thread : pc[t] # "idle" ~> pc[t] = "idle" \/ service.at = "stopped"
    /\ \A c \in Core : \A p \in Param[c] \ {NoParam} :
           Sent(c, p) ~> ~Sent(c, p) \/ service.at = "stopped"
=============================================================================
