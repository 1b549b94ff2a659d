----------------------------- MODULE Ipc_proofs -----------------------------
(***************************************************************************)
(* Proofs about the requests of the guest to a service, for any number of  *)
(* cores, threads, buffers, handle slots and clients.                      *)
(*                                                                         *)
(* BufferPart is the invariant of the buffers, the commands and sMtxReply: *)
(* where a request is, and that a request is in one place.  HandlePart, on *)
(* top of it, is that of the handles: who has a handle, from the claim of  *)
(* its slot to the destruction after its close.  OrderPart, also on top of *)
(* BufferPart, is that of the callbacks: where an asynchronous request is  *)
(* and that these places are in the order of sending.  For every action a  *)
(* lemma ...Does says what it does to the elements of the variables, and   *)
(* lemmas ...Keeps, ...Handles and ...Order that it keeps the three parts. *)
(***************************************************************************)
EXTENDS Ipc, Integers, FiniteSetTheorems, WellFoundedInduction, TLAPS
-----------------------------------------------------------------------------
(* The invariant: who has a request, and the reply of a core.              *)

\* A thread has its request in hand until it is sent or answered, the service
\* until it is answered.
Active(t) == pc[t] \notin {"idle", "wait"}
InHand == {"open", "claim", "dispatch", "send", "fail", "respond"}
Serving == {"open", "close", "ioctl", "assign", "refuse", "reply", "respond", "stopped"}

Ops == {"open", "close", "ioctl"}
HandleType == Nat \X Nat
Params == (UNION {Param[c] : c \in Core}) \cup {NoParam}
RequestType == [op : Ops \cup {"none"}, handle : HandleType, param : Params,
                result : HandleType]
CommandType == [op : Ops, core : Core, buffer : Buffer, handle : HandleType,
                target : Client \cup {NoClient}]

DriverTypes ==
    /\ free \in [Core -> SUBSET Buffer]
    /\ request \in [Core -> [Buffer -> RequestType]]
    /\ signaled \in [Core -> SUBSET Buffer]
    /\ callbacks \in [Core -> Seq([param : Params, ok : BOOLEAN])]
    /\ response \in [Core -> Buffer \cup {Nobody}]
    /\ replier \in [Core -> Thread \cup {Service, Nobody}]

KernelTypes ==
    /\ slots \in [Slot -> [set : BOOLEAN, check : HandleType, target : Client \cup {NoClient}]]
    /\ counter \in Nat \ {0}
    /\ clients \in [Client -> HandleType]

ServiceTypes ==
    /\ queue \in Seq(CommandType)
    /\ service \in [at : Serving \cup {"receive", "release", "destroy"},
                    command : CommandType \cup {NoCommand},
                    client : Client \cup {NoClient}, result : HandleType]
    /\ service.at = "receive" <=> service.command = NoCommand

ThreadTypes ==
    /\ pc \in [Thread -> InHand \cup {"release", "idle", "wait"}]
    /\ mine \in [Thread -> [buffer : Buffer \cup {Nobody},
                            command : CommandType \cup {NoCommand},
                            slot : Slot \cup {0}, async : BOOLEAN]]
    /\ known \in SUBSET HandleType /\ closed \in SUBSET HandleType

Types == DriverTypes /\ KernelTypes /\ ServiceTypes /\ ThreadTypes

\* A thread that is in a call has a buffer, and its command is for it.
OwnCommands ==
    \A t \in Thread :
        /\ pc[t] = "idle" <=> mine[t].buffer = Nobody
        /\ Active(t) => /\ mine[t].command # NoCommand
                        /\ mine[t].command.core = CoreOf[t]
                        /\ mine[t].command.buffer = mine[t].buffer
        /\ pc[t] \in InHand =>
               (mine[t].async <=> request[CoreOf[t]][mine[t].buffer].param # NoParam)
        /\ pc[t] = "wait" => ~mine[t].async
        /\ pc[t] = "claim" => mine[t].slot \in Slot

\* One thread of a core runs.
OneRuns == \A t, u \in Thread : CoreOf[t] = CoreOf[u] /\ Active(t) /\ Active(u) => t = u

\* sMtxReply, and the buffer that is answered under it.
ReplyInv ==
    /\ \A t \in Thread : pc[t] \in {"respond", "release"} => replier[CoreOf[t]] = t
    /\ service.at \in {"respond", "release"} => replier[service.command.core] = Service
    /\ ResponsesFindTheirRequest
    /\ \A c \in Core : response[c] # Nobody =>
           \/ \E t \in Thread : CoreOf[t] = c /\ pc[t] = "respond"
           \/ service.at = "respond" /\ service.command.core = c

(* Where the request in buffer b of core c is. *)
AtThread(t, c, b) == pc[t] \in InHand /\ CoreOf[t] = c /\ mine[t].buffer = b
AtQueue(i, c, b) == queue[i].core = c /\ queue[i].buffer = b
AtService(c, b) == service.at \in Serving /\ service.command.core = c /\ service.command.buffer = b

\* A request is in one place.
OnePlace ==
    \A c \in Core, b \in Buffer :
        /\ AtService(c, b) => \A t \in Thread : ~AtThread(t, c, b)
        /\ \A i \in 1..Len(queue) : AtQueue(i, c, b) =>
               /\ ~AtService(c, b)
               /\ \A t \in Thread : ~AtThread(t, c, b)
               /\ \A j \in 1..Len(queue) : AtQueue(j, c, b) => i = j

Underway(c, b) ==
    \/ \E t \in Thread : AtThread(t, c, b)
    \/ \E i \in 1..Len(queue) : AtQueue(i, c, b)
    \/ AtService(c, b)

\* Who has a buffer.
BufferInv ==
    /\ \A t, u \in Thread :
           CoreOf[t] = CoreOf[u] /\ mine[t].buffer = mine[u].buffer /\ pc[t] # "idle" => t = u
    /\ \A c \in Core, b \in Buffer :
           /\ b \in free[c] =>
                  /\ request[c][b] = NoRequest /\ b \notin signaled[c] /\ ~Underway(c, b)
                  /\ \A t \in Thread : CoreOf[t] = c /\ mine[t].buffer = b =>
                         pc[t] = "release" /\ mine[t].async
           /\ Underway(c, b) => b \notin signaled[c]
           /\ request[c][b].param # NoParam =>
                  \A t \in Thread : CoreOf[t] = c /\ mine[t].buffer = b => pc[t] \in InHand

Busy == {t \in Thread : Active(t)}

\* Every command is in use once.
PoolInv ==
    /\ IsFiniteSet(Busy) /\ pool \in Nat
    /\ pool + Len(queue) + Cardinality(Busy)
          + (IF service.at \in {"receive", "destroy"} THEN 0 ELSE 1) = PoolSize
    /\ Len(queue) <= QueueSize
    /\ \A c \in Core : Len(callbacks[c]) <= CallbackSize

\* A handle that the kernel has made.
Old(h) == h[1] \in Slot /\ h[2] \in 1..counter - 1

\* A command and its request agree until it is answered.
Agrees(d) ==
    LET r == request[d.core][d.buffer] IN
    /\ r.op = d.op
    /\ IF d.op = "open" THEN r.handle = NoHandle ELSE r.handle = d.handle
    /\ d.op # "ioctl" => r.param = NoParam

Agreement ==
    /\ \A t \in Thread : pc[t] \in InHand =>
           /\ Agrees(mine[t].command)
           /\ pc[t] \in {"open", "claim"} => mine[t].command.op = "open"
           /\ pc[t] \in {"dispatch", "send"} => Old(mine[t].command.handle)
           /\ pc[t] = "respond" => request[CoreOf[t]][mine[t].buffer].result = Error
    /\ \A i \in 1..Len(queue) : Agrees(queue[i]) /\ Old(queue[i].handle)
    /\ service.at \in Serving => Agrees(service.command)
    /\ service.at # "receive" => Old(service.command.handle)
    /\ service.at = "respond" =>
           request[service.command.core][service.command.buffer].result = service.result
    /\ service.at \in Ops => service.at = service.command.op
    /\ service.at \in {"assign", "refuse"} => service.command.op = "open"
    /\ service.at = "destroy" => service.command.op = "close"
    /\ service.at = "refuse" => service.result = Error
    /\ service.at = "assign" => service.result = service.command.handle /\ service.client \in Client
    /\ service.at \in {"reply", "respond"} /\ service.command.op = "open" =>
           service.result \in {Error, service.command.handle}
    /\ \A c \in Core, b \in Buffer :
           /\ request[c][b].op = "close" => Old(request[c][b].handle)
           /\ request[c][b].op = "open" /\ b \in signaled[c] /\ request[c][b].result # Error =>
                  Old(request[c][b].result)
    /\ \A h \in known \cup closed : Old(h)


BufferPart == Types /\ OwnCommands /\ OneRuns /\ ReplyInv /\ OnePlace /\ BufferInv
              /\ PoolInv /\ Agreement
-----------------------------------------------------------------------------
(* The types.                                                              *)

LEMMA Constants ==
    /\ \A t \in Thread : CoreOf[t] \in Core
    /\ \A c \in Core : \A p \in Param[c] : p \in Params
    /\ NoParam \in Params
    /\ \A s \in Slot : s \in Nat \ {0}
    /\ 0 \notin Slot /\ NoClient \notin Client
    /\ Nobody \notin Thread /\ Service \notin Thread /\ Nobody # Service
    /\ Nobody \notin Buffer
    /\ PoolSize \in Nat /\ QueueSize \in Nat /\ CallbackSize \in Nat
<1>1. /\ \A t \in Thread : CoreOf[t] \in Core
      /\ \A s \in Slot : s \in Nat \ {0}
      /\ 0 \notin Slot
    BY IpcAssumption
<1>2. ASSUME NEW c \in Core, NEW p \in Param[c] PROVE p \in Params
    BY Zenon, <1>2 DEF Params
<1>3. NoClient \notin Client /\ Nobody # Service /\ Nobody \notin Buffer
      /\ Nobody \notin Thread /\ Service \notin Thread
    BY IpcAssumption
<1>4. PoolSize \in Nat /\ QueueSize \in Nat /\ CallbackSize \in Nat
    BY IpcAssumption
<1>5. NoParam \in Params
    BY DEF Params
<1> QED
    BY <1>1, <1>2, <1>3, <1>4, <1>5

LEMMA Handles ==
    /\ NoHandle \in HandleType /\ Error \in HandleType /\ Ok \in HandleType
    /\ Error # Ok /\ NoHandle # Ok /\ NoHandle # Error
    /\ NoRequest \in RequestType /\ NoRequest.op = "none" /\ NoRequest.param = NoParam
    /\ NoRequest.handle = NoHandle
    /\ NoCommand \notin CommandType /\ NoCommand.op = "none" /\ NoCommand.handle = NoHandle
<1>1. NoHandle \in HandleType /\ Error \in HandleType /\ Ok \in HandleType
      /\ Error # Ok /\ NoHandle # Ok /\ NoHandle # Error
    BY DEF NoHandle, Error, Ok, HandleType
<1>2. NoRequest \in RequestType
    BY <1>1, Constants DEF NoRequest, RequestType
<1>3. /\ NoRequest.op = "none" /\ NoRequest.param = NoParam /\ NoRequest.handle = NoHandle
    BY DEF NoRequest
<1>4. NoCommand.op = "none" /\ NoCommand.handle = NoHandle
    BY DEF NoCommand, Command
<1>5. NoCommand \notin CommandType
    BY <1>4 DEF CommandType, Ops
<1> QED
    BY <1>1, <1>2, <1>3, <1>4, <1>5

LEMMA NewCommand ==
    ASSUME NEW op \in Ops, NEW c \in Core, NEW b \in Buffer, NEW h \in HandleType
    PROVE  /\ Command(op, c, b, h) \in CommandType
           /\ Command(op, c, b, h).op = op /\ Command(op, c, b, h).core = c
           /\ Command(op, c, b, h).buffer = b /\ Command(op, c, b, h).handle = h
BY DEF Command, CommandType

LEMMA BoundedAppend ==
    ASSUME NEW S, NEW q \in Seq(S), NEW x \in S, NEW n \in Nat
    PROVE  LET r == IF Len(q) < n THEN Append(q, x) ELSE q
           IN  r \in Seq(S) /\ (Len(q) <= n => Len(r) <= n)
OBVIOUS

\* The answer to a command.
LEMMA BeginReplyTypes ==
    ASSUME DriverTypes, NEW who \in Thread \cup {Service}, NEW d \in CommandType,
           NEW r \in HandleType, BeginReply(who, d, r), UNCHANGED <<free, signaled, callbacks>>
    PROVE  /\ DriverTypes'
           /\ replier[d.core] = Nobody /\ replier'[d.core] = who
           /\ \A c \in Core : c # d.core => replier'[c] = replier[c] /\ response'[c] = response[c]
           /\ response'[d.core] = d.buffer
           /\ \A c \in Core, b \in Buffer : c # d.core \/ b # d.buffer =>
                  request'[c][b] = request[c][b]
           /\ request'[d.core][d.buffer] = [request[d.core][d.buffer] EXCEPT !.result = r]
<1>1. d.core \in Core /\ d.buffer \in Buffer
    BY DEF CommandType
<1> DEFINE q == [request[d.core][d.buffer] EXCEPT !.result = r]
<1>2. q \in RequestType
    <2>1. request[d.core][d.buffer] \in RequestType
        BY <1>1 DEF DriverTypes
    <2> QED
        BY <2>1 DEF RequestType
<1>3. request' = [request EXCEPT ![d.core] = [request[d.core] EXCEPT ![d.buffer] = q]]
    BY DEF BeginReply
<1> HIDE DEF q
<1>4. request' \in [Core -> [Buffer -> RequestType]]
    BY <1>1, <1>2, <1>3 DEF DriverTypes
<1>5. request'[d.core][d.buffer] = q
      /\ \A c \in Core, b \in Buffer : c # d.core \/ b # d.buffer =>
             request'[c][b] = request[c][b]
    BY <1>1, <1>3 DEF DriverTypes
<1>6. /\ replier[d.core] = Nobody
      /\ replier' = [replier EXCEPT ![d.core] = who]
      /\ response' = [response EXCEPT ![d.core] = d.buffer]
    BY DEF BeginReply
<1>7. DriverTypes'
    BY <1>1, <1>4, <1>6 DEF DriverTypes
<1> QED
    BY <1>1, <1>5, <1>6, <1>7 DEF DriverTypes, q

\* What the driver does with an answer.
LEMMA ResponseTypes ==
    ASSUME DriverTypes, NEW c \in Core, response[c] \in Buffer, IPCDriver_HandleResponse(c),
           UNCHANGED replier
    PROVE  LET b == response[c] IN
           /\ DriverTypes'
           /\ response'[c] = Nobody
           /\ \A d \in Core : d # c =>
                  /\ response'[d] = response[d] /\ signaled'[d] = signaled[d]
                  /\ free'[d] = free[d] /\ request'[d] = request[d]
                  /\ callbacks'[d] = callbacks[d]
           /\ \A a \in Buffer : a # b => request'[c][a] = request[c][a]
           /\ Len(callbacks[c]) <= CallbackSize => Len(callbacks'[c]) <= CallbackSize
           /\ \/ /\ request[c][b].param = NoParam
                 /\ signaled'[c] = signaled[c] \cup {b} /\ free'[c] = free[c]
                 /\ request'[c][b] = request[c][b]
              \/ /\ request[c][b].param # NoParam
                 /\ signaled'[c] = signaled[c] /\ free'[c] = free[c] \cup {b}
                 /\ request'[c][b] = NoRequest
<1> DEFINE b == response[c]
           r == request[c][b]
           msg == [param |-> r.param, ok |-> r.result # Error]
<1>1. response' = [response EXCEPT ![c] = Nobody]
    BY DEF IPCDriver_HandleResponse
<1>2. r \in RequestType
    BY DEF DriverTypes
<1>3. CASE r.param = NoParam
    <2>1. /\ signaled' = [signaled EXCEPT ![c] = @ \cup {b}]
          /\ UNCHANGED <<callbacks, request, free>>
        BY <1>3 DEF IPCDriver_HandleResponse
    <2>2. DriverTypes'
        BY <1>1, <2>1 DEF DriverTypes
    <2> QED
        BY <1>1, <1>3, <2>1, <2>2 DEF DriverTypes
<1>4. CASE r.param # NoParam
    <2>1. /\ callbacks' = [callbacks EXCEPT ![c] =
                               IF Len(@) < CallbackSize THEN Append(@, msg) ELSE @]
          /\ request' = [request EXCEPT ![c][b] = NoRequest]
          /\ free' = [free EXCEPT ![c] = @ \cup {b}]
          /\ UNCHANGED signaled
        BY <1>4 DEF IPCDriver_HandleResponse
    <2>2. msg \in [param : Params, ok : BOOLEAN]
        BY <1>2 DEF RequestType
    <2> HIDE DEF msg
    <2>3. callbacks[c] \in Seq([param : Params, ok : BOOLEAN])
        BY DEF DriverTypes
    <2>4. /\ callbacks'[c] \in Seq([param : Params, ok : BOOLEAN])
          /\ Len(callbacks[c]) <= CallbackSize => Len(callbacks'[c]) <= CallbackSize
          /\ callbacks' \in [Core -> Seq([param : Params, ok : BOOLEAN])]
          /\ \A d \in Core : d # c => callbacks'[d] = callbacks[d]
        <3>1. callbacks'[c] = IF Len(callbacks[c]) < CallbackSize
                              THEN Append(callbacks[c], msg) ELSE callbacks[c]
            BY <2>1 DEF DriverTypes
        <3>2. /\ callbacks'[c] \in Seq([param : Params, ok : BOOLEAN])
              /\ Len(callbacks[c]) <= CallbackSize => Len(callbacks'[c]) <= CallbackSize
            BY <2>2, <2>3, <3>1, Constants, BoundedAppend
        <3>3. callbacks' = [callbacks EXCEPT ![c] = callbacks'[c]]
            BY <2>1 DEF DriverTypes
        <3>4. callbacks' \in [Core -> Seq([param : Params, ok : BOOLEAN])]
            BY <3>2, <3>3 DEF DriverTypes
        <3> QED
            BY <2>1, <3>2, <3>4 DEF DriverTypes
    <2>5. request' \in [Core -> [Buffer -> RequestType]]
        BY <2>1, Handles DEF DriverTypes
    <2>6. DriverTypes'
        BY <1>1, <2>1, <2>4, <2>5 DEF DriverTypes
    <2>7. /\ request'[c][b] = NoRequest
          /\ \A a \in Buffer : a # b => request'[c][a] = request[c][a]
          /\ \A d \in Core : d # c => request'[d] = request[d]
        BY <2>1 DEF DriverTypes
    <2>8. /\ free'[c] = free[c] \cup {b} /\ signaled'[c] = signaled[c]
          /\ \A d \in Core : d # c => free'[d] = free[d] /\ signaled'[d] = signaled[d]
        BY <2>1 DEF DriverTypes
    <2>9. response'[c] = Nobody /\ \A d \in Core : d # c => response'[d] = response[d]
        BY <1>1 DEF DriverTypes
    <2> QED
        BY <1>4, <2>4, <2>6, <2>7, <2>8, <2>9
<1> QED
    BY <1>3, <1>4
-----------------------------------------------------------------------------
(* What the actions do, element by element.                                *)

OthersStay(t) == \A u \in Thread : u # t => pc'[u] = pc[u] /\ mine'[u] = mine[u]

SubmitEffect(t, op, h, p, to, b) ==
    LET c == CoreOf[t] IN
    /\ b \in free[c] /\ pool > 0 /\ pool' = pool - 1
    /\ pc[t] = "idle" /\ Runs(t) /\ pc'[t] = to
    /\ mine'[t] = [buffer |-> b, command |-> Command(op, c, b, h), slot |-> 0,
                   async |-> p # NoParam]
    /\ OthersStay(t)
    /\ free'[c] = free[c] \ {b} /\ signaled'[c] = signaled[c] \ {b}
    /\ request'[c][b] = [op |-> op, handle |-> h, param |-> p, result |-> Ok]
    /\ \A d \in Core : d # c => free'[d] = free[d] /\ signaled'[d] = signaled[d]
                                /\ request'[d] = request[d]
    /\ \A a \in Buffer : a # b => request'[c][a] = request[c][a]
    /\ UNCHANGED <<callbacks, slots, counter, replier, response, queue, service, clients>>

LEMMA SubmitDoes ==
    ASSUME Types, NEW t \in Thread, NEW op \in Ops, NEW h \in HandleType, NEW p \in Params,
           NEW to \in InHand, Submit(t, op, h, p, to),
           known' \in SUBSET HandleType, closed' \in SUBSET HandleType
    PROVE  Types' /\ \E b \in Buffer : SubmitEffect(t, op, h, p, to, b)
<1> DEFINE c == CoreOf[t]
           b == CHOOSE x \in free[c] : TRUE
           r == [op |-> op, handle |-> h, param |-> p, result |-> Ok]
           m == [buffer |-> b, command |-> Command(op, c, b, h), slot |-> 0,
                 async |-> p # NoParam]
<1>1. /\ pc[t] = "idle" /\ Runs(t)
      /\ free[c] # {} /\ pool > 0
      /\ free' = [free EXCEPT ![c] = @ \ {b}]
      /\ request' = [request EXCEPT ![c][b] = r]
      /\ signaled' = [signaled EXCEPT ![c] = @ \ {b}]
      /\ pool' = pool - 1
      /\ mine' = [mine EXCEPT ![t] = m]
      /\ pc' = [pc EXCEPT ![t] = to]
      /\ UNCHANGED <<callbacks, slots, counter, replier, response, queue, service, clients>>
    BY DEF Submit, serviceVars
<1>2. c \in Core
    BY Constants
<1>3. b \in free[c] /\ b \in Buffer
    BY <1>1, <1>2 DEF Types, DriverTypes
<1>4. r \in RequestType
    BY Handles DEF RequestType
<1>5. m \in [buffer : Buffer \cup {Nobody}, command : CommandType \cup {NoCommand},
             slot : Slot \cup {0}, async : BOOLEAN]
    <2>1. Command(op, c, b, h) \in CommandType
        BY <1>2, <1>3, NewCommand
    <2> QED
        BY <1>3, <2>1
<1> HIDE DEF c, b, r, m
<1>6. DriverTypes'
    <2>1. request' \in [Core -> [Buffer -> RequestType]]
        BY <1>1, <1>2, <1>3, <1>4 DEF Types, DriverTypes
    <2> QED
        BY <1>1, <1>2, <2>1 DEF Types, DriverTypes
<1>7. ThreadTypes'
    BY <1>1, <1>5 DEF Types, ThreadTypes
<1>8. KernelTypes' /\ ServiceTypes'
    BY <1>1 DEF Types, KernelTypes, ServiceTypes
<1>9. /\ free'[c] = free[c] \ {b} /\ signaled'[c] = signaled[c] \ {b}
      /\ request'[c][b] = r
      /\ \A d \in Core : d # c => free'[d] = free[d] /\ signaled'[d] = signaled[d]
                                  /\ request'[d] = request[d]
      /\ \A a \in Buffer : a # b => request'[c][a] = request[c][a]
    BY <1>1, <1>2, <1>3 DEF Types, DriverTypes
<1>10. pc'[t] = to /\ mine'[t] = m /\ OthersStay(t)
    BY <1>1 DEF Types, ThreadTypes, OthersStay
<1>11. SubmitEffect(t, op, h, p, to, b)
    BY <1>1, <1>3, <1>9, <1>10 DEF SubmitEffect, c, r, m
<1> QED
    BY <1>3, <1>6, <1>7, <1>8, <1>11 DEF Types

\* p is the request of a callback of core c, which may be that of a failure.
Called(c, p) == \E i \in 1..Len(callbacks[c]) : callbacks[c][i].param = p

\* The game tells asynchronous requests apart.
Fresh(c, p) == p \in Param[c] /\ ~Sent(c, p) /\ ~Called(c, p)

\* Every call of the guest is one of these.
CallEffect(t, op, h, p, to, b) ==
    /\ SubmitEffect(t, op, h, p, to, b)
    /\ UNCHANGED order
    /\ p = NoParam \/ Fresh(CoreOf[t], p)
    /\ \/ op = "open" /\ to = "open" /\ h = NoHandle /\ p = NoParam /\ t \in Opener
          /\ UNCHANGED <<known, closed>>
       \/ op = "close" /\ to = "dispatch" /\ h \in known /\ p = NoParam
          /\ known' = known \ {h} /\ closed' = closed \cup {h}
       \/ op = "ioctl" /\ to \in {"dispatch", "fail"} /\ h \in known \cup closed
          /\ UNCHANGED <<known, closed>>

LEMMA CallDoes ==
    ASSUME Types, NEW t \in Thread, Call(t)
    PROVE  /\ Types'
           /\ \E op \in Ops, h \in HandleType, p \in Params, to \in {"open", "dispatch", "fail"},
                 b \in Buffer : CallEffect(t, op, h, p, to, b)
<1>0. known \in SUBSET HandleType /\ closed \in SUBSET HandleType
    BY DEF Types, ThreadTypes
<1>1. CASE IOS_Open(t)
    <2>1. /\ Submit(t, "open", NoHandle, NoParam, "open") /\ UNCHANGED <<known, closed>>
          /\ t \in Opener
        BY <1>1 DEF IOS_Open
    <2>2. "open" \in Ops /\ "open" \in InHand
        BY DEF Ops, InHand
    <2>3. Types' /\ \E b \in Buffer : SubmitEffect(t, "open", NoHandle, NoParam, "open", b)
        BY <1>0, <2>1, <2>2, Handles, Constants, SubmitDoes
    <2>4. \E b \in Buffer : CallEffect(t, "open", NoHandle, NoParam, "open", b)
        BY <1>1, <2>1, <2>3 DEF CallEffect, IOS_Open, Submit
    <2> QED
        BY <2>2, <2>3, <2>4, Handles, Constants
<1>2. CASE IOS_Close(t)
    <2>1. PICK h \in known : /\ Submit(t, "close", h, NoParam, "dispatch")
                             /\ known' = known \ {h} /\ closed' = closed \cup {h}
        BY <1>2 DEF IOS_Close
    <2>2. "close" \in Ops /\ "dispatch" \in InHand /\ h \in HandleType
          /\ known' \in SUBSET HandleType /\ closed' \in SUBSET HandleType
        BY <1>0, <2>1 DEF Ops, InHand
    <2>3. Types' /\ \E b \in Buffer : SubmitEffect(t, "close", h, NoParam, "dispatch", b)
        BY <2>1, <2>2, Constants, SubmitDoes
    <2>4. \E b \in Buffer : CallEffect(t, "close", h, NoParam, "dispatch", b)
        BY <2>1, <2>3 DEF CallEffect, Submit
    <2> QED
        BY <2>2, <2>3, <2>4, Constants
<1>3. CASE IOS_Ioctl(t)
    <2>1. PICK h \in known \cup closed, to \in {"dispatch", "fail"}, p \in Param[CoreOf[t]] :
              /\ Submit(t, "ioctl", h, p, to)
              /\ UNCHANGED <<known, closed>>
              /\ ~Sent(CoreOf[t], p)
              /\ \A i \in DOMAIN callbacks[CoreOf[t]] : callbacks[CoreOf[t]][i].param # p
        BY <1>3 DEF IOS_Ioctl
    <2>2. "ioctl" \in Ops /\ to \in InHand /\ h \in HandleType /\ p \in Params
        BY <1>0, <2>1, Constants DEF Ops, InHand
    <2>3. Types' /\ \E b \in Buffer : SubmitEffect(t, "ioctl", h, p, to, b)
        BY <1>0, <2>1, <2>2, SubmitDoes
    <2>4. Fresh(CoreOf[t], p) /\ order' = order
        <3>1. DOMAIN callbacks[CoreOf[t]] = 1..Len(callbacks[CoreOf[t]])
            BY Constants DEF Types, DriverTypes
        <3> QED
            BY <2>1, <3>1 DEF Fresh, Called, Submit
    <2>5. \E b \in Buffer : CallEffect(t, "ioctl", h, p, to, b)
        BY <2>1, <2>3, <2>4 DEF CallEffect
    <2> QED
        BY <2>2, <2>3, <2>5
<1> QED
    BY <1>1, <1>2, <1>3 DEF Call
\* The least-number principle, for a set.
LEMMA LeastNumber ==
    ASSUME NEW S \in SUBSET Nat, S # {}
    PROVE  \E x \in S : \A y \in S : x <= y
<1>1. PICK x \in S : \A y \in S : ~ (<<y, x>> \in OpToRel(<, Nat))
    BY WFMin, NatLessThanWellFounded
<1>2. \A y \in S : ~ (y < x)
    BY <1>1 DEF OpToRel
<1> QED
    BY <1>2

MineType == [buffer : Buffer \cup {Nobody}, command : CommandType \cup {NoCommand},
             slot : Slot \cup {0}, async : BOOLEAN]

\* A thread in a call has a command.
LEMMA CommandOfThread ==
    ASSUME Types, OwnCommands, NEW t \in Thread, Active(t)
    PROVE  /\ mine[t].command \in CommandType /\ mine[t] \in MineType
           /\ mine[t].buffer \in Buffer /\ CoreOf[t] \in Core
           /\ mine[t].command.core = CoreOf[t] /\ mine[t].command.buffer = mine[t].buffer
           /\ mine[t].command.op \in Ops /\ mine[t].command.handle \in HandleType
<1>1. mine[t] \in MineType
    BY DEF Types, ThreadTypes, MineType
<1>2. mine[t].command # NoCommand /\ mine[t].command.core = CoreOf[t]
      /\ mine[t].command.buffer = mine[t].buffer /\ pc[t] # "idle"
    BY DEF OwnCommands, Active
<1>3. mine[t].command \in CommandType
    BY <1>1, <1>2 DEF MineType
<1>4. mine[t].command.buffer \in Buffer /\ mine[t].command.op \in Ops
      /\ mine[t].command.handle \in HandleType
    BY <1>3 DEF CommandType
<1> QED
    BY <1>1, <1>2, <1>3, <1>4, Constants

LEMMA InHandIsActive == \A t \in Thread : pc[t] \in InHand \cup {"release"} => Active(t)
BY DEF InHand, Active

\* The steps of a thread that keep its request in its hands.
KeepsRequest(t) ==
    /\ pc[t] \in InHand \ {"fail", "respond"} /\ pc'[t] \in InHand \ {"open", "respond"}
    /\ OthersStay(t)
    /\ mine'[t].buffer = mine[t].buffer /\ mine'[t].async = mine[t].async
    /\ mine'[t].command # NoCommand
    /\ mine'[t].command.core = mine[t].command.core
    /\ mine'[t].command.buffer = mine[t].command.buffer
    /\ mine'[t].command.op = mine[t].command.op
    /\ UNCHANGED <<free, request, signaled, callbacks, pool, replier, response, queue,
                   service, clients, known, closed>>

FindSlotEffect(t) ==
    /\ KeepsRequest(t)
    /\ pc[t] = "open" /\ mine'[t].command = mine[t].command
    /\ UNCHANGED <<slots, counter>>
    /\ \/ pc'[t] = "claim" /\ mine'[t].slot \in Slot /\ ~slots[mine'[t].slot].set
       \/ pc'[t] = "fail"

LEMMA FindSlotDoes ==
    ASSUME Types, OwnCommands, NEW t \in Thread, FindSlot(t)
    PROVE  Types' /\ FindSlotEffect(t)
<1> DEFINE unset == {s \in Slot : ~slots[s].set}
           lowest == CHOOSE s \in unset : \A r \in unset : s <= r
<1>1. /\ pc[t] = "open"
      /\ \/ /\ unset # {} /\ mine' = [mine EXCEPT ![t].slot = lowest]
            /\ pc' = [pc EXCEPT ![t] = "claim"]
         \/ UNCHANGED mine /\ pc' = [pc EXCEPT ![t] = "fail"]
      /\ UNCHANGED <<free, request, signaled, callbacks, pool, slots, counter, replier, response,
                     queue, service, clients, known, closed>>
    BY DEF FindSlot, Goes, driverVars, kernelVars, serviceVars
<1>2. unset # {} => lowest \in unset
    <2> SUFFICES ASSUME unset # {} PROVE \E s \in unset : \A r \in unset : s <= r
        OBVIOUS
    <2>1. unset \in SUBSET Nat
        BY Constants
    <2> HIDE DEF unset
    <2> QED
        BY <2>1, LeastNumber
<1> HIDE DEF lowest
<1>3. /\ mine[t] \in MineType /\ mine[t].command \in CommandType
      /\ mine[t].command # NoCommand
    BY <1>1, CommandOfThread, Handles, InHandIsActive DEF InHand
<1>4. /\ pc'[t] \in {"claim", "fail"}
      /\ \/ pc'[t] = "claim" /\ lowest \in Slot /\ ~slots[lowest].set
            /\ mine'[t] = [mine[t] EXCEPT !.slot = lowest]
         \/ pc'[t] = "fail" /\ mine'[t] = mine[t]
      /\ OthersStay(t)
    BY <1>1, <1>2 DEF Types, ThreadTypes, OthersStay
<1>5. /\ mine'[t] \in MineType /\ mine'[t].command = mine[t].command
      /\ mine'[t].buffer = mine[t].buffer /\ mine'[t].async = mine[t].async
      /\ pc'[t] = "claim" => mine'[t].slot = lowest
    BY <1>3, <1>4 DEF MineType
<1>6. DOMAIN mine' = Thread /\ mine' = [u \in Thread |-> mine'[u]]
    BY <1>1 DEF Types, ThreadTypes
<1>7. mine' \in [Thread -> MineType]
    BY <1>4, <1>5, <1>6 DEF OthersStay, Types, ThreadTypes, MineType
<1>8. Types'
    <2>1. ThreadTypes'
        BY <1>1, <1>7 DEF Types, ThreadTypes, MineType, InHand
    <2>2. DriverTypes' /\ KernelTypes' /\ ServiceTypes'
        BY <1>1 DEF Types, DriverTypes, KernelTypes, ServiceTypes
    <2> QED
        BY <2>1, <2>2 DEF Types
<1>9. KeepsRequest(t)
    BY <1>1, <1>3, <1>4, <1>5 DEF KeepsRequest, InHand
<1> QED
    BY <1>1, <1>4, <1>5, <1>8, <1>9 DEF FindSlotEffect

ClaimSlotEffect(t) ==
    LET s == mine[t].slot h == <<s, counter>> IN
    /\ KeepsRequest(t)
    /\ pc[t] = "claim" /\ pc'[t] = "dispatch" /\ s \in Slot
    /\ mine'[t].command.handle = h /\ h \in HandleType
    /\ slots'[s] = [set |-> TRUE, check |-> h, target |-> NoClient]
    /\ \A r \in Slot : r # s => slots'[r] = slots[r]
    /\ counter' = counter + 1

LEMMA ClaimSlotDoes ==
    ASSUME Types, OwnCommands, NEW t \in Thread, ClaimSlot(t)
    PROVE  Types' /\ ClaimSlotEffect(t)
<1> DEFINE s == mine[t].slot
           h == <<s, counter>>
           d == mine[t].command
<1>1. /\ pc[t] = "claim"
      /\ slots' = [slots EXCEPT ![s] = [set |-> TRUE, check |-> h, target |-> NoClient]]
      /\ counter' = counter + 1
      /\ mine' = [mine EXCEPT ![t].command.handle = h, ![t].slot = 0]
      /\ pc' = [pc EXCEPT ![t] = "dispatch"]
      /\ UNCHANGED <<free, request, signaled, callbacks, pool, replier, response,
                     queue, service, clients, known, closed>>
    BY DEF ClaimSlot, Goes, driverVars, serviceVars
<1>2. mine[t] \in MineType /\ d \in CommandType /\ s \in Slot
    BY <1>1, CommandOfThread, InHandIsActive DEF InHand, OwnCommands
<1>3. h \in HandleType /\ counter \in Nat \ {0} /\ counter + 1 \in Nat \ {0}
    BY <1>2, Constants DEF HandleType, Types, KernelTypes
<1> HIDE DEF s, h
<1>4. [d EXCEPT !.handle = h] \in CommandType
      /\ [d EXCEPT !.handle = h].core = d.core /\ [d EXCEPT !.handle = h].buffer = d.buffer
      /\ [d EXCEPT !.handle = h].op = d.op /\ [d EXCEPT !.handle = h].handle = h
    BY <1>2, <1>3 DEF CommandType
<1> HIDE DEF d
<1>5. mine'[t] = [mine[t] EXCEPT !.command = [d EXCEPT !.handle = h], !.slot = 0]
      /\ OthersStay(t) /\ pc'[t] = "dispatch"
    BY <1>1, <1>2 DEF Types, ThreadTypes, OthersStay, MineType, d
<1>6. /\ mine'[t] \in MineType /\ mine'[t].command = [d EXCEPT !.handle = h]
      /\ mine'[t].buffer = mine[t].buffer /\ mine'[t].async = mine[t].async
    BY <1>2, <1>4, <1>5 DEF MineType
<1>7. mine' = [u \in Thread |-> mine'[u]]
    BY <1>1 DEF Types, ThreadTypes
<1>8. mine' \in [Thread -> MineType]
    BY <1>5, <1>6, <1>7 DEF OthersStay, Types, ThreadTypes, MineType
<1>9. slots'[s] = [set |-> TRUE, check |-> h, target |-> NoClient]
      /\ \A r \in Slot : r # s => slots'[r] = slots[r]
    BY <1>1, <1>2 DEF Types, KernelTypes
<1>10. Types'
    <2>1. ThreadTypes'
        BY <1>1, <1>8 DEF Types, ThreadTypes, MineType, InHand
    <2>2. KernelTypes'
        BY <1>1, <1>2, <1>3 DEF Types, KernelTypes
    <2>3. DriverTypes' /\ ServiceTypes'
        BY <1>1 DEF Types, DriverTypes, ServiceTypes
    <2> QED
        BY <2>1, <2>2, <2>3 DEF Types
<1>11. KeepsRequest(t)
    <2>1. mine'[t].command # NoCommand
        BY <1>4, <1>6, Handles
    <2> QED
        BY <1>1, <1>4, <1>5, <1>6, <2>1 DEF KeepsRequest, InHand, d
<1> QED
    BY <1>1, <1>2, <1>3, <1>4, <1>5, <1>6, <1>9, <1>10, <1>11 DEF ClaimSlotEffect, s, h

DispatchEffect(t) ==
    LET h == mine[t].command.handle IN
    /\ KeepsRequest(t)
    /\ pc[t] = "dispatch" /\ mine'[t].command.handle = h
    /\ UNCHANGED <<slots, counter>>
    /\ \/ Valid(h) /\ pc'[t] = "send" /\ mine'[t].command.target = slots[h[1]].target
       \/ ~Valid(h) /\ pc'[t] = "fail" /\ UNCHANGED mine

LEMMA DispatchDoes ==
    ASSUME Types, OwnCommands, Agreement, NEW t \in Thread, Dispatch(t)
    PROVE  Types' /\ DispatchEffect(t)
<1> DEFINE d == mine[t].command
           h == d.handle
           x == slots[h[1]].target
<1>1. /\ pc[t] = "dispatch"
      /\ \/ Valid(h) /\ mine' = [mine EXCEPT ![t].command.target = x]
            /\ pc' = [pc EXCEPT ![t] = "send"]
         \/ ~Valid(h) /\ UNCHANGED mine /\ pc' = [pc EXCEPT ![t] = "fail"]
      /\ UNCHANGED <<free, request, signaled, callbacks, pool, slots, counter, replier, response,
                     queue, service, clients, known, closed>>
    BY DEF Dispatch, Goes, driverVars, kernelVars, serviceVars
<1>2. mine[t] \in MineType /\ d \in CommandType
    BY <1>1, CommandOfThread, InHandIsActive DEF InHand
<1>3. x \in Client \cup {NoClient}
    <2>1. h[1] \in Slot
        BY <1>1 DEF Agreement, Old, InHand
    <2> QED
        BY <2>1 DEF Types, KernelTypes
<1> HIDE DEF x
<1>4. LET e == [d EXCEPT !.target = x] IN
      /\ e \in CommandType /\ e.core = d.core /\ e.buffer = d.buffer
      /\ e.op = d.op /\ e.handle = d.handle /\ e.target = x
    BY <1>2, <1>3 DEF CommandType
<1> HIDE DEF d
<1>5. /\ \/ pc'[t] = "send" /\ mine'[t] = [mine[t] EXCEPT !.command = [d EXCEPT !.target = x]]
         \/ pc'[t] = "fail" /\ mine'[t] = mine[t]
      /\ OthersStay(t)
    BY <1>1, <1>2 DEF Types, ThreadTypes, OthersStay, MineType, d
<1>6. /\ mine'[t] \in MineType
      /\ mine'[t].command \in CommandType /\ mine'[t].command.core = d.core
      /\ mine'[t].command.buffer = d.buffer
      /\ mine'[t].command.op = d.op /\ mine'[t].command.handle = d.handle
      /\ pc'[t] = "send" => mine'[t].command.target = x
      /\ mine'[t].buffer = mine[t].buffer /\ mine'[t].async = mine[t].async
    BY <1>2, <1>4, <1>5 DEF MineType, d
<1>7. mine' = [u \in Thread |-> mine'[u]]
    BY <1>1 DEF Types, ThreadTypes
<1>8. mine' \in [Thread -> MineType]
    BY <1>5, <1>6, <1>7 DEF OthersStay, Types, ThreadTypes, MineType
<1>9. Types'
    <2>1. ThreadTypes'
        BY <1>1, <1>8 DEF Types, ThreadTypes, MineType, InHand
    <2>2. DriverTypes' /\ KernelTypes' /\ ServiceTypes'
        BY <1>1 DEF Types, DriverTypes, KernelTypes, ServiceTypes
    <2> QED
        BY <2>1, <2>2 DEF Types
<1>10. KeepsRequest(t)
    <2>1. mine'[t].command # NoCommand
        BY <1>6, Handles
    <2> QED
        BY <1>1, <1>5, <1>6, <2>1 DEF KeepsRequest, InHand, d
<1> QED
    <2>1. pc'[t] = "send" \/ pc'[t] = "fail"
        BY <1>5
    <2>2. (Valid(h) /\ pc'[t] = "send") \/ (~Valid(h) /\ pc'[t] = "fail" /\ UNCHANGED mine)
        BY <1>1 DEF Types, ThreadTypes
    <2> QED
        BY <1>1, <1>6, <1>9, <1>10, <2>2 DEF DispatchEffect, d, x

\* A thread leaves the call, or waits for the answer.
LeaveEffect(t) ==
    /\ OthersStay(t)
    /\ \/ mine[t].async /\ pc'[t] = "idle" /\ mine'[t] = AtRest
       \/ ~mine[t].async /\ pc'[t] = "wait" /\ mine'[t] = [AtRest EXCEPT !.buffer = mine[t].buffer]

LEMMA AtRestIs ==
    /\ AtRest \in MineType /\ AtRest.buffer = Nobody /\ ~AtRest.async
    /\ AtRest.command = NoCommand
    /\ \A b \in Buffer : /\ [AtRest EXCEPT !.buffer = b] \in MineType
                         /\ [AtRest EXCEPT !.buffer = b].buffer = b
                         /\ ~[AtRest EXCEPT !.buffer = b].async
                         /\ [AtRest EXCEPT !.buffer = b].command = NoCommand
BY DEF AtRest, MineType

LEMMA LeaveDoes ==
    ASSUME Types, OwnCommands, NEW t \in Thread, Active(t), Leave(t), UNCHANGED <<known, closed>>
    PROVE  ThreadTypes' /\ LeaveEffect(t)
<1> DEFINE m == IF mine[t].async THEN AtRest ELSE [AtRest EXCEPT !.buffer = mine[t].buffer]
           to == IF mine[t].async THEN "idle" ELSE "wait"
<1>1. pc' = [pc EXCEPT ![t] = to] /\ mine' = [mine EXCEPT ![t] = m]
    BY DEF Leave, Goes
<1>2. m \in MineType /\ mine[t] \in MineType
    BY AtRestIs, CommandOfThread
<1>3. mine[t].async \in BOOLEAN
    BY <1>2 DEF MineType
<1>4. to \in {"idle", "wait"}
    OBVIOUS
<1> HIDE DEF m, to
<1>5. ThreadTypes'
    BY <1>1, <1>2, <1>4 DEF Types, ThreadTypes, MineType
<1>6. pc'[t] = to /\ mine'[t] = m /\ OthersStay(t)
    BY <1>1 DEF Types, ThreadTypes, OthersStay
<1> QED
    BY <1>3, <1>5, <1>6 DEF LeaveEffect, m, to

SendEffect(t) ==
    /\ pc[t] = "send"
    /\ LeaveEffect(t)
    /\ queue' = Append(queue, mine[t].command)
    /\ Len(queue) < QueueSize
    /\ UNCHANGED <<free, request, signaled, callbacks, pool, slots, counter, replier, response,
                   service, clients, known, closed>>

LEMMA SendMessageDoes ==
    ASSUME Types, OwnCommands, NEW t \in Thread, SendMessage(t)
    PROVE  /\ Types'
           /\ SendEffect(t) \/ (KeepsRequest(t) /\ pc[t] = "send" /\ pc'[t] = "fail"
                                /\ UNCHANGED <<slots, counter, mine>>)
<1>1. /\ pc[t] = "send"
      /\ UNCHANGED <<free, request, signaled, callbacks, pool, slots, counter, replier, response,
                     service, clients, known, closed>>
    BY DEF SendMessage, driverVars, kernelVars, serviceVars
<1>2. Active(t) /\ mine[t].command \in CommandType
    BY <1>1, CommandOfThread, InHandIsActive DEF InHand
<1>3. DriverTypes' /\ KernelTypes'
    BY <1>1 DEF Types, DriverTypes, KernelTypes
<1>4. CASE Len(queue) < QueueSize
    <2>1. queue' = Append(queue, mine[t].command) /\ Leave(t)
        BY <1>4 DEF SendMessage, Put
    <2>2. ThreadTypes' /\ LeaveEffect(t)
        BY <1>1, <1>2, <2>1, LeaveDoes
    <2>3. ServiceTypes'
        BY <1>1, <1>2, <2>1 DEF Types, ServiceTypes
    <2> QED
        BY <1>1, <1>3, <1>4, <2>1, <2>2, <2>3 DEF Types, SendEffect
<1>5. CASE ~(Len(queue) < QueueSize)
    <2>1. pc' = [pc EXCEPT ![t] = "fail"] /\ UNCHANGED <<queue, mine>>
        BY <1>5 DEF SendMessage, Goes
    <2>2. ThreadTypes' /\ ServiceTypes'
        BY <1>1, <2>1 DEF Types, ThreadTypes, ServiceTypes, InHand
    <2>3. pc'[t] = "fail" /\ OthersStay(t)
        BY <2>1 DEF Types, ThreadTypes, OthersStay
    <2>4. mine[t].command # NoCommand
        BY <1>2, Handles
    <2> QED
        BY <1>1, <1>3, <2>1, <2>2, <2>3, <2>4 DEF Types, KeepsRequest, InHand
<1> QED
    BY <1>4, <1>5

\* An answer is begun for command d with result r.
ReplyEffect(who, d, r) ==
    /\ replier[d.core] = Nobody /\ replier'[d.core] = who
    /\ response'[d.core] = d.buffer
    /\ \A c \in Core : c # d.core => replier'[c] = replier[c] /\ response'[c] = response[c]
    /\ \A c \in Core, b \in Buffer : c # d.core \/ b # d.buffer => request'[c][b] = request[c][b]
    /\ request'[d.core][d.buffer] = [request[d.core][d.buffer] EXCEPT !.result = r]
    /\ UNCHANGED <<free, signaled, callbacks, pool, slots, counter, queue, clients,
                   mine, known, closed>>

FailEffect(t) ==
    /\ pc[t] = "fail" /\ pc'[t] = "respond"
    /\ \A u \in Thread : u # t => pc'[u] = pc[u]
    /\ ReplyEffect(t, mine[t].command, Error)
    /\ UNCHANGED service

LEMMA FailDoes ==
    ASSUME Types, OwnCommands, NEW t \in Thread, Fail(t)
    PROVE  Types' /\ FailEffect(t)
<1>1. /\ pc[t] = "fail" /\ pc' = [pc EXCEPT ![t] = "respond"]
      /\ BeginReply(t, mine[t].command, Error)
      /\ UNCHANGED <<free, signaled, callbacks, pool, slots, counter, queue, service, clients,
                     mine, known, closed>>
    BY DEF Fail, Goes, serviceVars
<1>2. mine[t].command \in CommandType
    BY <1>1, CommandOfThread, InHandIsActive DEF InHand
<1>3. DriverTypes' /\ ReplyEffect(t, mine[t].command, Error)
    BY <1>1, <1>2, BeginReplyTypes, Handles DEF Types, ReplyEffect
<1>4. ThreadTypes' /\ ServiceTypes' /\ KernelTypes'
    BY <1>1 DEF Types, ThreadTypes, ServiceTypes, KernelTypes, InHand
<1>5. pc'[t] = "respond" /\ \A u \in Thread : u # t => pc'[u] = pc[u]
    BY <1>1 DEF Types, ThreadTypes
<1> QED
    BY <1>1, <1>3, <1>4, <1>5 DEF FailEffect, Types

\* The driver has the answer to the request in buffer b of core c.
RespondEffect(c, b) ==
    /\ response'[c] = Nobody
    /\ \A d \in Core : d # c =>
           /\ response'[d] = response[d] /\ signaled'[d] = signaled[d]
           /\ free'[d] = free[d] /\ request'[d] = request[d] /\ callbacks'[d] = callbacks[d]
    /\ \A a \in Buffer : a # b => request'[c][a] = request[c][a]
    /\ Len(callbacks[c]) <= CallbackSize => Len(callbacks'[c]) <= CallbackSize
    /\ \/ /\ request[c][b].param = NoParam
          /\ signaled'[c] = signaled[c] \cup {b} /\ free'[c] = free[c]
          /\ request'[c][b] = request[c][b]
       \/ /\ request[c][b].param # NoParam
          /\ signaled'[c] = signaled[c] /\ free'[c] = free[c] \cup {b}
          /\ request'[c][b] = NoRequest
    /\ UNCHANGED <<pool, slots, counter, replier, queue, clients, mine, known, closed>>

FailRespondEffect(t) ==
    /\ pc[t] = "respond" /\ pc'[t] = "release"
    /\ \A u \in Thread : u # t => pc'[u] = pc[u]
    /\ RespondEffect(CoreOf[t], mine[t].buffer)
    /\ UNCHANGED service

LEMMA FailRespondDoes ==
    ASSUME Types, OwnCommands, ReplyInv, NEW t \in Thread, FailRespond(t)
    PROVE  Types' /\ FailRespondEffect(t)
<1>1. /\ pc[t] = "respond" /\ pc' = [pc EXCEPT ![t] = "release"]
      /\ IPCDriver_HandleResponse(CoreOf[t])
      /\ UNCHANGED <<pool, slots, counter, replier, queue, service, clients, mine, known, closed>>
    BY DEF FailRespond, Goes, serviceVars
<1>2. mine[t].buffer \in Buffer /\ CoreOf[t] \in Core
    BY <1>1, CommandOfThread, InHandIsActive DEF InHand
<1>3. response[CoreOf[t]] = mine[t].buffer
    BY <1>1 DEF ReplyInv, ResponsesFindTheirRequest
<1>4. DriverTypes' /\ RespondEffect(CoreOf[t], mine[t].buffer)
    BY <1>1, <1>2, <1>3, ResponseTypes DEF Types, RespondEffect
<1>5. ThreadTypes' /\ ServiceTypes' /\ KernelTypes'
    BY <1>1 DEF Types, ThreadTypes, ServiceTypes, KernelTypes, InHand
<1>6. pc'[t] = "release" /\ \A u \in Thread : u # t => pc'[u] = pc[u]
    BY <1>1 DEF Types, ThreadTypes
<1> QED
    BY <1>1, <1>4, <1>5, <1>6 DEF FailRespondEffect, Types

\* A command is back in the pool.
ReleaseEffect(c) ==
    /\ pool' = pool + 1 /\ replier'[c] = Nobody
    /\ \A d \in Core : d # c => replier'[d] = replier[d]
    /\ UNCHANGED <<free, request, signaled, callbacks, response, queue, clients, slots, counter,
                   known, closed>>

FailReleaseEffect(t) ==
    /\ pc[t] = "release" /\ LeaveEffect(t)
    /\ ReleaseEffect(CoreOf[t])
    /\ UNCHANGED service

LEMMA FailReleaseDoes ==
    ASSUME Types, OwnCommands, NEW t \in Thread, FailRelease(t)
    PROVE  Types' /\ FailReleaseEffect(t)
<1>1. /\ pc[t] = "release" /\ EndReply(mine[t].command) /\ Leave(t)
      /\ UNCHANGED <<free, request, signaled, callbacks, slots, counter, response, queue,
                     service, clients, known, closed>>
    BY DEF FailRelease, driverVars, serviceVars
<1>2. Active(t) /\ mine[t].command.core = CoreOf[t] /\ CoreOf[t] \in Core
    BY <1>1, CommandOfThread, InHandIsActive
<1>3. pool' = pool + 1 /\ replier' = [replier EXCEPT ![CoreOf[t]] = Nobody]
    BY <1>1, <1>2 DEF EndReply
<1>4. ThreadTypes' /\ LeaveEffect(t)
    BY <1>1, <1>2, LeaveDoes
<1>5. DriverTypes' /\ KernelTypes' /\ ServiceTypes'
    BY <1>1, <1>2, <1>3 DEF Types, DriverTypes, KernelTypes, ServiceTypes
<1>6. ReleaseEffect(CoreOf[t])
    BY <1>1, <1>2, <1>3 DEF ReleaseEffect, Types, DriverTypes
<1> QED
    BY <1>1, <1>4, <1>5, <1>6 DEF FailReleaseEffect, Types

WaitReturnsEffect(t) ==
    LET c == CoreOf[t] b == mine[t].buffer r == request[c][b] IN
    /\ pc[t] = "wait" /\ Runs(t) /\ b \in signaled[c]
    /\ pc'[t] = "idle" /\ mine'[t] = AtRest /\ OthersStay(t)
    /\ signaled'[c] = signaled[c] \ {b} /\ free'[c] = free[c] \cup {b}
    /\ request'[c][b] = NoRequest
    /\ \A d \in Core : d # c => /\ signaled'[d] = signaled[d] /\ free'[d] = free[d]
                                /\ request'[d] = request[d]
    /\ \A a \in Buffer : a # b => request'[c][a] = request[c][a]
    /\ known' = IF r.op = "open" /\ r.result # Error THEN known \cup {r.result}
                ELSE IF r.op = "close" /\ r.result = Error THEN known \cup {r.handle}
                ELSE known
    /\ closed' = IF r.op = "close" /\ r.result = Error THEN closed \ {r.handle} ELSE closed
    /\ UNCHANGED <<callbacks, pool, slots, counter, replier, response, queue, service, clients>>

LEMMA WaitReturnsDoes ==
    ASSUME Types, OwnCommands, NEW t \in Thread, WaitReturns(t)
    PROVE  Types' /\ WaitReturnsEffect(t) /\ mine[t].buffer \in Buffer
<1> DEFINE c == CoreOf[t]
           b == mine[t].buffer
           r == request[c][b]
<1>1. /\ pc[t] = "wait" /\ Runs(t) /\ b \in signaled[c]
      /\ signaled' = [signaled EXCEPT ![c] = @ \ {b}]
      /\ request' = [request EXCEPT ![c][b] = NoRequest]
      /\ free' = [free EXCEPT ![c] = @ \cup {b}]
      /\ known' = IF r.op = "open" /\ r.result # Error THEN known \cup {r.result}
                  ELSE IF r.op = "close" /\ r.result = Error THEN known \cup {r.handle}
                  ELSE known
      /\ closed' = IF r.op = "close" /\ r.result = Error THEN closed \ {r.handle} ELSE closed
      /\ pc' = [pc EXCEPT ![t] = "idle"] /\ mine' = [mine EXCEPT ![t] = AtRest]
      /\ UNCHANGED <<callbacks, pool, slots, counter, replier, response, queue, service, clients>>
    BY DEF WaitReturns, Goes, kernelVars, serviceVars
<1>2. c \in Core /\ b \in Buffer
    BY <1>1, Constants DEF Types, DriverTypes
<1>3. r \in RequestType
    BY <1>2 DEF Types, DriverTypes
<1>4. r.result \in HandleType /\ r.handle \in HandleType
    BY <1>3 DEF RequestType
<1> HIDE DEF r, b, c
<1>5. DriverTypes'
    <2>1. request' \in [Core -> [Buffer -> RequestType]]
        BY <1>1, <1>2, Handles DEF Types, DriverTypes
    <2> QED
        BY <1>1, <1>2, <2>1 DEF Types, DriverTypes
<1>6. ThreadTypes'
    <2>1. mine' \in [Thread -> MineType]
        BY <1>1, AtRestIs DEF Types, ThreadTypes, MineType
    <2>2. known' \in SUBSET HandleType /\ closed' \in SUBSET HandleType
        BY <1>1, <1>4 DEF Types, ThreadTypes
    <2> QED
        BY <1>1, <2>1, <2>2 DEF Types, ThreadTypes, MineType
<1>7. ServiceTypes' /\ KernelTypes'
    BY <1>1 DEF Types, ServiceTypes, KernelTypes
<1>8. pc'[t] = "idle" /\ mine'[t] = AtRest /\ OthersStay(t)
    BY <1>1 DEF Types, ThreadTypes, OthersStay
<1>9. /\ signaled'[c] = signaled[c] \ {b} /\ free'[c] = free[c] \cup {b}
      /\ request'[c][b] = NoRequest
      /\ \A d \in Core : d # c => /\ signaled'[d] = signaled[d] /\ free'[d] = free[d]
                                  /\ request'[d] = request[d]
      /\ \A a \in Buffer : a # b => request'[c][a] = request[c][a]
    BY <1>1, <1>2 DEF Types, DriverTypes
<1>10. WaitReturnsEffect(t)
    BY <1>1, <1>8, <1>9 DEF WaitReturnsEffect, r, b, c
<1> QED
    BY <1>2, <1>5, <1>6, <1>7, <1>10 DEF Types, b

LEMMA IPCThreadCallsDoes ==
    ASSUME Types, NEW c \in Core, IPCThreadCalls(c)
    PROVE  /\ Types'
           /\ \A d \in Core : Len(callbacks[d]) <= CallbackSize => Len(callbacks'[d]) <= CallbackSize
           /\ UNCHANGED <<free, request, signaled, response, pool, slots, counter, replier,
                          queue, service, clients, pc, mine, known, closed>>
<1> DEFINE S == [param : Params, ok : BOOLEAN]
<1>1. /\ callbacks[c] # <<>> /\ callbacks' = [callbacks EXCEPT ![c] = Tail(@)]
      /\ UNCHANGED <<free, request, signaled, response, pool, slots, counter, replier,
                     queue, service, clients, pc, mine, known, closed>>
    BY DEF IPCThreadCalls, kernelVars, serviceVars, guestVars
<1>2. callbacks \in [Core -> Seq(S)]
    BY DEF Types, DriverTypes
<1> HIDE DEF S
<1>3. /\ Tail(callbacks[c]) \in Seq(S)
      /\ Len(callbacks[c]) <= CallbackSize => Len(Tail(callbacks[c])) <= CallbackSize
    BY <1>1, <1>2, Constants
<1>4. /\ callbacks' \in [Core -> Seq(S)]
      /\ \A d \in Core : Len(callbacks[d]) <= CallbackSize => Len(callbacks'[d]) <= CallbackSize
    BY <1>1, <1>2, <1>3
<1> QED
    BY <1>1, <1>4 DEF S, Types, DriverTypes, KernelTypes, ServiceTypes, ThreadTypes

ServiceType == [at : Serving \cup {"receive", "release", "destroy"},
                command : CommandType \cup {NoCommand},
                client : Client \cup {NoClient}, result : HandleType]

LEMMA CommandOfService ==
    ASSUME Types, service.at # "receive"
    PROVE  /\ service.command \in CommandType /\ service.command # NoCommand
           /\ service.command.core \in Core /\ service.command.buffer \in Buffer
           /\ service.command.op \in Ops /\ service.command.handle \in HandleType
           /\ service.command.target \in Client \cup {NoClient}
<1>1. service.command \in CommandType /\ service.command # NoCommand
    BY Handles DEF Types, ServiceTypes
<1> QED
    BY <1>1 DEF CommandType

ReceiveEffect ==
    /\ service.at = "receive" /\ Len(queue) \in Nat \ {0}
    /\ queue[1] \in CommandType
    /\ service'.at = queue[1].op /\ service'.command = queue[1]
    /\ service'.result = Ok
    /\ Len(queue') = Len(queue) - 1
    /\ \A i \in 1..Len(queue') : queue'[i] = queue[i + 1]
    /\ UNCHANGED <<free, request, signaled, callbacks, pool, slots, counter, replier, response,
                   clients, pc, mine, known, closed>>

LEMMA ReceiveMessageDoes ==
    ASSUME Types, ReceiveMessage
    PROVE  Types' /\ ReceiveEffect
<1>1. /\ service.at = "receive" /\ queue # <<>>
      /\ service' = [Receiving EXCEPT !.at = Head(queue).op, !.command = Head(queue)]
      /\ queue' = Tail(queue)
      /\ UNCHANGED <<free, request, signaled, callbacks, pool, slots, counter, replier, response,
                     clients, pc, mine, known, closed>>
    BY DEF ReceiveMessage, driverVars, kernelVars, guestVars
<1>2. queue \in Seq(CommandType)
    BY DEF Types, ServiceTypes
<1>3. /\ Len(queue) \in Nat \ {0} /\ Head(queue) = queue[1] /\ queue[1] \in CommandType
      /\ queue' \in Seq(CommandType) /\ Len(queue') = Len(queue) - 1
      /\ \A i \in 1..Len(queue') : queue'[i] = queue[i + 1]
    <2> HIDE DEF CommandType
    <2> QED
        BY <1>1, <1>2
<1> DEFINE d == queue[1]
<1>4. d \in CommandType /\ d.op \in Ops
    BY <1>3 DEF CommandType
<1>5. service' = [Receiving EXCEPT !.at = d.op, !.command = d]
    BY <1>1, <1>3
<1> HIDE DEF d
<1>6. /\ service'.at = d.op /\ service'.command = d /\ service'.result = Ok
      /\ service' \in ServiceType
    BY <1>4, <1>5, Handles DEF ServiceType, Receiving, Serving, Ops
<1>7. ServiceTypes'
    <2>1. service'.at # "receive" /\ service'.command # NoCommand
        BY <1>4, <1>6, Handles DEF Ops
    <2> QED
        BY <1>3, <1>6, <2>1 DEF ServiceTypes, ServiceType
<1>8. DriverTypes' /\ KernelTypes' /\ ThreadTypes'
    BY <1>1 DEF Types, DriverTypes, KernelTypes, ThreadTypes
<1> QED
    BY <1>1, <1>3, <1>6, <1>7, <1>8 DEF Types, ReceiveEffect, d

\* The steps of the service before it answers.
ServiceMoves ==
    /\ service.at \in {"open", "close", "ioctl", "assign", "refuse"}
    /\ service'.at \in {"assign", "refuse", "reply", "stopped"}
    /\ service'.command = service.command
    /\ service'.at = "assign" => service.at = "open"
                                 /\ service'.result = service.command.handle /\ service'.client \in Client
    /\ service'.at = "refuse" => service.at = "open" /\ service'.result = Error
    /\ service'.at = "reply" => service.at # "open" /\ service'.result = service.result
    /\ service'.at = "stopped" => service.at = "ioctl" /\ service'.result = service.result
    /\ UNCHANGED <<free, request, signaled, callbacks, pool, counter, replier, response, queue,
                   pc, mine, known, closed>>

\* The service has changed and its types have not.
LEMMA ServiceStaysTyped ==
    ASSUME Types, service' \in ServiceType, service'.at # "receive", service'.command = service.command,
           service.at # "receive", KernelTypes',
           UNCHANGED <<free, request, signaled, callbacks, replier, response, queue, pc, mine, known,
                       closed>>
    PROVE  Types'
<1>1. service'.command # NoCommand
    BY CommandOfService
<1>2. ServiceTypes'
    BY <1>1 DEF Types, ServiceTypes, ServiceType
<1>3. DriverTypes' /\ ThreadTypes'
    BY DEF Types, DriverTypes, ThreadTypes
<1> QED
    BY <1>2, <1>3 DEF Types

ServeOpenEffect ==
    LET h == service.command.handle IN
    /\ ServiceMoves /\ service.at = "open" /\ UNCHANGED slots
    /\ \/ /\ service'.at = "assign" /\ clients[service'.client] = NoHandle
          /\ clients'[service'.client] = h
          /\ \A y \in Client : y # service'.client => clients'[y] = clients[y]
       \/ service'.at = "refuse" /\ UNCHANGED clients

LEMMA ServeOpenDoes ==
    ASSUME Types, ServeOpen
    PROVE  Types' /\ ServeOpenEffect
<1> DEFINE unused == {y \in Client : clients[y] = NoHandle}
           x == CHOOSE y \in unused : TRUE
           h == service.command.handle
<1>1. /\ service.at = "open"
      /\ \/ /\ unused # {} /\ clients' = [clients EXCEPT ![x] = h]
            /\ service' = [service EXCEPT !.at = "assign", !.client = x, !.result = h]
         \/ service' = [service EXCEPT !.at = "refuse", !.result = Error] /\ UNCHANGED clients
      /\ UNCHANGED <<free, request, signaled, callbacks, pool, slots, counter, replier, response, queue,
                     pc, mine, known, closed>>
    BY DEF ServeOpen, driverVars, kernelVars, guestVars
<1>2. service \in ServiceType /\ service.command \in CommandType /\ h \in HandleType
    BY <1>1, CommandOfService DEF Types, ServiceTypes, ServiceType
<1>3. unused # {} => x \in Client /\ clients[x] = NoHandle
    OBVIOUS
<1> HIDE DEF x, h, unused
<1>4. /\ service' \in ServiceType /\ service'.command = service.command
      /\ \/ /\ service'.at = "assign" /\ service'.client = x /\ service'.result = h
            /\ x \in Client /\ clients[x] = NoHandle
            /\ clients' = [clients EXCEPT ![x] = h]
         \/ service'.at = "refuse" /\ service'.result = Error /\ UNCHANGED clients
    <2> USE <1>2, <1>3, Handles DEF ServiceType, Serving
    <2>1. CASE /\ unused # {} /\ clients' = [clients EXCEPT ![x] = h]
               /\ service' = [service EXCEPT !.at = "assign", !.client = x, !.result = h]
        BY <2>1
    <2>2. CASE service' = [service EXCEPT !.at = "refuse", !.result = Error] /\ UNCHANGED clients
        BY <2>2
    <2> QED
        BY <1>1, <2>1, <2>2
<1>5. KernelTypes'
    BY <1>1, <1>2, <1>4 DEF Types, KernelTypes
<1>6. Types'
    BY <1>1, <1>4, <1>5, ServiceStaysTyped
<1>7. ServiceMoves
    BY <1>1, <1>4 DEF ServiceMoves, h
<1> QED
    BY <1>1, <1>2, <1>4, <1>6, <1>7 DEF ServeOpenEffect, h, Types, KernelTypes

\* A close frees the client it was sent to.
ServeCloseEffect ==
    /\ ServiceMoves /\ service.at = "close" /\ service'.at = "reply" /\ UNCHANGED slots
    /\ \A x \in Client : clients'[x] = IF x = service.command.target THEN NoHandle ELSE clients[x]

LEMMA ServeCloseDoes ==
    ASSUME Types, ServeClose
    PROVE  Types' /\ ServeCloseEffect
<1>1. /\ service.at = "close"
      /\ clients' = [clients EXCEPT ![service.command.target] = NoHandle]
      /\ service' = [service EXCEPT !.at = "reply"]
      /\ UNCHANGED <<free, request, signaled, callbacks, pool, slots, counter, replier, response, queue,
                     pc, mine, known, closed>>
    BY DEF ServeClose, ServiceGoes, driverVars, kernelVars, guestVars
<1>2. /\ service' \in ServiceType /\ service'.command = service.command
      /\ service'.at = "reply" /\ service'.result = service.result
    BY <1>1 DEF Types, ServiceTypes, ServiceType, Serving
<1>3. KernelTypes'
    BY <1>1, Handles DEF Types, KernelTypes
<1>4. Types'
    BY <1>1, <1>2, <1>3, ServiceStaysTyped
<1>5. ServiceMoves
    BY <1>1, <1>2 DEF ServiceMoves
<1>6. \A x \in Client : clients'[x] = IF x = service.command.target THEN NoHandle ELSE clients[x]
    BY <1>1 DEF Types, KernelTypes
<1> QED
    BY <1>1, <1>2, <1>4, <1>5, <1>6 DEF ServeCloseEffect

ServeIoctlEffect ==
    /\ ServiceMoves /\ service.at = "ioctl" /\ service'.at \in {"reply", "stopped"}
    /\ UNCHANGED <<slots, clients>>

LEMMA ServeIoctlDoes ==
    ASSUME Types, ServeIoctl
    PROVE  Types' /\ ServeIoctlEffect
<1>1. /\ service.at = "ioctl"
      /\ \E to \in {"reply", "stopped"} : service' = [service EXCEPT !.at = to]
      /\ UNCHANGED <<free, request, signaled, callbacks, pool, slots, counter, replier, response, queue,
                     clients, pc, mine, known, closed>>
    BY DEF ServeIoctl, ServiceGoes, driverVars, kernelVars, guestVars
<1>2. /\ service' \in ServiceType /\ service'.command = service.command
      /\ service'.at \in {"reply", "stopped"} /\ service'.result = service.result
    BY <1>1 DEF Types, ServiceTypes, ServiceType, Serving
<1>3. KernelTypes'
    BY <1>1 DEF Types, KernelTypes
<1>4. Types'
    BY <1>1, <1>2, <1>3, ServiceStaysTyped
<1> QED
    BY <1>1, <1>2, <1>4 DEF ServeIoctlEffect, ServiceMoves

SlotType == [set : BOOLEAN, check : HandleType, target : Client \cup {NoClient}]

AssignTargetEffect ==
    LET h == service.command.handle IN
    /\ ServiceMoves /\ service.at = "assign" /\ service'.at = "reply" /\ UNCHANGED clients
    /\ h[1] \in Slot
    /\ \A s \in Slot : s # h[1] => slots'[s] = slots[s]
    /\ \/ Valid(h) /\ slots'[h[1]] = [slots[h[1]] EXCEPT !.target = service.client]
       \/ ~Valid(h) /\ slots'[h[1]] = slots[h[1]]

LEMMA AssignTargetDoes ==
    ASSUME Types, Agreement, AssignTarget
    PROVE  Types' /\ AssignTargetEffect
<1> DEFINE h == service.command.handle
<1>1. /\ service.at = "assign"
      /\ slots' = IF Valid(h) THEN [slots EXCEPT ![h[1]].target = service.client] ELSE slots
      /\ service' = [service EXCEPT !.at = "reply"]
      /\ UNCHANGED <<free, request, signaled, callbacks, pool, counter, replier, response, queue,
                     clients, pc, mine, known, closed>>
    BY DEF AssignTarget, ServiceGoes, driverVars, guestVars
<1>2. /\ service' \in ServiceType /\ service'.command = service.command
      /\ service'.at = "reply" /\ service'.result = service.result
      /\ service.client \in Client \cup {NoClient}
    BY <1>1 DEF Types, ServiceTypes, ServiceType, Serving
<1>3. h[1] \in Slot
    BY <1>1 DEF Agreement, Old
<1> HIDE DEF h
<1> DEFINE e == [slots[h[1]] EXCEPT !.target = service.client]
<1>4. slots \in [Slot -> SlotType] /\ e \in SlotType
    BY <1>2, <1>3 DEF Types, KernelTypes, SlotType
<1>5. slots' = IF Valid(h) THEN [slots EXCEPT ![h[1]] = e] ELSE slots
    BY <1>1, <1>3
<1> HIDE DEF e
<1>6. KernelTypes'
    <2>1. slots' \in [Slot -> SlotType]
        BY <1>3, <1>4, <1>5
    <2> QED
        BY <1>1, <2>1 DEF Types, KernelTypes, SlotType
<1>7. Types'
    BY <1>1, <1>2, <1>6, ServiceStaysTyped
<1>8. /\ \A s \in Slot : s # h[1] => slots'[s] = slots[s]
      /\ \/ Valid(h) /\ slots'[h[1]] = e
         \/ ~Valid(h) /\ slots'[h[1]] = slots[h[1]]
    BY <1>3, <1>4, <1>5
<1>9. ServiceMoves
    BY <1>1, <1>2 DEF ServiceMoves
<1> QED
    BY <1>1, <1>2, <1>3, <1>7, <1>8, <1>9 DEF AssignTargetEffect, e, h

\* The slot of the handle is free if the handle is valid.
Frees(h) ==
    /\ h[1] \in Slot
    /\ \A s \in Slot : s # h[1] => slots'[s] = slots[s]
    /\ \/ Valid(h) /\ slots'[h[1]] = FreeSlot
       \/ ~Valid(h) /\ slots'[h[1]] = slots[h[1]]
    /\ UNCHANGED clients

RefuseEffect ==
    ServiceMoves /\ service.at = "refuse" /\ service'.at = "reply" /\ Frees(service.command.handle)

DestroyEffect ==
    /\ service.at = "destroy" /\ service' = Receiving /\ Frees(service.command.handle)
    /\ UNCHANGED <<free, request, signaled, callbacks, pool, counter, replier, response, queue,
                   pc, mine, known, closed>>

LEMMA ReceivingIs ==
    /\ Receiving \in ServiceType /\ Receiving.at = "receive" /\ Receiving.command = NoCommand
BY Handles DEF Receiving, ServiceType

LEMMA DestroyHandleDoes ==
    ASSUME Types, Agreement, DestroyHandle
    PROVE  Types' /\ (RefuseEffect \/ DestroyEffect)
<1> DEFINE h == service.command.handle
<1>1. /\ service.at \in {"refuse", "destroy"}
      /\ slots' = IF Valid(h) THEN [slots EXCEPT ![h[1]] = FreeSlot] ELSE slots
      /\ service' = IF service.at = "refuse" THEN [service EXCEPT !.at = "reply"] ELSE Receiving
      /\ UNCHANGED <<free, request, signaled, callbacks, pool, counter, replier, response, queue,
                     clients, pc, mine, known, closed>>
    BY DEF DestroyHandle, driverVars, guestVars
<1>2. h[1] \in Slot
    BY <1>1 DEF Agreement, Old
<1> HIDE DEF h
<1>3. FreeSlot \in SlotType /\ slots \in [Slot -> SlotType]
    BY Handles DEF FreeSlot, SlotType, Types, KernelTypes
<1>4. KernelTypes'
    <2>1. slots' \in [Slot -> SlotType]
        BY <1>1, <1>2, <1>3
    <2> QED
        BY <1>1, <2>1 DEF Types, KernelTypes, SlotType
<1>5. Frees(h)
    BY <1>1, <1>2, <1>3 DEF Frees
<1>6. CASE service.at = "refuse"
    <2>1. /\ service' \in ServiceType /\ service'.command = service.command
          /\ service'.at = "reply" /\ service'.result = service.result
        BY <1>1, <1>6 DEF Types, ServiceTypes, ServiceType, Serving
    <2>2. Types'
        BY <1>1, <1>4, <1>6, <2>1, ServiceStaysTyped
    <2>3. ServiceMoves
        BY <1>1, <1>6, <2>1 DEF ServiceMoves
    <2> QED
        BY <1>5, <1>6, <2>1, <2>2, <2>3 DEF RefuseEffect, h
<1>7. CASE service.at = "destroy"
    <2>1. service' = Receiving
        BY <1>1, <1>7
    <2>2. ServiceTypes'
        BY <1>1, <2>1, ReceivingIs DEF Types, ServiceTypes, ServiceType
    <2>3. DriverTypes' /\ ThreadTypes'
        BY <1>1 DEF Types, DriverTypes, ThreadTypes
    <2> QED
        BY <1>1, <1>4, <1>5, <1>7, <2>1, <2>2, <2>3 DEF DestroyEffect, Types, h
<1> QED
    BY <1>1, <1>6, <1>7

ServiceReplyEffect ==
    /\ service.at = "reply" /\ service'.at = "respond" /\ service'.command = service.command
    /\ service'.result = service.result
    /\ ReplyEffect(Service, service.command, service.result)
    /\ UNCHANGED pc

LEMMA ReplyDoes ==
    ASSUME Types, Reply
    PROVE  Types' /\ ServiceReplyEffect
<1>1. /\ service.at = "reply"
      /\ BeginReply(Service, service.command, service.result)
      /\ service' = [service EXCEPT !.at = "respond"]
      /\ UNCHANGED <<free, signaled, callbacks, pool, slots, counter, queue,
                     clients, pc, mine, known, closed>>
    BY DEF Reply, ServiceGoes, guestVars
<1>2. /\ service' \in ServiceType /\ service'.command = service.command
      /\ service'.at = "respond" /\ service'.result = service.result
      /\ service.result \in HandleType
    BY <1>1 DEF Types, ServiceTypes, ServiceType, Serving
<1>3. service.command \in CommandType /\ service.command # NoCommand
    BY <1>1, CommandOfService
<1>4. DriverTypes' /\ ReplyEffect(Service, service.command, service.result)
    BY <1>1, <1>2, <1>3, BeginReplyTypes DEF Types, ReplyEffect
<1>5. ThreadTypes' /\ KernelTypes' /\ ServiceTypes'
    <2>1. ThreadTypes' /\ KernelTypes'
        BY <1>1 DEF Types, ThreadTypes, KernelTypes
    <2>2. ServiceTypes'
        BY <1>1, <1>2, <1>3 DEF Types, ServiceTypes, ServiceType
    <2> QED
        BY <2>1, <2>2
<1> QED
    BY <1>1, <1>2, <1>4, <1>5 DEF Types, ServiceReplyEffect

ServiceRespondEffect ==
    /\ service.at = "respond" /\ service'.at = "release" /\ service'.command = service.command
    /\ service'.result = service.result
    /\ RespondEffect(service.command.core, service.command.buffer)
    /\ UNCHANGED pc

LEMMA ReplyRespondDoes ==
    ASSUME Types, ReplyInv, ReplyRespond
    PROVE  Types' /\ ServiceRespondEffect
<1> DEFINE c == service.command.core
           b == service.command.buffer
<1>1. /\ service.at = "respond"
      /\ IPCDriver_HandleResponse(c)
      /\ service' = [service EXCEPT !.at = "release"]
      /\ UNCHANGED <<pool, slots, counter, replier, queue, clients, pc, mine, known, closed>>
    BY DEF ReplyRespond, ServiceGoes, guestVars
<1>2. /\ service' \in ServiceType /\ service'.command = service.command
      /\ service'.at = "release" /\ service'.result = service.result
    BY <1>1 DEF Types, ServiceTypes, ServiceType
<1>3. service.command # NoCommand /\ c \in Core /\ b \in Buffer
    BY <1>1, CommandOfService
<1>4. response[c] = b
    BY <1>1 DEF ReplyInv, ResponsesFindTheirRequest
<1> HIDE DEF c, b
<1>5. DriverTypes' /\ RespondEffect(c, b)
    BY <1>1, <1>3, <1>4, ResponseTypes DEF Types, RespondEffect
<1>6. ThreadTypes' /\ KernelTypes'
    BY <1>1 DEF Types, ThreadTypes, KernelTypes
<1>7. ServiceTypes'
    BY <1>1, <1>2, <1>3 DEF Types, ServiceTypes, ServiceType
<1> QED
    BY <1>1, <1>2, <1>5, <1>6, <1>7 DEF Types, ServiceRespondEffect, c, b

ServiceReleaseEffect ==
    /\ service.at = "release"
    /\ \/ /\ service.command.op = "close" /\ service'.at = "destroy"
          /\ service'.command = service.command /\ service'.result = service.result
       \/ service.command.op # "close" /\ service' = Receiving
    /\ ReleaseEffect(service.command.core)
    /\ UNCHANGED <<pc, mine>>

LEMMA ReplyReleaseDoes ==
    ASSUME Types, ReplyRelease
    PROVE  Types' /\ ServiceReleaseEffect
<1> DEFINE c == service.command.core
<1>1. /\ service.at = "release"
      /\ EndReply(service.command)
      /\ service' = IF service.command.op = "close" THEN [service EXCEPT !.at = "destroy"]
                    ELSE Receiving
      /\ UNCHANGED <<free, request, signaled, callbacks, slots, counter, response, queue, clients,
                     pc, mine, known, closed>>
    BY DEF ReplyRelease, driverVars, guestVars
<1>2. service.command # NoCommand /\ c \in Core
    BY <1>1, CommandOfService
<1>3. pool' = pool + 1 /\ replier' = [replier EXCEPT ![c] = Nobody]
    BY <1>1 DEF EndReply
<1> HIDE DEF c
<1>4. ServiceTypes'
      /\ \/ /\ service.command.op = "close" /\ service'.at = "destroy"
            /\ service'.command = service.command /\ service'.result = service.result
         \/ service.command.op # "close" /\ service' = Receiving
    <2>1. CASE service.command.op = "close"
        <3>1. /\ service' \in ServiceType /\ service'.command = service.command
              /\ service'.at = "destroy" /\ service'.result = service.result
            BY <1>1, <2>1 DEF Types, ServiceTypes, ServiceType
        <3> QED
            BY <1>1, <1>2, <2>1, <3>1 DEF Types, ServiceTypes, ServiceType
    <2>2. CASE service.command.op # "close"
        <3>1. service' = Receiving
            BY <1>1, <2>2
        <3> QED
            BY <1>1, <2>2, <3>1, ReceivingIs DEF Types, ServiceTypes, ServiceType
    <2> QED
        BY <2>1, <2>2
<1>5. DriverTypes' /\ KernelTypes' /\ ThreadTypes'
    BY <1>1, <1>2, <1>3 DEF Types, DriverTypes, KernelTypes, ThreadTypes
<1>6. ReleaseEffect(c)
    BY <1>1, <1>2, <1>3 DEF ReleaseEffect, Types, DriverTypes
<1> QED
    BY <1>1, <1>4, <1>5, <1>6 DEF Types, ServiceReleaseEffect, c
-----------------------------------------------------------------------------
(* The steps keep the first part of the invariant.                         *)

LEMMA OldStays ==
    ASSUME Types, counter' \in {counter, counter + 1}, NEW h, Old(h)
    PROVE  Old(h)'
BY DEF Types, KernelTypes, Old

\* The number of threads in a call.
LEMMA BusyChanges ==
    ASSUME IsFiniteSet(Busy), NEW t \in Thread,
           \A u \in Thread : u # t => pc'[u] = pc[u]
    PROVE  /\ IsFiniteSet(Busy') /\ Cardinality(Busy) \in Nat /\ Cardinality(Busy') \in Nat
           /\ (Active(t) <=> Active(t)') => Cardinality(Busy') = Cardinality(Busy)
           /\ Active(t)' /\ ~Active(t) => Cardinality(Busy') = Cardinality(Busy) + 1
           /\ Active(t) /\ ~Active(t)' => Cardinality(Busy') = Cardinality(Busy) - 1
<1>1. \A u \in Thread : u # t => (Active(u)' <=> Active(u))
    BY DEF Active
<1>2. /\ (Active(t) <=> Active(t)') => Busy' = Busy
      /\ Active(t)' /\ ~Active(t) => Busy' = Busy \cup {t} /\ t \notin Busy
      /\ Active(t) /\ ~Active(t)' => Busy' = Busy \ {t} /\ t \in Busy
    BY <1>1 DEF Busy
<1>3. IsFiniteSet(Busy \cup {t}) /\ IsFiniteSet(Busy \ {t})
    BY FS_AddElement, FS_RemoveElement
<1>4. IsFiniteSet(Busy')
    BY <1>2, <1>3
<1>5. Cardinality(Busy) \in Nat /\ Cardinality(Busy') \in Nat
    BY <1>4, FS_CardinalityType
<1> QED
    BY <1>2, <1>4, <1>5, FS_AddElement, FS_RemoveElement

LEMMA CommandOfQueue ==
    ASSUME Types, NEW i \in 1..Len(queue)
    PROVE  /\ queue[i] \in CommandType /\ queue[i].core \in Core /\ queue[i].buffer \in Buffer
           /\ queue[i].op \in Ops /\ queue[i].handle \in HandleType
           /\ queue[i].target \in Client \cup {NoClient} /\ Len(queue) \in Nat
<1>1. queue[i] \in CommandType /\ Len(queue) \in Nat
    BY DEF Types, ServiceTypes
<1> QED
    BY <1>1 DEF CommandType

\* The request that a thread has submitted.
LEMMA CommandSubmitted ==
    ASSUME NEW t \in Thread, NEW op \in Ops, NEW h \in HandleType, NEW p, NEW to, NEW b \in Buffer,
           SubmitEffect(t, op, h, p, to, b)
    PROVE  /\ mine'[t].buffer = b /\ (mine'[t].async <=> p # NoParam)
           /\ mine'[t].command \in CommandType /\ mine'[t].command # NoCommand
           /\ mine'[t].command.core = CoreOf[t] /\ mine'[t].command.buffer = b
           /\ mine'[t].command.op = op /\ mine'[t].command.handle = h
<1> DEFINE c == CoreOf[t]
<1>1. c \in Core
    BY Constants
<1>2. mine'[t] = [buffer |-> b, command |-> Command(op, c, b, h), slot |-> 0,
                  async |-> p # NoParam]
    BY DEF SubmitEffect
<1>3. /\ Command(op, c, b, h) \in CommandType /\ Command(op, c, b, h) # NoCommand
      /\ Command(op, c, b, h).core = c /\ Command(op, c, b, h).buffer = b
      /\ Command(op, c, b, h).op = op /\ Command(op, c, b, h).handle = h
    BY <1>1, NewCommand, Handles
<1>4. mine'[t].buffer = b /\ mine'[t].command = Command(op, c, b, h)
    BY <1>2
<1>5. mine'[t].async <=> p # NoParam
    <2>1. CASE p = NoParam
        <3>1. mine'[t] = [buffer |-> b, command |-> Command(op, c, b, h), slot |-> 0,
                          async |-> FALSE]
            BY <1>2, <2>1
        <3> QED
            BY <2>1, <3>1
    <2>2. CASE p # NoParam
        <3>1. mine'[t] = [buffer |-> b, command |-> Command(op, c, b, h), slot |-> 0,
                          async |-> TRUE]
            BY <1>2, <2>2
        <3> QED
            BY <2>2, <3>1
    <2> QED
        BY <2>1, <2>2
<1> QED
    BY <1>3, <1>4, <1>5

LEMMA CallKeeps ==
    ASSUME BufferPart, Types', NEW t \in Thread, NEW op \in Ops, NEW h \in HandleType,
           NEW p \in Params, NEW to \in {"open", "dispatch", "fail"}, NEW b \in Buffer,
           CallEffect(t, op, h, p, to, b)
    PROVE  BufferPart'
<1> DEFINE c == CoreOf[t]
<1> USE DEF BufferPart
<1>1. SubmitEffect(t, op, h, p, to, b) /\ c \in Core /\ b # Nobody
    BY Constants DEF CallEffect
<1>2. /\ pc[t] = "idle" /\ Runs(t) /\ pc'[t] = to /\ OthersStay(t)
      /\ mine'[t] = [buffer |-> b, command |-> Command(op, c, b, h), slot |-> 0,
                     async |-> p # NoParam]
      /\ b \in free[c] /\ free'[c] = free[c] \ {b} /\ signaled'[c] = signaled[c] \ {b}
      /\ request'[c][b] = [op |-> op, handle |-> h, param |-> p, result |-> Ok]
      /\ \A d \in Core : d # c => free'[d] = free[d] /\ signaled'[d] = signaled[d]
                                  /\ request'[d] = request[d]
      /\ \A a \in Buffer : a # b => request'[c][a] = request[c][a]
      /\ pool > 0 /\ pool' = pool - 1
      /\ UNCHANGED <<callbacks, slots, counter, replier, response, queue, service, clients>>
    BY <1>1 DEF SubmitEffect
<1>3. /\ mine'[t].buffer = b /\ (mine'[t].async <=> p # NoParam)
      /\ mine'[t].command \in CommandType /\ mine'[t].command # NoCommand
      /\ mine'[t].command.core = c /\ mine'[t].command.buffer = b
      /\ mine'[t].command.op = op /\ mine'[t].command.handle = h
    BY <1>1, CommandSubmitted
<1>4. \A u \in Thread : CoreOf[u] = c => mine[u].buffer # b /\ (u # t => pc[u] \in {"idle", "wait"})
    BY <1>1, <1>2, Constants DEF BufferInv, OwnCommands, Runs
<1>5. ~Underway(c, b)
    BY <1>1, <1>2 DEF BufferInv
<1>6. \A u \in Thread : Active(u) => mine[u].buffer \in Buffer
    BY CommandOfThread
<1>7. \A d \in Core, a \in Buffer :
          /\ AtThread(t, d, a)' <=> d = c /\ a = b
          /\ ~AtThread(t, d, a)
          /\ \A u \in Thread : u # t => (AtThread(u, d, a)' <=> AtThread(u, d, a))
          /\ AtService(d, a)' <=> AtService(d, a)
          /\ \A i : AtQueue(i, d, a)' <=> AtQueue(i, d, a)
    BY <1>2, <1>3 DEF AtThread, AtService, AtQueue, OthersStay, InHand
<1>8. \A d \in Core, a \in Buffer :
          Underway(d, a)' <=> Underway(d, a) \/ (d = c /\ a = b)
    BY <1>2, <1>7 DEF Underway
<1>9. OwnCommands'
    BY <1>1, <1>2, <1>3, <1>4, <1>6, Constants DEF OwnCommands, OthersStay, Active, InHand
<1>10. OneRuns'
    BY <1>2, <1>4 DEF OneRuns, OthersStay, Active
<1>11. ReplyInv'
    BY <1>2 DEF ReplyInv, OthersStay, ResponsesFindTheirRequest
<1>12. OnePlace'
    BY <1>2, <1>5, <1>7 DEF OnePlace, Underway
<1>13. BufferInv'
    BY <1>1, <1>2, <1>3, <1>4, <1>5, <1>8 DEF BufferInv, OthersStay, InHand
<1>14. PoolInv'
    <2>1. IsFiniteSet(Busy') /\ Cardinality(Busy') = Cardinality(Busy) + 1
          /\ Cardinality(Busy) \in Nat
        BY <1>2, BusyChanges DEF PoolInv, OthersStay, Active
    <2>2. pool' \in Nat /\ Len(queue) \in Nat
        BY <1>2 DEF PoolInv, Types, ServiceTypes
    <2> QED
        BY <1>2, <2>1, <2>2, Constants DEF PoolInv
<1>15. Agreement'
    <2>1. \A g : Old(g)' <=> Old(g)
        BY <1>2 DEF Old
    <2>2. /\ op = "open" => h = NoHandle /\ p = NoParam
          /\ op = "close" => p = NoParam /\ Old(h)
          /\ to = "open" => op = "open"
          /\ to = "dispatch" => Old(h)
          /\ known' \cup closed' \subseteq known \cup closed
        BY DEF CallEffect, Agreement
    <2>3. \A d \in CommandType : d.core # c \/ d.buffer # b => (Agrees(d)' <=> Agrees(d))
        BY <1>2 DEF Agrees, CommandType
    <2>4. Agrees(mine[t].command)'
        BY <1>1, <1>2, <1>3, <2>2 DEF Agrees, Ops
    <2>5. \A u \in Thread : pc'[u] \in InHand =>
              /\ Agrees(mine[u].command)'
              /\ pc'[u] \in {"open", "claim"} => mine'[u].command.op = "open"
              /\ pc'[u] \in {"dispatch", "send"} => Old(mine'[u].command.handle)
              /\ pc'[u] = "respond" => request'[CoreOf[u]][mine'[u].buffer].result = Error
        <3> TAKE u \in Thread
        <3>1. CASE u = t
            BY <1>2, <1>3, <2>2, <2>1, <2>4, <3>1 DEF InHand
        <3>2. CASE u # t
            <4> SUFFICES ASSUME pc[u] \in InHand
                         PROVE  Agrees(mine[u].command)' /\ request'[CoreOf[u]][mine[u].buffer]
                                                            = request[CoreOf[u]][mine[u].buffer]
                BY <1>2, <3>2, <2>1 DEF Agreement, OthersStay
            <4>1. Active(u) /\ (CoreOf[u] # c \/ mine[u].buffer # b)
                BY <1>4, InHandIsActive
            <4> QED
                BY <1>2, <3>2, <2>3, <4>1, CommandOfThread DEF Agreement, OthersStay
        <3> QED
            BY <3>1, <3>2
    <2>6. \A i \in 1..Len(queue) : Agrees(queue[i])'
        <3> SUFFICES ASSUME NEW i \in 1..Len(queue) PROVE Agrees(queue[i])'
            OBVIOUS
        <3>1. queue[i] \in CommandType /\ queue[i].core \in Core /\ queue[i].buffer \in Buffer
            BY CommandOfQueue
        <3>2. queue[i].core # c \/ queue[i].buffer # b
            BY <1>1, <1>5 DEF Underway, AtQueue
        <3> QED
            BY <1>2, <2>3, <3>1, <3>2 DEF Agreement
    <2>7. service.at \in Serving => /\ Agrees(service.command)'
                                   /\ request'[service.command.core][service.command.buffer]
                                          = request[service.command.core][service.command.buffer]
        <3> SUFFICES ASSUME service.at \in Serving
                     PROVE  /\ Agrees(service.command)'
                            /\ request'[service.command.core][service.command.buffer]
                                   = request[service.command.core][service.command.buffer]
            OBVIOUS
        <3>1. service.at # "receive"
            BY DEF Serving
        <3>2. service.command.core # c \/ service.command.buffer # b
            BY <1>1, <1>5 DEF Underway, AtService
        <3> QED
            BY <1>2, <2>3, <3>1, <3>2, CommandOfService DEF Agreement
    <2>8. \A d \in Core, a \in Buffer :
              /\ request'[d][a].op = "close" => Old(request'[d][a].handle)
              /\ request'[d][a].op = "open" /\ a \in signaled'[d] /\ request'[d][a].result # Error =>
                     Old(request'[d][a].result)
        BY <1>1, <1>2, <2>2 DEF Agreement
    <2> QED
        BY <1>2, <2>1, <2>2, <2>5, <2>6, <2>7, <2>8 DEF Agreement, Serving
<1> QED
    BY <1>9, <1>10, <1>11, <1>12, <1>13, <1>14, <1>15

LEMMA KeepsRequestKeeps ==
    ASSUME BufferPart, Types', NEW t \in Thread, KeepsRequest(t),
           counter' \in {counter, counter + 1},
           pc'[t] = "claim" => pc[t] = "open" /\ mine'[t].slot \in Slot,
           pc'[t] \in {"dispatch", "send"} => Old(mine[t].command.handle)',
           mine[t].command.op # "open" => mine'[t].command.handle = mine[t].command.handle
    PROVE  BufferPart'
<1> DEFINE c == CoreOf[t]
           b == mine[t].buffer
<1> USE DEF BufferPart
<1>1. /\ pc[t] \in InHand \ {"fail", "respond"} /\ pc'[t] \in InHand \ {"open", "respond"}
      /\ OthersStay(t)
      /\ mine'[t].buffer = b /\ mine'[t].async = mine[t].async
      /\ mine'[t].command # NoCommand
      /\ mine'[t].command.core = mine[t].command.core
      /\ mine'[t].command.buffer = mine[t].command.buffer
      /\ mine'[t].command.op = mine[t].command.op
      /\ UNCHANGED <<free, request, signaled, callbacks, pool, replier, response, queue,
                     service, clients, known, closed>>
    BY DEF KeepsRequest
<1>2. Active(t) /\ Active(t)' /\ b \in Buffer /\ c \in Core /\ b # Nobody
    BY <1>1, InHandIsActive, CommandOfThread, Constants DEF Active, InHand
<1>3. \A d \in Core, a \in Buffer :
          /\ \A u \in Thread : AtThread(u, d, a)' <=> AtThread(u, d, a)
          /\ AtService(d, a)' <=> AtService(d, a)
          /\ \A i : AtQueue(i, d, a)' <=> AtQueue(i, d, a)
    BY <1>1 DEF AtThread, AtService, AtQueue, OthersStay
<1>4. \A d \in Core, a \in Buffer : Underway(d, a)' <=> Underway(d, a)
    BY <1>1, <1>3 DEF Underway
<1>5. OwnCommands'
    BY <1>1, <1>2 DEF OwnCommands, OthersStay, Active, InHand
<1>6. OneRuns'
    BY <1>1, <1>2 DEF OneRuns, OthersStay, Active
<1>7. ReplyInv'
    BY <1>1 DEF ReplyInv, OthersStay, ResponsesFindTheirRequest, InHand
<1>8. OnePlace'
    BY <1>1, <1>3 DEF OnePlace
<1>9. BufferInv'
    BY <1>1, <1>2, <1>4 DEF BufferInv, OthersStay, InHand
<1>10. PoolInv'
    <2>1. IsFiniteSet(Busy') /\ Cardinality(Busy') = Cardinality(Busy)
        BY <1>1, <1>2, BusyChanges DEF PoolInv, OthersStay
    <2> QED
        BY <1>1, <2>1 DEF PoolInv
<1>11. Agreement'
    <2>1. \A g : Old(g) => Old(g)'
        BY OldStays
    <2>2. \A d \in CommandType : Agrees(d)' <=> Agrees(d)
        BY <1>1 DEF Agrees
    <2>3. Agrees(mine[t].command)'
        BY <1>1 DEF Agrees, Agreement
    <2>4. \A u \in Thread : pc'[u] \in InHand =>
              /\ Agrees(mine[u].command)'
              /\ pc'[u] \in {"open", "claim"} => mine'[u].command.op = "open"
              /\ pc'[u] \in {"dispatch", "send"} => Old(mine[u].command.handle)'
              /\ pc'[u] = "respond" => request'[CoreOf[u]][mine'[u].buffer].result = Error
        <3> TAKE u \in Thread
        <3>1. CASE u = t
            BY <1>1, <2>3, <3>1 DEF Agreement, InHand
        <3>2. CASE u # t
            <4>1. pc[u] \in InHand => mine[u].command \in CommandType
                BY InHandIsActive, CommandOfThread
            <4> QED
                BY <1>1, <2>1, <2>2, <3>2, <4>1 DEF Agreement, OthersStay
        <3> QED
            BY <3>1, <3>2
    <2>5. \A i \in 1..Len(queue) : Agrees(queue[i])' /\ Old(queue[i].handle)'
        BY <1>1, <2>1, <2>2, CommandOfQueue DEF Agreement
    <2>6. service.at \in Serving => Agrees(service.command)'
        BY <1>1, <2>2, CommandOfService DEF Agreement, Serving
    <2> QED
        BY <1>1, <2>1, <2>4, <2>5, <2>6 DEF Agreement
<1> QED
    BY <1>5, <1>6, <1>7, <1>8, <1>9, <1>10, <1>11

LEMMA SendKeeps ==
    ASSUME BufferPart, Types', NEW t \in Thread, SendEffect(t)
    PROVE  BufferPart'
<1> DEFINE c == CoreOf[t]
           b == mine[t].buffer
           d == mine[t].command
<1> USE DEF BufferPart
<1>1. /\ pc[t] = "send" /\ OthersStay(t)
      /\ \/ mine[t].async /\ pc'[t] = "idle" /\ mine'[t] = AtRest
         \/ ~mine[t].async /\ pc'[t] = "wait" /\ mine'[t] = [AtRest EXCEPT !.buffer = b]
      /\ queue' = Append(queue, d) /\ Len(queue) < QueueSize
      /\ UNCHANGED <<free, request, signaled, callbacks, pool, slots, counter, replier, response,
                     service, clients, known, closed>>
    BY DEF SendEffect, LeaveEffect
<1>2. /\ Active(t) /\ ~Active(t)' /\ b \in Buffer /\ c \in Core /\ b # Nobody
      /\ d \in CommandType /\ d.core = c /\ d.buffer = b
    BY <1>1, InHandIsActive, CommandOfThread, Constants DEF Active, InHand
<1>3. PICK n \in Nat : /\ n = Len(queue) + 1 /\ Len(queue) \in Nat
                       /\ Len(queue') = n /\ queue'[n] = d
                       /\ \A i \in 1..Len(queue) : queue'[i] = queue[i]
    BY <1>1, <1>2 DEF Types, ServiceTypes
<1>4. /\ ~mine'[t].async
      /\ mine'[t].buffer = IF pc'[t] = "idle" THEN Nobody ELSE b
    BY <1>1, <1>2, AtRestIs
<1>5. \A e \in Core, a \in Buffer :
          /\ ~AtThread(t, e, a)' /\ (AtThread(t, e, a) <=> e = c /\ a = b)
          /\ \A u \in Thread : u # t => (AtThread(u, e, a)' <=> AtThread(u, e, a))
          /\ AtService(e, a)' <=> AtService(e, a)
          /\ \A i \in 1..Len(queue) : AtQueue(i, e, a)' <=> AtQueue(i, e, a)
          /\ AtQueue(n, e, a)' <=> e = c /\ a = b
    BY <1>1, <1>2, <1>3 DEF AtThread, AtService, AtQueue, OthersStay, InHand
<1>6. \A e \in Core, a \in Buffer : Underway(e, a)' <=> Underway(e, a)
    BY <1>1, <1>2, <1>3, <1>5 DEF Underway
<1>7. OwnCommands'
    BY <1>1, <1>2, <1>4 DEF OwnCommands, OthersStay, Active, InHand
<1>8. OneRuns'
    BY <1>1, <1>2 DEF OneRuns, OthersStay, Active
<1>9. ReplyInv'
    BY <1>1 DEF ReplyInv, OthersStay, ResponsesFindTheirRequest
<1>10. OnePlace'
    <2>1. /\ ~AtService(c, b) /\ \A i \in 1..Len(queue) : ~AtQueue(i, c, b)
        BY <1>2, <1>5 DEF OnePlace
    <2>2. \A u \in Thread : u # t => ~AtThread(u, c, b)
        BY <1>1 DEF BufferInv, AtThread
    <2>3. \A i \in 1..n : i # n => i \in 1..Len(queue)
        BY <1>3
    <2>4. \A e \in Core, a \in Buffer : AtService(e, a)' =>
              \A u \in Thread : ~AtThread(u, e, a)'
        BY <1>5 DEF OnePlace
    <2>5. \A e \in Core, a \in Buffer : \A i \in 1..n : AtQueue(i, e, a)' =>
              /\ ~AtService(e, a)'
              /\ \A u \in Thread : ~AtThread(u, e, a)'
              /\ \A j \in 1..n : AtQueue(j, e, a)' => i = j
        <3> TAKE e \in Core, a \in Buffer
        <3> TAKE i \in 1..n
        <3> HAVE AtQueue(i, e, a)'
        <3>1. CASE i = n
            BY <1>5, <2>1, <2>2, <2>3, <3>1
        <3>2. CASE i # n
            BY <1>5, <2>1, <2>3, <3>2 DEF OnePlace
        <3> QED
            BY <3>1, <3>2
    <2> QED
        BY <1>3, <2>4, <2>5 DEF OnePlace
<1>11. BufferInv'
    <2>1. \A u, v \in Thread : CoreOf[u] = CoreOf[v] /\ mine'[u].buffer = mine'[v].buffer
                              /\ pc'[u] # "idle" => u = v
        <3>1. mine'[t].buffer = b \/ mine'[t].buffer = Nobody
            BY <1>4
        <3>2. \A u \in Thread : u # t /\ pc[u] # "idle" => mine'[u].buffer # Nobody
            BY <1>1 DEF OthersStay, OwnCommands
        <3> QED
            BY <1>1, <1>4, <3>1, <3>2 DEF BufferInv, OthersStay
    <2>2. \A e \in Core, a \in Buffer : a \in free'[e] =>
              \A u \in Thread : CoreOf[u] = e /\ mine'[u].buffer = a =>
                  pc'[u] = "release" /\ mine'[u].async
        BY <1>1, <1>2, <1>4, Constants DEF BufferInv, OthersStay
    <2>3. \A e \in Core, a \in Buffer : request'[e][a].param # NoParam =>
              \A u \in Thread : CoreOf[u] = e /\ mine'[u].buffer = a => pc'[u] \in InHand
        <3>1. ~mine[t].async => request[c][b].param = NoParam
            BY <1>1 DEF OwnCommands, InHand
        <3> QED
            BY <1>1, <1>2, <1>4, <3>1, Constants DEF BufferInv, OthersStay
    <2> QED
        BY <1>1, <1>6, <2>1, <2>2, <2>3 DEF BufferInv
<1>12. PoolInv'
    <2>1. IsFiniteSet(Busy') /\ Cardinality(Busy') = Cardinality(Busy) - 1
          /\ Cardinality(Busy) \in Nat
        BY <1>1, <1>2, BusyChanges DEF PoolInv, OthersStay
    <2>2. /\ UNCHANGED <<callbacks, pool, service>> /\ Len(queue) < QueueSize
          /\ Len(queue') = Len(queue) + 1 /\ Len(queue) \in Nat
        BY <1>1, <1>3
    <2> QED
        BY <2>1, <2>2, Constants DEF PoolInv
<1>13. Agreement'
    <2>1. \A g : Old(g)' <=> Old(g)
        BY <1>1 DEF Old
    <2>2. \A e \in CommandType : Agrees(e)' <=> Agrees(e)
        BY <1>1 DEF Agrees
    <2>3. \A u \in Thread : pc'[u] \in InHand =>
              /\ u # t /\ pc[u] \in InHand /\ mine'[u] = mine[u] /\ pc'[u] = pc[u]
              /\ Agrees(mine[u].command)'
        <3> SUFFICES ASSUME NEW u \in Thread, pc'[u] \in InHand
                     PROVE  /\ u # t /\ pc[u] \in InHand /\ mine'[u] = mine[u] /\ pc'[u] = pc[u]
                            /\ Agrees(mine[u].command)'
            OBVIOUS
        <3>1. u # t /\ pc[u] \in InHand /\ mine'[u] = mine[u] /\ pc'[u] = pc[u]
            BY <1>1 DEF OthersStay, InHand
        <3>2. mine[u].command \in CommandType
            BY <3>1, InHandIsActive, CommandOfThread
        <3> QED
            BY <2>2, <3>1, <3>2 DEF Agreement
    <2>4. \A i \in 1..n : Agrees(queue[i])' /\ Old(queue[i].handle)'
        <3>1. Agrees(d) /\ Old(d.handle)
            BY <1>1 DEF Agreement, InHand
        <3> QED
            BY <1>2, <1>3, <2>1, <2>2, <3>1, CommandOfQueue DEF Agreement
    <2>5. service.at \in Serving => Agrees(service.command)'
        BY <1>1, <2>2, CommandOfService DEF Agreement, Serving
    <2> QED
        BY <1>1, <1>3, <2>1, <2>3, <2>4, <2>5 DEF Agreement
<1> QED
    BY <1>7, <1>8, <1>9, <1>10, <1>11, <1>12, <1>13

\* A request changes its result only.
LEMMA ResultChanges ==
    ASSUME Types, NEW who, NEW e \in CommandType, NEW r \in HandleType, ReplyEffect(who, e, r)
    PROVE  /\ \A c \in Core, b \in Buffer :
                  /\ request'[c][b].op = request[c][b].op
                  /\ request'[c][b].handle = request[c][b].handle
                  /\ request'[c][b].param = request[c][b].param
                  /\ c # e.core \/ b # e.buffer => request'[c][b] = request[c][b]
           /\ request'[e.core][e.buffer].result = r
           /\ \A d \in CommandType : Agrees(d)' <=> Agrees(d)
<1>1. e.core \in Core /\ e.buffer \in Buffer
    BY DEF CommandType
<1>2. request[e.core][e.buffer] \in RequestType
    BY <1>1 DEF Types, DriverTypes
<1> DEFINE q == [request[e.core][e.buffer] EXCEPT !.result = r]
<1>3. /\ request'[e.core][e.buffer] = q
      /\ \A c \in Core, b \in Buffer : c # e.core \/ b # e.buffer => request'[c][b] = request[c][b]
    BY DEF ReplyEffect
<1>4. /\ q.op = request[e.core][e.buffer].op /\ q.handle = request[e.core][e.buffer].handle
      /\ q.param = request[e.core][e.buffer].param /\ q.result = r
    BY <1>2 DEF RequestType
<1> HIDE DEF q
<1>5. \A c \in Core, b \in Buffer :
          /\ request'[c][b].op = request[c][b].op
          /\ request'[c][b].handle = request[c][b].handle
          /\ request'[c][b].param = request[c][b].param
    BY <1>3, <1>4
<1>6. \A d \in CommandType : Agrees(d)' <=> Agrees(d)
    <2> TAKE d \in CommandType
    <2>1. d.core \in Core /\ d.buffer \in Buffer
        BY DEF CommandType
    <2> QED
        BY <1>5, <2>1 DEF Agrees
<1> QED
    BY <1>3, <1>4, <1>5, <1>6

LEMMA FailKeeps ==
    ASSUME BufferPart, Types', NEW t \in Thread, FailEffect(t)
    PROVE  BufferPart'
<1> DEFINE c == CoreOf[t]
           b == mine[t].buffer
<1> USE DEF BufferPart
<1>1. /\ pc[t] = "fail" /\ pc'[t] = "respond" /\ \A u \in Thread : u # t => pc'[u] = pc[u]
      /\ ReplyEffect(t, mine[t].command, Error) /\ UNCHANGED service
    BY DEF FailEffect
<1>2. /\ Active(t) /\ Active(t)' /\ b \in Buffer /\ c \in Core /\ b # Nobody
      /\ mine[t].command \in CommandType /\ mine[t].command.core = c /\ mine[t].command.buffer = b
    BY <1>1, InHandIsActive, CommandOfThread, Constants DEF Active, InHand
<1>3. /\ replier[c] = Nobody /\ replier'[c] = t /\ response'[c] = b
      /\ \A d \in Core : d # c => replier'[d] = replier[d] /\ response'[d] = response[d]
      /\ UNCHANGED <<free, signaled, callbacks, pool, slots, counter, queue, clients,
                     mine, known, closed>>
    BY <1>1, <1>2 DEF ReplyEffect
<1>4. /\ \A d \in Core, a \in Buffer :
             /\ request'[d][a].op = request[d][a].op
             /\ request'[d][a].handle = request[d][a].handle
             /\ request'[d][a].param = request[d][a].param
             /\ d # c \/ a # b => request'[d][a] = request[d][a]
      /\ request'[c][b].result = Error
      /\ \A d \in CommandType : Agrees(d)' <=> Agrees(d)
    BY <1>1, <1>2, Handles, ResultChanges
<1>5. \A d \in Core, a \in Buffer :
          /\ \A u \in Thread : AtThread(u, d, a)' <=> AtThread(u, d, a)
          /\ AtService(d, a)' <=> AtService(d, a)
          /\ \A i : AtQueue(i, d, a)' <=> AtQueue(i, d, a)
    BY <1>1, <1>3 DEF AtThread, AtService, AtQueue, InHand
<1>6. \A d \in Core, a \in Buffer : Underway(d, a)' <=> Underway(d, a)
    BY <1>3, <1>5 DEF Underway
<1>7. OwnCommands'
    <2> SUFFICES ASSUME NEW u \in Thread
                 PROVE  /\ pc'[u] = "idle" <=> mine[u].buffer = Nobody
                        /\ Active(u)' => /\ mine[u].command # NoCommand
                                         /\ mine[u].command.core = CoreOf[u]
                                         /\ mine[u].command.buffer = mine[u].buffer
                        /\ pc'[u] \in InHand => (mine[u].async <=>
                               request'[CoreOf[u]][mine[u].buffer].param # NoParam)
                        /\ pc'[u] = "wait" => ~mine[u].async
                        /\ pc'[u] = "claim" => mine[u].slot \in Slot
        BY <1>3 DEF OwnCommands
    <2>1. (pc'[u] \in InHand <=> pc[u] \in InHand) /\ (Active(u)' <=> Active(u))
        BY <1>1 DEF Active, InHand
    <2>2. pc[u] \in InHand => request'[CoreOf[u]][mine[u].buffer].param
                                  = request[CoreOf[u]][mine[u].buffer].param
        BY <1>4, CommandOfThread, InHandIsActive
    <2> QED
        BY <1>1, <2>1, <2>2 DEF OwnCommands
<1>8. OneRuns'
    BY <1>1, <1>2 DEF OneRuns, Active
<1>9. ReplyInv'
    <2>1. \A u \in Thread : pc'[u] \in {"respond", "release"} =>
              replier'[CoreOf[u]] = u /\ (pc'[u] = "respond" => response'[CoreOf[u]] = mine[u].buffer)
        BY <1>1, <1>3, Constants DEF ReplyInv, ResponsesFindTheirRequest
    <2>2. service.at \in {"respond", "release"} =>
              /\ service.command.core # c /\ service.command.core \in Core
              /\ replier'[service.command.core] = Service
              /\ service.at = "respond" => response'[service.command.core] = service.command.buffer
        BY <1>3, Constants, CommandOfService DEF ReplyInv, ResponsesFindTheirRequest
    <2>3. \A d \in Core : response'[d] # Nobody =>
              \/ \E u \in Thread : CoreOf[u] = d /\ pc'[u] = "respond"
              \/ service.at = "respond" /\ service.command.core = d
        BY <1>1, <1>3 DEF ReplyInv
    <2> QED
        BY <1>1, <1>3, <2>1, <2>2, <2>3 DEF ReplyInv, ResponsesFindTheirRequest
<1>10. OnePlace'
    BY <1>3, <1>5 DEF OnePlace
<1>11. BufferInv'
    <2>1. \A d \in Core, a \in Buffer : a \in free[d] => request'[d][a] = NoRequest
        BY <1>1, <1>4 DEF BufferInv
    <2> QED
        BY <1>1, <1>3, <1>4, <1>6, <2>1 DEF BufferInv, InHand
<1>12. PoolInv'
    <2>1. IsFiniteSet(Busy') /\ Cardinality(Busy') = Cardinality(Busy)
        BY <1>1, <1>2, BusyChanges DEF PoolInv
    <2> QED
        BY <1>1, <1>3, <2>1 DEF PoolInv
<1>13. Agreement'
    <2>1. \A g : Old(g)' <=> Old(g)
        BY <1>3 DEF Old
    <2>2. \A u \in Thread : pc'[u] \in InHand =>
              /\ Agrees(mine[u].command)'
              /\ pc'[u] \in {"open", "claim"} => mine[u].command.op = "open"
              /\ pc'[u] \in {"dispatch", "send"} => Old(mine[u].command.handle)
              /\ pc'[u] = "respond" => request'[CoreOf[u]][mine[u].buffer].result = Error
        <3> TAKE u \in Thread
        <3> HAVE pc'[u] \in InHand
        <3>1. CASE u = t
            BY <1>1, <1>2, <1>3, <1>4, <3>1 DEF Agreement, InHand
        <3>2. CASE u # t
            <4>1. pc[u] \in InHand /\ Active(u) /\ mine[u].command \in CommandType
                  /\ mine[u].buffer \in Buffer
                BY <1>1, <3>2, InHandIsActive, CommandOfThread
            <4>2. CoreOf[u] # c
                BY <1>2, <3>2, <4>1 DEF OneRuns
            <4> QED
                BY <1>1, <1>3, <1>4, <3>2, <4>1, <4>2, Constants DEF Agreement
        <3> QED
            BY <3>1, <3>2
    <2>3. \A i \in 1..Len(queue) : Agrees(queue[i])' /\ Old(queue[i].handle)
        BY <1>3, <1>4, CommandOfQueue DEF Agreement
    <2>4. service.at \in Serving => Agrees(service.command)'
        BY <1>1, <1>4, CommandOfService DEF Agreement, Serving
    <2>5. service.at = "respond" =>
              request'[service.command.core][service.command.buffer].result = service.result
        <3>1. service.at = "respond" => service.command.core # c
            BY <1>3, Constants, CommandOfService DEF ReplyInv
        <3> QED
            BY <1>4, <3>1, CommandOfService DEF Agreement
    <2>6. \A d \in Core, a \in Buffer :
              /\ request'[d][a].op = "close" => Old(request'[d][a].handle)
              /\ request'[d][a].op = "open" /\ a \in signaled[d] /\ request'[d][a].result # Error =>
                     Old(request'[d][a].result)
        BY <1>4 DEF Agreement
    <2> QED
        BY <1>1, <1>3, <2>1, <2>2, <2>3, <2>4, <2>5, <2>6 DEF Agreement
<1> QED
    BY <1>7, <1>8, <1>9, <1>10, <1>11, <1>12, <1>13

LEMMA ReplyKeeps ==
    ASSUME BufferPart, Types', ServiceReplyEffect
    PROVE  BufferPart'
<1> DEFINE c == service.command.core
           b == service.command.buffer
<1> USE DEF BufferPart
<1>1. /\ service.at = "reply" /\ service'.at = "respond" /\ service'.command = service.command
      /\ service'.result = service.result /\ UNCHANGED pc
      /\ ReplyEffect(Service, service.command, service.result)
    BY DEF ServiceReplyEffect
<1>2. /\ b \in Buffer /\ c \in Core /\ b # Nobody /\ service.command \in CommandType
      /\ service.result \in HandleType
    BY <1>1, CommandOfService, Constants DEF Types, ServiceTypes
<1>3. /\ replier[c] = Nobody /\ replier'[c] = Service /\ response'[c] = b
      /\ \A d \in Core : d # c => replier'[d] = replier[d] /\ response'[d] = response[d]
      /\ UNCHANGED <<free, signaled, callbacks, pool, slots, counter, queue, clients,
                     mine, known, closed>>
    BY <1>1, <1>2 DEF ReplyEffect
<1>4. /\ \A d \in Core, a \in Buffer :
             /\ request'[d][a].op = request[d][a].op
             /\ request'[d][a].handle = request[d][a].handle
             /\ request'[d][a].param = request[d][a].param
             /\ d # c \/ a # b => request'[d][a] = request[d][a]
      /\ request'[c][b].result = service.result
      /\ \A d \in CommandType : Agrees(d)' <=> Agrees(d)
    BY <1>1, <1>2, ResultChanges
<1>5. \A d \in Core, a \in Buffer :
          /\ \A u \in Thread : AtThread(u, d, a)' <=> AtThread(u, d, a)
          /\ AtService(d, a)' <=> AtService(d, a)
          /\ \A i : AtQueue(i, d, a)' <=> AtQueue(i, d, a)
    BY <1>1, <1>3 DEF AtThread, AtService, AtQueue, Serving
<1>6. \A d \in Core, a \in Buffer : Underway(d, a)' <=> Underway(d, a)
    BY <1>3, <1>5 DEF Underway
<1>7. OwnCommands'
    <2>1. \A u \in Thread : Active(u)' <=> Active(u)
        BY <1>1 DEF Active
    <2>2. \A u \in Thread : pc[u] \in InHand =>
              request'[CoreOf[u]][mine[u].buffer].param = request[CoreOf[u]][mine[u].buffer].param
        BY <1>4, CommandOfThread, InHandIsActive
    <2> QED
        BY <1>1, <1>3, <2>1, <2>2 DEF OwnCommands
<1>8. OneRuns'
    BY <1>1 DEF OneRuns, Active
<1>9. ReplyInv'
    <2>1. \A u \in Thread : pc[u] \in {"respond", "release"} =>
              replier'[CoreOf[u]] = u /\ (pc[u] = "respond" => response'[CoreOf[u]] = mine[u].buffer)
        BY <1>3, Constants DEF ReplyInv, ResponsesFindTheirRequest
    <2>2. \A d \in Core : response'[d] # Nobody =>
              \/ \E u \in Thread : CoreOf[u] = d /\ pc[u] = "respond"
              \/ c = d
        BY <1>1, <1>3 DEF ReplyInv
    <2> QED
        BY <1>1, <1>3, <2>1, <2>2 DEF ReplyInv, ResponsesFindTheirRequest
<1>10. OnePlace'
    BY <1>3, <1>5 DEF OnePlace
<1>11. BufferInv'
    <2>1. AtService(c, b)
        BY <1>1 DEF AtService, Serving
    <2>2. \A d \in Core, a \in Buffer : a \in free[d] => request'[d][a] = NoRequest
        BY <1>2, <1>4, <2>1 DEF BufferInv, Underway
    <2> QED
        BY <1>1, <1>3, <1>4, <1>6, <2>2 DEF BufferInv
<1>12. PoolInv'
    <2>1. Busy' = Busy
        BY <1>1 DEF Busy, Active
    <2> QED
        BY <1>1, <1>3, <2>1 DEF PoolInv
<1>13. Agreement'
    <2>1. \A g : Old(g)' <=> Old(g)
        BY <1>3 DEF Old
    <2>2. \A u \in Thread : pc[u] \in InHand =>
              /\ Agrees(mine[u].command)'
              /\ pc[u] = "respond" => request'[CoreOf[u]][mine[u].buffer].result = Error
        <3> TAKE u \in Thread
        <3> HAVE pc[u] \in InHand
        <3>1. Active(u) /\ mine[u].command \in CommandType /\ mine[u].buffer \in Buffer
            BY InHandIsActive, CommandOfThread
        <3>2. pc[u] = "respond" => CoreOf[u] # c
            BY <1>3, Constants DEF ReplyInv
        <3> QED
            BY <1>3, <1>4, <3>1, <3>2, Constants DEF Agreement
    <2>3. \A i \in 1..Len(queue) : Agrees(queue[i])' /\ Old(queue[i].handle)
        BY <1>3, <1>4, CommandOfQueue DEF Agreement
    <2>4. Agrees(service.command)'
        BY <1>1, <1>2, <1>4 DEF Agreement, Serving
    <2>5. \A d \in Core, a \in Buffer :
              /\ request'[d][a].op = "close" => Old(request'[d][a].handle)
              /\ request'[d][a].op = "open" /\ a \in signaled[d] /\ request'[d][a].result # Error =>
                     Old(request'[d][a].result)
        <3>1. b \notin signaled[c]
            BY <1>1, <1>2 DEF BufferInv, Underway, AtService, Serving
        <3> QED
            BY <1>4, <3>1 DEF Agreement
    <2> QED
        BY <1>1, <1>3, <1>4, <2>1, <2>2, <2>3, <2>4, <2>5 DEF Agreement, Ops
<1> QED
    BY <1>7, <1>8, <1>9, <1>10, <1>11, <1>12, <1>13

\* What holds of the requests when the one in buffer b of core c is answered.
LEMMA AnswerChanges ==
    ASSUME BufferPart, NEW c \in Core, NEW b \in Buffer, RespondEffect(c, b), Underway(c, b),
           \A d \in Core, a \in Buffer : Underway(d, a)' <=> Underway(d, a) /\ (d # c \/ a # b),
           \A u \in Thread : CoreOf[u] = c /\ mine[u].buffer = b =>
               \/ pc'[u] = "release" /\ (mine[u].async <=> request[c][b].param # NoParam)
               \/ pc'[u] = pc[u] /\ request[c][b].param = NoParam,
           \A u \in Thread : CoreOf[u] # c \/ mine[u].buffer # b => pc'[u] = pc[u]
    PROVE  BufferInv'
<1> USE DEF BufferPart
<1>1. /\ \A d \in Core : d # c => /\ signaled'[d] = signaled[d] /\ free'[d] = free[d]
                                  /\ request'[d] = request[d]
      /\ \A a \in Buffer : a # b => request'[c][a] = request[c][a]
      /\ UNCHANGED mine
      /\ \/ /\ request[c][b].param = NoParam
            /\ signaled'[c] = signaled[c] \cup {b} /\ free'[c] = free[c]
            /\ request'[c][b] = request[c][b]
         \/ /\ request[c][b].param # NoParam
            /\ signaled'[c] = signaled[c] /\ free'[c] = free[c] \cup {b}
            /\ request'[c][b] = NoRequest
    BY DEF RespondEffect
<1>2. b \notin free[c] /\ b \notin signaled[c]
    BY DEF BufferInv
<1>3. \A t, u \in Thread :
          CoreOf[t] = CoreOf[u] /\ mine'[t].buffer = mine'[u].buffer /\ pc'[t] # "idle" => t = u
    <2> SUFFICES ASSUME NEW t \in Thread, NEW u \in Thread, CoreOf[t] = CoreOf[u],
                        mine[t].buffer = mine[u].buffer, pc'[t] # "idle"
                 PROVE  t = u
        BY <1>1
    <2>1. pc[t] # "idle" \/ mine[t].buffer = b
        OBVIOUS
    <2>2. pc[t] # "idle"
        BY <2>1, Constants DEF OwnCommands
    <2> QED
        BY <2>2 DEF BufferInv
<1>4. \A d \in Core, a \in Buffer : a \in free'[d] =>
          /\ request'[d][a] = NoRequest /\ a \notin signaled'[d] /\ ~Underway(d, a)'
          /\ \A u \in Thread : CoreOf[u] = d /\ mine'[u].buffer = a =>
                 pc'[u] = "release" /\ mine'[u].async
    BY <1>1, <1>2 DEF BufferInv
<1>5. \A d \in Core, a \in Buffer : Underway(d, a)' => a \notin signaled'[d]
    BY <1>1 DEF BufferInv
<1>6. \A d \in Core, a \in Buffer : request'[d][a].param # NoParam =>
          \A u \in Thread : CoreOf[u] = d /\ mine'[u].buffer = a => pc'[u] \in InHand
    BY <1>1, Handles DEF BufferInv
<1> QED
    BY <1>3, <1>4, <1>5, <1>6 DEF BufferInv

LEMMA AnswerAgrees ==
    ASSUME Types, NEW c \in Core, NEW b \in Buffer, RespondEffect(c, b)
    PROVE  \A d \in CommandType : d.core # c \/ d.buffer # b =>
               /\ Agrees(d)' <=> Agrees(d)
               /\ request'[d.core][d.buffer] = request[d.core][d.buffer]
<1> TAKE d \in CommandType
<1>1. d.core \in Core /\ d.buffer \in Buffer
    BY DEF CommandType
<1> QED
    BY <1>1 DEF RespondEffect, Agrees

LEMMA FailRespondKeeps ==
    ASSUME BufferPart, Types', NEW t \in Thread, FailRespondEffect(t)
    PROVE  BufferPart'
<1> DEFINE c == CoreOf[t]
           b == mine[t].buffer
<1> USE DEF BufferPart
<1>1. /\ pc[t] = "respond" /\ pc'[t] = "release" /\ \A u \in Thread : u # t => pc'[u] = pc[u]
      /\ RespondEffect(c, b) /\ UNCHANGED service
    BY DEF FailRespondEffect
<1>2. /\ Active(t) /\ Active(t)' /\ b \in Buffer /\ c \in Core /\ b # Nobody
    BY <1>1, InHandIsActive, CommandOfThread, Constants DEF Active, InHand
<1>3. /\ response'[c] = Nobody /\ \A d \in Core : d # c => response'[d] = response[d]
      /\ \A d \in Core : d # c => signaled'[d] = signaled[d] /\ request'[d] = request[d]
                                  /\ callbacks'[d] = callbacks[d]
      /\ \A a \in Buffer : a # b => request'[c][a] = request[c][a]
      /\ Len(callbacks[c]) <= CallbackSize => Len(callbacks'[c]) <= CallbackSize
      /\ UNCHANGED <<pool, slots, counter, replier, queue, clients, mine, known, closed>>
    BY <1>1, <1>2 DEF RespondEffect
<1>4. \A u \in Thread : u # t /\ CoreOf[u] = c => mine[u].buffer # b /\ ~Active(u)
    BY <1>1, <1>2 DEF BufferInv, OneRuns
<1>5. \A d \in Core, a \in Buffer :
          /\ AtThread(t, d, a) <=> d = c /\ a = b
          /\ ~AtThread(t, d, a)'
          /\ \A u \in Thread : u # t => (AtThread(u, d, a)' <=> AtThread(u, d, a))
          /\ AtService(d, a)' <=> AtService(d, a)
          /\ \A i : AtQueue(i, d, a)' <=> AtQueue(i, d, a)
    BY <1>1, <1>3 DEF AtThread, AtService, AtQueue, InHand
<1>6. /\ AtThread(t, c, b) /\ ~AtService(c, b) /\ \A i \in 1..Len(queue) : ~AtQueue(i, c, b)
      /\ \A u \in Thread : u # t => ~AtThread(u, c, b)
    BY <1>2, <1>4, <1>5 DEF OnePlace, AtThread
<1>7. \A d \in Core, a \in Buffer : Underway(d, a)' <=> Underway(d, a) /\ (d # c \/ a # b)
    BY <1>3, <1>5, <1>6 DEF Underway
<1>8. OwnCommands'
    <2>1. \A u \in Thread : Active(u)' <=> Active(u)
        BY <1>1, <1>2 DEF Active
    <2>2. \A u \in Thread : u # t /\ pc[u] \in InHand =>
              request'[CoreOf[u]][mine[u].buffer].param = request[CoreOf[u]][mine[u].buffer].param
        BY <1>3, <1>4, CommandOfThread, InHandIsActive
    <2> QED
        BY <1>1, <1>3, <2>1, <2>2 DEF OwnCommands, InHand
<1>9. OneRuns'
    BY <1>1, <1>2 DEF OneRuns, Active
<1>10. ReplyInv'
    <2>1. replier[c] = t
        BY <1>1 DEF ReplyInv
    <2>2. \A u \in Thread : pc'[u] \in {"respond", "release"} =>
              replier[CoreOf[u]] = u /\ (pc'[u] = "respond" => response'[CoreOf[u]] = mine[u].buffer)
        <3> TAKE u \in Thread
        <3> HAVE pc'[u] \in {"respond", "release"}
        <3>1. CASE u = t
            BY <1>1, <2>1, <3>1
        <3>2. CASE u # t
            BY <1>1, <1>3, <1>4, <3>2, Constants, InHandIsActive
                DEF ReplyInv, ResponsesFindTheirRequest, InHand
        <3> QED
            BY <3>1, <3>2
    <2>3. service.at \in {"respond", "release"} =>
              /\ replier[service.command.core] = Service
              /\ service.at = "respond" => response'[service.command.core] = service.command.buffer
        BY <1>3, <2>1, Constants, CommandOfService DEF ReplyInv, ResponsesFindTheirRequest
    <2>4. \A d \in Core : response'[d] # Nobody =>
              \/ \E u \in Thread : CoreOf[u] = d /\ pc'[u] = "respond"
              \/ service.at = "respond" /\ service.command.core = d
        BY <1>1, <1>3 DEF ReplyInv
    <2> QED
        BY <1>1, <1>3, <2>2, <2>3, <2>4 DEF ReplyInv, ResponsesFindTheirRequest
<1>11. OnePlace'
    BY <1>3, <1>5 DEF OnePlace
<1>12. BufferInv'
    <2>1. Underway(c, b)
        BY <1>6 DEF Underway
    <2>2. /\ \A u \in Thread : CoreOf[u] = c /\ mine[u].buffer = b =>
                 pc'[u] = "release" /\ (mine[u].async <=> request[c][b].param # NoParam)
          /\ \A u \in Thread : CoreOf[u] # c \/ mine[u].buffer # b => pc'[u] = pc[u]
        BY <1>1, <1>4 DEF OwnCommands, InHand
    <2> QED
        BY <1>1, <1>2, <1>7, <2>1, <2>2, AnswerChanges
<1>13. PoolInv'
    <2>1. IsFiniteSet(Busy') /\ Cardinality(Busy') = Cardinality(Busy)
        BY <1>1, <1>2, BusyChanges DEF PoolInv
    <2> QED
        BY <1>1, <1>2, <1>3, <2>1 DEF PoolInv
<1>14. Agreement'
    <2>1. \A g : Old(g)' <=> Old(g)
        BY <1>3 DEF Old
    <2>2. \A d \in CommandType : d.core # c \/ d.buffer # b =>
              /\ Agrees(d)' <=> Agrees(d)
              /\ request'[d.core][d.buffer] = request[d.core][d.buffer]
        BY <1>1, <1>2, AnswerAgrees
    <2>3. \A u \in Thread : pc'[u] \in InHand =>
              /\ u # t /\ pc[u] = pc'[u] /\ Agrees(mine[u].command)'
              /\ request'[CoreOf[u]][mine[u].buffer] = request[CoreOf[u]][mine[u].buffer]
        <3> TAKE u \in Thread
        <3> HAVE pc'[u] \in InHand
        <3>1. u # t /\ pc[u] = pc'[u]
            BY <1>1 DEF InHand
        <3>2. Active(u) /\ mine[u].command \in CommandType /\ mine[u].command.core = CoreOf[u]
              /\ mine[u].command.buffer = mine[u].buffer
            BY <3>1, InHandIsActive, CommandOfThread
        <3>3. CoreOf[u] # c
            BY <1>4, <3>1, <3>2
        <3> QED
            BY <1>3, <2>2, <3>1, <3>2, <3>3 DEF Agreement
    <2>4. \A i \in 1..Len(queue) : Agrees(queue[i])'
        BY <1>3, <1>6, <2>2, CommandOfQueue DEF Agreement, AtQueue
    <2>5. service.at \in Serving =>
              /\ Agrees(service.command)'
              /\ request'[service.command.core][service.command.buffer]
                     = request[service.command.core][service.command.buffer]
        <3>1. service.at \in Serving => service.command.core # c \/ service.command.buffer # b
            BY <1>6 DEF AtService
        <3> QED
            BY <1>1, <2>2, <3>1, CommandOfService DEF Agreement, Serving
    <2>6. \A d \in Core, a \in Buffer :
              /\ request'[d][a].op = "close" => Old(request'[d][a].handle)
              /\ request'[d][a].op = "open" /\ a \in signaled'[d] /\ request'[d][a].result # Error =>
                     Old(request'[d][a].result)
        <3>1. request[c][b].result = Error
            BY <1>1 DEF Agreement, InHand
        <3>2. \/ request'[c][b] = request[c][b]
              \/ request'[c][b] = NoRequest
            BY <1>1 DEF RespondEffect
        <3>3. \A a \in Buffer : a # b => (a \in signaled'[c] <=> a \in signaled[c])
            BY <1>1 DEF RespondEffect
        <3> QED
            BY <1>3, <3>1, <3>2, <3>3, Handles DEF Agreement
    <2> QED
        BY <1>1, <1>3, <2>1, <2>3, <2>4, <2>5, <2>6 DEF Agreement, Serving
<1> QED
    BY <1>8, <1>9, <1>10, <1>11, <1>12, <1>13, <1>14

LEMMA RespondKeeps ==
    ASSUME BufferPart, Types', ServiceRespondEffect
    PROVE  BufferPart'
<1> DEFINE c == service.command.core
           b == service.command.buffer
<1> USE DEF BufferPart
<1>1. /\ service.at = "respond" /\ service'.at = "release" /\ service'.command = service.command
      /\ service'.result = service.result /\ RespondEffect(c, b) /\ UNCHANGED pc
    BY DEF ServiceRespondEffect
<1>2. /\ b \in Buffer /\ c \in Core /\ b # Nobody
    BY <1>1, CommandOfService, Constants
<1>3. /\ response'[c] = Nobody /\ \A d \in Core : d # c => response'[d] = response[d]
      /\ \A d \in Core : d # c => signaled'[d] = signaled[d] /\ request'[d] = request[d]
                                  /\ callbacks'[d] = callbacks[d]
      /\ \A a \in Buffer : a # b => request'[c][a] = request[c][a]
      /\ Len(callbacks[c]) <= CallbackSize => Len(callbacks'[c]) <= CallbackSize
      /\ UNCHANGED <<pool, slots, counter, replier, queue, clients, mine, known, closed>>
    BY <1>1, <1>2 DEF RespondEffect
<1>4. \A d \in Core, a \in Buffer :
          /\ \A u \in Thread : AtThread(u, d, a)' <=> AtThread(u, d, a)
          /\ AtService(d, a) <=> d = c /\ a = b
          /\ ~AtService(d, a)'
          /\ \A i : AtQueue(i, d, a)' <=> AtQueue(i, d, a)
    BY <1>1, <1>3 DEF AtThread, AtService, AtQueue, Serving
<1>5. /\ AtService(c, b) /\ \A i \in 1..Len(queue) : ~AtQueue(i, c, b)
      /\ \A u \in Thread : ~AtThread(u, c, b)
    BY <1>2, <1>4 DEF OnePlace
<1>6. \A d \in Core, a \in Buffer : Underway(d, a)' <=> Underway(d, a) /\ (d # c \/ a # b)
    BY <1>3, <1>4, <1>5 DEF Underway
<1>7. \A u \in Thread : pc[u] \in InHand => CoreOf[u] # c \/ mine[u].buffer # b
    BY <1>5 DEF AtThread
<1>8. OwnCommands'
    <2>1. \A u \in Thread : Active(u)' <=> Active(u)
        BY <1>1 DEF Active
    <2>2. \A u \in Thread : pc[u] \in InHand =>
              request'[CoreOf[u]][mine[u].buffer].param = request[CoreOf[u]][mine[u].buffer].param
        BY <1>3, <1>7, CommandOfThread, InHandIsActive
    <2> QED
        BY <1>1, <1>3, <2>1, <2>2 DEF OwnCommands
<1>9. OneRuns'
    BY <1>1 DEF OneRuns, Active
<1>10. ReplyInv'
    <2>1. replier[c] = Service
        BY <1>1 DEF ReplyInv
    <2>2. \A u \in Thread : pc[u] \in {"respond", "release"} =>
              replier[CoreOf[u]] = u /\ (pc[u] = "respond" => response'[CoreOf[u]] = mine[u].buffer)
        BY <1>3, <2>1, Constants DEF ReplyInv, ResponsesFindTheirRequest
    <2>3. \A d \in Core : response'[d] # Nobody =>
              \E u \in Thread : CoreOf[u] = d /\ pc[u] = "respond"
        BY <1>1, <1>3 DEF ReplyInv
    <2> QED
        BY <1>1, <1>3, <2>1, <2>2, <2>3 DEF ReplyInv, ResponsesFindTheirRequest
<1>11. OnePlace'
    BY <1>3, <1>4 DEF OnePlace
<1>12. BufferInv'
    <2>1. Underway(c, b)
        BY <1>5 DEF Underway
    <2>2. request[c][b].param # NoParam =>
              \A u \in Thread : CoreOf[u] = c => mine[u].buffer # b
        BY <1>2, <1>5 DEF BufferInv, AtThread
    <2> QED
        BY <1>1, <1>2, <1>6, <2>1, <2>2, AnswerChanges
<1>13. PoolInv'
    <2>1. Busy' = Busy
        BY <1>1 DEF Busy, Active
    <2> QED
        BY <1>1, <1>2, <1>3, <2>1 DEF PoolInv
<1>14. Agreement'
    <2>1. \A g : Old(g)' <=> Old(g)
        BY <1>3 DEF Old
    <2>2. \A d \in CommandType : d.core # c \/ d.buffer # b =>
              /\ Agrees(d)' <=> Agrees(d)
              /\ request'[d.core][d.buffer] = request[d.core][d.buffer]
        BY <1>1, <1>2, AnswerAgrees
    <2>3. \A u \in Thread : pc[u] \in InHand =>
              /\ Agrees(mine[u].command)'
              /\ request'[CoreOf[u]][mine[u].buffer] = request[CoreOf[u]][mine[u].buffer]
        <3> TAKE u \in Thread
        <3> HAVE pc[u] \in InHand
        <3>1. Active(u) /\ mine[u].command \in CommandType /\ mine[u].command.core = CoreOf[u]
              /\ mine[u].command.buffer = mine[u].buffer
            BY InHandIsActive, CommandOfThread
        <3> QED
            BY <1>3, <1>7, <2>2, <3>1 DEF Agreement
    <2>4. \A i \in 1..Len(queue) : Agrees(queue[i])'
        BY <1>3, <1>5, <2>2, CommandOfQueue DEF Agreement, AtQueue
    <2>5. \A d \in Core, a \in Buffer :
              /\ request'[d][a].op = "close" => Old(request'[d][a].handle)
              /\ request'[d][a].op = "open" /\ a \in signaled'[d] /\ request'[d][a].result # Error =>
                     Old(request'[d][a].result)
        <3>1. request[c][b].op = "open" =>
                  request[c][b].result = Error \/ Old(request[c][b].result)
            BY <1>1 DEF Agreement, Agrees, Serving
        <3>2. \/ request'[c][b] = request[c][b]
              \/ request'[c][b] = NoRequest
            BY <1>1 DEF RespondEffect
        <3>3. \A a \in Buffer : a # b => (a \in signaled'[c] <=> a \in signaled[c])
            BY <1>1 DEF RespondEffect
        <3> QED
            BY <1>3, <3>1, <3>2, <3>3, Handles DEF Agreement
    <2> QED
        BY <1>1, <1>3, <2>1, <2>3, <2>4, <2>5 DEF Agreement, Serving, Ops
<1> QED
    BY <1>8, <1>9, <1>10, <1>11, <1>12, <1>13, <1>14

LEMMA FailReleaseKeeps ==
    ASSUME BufferPart, Types', NEW t \in Thread, FailReleaseEffect(t)
    PROVE  BufferPart'
<1> DEFINE c == CoreOf[t]
           b == mine[t].buffer
<1> USE DEF BufferPart
<1>1. /\ pc[t] = "release" /\ OthersStay(t)
      /\ \/ mine[t].async /\ pc'[t] = "idle" /\ mine'[t] = AtRest
         \/ ~mine[t].async /\ pc'[t] = "wait" /\ mine'[t] = [AtRest EXCEPT !.buffer = b]
      /\ pool' = pool + 1 /\ replier'[c] = Nobody
      /\ \A d \in Core : d # c => replier'[d] = replier[d]
      /\ UNCHANGED <<free, request, signaled, callbacks, response, queue, clients, slots, counter,
                     known, closed, service>>
    BY DEF FailReleaseEffect, LeaveEffect, ReleaseEffect
<1>2. /\ Active(t) /\ ~Active(t)' /\ b \in Buffer /\ c \in Core /\ b # Nobody
    BY <1>1, InHandIsActive, CommandOfThread, Constants DEF Active
<1>3. /\ ~mine'[t].async
      /\ mine'[t].buffer = IF pc'[t] = "idle" THEN Nobody ELSE b
    BY <1>1, <1>2, AtRestIs
<1>4. \A d \in Core, a \in Buffer :
          /\ \A u \in Thread : AtThread(u, d, a)' <=> AtThread(u, d, a)
          /\ AtService(d, a)' <=> AtService(d, a)
          /\ \A i : AtQueue(i, d, a)' <=> AtQueue(i, d, a)
    BY <1>1 DEF AtThread, AtService, AtQueue, OthersStay, InHand
<1>5. \A d \in Core, a \in Buffer : Underway(d, a)' <=> Underway(d, a)
    BY <1>1, <1>4 DEF Underway
<1>6. OwnCommands'
    BY <1>1, <1>2, <1>3 DEF OwnCommands, OthersStay, Active, InHand
<1>7. OneRuns'
    BY <1>1, <1>2 DEF OneRuns, OthersStay, Active
<1>8. ReplyInv'
    <2>1. replier[c] = t
        BY <1>1 DEF ReplyInv
    <2>2. \A u \in Thread : pc'[u] \in {"respond", "release"} =>
              replier'[CoreOf[u]] = u /\ (pc'[u] = "respond" => response[CoreOf[u]] = mine'[u].buffer)
        <3> TAKE u \in Thread
        <3> HAVE pc'[u] \in {"respond", "release"}
        <3>1. u # t /\ mine'[u] = mine[u] /\ pc'[u] = pc[u]
            BY <1>1 DEF OthersStay
        <3>2. CoreOf[u] # c
            BY <1>2, <3>1, InHandIsActive DEF OneRuns, InHand
        <3> QED
            BY <1>1, <3>1, <3>2, Constants DEF ReplyInv, ResponsesFindTheirRequest
    <2>3. service.at \in {"respond", "release"} => replier'[service.command.core] = Service
        BY <1>1, <2>1, Constants, CommandOfService DEF ReplyInv
    <2>4. \A d \in Core : response[d] # Nobody =>
              \/ \E u \in Thread : CoreOf[u] = d /\ pc'[u] = "respond"
              \/ service.at = "respond" /\ service.command.core = d
        BY <1>1 DEF ReplyInv, OthersStay
    <2> QED
        BY <1>1, <2>2, <2>3, <2>4 DEF ReplyInv, ResponsesFindTheirRequest
<1>9. OnePlace'
    BY <1>1, <1>4 DEF OnePlace
<1>10. BufferInv'
    <2>1. \A u, v \in Thread : CoreOf[u] = CoreOf[v] /\ mine'[u].buffer = mine'[v].buffer
                              /\ pc'[u] # "idle" => u = v
        <3>1. mine'[t].buffer = b \/ mine'[t].buffer = Nobody
            BY <1>3
        <3>2. \A u \in Thread : u # t /\ pc[u] # "idle" => mine'[u].buffer # Nobody
            BY <1>1 DEF OthersStay, OwnCommands
        <3> QED
            BY <1>1, <1>3, <3>1, <3>2 DEF BufferInv, OthersStay
    <2>2. \A e \in Core, a \in Buffer : a \in free'[e] =>
              \A u \in Thread : CoreOf[u] = e /\ mine'[u].buffer = a =>
                  pc'[u] = "release" /\ mine'[u].async
        BY <1>1, <1>2, <1>3, Constants DEF BufferInv, OthersStay
    <2>3. \A e \in Core, a \in Buffer : request'[e][a].param # NoParam =>
              \A u \in Thread : CoreOf[u] = e /\ mine'[u].buffer = a => pc'[u] \in InHand
        BY <1>1, <1>2, <1>3, Constants DEF BufferInv, OthersStay, InHand
    <2> QED
        BY <1>1, <1>5, <2>1, <2>2, <2>3 DEF BufferInv
<1>11. PoolInv'
    <2>1. IsFiniteSet(Busy') /\ Cardinality(Busy') = Cardinality(Busy) - 1
          /\ Cardinality(Busy) \in Nat
        BY <1>1, <1>2, BusyChanges DEF PoolInv, OthersStay
    <2>2. UNCHANGED <<callbacks, queue, service>> /\ pool' = pool + 1 /\ Len(queue) \in Nat
        BY <1>1 DEF Types, ServiceTypes
    <2> QED
        BY <2>1, <2>2, Constants DEF PoolInv
<1>12. Agreement'
    <2>1. \A g : Old(g)' <=> Old(g)
        BY <1>1 DEF Old
    <2>2. \A e \in CommandType : Agrees(e)' <=> Agrees(e)
        BY <1>1 DEF Agrees
    <2>3. \A u \in Thread : pc'[u] \in InHand =>
              /\ u # t /\ pc[u] \in InHand /\ mine'[u] = mine[u] /\ pc'[u] = pc[u]
              /\ Agrees(mine[u].command)'
        <3> TAKE u \in Thread
        <3> HAVE pc'[u] \in InHand
        <3>1. u # t /\ pc[u] \in InHand /\ mine'[u] = mine[u] /\ pc'[u] = pc[u]
            BY <1>1 DEF OthersStay, InHand
        <3>2. mine[u].command \in CommandType
            BY <3>1, InHandIsActive, CommandOfThread
        <3> QED
            BY <2>2, <3>1, <3>2 DEF Agreement
    <2>4. \A i \in 1..Len(queue) : Agrees(queue[i])'
        BY <1>1, <2>2, CommandOfQueue DEF Agreement
    <2>5. service.at \in Serving => Agrees(service.command)'
        BY <1>1, <2>2, CommandOfService DEF Agreement, Serving
    <2> QED
        BY <1>1, <2>1, <2>3, <2>4, <2>5 DEF Agreement
<1> QED
    BY <1>6, <1>7, <1>8, <1>9, <1>10, <1>11, <1>12

\* Receiving another request, working on it and being done with it: what the
\* steps of the service share that leave the guest and the driver alone.
LEMMA ServiceSteps ==
    ASSUME BufferPart, Types', UNCHANGED <<request, signaled, callbacks, response, counter, pc, mine, known, closed>>
    PROVE  /\ OwnCommands' /\ OneRuns' /\ Busy' = Busy
           /\ \A g : Old(g)' <=> Old(g)
           /\ \A d \in CommandType : Agrees(d)' <=> Agrees(d)
           /\ \A t \in Thread : pc[t] \in InHand => Agrees(mine[t].command)'
           /\ \A d \in Core, a \in Buffer : \A t \in Thread : AtThread(t, d, a)' <=> AtThread(t, d, a)
<1> USE DEF BufferPart
<1>1. OwnCommands' /\ OneRuns'
    BY DEF OwnCommands, OneRuns, Active
<1>2. Busy' = Busy
    BY DEF Busy, Active
<1>3. \A g : Old(g)' <=> Old(g)
    BY DEF Old
<1>4. \A d \in CommandType : Agrees(d)' <=> Agrees(d)
    BY DEF Agrees
<1>5. \A t \in Thread : pc[t] \in InHand => Agrees(mine[t].command)'
    BY <1>4, CommandOfThread, InHandIsActive DEF Agreement
<1>6. \A d \in Core, a \in Buffer : \A t \in Thread : AtThread(t, d, a)' <=> AtThread(t, d, a)
    BY DEF AtThread
<1> QED
    BY <1>1, <1>2, <1>3, <1>4, <1>5, <1>6

LEMMA ReleaseKeeps ==
    ASSUME BufferPart, Types', ServiceReleaseEffect
    PROVE  BufferPart'
<1> DEFINE c == service.command.core
<1> USE DEF BufferPart
<1>1. /\ service.at = "release"
      /\ \/ /\ service.command.op = "close" /\ service'.at = "destroy"
            /\ service'.command = service.command /\ service'.result = service.result
         \/ service.command.op # "close" /\ service'.at = "receive"
      /\ pool' = pool + 1 /\ replier'[c] = Nobody
      /\ \A d \in Core : d # c => replier'[d] = replier[d]
      /\ UNCHANGED <<free, request, signaled, callbacks, response, queue, clients, slots, counter,
                     known, closed, pc, mine>>
    BY ReceivingIs DEF ServiceReleaseEffect, ReleaseEffect
<1>2. /\ OwnCommands' /\ OneRuns' /\ Busy' = Busy
      /\ \A g : Old(g)' <=> Old(g)
      /\ \A d \in CommandType : Agrees(d)' <=> Agrees(d)
      /\ \A t \in Thread : pc[t] \in InHand => Agrees(mine[t].command)'
      /\ \A d \in Core, a \in Buffer : \A t \in Thread : AtThread(t, d, a)' <=> AtThread(t, d, a)
    BY <1>1, ServiceSteps
<1>3. \A d \in Core, a \in Buffer :
          /\ ~AtService(d, a)' /\ ~AtService(d, a)
          /\ \A i : AtQueue(i, d, a)' <=> AtQueue(i, d, a)
    BY <1>1 DEF AtService, AtQueue, Serving
<1>4. \A d \in Core, a \in Buffer : Underway(d, a)' <=> Underway(d, a)
    BY <1>1, <1>2, <1>3 DEF Underway
<1>5. ReplyInv'
    <2>1. replier[c] = Service
        BY <1>1 DEF ReplyInv
    <2>2. \A t \in Thread : pc[t] \in {"respond", "release"} => replier'[CoreOf[t]] = t
        BY <1>1, <2>1, Constants DEF ReplyInv
    <2> QED
        BY <1>1, <2>2 DEF ReplyInv, ResponsesFindTheirRequest
<1>6. OnePlace'
    BY <1>1, <1>2, <1>3 DEF OnePlace
<1>7. BufferInv'
    BY <1>1, <1>4 DEF BufferInv
<1>8. PoolInv'
    BY <1>1, <1>2, FS_CardinalityType DEF PoolInv, Types, ServiceTypes
<1>9. Agreement'
    <2>1. \A i \in 1..Len(queue) : Agrees(queue[i])'
        BY <1>1, <1>2, CommandOfQueue DEF Agreement
    <2> QED
        BY <1>1, <1>2, <2>1 DEF Agreement, Serving, Ops
<1> QED
    BY <1>2, <1>5, <1>6, <1>7, <1>8, <1>9

LEMMA DestroyKeeps ==
    ASSUME BufferPart, Types', DestroyEffect
    PROVE  BufferPart'
<1> USE DEF BufferPart
<1>1. /\ service.at = "destroy" /\ service'.at = "receive"
      /\ UNCHANGED <<free, request, signaled, callbacks, pool, counter, replier, response, queue,
                     pc, mine, known, closed>>
    BY ReceivingIs DEF DestroyEffect
<1>2. /\ OwnCommands' /\ OneRuns' /\ Busy' = Busy
      /\ \A g : Old(g)' <=> Old(g)
      /\ \A d \in CommandType : Agrees(d)' <=> Agrees(d)
      /\ \A t \in Thread : pc[t] \in InHand => Agrees(mine[t].command)'
      /\ \A d \in Core, a \in Buffer : \A t \in Thread : AtThread(t, d, a)' <=> AtThread(t, d, a)
    BY <1>1, ServiceSteps
<1>3. \A d \in Core, a \in Buffer :
          /\ ~AtService(d, a)' /\ ~AtService(d, a)
          /\ \A i : AtQueue(i, d, a)' <=> AtQueue(i, d, a)
    BY <1>1 DEF AtService, AtQueue, Serving
<1>4. \A d \in Core, a \in Buffer : Underway(d, a)' <=> Underway(d, a)
    BY <1>1, <1>2, <1>3 DEF Underway
<1>5. ReplyInv'
    BY <1>1 DEF ReplyInv, ResponsesFindTheirRequest
<1>6. OnePlace'
    BY <1>1, <1>2, <1>3 DEF OnePlace
<1>7. BufferInv'
    BY <1>1, <1>4 DEF BufferInv
<1>8. PoolInv'
    BY <1>1, <1>2 DEF PoolInv
<1>9. Agreement'
    <2>1. \A i \in 1..Len(queue) : Agrees(queue[i])'
        BY <1>1, <1>2, CommandOfQueue DEF Agreement
    <2> QED
        BY <1>1, <1>2, <2>1 DEF Agreement, Serving, Ops
<1> QED
    BY <1>2, <1>5, <1>6, <1>7, <1>8, <1>9

LEMMA ServiceMovesKeeps ==
    ASSUME BufferPart, Types', ServiceMoves
    PROVE  BufferPart'
<1> USE DEF BufferPart
<1>1. /\ service.at \in {"open", "close", "ioctl", "assign", "refuse"}
      /\ service'.at \in {"assign", "refuse", "reply", "stopped"}
      /\ service'.command = service.command
      /\ service'.at = "assign" => service.at = "open"
             /\ service'.result = service.command.handle /\ service'.client \in Client
      /\ service'.at = "refuse" => service.at = "open" /\ service'.result = Error
      /\ service'.at = "reply" => service.at # "open" /\ service'.result = service.result
      /\ service'.at = "stopped" => service.at = "ioctl" /\ service'.result = service.result
      /\ UNCHANGED <<free, request, signaled, callbacks, pool, counter, replier, response, queue,
                     pc, mine, known, closed>>
    BY DEF ServiceMoves
<1>2. /\ OwnCommands' /\ OneRuns' /\ Busy' = Busy
      /\ \A g : Old(g)' <=> Old(g)
      /\ \A d \in CommandType : Agrees(d)' <=> Agrees(d)
      /\ \A t \in Thread : pc[t] \in InHand => Agrees(mine[t].command)'
      /\ \A d \in Core, a \in Buffer : \A t \in Thread : AtThread(t, d, a)' <=> AtThread(t, d, a)
    BY <1>1, ServiceSteps
<1>3. \A d \in Core, a \in Buffer :
          /\ AtService(d, a)' <=> AtService(d, a)
          /\ \A i : AtQueue(i, d, a)' <=> AtQueue(i, d, a)
    BY <1>1 DEF AtService, AtQueue, Serving
<1>4. \A d \in Core, a \in Buffer : Underway(d, a)' <=> Underway(d, a)
    BY <1>1, <1>2, <1>3 DEF Underway
<1>5. ReplyInv'
    BY <1>1 DEF ReplyInv, ResponsesFindTheirRequest
<1>6. OnePlace'
    BY <1>1, <1>2, <1>3 DEF OnePlace
<1>7. BufferInv'
    BY <1>1, <1>4 DEF BufferInv
<1>8. PoolInv'
    BY <1>1, <1>2 DEF PoolInv
<1>9. Agreement'
    <2>1. \A i \in 1..Len(queue) : Agrees(queue[i])'
        BY <1>1, <1>2, CommandOfQueue DEF Agreement
    <2>2. Agrees(service.command)'
        BY <1>1, <1>2, CommandOfService DEF Agreement, Serving
    <2>3. /\ service.at = "open" => service.command.op = "open"
          /\ service'.at = "reply" /\ service.command.op = "open" =>
                 service.result \in {Error, service.command.handle}
        BY <1>1 DEF Agreement, Ops
    <2> QED
        BY <1>1, <1>2, <2>1, <2>2, <2>3 DEF Agreement, Serving, Ops
<1> QED
    BY <1>2, <1>5, <1>6, <1>7, <1>8, <1>9

LEMMA ReceiveKeeps ==
    ASSUME BufferPart, Types', ReceiveEffect
    PROVE  BufferPart'
<1> USE DEF BufferPart
<1>1. /\ service.at = "receive" /\ Len(queue) \in Nat \ {0}
      /\ queue[1] \in CommandType
      /\ service'.at = queue[1].op /\ service'.command = queue[1] /\ service'.result = Ok
      /\ Len(queue') = Len(queue) - 1
      /\ \A i \in 1..Len(queue') : queue'[i] = queue[i + 1]
      /\ UNCHANGED <<free, request, signaled, callbacks, pool, slots, counter, replier, response,
                     clients, pc, mine, known, closed>>
    BY DEF ReceiveEffect
<1>2. /\ OwnCommands' /\ OneRuns' /\ Busy' = Busy
      /\ \A g : Old(g)' <=> Old(g)
      /\ \A d \in CommandType : Agrees(d)' <=> Agrees(d)
      /\ \A t \in Thread : pc[t] \in InHand => Agrees(mine[t].command)'
      /\ \A d \in Core, a \in Buffer : \A t \in Thread : AtThread(t, d, a)' <=> AtThread(t, d, a)
    BY <1>1, ServiceSteps
<1>3. /\ queue[1].op \in Ops /\ 1 \in 1..Len(queue)
      /\ \A i \in 1..Len(queue') : i + 1 \in 1..Len(queue) /\ i + 1 # 1
      /\ \A i \in 1..Len(queue) : i # 1 => i - 1 \in 1..Len(queue') /\ queue'[i - 1] = queue[i]
    BY <1>1 DEF CommandType
<1>4. \A d \in Core, a \in Buffer :
          /\ AtService(d, a)' <=> AtQueue(1, d, a)
          /\ ~AtService(d, a)
          /\ \A i \in 1..Len(queue') : AtQueue(i, d, a)' <=> AtQueue(i + 1, d, a)
          /\ \A i \in 1..Len(queue), j \in 1..Len(queue') :
                 j = i - 1 => (AtQueue(j, d, a)' <=> AtQueue(i, d, a))
    BY <1>1, <1>3 DEF AtService, AtQueue, Serving, Ops
<1>5. \A d \in Core, a \in Buffer : Underway(d, a)' <=> Underway(d, a)
    <2> TAKE d \in Core, a \in Buffer
    <2>1. Underway(d, a)' => Underway(d, a)
        BY <1>2, <1>3, <1>4 DEF Underway
    <2>2. Underway(d, a) => Underway(d, a)'
        <3>1. CASE \E t \in Thread : AtThread(t, d, a)
            BY <1>2, <3>1 DEF Underway
        <3>2. CASE AtQueue(1, d, a)
            BY <1>4, <3>2 DEF Underway
        <3>3. ASSUME NEW i \in 1..Len(queue), i # 1, AtQueue(i, d, a) PROVE Underway(d, a)'
            <4>1. i - 1 \in 1..Len(queue')
                BY <1>1, <3>3
            <4>2. PICK j \in 1..Len(queue') : j = i - 1
                BY <4>1
            <4>3. AtQueue(j, d, a)'
                BY <1>4, <3>3, <4>2
            <4> QED
                BY <4>3 DEF Underway
        <3> QED
            BY <1>4, <3>1, <3>2, <3>3 DEF Underway
    <2> QED
        BY <2>1, <2>2
<1>6. ReplyInv'
    BY <1>1, <1>3 DEF ReplyInv, ResponsesFindTheirRequest, Ops
<1>7. OnePlace'
    <2>1. \A d \in Core, a \in Buffer : AtService(d, a)' => \A t \in Thread : ~AtThread(t, d, a)'
        BY <1>2, <1>3, <1>4 DEF OnePlace
    <2>2. \A d \in Core, a \in Buffer : \A i \in 1..Len(queue') : AtQueue(i, d, a)' =>
              /\ ~AtService(d, a)'
              /\ \A t \in Thread : ~AtThread(t, d, a)'
              /\ \A j \in 1..Len(queue') : AtQueue(j, d, a)' => i = j
        <3> TAKE d \in Core, a \in Buffer
        <3> TAKE i \in 1..Len(queue')
        <3> HAVE AtQueue(i, d, a)'
        <3>1. AtQueue(i + 1, d, a) /\ i + 1 \in 1..Len(queue)
            BY <1>3, <1>4
        <3>2. ~AtService(d, a)' /\ \A t \in Thread : ~AtThread(t, d, a)'
            BY <1>2, <1>3, <1>4, <3>1 DEF OnePlace
        <3>3. \A j \in 1..Len(queue') : AtQueue(j, d, a)' => i + 1 = j + 1
            BY <1>3, <1>4, <3>1 DEF OnePlace
        <3> QED
            BY <3>2, <3>3
    <2> QED
        BY <2>1, <2>2 DEF OnePlace
<1>8. BufferInv'
    BY <1>1, <1>5 DEF BufferInv
<1>9. PoolInv'
    <2>1. Cardinality(Busy) \in Nat /\ service'.at \notin {"receive", "destroy"}
        BY <1>1, <1>3, FS_CardinalityType DEF PoolInv, Ops
    <2> QED
        BY <1>1, <1>2, <2>1, Constants DEF PoolInv
<1>10. Agreement'
    <2>1. \A i \in 1..Len(queue') : Agrees(queue[i])' /\ Old(queue[i].handle)'
        BY <1>1, <1>2, <1>3, CommandOfQueue DEF Agreement
    <2>2. Agrees(service.command)' /\ Old(service.command.handle)'
        BY <1>1, <1>2, <1>3 DEF Agreement
    <2> QED
        BY <1>1, <1>2, <1>3, <2>1, <2>2 DEF Agreement, Serving, Ops
<1> QED
    BY <1>2, <1>6, <1>7, <1>8, <1>9, <1>10

LEMMA WaitReturnsKeeps ==
    ASSUME BufferPart, Types', NEW t \in Thread, WaitReturnsEffect(t), mine[t].buffer \in Buffer
    PROVE  BufferPart'
<1> DEFINE c == CoreOf[t]
           b == mine[t].buffer
           r == request[c][b]
<1> USE DEF BufferPart
<1>1. /\ pc[t] = "wait" /\ Runs(t) /\ b \in signaled[c]
      /\ pc'[t] = "idle" /\ mine'[t].buffer = Nobody /\ OthersStay(t)
      /\ signaled'[c] = signaled[c] \ {b} /\ free'[c] = free[c] \cup {b}
      /\ request'[c][b] = NoRequest
      /\ \A d \in Core : d # c => /\ signaled'[d] = signaled[d] /\ free'[d] = free[d]
                                  /\ request'[d] = request[d]
      /\ \A a \in Buffer : a # b => request'[c][a] = request[c][a]
      /\ known' = IF r.op = "open" /\ r.result # Error THEN known \cup {r.result}
                  ELSE IF r.op = "close" /\ r.result = Error THEN known \cup {r.handle}
                  ELSE known
      /\ closed' = IF r.op = "close" /\ r.result = Error THEN closed \ {r.handle} ELSE closed
      /\ UNCHANGED <<callbacks, pool, slots, counter, replier, response, queue, service, clients>>
    BY AtRestIs DEF WaitReturnsEffect
<1>2. /\ ~Active(t) /\ ~Active(t)' /\ c \in Core /\ b \in Buffer /\ b # Nobody
    BY <1>1, Constants DEF Active
<1>3. ~Underway(c, b)
    BY <1>1, <1>2 DEF BufferInv
<1>4. \A u \in Thread : u # t /\ CoreOf[u] = c => mine[u].buffer # b
    BY <1>1 DEF BufferInv
<1>5. \A d \in Core, a \in Buffer :
          /\ ~AtThread(t, d, a)' /\ ~AtThread(t, d, a)
          /\ \A u \in Thread : u # t => (AtThread(u, d, a)' <=> AtThread(u, d, a))
          /\ AtService(d, a)' <=> AtService(d, a)
          /\ \A i : AtQueue(i, d, a)' <=> AtQueue(i, d, a)
    BY <1>1 DEF AtThread, AtService, AtQueue, OthersStay, InHand
<1>6. \A d \in Core, a \in Buffer : Underway(d, a)' <=> Underway(d, a)
    BY <1>1, <1>5 DEF Underway
<1>7. OwnCommands'
    <2>1. \A u \in Thread : u # t /\ pc[u] \in InHand =>
              request'[CoreOf[u]][mine[u].buffer] = request[CoreOf[u]][mine[u].buffer]
        BY <1>1, <1>4, CommandOfThread, InHandIsActive
    <2> QED
        BY <1>1, <1>2, <2>1 DEF OwnCommands, OthersStay, Active, InHand
<1>8. OneRuns'
    BY <1>1, <1>2 DEF OneRuns, OthersStay, Active
<1>9. ReplyInv'
    BY <1>1 DEF ReplyInv, OthersStay, ResponsesFindTheirRequest
<1>10. OnePlace'
    BY <1>1, <1>5 DEF OnePlace
<1>11. BufferInv'
    <2>1. \A u, v \in Thread : CoreOf[u] = CoreOf[v] /\ mine'[u].buffer = mine'[v].buffer
                              /\ pc'[u] # "idle" => u = v
        BY <1>1 DEF BufferInv, OthersStay, OwnCommands
    <2>2. \A e \in Core, a \in Buffer : a \in free'[e] =>
              /\ request'[e][a] = NoRequest /\ a \notin signaled'[e] /\ ~Underway(e, a)'
              /\ \A u \in Thread : CoreOf[u] = e /\ mine'[u].buffer = a =>
                     pc'[u] = "release" /\ mine'[u].async
        <3> TAKE e \in Core, a \in Buffer
        <3> HAVE a \in free'[e]
        <3>1. CASE e = c /\ a = b
            BY <1>1, <1>2, <1>3, <1>4, <1>6, <3>1, Constants DEF OthersStay
        <3>2. CASE e # c \/ a # b
            <4>1. a \in free[e] /\ request'[e][a] = request[e][a]
                  /\ (a \in signaled'[e] => a \in signaled[e])
                BY <1>1, <3>2
            <4>2. \A u \in Thread : CoreOf[u] = e /\ mine'[u].buffer = a =>
                      pc'[u] = "release" /\ mine'[u].async
                BY <1>1, <4>1, Constants DEF BufferInv, OthersStay
            <4> QED
                BY <1>6, <4>1, <4>2 DEF BufferInv
        <3> QED
            BY <3>1, <3>2
    <2>3. \A e \in Core, a \in Buffer : request'[e][a].param # NoParam =>
              \A u \in Thread : CoreOf[u] = e /\ mine'[u].buffer = a => pc'[u] \in InHand
        BY <1>1, <1>2, <1>4, Handles, Constants DEF BufferInv, OthersStay
    <2>4. \A e \in Core, a \in Buffer : Underway(e, a)' => a \notin signaled'[e]
        BY <1>1, <1>6 DEF BufferInv
    <2> QED
        BY <2>1, <2>2, <2>3, <2>4 DEF BufferInv
<1>12. PoolInv'
    <2>1. IsFiniteSet(Busy') /\ Cardinality(Busy') = Cardinality(Busy)
        BY <1>1, <1>2, BusyChanges DEF PoolInv, OthersStay
    <2> QED
        BY <1>1, <2>1 DEF PoolInv
<1>13. Agreement'
    <2>1. \A g : Old(g)' <=> Old(g)
        BY <1>1 DEF Old
    <2>2. \A d \in CommandType : d.core # c \/ d.buffer # b =>
              /\ Agrees(d)' <=> Agrees(d)
              /\ request'[d.core][d.buffer] = request[d.core][d.buffer]
        BY <1>1 DEF Agrees, CommandType
    <2>3. \A u \in Thread : pc'[u] \in InHand =>
              /\ u # t /\ pc[u] = pc'[u] /\ mine'[u] = mine[u] /\ Agrees(mine[u].command)'
              /\ request'[CoreOf[u]][mine[u].buffer] = request[CoreOf[u]][mine[u].buffer]
        <3> TAKE u \in Thread
        <3> HAVE pc'[u] \in InHand
        <3>1. u # t /\ pc[u] = pc'[u] /\ mine'[u] = mine[u]
            BY <1>1 DEF InHand, OthersStay
        <3>2. Active(u) /\ mine[u].command \in CommandType /\ mine[u].command.core = CoreOf[u]
              /\ mine[u].command.buffer = mine[u].buffer
            BY <3>1, InHandIsActive, CommandOfThread
        <3> QED
            BY <1>4, <2>2, <3>1, <3>2 DEF Agreement
    <2>4. \A i \in 1..Len(queue) : Agrees(queue[i])'
        BY <1>1, <1>2, <1>3, <2>2, CommandOfQueue DEF Agreement, AtQueue, Underway
    <2>5. service.at \in Serving =>
              /\ Agrees(service.command)'
              /\ request'[service.command.core][service.command.buffer]
                     = request[service.command.core][service.command.buffer]
        <3>1. service.at \in Serving => service.command.core # c \/ service.command.buffer # b
            BY <1>2, <1>3 DEF AtService, Underway
        <3> QED
            BY <1>1, <2>2, <3>1, CommandOfService DEF Agreement, Serving
    <2>6. \A d \in Core, a \in Buffer :
              /\ request'[d][a].op = "close" => Old(request'[d][a].handle)
              /\ request'[d][a].op = "open" /\ a \in signaled'[d] /\ request'[d][a].result # Error =>
                     Old(request'[d][a].result)
        BY <1>1, Handles DEF Agreement
    <2>7. \A h \in known' \cup closed' : Old(h)
        <3>1. \A h \in known \cup closed : Old(h)
            BY DEF Agreement
        <3>2. r.op = "open" /\ r.result # Error => Old(r.result)
            BY <1>1, <1>2 DEF Agreement
        <3>3. r.op = "close" => Old(r.handle)
            BY <1>2 DEF Agreement
        <3>4. \/ known' = known
              \/ known' = known \cup {r.result} /\ r.op = "open" /\ r.result # Error
              \/ known' = known \cup {r.handle} /\ r.op = "close"
            BY <1>1
        <3>5. closed' \subseteq closed
            BY <1>1
        <3> QED
            BY <3>1, <3>2, <3>3, <3>4, <3>5
    <2>8. \A i \in 1..Len(queue) : Old(queue[i].handle)
        BY DEF Agreement
    <2>9. \A u \in Thread : pc'[u] \in InHand =>
              /\ Agrees(mine[u].command)'
              /\ pc'[u] \in {"open", "claim"} => mine'[u].command.op = "open"
              /\ pc'[u] \in {"dispatch", "send"} => Old(mine[u].command.handle)'
              /\ pc'[u] = "respond" => request'[CoreOf[u]][mine'[u].buffer].result = Error
        <3> TAKE u \in Thread
        <3> HAVE pc'[u] \in InHand
        <3>1. PICK h : h = mine[u].command.handle
            OBVIOUS
        <3>2. /\ pc'[u] \in {"open", "claim"} => mine'[u].command.op = "open"
              /\ pc'[u] \in {"dispatch", "send"} => Old(h)
              /\ pc'[u] = "respond" => request'[CoreOf[u]][mine'[u].buffer].result = Error
            BY <2>3, <3>1 DEF Agreement
        <3>3. Old(h)' <=> Old(h)
            BY <2>1
        <3>4. h = mine'[u].command.handle
            BY <2>3, <3>1
        <3> QED
            BY <2>3, <3>2, <3>3, <3>4
    <2>10. /\ service'.at \in Serving => Agrees(service.command)'
           /\ service'.at # "receive" => Old(service.command.handle)'
           /\ service'.at = "respond" =>
                  request'[service'.command.core][service'.command.buffer].result = service'.result
        BY <1>1, <2>1, <2>5 DEF Agreement, Serving
    <2> QED
        BY <1>1, <2>1, <2>4, <2>6, <2>7, <2>8, <2>9, <2>10 DEF Agreement
<1> QED
    BY <1>7, <1>8, <1>9, <1>10, <1>11, <1>12, <1>13

\* The IPC thread changes the messages to it only.
LEMMA CallbacksKeep ==
    ASSUME BufferPart, Types',
           UNCHANGED <<free, request, signaled, response, pool, slots, counter, replier,
                       queue, service, clients, pc, mine, known, closed>>,
           \A d \in Core : Len(callbacks[d]) <= CallbackSize => Len(callbacks'[d]) <= CallbackSize
    PROVE  BufferPart'
<1> USE DEF BufferPart
<1>1. OwnCommands' /\ OneRuns' /\ ReplyInv' /\ OnePlace'
    BY DEF OwnCommands, OneRuns, Active, ReplyInv, ResponsesFindTheirRequest, OnePlace, AtThread,
           AtService, AtQueue
<1>2. BufferInv'
    <2>1. \A d \in Core, a \in Buffer : Underway(d, a)' <=> Underway(d, a)
        BY DEF Underway, AtThread, AtService, AtQueue
    <2> QED
        BY <2>1 DEF BufferInv
<1>3. PoolInv'
    BY DEF PoolInv, Busy, Active
<1>4. Agreement'
    BY DEF Agreement, Agrees, Old
<1> QED
    BY <1>1, <1>2, <1>3, <1>4

LEMMA BufferPartInit ==
    ASSUME Init
    PROVE  BufferPart
<1> USE DEF Init
<1>1. Types
    <2>1. DriverTypes
        BY Handles, Constants DEF DriverTypes
    <2>2. KernelTypes
        BY Handles DEF KernelTypes, FreeSlot
    <2>3. ServiceTypes
        BY ReceivingIs DEF ServiceTypes, ServiceType
    <2>4. ThreadTypes
        BY AtRestIs DEF ThreadTypes, MineType
    <2> QED
        BY <2>1, <2>2, <2>3, <2>4 DEF Types
<1>2. OwnCommands /\ OneRuns
    BY AtRestIs DEF OwnCommands, OneRuns, Active, InHand
<1>3. /\ \A t \in Thread : pc[t] = "idle" /\ mine[t].buffer = Nobody
      /\ service.at = "receive" /\ Len(queue) = 0
    BY AtRestIs, ReceivingIs
<1>4. ReplyInv
    BY <1>3 DEF ReplyInv, ResponsesFindTheirRequest
<1>5. \A c \in Core, b \in Buffer : ~Underway(c, b) /\ request[c][b] = NoRequest
    BY <1>3 DEF Underway, AtThread, AtService, InHand, Serving
<1>6. OnePlace
    BY <1>3 DEF OnePlace, AtService, Serving
<1>7. BufferInv
    BY <1>3, <1>5, Handles, Constants DEF BufferInv
<1>8. PoolInv
    <2>1. Busy = {}
        BY <1>3 DEF Busy, Active
    <2> QED
        BY <1>3, <2>1, FS_EmptySet, Constants DEF PoolInv
<1>9. Agreement
    BY <1>3, <1>5, Handles DEF Agreement, InHand, Serving, Ops
<1> QED
    BY <1>1, <1>2, <1>4, <1>6, <1>7, <1>8, <1>9 DEF BufferPart

LEMMA BufferPartStays ==
    ASSUME BufferPart, [Next]_vars
    PROVE  BufferPart'
<1> USE DEF BufferPart
<1>1. ASSUME NEW t \in Thread, Call(t) PROVE BufferPart'
    BY <1>1, CallDoes, CallKeeps
<1>2. ASSUME NEW t \in Thread, ThreadStep(t) PROVE BufferPart'
    <2>1. CASE FindSlot(t)
        <3>1. Types' /\ FindSlotEffect(t)
            BY <2>1, FindSlotDoes
        <3>2. /\ KeepsRequest(t) /\ counter' = counter /\ mine'[t].command = mine[t].command
              /\ pc'[t] = "claim" => pc[t] = "open" /\ mine'[t].slot \in Slot
              /\ pc'[t] \notin {"dispatch", "send"}
            BY <3>1 DEF FindSlotEffect
        <3> QED
            BY <3>1, <3>2, KeepsRequestKeeps
    <2>2. CASE ClaimSlot(t)
        <3>1. Types' /\ ClaimSlotEffect(t)
            BY <2>2, ClaimSlotDoes
        <3>2. /\ KeepsRequest(t) /\ counter' = counter + 1 /\ pc[t] = "claim" /\ pc'[t] = "dispatch"
              /\ mine'[t].command.handle = <<mine[t].slot, counter>> /\ mine[t].slot \in Slot
            BY <3>1 DEF ClaimSlotEffect
        <3>3. mine[t].command.op = "open"
            BY <3>2 DEF Agreement, InHand
        <3>4. Old(mine[t].command.handle)'
            BY <3>2 DEF Old, Types, KernelTypes
        <3> QED
            BY <3>1, <3>2, <3>3, <3>4, KeepsRequestKeeps
    <2>3. CASE Dispatch(t)
        <3>1. Types' /\ DispatchEffect(t)
            BY <2>3, DispatchDoes
        <3>2. /\ KeepsRequest(t) /\ counter' = counter /\ pc[t] = "dispatch"
              /\ pc'[t] \in {"send", "fail"} /\ mine'[t].command.handle = mine[t].command.handle
            BY <3>1 DEF DispatchEffect
        <3>3. Old(mine[t].command.handle)'
            BY <3>2 DEF Agreement, InHand, Old
        <3> QED
            BY <3>1, <3>2, <3>3, KeepsRequestKeeps
    <2>4. CASE SendMessage(t)
        <3>1. Types' /\ (SendEffect(t) \/ (KeepsRequest(t) /\ pc'[t] = "fail"
                                           /\ UNCHANGED <<slots, counter, mine>>))
            BY <2>4, SendMessageDoes
        <3> QED
            BY <3>1, SendKeeps, KeepsRequestKeeps
    <2>5. CASE Fail(t)
        BY <2>5, FailDoes, FailKeeps
    <2>6. CASE FailRespond(t)
        BY <2>6, FailRespondDoes, FailRespondKeeps
    <2>7. CASE FailRelease(t)
        BY <2>7, FailReleaseDoes, FailReleaseKeeps
    <2>8. CASE WaitReturns(t)
        BY <2>8, WaitReturnsDoes, WaitReturnsKeeps
    <2> QED
        BY <1>2, <2>1, <2>2, <2>3, <2>4, <2>5, <2>6, <2>7, <2>8 DEF ThreadStep
<1>3. ASSUME NEW c \in Core, IPCThreadCalls(c) PROVE BufferPart'
    BY <1>3, IPCThreadCallsDoes, CallbacksKeep
<1>4. CASE ServiceStep
    <2>1. CASE ReceiveMessage
        BY <2>1, ReceiveMessageDoes, ReceiveKeeps
    <2>2. CASE ServeOpen
        BY <2>2, ServeOpenDoes, ServiceMovesKeeps DEF ServeOpenEffect
    <2>3. CASE ServeClose
        BY <2>3, ServeCloseDoes, ServiceMovesKeeps DEF ServeCloseEffect
    <2>4. CASE ServeIoctl
        BY <2>4, ServeIoctlDoes, ServiceMovesKeeps DEF ServeIoctlEffect
    <2>5. CASE AssignTarget
        BY <2>5, AssignTargetDoes, ServiceMovesKeeps DEF AssignTargetEffect
    <2>6. CASE DestroyHandle
        BY <2>6, DestroyHandleDoes, ServiceMovesKeeps, DestroyKeeps DEF RefuseEffect
    <2>7. CASE Reply
        BY <2>7, ReplyDoes, ReplyKeeps
    <2>8. CASE ReplyRespond
        BY <2>8, ReplyRespondDoes, RespondKeeps
    <2>9. CASE ReplyRelease
        BY <2>9, ReplyReleaseDoes, ReleaseKeeps
    <2> QED
        BY <1>4, <2>1, <2>2, <2>3, <2>4, <2>5, <2>6, <2>7, <2>8, <2>9 DEF ServiceStep
<1>5. CASE UNCHANGED vars
    <2>1. UNCHANGED <<free, request, signaled, callbacks, response, pool, slots, counter, replier,
                      queue, service, clients, pc, mine, known, closed>>
        BY <1>5 DEF vars, driverVars, kernelVars, serviceVars, guestVars
    <2>2. Types'
        BY <2>1 DEF Types, DriverTypes, KernelTypes, ServiceTypes, ThreadTypes
    <2> QED
        BY <2>1, <2>2, CallbacksKeep
<1> QED
    BY <1>1, <1>2, <1>3, <1>4, <1>5 DEF Next

LEMMA BufferPartInv == Spec => []BufferPart
<1>1. BufferPart /\ [Next]_vars => BufferPart'
    BY BufferPartStays
<1> QED
    BY <1>1, BufferPartInit, PTL DEF Spec

LEMMA BufferPartTypes == BufferPart => TypeOK
<1> SUFFICES ASSUME BufferPart PROVE TypeOK
    OBVIOUS
<1> USE DEF BufferPart
<1>1. \A c \in Core : \A b \in free[c] :
          /\ request[c][b] = NoRequest /\ b \notin signaled[c] /\ b # response[c]
          /\ \A i \in DOMAIN queue : queue[i].core = c => queue[i].buffer # b
          /\ \A t \in Thread : CoreOf[t] = c /\ mine[t].buffer = b => pc[t] = "release"
    <2> TAKE c \in Core
    <2> TAKE b \in free[c]
    <2>1. b \in Buffer /\ b # Nobody
        BY Constants DEF Types, DriverTypes
    <2>2. /\ request[c][b] = NoRequest /\ b \notin signaled[c] /\ ~Underway(c, b)
          /\ \A t \in Thread : CoreOf[t] = c /\ mine[t].buffer = b => pc[t] = "release"
        BY <2>1 DEF BufferInv
    <2>3. \A i \in DOMAIN queue : queue[i].core = c => queue[i].buffer # b
        <3>1. DOMAIN queue = 1..Len(queue)
            BY DEF Types, ServiceTypes
        <3> QED
            BY <2>2, <3>1 DEF Underway, AtQueue
    <2>4. b # response[c]
        BY <2>1, <2>2 DEF ReplyInv, ResponsesFindTheirRequest, Underway, AtThread, AtService,
                          InHand, Serving
    <2> QED
        BY <2>2, <2>3, <2>4
<1>2. pool + Len(queue) + Cardinality({t \in Thread : pc[t] \notin {"idle", "wait"}})
          + (IF service.at \in {"receive", "destroy"} THEN 0 ELSE 1) = PoolSize
    BY DEF PoolInv, Busy, Active
<1> QED
    BY <1>1, <1>2 DEF TypeOK, PoolInv

(* A buffer that is free is nowhere else, and every command that was taken *)
(* from the pool is in one place until it is back: with a thread of the    *)
(* guest, in the queue of the service or with the service.                 *)
THEOREM TypeCorrect == Spec => []TypeOK
BY BufferPartInv, BufferPartTypes, PTL

(* The driver finds in its shared area the request that is answered,       *)
(* whoever answers: the service, or the core for a request that failed.    *)
THEOREM AnswersFindTheirRequest == Spec => []ResponsesFindTheirRequest
<1>1. BufferPart => ResponsesFindTheirRequest
    BY DEF BufferPart, ReplyInv
<1> QED
    BY <1>1, BufferPartInv, PTL
-----------------------------------------------------------------------------
(* The invariant: the handles and the clients of the service.              *)

\* The handle leads to the client it has opened.
Live(h) ==
    /\ Old(h) /\ Valid(h)
    /\ slots[h[1]].target \in Client /\ clients[slots[h[1]].target] = h

\* A handle that no client has, and that of an open that is not done.
Gone(h) == \A x \in Client : clients[x] # h
Opening(h) == Old(h) /\ Valid(h) /\ Gone(h)

\* One handle to a slot, and a slot that is claimed is still free.
SlotInv ==
    /\ \A s \in Slot : slots[s].set => Old(slots[s].check) /\ slots[s].check[1] = s
    /\ \A t \in Thread :
           /\ pc[t] \in {"open", "claim"} => t \in Opener
           /\ pc[t] = "claim" => ~slots[mine[t].slot].set

Forwarding == {"dispatch", "send"}
Closes(h) == service.command.op = "close" /\ service.command.handle = h

\* The open that has handle h, if it is under way or has succeeded.
Opens(c, b, h) ==
    \/ \E t \in Thread : pc[t] \in Forwarding /\ CoreOf[t] = c /\ mine[t].buffer = b
                         /\ mine[t].command.op = "open" /\ mine[t].command.handle = h
    \/ \E i \in 1..Len(queue) : AtQueue(i, c, b) /\ queue[i].op = "open" /\ queue[i].handle = h
    \/ AtService(c, b) /\ service.command.op = "open" /\ service.command.handle = h
    \/ request[c][b].op = "open" /\ b \in signaled[c] /\ request[c][b].result = h /\ h # Error

\* Nobody else has the handle of an open.
OpensInv ==
    /\ \A c, d \in Core, a, b \in Buffer : \A h \in HandleType :
           Opens(c, a, h) /\ Opens(d, b, h) => c = d /\ a = b
    /\ \A c \in Core, b \in Buffer : \A h \in HandleType : Opens(c, b, h) =>
           /\ Old(h) /\ h \notin known /\ h \notin closed /\ ~Closes(h)
           /\ \A d \in Core, a \in Buffer : request[d][a].op = "close" => request[d][a].handle # h

\* How far an open is.
ProgressInv ==
    /\ \A t \in Thread : pc[t] \in Forwarding /\ mine[t].command.op = "open" =>
           Opening(mine[t].command.handle)
    /\ \A i \in 1..Len(queue) : queue[i].op = "open" => Opening(queue[i].handle)
    /\ service.at \in {"open", "refuse"} => Opening(service.command.handle)
    /\ service.at = "assign" =>
           /\ Valid(service.command.handle)
           /\ \A x \in Client : clients[x] = service.command.handle <=> x = service.client
    /\ service.at \in {"reply", "respond"} /\ service.command.op = "open" =>
           service.result = Error
           \/ (service.result = service.command.handle /\ Live(service.command.handle))
    /\ \A c \in Core, b \in Buffer : request[c][b].op = "open" /\ b \in signaled[c] =>
           request[c][b].result = Error \/ Live(request[c][b].result)

\* A handle that the game has called to close and that no client has any more.
Stale(h) == Old(h) /\ h \in closed /\ Gone(h)

\* Where a command may be sent: to the client of its handle, or, if it is an ioctl
\* of a handle that was closed in the meantime, to the client that this one had.
Right(d) ==
    \/ Live(d.handle) /\ d.target = slots[d.handle[1]].target
    \/ d.op = "ioctl" /\ Stale(d.handle) /\ d.target \in Client

\* What is under way under a handle that the game had got.
UseInv ==
    /\ \A t \in Thread : pc[t] \in Forwarding /\ mine[t].command.op # "open" =>
           /\ mine[t].command.handle \in known \cup closed
           /\ pc[t] = "send" => Right(mine[t].command)
    /\ \A i \in 1..Len(queue) : queue[i].op # "open" => Right(queue[i])
    /\ service.at \in {"ioctl", "close"} => Right(service.command)

\* A close: its handle is the game's no more, and is closed once.
CloseInv ==
    /\ \A c, d \in Core, a, b \in Buffer :
           request[c][a].op = "close" /\ request[d][b].op = "close"
           /\ request[c][a].handle = request[d][b].handle => c = d /\ a = b
    /\ \A c \in Core, b \in Buffer : request[c][b].op = "close" =>
           LET h == request[c][b].handle IN
           /\ h \notin known /\ h \in closed
           /\ b \in signaled[c] /\ request[c][b].result = Error => Live(h)
           /\ b \in signaled[c] /\ request[c][b].result # Error =>
                  Gone(h) /\ (Valid(h) => Closes(h))
    /\ \A t \in Thread : pc[t] \in InHand /\ mine[t].command.op = "close" =>
           Live(mine[t].command.handle)
    /\ service.command.op = "close" =>
           LET d == service.command h == d.handle IN
           /\ h \notin known /\ h \in closed /\ service.result = Ok
           /\ d.target \in Client /\ (Valid(h) => slots[h[1]].target = d.target)
           /\ service.at # "close" => Gone(h)

\* A handle that the game has closed leads to its client, until the service has freed
\* this; from then on the handle is valid only until it is destroyed.
GameInv ==
    /\ \A h \in known : Live(h) /\ h \notin closed
    /\ \A h \in closed : Valid(h) => Live(h) \/ (Closes(h) /\ Gone(h))

\* Somebody has handle h, and will close it or give it to the game.
Owned(h) ==
    \/ h \in known
    \/ \E c \in Core, b \in Buffer : request[c][b].op = "close" /\ request[c][b].handle = h
    \/ \E c \in Core, b \in Buffer :
           request[c][b].op = "open" /\ b \in signaled[c] /\ request[c][b].result = h
    \/ service.at \in {"reply", "respond"} /\ service.command.op = "open"
       /\ service.command.handle = h /\ service.result = h

\* Every client is open for a handle that somebody has.
OwnerInv ==
    \A x \in Client : clients[x] # NoHandle =>
        \/ service.at = "assign" /\ service.client = x
        \/ /\ Live(clients[x]) /\ slots[clients[x][1]].target = x
           /\ Owned(clients[x])

HandlePart == SlotInv /\ OpensInv /\ ProgressInv /\ UseInv /\ CloseInv /\ GameInv /\ OwnerInv
-----------------------------------------------------------------------------
(* The steps keep the second part of the invariant.                        *)

\* The steps that change neither slots nor clients.
LEMMA HandlesStay ==
    ASSUME UNCHANGED <<slots, counter, clients>>
    PROVE  \A h : /\ (Old(h)' <=> Old(h)) /\ (Valid(h)' <=> Valid(h))
                  /\ (Live(h)' <=> Live(h)) /\ (Opening(h)' <=> Opening(h)) /\ (Gone(h)' <=> Gone(h))
BY DEF Old, Valid, Live, Opening, Gone

\* In them, what is rightly under way stays so.
LEMMA RightStays ==
    ASSUME UNCHANGED <<slots, counter, clients>>, \A h \in closed : Gone(h) => h \in closed'
    PROVE  \A d : Right(d) => Right(d)'
BY HandlesStay DEF Right, Stale

\* A request under way and its command.
LEMMA Requests ==
    ASSUME BufferPart
    PROVE  /\ \A t \in Thread : pc[t] \in InHand =>
                  LET r == request[CoreOf[t]][mine[t].buffer] d == mine[t].command IN
                  /\ CoreOf[t] \in Core /\ mine[t].buffer \in Buffer
                  /\ d.op \in Ops /\ d.handle \in HandleType
                  /\ r.op = d.op /\ (d.op # "open" => r.handle = d.handle)
           /\ \A i \in 1..Len(queue) :
                  LET d == queue[i] r == request[d.core][d.buffer] IN
                  /\ d.core \in Core /\ d.buffer \in Buffer
                  /\ d.op \in Ops /\ d.handle \in HandleType
                  /\ r.op = d.op /\ (d.op # "open" => r.handle = d.handle)
                  /\ Old(d.handle)
           /\ service.at \in Serving =>
                  LET d == service.command r == request[d.core][d.buffer] IN
                  /\ r.op = d.op /\ (d.op # "open" => r.handle = d.handle)
           /\ service.at # "receive" =>
                  LET d == service.command IN
                  /\ d.core \in Core /\ d.buffer \in Buffer
                  /\ d.op \in Ops /\ d.handle \in HandleType /\ Old(d.handle)
<1> USE DEF BufferPart
<1>1. ASSUME NEW t \in Thread, pc[t] \in InHand
      PROVE  LET r == request[CoreOf[t]][mine[t].buffer] d == mine[t].command IN
             /\ CoreOf[t] \in Core /\ mine[t].buffer \in Buffer
             /\ d.op \in Ops /\ d.handle \in HandleType
             /\ r.op = d.op /\ (d.op # "open" => r.handle = d.handle)
    <2>1. Active(t) /\ Agrees(mine[t].command)
        BY <1>1, InHandIsActive DEF Agreement
    <2> QED
        BY <2>1, CommandOfThread DEF Agrees
<1>2. ASSUME NEW i \in 1..Len(queue)
      PROVE  LET d == queue[i] r == request[d.core][d.buffer] IN
             /\ d.core \in Core /\ d.buffer \in Buffer
             /\ d.op \in Ops /\ d.handle \in HandleType
             /\ r.op = d.op /\ (d.op # "open" => r.handle = d.handle)
             /\ Old(d.handle)
    <2>1. Agrees(queue[i]) /\ Old(queue[i].handle)
        BY DEF Agreement
    <2> QED
        BY <2>1, CommandOfQueue DEF Agrees
<1>3. service.at \in Serving =>
          LET d == service.command r == request[d.core][d.buffer] IN
          /\ r.op = d.op /\ (d.op # "open" => r.handle = d.handle)
    BY DEF Agreement, Agrees
<1>4. service.at # "receive" =>
          LET d == service.command IN
          /\ d.core \in Core /\ d.buffer \in Buffer
          /\ d.op \in Ops /\ d.handle \in HandleType /\ Old(d.handle)
    BY CommandOfService DEF Agreement
<1> QED
    BY <1>1, <1>2, <1>3, <1>4

LEMMA OldHandles ==
    ASSUME Types, NEW h \in HandleType, Old(h)
    PROVE  h # NoHandle /\ h # Error /\ h # Ok /\ h # <<h[1], counter>>
BY Constants DEF Old, NoHandle, Error, Ok, HandleType, Types, KernelTypes

\* The open that a thread sends.
LEMMA ForwardedOpens ==
    ASSUME BufferPart, NEW t \in Thread, pc[t] \in Forwarding, mine[t].command.op = "open"
    PROVE  Opens(CoreOf[t], mine[t].buffer, mine[t].command.handle)
BY DEF Opens

\* Where the kernel sends a request: its handle is open, or the service closes it.
LEMMA PassedOn ==
    ASSUME BufferPart, HandlePart, NEW t \in Thread, pc[t] = "dispatch", mine[t].command.op # "open",
           NEW h, h = mine[t].command.handle, Valid(h)
    PROVE  LET x == slots[h[1]].target IN
           /\ x \in Client
           /\ \/ Live(h)
              \/ mine[t].command.op = "ioctl" /\ Stale(h) /\ Closes(h) /\ x = service.command.target
<1>1. pc[t] \in InHand /\ pc[t] \in Forwarding
    BY DEF InHand, Forwarding
<1>2. mine[t].command.op \in {"close", "ioctl"} /\ Old(h) /\ h \in known \cup closed
    BY <1>1, Requests DEF Ops, BufferPart, Agreement, HandlePart, UseInv
<1>3. CASE Live(h)
    BY <1>3 DEF Live
<1>4. CASE ~Live(h)
    <2>1. h \in closed /\ Closes(h) /\ Gone(h)
        BY <1>2, <1>4 DEF HandlePart, GameInv
    <2>2. mine[t].command.op = "ioctl"
        BY <1>1, <1>2, <1>4 DEF HandlePart, CloseInv
    <2>3. service.command.target \in Client /\ slots[h[1]].target = service.command.target
        BY <2>1 DEF HandlePart, CloseInv, Closes
    <2> QED
        BY <1>2, <2>1, <2>2, <2>3 DEF Stale
<1> QED
    BY <1>3, <1>4

\* No open gets a handle, and the handles of the game are not more.
LEMMA OpensStay ==
    ASSUME OpensInv, counter' = counter, known' \cup closed' \subseteq known \cup closed,
           \A c \in Core, b \in Buffer : \A h \in HandleType : Opens(c, b, h)' => Opens(c, b, h),
           \A c \in Core, b \in Buffer : request'[c][b].op = "close" =>
               request[c][b].op = "close" /\ request[c][b].handle = request'[c][b].handle,
           \A h : Closes(h)' => \/ Closes(h)
                                \/ \E c \in Core, b \in Buffer :
                                       request[c][b].op = "close" /\ request[c][b].handle = h
    PROVE  OpensInv'
<1>1. \A h : Old(h)' <=> Old(h)
    BY DEF Old
<1>2. ASSUME NEW c \in Core, NEW b \in Buffer, NEW h \in HandleType, Opens(c, b, h)
      PROVE  /\ Old(h)' /\ h \notin known' /\ h \notin closed' /\ ~Closes(h)'
             /\ \A d \in Core, a \in Buffer : request'[d][a].op = "close" => request'[d][a].handle # h
    BY <1>1, <1>2 DEF OpensInv
<1> QED
    BY <1>2 DEF OpensInv

\* Clients and their owners stay.
LEMMA OwnersStay ==
    ASSUME OwnerInv, UNCHANGED <<slots, counter, clients>>,
           service.at = "assign" => UNCHANGED <<service>>,
           \A h : Live(h) /\ Owned(h) => Owned(h)'
    PROVE  OwnerInv'
BY HandlesStay DEF OwnerInv

LEMMA CallHandles ==
    ASSUME BufferPart, BufferPart', HandlePart, NEW t \in Thread, NEW op \in Ops,
           NEW h \in HandleType, NEW p \in Params, NEW to \in {"open", "dispatch", "fail"},
           NEW b \in Buffer, CallEffect(t, op, h, p, to, b)
    PROVE  HandlePart'
<1> DEFINE c == CoreOf[t]
<1> USE DEF HandlePart
<1>1. SubmitEffect(t, op, h, p, to, b) /\ c \in Core
    BY Constants DEF CallEffect
<1>2. /\ pc[t] = "idle" /\ pc'[t] = to /\ OthersStay(t)
      /\ b \in free[c] /\ signaled'[c] = signaled[c] \ {b}
      /\ request'[c][b] = [op |-> op, handle |-> h, param |-> p, result |-> Ok]
      /\ \A d \in Core : d # c => signaled'[d] = signaled[d] /\ request'[d] = request[d]
      /\ \A a \in Buffer : a # b => request'[c][a] = request[c][a]
      /\ UNCHANGED <<slots, counter, queue, service, clients>>
    BY <1>1 DEF SubmitEffect
<1>3. mine'[t].buffer = b /\ mine'[t].command.op = op /\ mine'[t].command.handle = h
    BY <1>1, CommandSubmitted
<1>4. /\ op = "open" => to = "open" /\ t \in Opener
      /\ to = "open" => op = "open"
      /\ op = "close" => h \in known /\ known' = known \ {h} /\ closed' = closed \cup {h}
      /\ op = "ioctl" => h \in known \cup closed
      /\ op # "close" => UNCHANGED <<known, closed>>
      /\ known' \subseteq known /\ closed \subseteq closed'
      /\ known' \cup closed' = known \cup closed
    BY DEF CallEffect, Closes
<1>5. \A g : /\ (Old(g)' <=> Old(g)) /\ (Valid(g)' <=> Valid(g))
             /\ (Live(g)' <=> Live(g)) /\ (Opening(g)' <=> Opening(g)) /\ (Gone(g)' <=> Gone(g))
             /\ (Closes(g)' <=> Closes(g))
    BY <1>2, HandlesStay DEF Closes
<1>6. /\ request'[c][b].op = op /\ request'[c][b].handle = h /\ b \notin signaled'[c]
      /\ \A d \in Core, a \in Buffer : d # c \/ a # b =>
             request'[d][a] = request[d][a] /\ (a \in signaled'[d] <=> a \in signaled[d])
    BY <1>1, <1>2
<1>7. request[c][b].op = "none" /\ ~Underway(c, b) /\ b \notin signaled[c]
    BY <1>1, <1>2, Handles DEF BufferPart, BufferInv
<1>8. \A d \in Core, a \in Buffer : \A g \in HandleType : Opens(d, a, g)' => Opens(d, a, g)
    <2> TAKE d \in Core, a \in Buffer
    <2> TAKE g \in HandleType
    <2>1. ASSUME NEW u \in Thread, pc'[u] \in Forwarding, CoreOf[u] = d, mine'[u].buffer = a,
                 mine'[u].command.op = "open", mine'[u].command.handle = g
          PROVE  Opens(d, a, g)
        <3>1. u # t
            BY <1>2, <1>3, <1>4, <2>1 DEF Forwarding
        <3> QED
            BY <1>2, <2>1, <3>1 DEF OthersStay, Opens
    <2> QED
        BY <1>2, <1>6, <2>1 DEF Opens, AtQueue, AtService
<1>9. op = "close" => Live(h) /\ ~Closes(h)
    BY <1>4 DEF GameInv, CloseInv, Closes
<1>10. op = "close" => \A d \in Core, a \in Buffer :
                           request[d][a].op = "close" => request[d][a].handle # h
    BY <1>4 DEF CloseInv
<1>11. \A d : Right(d) => Right(d)'
    BY <1>2, <1>4, RightStays
<1>12. SlotInv'
    BY <1>2, <1>4, <1>5 DEF SlotInv, OthersStay
<1>13. OpensInv'
    <2>1. \A d \in Core, a \in Buffer : request'[d][a].op = "close" =>
              \/ request[d][a].op = "close" /\ request'[d][a].handle = request[d][a].handle
              \/ request'[d][a].handle \in known
        BY <1>4, <1>6
    <2> QED
        BY <1>4, <1>5, <1>8, <2>1 DEF OpensInv
<1>14. ProgressInv'
    BY <1>2, <1>3, <1>4, <1>5, <1>6 DEF ProgressInv, OthersStay, Forwarding
<1>15. UseInv'
    <2>1. ASSUME NEW u \in Thread, pc'[u] \in Forwarding, mine'[u].command.op # "open"
          PROVE  /\ mine'[u].command.handle \in known' \cup closed'
                 /\ pc'[u] = "send" => Right(mine[u].command)'
        <3>1. CASE u = t
            BY <1>2, <1>3, <1>4, <2>1, <3>1 DEF Ops
        <3>2. CASE u # t
            <4>1. pc[u] = pc'[u] /\ mine'[u] = mine[u]
                BY <1>2, <3>2 DEF OthersStay
            <4> QED
                BY <1>4, <1>11, <2>1, <4>1 DEF UseInv
        <3> QED
            BY <3>1, <3>2
    <2>2. \A i \in 1..Len(queue) : queue[i].op # "open" => Right(queue[i])'
        BY <1>2, <1>11 DEF UseInv
    <2>3. service.at \in {"ioctl", "close"} => Right(service.command)'
        BY <1>2, <1>11 DEF UseInv
    <2> QED
        BY <1>2, <2>1, <2>2, <2>3 DEF UseInv
<1>16. CloseInv'
    <2>1. \A d, e \in Core, a, x \in Buffer :
              request'[d][a].op = "close" /\ request'[e][x].op = "close"
              /\ request'[d][a].handle = request'[e][x].handle => d = e /\ a = x
        BY <1>6, <1>10 DEF CloseInv
    <2>2. \A d \in Core, a \in Buffer : request'[d][a].op = "close" =>
              LET g == request'[d][a].handle IN
              /\ g \notin known' /\ g \in closed'
              /\ a \in signaled'[d] /\ request'[d][a].result = Error => Live(g)
              /\ a \in signaled'[d] /\ request'[d][a].result # Error =>
                     Gone(g) /\ (Valid(g) => Closes(g))
        BY <1>4, <1>6 DEF CloseInv
    <2>3. \A u \in Thread : pc'[u] \in InHand /\ mine'[u].command.op = "close" =>
              Live(mine'[u].command.handle)
        BY <1>2, <1>3, <1>9 DEF CloseInv, OthersStay
    <2>4. service.command.op = "close" =>
              LET d == service.command g == d.handle IN
              /\ g \notin known' /\ g \in closed' /\ service.result = Ok
              /\ d.target \in Client /\ (Valid(g) => slots[g[1]].target = d.target)
              /\ service.at # "close" => Gone(g)
        BY <1>4 DEF CloseInv
    <2> QED
        BY <1>2, <1>5, <2>1, <2>2, <2>3, <2>4 DEF CloseInv
<1>17. GameInv'
    BY <1>4, <1>5, <1>9 DEF GameInv, Ops
<1>18. OwnerInv'
    <2> SUFFICES ASSUME NEW g, Owned(g) PROVE Owned(g)'
        BY <1>2, OwnersStay
    <2>1. CASE g \in known
        BY <1>1, <1>4, <1>6, <2>1 DEF Owned, Ops
    <2>2. ASSUME NEW d \in Core, NEW a \in Buffer, request[d][a].op # "none"
          PROVE  request'[d][a] = request[d][a] /\ (a \in signaled[d] => a \in signaled'[d])
        BY <1>6, <1>7, <2>2
    <2>3. ASSUME NEW d \in Core, NEW a \in Buffer, request[d][a].op = "close",
                 request[d][a].handle = g
          PROVE  Owned(g)'
        BY <2>2, <2>3 DEF Owned
    <2>4. ASSUME NEW d \in Core, NEW a \in Buffer, request[d][a].op = "open",
                 a \in signaled[d], request[d][a].result = g
          PROVE  Owned(g)'
        BY <2>2, <2>4 DEF Owned
    <2> QED
        BY <1>2, <2>1, <2>3, <2>4 DEF Owned
<1> QED
    BY <1>12, <1>13, <1>14, <1>15, <1>16, <1>17, <1>18

\* The search for a slot, the lookup of a handle, a message that was refused.
LEMMA KeepsRequestHandles ==
    ASSUME BufferPart, BufferPart', HandlePart, NEW t \in Thread, KeepsRequest(t),
           UNCHANGED <<slots, counter>>, mine'[t].command.handle = mine[t].command.handle,
           \/ pc'[t] = "fail"
           \/ pc[t] = "open" /\ pc'[t] = "claim" /\ ~slots[mine'[t].slot].set
           \/ /\ pc[t] = "dispatch" /\ pc'[t] = "send" /\ Valid(mine[t].command.handle)
              /\ mine'[t].command.target = slots[mine[t].command.handle[1]].target
    PROVE  HandlePart'
<1> USE DEF HandlePart
<1>1. /\ pc[t] \in InHand /\ OthersStay(t) /\ mine'[t].command.op = mine[t].command.op
      /\ mine'[t].buffer = mine[t].buffer
      /\ UNCHANGED <<request, signaled, queue, service, clients, known, closed>>
    BY DEF KeepsRequest
<1>2. \A u \in Thread : /\ mine'[u].command.op = mine[u].command.op
                        /\ mine'[u].command.handle = mine[u].command.handle
                        /\ mine'[u].buffer = mine[u].buffer
                        /\ pc'[u] \in Forwarding => pc[u] \in Forwarding
                        /\ pc'[u] \in InHand => pc[u] \in InHand
    BY <1>1 DEF OthersStay, Forwarding
<1>3. \A h : /\ (Old(h)' <=> Old(h)) /\ (Valid(h)' <=> Valid(h))
             /\ (Live(h)' <=> Live(h)) /\ (Opening(h)' <=> Opening(h)) /\ (Gone(h)' <=> Gone(h))
             /\ (Closes(h)' <=> Closes(h))
    BY <1>1, HandlesStay DEF Closes
<1>4. \A d \in Core, a \in Buffer : \A h \in HandleType : Opens(d, a, h)' => Opens(d, a, h)
    BY <1>1, <1>2 DEF Opens, AtQueue, AtService
<1>5. SlotInv'
    BY <1>1, <1>3 DEF SlotInv, OthersStay
<1>6. OpensInv'
    BY <1>1, <1>3, <1>4, OpensStay
<1>7. ProgressInv'
    BY <1>1, <1>2, <1>3 DEF ProgressInv
<1>8. UseInv'
    <2>1. \A d : Right(d) => Right(d)'
        BY <1>1, RightStays
    <2>2. ASSUME NEW u \in Thread, pc'[u] = "send", mine'[u].command.op # "open"
          PROVE  Right(mine[u].command)'
        <3>1. CASE u = t
            <4>1. /\ pc[t] = "dispatch" /\ mine[t].command.op # "open" /\ Valid(mine[t].command.handle)
                  /\ mine'[t].command.target = slots[mine[t].command.handle[1]].target
                BY <1>1, <2>2, <3>1
            <4>2. /\ mine'[t].command.target \in Client
                  /\ \/ Live(mine[t].command.handle)
                     \/ mine[t].command.op = "ioctl" /\ Stale(mine[t].command.handle)
                BY <4>1, PassedOn
            <4> QED
                BY <1>1, <1>2, <1>3, <3>1, <4>1, <4>2 DEF Right, Stale
        <3>2. CASE u # t
            BY <1>1, <2>1, <2>2, <3>2 DEF UseInv, OthersStay, Forwarding
        <3> QED
            BY <3>1, <3>2
    <2>3. \A u \in Thread : pc'[u] \in Forwarding /\ mine'[u].command.op # "open" =>
              mine'[u].command.handle \in known \cup closed
        BY <1>2 DEF UseInv
    <2> QED
        BY <1>1, <2>1, <2>2, <2>3 DEF UseInv
<1>9. CloseInv'
    BY <1>1, <1>2, <1>3 DEF CloseInv
<1>10. GameInv'
    BY <1>1, <1>3 DEF GameInv
<1>11. OwnerInv'
    BY <1>1, OwnersStay DEF Owned
<1> QED
    BY <1>5, <1>6, <1>7, <1>8, <1>9, <1>10, <1>11

\* A request is sent to the service.
LEMMA SendHandles ==
    ASSUME BufferPart, BufferPart', HandlePart, NEW t \in Thread, SendEffect(t)
    PROVE  HandlePart'
<1> USE DEF HandlePart
<1> DEFINE h == mine[t].command.handle
           n == Len(queue) + 1
<1>1. /\ pc[t] = "send" /\ pc'[t] \in {"idle", "wait"} /\ OthersStay(t)
      /\ queue' = Append(queue, mine[t].command)
      /\ UNCHANGED <<request, signaled, slots, counter, service, clients, known, closed>>
    BY DEF SendEffect, LeaveEffect
<1>2. mine[t].command \in CommandType /\ mine[t].command.core = CoreOf[t]
      /\ mine[t].command.buffer = mine[t].buffer
    BY <1>1, CommandOfThread, InHandIsActive DEF BufferPart, InHand
<1>3. Len(queue') = n /\ queue'[n] = mine[t].command /\ n \in Nat
      /\ \A i \in 1..Len(queue') : i # n => i \in 1..Len(queue) /\ queue'[i] = queue[i]
    BY <1>1, <1>2 DEF BufferPart, Types, ServiceTypes
<1>4. \A u \in Thread : pc'[u] \in InHand => u # t /\ pc[u] \in InHand /\ pc'[u] = pc[u]
                                             /\ mine'[u] = mine[u]
    BY <1>1 DEF OthersStay, InHand
<1>5. \A g : /\ (Old(g)' <=> Old(g)) /\ (Valid(g)' <=> Valid(g))
             /\ (Live(g)' <=> Live(g)) /\ (Opening(g)' <=> Opening(g)) /\ (Gone(g)' <=> Gone(g))
             /\ (Closes(g)' <=> Closes(g))
    BY <1>1, HandlesStay DEF Closes
<1>6. pc[t] \in Forwarding /\ Forwarding \subseteq InHand
    BY <1>1 DEF Forwarding, InHand
<1>7. \A d \in Core, a \in Buffer : \A g \in HandleType : Opens(d, a, g)' => Opens(d, a, g)
    <2> TAKE d \in Core, a \in Buffer
    <2> TAKE g \in HandleType
    <2>1. ASSUME NEW u \in Thread, pc'[u] \in Forwarding, CoreOf[u] = d, mine'[u].buffer = a,
                 mine'[u].command.op = "open", mine'[u].command.handle = g
          PROVE  Opens(d, a, g)
        BY <1>4, <1>6, <2>1 DEF Opens
    <2>2. ASSUME NEW i \in 1..Len(queue'), AtQueue(i, d, a)', queue'[i].op = "open",
                 queue'[i].handle = g
          PROVE  Opens(d, a, g)
        <3>1. CASE i = n
            BY <1>2, <1>3, <1>6, <2>2, <3>1 DEF Opens, AtQueue
        <3>2. CASE i # n
            BY <1>3, <2>2, <3>2 DEF Opens, AtQueue
        <3> QED
            BY <3>1, <3>2
    <2> QED
        BY <1>1, <2>1, <2>2 DEF Opens, AtService
<1>8. SlotInv'
    BY <1>1, <1>4, <1>5 DEF SlotInv, InHand
<1>9. OpensInv'
    BY <1>1, <1>5, <1>7, OpensStay
<1>10. ProgressInv'
    BY <1>1, <1>3, <1>4, <1>5, <1>6 DEF ProgressInv
<1>11. UseInv'
    <2>1. \A d : Right(d) => Right(d)'
        BY <1>1, RightStays
    <2>2. ASSUME NEW i \in 1..Len(queue'), queue'[i].op # "open"
          PROVE  Right(queue[i])'
        <3>1. CASE i = n
            BY <1>1, <1>3, <1>6, <2>1, <2>2, <3>1 DEF UseInv
        <3>2. CASE i # n
            BY <1>3, <2>1, <2>2, <3>2 DEF UseInv
        <3> QED
            BY <3>1, <3>2
    <2>3. \A u \in Thread : pc'[u] \in Forwarding /\ mine'[u].command.op # "open" =>
              /\ mine'[u].command.handle \in known \cup closed
              /\ pc'[u] = "send" => Right(mine[u].command)'
        BY <1>4, <1>6, <2>1 DEF UseInv
    <2> QED
        BY <1>1, <2>1, <2>2, <2>3 DEF UseInv
<1>12. CloseInv'
    BY <1>1, <1>4, <1>5 DEF CloseInv
<1>13. GameInv'
    BY <1>1, <1>5 DEF GameInv
<1>14. OwnerInv'
    BY <1>1, OwnersStay DEF Owned
<1> QED
    BY <1>8, <1>9, <1>10, <1>11, <1>12, <1>13, <1>14

\* The steps in which a thread and the service do not use handles.
LEMMA ThreadsAndClosesStay ==
    ASSUME UNCHANGED <<slots, counter, clients, mine, known, closed, queue>>,
           \A u \in Thread : pc'[u] \in InHand => pc[u] \in InHand,
           \A u \in Thread : pc'[u] \in {"open", "claim", "dispatch", "send"} => pc'[u] = pc[u],
           service' = service \/ service'.at \in {"reply", "respond", "release"},
           service'.command = service.command, service'.result = service.result,
           service.at \in {"reply", "respond", "release"} => service'.at # "close",
           service.at = "close" => service' = service,
           SlotInv, UseInv, GameInv, CloseInv,
           \A c \in Core, b \in Buffer : request'[c][b].op = "close" =>
               request[c][b].op = "close" /\ request'[c][b].handle = request[c][b].handle
               /\ (b \in signaled'[c] =>
                      \/ (b \in signaled[c] /\ request'[c][b].result = request[c][b].result)
                      \/ LET h == request[c][b].handle IN
                         IF request'[c][b].result = Error THEN Live(h)
                         ELSE Gone(h) /\ Closes(h))
    PROVE  SlotInv' /\ UseInv' /\ GameInv' /\ CloseInv'
<1>1. \A h : /\ (Old(h)' <=> Old(h)) /\ (Valid(h)' <=> Valid(h)) /\ (Live(h)' <=> Live(h))
             /\ (Closes(h)' <=> Closes(h)) /\ (Gone(h)' <=> Gone(h))
    BY HandlesStay DEF Closes
<1>2. SlotInv'
    BY <1>1 DEF SlotInv
<1>3. UseInv'
    <2>1. \A d : Right(d) => Right(d)'
        BY RightStays
    <2>2. \A u \in Thread : pc'[u] \in Forwarding => pc'[u] = pc[u]
        BY DEF Forwarding
    <2> QED
        BY <2>1, <2>2 DEF UseInv
<1>4. GameInv'
    BY <1>1 DEF GameInv
<1>5. CloseInv'
    <2>1. \A c \in Core, b \in Buffer : request'[c][b].op = "close" =>
              LET h == request'[c][b].handle IN
              /\ h \notin known /\ h \in closed
              /\ b \in signaled'[c] /\ request'[c][b].result = Error => Live(h)
              /\ b \in signaled'[c] /\ request'[c][b].result # Error =>
                     Gone(h) /\ (Valid(h) => Closes(h))
        BY DEF CloseInv
    <2>2. \A c, d \in Core, a, b \in Buffer :
              request'[c][a].op = "close" /\ request'[d][b].op = "close"
              /\ request'[c][a].handle = request'[d][b].handle => c = d /\ a = b
        BY DEF CloseInv
    <2>3. service.command.op = "close" =>
              LET d == service.command g == d.handle IN
              /\ g \notin known /\ g \in closed /\ service.result = Ok
              /\ d.target \in Client /\ (Valid(g) => slots[g[1]].target = d.target)
              /\ service'.at # "close" => Gone(g)
        BY DEF CloseInv
    <2>4. \A u \in Thread : pc'[u] \in InHand /\ mine[u].command.op = "close" =>
              Live(mine[u].command.handle)
        BY DEF CloseInv
    <2> QED
        BY <1>1, <2>1, <2>2, <2>3, <2>4 DEF CloseInv
<1> QED
    BY <1>2, <1>3, <1>4, <1>5

\* An answer is begun: the request, which is under way, gets its result.
LEMMA BeginReplyHandles ==
    ASSUME BufferPart, HandlePart, NEW who, NEW d, d.core \in Core, d.buffer \in Buffer,
           NEW r \in HandleType, Underway(d.core, d.buffer), ReplyEffect(who, d, r),
           \A u \in Thread : pc'[u] = pc[u] \/ (pc[u] = "fail" /\ pc'[u] = "respond"),
           \/ service' = service
           \/ service.at = "reply" /\ service'.at = "respond" /\ service'.command = service.command
              /\ service'.result = service.result
    PROVE  HandlePart'
<1> USE DEF HandlePart
<1>1. /\ \A c \in Core, b \in Buffer : c # d.core \/ b # d.buffer => request'[c][b] = request[c][b]
      /\ request'[d.core][d.buffer] = [request[d.core][d.buffer] EXCEPT !.result = r]
      /\ UNCHANGED <<signaled, slots, counter, queue, clients, mine, known, closed>>
    BY DEF ReplyEffect
<1>2. d.buffer \notin signaled[d.core]
    BY DEF BufferPart, BufferInv
<1>3. \A c \in Core, b \in Buffer :
          /\ request'[c][b].op = request[c][b].op /\ request'[c][b].handle = request[c][b].handle
          /\ b \in signaled[c] => request'[c][b] = request[c][b]
    <2>1. request[d.core][d.buffer] \in RequestType
        BY DEF BufferPart, Types, DriverTypes
    <2>2. /\ request'[d.core][d.buffer].op = request[d.core][d.buffer].op
          /\ request'[d.core][d.buffer].handle = request[d.core][d.buffer].handle
        BY <1>1, <2>1 DEF RequestType
    <2> QED
        BY <1>1, <1>2, <2>2
<1>4. \A u \in Thread : /\ pc'[u] \in InHand => pc[u] \in InHand
                        /\ pc'[u] \in {"open", "claim", "dispatch", "send"} => pc'[u] = pc[u]
                        /\ pc'[u] \in Forwarding => pc'[u] = pc[u]
    BY DEF InHand, Forwarding
<1>5. service'.command = service.command /\ service'.result = service.result
      /\ (service'.at \in Serving => service.at \in Serving)
    BY DEF Serving
<1>6. \A h : /\ (Old(h)' <=> Old(h)) /\ (Valid(h)' <=> Valid(h))
             /\ (Live(h)' <=> Live(h)) /\ (Opening(h)' <=> Opening(h)) /\ (Gone(h)' <=> Gone(h))
             /\ (Closes(h)' <=> Closes(h))
    BY <1>1, <1>5, HandlesStay DEF Closes
<1>7. SlotInv' /\ UseInv' /\ GameInv' /\ CloseInv'
    BY <1>1, <1>3, <1>4, <1>5, ThreadsAndClosesStay
<1>8. \A c \in Core, b \in Buffer : \A h \in HandleType : Opens(c, b, h)' => Opens(c, b, h)
    BY <1>1, <1>3, <1>4, <1>5 DEF Opens, AtQueue, AtService
<1>9. OpensInv'
    BY <1>1, <1>3, <1>6, <1>8, OpensStay
<1>10. ProgressInv'
    BY <1>1, <1>3, <1>4, <1>5, <1>6 DEF ProgressInv
<1>11. OwnerInv'
    <2>1. \A h : Owned(h) => Owned(h)'
        BY <1>1, <1>3 DEF Owned
    <2> QED
        BY <1>1, <2>1, OwnersStay
<1> QED
    BY <1>7, <1>9, <1>10, <1>11

LEMMA FailHandles ==
    ASSUME BufferPart, HandlePart, NEW t \in Thread, FailEffect(t)
    PROVE  HandlePart'
<1>1. pc[t] \in InHand /\ Active(t)
    BY InHandIsActive DEF FailEffect, InHand
<1>2. mine[t].command.core = CoreOf[t] /\ mine[t].command.buffer = mine[t].buffer
      /\ CoreOf[t] \in Core /\ mine[t].buffer \in Buffer
    BY <1>1, CommandOfThread DEF BufferPart
<1>3. Underway(mine[t].command.core, mine[t].command.buffer)
    BY <1>1, <1>2 DEF Underway, AtThread
<1> QED
    BY <1>2, <1>3, BeginReplyHandles, Handles DEF FailEffect

LEMMA ReplyHandles ==
    ASSUME BufferPart, HandlePart, ServiceReplyEffect
    PROVE  HandlePart'
<1>1. service.at = "reply" /\ service.command.core \in Core /\ service.command.buffer \in Buffer
      /\ service.result \in HandleType
    BY CommandOfService DEF BufferPart, Types, ServiceTypes, ServiceReplyEffect
<1>2. Underway(service.command.core, service.command.buffer)
    BY <1>1 DEF Underway, AtService, Serving
<1> QED
    BY <1>1, <1>2, BeginReplyHandles DEF ServiceReplyEffect

\* The driver has an answer.
LEMMA ResponseHandles ==
    ASSUME BufferPart, HandlePart, NEW c \in Core, NEW b \in Buffer, RespondEffect(c, b),
           Underway(c, b), request[c][b].op \in Ops,
           request[c][b].op # "ioctl" => request[c][b].param = NoParam,
           \A u \in Thread : pc'[u] = pc[u] \/ (pc[u] = "respond" /\ pc'[u] = "release"),
           \/ service' = service
           \/ service.at = "respond" /\ service'.at = "release" /\ service'.command = service.command
              /\ service'.result = service.result /\ service.command.core = c
              /\ service.command.buffer = b,
           request[c][b].op = "open" =>
               \/ request[c][b].result = Error
               \/ Opens(c, b, request[c][b].result) /\ Live(request[c][b].result),
           request[c][b].op = "close" =>
               LET h == request[c][b].handle IN
               IF request[c][b].result = Error THEN Live(h)
               ELSE Gone(h) /\ Closes(h),
           service' # service => request[c][b].result = service.result
                                 /\ request[c][b].op = service.command.op
    PROVE  HandlePart'
<1> USE DEF HandlePart
<1>1. /\ \A d \in Core : d # c => request'[d] = request[d] /\ signaled'[d] = signaled[d]
      /\ \A a \in Buffer : a # b => request'[c][a] = request[c][a]
      /\ \/ /\ request[c][b].param = NoParam /\ request'[c][b] = request[c][b]
            /\ signaled'[c] = signaled[c] \cup {b}
         \/ /\ request[c][b].op = "ioctl" /\ request'[c][b] = NoRequest /\ signaled'[c] = signaled[c]
      /\ UNCHANGED <<slots, counter, queue, clients, mine, known, closed>>
    BY DEF RespondEffect, Ops
<1>2. b \notin signaled[c]
    BY DEF BufferPart, BufferInv
<1>3. \A d \in Core, a \in Buffer :
          /\ request'[d][a].op \in {"open", "close"} <=> request[d][a].op \in {"open", "close"}
          /\ request[d][a].op \in {"open", "close"} => request'[d][a] = request[d][a]
          /\ a \in signaled'[d] => a \in signaled[d] \/ (d = c /\ a = b)
          /\ a \in signaled[d] => a \in signaled'[d]
    BY <1>1, Handles
<1>4. \A u \in Thread : /\ pc'[u] \in InHand => pc[u] \in InHand
                        /\ pc'[u] \in {"open", "claim", "dispatch", "send"} => pc'[u] = pc[u]
                        /\ pc'[u] \in Forwarding => pc'[u] = pc[u]
    BY DEF InHand, Forwarding
<1>5. service'.command = service.command /\ service'.result = service.result
      /\ (service'.at \in Serving => service' = service)
    BY DEF Serving
<1>6. \A h : /\ (Old(h)' <=> Old(h)) /\ (Valid(h)' <=> Valid(h))
             /\ (Live(h)' <=> Live(h)) /\ (Opening(h)' <=> Opening(h)) /\ (Gone(h)' <=> Gone(h))
             /\ (Closes(h)' <=> Closes(h))
    BY <1>1, <1>5, HandlesStay DEF Closes
<1>7. SlotInv' /\ UseInv' /\ GameInv' /\ CloseInv'
    <2>1. \A d \in Core, a \in Buffer : request'[d][a].op = "close" =>
              request[d][a].op = "close" /\ request'[d][a] = request[d][a]
        BY <1>1, Handles
    <2>2. \A d \in Core, a \in Buffer : request'[d][a].op = "close" =>
              (a \in signaled'[d] =>
                  \/ a \in signaled[d] /\ request'[d][a].result = request[d][a].result
                  \/ LET h == request[d][a].handle IN
                     IF request'[d][a].result = Error THEN Live(h)
                     ELSE Gone(h) /\ Closes(h))
        BY <1>3, <2>1
    <2> QED
        BY <1>1, <1>4, <1>5, <2>1, <2>2, ThreadsAndClosesStay
<1>8. \A d \in Core, a \in Buffer : \A h \in HandleType : Opens(d, a, h)' => Opens(d, a, h)
    BY <1>1, <1>3, <1>4, <1>5 DEF Opens, AtQueue, AtService
<1>9. OpensInv'
    BY <1>1, <1>3, <1>6, <1>8, OpensStay
<1>10. ProgressInv'
    <2>1. \A d \in Core, a \in Buffer : request'[d][a].op = "open" /\ a \in signaled'[d] =>
              request'[d][a].result = Error \/ Live(request'[d][a].result)
        BY <1>1, <1>3 DEF ProgressInv
    <2> QED
        BY <1>1, <1>4, <1>5, <1>6, <2>1 DEF ProgressInv, Serving
<1>11. OwnerInv'
    <2> SUFFICES ASSUME NEW h, Live(h), Owned(h) PROVE Owned(h)'
        BY <1>1, OwnersStay
    <2>1. ASSUME NEW d \in Core, NEW a \in Buffer, request[d][a].op = "close",
                 request[d][a].handle = h
          PROVE  Owned(h)'
        BY <1>3, <2>1 DEF Owned
    <2>2. ASSUME NEW d \in Core, NEW a \in Buffer, request[d][a].op = "open",
                 a \in signaled[d], request[d][a].result = h
          PROVE  Owned(h)'
        BY <1>3, <2>2 DEF Owned
    <2>3. CASE h \in known
        BY <1>1, <2>3 DEF Owned
    <2>4. CASE service.at \in {"reply", "respond"} /\ service.command.op = "open"
               /\ service.command.handle = h /\ service.result = h
        <3>1. CASE service' = service
            BY <2>4, <3>1 DEF Owned
        <3>2. CASE service' # service
            <4>1. request'[c][b].op = "open" /\ request'[c][b].result = h /\ b \in signaled'[c]
                BY <1>1, <2>4, <3>2
            <4> QED
                BY <4>1 DEF Owned
        <3> QED
            BY <3>1, <3>2
    <2> QED
        BY <2>1, <2>2, <2>3, <2>4 DEF Owned
<1> QED
    BY <1>7, <1>9, <1>10, <1>11

LEMMA FailRespondHandles ==
    ASSUME BufferPart, HandlePart, NEW t \in Thread, FailRespondEffect(t)
    PROVE  HandlePart'
<1> DEFINE c == CoreOf[t]
           b == mine[t].buffer
<1>1. pc[t] = "respond" /\ pc[t] \in InHand
    BY DEF FailRespondEffect, InHand
<1>2. c \in Core /\ b \in Buffer /\ request[c][b].op = mine[t].command.op
      /\ request[c][b].op \in Ops
      /\ (mine[t].command.op # "open" => request[c][b].handle = mine[t].command.handle)
    BY <1>1, Requests
<1>3. Underway(c, b)
    BY <1>1 DEF Underway, AtThread
<1>4. request[c][b].result = Error /\ Agrees(mine[t].command)
    BY <1>1 DEF BufferPart, Agreement
<1>5. mine[t].command.core = c /\ mine[t].command.buffer = b
    BY <1>1, InHandIsActive, CommandOfThread DEF BufferPart
<1>6. request[c][b].op # "ioctl" => request[c][b].param = NoParam
    BY <1>2, <1>4, <1>5 DEF Agrees
<1>7. request[c][b].op = "close" => Live(request[c][b].handle)
    BY <1>1, <1>2 DEF HandlePart, CloseInv
<1>8. /\ RespondEffect(c, b) /\ service' = service
      /\ \A u \in Thread : pc'[u] = pc[u] \/ (pc[u] = "respond" /\ pc'[u] = "release")
    BY DEF FailRespondEffect
<1> HIDE DEF c, b
<1> QED
    BY <1>2, <1>3, <1>4, <1>6, <1>7, <1>8, ResponseHandles

LEMMA RespondHandles ==
    ASSUME BufferPart, HandlePart, ServiceRespondEffect
    PROVE  HandlePart'
<1> DEFINE c == service.command.core
           b == service.command.buffer
           h == service.command.handle
<1>1. /\ service.at = "respond" /\ service.at \in Serving /\ service.at # "receive"
      /\ service'.at = "release" /\ service'.command = service.command
      /\ service'.result = service.result /\ UNCHANGED pc /\ RespondEffect(c, b)
    BY DEF ServiceRespondEffect, Serving
<1>2. /\ c \in Core /\ b \in Buffer /\ request[c][b].op = service.command.op
      /\ request[c][b].op \in Ops /\ h \in HandleType
      /\ service.command.op # "open" => request[c][b].handle = h
    BY <1>1, Requests
<1>3. Underway(c, b) /\ AtService(c, b)
    BY <1>1 DEF Underway, AtService
<1>4. request[c][b].result = service.result /\ Agrees(service.command)
    BY <1>1 DEF BufferPart, Agreement
<1>5. request[c][b].op # "ioctl" => request[c][b].param = NoParam
    BY <1>2, <1>4 DEF Agrees
<1>6. request[c][b].op = "open" =>
          \/ request[c][b].result = Error
          \/ Opens(c, b, request[c][b].result) /\ Live(request[c][b].result)
    <2>1. request[c][b].op = "open" => Opens(c, b, h)
        BY <1>2, <1>3 DEF Opens
    <2> QED
        BY <1>1, <1>2, <1>4, <2>1 DEF HandlePart, ProgressInv
<1>7. request[c][b].op = "close" =>
          LET g == request[c][b].handle IN
          IF request[c][b].result = Error THEN Live(g)
          ELSE Gone(g) /\ Closes(g)
    BY <1>1, <1>2, <1>4, Handles DEF HandlePart, CloseInv, Closes
<1> HIDE DEF c, b, h
<1>8. \/ service' = service
      \/ service.at = "respond" /\ service'.at = "release" /\ service'.command = service.command
         /\ service'.result = service.result /\ service.command.core = c
         /\ service.command.buffer = b
    BY <1>1 DEF c, b
<1> QED
    BY <1>1, <1>2, <1>3, <1>4, <1>5, <1>6, <1>7, <1>8, ResponseHandles

\* A command is back in the pool.
LEMMA ReleaseHandles ==
    ASSUME BufferPart, HandlePart,
           UNCHANGED <<request, signaled, queue, slots, counter, clients, known, closed>>,
           \A u \in Thread : pc'[u] \in InHand => pc'[u] = pc[u] /\ mine'[u] = mine[u],
           \/ service' = service
           \/ /\ service.at = "release"
              /\ \/ service'.at = "destroy" /\ service'.command = service.command
                    /\ service'.result = service.result
                 \/ service.command.op # "close" /\ service' = Receiving
    PROVE  HandlePart'
<1> USE DEF HandlePart
<1>1. \A u \in Thread : pc'[u] \in Forwarding => pc'[u] \in InHand
    BY DEF Forwarding, InHand
<1>2. /\ service'.at \in Serving \cup {"assign", "refuse", "reply", "respond", "open", "ioctl", "close"}
             => service' = service
      /\ service'.command = service.command
         \/ (service.command.op # "close" /\ service'.command.op = "none")
      /\ service.at \in {"assign", "reply", "respond"} => service' = service
    BY ReceivingIs, Handles DEF Serving
<1>3. \A h : /\ (Old(h)' <=> Old(h)) /\ (Valid(h)' <=> Valid(h))
             /\ (Live(h)' <=> Live(h)) /\ (Opening(h)' <=> Opening(h)) /\ (Gone(h)' <=> Gone(h))
    BY HandlesStay
<1>4. \A h : Closes(h)' <=> Closes(h)
    BY <1>2 DEF Closes
<1>5. \A d \in Core, a \in Buffer : \A h \in HandleType : Opens(d, a, h)' => Opens(d, a, h)
    BY <1>1, <1>2 DEF Opens, AtQueue, AtService
<1>6. SlotInv'
    BY <1>3 DEF SlotInv, InHand
<1>7. OpensInv'
    BY <1>4, <1>5, OpensStay
<1>8. ProgressInv'
    BY <1>1, <1>2, <1>3 DEF ProgressInv
<1>9. UseInv'
    <2>1. \A d : Right(d) => Right(d)'
        BY RightStays
    <2> QED
        BY <1>1, <1>2, <2>1 DEF UseInv
<1>10. CloseInv'
    <2>1. service'.command.op = "close" =>
              service'.command = service.command /\ service'.result = service.result
              /\ (service' = service \/ service.at = "release")
        BY <1>2, ReceivingIs, Handles
    <2>2. service'.command.op = "close" =>
              LET d == service'.command h == d.handle IN
              /\ h \notin known /\ h \in closed /\ service'.result = Ok
              /\ d.target \in Client /\ (Valid(h) => slots[h[1]].target = d.target)
              /\ service'.at # "close" => Gone(h)
        BY <2>1 DEF CloseInv
    <2>3. \A u \in Thread : pc'[u] \in InHand /\ mine'[u].command.op = "close" =>
              Live(mine'[u].command.handle)
        BY DEF CloseInv
    <2> QED
        BY <1>3, <1>4, <2>2, <2>3 DEF CloseInv
<1>11. GameInv'
    BY <1>3, <1>4 DEF GameInv
<1>12. OwnerInv'
    <2>1. \A h : Owned(h) => Owned(h)'
        BY <1>2 DEF Owned
    <2> QED
        BY <1>2, <2>1, OwnersStay
<1> QED
    BY <1>6, <1>7, <1>8, <1>9, <1>10, <1>11, <1>12

LEMMA FailReleaseHandles ==
    ASSUME BufferPart, HandlePart, NEW t \in Thread, FailReleaseEffect(t)
    PROVE  HandlePart'
<1>1. /\ UNCHANGED <<request, signaled, queue, slots, counter, clients, known, closed, service>>
      /\ OthersStay(t) /\ pc'[t] \in {"idle", "wait"}
    BY DEF FailReleaseEffect, ReleaseEffect, LeaveEffect
<1>2. \A u \in Thread : pc'[u] \in InHand => pc'[u] = pc[u] /\ mine'[u] = mine[u]
    BY <1>1 DEF OthersStay, InHand
<1> QED
    BY <1>1, <1>2, ReleaseHandles

LEMMA ServiceReleaseHandles ==
    ASSUME BufferPart, HandlePart, ServiceReleaseEffect
    PROVE  HandlePart'
<1>1. /\ UNCHANGED <<request, signaled, queue, slots, counter, clients, known, closed, pc, mine>>
      /\ service.at = "release"
      /\ \/ service'.at = "destroy" /\ service'.command = service.command
            /\ service'.result = service.result
         \/ service.command.op # "close" /\ service' = Receiving
    BY DEF ServiceReleaseEffect, ReleaseEffect
<1> QED
    BY <1>1, ReleaseHandles

\* The service takes the first command of its queue.
LEMMA ReceiveHandles ==
    ASSUME BufferPart, BufferPart', HandlePart, ReceiveEffect
    PROVE  HandlePart'
<1> USE DEF HandlePart
<1>1. /\ service.at = "receive" /\ Len(queue) \in Nat \ {0} /\ queue[1] \in CommandType
      /\ service'.at = queue[1].op /\ service'.command = queue[1] /\ service'.result = Ok
      /\ Len(queue') = Len(queue) - 1
      /\ \A i \in 1..Len(queue') : queue'[i] = queue[i + 1]
      /\ UNCHANGED <<request, signaled, slots, counter, clients, pc, mine, known, closed>>
    BY DEF ReceiveEffect
<1>2. 1 \in 1..Len(queue) /\ \A i \in 1..Len(queue') : i + 1 \in 1..Len(queue)
    BY <1>1
<1>3. service.command.op = "none" /\ queue[1].op \in Ops
    BY <1>1, <1>2, Handles, CommandOfQueue DEF BufferPart, Types, ServiceTypes
<1>4. \A h : /\ (Old(h)' <=> Old(h)) /\ (Valid(h)' <=> Valid(h))
             /\ (Live(h)' <=> Live(h)) /\ (Opening(h)' <=> Opening(h)) /\ (Gone(h)' <=> Gone(h))
             /\ ~Closes(h) /\ (Closes(h)' <=> queue[1].op = "close" /\ queue[1].handle = h)
    BY <1>1, <1>3, HandlesStay DEF Closes
<1>5. queue[1].op = "close" =>
          LET h == queue[1].handle IN
          \E c \in Core, b \in Buffer : request[c][b].op = "close" /\ request[c][b].handle = h
    BY <1>2, Requests
<1>6. \A d \in Core, a \in Buffer : \A h \in HandleType : Opens(d, a, h)' => Opens(d, a, h)
    <2> TAKE d \in Core, a \in Buffer
    <2> TAKE h \in HandleType
    <2>1. ASSUME AtService(d, a)', service'.command.op = "open", service'.command.handle = h
          PROVE  Opens(d, a, h)
        BY <1>1, <1>2, <2>1 DEF Opens, AtService, AtQueue
    <2>2. ASSUME NEW i \in 1..Len(queue'), AtQueue(i, d, a)', queue'[i].op = "open",
                 queue'[i].handle = h
          PROVE  Opens(d, a, h)
        BY <1>1, <1>2, <2>2 DEF Opens, AtQueue
    <2> QED
        BY <1>1, <2>1, <2>2 DEF Opens
<1>7. SlotInv'
    BY <1>1, <1>4 DEF SlotInv
<1>8. OpensInv'
    BY <1>1, <1>4, <1>5, <1>6, OpensStay
<1>9. ProgressInv'
    <2>1. \A i \in 1..Len(queue') : queue'[i].op = "open" => Opening(queue'[i].handle)
        BY <1>1, <1>2 DEF ProgressInv
    <2>2. service'.at = "open" => Opening(service'.command.handle)
        BY <1>1, <1>2 DEF ProgressInv
    <2> QED
        BY <1>1, <1>3, <1>4, <2>1, <2>2 DEF ProgressInv, Ops
<1>10. UseInv'
    <2>1. \A d : Right(d) => Right(d)'
        BY <1>1, RightStays
    <2>2. \A i \in 1..Len(queue') : queue'[i].op # "open" => Right(queue[i])'
        BY <1>1, <1>2, <2>1 DEF UseInv
    <2>3. service'.at \in {"ioctl", "close"} => Right(service.command)'
        BY <1>1, <1>2, <2>1 DEF UseInv
    <2> QED
        BY <1>1, <2>1, <2>2, <2>3 DEF UseInv
<1>11. CloseInv'
    <2>1. queue[1].op = "close" =>
              LET d == queue[1] h == d.handle IN
              /\ h \notin known /\ h \in closed
              /\ d.target \in Client /\ slots[h[1]].target = d.target
        BY <1>2, <1>5 DEF CloseInv, UseInv, Right, Live
    <2>2. \A c \in Core, b \in Buffer : request[c][b].op = "close" =>
              LET h == request[c][b].handle IN
              b \in signaled[c] /\ request[c][b].result # Error =>
                  Gone(h) /\ (Valid(h) => Closes(h)')
        BY <1>4 DEF CloseInv
    <2> QED
        BY <1>1, <1>4, <2>1, <2>2 DEF CloseInv
<1>12. GameInv'
    BY <1>1, <1>4 DEF GameInv
<1>13. OwnerInv'
    <2>1. \A h : Owned(h) => Owned(h)'
        BY <1>1 DEF Owned
    <2> QED
        BY <1>1, <2>1, OwnersStay
<1> QED
    BY <1>7, <1>8, <1>9, <1>10, <1>11, <1>12, <1>13

\* The IPC thread and steps that change nothing.
LEMMA CallbacksHandles ==
    ASSUME HandlePart, UNCHANGED <<request, signaled, queue, slots, counter, service, clients,
                                   pc, mine, known, closed>>
    PROVE  HandlePart'
<1>1. \A h : /\ (Old(h)' <=> Old(h)) /\ (Valid(h)' <=> Valid(h))
             /\ (Live(h)' <=> Live(h)) /\ (Opening(h)' <=> Opening(h)) /\ (Gone(h)' <=> Gone(h))
             /\ (Closes(h)' <=> Closes(h))
    BY HandlesStay DEF Closes
<1>2. OpensInv'
    BY <1>1, OpensStay DEF HandlePart, Opens, AtQueue, AtService
<1>3. SlotInv' /\ ProgressInv'
    BY <1>1 DEF HandlePart, SlotInv, ProgressInv
<1>6. UseInv'
    BY RightStays DEF HandlePart, UseInv
<1>4. CloseInv' /\ GameInv'
    BY <1>1 DEF HandlePart, CloseInv, GameInv
<1>5. OwnerInv'
    BY OwnersStay DEF HandlePart, Owned
<1> QED
    BY <1>2, <1>3, <1>4, <1>5, <1>6 DEF HandlePart

\* Nobody but the service has the handle that it opens or closes.
LEMMA ServedIsAlone ==
    ASSUME BufferPart, HandlePart, service.at \in Serving, NEW h \in HandleType,
           service.command.op # "ioctl", service.command.handle = h
    PROVE  /\ \A t \in Thread : pc[t] \in Forwarding /\ mine[t].command.op = "open" =>
                  mine[t].command.handle # h
           /\ \A i \in 1..Len(queue) : queue[i].op \in {"open", "close"} => queue[i].handle # h
           /\ \A t \in Thread : pc[t] \in InHand /\ mine[t].command.op = "close" =>
                  mine[t].command.handle # h
           /\ \A c \in Core, b \in Buffer :
                  /\ request[c][b].op = "open" /\ b \in signaled[c] /\ request[c][b].result # Error =>
                         request[c][b].result # h
                  /\ request[c][b].op = "close" /\ b \in signaled[c] => request[c][b].handle # h
                  /\ request[c][b].op = "close" /\ service.command.op = "open" =>
                         request[c][b].handle # h
<1> DEFINE d == service.command.core
           a == service.command.buffer
<1> USE DEF HandlePart
<1>1. /\ d \in Core /\ a \in Buffer /\ AtService(d, a)
      /\ service.command.op \in {"open", "close"} /\ request[d][a].op = service.command.op
      /\ service.command.op = "close" => request[d][a].handle = h /\ Closes(h)
      /\ service.command.op = "open" => Opens(d, a, h)
    BY Requests DEF Serving, AtService, Ops, Opens, Closes
<1>2. /\ \A t \in Thread : ~AtThread(t, d, a)
      /\ \A i \in 1..Len(queue) : ~AtQueue(i, d, a)
      /\ a \notin signaled[d]
    BY <1>1 DEF BufferPart, OnePlace, BufferInv, Underway
<1>3. ASSUME NEW t \in Thread, pc[t] \in Forwarding, mine[t].command.op = "open"
      PROVE  mine[t].command.handle # h
    <2>1. pc[t] \in InHand
        BY <1>3 DEF Forwarding, InHand
    <2>2. CoreOf[t] \in Core /\ mine[t].buffer \in Buffer /\ mine[t].command.handle \in HandleType
        BY <2>1, Requests
    <2>3. CoreOf[t] # d \/ mine[t].buffer # a
        BY <1>2, <2>1 DEF AtThread
    <2> QED
        BY <1>1, <1>3, <2>2, <2>3, ForwardedOpens DEF OpensInv
<1>4. ASSUME NEW c \in Core, NEW b \in Buffer, request[c][b].op = "close", c # d \/ b # a
      PROVE  request[c][b].handle # h
    BY <1>1, <1>4 DEF OpensInv, CloseInv
<1>5. ASSUME NEW i \in 1..Len(queue), queue[i].op \in {"open", "close"}
      PROVE  queue[i].handle # h
    <2>1. /\ queue[i].core \in Core /\ queue[i].buffer \in Buffer /\ queue[i].handle \in HandleType
          /\ request[queue[i].core][queue[i].buffer].op = queue[i].op
          /\ queue[i].op # "open" =>
                 request[queue[i].core][queue[i].buffer].handle = queue[i].handle
        BY Requests
    <2>2. queue[i].core # d \/ queue[i].buffer # a
        BY <1>2 DEF AtQueue
    <2>3. CASE queue[i].op = "open"
        <3>1. Opens(queue[i].core, queue[i].buffer, queue[i].handle)
            BY <2>3 DEF Opens, AtQueue
        <3> QED
            BY <1>1, <2>1, <2>2, <3>1 DEF OpensInv
    <2>4. CASE queue[i].op = "close"
        BY <1>4, <2>1, <2>2, <2>4
    <2> QED
        BY <1>5, <2>3, <2>4
<1>6. ASSUME NEW t \in Thread, pc[t] \in InHand, mine[t].command.op = "close"
      PROVE  mine[t].command.handle # h
    <2>1. /\ CoreOf[t] \in Core /\ mine[t].buffer \in Buffer
          /\ request[CoreOf[t]][mine[t].buffer].op = "close"
          /\ request[CoreOf[t]][mine[t].buffer].handle = mine[t].command.handle
        BY <1>6, Requests
    <2>2. CoreOf[t] # d \/ mine[t].buffer # a
        BY <1>2, <1>6 DEF AtThread
    <2> QED
        BY <1>4, <2>1, <2>2
<1>7. ASSUME NEW c \in Core, NEW b \in Buffer, request[c][b].op = "open", b \in signaled[c],
             request[c][b].result # Error
      PROVE  request[c][b].result # h
    <2>1. request[c][b].result \in HandleType
        BY DEF BufferPart, Types, DriverTypes, RequestType
    <2>2. Opens(c, b, request[c][b].result)
        BY <1>7 DEF Opens
    <2> QED
        BY <1>1, <1>2, <1>7, <2>1, <2>2 DEF OpensInv
<1>8. ASSUME NEW c \in Core, NEW b \in Buffer, request[c][b].op = "close",
             service.command.op = "open"
      PROVE  request[c][b].handle # h
    BY <1>1, <1>8 DEF OpensInv
<1> HIDE DEF d, a
<1> QED
    BY <1>2, <1>3, <1>4, <1>5, <1>6, <1>7, <1>8

\* A step of the service that touches nobody's handle but its own.
LEMMA ServiceMovesHandles ==
    ASSUME BufferPart, HandlePart, ServiceMoves, NEW h, h = service.command.handle,
           \A g : Old(g) /\ Live(g) /\ ~Closes(g) =>
               Live(g)' /\ slots'[g[1]].target = slots[g[1]].target,
           \A g : Opening(g) /\ (g = h => service.command.op = "ioctl") => Opening(g)',
           \A g : Old(g) /\ Valid(g)' => Valid(g),
           \A x \in Client : clients'[x] \in {clients[x], NoHandle}
                             \/ (clients'[x] = h /\ service.command.op = "open"),
           \A s \in Slot : slots'[s].set => slots[s].set /\ slots'[s].check = slots[s].check,
           service'.at = "refuse" => Opening(h)',
           service'.at = "assign" => /\ Valid(h)'
                                     /\ \A x \in Client : clients'[x] = h <=> x = service'.client,
           service'.at = "reply" /\ service.command.op = "open" =>
               service'.result = Error \/ (service'.result = h /\ Live(h)'),
           service.at = "close" => Gone(h)' /\ UNCHANGED slots,
           OwnerInv'
    PROVE  HandlePart'
<1> USE DEF HandlePart
<1>1. /\ service.at \in Serving /\ service.at # "receive" /\ service'.command = service.command
      /\ service'.at \in {"assign", "refuse", "reply", "stopped"}
      /\ UNCHANGED <<request, signaled, queue, counter, pc, mine, known, closed>>
    BY DEF ServiceMoves, Serving
<1>2. /\ h \in HandleType /\ service.command.op \in Ops
      /\ service.at = "close" <=> service.command.op = "close"
      /\ service.command.op = "close" => service'.at = "reply" /\ service'.result = service.result
    BY <1>1, Requests DEF BufferPart, Agreement, ServiceMoves, Ops
<1>3. /\ \A g : (Old(g)' <=> Old(g)) /\ (Closes(g)' <=> Closes(g))
      /\ \A g : Live(g) => Old(g)
      /\ \A g : Closes(g) => g = h /\ service.command.op = "close"
    BY <1>1 DEF Old, Closes, Live
<1>4. /\ \A t \in Thread : pc[t] \in Forwarding /\ mine[t].command.op = "open" =>
             mine[t].command.handle # h \/ service.command.op = "ioctl"
      /\ \A i \in 1..Len(queue) :
             /\ queue[i].op = "open" => queue[i].handle # h \/ service.command.op = "ioctl"
             /\ queue[i].op = "close" => ~Closes(queue[i].handle)
      /\ \A t \in Thread : pc[t] \in InHand /\ mine[t].command.op = "close" =>
             ~Closes(mine[t].command.handle)
      /\ \A c \in Core, b \in Buffer :
             /\ request[c][b].op = "open" /\ b \in signaled[c] /\ request[c][b].result # Error =>
                    ~Closes(request[c][b].result)
             /\ request[c][b].op = "close" /\ b \in signaled[c] => ~Closes(request[c][b].handle)
             /\ request[c][b].op = "close" /\ service.command.op = "open" =>
                    request[c][b].handle # h
    BY <1>1, <1>2, <1>3, ServedIsAlone
<1>5. /\ \A g \in known : ~Closes(g)
      /\ service.command.op = "close" => h \in closed
      /\ service.command.op = "open" => h \notin closed
    <2>1. service.command.op = "open" => \E c \in Core, b \in Buffer : Opens(c, b, h)
        BY <1>1, Requests DEF Opens, AtService
    <2> QED
        BY <1>2, <2>1 DEF CloseInv, Closes, OpensInv
\* A handle that no client has stays so, unless it is being opened.
<1>12. \A g : Old(g) /\ Gone(g) /\ (service.command.op = "open" => g # h) => Gone(g)'
    <2>1. \A g : Old(g) => g # NoHandle
        BY Constants DEF Old, NoHandle
    <2> QED
        BY <2>1 DEF Gone
<1>6. SlotInv'
    <2>1. \A t \in Thread : pc[t] = "claim" => mine[t].slot \in Slot
        BY DEF BufferPart, OwnCommands
    <2> QED
        BY <1>1, <1>3, <2>1 DEF SlotInv
<1>7. OpensInv'
    <2>1. \A c \in Core, b \in Buffer : \A g \in HandleType : Opens(c, b, g)' => Opens(c, b, g)
        BY <1>1 DEF Opens, AtQueue, AtService
    <2> QED
        BY <1>1, <1>3, <2>1, OpensStay
<1>8. ProgressInv'
    <2>1. \A t \in Thread : pc[t] \in Forwarding /\ mine[t].command.op = "open" =>
              Opening(mine[t].command.handle)'
        BY <1>1, <1>4 DEF ProgressInv
    <2>2. \A i \in 1..Len(queue) : queue[i].op = "open" => Opening(queue[i].handle)'
        BY <1>1, <1>4 DEF ProgressInv
    <2>3. \A c \in Core, b \in Buffer : request[c][b].op = "open" /\ b \in signaled[c] =>
              request[c][b].result = Error \/ Live(request[c][b].result)'
        BY <1>1, <1>3, <1>4 DEF ProgressInv
    <2> QED
        BY <1>1, <2>1, <2>2, <2>3 DEF ProgressInv
<1>9. UseInv'
    <2>1. ASSUME NEW d, d.op # "open", d.op \in Ops, Right(d), d.op = "close" => ~Closes(d.handle)
          PROVE  Right(d)'
        <3>1. CASE Live(d.handle) /\ d.target = slots[d.handle[1]].target /\ ~Closes(d.handle)
            BY <1>3, <3>1 DEF Right
        <3>2. CASE Live(d.handle) /\ d.target = slots[d.handle[1]].target /\ Closes(d.handle)
            <4>1. d.op = "ioctl" /\ d.handle = h /\ service.at = "close" /\ h \in closed
                  /\ Old(h) /\ d.target \in Client
                BY <1>2, <1>3, <1>5, <2>1, <3>2 DEF Ops, Live
            <4> QED
                BY <1>1, <1>3, <4>1 DEF Right, Stale
        <3>3. CASE d.op = "ioctl" /\ Stale(d.handle) /\ d.target \in Client
            BY <1>1, <1>3, <1>5, <1>12, <3>3 DEF Right, Stale
        <3> QED
            BY <2>1, <3>1, <3>2, <3>3 DEF Right
    <2>2. ASSUME NEW t \in Thread, pc[t] \in Forwarding, mine[t].command.op # "open"
          PROVE  /\ mine[t].command.handle \in known \cup closed
                 /\ pc[t] = "send" => Right(mine[t].command)'
        <3>1. pc[t] \in InHand /\ mine[t].command.op \in Ops
            BY <2>2, Requests DEF Forwarding, InHand
        <3>2. PICK d : d = mine[t].command
            OBVIOUS
        <3>3. pc[t] = "send" => Right(d)'
            BY <1>4, <2>1, <2>2, <3>1, <3>2 DEF UseInv
        <3> QED
            BY <1>1, <2>2, <3>2, <3>3 DEF UseInv
    <2>3. ASSUME NEW i \in 1..Len(queue), queue[i].op # "open"
          PROVE  Right(queue[i])'
        <3>1. PICK d : d = queue[i]
            OBVIOUS
        <3>2. Right(d)'
            BY <1>4, <2>1, <2>3, <3>1, Requests DEF UseInv
        <3> QED
            BY <1>1, <3>1, <3>2
    <2> QED
        BY <1>1, <2>2, <2>3 DEF UseInv
<1>10. CloseInv'
    <2>1. ASSUME NEW c \in Core, NEW b \in Buffer, request[c][b].op = "close", b \in signaled[c]
          PROVE  LET g == request[c][b].handle IN
                 /\ request[c][b].result = Error => Live(g)'
                 /\ request[c][b].result # Error => Gone(g)' /\ ~Valid(g)'
        <3>1. PICK g : g = request[c][b].handle
            OBVIOUS
        <3>2. Old(g) /\ ~Closes(g) /\ (service.command.op = "open" => g # h)
            BY <1>4, <2>1, <3>1 DEF BufferPart, Agreement
        <3>3. CASE request[c][b].result = Error
            BY <1>1, <1>3, <2>1, <3>1, <3>2, <3>3 DEF CloseInv
        <3>4. CASE request[c][b].result # Error
            <4>1. Gone(g) /\ ~Valid(g)
                BY <2>1, <3>1, <3>2, <3>4 DEF CloseInv
            <4> QED
                BY <1>1, <1>3, <1>12, <3>1, <3>2, <3>4, <4>1
        <3> QED
            BY <3>3, <3>4
    <2>2. \A t \in Thread : pc[t] \in InHand /\ mine[t].command.op = "close" =>
              Live(mine[t].command.handle)'
        BY <1>1, <1>3, <1>4 DEF CloseInv
    <2>3. service.command.op = "close" =>
              LET d == service.command IN
              /\ h \notin known /\ h \in closed /\ service'.result = Ok
              /\ d.target \in Client /\ (Valid(h)' => slots'[h[1]].target = d.target)
              /\ Gone(h)'
        BY <1>2 DEF CloseInv, Valid
    <2> QED
        BY <1>1, <2>1, <2>2, <2>3 DEF CloseInv
<1>11. GameInv'
    <2>1. \A g \in known : Live(g)' /\ g \notin closed
        BY <1>3, <1>5 DEF GameInv
    <2>2. ASSUME NEW g \in closed, Valid(g)' PROVE Live(g)' \/ (Closes(g) /\ Gone(g)')
        <3>1. Old(g) /\ Valid(g)
            BY <2>2 DEF BufferPart, Agreement
        <3>2. CASE Closes(g)
            BY <1>2, <1>3, <1>12, <3>1, <3>2
        <3>3. CASE ~Closes(g)
            BY <1>3, <3>1, <3>3 DEF GameInv
        <3> QED
            BY <3>2, <3>3
    <2> QED
        BY <1>1, <1>3, <2>1, <2>2 DEF GameInv
<1> QED
    BY <1>6, <1>7, <1>8, <1>9, <1>10, <1>11

\* Two clients never have the same handle.
LEMMA ClientsDiffer ==
    ASSUME BufferPart, HandlePart, NEW x \in Client, NEW y \in Client,
           clients[x] = clients[y], clients[x] # NoHandle
    PROVE  x = y
<1> USE DEF HandlePart
<1>1. CASE service.at = "assign"
    <2>1. clients[service.client] = service.command.handle /\ service.client \in Client
          /\ \A z \in Client : clients[z] = service.command.handle => z = service.client
        BY <1>1 DEF ProgressInv, BufferPart, Agreement
    <2>2. CASE clients[x] = service.command.handle
        BY <2>1, <2>2
    <2>3. CASE clients[x] # service.command.handle
        BY <2>1, <2>3 DEF OwnerInv
    <2> QED
        BY <2>2, <2>3
<1>2. CASE service.at # "assign"
    BY <1>2 DEF OwnerInv
<1> QED
    BY <1>1, <1>2

LEMMA OwnedWhileServing ==
    ASSUME UNCHANGED <<request, signaled, known>>,
           service.at \notin {"reply", "respond"}, NEW g, Owned(g)
    PROVE  Owned(g)'
BY DEF Owned

LEMMA ServeIoctlHandles ==
    ASSUME BufferPart, HandlePart, ServeIoctlEffect
    PROVE  HandlePart'
<1> USE DEF HandlePart
<1>1. /\ ServiceMoves /\ service.at = "ioctl" /\ service'.at \in {"reply", "stopped"}
      /\ service.command.op = "ioctl"
      /\ UNCHANGED <<slots, clients, counter, request, signaled, known>>
    BY DEF ServeIoctlEffect, ServiceMoves, BufferPart, Agreement, Ops
<1>2. \A g : /\ (Old(g)' <=> Old(g)) /\ (Valid(g)' <=> Valid(g))
             /\ (Live(g)' <=> Live(g)) /\ (Opening(g)' <=> Opening(g)) /\ (Gone(g)' <=> Gone(g))
    BY <1>1, HandlesStay
<1>3. OwnerInv'
    BY <1>1, OwnersStay, OwnedWhileServing
<1> QED
    BY <1>1, <1>2, <1>3, ServiceMovesHandles

LEMMA ServeOpenHandles ==
    ASSUME BufferPart, HandlePart, ServeOpenEffect
    PROVE  HandlePart'
<1> DEFINE e == service.command.handle
<1> USE DEF HandlePart
<1>1. PICK h : h = e
    OBVIOUS
<1>2. /\ ServiceMoves /\ service.at = "open" /\ service.command.op = "open"
      /\ UNCHANGED <<slots, counter, request, signaled, known>>
      /\ service'.command.handle = h
    BY <1>1 DEF ServeOpenEffect, ServiceMoves, BufferPart, Agreement, Ops
<1>3. Opening(h) /\ Old(h) /\ Valid(h) /\ Gone(h)
    BY <1>1, <1>2 DEF ProgressInv, Opening, Gone
<1>4. \A g : (Old(g)' <=> Old(g)) /\ (Valid(g)' <=> Valid(g))
    BY <1>2 DEF Old, Valid
<1>5. CASE service'.at = "refuse" /\ UNCHANGED clients
    <2>1. \A g : (Live(g)' <=> Live(g)) /\ (Opening(g)' <=> Opening(g)) /\ (Gone(g)' <=> Gone(g))
        BY <1>2, <1>5, HandlesStay
    <2>2. OwnerInv'
        BY <1>2, <1>5, OwnersStay, OwnedWhileServing
    <2> QED
        BY <1>1, <1>2, <1>3, <1>4, <1>5, <2>1, <2>2, ServiceMovesHandles
<1>6. CASE /\ service'.at = "assign" /\ clients[service'.client] = NoHandle
           /\ clients'[service'.client] = h
           /\ \A y \in Client : y # service'.client => clients'[y] = clients[y]
    <2>1. PICK x \in Client : x = service'.client
        BY <1>6 DEF ServiceMoves, ServeOpenEffect
    <2>2. clients[x] = NoHandle /\ clients'[x] = h /\ \A y \in Client : y # x => clients'[y] = clients[y]
        BY <1>6, <2>1
    <2>3. \A g : Old(g) => g # NoHandle
        BY Constants DEF Old, NoHandle
    <2>4. \A g : Live(g) => Live(g)' /\ slots'[g[1]].target = slots[g[1]].target
        BY <1>2, <1>4, <2>2, <2>3 DEF Live
    <2>5. \A g : Opening(g) /\ g # h => Opening(g)'
        BY <1>4, <2>2 DEF Opening, Gone
    <2>6. \A y \in Client : clients'[y] = h <=> y = x
        BY <1>3, <2>2 DEF Gone
    <2>7. OwnerInv'
        <3> SUFFICES ASSUME NEW y \in Client, NEW g, clients'[y] = g, g # NoHandle, y # x
                     PROVE  Live(g)' /\ slots'[g[1]].target = y /\ Owned(g)'
            BY <1>6, <2>1 DEF OwnerInv
        <3>1. clients[y] = g /\ Live(g) /\ slots[g[1]].target = y /\ Owned(g)
            BY <1>2, <2>2 DEF OwnerInv
        <3> QED
            BY <1>2, <2>4, <3>1, OwnedWhileServing
    <2> HIDE DEF e
    <2> QED
        BY <1>1, <1>2, <1>3, <1>4, <1>6, <2>1, <2>2, <2>4, <2>5, <2>6, <2>7, ServiceMovesHandles DEF e
<1> QED
    BY <1>1, <1>5, <1>6 DEF ServeOpenEffect

LEMMA ServeCloseHandles ==
    ASSUME BufferPart, HandlePart, ServeCloseEffect
    PROVE  HandlePart'
<1> USE DEF HandlePart
<1>1. PICK h : h = service.command.handle
    OBVIOUS
<1>2. PICK z : z = service.command.target
    OBVIOUS
<1>3. /\ ServiceMoves /\ service.at = "close" /\ service'.at = "reply" /\ service.command.op = "close"
      /\ UNCHANGED <<slots, counter, request, signaled, known>>
      /\ \A x \in Client : clients'[x] = IF x = z THEN NoHandle ELSE clients[x]
    BY <1>2 DEF ServeCloseEffect, ServiceMoves, BufferPart, Agreement, Ops
<1>4. Live(h) /\ z = slots[h[1]].target /\ z \in Client /\ clients[z] = h /\ Old(h)
    BY <1>1, <1>2, <1>3 DEF UseInv, Right, Live
<1>5. \A g : Old(g) => g # NoHandle
    BY Constants DEF Old, NoHandle
<1>6. \A x \in Client : clients'[x] # h
    BY <1>3, <1>4, <1>5, ClientsDiffer
<1>7. \A g : (Old(g)' <=> Old(g)) /\ (Valid(g)' <=> Valid(g)) /\ (Closes(g) <=> g = h)
    BY <1>1, <1>3 DEF Old, Valid, Closes
<1>8. \A g : Live(g) /\ g # h => Live(g)' /\ slots'[g[1]].target = slots[g[1]].target
    BY <1>3, <1>4, <1>7 DEF Live
<1>9. \A g : Opening(g) => Opening(g)'
    BY <1>3, <1>5, <1>7 DEF Opening, Gone
<1>10. OwnerInv'
    <2> SUFFICES ASSUME NEW y \in Client, NEW g, clients'[y] = g, g # NoHandle
                 PROVE  Live(g)' /\ slots'[g[1]].target = y /\ Owned(g)'
        BY DEF OwnerInv
    <2>1. clients[y] = g /\ Live(g) /\ slots[g[1]].target = y /\ Owned(g) /\ g # h
        BY <1>3, <1>6 DEF OwnerInv
    <2> QED
        BY <1>3, <1>8, <2>1, OwnedWhileServing
<1>11. \A x \in Client : clients'[x] \in {clients[x], NoHandle}
    BY <1>3
<1>12. Gone(h)'
    BY <1>6 DEF Gone
<1> QED
    BY <1>1, <1>3, <1>6, <1>7, <1>8, <1>9, <1>10, <1>11, <1>12, ServiceMovesHandles

LEMMA AssignTargetHandles ==
    ASSUME BufferPart, HandlePart, AssignTargetEffect
    PROVE  HandlePart'
<1> USE DEF HandlePart
<1>1. PICK h : h = service.command.handle
    OBVIOUS
<1>2. PICK x : x = service.client
    OBVIOUS
<1>3. /\ ServiceMoves /\ service.at = "assign" /\ service'.at = "reply"
      /\ service.command.op = "open" /\ Old(h) /\ x \in Client /\ service.result = h
      /\ UNCHANGED <<clients, counter, request, signaled, known>>
      /\ service'.command = service.command /\ service'.result = h
    BY <1>1, <1>2 DEF AssignTargetEffect, ServiceMoves, BufferPart, Agreement, Ops
<1>4. Valid(h) /\ \A y \in Client : clients[y] = h <=> y = x
    BY <1>1, <1>2, <1>3 DEF ProgressInv
<1>5. /\ h[1] \in Slot /\ \A s \in Slot : s # h[1] => slots'[s] = slots[s]
      /\ slots'[h[1]] = [slots[h[1]] EXCEPT !.target = x]
    BY <1>1, <1>2, <1>4 DEF AssignTargetEffect
<1>6. slots[h[1]] \in SlotType
    BY <1>5 DEF BufferPart, Types, KernelTypes, SlotType
<1>7. slots'[h[1]].set = slots[h[1]].set /\ slots'[h[1]].check = slots[h[1]].check
      /\ slots'[h[1]].target = x
    BY <1>5, <1>6 DEF SlotType
<1>8. \A g : g[1] \in Slot => (Old(g)' <=> Old(g)) /\ (Valid(g)' <=> Valid(g))
    <2> TAKE g
    <2> HAVE g[1] \in Slot
    <2>1. slots'[g[1]].set = slots[g[1]].set /\ slots'[g[1]].check = slots[g[1]].check
        BY <1>5, <1>7
    <2> QED
        BY <1>3, <2>1 DEF Old, Valid
<1>9. \A g : Valid(g) /\ g[1] = h[1] => g = h
    BY <1>4 DEF Valid
<1>10. Live(h)'
    BY <1>3, <1>4, <1>7, <1>8 DEF Live, Old
<1>11. \A g : Live(g) => Live(g)' /\ slots'[g[1]].target = slots[g[1]].target
    BY <1>3, <1>4, <1>5, <1>7, <1>8, <1>9, <1>10 DEF Live, Old
<1>12. \A g : Opening(g) => Opening(g)'
    BY <1>3, <1>8 DEF Opening, Gone, Old
<1>13. OwnerInv'
    <2> SUFFICES ASSUME NEW y \in Client, NEW g, clients'[y] = g, g # NoHandle
                 PROVE  Live(g)' /\ slots'[g[1]].target = y /\ Owned(g)'
        BY DEF OwnerInv
    <2>1. CASE y = x
        <3>1. g = h
            BY <1>3, <1>4, <2>1
        <3>2. Owned(h)'
            BY <1>1, <1>3 DEF Owned
        <3> QED
            BY <1>7, <1>10, <2>1, <3>1, <3>2
    <2>2. CASE y # x
        <3>1. Live(g) /\ slots[g[1]].target = y /\ Owned(g)
            BY <1>2, <1>3, <2>2 DEF OwnerInv
        <3> QED
            BY <1>3, <1>11, <3>1, OwnedWhileServing
    <2> QED
        BY <2>1, <2>2
<1>14. /\ \A s \in Slot : slots'[s].set => slots[s].set /\ slots'[s].check = slots[s].check
       /\ \A g : Old(g) /\ Valid(g)' => Valid(g)
    BY <1>5, <1>7, <1>8 DEF Old
<1> QED
    BY <1>1, <1>3, <1>8, <1>10, <1>11, <1>12, <1>13, <1>14, ServiceMovesHandles

\* A slot is freed: the handles of the other slots are not changed.
LEMMA HandlesFreed ==
    ASSUME BufferPart, NEW h, Frees(h), UNCHANGED counter
    PROVE  /\ \A s \in Slot : slots'[s].set => slots[s].set /\ slots'[s] = slots[s]
           /\ \A g : Old(g) /\ Valid(g)' => Valid(g) /\ g # h
           /\ \A g : Live(g) /\ g # h => Live(g)' /\ slots'[g[1]].target = slots[g[1]].target
           /\ \A g : Opening(g) /\ g # h => Opening(g)'
<1>1. /\ h[1] \in Slot /\ UNCHANGED clients
      /\ \A s \in Slot : s # h[1] => slots'[s] = slots[s]
      /\ \/ Valid(h) /\ slots'[h[1]] = FreeSlot
         \/ ~Valid(h) /\ slots'[h[1]] = slots[h[1]]
      /\ FreeSlot.set = FALSE
    BY DEF Frees, FreeSlot
<1>2. \A s \in Slot : slots'[s].set => slots[s].set /\ slots'[s] = slots[s]
    BY <1>1
<1>3. \A g : g[1] \in Slot /\ Valid(g)' => Valid(g) /\ g # h
    BY <1>1 DEF Valid
<1>4. \A g : g[1] \in Slot /\ Valid(g) /\ g # h => slots'[g[1]] = slots[g[1]]
    BY <1>1 DEF Valid
<1>5. \A g : Old(g)' <=> Old(g)
    BY DEF Old
<1>6. \A g : Old(g) /\ Valid(g) /\ g # h => Valid(g)' /\ slots'[g[1]].target = slots[g[1]].target
    BY <1>4 DEF Old, Valid
<1>7. \A g : Live(g) /\ g # h => Live(g)' /\ slots'[g[1]].target = slots[g[1]].target
    BY <1>1, <1>5, <1>6 DEF Live
<1>8. \A g : Opening(g) /\ g # h => Opening(g)'
    BY <1>1, <1>5, <1>6 DEF Opening, Gone
<1> QED
    BY <1>2, <1>3, <1>7, <1>8 DEF Old

LEMMA RefuseHandles ==
    ASSUME BufferPart, HandlePart, RefuseEffect
    PROVE  HandlePart'
<1> USE DEF HandlePart
<1>1. PICK h : h = service.command.handle
    OBVIOUS
<1>2. /\ ServiceMoves /\ service.at = "refuse" /\ service'.at = "reply" /\ Frees(h)
      /\ service.command.op = "open" /\ service.result = Error /\ service'.result = Error
      /\ UNCHANGED <<clients, counter, request, signaled, known>>
    BY <1>1 DEF RefuseEffect, ServiceMoves, Frees, BufferPart, Agreement, Ops
<1>3. /\ \A s \in Slot : slots'[s].set => slots[s].set /\ slots'[s] = slots[s]
      /\ \A g : Old(g) /\ Valid(g)' => Valid(g) /\ g # h
      /\ \A g : Live(g) /\ g # h => Live(g)' /\ slots'[g[1]].target = slots[g[1]].target
      /\ \A g : Opening(g) /\ g # h => Opening(g)'
    BY <1>2, HandlesFreed
<1>4. Opening(h)
    BY <1>1, <1>2 DEF ProgressInv
<1>5. \A g : Live(g) => g # h
    BY <1>4 DEF Live, Opening, Gone
<1>6. OwnerInv'
    <2> SUFFICES ASSUME NEW y \in Client, NEW g, clients'[y] = g, g # NoHandle
                 PROVE  Live(g)' /\ slots'[g[1]].target = y /\ Owned(g)'
        BY DEF OwnerInv
    <2>1. Live(g) /\ slots[g[1]].target = y /\ Owned(g)
        BY <1>2 DEF OwnerInv
    <2> QED
        BY <1>2, <1>3, <1>5, <2>1, OwnedWhileServing
<1> QED
    BY <1>1, <1>2, <1>3, <1>5, <1>6, ServiceMovesHandles

LEMMA DestroyHandles ==
    ASSUME BufferPart, HandlePart, DestroyEffect
    PROVE  HandlePart'
<1> USE DEF HandlePart
<1>1. PICK h : h = service.command.handle
    OBVIOUS
<1>2. /\ service.at = "destroy" /\ service'.at = "receive" /\ service'.command.op = "none"
      /\ Frees(h) /\ service.command.op = "close"
      /\ UNCHANGED <<request, signaled, queue, clients, counter, pc, mine, known, closed>>
    BY <1>1, ReceivingIs, Handles DEF DestroyEffect, Frees, BufferPart, Agreement
<1>3. /\ \A s \in Slot : slots'[s].set => slots[s].set /\ slots'[s] = slots[s]
      /\ \A g : Old(g) /\ Valid(g)' => Valid(g) /\ g # h
      /\ \A g : Live(g) /\ g # h => Live(g)' /\ slots'[g[1]].target = slots[g[1]].target
      /\ \A g : Opening(g) /\ g # h => Opening(g)'
    BY <1>2, HandlesFreed
<1>4. Gone(h)
    BY <1>1, <1>2 DEF CloseInv
<1>5. \A g : Live(g) => Live(g)' /\ slots'[g[1]].target = slots[g[1]].target
    BY <1>3, <1>4 DEF Live, Gone
<1>6. \A g : (Closes(g) <=> g = h) /\ ~Closes(g)' /\ (Old(g)' <=> Old(g))
    BY <1>1, <1>2 DEF Closes, Old
<1>7. \A c \in Core, b \in Buffer : \A g \in HandleType : Opens(c, b, g)' => Opens(c, b, g)
    BY <1>2 DEF Opens, AtQueue, AtService
<1>8. SlotInv'
    <2>1. \A t \in Thread : pc[t] = "claim" => mine[t].slot \in Slot
        BY DEF BufferPart, OwnCommands
    <2> QED
        BY <1>2, <1>3, <1>6, <2>1 DEF SlotInv
<1>9. OpensInv'
    BY <1>2, <1>6, <1>7, OpensStay
<1>10. ProgressInv'
    <2>1. \A t \in Thread : pc[t] \in Forwarding /\ mine[t].command.op = "open" =>
              Opening(mine[t].command.handle)'
        <3> SUFFICES ASSUME NEW t \in Thread, pc[t] \in Forwarding, mine[t].command.op = "open"
                     PROVE  Opening(mine[t].command.handle)'
            OBVIOUS
        <3>1. pc[t] \in InHand
            BY DEF Forwarding, InHand
        <3>2. mine[t].command.handle # h
            BY <1>6, <3>1, ForwardedOpens, Requests DEF OpensInv
        <3> QED
            BY <1>2, <1>3, <3>2 DEF ProgressInv
    <2>2. \A i \in 1..Len(queue) : queue[i].op = "open" => Opening(queue[i].handle)'
        <3> SUFFICES ASSUME NEW i \in 1..Len(queue), queue[i].op = "open"
                     PROVE  Opening(queue[i].handle)'
            OBVIOUS
        <3>1. Opens(queue[i].core, queue[i].buffer, queue[i].handle)
            BY DEF Opens, AtQueue
        <3>2. queue[i].handle # h
            BY <1>6, <3>1, Requests DEF OpensInv
        <3> QED
            BY <1>2, <1>3, <3>2 DEF ProgressInv
    <2>3. \A c \in Core, b \in Buffer : request[c][b].op = "open" /\ b \in signaled[c] =>
              request[c][b].result = Error \/ Live(request[c][b].result)'
        BY <1>2, <1>5 DEF ProgressInv
    <2> QED
        BY <1>2, <2>1, <2>2, <2>3 DEF ProgressInv
<1>11. UseInv'
    <2>1. \A g : Stale(g) => Stale(g)'
        BY <1>2, <1>6 DEF Stale, Gone
    <2>2. ASSUME NEW d, Right(d) PROVE Right(d)'
        <3>1. CASE Live(d.handle) /\ d.target = slots[d.handle[1]].target
            <4>1. d.handle # h
                BY <1>4, <3>1 DEF Live, Gone
            <4> QED
                BY <1>3, <3>1, <4>1 DEF Right
        <3>2. CASE d.op = "ioctl" /\ Stale(d.handle) /\ d.target \in Client
            BY <2>1, <3>2 DEF Right
        <3> QED
            BY <2>2, <3>1, <3>2 DEF Right
    <2> QED
        BY <1>2, <2>2 DEF UseInv
<1>12. CloseInv'
    <2>1. ASSUME NEW c \in Core, NEW b \in Buffer, request[c][b].op = "close", b \in signaled[c]
          PROVE  LET g == request[c][b].handle IN
                 /\ request[c][b].result = Error => Live(g)'
                 /\ request[c][b].result # Error => Gone(g)' /\ ~Valid(g)'
        <3>1. Old(request[c][b].handle)
            BY <2>1 DEF BufferPart, Agreement
        <3> QED
            BY <1>2, <1>3, <1>5, <1>6, <2>1, <3>1 DEF CloseInv, Gone
    <2>2. \A t \in Thread : pc[t] \in InHand /\ mine[t].command.op = "close" =>
              Live(mine[t].command.handle)'
        BY <1>2, <1>5 DEF CloseInv
    <2> QED
        BY <1>2, <2>1, <2>2 DEF CloseInv
<1>13. GameInv'
    <2>1. \A g \in closed : Old(g)
        BY DEF BufferPart, Agreement
    <2> QED
        BY <1>2, <1>3, <1>5, <1>6, <2>1 DEF GameInv
<1>14. OwnerInv'
    <2> SUFFICES ASSUME NEW y \in Client, NEW g, clients'[y] = g, g # NoHandle
                 PROVE  Live(g)' /\ slots'[g[1]].target = y /\ Owned(g)'
        BY DEF OwnerInv
    <2>1. Live(g) /\ slots[g[1]].target = y /\ Owned(g)
        BY <1>2 DEF OwnerInv
    <2> QED
        BY <1>2, <1>5, <2>1, OwnedWhileServing
<1> QED
    BY <1>8, <1>9, <1>10, <1>11, <1>12, <1>13, <1>14

\* A call returns: the game gets the handle it has opened, or gets back the one it
\* could not close, or has closed it.
LEMMA WaitReturnsHandles ==
    ASSUME BufferPart, HandlePart, NEW t \in Thread, WaitReturnsEffect(t), mine[t].buffer \in Buffer
    PROVE  HandlePart'
<1> USE DEF HandlePart
<1>c. PICK c \in Core : c = CoreOf[t]
    BY Constants
<1>b. PICK b \in Buffer : b = mine[t].buffer
    OBVIOUS
<1>r. PICK r : r = request[c][b]
    OBVIOUS
<1>1. /\ pc[t] = "wait" /\ b \in signaled[c] /\ pc'[t] = "idle" /\ OthersStay(t)
      /\ signaled'[c] = signaled[c] \ {b} /\ request'[c][b] = NoRequest
      /\ \A d \in Core : d # c => signaled'[d] = signaled[d] /\ request'[d] = request[d]
      /\ \A a \in Buffer : a # b => request'[c][a] = request[c][a]
      /\ known' = IF r.op = "open" /\ r.result # Error THEN known \cup {r.result}
                  ELSE IF r.op = "close" /\ r.result = Error THEN known \cup {r.handle}
                  ELSE known
      /\ closed' = IF r.op = "close" /\ r.result = Error THEN closed \ {r.handle} ELSE closed
      /\ UNCHANGED <<slots, counter, queue, service, clients>>
    BY <1>c, <1>b, <1>r DEF WaitReturnsEffect
<1>2. r.result \in HandleType /\ r.handle \in HandleType /\ request[c][b] = r /\ ~Underway(c, b)
    BY <1>1, <1>r DEF BufferPart, BufferInv, Types, DriverTypes, RequestType
<1>3. \A d \in Core, a \in Buffer :
          IF d = c /\ a = b THEN request'[d][a].op = "none" /\ a \notin signaled'[d]
          ELSE request'[d][a] = request[d][a] /\ (a \in signaled'[d] <=> a \in signaled[d])
    BY <1>1, Handles
<1>4. \A u \in Thread : pc'[u] \in InHand \cup Forwarding =>
          u # t /\ pc'[u] = pc[u] /\ mine'[u] = mine[u]
    BY <1>1 DEF OthersStay, InHand, Forwarding
<1>5. \A g : /\ (Old(g)' <=> Old(g)) /\ (Valid(g)' <=> Valid(g))
             /\ (Live(g)' <=> Live(g)) /\ (Opening(g)' <=> Opening(g)) /\ (Gone(g)' <=> Gone(g))
             /\ (Closes(g)' <=> Closes(g))
    BY <1>1, HandlesStay DEF Closes
<1>6. \A d \in Core, a \in Buffer : \A g \in HandleType :
          Opens(d, a, g)' => Opens(d, a, g) /\ (d # c \/ a # b)
    <2> TAKE d \in Core, a \in Buffer
    <2> TAKE g \in HandleType
    <2>1. ASSUME NEW u \in Thread, pc'[u] \in Forwarding, CoreOf[u] = d, mine'[u].buffer = a,
                 mine'[u].command.op = "open", mine'[u].command.handle = g
          PROVE  Opens(d, a, g) /\ Underway(d, a)
        BY <1>4, <2>1 DEF Opens, Underway, AtThread, Forwarding, InHand
    <2>2. /\ \A i \in 1..Len(queue) : AtQueue(i, d, a)' => AtQueue(i, d, a) /\ Underway(d, a)
          /\ AtService(d, a)' => AtService(d, a) /\ Underway(d, a)
        BY <1>1 DEF Underway, AtQueue, AtService
    <2> QED
        BY <1>1, <1>2, <1>3, <2>1, <2>2 DEF Opens
\* A handle that the game gets is nobody else's.
<1> DEFINE Alone(g) ==
        /\ \A d \in Core, a \in Buffer : d # c \/ a # b =>
               /\ request[d][a].op = "close" => request[d][a].handle # g
               /\ ~Opens(d, a, g)
        /\ service.command.op = "close" => service.command.handle # g
<1>7. /\ \A h \in known' : h \in known \/ (Live(h) /\ Alone(h))
      /\ \A h \in closed : h \in closed' \/ (Live(h) /\ Alone(h))
      /\ closed' \subseteq closed /\ known' \cap closed' = {}
      /\ known \cup closed \subseteq known' \cup closed'
      /\ \A h : Live(h) /\ Owned(h) => Owned(h)'
    <2>1. CASE r.op = "open" /\ r.result # Error
        <3>1. PICK h \in HandleType : h = r.result
            BY <1>2
        <3>2. known' = known \cup {h} /\ closed' = closed /\ Opens(c, b, h) /\ Live(h)
            BY <1>1, <1>2, <2>1, <3>1 DEF Opens, ProgressInv
        <3>3. h \notin closed /\ Alone(h)
            BY <3>2 DEF OpensInv, Closes
        <3>4. \A g : Owned(g) => Owned(g)'
            BY <1>1, <1>2, <1>3, <2>1, <3>1, <3>2 DEF Owned
        <3> QED
            BY <3>2, <3>3, <3>4 DEF GameInv
    <2>2. CASE r.op = "close" /\ r.result = Error
        <3>1. PICK h \in HandleType : h = r.handle
            BY <1>2
        <3>2. known' = known \cup {h} /\ closed' = closed \ {h} /\ Live(h)
            BY <1>1, <1>2, <2>2, <3>1 DEF CloseInv
        <3>3. \A d \in Core, a \in Buffer : d # c \/ a # b =>
                  /\ request[d][a].op = "close" => request[d][a].handle # h
                  /\ ~Opens(d, a, h)
            BY <1>2, <2>2, <3>1 DEF CloseInv, OpensInv
        <3>4. service.command.op = "close" => service.command.handle # h
            <4>1. CASE service.at = "close"
                BY <1>1, <1>2, <2>2, <3>1, <4>1, ServedIsAlone DEF Serving
            <4>2. CASE service.at # "close"
                BY <3>2, <4>2 DEF CloseInv, Live, Gone
            <4> QED
                BY <4>1, <4>2
        <3>5. \A g : Owned(g) => Owned(g)'
            BY <1>1, <1>2, <1>3, <2>2, <3>1, <3>2 DEF Owned
        <3> QED
            BY <3>2, <3>3, <3>4, <3>5 DEF GameInv
    <2>3. CASE r.op = "close" /\ r.result # Error
        <3>1. PICK h \in HandleType : h = r.handle
            BY <1>2
        <3>2. known' = known /\ closed' = closed /\ Gone(h)
            BY <1>1, <1>2, <2>3, <3>1 DEF CloseInv
        <3>3. \A g : Live(g) => g # h
            BY <3>2 DEF Live, Gone
        <3>4. \A g : g # h /\ Owned(g) => Owned(g)'
            BY <1>1, <1>2, <1>3, <2>3, <3>1, <3>2 DEF Owned
        <3> QED
            BY <3>2, <3>3, <3>4 DEF GameInv
    <2>4. CASE ~(r.op = "open" /\ r.result # Error) /\ r.op # "close"
        <3>1. known' = known /\ closed' = closed
            BY <1>1, <2>4
        <3>2. \A g : Live(g) => g # Error
            BY Constants DEF Live, Old, Error
        <3>3. \A g : g # Error /\ Owned(g) => Owned(g)'
            BY <1>1, <1>2, <1>3, <2>4, <3>1 DEF Owned
        <3> QED
            BY <3>1, <3>2, <3>3 DEF GameInv
    <2> QED
        BY <2>1, <2>2, <2>3, <2>4
<1>8. SlotInv' /\ ProgressInv' /\ UseInv'
    <2>1. SlotInv'
        BY <1>1, <1>4, <1>5 DEF SlotInv, InHand
    <2>2. ProgressInv'
        BY <1>1, <1>3, <1>4, <1>5 DEF ProgressInv
    <2>3. \A d : Right(d) => Right(d)'
        BY <1>1, <1>7, RightStays DEF Live, Gone
    <2>4. UseInv'
        BY <1>1, <1>4, <1>7, <2>3 DEF UseInv
    <2> QED
        BY <2>1, <2>2, <2>4
<1>9. OpensInv'
    <2>1. \A d \in Core, a \in Buffer : \A h \in HandleType : Opens(d, a, h)' =>
              h \notin known' /\ h \notin closed'
        BY <1>6, <1>7 DEF OpensInv
    <2>2. \A d \in Core, a \in Buffer : request'[d][a].op = "close" =>
              request[d][a].op = "close" /\ request'[d][a] = request[d][a]
        BY <1>3
    <2> QED
        BY <1>5, <1>6, <2>1, <2>2 DEF OpensInv
<1>10. CloseInv'
    <2>1. \A d \in Core, a \in Buffer : request'[d][a].op = "close" =>
              /\ d # c \/ a # b
              /\ request[d][a].op = "close" /\ request'[d][a] = request[d][a]
              /\ (a \in signaled'[d] => a \in signaled[d])
        BY <1>3
    <2>2. \A d \in Core, a \in Buffer : request'[d][a].op = "close" =>
              request'[d][a].handle \notin known' /\ request'[d][a].handle \in closed'
        BY <1>7, <2>1 DEF CloseInv
    <2>3. service.command.op = "close" =>
              service.command.handle \notin known' /\ service.command.handle \in closed'
        BY <1>7 DEF CloseInv
    <2> HIDE DEF Alone
    <2>4. \A d \in Core, a \in Buffer : request'[d][a].op = "close" =>
              LET h == request'[d][a].handle IN
              /\ a \in signaled'[d] /\ request'[d][a].result = Error => Live(h)
              /\ a \in signaled'[d] /\ request'[d][a].result # Error =>
                     Gone(h) /\ (Valid(h) => Closes(h))
        BY <2>1 DEF CloseInv
    <2>5. \A d, e \in Core, a, x \in Buffer :
              request'[d][a].op = "close" /\ request'[e][x].op = "close"
              /\ request'[d][a].handle = request'[e][x].handle => d = e /\ a = x
        BY <2>1 DEF CloseInv
    <2> QED
        BY <1>1, <1>4, <1>5, <2>2, <2>3, <2>4, <2>5 DEF CloseInv
<1>11. GameInv'
    BY <1>5, <1>7 DEF GameInv
<1>12. OwnerInv'
    BY <1>1, <1>7, OwnersStay
<1> QED
    BY <1>8, <1>9, <1>10, <1>11, <1>12

\* The threads that open devices are all on one core.
OneOpenerCore == \A t, u \in Opener : CoreOf[t] = CoreOf[u]

\* A slot is claimed: its handle is new.
LEMMA ClaimHandles ==
    ASSUME OneOpenerCore, BufferPart, HandlePart, NEW t \in Thread, ClaimSlotEffect(t)
    PROVE  HandlePart'
<1> USE DEF HandlePart
<1>s. PICK s \in Slot : s = mine[t].slot
    BY DEF ClaimSlotEffect
<1>h. PICK h \in HandleType : h = <<s, counter>>
    BY <1>s DEF ClaimSlotEffect
<1>1. /\ pc[t] = "claim" /\ pc'[t] = "dispatch" /\ OthersStay(t)
      /\ mine'[t].command.op = mine[t].command.op /\ mine'[t].command.handle = h
      /\ mine'[t].buffer = mine[t].buffer
      /\ slots'[s].set /\ slots'[s].check = h
      /\ \A r \in Slot : r # s => slots'[r] = slots[r]
      /\ counter' = counter + 1
      /\ UNCHANGED <<request, signaled, queue, service, clients, known, closed>>
    BY <1>s, <1>h DEF ClaimSlotEffect, KeepsRequest
<1>2. /\ ~slots[s].set /\ t \in Opener /\ pc[t] \in InHand /\ Active(t)
      /\ counter \in Nat \ {0} /\ h[1] = s /\ h[2] = counter /\ h # NoHandle
    BY <1>1, <1>s, <1>h, InHandIsActive, Constants
       DEF SlotInv, InHand, BufferPart, Types, KernelTypes, NoHandle
<1>3. mine[t].command.op = "open"
    BY <1>1, <1>2 DEF BufferPart, Agreement
<1>4. \A u \in Thread : u # t => pc'[u] = pc[u] /\ mine'[u] = mine[u] /\ pc[u] # "claim"
    <2> SUFFICES ASSUME NEW u \in Thread, u # t, pc[u] = "claim" PROVE FALSE
        BY <1>1 DEF OthersStay
    <2>1. u \in Opener /\ Active(u)
        BY InHandIsActive DEF SlotInv, InHand
    <2> QED
        BY <1>2, <2>1 DEF OneOpenerCore, BufferPart, OneRuns
\* The handles that there were are as they were, and the new one is none of them.
<1>5. \A g : Old(g) => Old(g)' /\ g # h
    BY <1>1, <1>2 DEF Old
<1>6. \A g : g # h /\ Old(g) => (Valid(g)' <=> Valid(g))
    <2> SUFFICES ASSUME NEW g, g # h, Old(g) PROVE Valid(g)' <=> Valid(g)
        OBVIOUS
    <2>1. CASE g[1] = s
        BY <1>1, <1>2, <2>1 DEF Valid
    <2>2. CASE g[1] # s
        BY <1>1, <2>2 DEF Valid, Old
    <2> QED
        BY <2>1, <2>2
<1>7. \A g : Live(g) => Live(g)' /\ slots'[g[1]] = slots[g[1]]
    <2> SUFFICES ASSUME NEW g, Live(g) PROVE Live(g)' /\ slots'[g[1]] = slots[g[1]]
        OBVIOUS
    <2>1. Old(g) /\ Valid(g) /\ g[1] # s /\ g[1] \in Slot
        BY <1>2 DEF Live, Valid, Old
    <2> QED
        BY <1>1, <1>5, <1>6, <2>1 DEF Live
<1>8. \A g : Opening(g) => Opening(g)'
    BY <1>1, <1>5, <1>6 DEF Opening, Gone
<1>9. Old(h)' /\ Valid(h)'
    BY <1>1, <1>2 DEF Old, Valid
<1>10. Gone(h)
    <2>1. \A x \in Client : clients[x] # NoHandle => Old(clients[x])
        BY DEF OwnerInv, ProgressInv, BufferPart, Agreement, Live
    <2> QED
        BY <1>2, <1>5, <2>1 DEF Gone
<1>11. Opening(h)'
    BY <1>1, <1>9, <1>10 DEF Opening, Gone
<1>12. \A g : Closes(g)' <=> Closes(g)
    BY <1>1 DEF Closes
<1>13. \A d \in Core, a \in Buffer : \A g \in HandleType : Opens(d, a, g)' =>
           Opens(d, a, g) \/ (d = CoreOf[t] /\ a = mine[t].buffer /\ g = h)
    <2> TAKE d \in Core, a \in Buffer
    <2> TAKE g \in HandleType
    <2>1. ASSUME NEW u \in Thread, u # t, pc'[u] \in Forwarding, CoreOf[u] = d, mine'[u].buffer = a,
                 mine'[u].command.op = "open", mine'[u].command.handle = g
          PROVE  Opens(d, a, g)
        BY <1>4, <2>1 DEF Opens
    <2> QED
        BY <1>1, <2>1 DEF Opens, AtQueue, AtService
<1>14. /\ h \notin known /\ h \notin closed /\ ~Closes(h)
       /\ \A d \in Core, a \in Buffer : request[d][a].op = "close" =>
              Old(request[d][a].handle) /\ request[d][a].handle # h
    <2>1. service.command.op = "close" => Old(service.command.handle)
        BY Requests, Handles DEF BufferPart, Types, ServiceTypes
    <2>2. /\ \A g \in known \cup closed : Old(g)
          /\ \A d \in Core, a \in Buffer : request[d][a].op = "close" => Old(request[d][a].handle)
        BY DEF BufferPart, Agreement
    <2> QED
        BY <1>5, <2>1, <2>2 DEF Closes
<1>15. \A d \in Core, a \in Buffer : ~Opens(d, a, h)
    BY <1>5 DEF OpensInv
<1>16. SlotInv'
    <2>1. ASSUME NEW r \in Slot, NEW g, slots'[r].set, slots'[r].check = g
          PROVE  Old(g)' /\ g[1] = r
        BY <1>1, <1>2, <1>5, <1>9, <2>1 DEF SlotInv
    <2>2. \A u \in Thread : pc'[u] \in {"open", "claim"} => u \in Opener /\ pc'[u] # "claim"
        BY <1>1, <1>4 DEF SlotInv
    <2> QED
        BY <2>1, <2>2 DEF SlotInv
<1>17. OpensInv'
    <2>1. ASSUME NEW d \in Core, NEW a \in Buffer, NEW g \in HandleType, Opens(d, a, g)'
          PROVE  /\ Old(g)' /\ g \notin known /\ g \notin closed /\ ~Closes(g)
                 /\ \A e \in Core, x \in Buffer : request[e][x].op = "close" => request[e][x].handle # g
        BY <1>5, <1>9, <1>13, <1>14, <2>1 DEF OpensInv
    <2>2. \A d, e \in Core, a, x \in Buffer : \A g \in HandleType :
              Opens(d, a, g)' /\ Opens(e, x, g)' => d = e /\ a = x
        BY <1>13, <1>15 DEF OpensInv
    <2> QED
        BY <1>1, <1>12, <2>1, <2>2 DEF OpensInv
<1>18. ProgressInv'
    <2>1. ASSUME NEW u \in Thread, pc'[u] \in Forwarding, mine'[u].command.op = "open"
          PROVE  Opening(mine[u].command.handle)'
        <3>1. CASE u = t
            BY <1>1, <1>11, <3>1
        <3>2. CASE u # t
            BY <1>4, <1>8, <2>1, <3>2 DEF ProgressInv
        <3> QED
            BY <3>1, <3>2
    <2>2. \A i \in 1..Len(queue) : queue[i].op = "open" => Opening(queue[i].handle)'
        BY <1>1, <1>8 DEF ProgressInv
    <2>3. service.at \in {"open", "refuse"} => Opening(service.command.handle)'
        BY <1>1, <1>8 DEF ProgressInv
    <2>4. service.at = "assign" => Valid(service.command.handle)'
        BY <1>1, <1>5, <1>6 DEF ProgressInv, BufferPart, Agreement
    <2>5. /\ service.at \in {"reply", "respond"} /\ service.command.op = "open" =>
                 service.result = Error
                 \/ (service.result = service.command.handle /\ Live(service.command.handle)')
          /\ \A c \in Core, b \in Buffer : request[c][b].op = "open" /\ b \in signaled[c] =>
                 request[c][b].result = Error \/ Live(request[c][b].result)'
        BY <1>1, <1>7 DEF ProgressInv
    <2>6. service.at = "assign" =>
              \A x \in Client : clients[x] = service.command.handle <=> x = service.client
        BY DEF ProgressInv
    <2> QED
        BY <1>1, <2>1, <2>2, <2>3, <2>4, <2>5, <2>6 DEF ProgressInv
<1>19. UseInv'
    <2>1. ASSUME NEW d, Right(d) PROVE Right(d)'
        <3>1. CASE Live(d.handle) /\ d.target = slots[d.handle[1]].target
            BY <1>7, <3>1 DEF Right
        <3>2. CASE d.op = "ioctl" /\ Stale(d.handle) /\ d.target \in Client
            BY <1>1, <1>5, <3>2 DEF Right, Stale, Gone
        <3> QED
            BY <2>1, <3>1, <3>2 DEF Right
    <2>2. ASSUME NEW u \in Thread, pc'[u] \in Forwarding, mine'[u].command.op # "open"
          PROVE  /\ mine'[u].command.handle \in known \cup closed
                 /\ pc'[u] = "send" => Right(mine[u].command)'
        <3>1. u # t /\ pc[u] = pc'[u] /\ mine'[u] = mine[u]
            BY <1>1, <1>3, <1>4, <2>2
        <3> QED
            BY <2>1, <2>2, <3>1 DEF UseInv
    <2>3. \A i \in 1..Len(queue) : queue[i].op # "open" => Right(queue[i])'
        BY <1>1, <2>1 DEF UseInv
    <2>4. service.at \in {"ioctl", "close"} => Right(service.command)'
        BY <1>1, <2>1 DEF UseInv
    <2> QED
        BY <1>1, <2>2, <2>3, <2>4 DEF UseInv
<1>20. CloseInv'
    <2>1. \A c \in Core, b \in Buffer : request[c][b].op = "close" =>
              LET g == request[c][b].handle IN
              /\ b \in signaled[c] /\ request[c][b].result = Error => Live(g)'
              /\ b \in signaled[c] /\ request[c][b].result # Error =>
                     Gone(g)' /\ (Valid(g)' => Closes(g))
        BY <1>1, <1>5, <1>6, <1>7, <1>14 DEF CloseInv, Gone
    <2>2. \A u \in Thread : pc'[u] \in InHand /\ mine'[u].command.op = "close" =>
              Live(mine[u].command.handle)'
        BY <1>1, <1>3, <1>4, <1>7 DEF CloseInv
    <2>3. service.command.op = "close" =>
              LET d == service.command g == d.handle IN
              /\ g \notin known /\ g \in closed /\ service.result = Ok
              /\ d.target \in Client /\ (Valid(g)' => slots'[g[1]].target = d.target)
              /\ service.at # "close" => Gone(g)'
        <3>1. PICK g : g = service.command.handle
            OBVIOUS
        <3>2. service.command.op = "close" => Old(g) /\ g # h
            BY <1>5, <3>1, Requests, Handles DEF BufferPart, Types, ServiceTypes
        <3>3. Old(g) /\ Valid(g) => g[1] # s /\ g[1] \in Slot
            BY <1>2 DEF Valid, Old
        <3>4. Gone(g)' <=> Gone(g)
            BY <1>1 DEF Gone
        <3>5. Old(g) /\ g # h /\ Valid(g)' => Valid(g) /\ slots'[g[1]] = slots[g[1]]
            BY <1>1, <1>6, <3>3
        <3> QED
            BY <1>1, <3>1, <3>2, <3>4, <3>5 DEF CloseInv
    <2> QED
        BY <1>1, <1>12, <2>1, <2>2, <2>3 DEF CloseInv
<1>21. GameInv'
    <2>1. \A g \in closed : Old(g)
        BY DEF BufferPart, Agreement
    <2> QED
        BY <1>1, <1>5, <1>6, <1>7, <1>12, <2>1 DEF GameInv, Gone
<1>22. OwnerInv'
    <2> SUFFICES ASSUME NEW x \in Client, NEW g, clients'[x] = g, g # NoHandle,
                        ~(service.at = "assign" /\ service.client = x)
                 PROVE  Live(g)' /\ slots'[g[1]].target = x /\ Owned(g)'
        BY <1>1 DEF OwnerInv
    <2>1. Live(g) /\ slots[g[1]].target = x /\ Owned(g)
        BY <1>1 DEF OwnerInv
    <2>2. Owned(g)'
        BY <1>1, <2>1 DEF Owned
    <2> QED
        BY <1>7, <2>1, <2>2
<1> QED
    BY <1>16, <1>17, <1>18, <1>19, <1>20, <1>21, <1>22

LEMMA HandlePartInit == Init => HandlePart
<1> SUFFICES ASSUME Init PROVE HandlePart
    OBVIOUS
<1>1. /\ pc = [t \in Thread |-> "idle"] /\ queue = <<>> /\ service = Receiving
      /\ clients = [x \in Client |-> NoHandle] /\ slots = [s \in Slot |-> FreeSlot]
      /\ request = [c \in Core |-> [b \in Buffer |-> NoRequest]]
      /\ known = {} /\ closed = {}
    BY DEF Init
<1>2. /\ \A t \in Thread : pc[t] = "idle"
      /\ Len(queue) = 0
      /\ service.at = "receive" /\ service.command.op = "none"
      /\ \A c \in Core, b \in Buffer : request[c][b].op = "none"
      /\ \A s \in Slot : slots[s].set = FALSE
      /\ \A x \in Client : clients[x] = NoHandle
    BY <1>1, ReceivingIs, Handles DEF FreeSlot
<1>3. \A c \in Core, b \in Buffer : \A h \in HandleType : ~Opens(c, b, h)
    BY <1>2 DEF Opens, Forwarding, AtService, Serving
<1>4. SlotInv /\ OpensInv /\ OwnerInv /\ GameInv
    BY <1>1, <1>2, <1>3 DEF SlotInv, OpensInv, OwnerInv, GameInv
<1>5. ProgressInv /\ UseInv /\ CloseInv
    BY <1>1, <1>2 DEF ProgressInv, UseInv, CloseInv, Forwarding, InHand
<1> QED
    BY <1>4, <1>5 DEF HandlePart

LEMMA HandlePartStays ==
    ASSUME OneOpenerCore, BufferPart, BufferPart', HandlePart, [Next]_vars
    PROVE  HandlePart'
<1>t. Types /\ OwnCommands /\ Agreement /\ ReplyInv
    BY DEF BufferPart
<1>1. ASSUME NEW t \in Thread, Call(t) PROVE HandlePart'
    BY <1>t, <1>1, CallDoes, CallHandles
<1>2. ASSUME NEW t \in Thread, ThreadStep(t) PROVE HandlePart'
    <2>1. CASE FindSlot(t)
        <3>1. FindSlotEffect(t)
            BY <1>t, <2>1, FindSlotDoes
        <3>2. /\ KeepsRequest(t) /\ UNCHANGED <<slots, counter>>
              /\ mine'[t].command.handle = mine[t].command.handle
              /\ \/ pc'[t] = "fail"
                 \/ pc[t] = "open" /\ pc'[t] = "claim" /\ ~slots[mine'[t].slot].set
            BY <3>1 DEF FindSlotEffect
        <3> QED
            BY <3>2, KeepsRequestHandles
    <2>2. CASE ClaimSlot(t)
        BY <1>t, <2>2, ClaimSlotDoes, ClaimHandles
    <2>3. CASE Dispatch(t)
        <3>1. DispatchEffect(t)
            BY <1>t, <2>3, DispatchDoes
        <3> QED
            BY <3>1, KeepsRequestHandles DEF DispatchEffect
    <2>4. CASE SendMessage(t)
        <3>1. SendEffect(t) \/ (KeepsRequest(t) /\ pc'[t] = "fail" /\ UNCHANGED <<slots, counter, mine>>)
            BY <1>t, <2>4, SendMessageDoes
        <3> QED
            BY <3>1, SendHandles, KeepsRequestHandles
    <2>5. CASE Fail(t)
        BY <1>t, <2>5, FailDoes, FailHandles
    <2>6. CASE FailRespond(t)
        BY <1>t, <2>6, FailRespondDoes, FailRespondHandles
    <2>7. CASE FailRelease(t)
        BY <1>t, <2>7, FailReleaseDoes, FailReleaseHandles
    <2>8. CASE WaitReturns(t)
        BY <1>t, <2>8, WaitReturnsDoes, WaitReturnsHandles
    <2> QED
        BY <1>2, <2>1, <2>2, <2>3, <2>4, <2>5, <2>6, <2>7, <2>8 DEF ThreadStep
<1>3. ASSUME NEW c \in Core, IPCThreadCalls(c) PROVE HandlePart'
    BY <1>t, <1>3, IPCThreadCallsDoes, CallbacksHandles
<1>4. CASE ServiceStep
    <2>1. CASE ReceiveMessage
        BY <1>t, <2>1, ReceiveMessageDoes, ReceiveHandles
    <2>2. CASE ServeOpen
        BY <1>t, <2>2, ServeOpenDoes, ServeOpenHandles
    <2>3. CASE ServeClose
        BY <1>t, <2>3, ServeCloseDoes, ServeCloseHandles
    <2>4. CASE ServeIoctl
        BY <1>t, <2>4, ServeIoctlDoes, ServeIoctlHandles
    <2>5. CASE AssignTarget
        BY <1>t, <2>5, AssignTargetDoes, AssignTargetHandles
    <2>6. CASE DestroyHandle
        BY <1>t, <2>6, DestroyHandleDoes, RefuseHandles, DestroyHandles
    <2>7. CASE Reply
        BY <1>t, <2>7, ReplyDoes, ReplyHandles
    <2>8. CASE ReplyRespond
        BY <1>t, <2>8, ReplyRespondDoes, RespondHandles
    <2>9. CASE ReplyRelease
        BY <1>t, <2>9, ReplyReleaseDoes, ServiceReleaseHandles
    <2> QED
        BY <1>4, <2>1, <2>2, <2>3, <2>4, <2>5, <2>6, <2>7, <2>8, <2>9 DEF ServiceStep
<1>5. CASE UNCHANGED vars
    BY <1>5, CallbacksHandles DEF vars, driverVars, kernelVars, serviceVars, guestVars
<1> QED
    BY <1>1, <1>2, <1>3, <1>4, <1>5 DEF Next

\* A thread sends nothing that it has not looked up.
LEMMA DispatchOnly ==
    ASSUME BufferPart, [Next]_vars, NEW t \in Thread, pc[t] = "dispatch", pc'[t] = "send"
    PROVE  Dispatch(t)
<1>1. pc = [u \in Thread |-> pc[u]]
    BY DEF BufferPart, Types, ThreadTypes
<1>2. PICK u \in Thread : Call(u) \/ ThreadStep(u)
    <2>1. ~UNCHANGED pc
        OBVIOUS
    <2>2. ASSUME NEW c \in Core, IPCThreadCalls(c) PROVE FALSE
        BY <2>1, <2>2 DEF IPCThreadCalls, guestVars
    <2>3. ASSUME ServiceStep PROVE FALSE
        BY <2>1, <2>3 DEF ServiceStep, ReceiveMessage, ServeOpen, ServeClose, ServeIoctl, AssignTarget,
                      DestroyHandle, Reply, ReplyRespond, ReplyRelease, guestVars
    <2> QED
        BY <2>1, <2>2, <2>3 DEF Next, vars, guestVars
<1>3. CASE Call(u)
    <2>1. PICK to : pc[u] = "idle" /\ pc' = [pc EXCEPT ![u] = to]
        BY <1>3 DEF Call, IOS_Open, IOS_Close, IOS_Ioctl, Submit
    <2> QED
        BY <1>1, <2>1
<1>4. CASE ThreadStep(u)
    <2>1. PICK to : pc' = [pc EXCEPT ![u] = to]
        BY <1>4 DEF ThreadStep, FindSlot, ClaimSlot, Dispatch, SendMessage, Fail, FailRespond,
                    FailRelease, WaitReturns, Goes, Leave
    <2>2. u = t
        BY <1>1, <2>1
    <2> QED
        BY <1>4, <2>2 DEF ThreadStep, FindSlot, ClaimSlot, SendMessage, Fail, FailRespond, FailRelease,
                          WaitReturns
<1> QED
    BY <1>2, <1>3, <1>4

LEMMA HandlePartInv ==
    ASSUME OneOpenerCore
    PROVE  Spec => [](BufferPart /\ HandlePart)
<1>1. Init => BufferPart /\ HandlePart
    BY BufferPartInit, HandlePartInit
<1>2. BufferPart /\ HandlePart /\ [Next]_vars => (BufferPart /\ HandlePart)'
    BY BufferPartStays, HandlePartStays
<1> QED
    BY <1>1, <1>2, PTL DEF Spec

(* The kernel passes a request on under a handle only if the client that   *)
(* the handle opened is there, or the service is closing it and has not    *)
(* destroyed the handle; and the service then finds the client, unless the *)
(* request is an ioctl and the game has called to close the handle.  This  *)
(* holds though the game uses handles it has closed, several threads use   *)
(* one handle and slots are reused: _IPCDispatchToResourceManager compares *)
(* the check value of the slot, and IOS_ResourceReply destroys a handle    *)
(* after the reply to its close.  The scan for a free slot is not locked,  *)
(* so this needs the opens to be made on one core.                         *)
THEOREM RequestsFindTheirClient ==
    ASSUME OneOpenerCore
    PROVE  Spec => RequestsReachTheirClient
<1>1. BufferPart /\ HandlePart => ServedRightly
    BY Constants DEF HandlePart, UseInv, Right, Stale, Gone, Live, ServedRightly
<1>2. ASSUME BufferPart, HandlePart, [Next]_vars, NEW t \in Thread
      PROVE  PassedOnRightly(t)
    <2> SUFFICES ASSUME pc[t] = "dispatch", pc'[t] = "send", mine'[t].command.op # "open"
                 PROVE  LET d == mine'[t].command e == service.command IN
                        /\ d.target # NoClient
                        /\ \/ clients[d.target] = d.handle
                           \/ e.op = "close" /\ e.handle = d.handle /\ e.target = d.target
        BY DEF PassedOnRightly
    <2>1. Dispatch(t)
        BY <1>2, DispatchOnly
    <2>2. DispatchEffect(t)
        BY <1>2, <2>1, DispatchDoes DEF BufferPart
    <2>3. /\ Valid(mine[t].command.handle) /\ mine[t].command.op # "open"
          /\ mine'[t].command.handle = mine[t].command.handle
          /\ mine'[t].command.target = slots[mine[t].command.handle[1]].target
        BY <2>2 DEF DispatchEffect, KeepsRequest
    <2>4. LET x == slots[mine[t].command.handle[1]].target IN
          /\ x \in Client
          /\ \/ Live(mine[t].command.handle)
             \/ Closes(mine[t].command.handle) /\ x = service.command.target
        BY <1>2, <2>3, PassedOn
    <2> QED
        BY <2>3, <2>4, Constants DEF Live, Closes
<1>3. BufferPart /\ HandlePart /\ [Next]_vars => [\A t \in Thread : PassedOnRightly(t)]_vars
    BY <1>2
<1> QED
    BY <1>1, <1>3, HandlePartInv, PTL DEF Spec, RequestsReachTheirClient

(* No client of the service is lost: the handle that opened it is valid    *)
(* and leads to it, and the game has the handle or is in a call with it.   *)
THEOREM ClientsCanBeClosed ==
    ASSUME OneOpenerCore
    PROVE  Spec => []ClientsAreOwned
<1>1. BufferPart /\ HandlePart => ClientsAreOwned
    BY DEF HandlePart, OwnerInv, Owned, Live, ClientsAreOwned
<1> QED
    BY <1>1, HandlePartInv, PTL
-----------------------------------------------------------------------------
(* The order of the callbacks.  OrderPart, on top of BufferPart, says where *)
(* an asynchronous request that was sent is, that these places are in the  *)
(* order of sending, and that every request is called back once.           *)

\* A thread of core c has request p in hand; the service has it; it is the
\* i-th in the queue of the service.
Held(c, p) == \E t \in Thread, b \in Buffer : AtThread(t, c, b) /\ request[c][b].param = p
Serves(c, p) == \E b \in Buffer : AtService(c, b) /\ request[c][b].param = p
Queued(i, c, p) == \E b \in Buffer : AtQueue(i, c, b) /\ request[c][b].param = p

\* Place 0 is the newest callback, before it are the older ones, behind it the
\* service and its queue.
Place(c, p, n) ==
    /\ p # NoParam
    /\ \/ \E i \in 1..Len(callbacks[c]) :
              n = i - Len(callbacks[c]) /\ callbacks[c][i].ok /\ callbacks[c][i].param = p
       \/ n = 1 /\ Serves(c, p)
       \/ \E i \in 1..Len(queue) : n = i + 1 /\ Queued(i, c, p)

SentInOrder(c) ==
    /\ \A i \in 1..Len(order[c]) : \E n \in Int : Place(c, order[c][i], n)
    /\ \A p \in Params, n \in Int : Place(c, p, n) => Sent(c, p)
    /\ \A i, j \in 1..Len(order[c]), n, k \in Int :
           Place(c, order[c][i], n) /\ Place(c, order[c][j], k) => (i < j <=> n < k)

HeldIsNew(c) ==
    \A p \in Params : Held(c, p) /\ p # NoParam => ~Sent(c, p) /\ ~Called(c, p)

CalledOnce(c) ==
    /\ \A i, j \in 1..Len(callbacks[c]) : callbacks[c][i].param = callbacks[c][j].param => i = j
    /\ \A i \in 1..Len(callbacks[c]) : ~callbacks[c][i].ok => ~Sent(c, callbacks[c][i].param)

OrderTypes ==
    /\ order \in [Core -> Seq(Params)]
    /\ \A c \in Core, b \in Buffer : request[c][b].param \in Param[c] \cup {NoParam}
    /\ \A c \in Core : \A i \in 1..Len(callbacks[c]) :
           callbacks[c][i].param \in Param[c] \ {NoParam}
    /\ service.at \in Serving /\ service.command.op = "ioctl" => service.result = Ok

OrderPart ==
    OrderTypes /\ \A c \in Core : SentInOrder(c) /\ HeldIsNew(c) /\ CalledOnce(c)

\* A core has no more asynchronous requests than the queue of callbacks holds.
FewRequests ==
    \A c \in Core : IsFiniteSet(Param[c]) /\ Cardinality(Param[c] \ {NoParam}) <= CallbackSize
-----------------------------------------------------------------------------
LEMMA ElementsOf ==
    ASSUME NEW S, NEW q \in Seq(S)
    PROVE  Len(q) \in Nat /\ DOMAIN q = 1..Len(q) /\ \A i \in 1..Len(q) : q[i] \in S
OBVIOUS

LEMMA LessThan == \A x, y \in Int : ~(x < y /\ y < x) /\ (x = y => ~(x < y))
OBVIOUS

\* How a place is shown.
PlaceRule ==
    \A c, p, n : p # NoParam =>
        /\ \A i \in 1..Len(callbacks[c]) :
               callbacks[c][i].ok /\ callbacks[c][i].param = p /\ n = i - Len(callbacks[c]) =>
                   Place(c, p, n)
        /\ Serves(c, p) /\ n = 1 => Place(c, p, n)
        /\ \A i \in 1..Len(queue) : Queued(i, c, p) /\ n = i + 1 => Place(c, p, n)

LEMMA PlaceIs == PlaceRule
BY DEF PlaceRule, Place

LEMMA SentIs ==
    ASSUME OrderTypes, NEW c \in Core, NEW p
    PROVE  /\ Sent(c, p) <=> \E i \in 1..Len(order[c]) : order[c][i] = p
           /\ order[c] \in Seq(Params) /\ Len(order[c]) \in Nat
           /\ \A i \in 1..Len(order[c]) : order[c][i] \in Params
<1>1. order[c] \in Seq(Params)
    BY DEF OrderTypes
<1>2. Len(order[c]) \in Nat /\ DOMAIN order[c] = 1..Len(order[c])
      /\ \A i \in 1..Len(order[c]) : order[c][i] \in Params
    BY <1>1
<1> QED
    BY <1>1, <1>2 DEF Sent

LEMMA CallbackTypes ==
    ASSUME Types, NEW c \in Core
    PROVE  /\ Len(callbacks[c]) \in Nat /\ Len(queue) \in Nat
           /\ \A i \in 1..Len(callbacks[c]) : callbacks[c][i] \in [param : Params, ok : BOOLEAN]
           /\ \A i \in 1..Len(callbacks[c]) : callbacks[c][i].param \in Params
<1>1. callbacks[c] \in Seq([param : Params, ok : BOOLEAN])
    BY DEF Types, DriverTypes
<1>2. Len(callbacks[c]) \in Nat
      /\ \A i \in 1..Len(callbacks[c]) : callbacks[c][i] \in [param : Params, ok : BOOLEAN]
    BY <1>1, ElementsOf
<1>3. Len(queue) \in Nat
    BY DEF Types, ServiceTypes
<1>4. \A x \in [param : Params, ok : BOOLEAN] : x.param \in Params
    OBVIOUS
<1> HIDE DEF Params
<1> QED
    BY <1>2, <1>3, <1>4

\* Places that change but not their order.
LEMMA PlacesShift ==
    ASSUME OrderTypes, NEW c \in Core, SentInOrder(c), order'[c] = order[c], NEW m \in [Int -> Int],
           \A p \in Params, n \in Int : Place(c, p, n)' => Place(c, p, m[n]),
           \A p, q \in Params, n, k \in Int :
               Place(c, p, n)' /\ Place(c, q, k)' /\ n < k => m[n] < m[k],
           \A p \in Params, n \in Int : Place(c, p, n) => \E k \in Int : Place(c, p, k)'
    PROVE  SentInOrder(c)'
<1>0. \A i \in 1..Len(order[c]) : order[c][i] \in Params
    BY SentIs
<1>1. ASSUME NEW i \in 1..Len(order[c])
      PROVE  \E n \in Int : Place(c, order[c][i], n)'
    <2>1. PICK n \in Int : Place(c, order[c][i], n)
        BY DEF SentInOrder
    <2> QED
        BY <1>0, <2>1
<1>2. ASSUME NEW p \in Params, NEW n \in Int, Place(c, p, n)'
      PROVE  Sent(c, p)
    <2>1. m[n] \in Int /\ Place(c, p, m[n])
        BY <1>2
    <2> QED
        BY <2>1 DEF SentInOrder
<1>3. ASSUME NEW i \in 1..Len(order[c]), NEW j \in 1..Len(order[c]), NEW n \in Int, NEW k \in Int,
             Place(c, order[c][i], n)', Place(c, order[c][j], k)'
      PROVE  i < j <=> n < k
    <2>1. /\ m[n] \in Int /\ m[k] \in Int
          /\ Place(c, order[c][i], m[n]) /\ Place(c, order[c][j], m[k])
        BY <1>0, <1>3
    <2>2. i < j <=> m[n] < m[k]
        BY <2>1 DEF SentInOrder
    <2>3. (n < k => m[n] < m[k]) /\ (k < n => m[k] < m[n])
        BY <1>0, <1>3
    <2>4. n < k \/ k < n \/ m[n] = m[k]
        OBVIOUS
    <2>5. ~(m[n] < m[k] /\ m[k] < m[n]) /\ (m[n] = m[k] => ~(m[n] < m[k]))
        BY Zenon, <2>1, LessThan
    <2>6. ~(n < k /\ k < n)
        OBVIOUS
    <2> QED
        BY Zenon, <2>2, <2>3, <2>4, <2>5, <2>6
<1>4. \A p : Sent(c, p)' <=> Sent(c, p)
    BY DEF Sent
<1> QED
    BY <1>1, <1>2, <1>3, <1>4 DEF SentInOrder

LEMMA PlacesSame ==
    ASSUME OrderTypes, NEW c \in Core, SentInOrder(c), order'[c] = order[c],
           \A p \in Params, n \in Int : Place(c, p, n)' <=> Place(c, p, n)
    PROVE  SentInOrder(c)'
<1> DEFINE m == [n \in Int |-> n]
<1>1. m \in [Int -> Int] /\ \A n \in Int : m[n] = n
    OBVIOUS
<1> HIDE DEF m
<1>2. /\ \A p \in Params, n \in Int : Place(c, p, n)' => Place(c, p, m[n])
      /\ \A p, q \in Params, n, k \in Int :
             Place(c, p, n)' /\ Place(c, q, k)' /\ n < k => m[n] < m[k]
      /\ \A p \in Params, n \in Int : Place(c, p, n) => \E k \in Int : Place(c, p, k)'
    BY <1>1
<1> QED
    BY <1>1, <1>2, PlacesShift

\* A request has one place.
LEMMA OnlyPlace ==
    ASSUME OrderTypes, NEW c \in Core, SentInOrder(c), NEW p \in Params,
           NEW n \in Int, Place(c, p, n), NEW k \in Int, Place(c, p, k)
    PROVE  n = k
<1>1. PICK i \in 1..Len(order[c]) : order[c][i] = p
    BY SentIs DEF SentInOrder
<1>2. (i < i <=> n < k) /\ (i < i <=> k < n)
    BY <1>1 DEF SentInOrder
<1>3. i \in Int
    BY SentIs
<1> QED
    BY <1>2, <1>3

\* A step that moves nothing on one core.
LEMMA QuietCore ==
    ASSUME OrderPart, NEW c \in Core, order'[c] = order[c], callbacks'[c] = callbacks[c],
           \A p \in Params, n \in Int : Place(c, p, n)' <=> Place(c, p, n),
           \A p \in Params : p # NoParam /\ Held(c, p)' =>
               Held(c, p) \/ (~Sent(c, p) /\ ~Called(c, p))
    PROVE  SentInOrder(c)' /\ HeldIsNew(c)' /\ CalledOnce(c)'
<1>1. SentInOrder(c)'
    BY PlacesSame DEF OrderPart
<1>2. \A p : (Sent(c, p)' <=> Sent(c, p)) /\ (Called(c, p)' <=> Called(c, p))
    BY DEF Sent, Called
<1>3. HeldIsNew(c)'
    BY <1>2 DEF OrderPart, HeldIsNew
<1>4. CalledOnce(c)'
    BY <1>2 DEF OrderPart, CalledOnce
<1> QED
    BY <1>1, <1>3, <1>4

\* What a step does to the requests with the service and in its queue.
LEMMA SamePlaces ==
    ASSUME NEW c \in Core, callbacks'[c] = callbacks[c], Len(queue') = Len(queue),
           \A p \in Params : p # NoParam =>
               /\ Serves(c, p)' <=> Serves(c, p)
               /\ \A i \in 1..Len(queue) : Queued(i, c, p)' <=> Queued(i, c, p)
    PROVE  \A p \in Params, n \in Int : Place(c, p, n)' <=> Place(c, p, n)
BY DEF Place

\* Steps that keep every asynchronous request where it is, or take it out of the
\* hands of a thread.
LEMMA QuietStep ==
    ASSUME OrderPart, UNCHANGED <<order, callbacks, queue>>,
           \A c \in Core, b \in Buffer : request'[c][b].param = request[c][b].param,
           \A c \in Core, b \in Buffer : request[c][b].param # NoParam =>
               /\ AtService(c, b)' <=> AtService(c, b)
               /\ \A t \in Thread : AtThread(t, c, b)' => AtThread(t, c, b),
           service'.at \in Serving /\ service'.command.op = "ioctl" => service'.result = Ok
    PROVE  OrderPart'
<1>1. OrderTypes'
    BY DEF OrderPart, OrderTypes
<1>2. ASSUME NEW c \in Core PROVE SentInOrder(c)' /\ HeldIsNew(c)' /\ CalledOnce(c)'
    <2>1. \A i, b : AtQueue(i, c, b)' <=> AtQueue(i, c, b)
        BY DEF AtQueue
    <2>2. \A p \in Params : p # NoParam =>
              /\ Serves(c, p)' <=> Serves(c, p)
              /\ \A i \in 1..Len(queue) : Queued(i, c, p)' <=> Queued(i, c, p)
              /\ Held(c, p)' => Held(c, p)
        BY <2>1 DEF Serves, Queued, Held
    <2>3. \A p \in Params, n \in Int : Place(c, p, n)' <=> Place(c, p, n)
        BY <2>2, SamePlaces
    <2> QED
        BY <2>2, <2>3, QuietCore
<1> QED
    BY <1>1, <1>2 DEF OrderPart
-----------------------------------------------------------------------------
(* The answer to an asynchronous request finds room.                       *)

\* What is answered has not been called back.
LEMMA AnsweredIsNew ==
    ASSUME BufferPart, OrderPart, NEW c \in Core, NEW b \in Buffer, response[c] = b,
           request[c][b].param # NoParam
    PROVE  ~Called(c, request[c][b].param) /\ request[c][b].param \in Param[c] \ {NoParam}
<1> DEFINE p == request[c][b].param
<1>1. p \in Param[c] \ {NoParam} /\ p \in Params
    BY Constants DEF OrderPart, OrderTypes
<1>2. b # Nobody /\ Types /\ ReplyInv
    BY Constants DEF BufferPart
<1>3. CASE \E t \in Thread : CoreOf[t] = c /\ pc[t] = "respond"
    <2>1. PICK t \in Thread : CoreOf[t] = c /\ pc[t] = "respond"
        BY <1>3
    <2>2. AtThread(t, c, b)
        BY <1>2, <2>1 DEF AtThread, InHand, ReplyInv, ResponsesFindTheirRequest
    <2>3. Held(c, p)
        BY <2>2 DEF Held
    <2> QED
        BY <1>1, <2>3 DEF OrderPart, HeldIsNew
<1>4. CASE service.at = "respond" /\ service.command.core = c
    <2>1. AtService(c, b)
        BY <1>2, <1>4 DEF AtService, Serving, ReplyInv, ResponsesFindTheirRequest
    <2>2. Place(c, p, 1)
        BY <1>1, <2>1 DEF Place, Serves
    <2>3. Sent(c, p) /\ OrderTypes /\ SentInOrder(c)
        BY <1>1, <2>2 DEF OrderPart, SentInOrder
    <2>4. ASSUME NEW i \in 1..Len(callbacks[c]), callbacks[c][i].param = p
          PROVE  FALSE
        <3>1. callbacks[c][i].ok
            BY <2>3, <2>4 DEF OrderPart, CalledOnce
        <3> DEFINE n == i - Len(callbacks[c])
        <3>2. Len(callbacks[c]) \in Nat
            BY <1>2, CallbackTypes
        <3>3. n \in Int /\ n # 1
            BY <3>2
        <3>4. Place(c, p, n)
            BY <1>1, <2>4, <3>1 DEF Place
        <3> HIDE DEF n, p
        <3>5. 1 \in Int
            OBVIOUS
        <3> QED
            BY <1>1, <2>2, <2>3, <3>3, <3>4, <3>5, OnlyPlace
    <2> QED
        BY <1>1, <2>4 DEF Called
<1> QED
    BY <1>2, <1>3, <1>4 DEF ReplyInv

LEMMA RoomForAnswer ==
    ASSUME FewRequests, BufferPart, OrderPart, NEW c \in Core, NEW b \in Buffer, response[c] = b,
           request[c][b].param # NoParam
    PROVE  Len(callbacks[c]) < CallbackSize
<1> DEFINE p == request[c][b].param
           R == Param[c] \ {NoParam}
           S == R \ {p}
           L == Len(callbacks[c])
           f == [i \in 1..L |-> callbacks[c][i].param]
<1>1. p \in R /\ ~Called(c, p)
    BY AnsweredIsNew
<1>2. L \in Nat
    BY CallbackTypes DEF BufferPart
<1>3. IsFiniteSet(R) /\ Cardinality(R) <= CallbackSize
    BY FS_Subset DEF FewRequests
<1>4. f \in [1..L -> S]
    BY <1>1 DEF OrderPart, OrderTypes, Called
<1>5. \A i, j \in 1..L : f[i] = f[j] => i = j
    BY DEF OrderPart, CalledOnce
<1> HIDE DEF p, R, L, f
<1>6. IsFiniteSet(S) /\ Cardinality(S) = Cardinality(R) - 1 /\ Cardinality(R) \in Nat
    BY <1>1, <1>3, FS_RemoveElement, FS_CardinalityType
<1>7. IsFiniteSet(1..L) /\ Cardinality(1..L) = L
    BY <1>2, FS_Interval
<1> HIDE DEF S
<1>8. Cardinality(1..L) <= Cardinality(S)
    <2>1. f \in Injection(1..L, S)
        BY <1>4, <1>5 DEF Injection, IsInjective
    <2> QED
        BY <1>6, <2>1, FS_Injection
<1> QED
    BY <1>2, <1>3, <1>6, <1>7, <1>8, Constants DEF L

LEMMA AnswersFindRoom ==
    ASSUME FewRequests, BufferPart, OrderPart
    PROVE  CallbacksAreKept
<1> SUFFICES ASSUME NEW c \in Core, response[c] # Nobody, request[c][response[c]].param # NoParam
             PROVE  Len(callbacks[c]) < CallbackSize
    BY DEF CallbacksAreKept
<1>1. response[c] \in Buffer
    BY DEF BufferPart, Types, DriverTypes
<1> QED
    BY <1>1, RoomForAnswer
-----------------------------------------------------------------------------
(* The order of sending is the order of calling.                           *)

\* The callbacks up to an ok one are those of the first requests.
LEMMA CallbackIsNth ==
    ASSUME Types, OrderPart, NEW c \in Core, NEW i \in 1..Len(callbacks[c]), callbacks[c][i].ok
    PROVE  LET n == Cardinality({j \in 1..i : callbacks[c][j].ok}) IN
           n <= Len(order[c]) /\ callbacks[c][i].param = order[c][n]
<1> DEFINE L == Len(callbacks[c])
           N == Len(order[c])
           par(j) == callbacks[c][j].param
           Oks == {j \in 1..i : callbacks[c][j].ok}
           f == [j \in Oks |-> CHOOSE m \in 1..N : order[c][m] = par(j)]
<1>0. OrderTypes /\ SentInOrder(c) /\ CalledOnce(c)
    BY DEF OrderPart
<1>1. /\ L \in Nat /\ N \in Nat /\ Len(queue) \in Nat
      /\ \A j \in 1..L : par(j) \in Params /\ par(j) # NoParam
      /\ \A m \in 1..N : order[c][m] \in Params
    BY <1>0, CallbackTypes, SentIs DEF OrderTypes
<1>2. \A j \in 1..L : callbacks[c][j].ok => Place(c, par(j), j - L) /\ j - L \in Int
    BY <1>1 DEF Place
<1>3. \A j \in 1..L : callbacks[c][j].ok => \E m \in 1..N : order[c][m] = par(j)
    <2> SUFFICES ASSUME NEW j \in 1..L, callbacks[c][j].ok
                 PROVE  \E m \in 1..N : order[c][m] = par(j)
        OBVIOUS
    <2>1. Sent(c, par(j))
        BY <1>0, <1>1, <1>2 DEF SentInOrder
    <2> QED
        BY <1>0, <2>1, SentIs
<1>4. \A m, k \in 1..N, x, y \in Int :
          Place(c, order[c][m], x) /\ Place(c, order[c][k], y) => (m < k <=> x < y)
    BY <1>0 DEF SentInOrder
\* A request whose place is with the callbacks.
<1>5. \A p \in Params, n \in Int : Place(c, p, n) /\ n <= 0 =>
          \E j \in 1..L : n = j - L /\ callbacks[c][j].ok /\ par(j) = p
    BY <1>1 DEF Place
<1>6. \A m \in 1..N : \E n \in Int : Place(c, order[c][m], n)
    BY <1>0 DEF SentInOrder
<1>7. \A m, k \in 1..N : order[c][m] = order[c][k] => m = k
    <2> SUFFICES ASSUME NEW m \in 1..N, NEW k \in 1..N, order[c][m] = order[c][k] PROVE m = k
        OBVIOUS
    <2>1. PICK n \in Int : Place(c, order[c][m], n)
        BY <1>6
    <2>2. (m < k <=> n < n) /\ (k < m <=> n < n)
        BY <1>4, <2>1
    <2> QED
        BY <1>1, <2>2
<1>8. PICK k \in 1..N : order[c][k] = par(i)
    BY <1>3
<1>9. \A p \in Params, x, y \in Int : Place(c, p, x) /\ Place(c, p, y) => x = y
    BY <1>0, OnlyPlace
<1>10. \A j \in Oks : f[j] \in 1..N /\ order[c][f[j]] = par(j)
    <2> SUFFICES ASSUME NEW j \in Oks PROVE f[j] \in 1..N /\ order[c][f[j]] = par(j)
        OBVIOUS
    <2>1. j \in 1..L /\ callbacks[c][j].ok
        BY <1>1
    <2>2. f[j] = CHOOSE m \in 1..N : order[c][m] = par(j)
        OBVIOUS
    <2>3. \E m \in 1..N : order[c][m] = par(j)
        BY <1>3, <2>1
    <2> HIDE DEF f, Oks
    <2> QED
        BY <2>2, <2>3
<1> HIDE DEF f
<1>11. \A j \in Oks : f[j] \in 1..k
    <2> SUFFICES ASSUME NEW j \in Oks PROVE f[j] \in 1..k
        OBVIOUS
    <2>1. j \in 1..L /\ j <= i /\ callbacks[c][j].ok
        BY <1>1
    <2>2. PICK m \in 1..N : m = f[j]
        BY <1>10
    <2>3. /\ Place(c, order[c][m], j - L) /\ j - L \in Int
          /\ Place(c, order[c][k], i - L) /\ i - L \in Int
        BY <1>2, <1>8, <1>10, <2>1, <2>2
    <2>4. k < m <=> i - L < j - L
        BY <1>4, <2>3
    <2> QED
        BY <1>1, <2>1, <2>2, <2>4
<1>12. f \in [Oks -> 1..k]
    BY <1>11 DEF f
<1>13. \A j, m \in Oks : f[j] = f[m] => j = m
    <2> SUFFICES ASSUME NEW j \in Oks, NEW m \in Oks, f[j] = f[m] PROVE j = m
        OBVIOUS
    <2>1. par(j) = par(m)
        BY <1>10
    <2>2. j \in 1..L /\ m \in 1..L
        BY <1>1
    <2> QED
        BY <1>0, <2>1, <2>2 DEF CalledOnce
<1>14. \A m \in 1..k : \E j \in Oks : f[j] = m
    <2> SUFFICES ASSUME NEW m \in 1..k PROVE \E j \in Oks : f[j] = m
        OBVIOUS
    <2>1. m \in 1..N /\ m <= k
        BY <1>1
    <2>2. PICK n \in Int : Place(c, order[c][m], n)
        BY <1>6, <2>1
    <2>3. Place(c, order[c][k], i - L) /\ i - L \in Int
        BY <1>2, <1>8
    <2>4. k < m <=> i - L < n
        BY <1>4, <2>1, <2>2, <2>3
    <2>5. n <= i - L
        BY <1>1, <2>1, <2>3, <2>4
    <2>6. PICK j \in 1..L : n = j - L /\ callbacks[c][j].ok /\ par(j) = order[c][m]
        <3>1. n <= 0
            BY <1>1, <2>5
        <3> QED
            BY <1>1, <1>5, <2>1, <2>2, <3>1
    <2>7. j \in Oks
        BY <1>1, <2>5, <2>6
    <2>8. f[j] = m
        BY <1>7, <1>10, <2>1, <2>6, <2>7
    <2> QED
        BY <2>7, <2>8
<1>15. Cardinality(Oks) = k
    <2>1. f \in Bijection(Oks, 1..k)
        BY <1>12, <1>13, <1>14 DEF Bijection, Injection, Surjection, IsInjective
    <2>2. IsFiniteSet(1..k) /\ Cardinality(1..k) = k
        BY <1>1, FS_Interval
    <2>3. IsFiniteSet(1..i)
        BY <1>1, FS_Interval
    <2>4. IsFiniteSet(Oks)
        BY <2>3, FS_Subset
    <2> QED
        BY <2>1, <2>2, <2>4, FS_Bijection DEF ExistsBijection
<1> QED
    BY <1>1, <1>8, <1>15

LEMMA OrderIsKept ==
    ASSUME BufferPart, OrderPart
    PROVE  CallbacksInOrder
<1>1. ASSUME NEW c \in Core, NEW i \in DOMAIN callbacks[c], callbacks[c][i].ok
      PROVE  LET n == Cardinality({j \in 1..i : callbacks[c][j].ok}) IN
             n <= Len(order[c]) /\ callbacks[c][i].param = order[c][n]
    <2>1. callbacks[c] \in Seq([param : Params, ok : BOOLEAN])
        BY DEF BufferPart, Types, DriverTypes
    <2>2. i \in 1..Len(callbacks[c])
        BY <2>1, ElementsOf
    <2> QED
        BY <1>1, <2>2, CallbackIsNth DEF BufferPart
<1> QED
    BY <1>1 DEF CallbacksInOrder
-----------------------------------------------------------------------------
(* The steps keep the order.  First those that send and answer nothing.    *)

\* A call takes a buffer that no request is in, and a new request.
LEMMA CallOrder ==
    ASSUME BufferPart, OrderPart, NEW t \in Thread, NEW op \in Ops, NEW h \in HandleType,
           NEW p \in Params, NEW to \in InHand, NEW b \in Buffer, CallEffect(t, op, h, p, to, b)
    PROVE  OrderPart'
<1> DEFINE c == CoreOf[t]
<1>1. SubmitEffect(t, op, h, p, to, b) /\ order' = order /\ c \in Core
      /\ (p = NoParam \/ Fresh(c, p))
    BY Constants DEF CallEffect
<1>2. /\ b \in free[c] /\ OthersStay(t)
      /\ request'[c][b] = [op |-> op, handle |-> h, param |-> p, result |-> Ok]
      /\ \A d \in Core : d # c => request'[d] = request[d]
      /\ \A a \in Buffer : a # b => request'[c][a] = request[c][a]
      /\ UNCHANGED <<callbacks, queue, service>>
    BY <1>1 DEF SubmitEffect
<1>3. ~Underway(c, b)
    BY <1>1, <1>2 DEF BufferPart, BufferInv
<1>4. request'[c][b].param = p /\ mine'[t].buffer = b
    BY <1>1, <1>2, CommandSubmitted
<1>5. OrderTypes'
    <2>1. \A d \in Core, a \in Buffer : request'[d][a].param \in Param[d] \cup {NoParam}
        BY <1>1, <1>2, <1>4 DEF OrderPart, OrderTypes, Fresh
    <2> QED
        BY <1>1, <1>2, <2>1 DEF OrderPart, OrderTypes
<1>6. ASSUME NEW d \in Core PROVE SentInOrder(d)' /\ HeldIsNew(d)' /\ CalledOnce(d)'
    <2>1. \A a \in Buffer : /\ AtService(d, a)' <=> AtService(d, a)
                            /\ \A i : AtQueue(i, d, a)' <=> AtQueue(i, d, a)
                            /\ \A u \in Thread : u # t => (AtThread(u, d, a)' <=> AtThread(u, d, a))
        BY <1>2 DEF AtService, AtQueue, AtThread, OthersStay
    <2>2. \A a \in Buffer : Underway(d, a) => request'[d][a] = request[d][a]
        BY <1>2, <1>3
    <2>3. \A q \in Params : q # NoParam =>
              /\ Serves(d, q)' <=> Serves(d, q)
              /\ \A i \in 1..Len(queue) : Queued(i, d, q)' <=> Queued(i, d, q)
        BY <2>1, <2>2 DEF Serves, Queued, Underway
    <2>4. \A q \in Params, n \in Int : Place(d, q, n)' <=> Place(d, q, n)
        BY <1>2, <2>3, SamePlaces
    <2>5. ASSUME NEW q \in Params, q # NoParam, Held(d, q)'
          PROVE  Held(d, q) \/ (~Sent(d, q) /\ ~Called(d, q))
        <3>1. PICK u \in Thread, a \in Buffer : AtThread(u, d, a)' /\ request'[d][a].param = q
            BY <2>5 DEF Held
        <3>2. CASE u = t
            <4>1. d = c /\ a = b
                BY <1>4, <3>1, <3>2 DEF AtThread
            <4> QED
                BY <1>1, <1>4, <2>5, <3>1, <4>1 DEF Fresh
        <3>3. CASE u # t
            <4>1. AtThread(u, d, a)
                BY <2>1, <3>1, <3>3
            <4> QED
                BY <2>2, <3>1, <4>1 DEF Held, Underway
        <3> QED
            BY <3>2, <3>3
    <2> QED
        BY <1>1, <1>2, <2>4, <2>5, QuietCore
<1> QED
    BY <1>5, <1>6 DEF OrderPart

LEMMA KeepsRequestOrder ==
    ASSUME OrderPart, order' = order, NEW t \in Thread, KeepsRequest(t)
    PROVE  OrderPart'
<1>1. /\ pc[t] \in InHand /\ OthersStay(t) /\ mine'[t].buffer = mine[t].buffer
      /\ UNCHANGED <<request, callbacks, queue, service>>
    BY DEF KeepsRequest
<1>2. \A c \in Core, b \in Buffer :
          /\ AtService(c, b)' <=> AtService(c, b)
          /\ \A u \in Thread : AtThread(u, c, b)' => AtThread(u, c, b)
    BY <1>1 DEF AtService, AtThread, OthersStay
<1>3. service'.at \in Serving /\ service'.command.op = "ioctl" => service'.result = Ok
    BY <1>1 DEF OrderPart, OrderTypes
<1> QED
    BY <1>1, <1>2, <1>3, QuietStep

\* The beginning of an answer changes the result only.
LEMMA ReplyParams ==
    ASSUME NEW who, NEW d \in CommandType, NEW r, ReplyEffect(who, d, r), Types
    PROVE  \A c \in Core, b \in Buffer : request'[c][b].param = request[c][b].param
<1>1. d.core \in Core /\ d.buffer \in Buffer
    BY DEF CommandType
<1>2. request[d.core][d.buffer] \in RequestType
    BY <1>1 DEF Types, DriverTypes
<1>3. request'[d.core][d.buffer].param = request[d.core][d.buffer].param
    BY <1>2 DEF ReplyEffect, RequestType
<1> QED
    BY <1>3 DEF ReplyEffect

LEMMA FailOrder ==
    ASSUME BufferPart, OrderPart, order' = order, NEW t \in Thread, FailEffect(t)
    PROVE  OrderPart'
<1>1. /\ pc[t] = "fail" /\ \A u \in Thread : u # t => pc'[u] = pc[u]
      /\ ReplyEffect(t, mine[t].command, Error) /\ UNCHANGED <<service, callbacks, queue, mine>>
    BY DEF FailEffect, ReplyEffect
<1>2. mine[t].command \in CommandType
    BY <1>1, CommandOfThread, InHandIsActive DEF InHand, BufferPart
<1>3. \A c \in Core, b \in Buffer : request'[c][b].param = request[c][b].param
    BY <1>1, <1>2, ReplyParams DEF BufferPart
<1>4. \A c \in Core, b \in Buffer :
          /\ AtService(c, b)' <=> AtService(c, b)
          /\ \A u \in Thread : AtThread(u, c, b)' => AtThread(u, c, b)
    BY <1>1 DEF AtService, AtThread, InHand
<1>5. service'.at \in Serving /\ service'.command.op = "ioctl" => service'.result = Ok
    BY <1>1 DEF OrderPart, OrderTypes
<1> QED
    BY <1>1, <1>3, <1>4, <1>5, QuietStep

LEMMA FailReleaseOrder ==
    ASSUME OrderPart, order' = order, NEW t \in Thread, FailReleaseEffect(t)
    PROVE  OrderPart'
<1>1. /\ OthersStay(t) /\ pc'[t] \in {"idle", "wait"}
      /\ UNCHANGED <<request, service, callbacks, queue>>
    BY DEF FailReleaseEffect, LeaveEffect, ReleaseEffect
<1>2. \A c \in Core, b \in Buffer :
          /\ AtService(c, b)' <=> AtService(c, b)
          /\ \A u \in Thread : AtThread(u, c, b)' => AtThread(u, c, b)
    BY <1>1 DEF AtService, AtThread, InHand, OthersStay
<1>3. service'.at \in Serving /\ service'.command.op = "ioctl" => service'.result = Ok
    BY <1>1 DEF OrderPart, OrderTypes
<1> QED
    BY <1>1, <1>2, <1>3, QuietStep

\* The request that a thread waits for is synchronous.
LEMMA WaitReturnsOrder ==
    ASSUME BufferPart, OrderPart, order' = order, NEW t \in Thread, WaitReturnsEffect(t),
           mine[t].buffer \in Buffer
    PROVE  OrderPart'
<1> DEFINE c == CoreOf[t]
           b == mine[t].buffer
<1>1. /\ pc[t] = "wait" /\ pc'[t] = "idle" /\ OthersStay(t) /\ request'[c][b] = NoRequest
      /\ \A d \in Core : d # c => request'[d] = request[d]
      /\ \A a \in Buffer : a # b => request'[c][a] = request[c][a]
      /\ UNCHANGED <<callbacks, queue, service>>
    BY DEF WaitReturnsEffect
<1>2. request[c][b].param = NoParam /\ c \in Core
    BY <1>1, Constants DEF BufferPart, BufferInv, InHand
<1>3. \A d \in Core, a \in Buffer : request'[d][a].param = request[d][a].param
    BY <1>1, <1>2, Handles
<1>4. \A d \in Core, a \in Buffer :
          /\ AtService(d, a)' <=> AtService(d, a)
          /\ \A u \in Thread : AtThread(u, d, a)' => AtThread(u, d, a)
    BY <1>1 DEF AtService, AtThread, InHand, OthersStay
<1>5. service'.at \in Serving /\ service'.command.op = "ioctl" => service'.result = Ok
    BY <1>1 DEF OrderPart, OrderTypes
<1> QED
    BY <1>1, <1>3, <1>4, <1>5, QuietStep

LEMMA ServiceMovesOrder ==
    ASSUME BufferPart, OrderPart, order' = order, ServiceMoves
    PROVE  OrderPart'
<1>1. /\ service.at \in {"open", "close", "ioctl", "assign", "refuse"}
      /\ service'.at \in {"assign", "refuse", "reply", "stopped"} /\ service'.command = service.command
      /\ service'.at \notin {"reply", "stopped"} => service.at = "open"
      /\ service'.at \in {"reply", "stopped"} => service'.result = service.result
      /\ UNCHANGED <<request, callbacks, queue, pc, mine>>
    BY DEF ServiceMoves
<1>2. \A c \in Core, b \in Buffer :
          /\ AtService(c, b)' <=> AtService(c, b)
          /\ \A u \in Thread : AtThread(u, c, b)' => AtThread(u, c, b)
    BY <1>1 DEF AtService, AtThread, Serving
<1>3. service'.at \in Serving /\ service'.command.op = "ioctl" => service'.result = Ok
    BY <1>1 DEF OrderPart, OrderTypes, BufferPart, Agreement, Ops, Serving
<1> QED
    BY <1>1, <1>2, <1>3, QuietStep

LEMMA ReplyOrder ==
    ASSUME BufferPart, OrderPart, order' = order, ServiceReplyEffect
    PROVE  OrderPart'
<1>1. /\ service.at = "reply" /\ service'.at = "respond" /\ service'.command = service.command
      /\ service'.result = service.result
      /\ ReplyEffect(Service, service.command, service.result)
      /\ UNCHANGED <<callbacks, queue, pc, mine>>
    BY DEF ServiceReplyEffect, ReplyEffect
<1>2. service.command \in CommandType
    BY <1>1, CommandOfService DEF BufferPart
<1>3. \A c \in Core, b \in Buffer : request'[c][b].param = request[c][b].param
    BY <1>1, <1>2, ReplyParams DEF BufferPart
<1>4. \A c \in Core, b \in Buffer :
          /\ AtService(c, b)' <=> AtService(c, b)
          /\ \A u \in Thread : AtThread(u, c, b)' => AtThread(u, c, b)
    BY <1>1 DEF AtService, AtThread, Serving
<1>5. service'.at \in Serving /\ service'.command.op = "ioctl" => service'.result = Ok
    BY <1>1 DEF OrderPart, OrderTypes, Serving
<1> QED
    BY <1>1, <1>3, <1>4, <1>5, QuietStep

\* The service has answered.
LEMMA ServiceRestsOrder ==
    ASSUME OrderPart, order' = order, service.at \notin Serving, service'.at \notin Serving,
           UNCHANGED <<request, callbacks, queue, pc, mine>>
    PROVE  OrderPart'
<1>1. \A c \in Core, b \in Buffer :
          /\ AtService(c, b)' <=> AtService(c, b)
          /\ \A u \in Thread : AtThread(u, c, b)' => AtThread(u, c, b)
    BY DEF AtService, AtThread
<1> QED
    BY <1>1, QuietStep
-----------------------------------------------------------------------------
(* The answers.                                                            *)

\* A callback is put behind the others.
NewCallback(c, p, ok) ==
    /\ Len(callbacks'[c]) = Len(callbacks[c]) + 1
    /\ \A i \in 1..Len(callbacks[c]) : callbacks'[c][i] = callbacks[c][i]
    /\ callbacks'[c][Len(callbacks[c]) + 1] = [param |-> p, ok |-> ok]

LEMMA AppendIs ==
    ASSUME NEW S, NEW q \in Seq(S), NEW x \in S
    PROVE  /\ Len(Append(q, x)) = Len(q) + 1
           /\ \A i \in 1..Len(q) : Append(q, x)[i] = q[i]
           /\ Append(q, x)[Len(q) + 1] = x
OBVIOUS

LEMMA ResponseCallbacks ==
    ASSUME Types, NEW c \in Core, NEW b \in Buffer, response[c] = b, IPCDriver_HandleResponse(c)
    PROVE  LET r == request[c][b] IN
           /\ \A d \in Core : d # c => callbacks'[d] = callbacks[d]
           /\ r.param = NoParam => callbacks' = callbacks
           /\ r.param # NoParam /\ Len(callbacks[c]) < CallbackSize =>
                  NewCallback(c, r.param, r.result # Error)
<1> DEFINE r == request[c][b]
           msg == [param |-> r.param, ok |-> r.result # Error]
           S == [param : Params, ok : BOOLEAN]
<1>1. r \in RequestType /\ callbacks \in [Core -> Seq(S)]
    BY DEF Types, DriverTypes
<1>2. msg \in S
    BY <1>1 DEF RequestType
<1>3. r.param = NoParam => callbacks' = callbacks
    BY DEF IPCDriver_HandleResponse
<1>4. r.param # NoParam =>
          callbacks' = [callbacks EXCEPT ![c] = IF Len(@) < CallbackSize THEN Append(@, msg) ELSE @]
    BY DEF IPCDriver_HandleResponse
<1> HIDE DEF S, msg, r
<1>5. \A d \in Core : d # c => callbacks'[d] = callbacks[d]
    BY <1>1, <1>3, <1>4
<1>6. ASSUME r.param # NoParam, Len(callbacks[c]) < CallbackSize
      PROVE  NewCallback(c, r.param, r.result # Error)
    <2>1. callbacks'[c] = Append(callbacks[c], msg)
        BY <1>1, <1>4, <1>6
    <2> QED
        BY <1>1, <1>2, <2>1, AppendIs DEF NewCallback, msg
<1> QED
    BY <1>3, <1>5, <1>6 DEF r

\* What is called when a callback is new.
LEMMA CalledThen ==
    ASSUME Types, NEW c \in Core, NEW p, NEW ok \in BOOLEAN, NewCallback(c, p, ok)
    PROVE  /\ \A q : Called(c, q)' <=> Called(c, q) \/ q = p
           /\ Len(callbacks[c]) \in Nat /\ Len(callbacks'[c]) = Len(callbacks[c]) + 1
           /\ \A i \in 1..Len(callbacks[c]) : callbacks'[c][i] = callbacks[c][i]
           /\ callbacks'[c][Len(callbacks[c]) + 1].param = p
           /\ callbacks'[c][Len(callbacks[c]) + 1].ok = ok
           /\ \A i \in 1..Len(callbacks'[c]) : i \in 1..Len(callbacks[c]) \/ i = Len(callbacks[c]) + 1
<1>1. Len(callbacks[c]) \in Nat
    BY CallbackTypes
<1>2. /\ callbacks'[c][Len(callbacks[c]) + 1].param = p
      /\ callbacks'[c][Len(callbacks[c]) + 1].ok = ok
    BY DEF NewCallback
<1>3. \A i \in 1..Len(callbacks'[c]) : i \in 1..Len(callbacks[c]) \/ i = Len(callbacks[c]) + 1
    BY <1>1 DEF NewCallback
<1>4. \A i \in 1..Len(callbacks[c]) : i \in 1..Len(callbacks'[c])
    BY <1>1 DEF NewCallback
<1>5. Len(callbacks[c]) + 1 \in 1..Len(callbacks'[c])
    BY <1>1 DEF NewCallback
<1> QED
    BY <1>1, <1>2, <1>3, <1>4, <1>5 DEF NewCallback, Called

LEMMA NewIsCalledOnce ==
    ASSUME Types, NEW c \in Core, NEW p, NEW ok \in BOOLEAN, NewCallback(c, p, ok),
           CalledOnce(c), ~Called(c, p), ok \/ ~Sent(c, p), order'[c] = order[c]
    PROVE  CalledOnce(c)'
<1> DEFINE L == Len(callbacks[c])
<1>1. \A q : Sent(c, q)' <=> Sent(c, q)
    BY DEF Sent
<1>2. \A i \in 1..L : callbacks[c][i].param # p /\ callbacks'[c][i] = callbacks[c][i]
    BY CalledThen DEF Called
<1>3. /\ callbacks'[c][L + 1].param = p /\ callbacks'[c][L + 1].ok = ok
      /\ \A i \in 1..Len(callbacks'[c]) : i \in 1..L \/ i = L + 1
    BY CalledThen
<1>4. \A i, j \in 1..Len(callbacks'[c]) : callbacks'[c][i].param = callbacks'[c][j].param => i = j
    BY <1>2, <1>3 DEF CalledOnce
<1>5. \A i \in 1..Len(callbacks'[c]) : ~callbacks'[c][i].ok => ~Sent(c, callbacks'[c][i].param)
    BY <1>2, <1>3 DEF CalledOnce
<1> QED
    BY <1>1, <1>4, <1>5 DEF CalledOnce

\* The types of a callback.
LEMMA NewCallbackTypes ==
    ASSUME Types, NEW c \in Core, NEW p \in Param[c] \ {NoParam}, NEW ok \in BOOLEAN,
           NewCallback(c, p, ok), OrderTypes,
           \A d \in Core : d # c => callbacks'[d] = callbacks[d]
    PROVE  \A d \in Core : \A i \in 1..Len(callbacks'[d]) :
               callbacks'[d][i].param \in Param[d] \ {NoParam}
<1> TAKE d \in Core
<1> TAKE i \in 1..Len(callbacks'[d])
<1>1. CASE d = c
    <2>1. i \in 1..Len(callbacks[c]) \/ i = Len(callbacks[c]) + 1
        BY <1>1, CalledThen
    <2> QED
        BY <1>1, <2>1, CalledThen DEF OrderTypes
<1>2. CASE d # c
    BY <1>2 DEF OrderTypes
<1> QED
    BY <1>1, <1>2

\* A callback of a failure is not in the order: the older ones move up.
LEMMA FailureMovesCallbacks ==
    ASSUME Types, NEW c \in Core, NEW p0, NewCallback(c, p0, FALSE), OrderTypes, SentInOrder(c),
           order'[c] = order[c], Len(queue') = Len(queue),
           \A p \in Params : p # NoParam =>
               /\ Serves(c, p)' <=> Serves(c, p)
               /\ \A i \in 1..Len(queue) : Queued(i, c, p)' <=> Queued(i, c, p)
    PROVE  SentInOrder(c)'
<1> DEFINE L == Len(callbacks[c])
           m == [n \in Int |-> IF n < 0 THEN n + 1 ELSE n]
<1>1. /\ L \in Nat /\ Len(callbacks'[c]) = L + 1 /\ Len(queue) \in Nat
      /\ \A i \in 1..L : callbacks'[c][i] = callbacks[c][i]
      /\ ~callbacks'[c][L + 1].ok
      /\ \A i \in 1..L + 1 : i \in 1..L \/ i = L + 1
    BY CalledThen, CallbackTypes
<1>2. m \in [Int -> Int] /\ \A n \in Int : m[n] = IF n < 0 THEN n + 1 ELSE n
    OBVIOUS
<1> HIDE DEF m
<1>3. ASSUME NEW p \in Params, NEW n \in Int, Place(c, p, n)'
      PROVE  Place(c, p, m[n]) /\ n # 0
    <2>1. p # NoParam
        BY <1>3 DEF Place
    <2>2. PICK k \in Int : k = m[n] /\ k = IF n < 0 THEN n + 1 ELSE n
        BY <1>2
    <2>3. ASSUME NEW i \in 1..L + 1, n = i - (L + 1), callbacks'[c][i].ok, callbacks'[c][i].param = p
          PROVE  Place(c, p, k) /\ n # 0
        <3>1. i \in 1..L /\ callbacks[c][i].ok /\ callbacks[c][i].param = p
            BY <1>1, <2>3
        <3>2. n < 0 /\ k = i - L
            <4>1. PICK l \in Nat : l = L
                BY <1>1
            <4>2. i \in 1..l /\ n = i - (l + 1)
                BY <2>3, <3>1, <4>1
            <4>3. n < 0 /\ n + 1 = i - l
                BY <4>2
            <4> QED
                BY <2>2, <4>1, <4>3
        <3> QED
            BY <2>1, <3>1, <3>2, PlaceIs DEF PlaceRule
    <2>4. ASSUME n = 1, Serves(c, p) PROVE Place(c, p, k) /\ n # 0
        <3>1. k = 1
            BY <2>2, <2>4
        <3> QED
            BY <2>1, <2>4, <3>1, PlaceIs DEF PlaceRule
    <2>5. ASSUME NEW i \in 1..Len(queue), n = i + 1, Queued(i, c, p)
          PROVE  Place(c, p, k) /\ n # 0
        <3>1. k = i + 1 /\ n # 0
            BY <1>1, <2>2, <2>5
        <3> QED
            BY <2>1, <2>5, <3>1, PlaceIs DEF PlaceRule
    <2>6. \/ \E i \in 1..L + 1 : n = i - (L + 1) /\ callbacks'[c][i].ok /\ callbacks'[c][i].param = p
          \/ n = 1 /\ Serves(c, p)
          \/ \E i \in 1..Len(queue) : n = i + 1 /\ Queued(i, c, p)
        BY <1>1, <1>3, <2>1 DEF Place
    <2> QED
        BY <2>2, <2>3, <2>4, <2>5, <2>6
<1>4. ASSUME NEW p \in Params, NEW n \in Int, Place(c, p, n)
      PROVE  \E k \in Int : Place(c, p, k)'
    <2>1. p # NoParam
        BY <1>4 DEF Place
    <2>p. PlaceRule'
        BY PlaceIs, PTL
    <2>2. ASSUME NEW i \in 1..L, callbacks[c][i].ok, callbacks[c][i].param = p
          PROVE  \E k \in Int : Place(c, p, k)'
        <3>0. i - (L + 1) \in Int
            BY <1>1
        <3>1. PICK k \in Int : k = i - (L + 1)
            BY <3>0
        <3>2. i \in 1..Len(callbacks'[c]) /\ k = i - Len(callbacks'[c])
              /\ callbacks'[c][i].ok /\ callbacks'[c][i].param = p
            BY <1>1, <2>2, <3>1
        <3> QED
            BY <2>1, <2>p, <3>2 DEF PlaceRule
    <2>3. ASSUME Serves(c, p) PROVE \E k \in Int : Place(c, p, k)'
        <3>1. PICK k \in Int : k = 1
            OBVIOUS
        <3> QED
            BY <2>1, <2>p, <2>3, <3>1 DEF PlaceRule
    <2>4. ASSUME NEW i \in 1..Len(queue), Queued(i, c, p) PROVE \E k \in Int : Place(c, p, k)'
        <3>0. i + 1 \in Int
            BY <1>1
        <3>1. PICK k \in Int : k = i + 1
            BY <3>0
        <3>2. Queued(i, c, p)' /\ i \in 1..Len(queue')
            BY <2>1, <2>4
        <3> QED
            BY <2>1, <2>p, <3>1, <3>2 DEF PlaceRule
    <2>5. \/ \E i \in 1..L : callbacks[c][i].ok /\ callbacks[c][i].param = p
          \/ Serves(c, p)
          \/ \E i \in 1..Len(queue) : Queued(i, c, p)
        BY <1>4 DEF Place
    <2> QED
        BY <2>2, <2>3, <2>4, <2>5
<1>5. \A p, q \in Params, n, k \in Int : Place(c, p, n)' /\ Place(c, q, k)' /\ n < k => m[n] < m[k]
    <2> SUFFICES ASSUME NEW p \in Params, NEW q \in Params, NEW n \in Int, NEW k \in Int,
                        Place(c, p, n)', Place(c, q, k)', n < k
                 PROVE  m[n] < m[k]
        OBVIOUS
    <2>1. n # 0 /\ k # 0
        BY <1>3
    <2> QED
        BY <1>2, <2>1
<1> QED
    BY <1>2, <1>3, <1>4, <1>5, PlacesShift

LEMMA FailRespondOrder ==
    ASSUME FewRequests, BufferPart, OrderPart, order' = order, NEW t \in Thread,
           FailRespondEffect(t), IPCDriver_HandleResponse(CoreOf[t])
    PROVE  OrderPart'
<1> DEFINE c == CoreOf[t]
           b == mine[t].buffer
           p0 == request[c][b].param
<1> USE DEF BufferPart
<1>1. /\ pc[t] = "respond" /\ pc'[t] = "release" /\ \A u \in Thread : u # t => pc'[u] = pc[u]
      /\ RespondEffect(c, b)
      /\ UNCHANGED <<service, queue, mine>>
    BY DEF FailRespondEffect, RespondEffect
<1>2. /\ c \in Core /\ b \in Buffer /\ response[c] = b /\ request[c][b].result = Error
      /\ AtThread(t, c, b) /\ Active(t)
    BY <1>1, InHandIsActive, CommandOfThread
       DEF InHand, ReplyInv, ResponsesFindTheirRequest, AtThread, Agreement
<1>3. /\ \A d \in Core, a \in Buffer : d # c \/ a # b => request'[d][a] = request[d][a]
      /\ request'[c][b].param \in {p0, NoParam}
      /\ p0 = NoParam => request'[c][b] = request[c][b]
    BY <1>1, Handles DEF RespondEffect
<1>4. \A d \in Core, a \in Buffer :
          /\ AtService(d, a)' <=> AtService(d, a)
          /\ \A i : AtQueue(i, d, a)' <=> AtQueue(i, d, a)
          /\ \A u \in Thread : AtThread(u, d, a)' => AtThread(u, d, a) /\ u # t
    BY <1>1 DEF AtService, AtQueue, AtThread, InHand
<1>5. service'.at \in Serving /\ service'.command.op = "ioctl" => service'.result = Ok
    BY <1>1 DEF OrderPart, OrderTypes
<1>6. /\ p0 = NoParam => callbacks' = callbacks
      /\ \A d \in Core : d # c => callbacks'[d] = callbacks[d]
      /\ p0 # NoParam /\ Len(callbacks[c]) < CallbackSize => NewCallback(c, p0, FALSE)
    BY <1>2, ResponseCallbacks
<1>7. CASE p0 = NoParam
    <2>1. \A d \in Core, a \in Buffer : request'[d][a].param = request[d][a].param
        BY <1>2, <1>3, <1>7
    <2> QED
        BY <1>1, <1>4, <1>5, <1>6, <1>7, <2>1, QuietStep
<1>8. CASE p0 # NoParam
    <2>1. /\ NewCallback(c, p0, FALSE) /\ ~Called(c, p0) /\ p0 \in Param[c] \ {NoParam}
          /\ p0 \in Params /\ ~Sent(c, p0)
        <3>1. NewCallback(c, p0, FALSE)
            BY <1>2, <1>6, <1>8, RoomForAnswer
        <3>2. ~Called(c, p0) /\ p0 \in Param[c] \ {NoParam}
            BY <1>2, <1>8, AnsweredIsNew
        <3>3. Held(c, p0) /\ p0 \in Params
            BY <1>2, <3>2, Constants DEF Held
        <3> QED
            BY <1>2, <1>8, <3>1, <3>2, <3>3 DEF OrderPart, HeldIsNew
    <2>2. \A d \in Core, a \in Buffer : AtService(d, a) \/ (\E i \in 1..Len(queue) : AtQueue(i, d, a)) =>
              request'[d][a] = request[d][a]
        BY <1>2, <1>3 DEF OnePlace
    <2>3. \A d \in Core : \A p \in Params : p # NoParam =>
               /\ Serves(d, p)' <=> Serves(d, p)
               /\ \A i \in 1..Len(queue) : Queued(i, d, p)' <=> Queued(i, d, p)
        BY <1>4, <2>2 DEF Serves, Queued
    <2>4. OrderTypes'
        <3>1. \A d \in Core : \A i \in 1..Len(callbacks'[d]) :
                  callbacks'[d][i].param \in Param[d] \ {NoParam}
            BY <1>2, <1>6, <2>1, NewCallbackTypes DEF OrderPart
        <3>2. \A d \in Core, a \in Buffer : request'[d][a].param \in Param[d] \cup {NoParam}
            BY <1>3, <2>1 DEF OrderPart, OrderTypes
        <3> QED
            BY <1>5, <3>1, <3>2 DEF OrderPart, OrderTypes
    <2>5. ASSUME NEW d \in Core, d # c PROVE SentInOrder(d)' /\ HeldIsNew(d)' /\ CalledOnce(d)'
        <3>1. \A p \in Params, n \in Int : Place(d, p, n)' <=> Place(d, p, n)
            BY <1>1, <1>6, <2>3, <2>5, SamePlaces
        <3>2. \A p : Held(d, p)' => Held(d, p)
            BY <1>3, <1>4, <2>5 DEF Held
        <3> QED
            BY <1>6, <2>5, <3>1, <3>2, QuietCore
    <2>6. SentInOrder(c)'
        BY <1>1, <1>2, <2>1, <2>3, FailureMovesCallbacks DEF OrderPart
    <2>7. \A p : ~Held(c, p)'
        <3>1. \A u \in Thread, a \in Buffer : ~AtThread(u, c, a)'
            <4> SUFFICES ASSUME NEW u \in Thread, NEW a \in Buffer, AtThread(u, c, a)' PROVE FALSE
                OBVIOUS
            <4>1. AtThread(u, c, a) /\ u # t
                BY <1>2, <1>4
            <4> QED
                BY <1>2, <4>1, InHandIsActive DEF OneRuns, AtThread
        <3> QED
            BY <3>1 DEF Held
    <2>8. CalledOnce(c)'
        BY <1>2, <2>1, NewIsCalledOnce DEF OrderPart
    <2> QED
        BY <1>2, <2>4, <2>5, <2>6, <2>7, <2>8 DEF OrderPart, HeldIsNew
<1> QED
    BY <1>7, <1>8

\* The request that the service has answered is the newest callback.
LEMMA AnswerMovesCallbacks ==
    ASSUME Types, NEW c \in Core, NEW p0 \in Params, p0 # NoParam, NewCallback(c, p0, TRUE),
           OrderTypes, SentInOrder(c), order'[c] = order[c], Len(queue') = Len(queue),
           \A p \in Params : p # NoParam =>
               /\ Serves(c, p) <=> p = p0
               /\ ~Serves(c, p)'
               /\ \A i \in 1..Len(queue) : Queued(i, c, p)' <=> Queued(i, c, p)
    PROVE  SentInOrder(c)'
<1> DEFINE L == Len(callbacks[c])
           m == [n \in Int |-> IF n < 1 THEN n + 1 ELSE n]
<1>1. /\ L \in Nat /\ Len(callbacks'[c]) = L + 1 /\ Len(queue) \in Nat
      /\ \A i \in 1..L : callbacks'[c][i] = callbacks[c][i]
      /\ callbacks'[c][L + 1].ok /\ callbacks'[c][L + 1].param = p0
      /\ \A i \in 1..L + 1 : i \in 1..L \/ i = L + 1
    BY CalledThen, CallbackTypes
<1>2. m \in [Int -> Int] /\ \A n \in Int : m[n] = IF n < 1 THEN n + 1 ELSE n
    OBVIOUS
<1> HIDE DEF m
<1>3. ASSUME NEW p \in Params, NEW n \in Int, Place(c, p, n)'
      PROVE  Place(c, p, m[n]) /\ n # 1
    <2>1. p # NoParam
        BY <1>3 DEF Place
    <2>2. PICK k \in Int : k = m[n] /\ k = IF n < 1 THEN n + 1 ELSE n
        BY <1>2
    <2>3. ASSUME NEW i \in 1..L + 1, n = i - (L + 1), callbacks'[c][i].ok, callbacks'[c][i].param = p
          PROVE  Place(c, p, k) /\ n # 1
        <3>1. PICK l \in Nat : l = L
            BY <1>1
        <3>2. i \in 1..l + 1 /\ n = i - (l + 1)
            BY <2>3, <3>1
        <3>3. n < 1 /\ n + 1 = i - l
            BY <3>2
        <3>4. n # 1 /\ k = i - L
            <4>1. n \in Int /\ n # 1 /\ k = n + 1
                BY <2>2, <3>3
            <4> QED
                BY <3>1, <3>3, <4>1
        <3>5. CASE i \in 1..L
            BY <1>1, <2>1, <2>3, <3>4, <3>5, PlaceIs DEF PlaceRule
        <3>6. CASE i = L + 1
            <4>1. k = 1
                BY <2>2, <3>1, <3>2, <3>3, <3>6
            <4>2. p = p0
                BY <1>1, <2>3, <3>6
            <4> QED
                BY <2>1, <3>4, <4>1, <4>2, PlaceIs DEF PlaceRule
        <3> QED
            BY <1>1, <3>5, <3>6
    <2>4. ASSUME NEW i \in 1..Len(queue), n = i + 1, Queued(i, c, p)
          PROVE  Place(c, p, k) /\ n # 1
        <3>1. k = i + 1 /\ n # 1
            BY <1>1, <2>2, <2>4
        <3> QED
            BY <2>1, <2>4, <3>1, PlaceIs DEF PlaceRule
    <2>5. \/ \E i \in 1..L + 1 : n = i - (L + 1) /\ callbacks'[c][i].ok /\ callbacks'[c][i].param = p
          \/ \E i \in 1..Len(queue) : n = i + 1 /\ Queued(i, c, p)
        BY <1>1, <1>3, <2>1 DEF Place
    <2> QED
        BY <2>2, <2>3, <2>4, <2>5
<1>4. ASSUME NEW p \in Params, NEW n \in Int, Place(c, p, n)
      PROVE  \E k \in Int : Place(c, p, k)'
    <2>1. p # NoParam
        BY <1>4 DEF Place
    <2>p. PlaceRule'
        BY PlaceIs, PTL
    <2>2. ASSUME NEW i \in 1..L + 1, callbacks'[c][i].ok, callbacks'[c][i].param = p
          PROVE  \E k \in Int : Place(c, p, k)'
        <3>0. i - (L + 1) \in Int
            BY <1>1
        <3>1. PICK k \in Int : k = i - (L + 1)
            BY <3>0
        <3>2. i \in 1..Len(callbacks'[c]) /\ k = i - Len(callbacks'[c])
            BY <1>1, <2>2, <3>1
        <3> QED
            BY <2>1, <2>p, <2>2, <3>2 DEF PlaceRule
    <2>3. ASSUME NEW i \in 1..Len(queue), Queued(i, c, p) PROVE \E k \in Int : Place(c, p, k)'
        <3>0. i + 1 \in Int
            BY <1>1
        <3>1. PICK k \in Int : k = i + 1
            BY <3>0
        <3>2. Queued(i, c, p)' /\ i \in 1..Len(queue')
            BY <2>1, <2>3
        <3> QED
            BY <2>1, <2>p, <3>1, <3>2 DEF PlaceRule
    <2>4. \/ \E i \in 1..L : callbacks[c][i].ok /\ callbacks[c][i].param = p
          \/ p = p0
          \/ \E i \in 1..Len(queue) : Queued(i, c, p)
        BY <1>4, <2>1 DEF Place
    <2>5. L + 1 \in 1..L + 1 /\ \A i \in 1..L : i \in 1..L + 1
        BY <1>1
    <2> QED
        BY <1>1, <2>2, <2>3, <2>4, <2>5
<1>5. \A p, q \in Params, n, k \in Int : Place(c, p, n)' /\ Place(c, q, k)' /\ n < k => m[n] < m[k]
    <2> SUFFICES ASSUME NEW p \in Params, NEW q \in Params, NEW n \in Int, NEW k \in Int,
                        Place(c, p, n)', Place(c, q, k)', n < k
                 PROVE  m[n] < m[k]
        OBVIOUS
    <2>1. n # 1 /\ k # 1
        BY <1>3
    <2> QED
        BY <1>2, <2>1
<1> QED
    BY <1>2, <1>3, <1>4, <1>5, PlacesShift

LEMMA ReplyRespondOrder ==
    ASSUME FewRequests, BufferPart, OrderPart, order' = order, ServiceRespondEffect,
           IPCDriver_HandleResponse(service.command.core)
    PROVE  OrderPart'
<1> USE DEF BufferPart
<1>0. service.at = "respond"
    BY DEF ServiceRespondEffect
<1>c. PICK c \in Core : c = service.command.core
    BY <1>0, CommandOfService
<1>b. PICK b \in Buffer : b = service.command.buffer
    BY <1>0, CommandOfService
<1>p. PICK p0 : p0 = request[c][b].param
    OBVIOUS
<1>1. /\ service.at = "respond" /\ service'.at = "release"
      /\ RespondEffect(c, b)
      /\ UNCHANGED <<pc, queue, mine>>
    BY <1>c, <1>b DEF ServiceRespondEffect, RespondEffect
<1>2. /\ c \in Core /\ b \in Buffer /\ response[c] = b /\ request[c][b].result = service.result
      /\ AtService(c, b) /\ Agrees(service.command)
    BY <1>1, <1>c, <1>b
       DEF Serving, ReplyInv, ResponsesFindTheirRequest, AtService, Agreement
<1>3. /\ \A d \in Core, a \in Buffer : d # c \/ a # b => request'[d][a] = request[d][a]
      /\ request'[c][b].param \in {p0, NoParam}
      /\ p0 = NoParam => request'[c][b] = request[c][b]
    BY <1>1, <1>p, Handles DEF RespondEffect
<1>4. \A d \in Core, a \in Buffer :
          /\ AtService(d, a) <=> d = c /\ a = b
          /\ ~AtService(d, a)'
          /\ \A i : AtQueue(i, d, a)' <=> AtQueue(i, d, a)
          /\ \A u \in Thread : AtThread(u, d, a)' <=> AtThread(u, d, a)
    BY <1>1, <1>c, <1>b DEF AtService, AtQueue, AtThread, Serving
<1>5. ~(service'.at \in Serving)
    BY <1>1 DEF Serving
<1>6. /\ p0 = NoParam => callbacks' = callbacks
      /\ \A d \in Core : d # c => callbacks'[d] = callbacks[d]
      /\ p0 # NoParam /\ Len(callbacks[c]) < CallbackSize =>
             NewCallback(c, p0, request[c][b].result # Error)
    BY <1>2, <1>c, <1>p, ResponseCallbacks
<1>7. CASE p0 = NoParam
    <2>1. \A d \in Core, a \in Buffer : request'[d][a].param = request[d][a].param
        BY <1>2, <1>3, <1>7, <1>p
    <2>2. \A d \in Core, a \in Buffer : request[d][a].param # NoParam =>
              /\ AtService(d, a)' <=> AtService(d, a)
              /\ \A u \in Thread : AtThread(u, d, a)' => AtThread(u, d, a)
        BY <1>4, <1>7, <1>p
    <2> QED
        BY <1>1, <1>5, <1>6, <1>7, <2>1, <2>2, QuietStep
<1>8. CASE p0 # NoParam
    <2>0. request[c][b].result # Error
        <3>1. service.command.op \in Ops /\ service.command.op # "open" /\ service.command.op # "close"
            BY <1>1, <1>2, <1>8, <1>c, <1>b, <1>p, CommandOfService DEF Agrees
        <3>2. service.command.op = "ioctl"
            BY <3>1 DEF Ops
        <3> QED
            BY <1>1, <1>2, <3>2, Handles DEF OrderPart, OrderTypes, Serving
    <2>1. /\ NewCallback(c, p0, TRUE) /\ ~Called(c, p0) /\ p0 \in Param[c] \ {NoParam}
          /\ p0 \in Params /\ Sent(c, p0) /\ ~Held(c, p0)
        <3>1. NewCallback(c, p0, TRUE)
            BY <1>2, <1>6, <1>8, <1>p, <2>0, RoomForAnswer
        <3>2. ~Called(c, p0) /\ p0 \in Param[c] \ {NoParam}
            BY <1>2, <1>8, <1>p, AnsweredIsNew
        <3>3. Serves(c, p0) /\ p0 \in Params
            BY <1>2, <1>p, <3>2, Constants DEF Serves
        <3>4. Place(c, p0, 1) /\ 1 \in Int
            BY <1>8, <3>3 DEF Place
        <3>5. Sent(c, p0)
            BY <1>2, <3>3, <3>4 DEF OrderPart, SentInOrder
        <3> QED
            BY <1>2, <1>8, <3>1, <3>2, <3>3, <3>5 DEF OrderPart, HeldIsNew
    <2>2. \A d \in Core, a \in Buffer :
              (\E t \in Thread : AtThread(t, d, a)) \/ (\E i \in 1..Len(queue) : AtQueue(i, d, a)) =>
                  request'[d][a] = request[d][a]
        BY <1>2, <1>3 DEF OnePlace
    <2>3. \A d \in Core : \A p \in Params : p # NoParam =>
               /\ \A i \in 1..Len(queue) : Queued(i, d, p)' <=> Queued(i, d, p)
               /\ Held(d, p)' => Held(d, p)
               /\ d # c => ~Serves(d, p)
               /\ Serves(c, p) <=> p = p0
               /\ ~Serves(d, p)'
        BY <1>2, <1>4, <1>p, <2>2 DEF Serves, Queued, Held
    <2>4. OrderTypes'
        <3>1. \A d \in Core : \A i \in 1..Len(callbacks'[d]) :
                  callbacks'[d][i].param \in Param[d] \ {NoParam}
            BY <1>2, <1>6, <2>1, NewCallbackTypes DEF OrderPart
        <3>2. \A d \in Core, a \in Buffer : request'[d][a].param \in Param[d] \cup {NoParam}
            BY <1>3, <2>1 DEF OrderPart, OrderTypes
        <3> QED
            BY <1>5, <3>1, <3>2 DEF OrderPart, OrderTypes
    <2>5. ASSUME NEW d \in Core, d # c PROVE SentInOrder(d)' /\ HeldIsNew(d)' /\ CalledOnce(d)'
        <3>1. \A p \in Params, n \in Int : Place(d, p, n)' <=> Place(d, p, n)
            BY <1>1, <1>6, <2>3, <2>5, SamePlaces
        <3> QED
            BY <1>6, <2>3, <2>5, <3>1, QuietCore
    <2>6. SentInOrder(c)'
        BY <1>1, <1>2, <1>8, <2>1, <2>3, AnswerMovesCallbacks DEF OrderPart
    <2>7. HeldIsNew(c)'
        <3>1. \A p : Called(c, p)' => Called(c, p) \/ p = p0
            BY <1>2, <2>1, CalledThen
        <3>2. \A p : Sent(c, p)' <=> Sent(c, p)
            BY DEF Sent
        <3> QED
            BY <1>2, <2>1, <2>3, <3>1, <3>2 DEF OrderPart, HeldIsNew
    <2>8. CalledOnce(c)'
        BY <1>2, <2>1, NewIsCalledOnce DEF OrderPart
    <2> QED
        BY <1>2, <2>4, <2>5, <2>6, <2>7, <2>8 DEF OrderPart
<1> QED
    BY <1>7, <1>8
-----------------------------------------------------------------------------
(* The queue of the service.                                               *)

\* The queue moves up to the service.
QueueMovesUp(c) ==
    \A p \in Params : p # NoParam =>
        /\ ~Serves(c, p)
        /\ Serves(c, p)' <=> Queued(1, c, p)
        /\ \A i \in 1..Len(queue') : Queued(i, c, p)' <=> Queued(i + 1, c, p)

LEMMA QueueMoves ==
    ASSUME Types, NEW c \in Core, OrderTypes, SentInOrder(c), order'[c] = order[c],
           callbacks'[c] = callbacks[c], Len(queue) \in Nat \ {0}, Len(queue') = Len(queue) - 1,
           QueueMovesUp(c)
    PROVE  SentInOrder(c)'
<1> DEFINE m == [n \in Int |-> IF n < 1 THEN n ELSE n + 1]
<1>0. PICK Q \in Nat : Q = Len(queue') /\ Len(queue) = Q + 1
    OBVIOUS
<1>1. /\ Len(callbacks[c]) \in Nat /\ Len(callbacks'[c]) = Len(callbacks[c])
    BY CallbackTypes
<1>2. m \in [Int -> Int] /\ \A n \in Int : m[n] = IF n < 1 THEN n ELSE n + 1
    OBVIOUS
<1> HIDE DEF m
<1>3. ASSUME NEW p \in Params, NEW n \in Int, Place(c, p, n)'
      PROVE  Place(c, p, m[n])
    <2>1. p # NoParam
        BY <1>3 DEF Place
    <2>2. PICK k \in Int : k = m[n] /\ k = IF n < 1 THEN n ELSE n + 1
        BY <1>2
    <2>3. ASSUME NEW i \in 1..Len(callbacks[c]), n = i - Len(callbacks[c]), callbacks[c][i].ok,
                 callbacks[c][i].param = p
          PROVE  Place(c, p, k)
        <3>1. PICK l \in Nat : l = Len(callbacks[c])
            BY <1>1
        <3>2. i \in 1..l /\ n = i - l
            BY <2>3, <3>1
        <3>3. k = n
            BY <2>2, <3>2
        <3> QED
            BY <2>1, <2>3, <3>3, PlaceIs DEF PlaceRule
    <2>4. ASSUME n = 1, Queued(1, c, p) PROVE Place(c, p, k)
        <3>1. k = 1 + 1 /\ 1 \in 1..Len(queue)
            BY <1>0, <2>2, <2>4
        <3> QED
            BY <2>1, <2>4, <3>1, PlaceIs DEF PlaceRule
    <2>5. ASSUME NEW i \in 1..Q, n = i + 1, Queued(i + 1, c, p)
          PROVE  Place(c, p, k)
        <3>1. k = (i + 1) + 1 /\ i + 1 \in 1..Len(queue)
            BY <1>0, <2>2, <2>5
        <3> QED
            BY <2>1, <2>5, <3>1, PlaceIs DEF PlaceRule
    <2>6. \/ \E i \in 1..Len(callbacks[c]) : /\ n = i - Len(callbacks[c]) /\ callbacks[c][i].ok
                                             /\ callbacks[c][i].param = p
          \/ n = 1 /\ Queued(1, c, p)
          \/ \E i \in 1..Q : n = i + 1 /\ Queued(i + 1, c, p)
        BY <1>0, <1>1, <1>3, <2>1 DEF Place, QueueMovesUp
    <2> QED
        BY <2>2, <2>3, <2>4, <2>5, <2>6
<1>4. ASSUME NEW p \in Params, NEW n \in Int, Place(c, p, n)
      PROVE  \E k \in Int : Place(c, p, k)'
    <2>1. p # NoParam
        BY <1>4 DEF Place
    <2>p. PlaceRule'
        BY PlaceIs, PTL
    <2>2. ASSUME NEW i \in 1..Len(callbacks[c]), callbacks[c][i].ok, callbacks[c][i].param = p
          PROVE  \E k \in Int : Place(c, p, k)'
        <3>0. PICK l \in Nat : l = Len(callbacks[c])
            BY <1>1
        <3>1. PICK k \in Int : k = i - l
            BY <2>2, <3>0
        <3> QED
            BY <1>1, <2>1, <2>p, <2>2, <3>0, <3>1 DEF PlaceRule
    <2>3. ASSUME NEW i \in 1..Q + 1, Queued(i, c, p) PROVE \E k \in Int : Place(c, p, k)'
        <3>1. CASE i = 1
            <4>1. PICK k \in Int : k = 1
                OBVIOUS
            <4> QED
                BY <2>1, <2>p, <2>3, <3>1, <4>1 DEF PlaceRule, QueueMovesUp
        <3>2. CASE i # 1
            <4>1. PICK j \in 1..Q : i = j + 1
                BY <2>3, <3>2
            <4>2. PICK k \in Int : k = j + 1
                OBVIOUS
            <4>3. Queued(j, c, p)'
                BY <1>0, <2>1, <2>3, <4>1 DEF QueueMovesUp
            <4> QED
                BY <1>0, <2>1, <2>p, <4>2, <4>3 DEF PlaceRule
        <3> QED
            BY <3>1, <3>2
    <2>4. \/ \E i \in 1..Len(callbacks[c]) : callbacks[c][i].ok /\ callbacks[c][i].param = p
          \/ \E i \in 1..Q + 1 : Queued(i, c, p)
        BY <1>0, <1>4, <2>1 DEF Place, QueueMovesUp
    <2> QED
        BY <2>2, <2>3, <2>4
<1>5. \A p, q \in Params, n, k \in Int : Place(c, p, n)' /\ Place(c, q, k)' /\ n < k => m[n] < m[k]
    <2> SUFFICES ASSUME NEW n \in Int, NEW k \in Int, n < k PROVE m[n] < m[k]
        OBVIOUS
    <2>1. PICK x \in Int : x = m[n] /\ x = IF n < 1 THEN n ELSE n + 1
        BY <1>2
    <2>2. PICK y \in Int : y = m[k] /\ y = IF k < 1 THEN k ELSE k + 1
        BY <1>2
    <2>3. x < y
        BY <2>1, <2>2
    <2> QED
        BY <2>1, <2>2, <2>3
<1> QED
    BY <1>2, <1>3, <1>4, <1>5, PlacesShift

LEMMA ReceiveOrder ==
    ASSUME BufferPart, OrderPart, order' = order, ReceiveEffect
    PROVE  OrderPart'
<1>1. /\ service.at = "receive" /\ Len(queue) \in Nat \ {0} /\ queue[1] \in CommandType
      /\ service'.at = queue[1].op /\ service'.command = queue[1] /\ service'.result = Ok
      /\ Len(queue') = Len(queue) - 1
      /\ \A i \in 1..Len(queue') : queue'[i] = queue[i + 1]
      /\ UNCHANGED <<request, callbacks, pc, mine>>
    BY DEF ReceiveEffect
<1>2. service'.at \in Serving
    BY <1>1 DEF CommandType, Ops, Serving
<1>3. \A c \in Core, b \in Buffer :
          /\ ~AtService(c, b)
          /\ AtService(c, b)' <=> AtQueue(1, c, b)
          /\ \A i \in 1..Len(queue') : AtQueue(i, c, b)' <=> AtQueue(i + 1, c, b)
          /\ \A t \in Thread : AtThread(t, c, b)' <=> AtThread(t, c, b)
    <2>1. service.at \notin Serving
        BY <1>1 DEF Serving
    <2> QED
        BY <1>1, <1>2, <2>1 DEF AtService, AtQueue, AtThread
<1>4. OrderTypes'
    BY <1>1 DEF OrderPart, OrderTypes
<1>5. ASSUME NEW c \in Core PROVE SentInOrder(c)' /\ HeldIsNew(c)' /\ CalledOnce(c)'
    <2>1. \A p \in Params :
              /\ ~Serves(c, p)
              /\ Serves(c, p)' <=> Queued(1, c, p)
              /\ \A i \in 1..Len(queue') : Queued(i, c, p)' <=> Queued(i + 1, c, p)
              /\ Held(c, p)' => Held(c, p)
        BY <1>1, <1>3 DEF Serves, Queued, Held
    <2>2. SentInOrder(c)'
        <3>1. QueueMovesUp(c)
            BY <2>1 DEF QueueMovesUp
        <3> QED
            BY <1>1, <3>1, QueueMoves DEF OrderPart, BufferPart
    <2>3. \A p : (Sent(c, p)' <=> Sent(c, p)) /\ (Called(c, p)' <=> Called(c, p))
        BY <1>1 DEF Sent, Called
    <2>4. HeldIsNew(c)' /\ CalledOnce(c)'
        BY <1>1, <2>1, <2>3 DEF OrderPart, HeldIsNew, CalledOnce
    <2> QED
        BY <2>2, <2>4
<1> QED
    BY <1>4, <1>5 DEF OrderPart

\* A new request is behind all others.
LEMMA RequestIsLast ==
    ASSUME Types, NEW c \in Core, NEW p0 \in Params, p0 # NoParam, OrderTypes, SentInOrder(c),
           ~Sent(c, p0), order'[c] = Append(order[c], p0),
           \A p \in Params, n \in Int :
               Place(c, p, n)' <=> Place(c, p, n) \/ (p = p0 /\ n = Len(queue) + 2)
    PROVE  SentInOrder(c)' /\ \A p : Sent(c, p)' <=> Sent(c, p) \/ p = p0
<1> DEFINE N == Len(order[c])
<1>1. /\ order[c] \in Seq(Params) /\ N \in Nat
      /\ \A i \in 1..N : order[c][i] \in Params /\ order[c][i] # p0
      /\ \A p : Sent(c, p) <=> \E i \in 1..N : order[c][i] = p
    BY SentIs
<1>2. /\ order'[c] \in Seq(Params) /\ Len(order'[c]) = N + 1
      /\ \A i \in 1..N : order'[c][i] = order[c][i]
      /\ order'[c][N + 1] = p0
    BY <1>1, AppendIs
<1>3. \A i \in 1..N + 1 : i \in 1..N \/ i = N + 1
    BY <1>1
<1>4. \A i \in 1..N : i \in 1..N + 1 /\ i < N + 1
    BY <1>1
<1>5. N + 1 \in 1..N + 1 /\ N + 1 \in Int
    BY <1>1
<1>6. \A p : Sent(c, p)' <=> Sent(c, p) \/ p = p0
    <2>1. DOMAIN order'[c] = 1..N + 1
        BY <1>2
    <2>2. \A p : Sent(c, p)' <=> \E i \in 1..N + 1 : order'[c][i] = p
        BY <2>1 DEF Sent
    <2> QED
        BY <1>1, <1>2, <1>3, <1>4, <1>5, <2>2
<1> DEFINE Q == Len(queue) + 2
<1>7. Len(queue) \in Nat /\ Len(callbacks[c]) \in Nat /\ Q \in Int
    BY CallbackTypes
\* Every other place is before the new one.
<1>8. ASSUME NEW p \in Params, NEW n \in Int, Place(c, p, n) PROVE n < Q
    BY <1>7, <1>8 DEF Place
<1> HIDE DEF N, Q
<1>9. \A n \in Int : ~Place(c, p0, n)
    BY DEF SentInOrder
<1>10. ASSUME NEW i \in 1..N + 1 PROVE \E n \in Int : Place(c, order[c][i], n)'
    <2>1. CASE i \in 1..N
        <3>1. PICK n \in Int : Place(c, order[c][i], n)
            BY <2>1 DEF SentInOrder, N
        <3> QED
            BY <1>1, <1>2, <2>1, <3>1
    <2>2. CASE i = N + 1
        BY <1>2, <1>7, <2>2 DEF Q
    <2> QED
        BY <1>3, <2>1, <2>2
<1>11. ASSUME NEW p \in Params, NEW n \in Int, Place(c, p, n)' PROVE Sent(c, p)'
    BY <1>6, <1>11 DEF SentInOrder
<1>12. ASSUME NEW i \in 1..N + 1, NEW j \in 1..N + 1, NEW n \in Int, NEW k \in Int,
              Place(c, order[c][i], n)', Place(c, order[c][j], k)'
       PROVE  i < j <=> n < k
    <2>1. CASE i \in 1..N /\ j \in 1..N
        <3>1. Place(c, order[c][i], n) /\ Place(c, order[c][j], k)
            BY <1>1, <1>2, <1>12, <2>1
        <3> QED
            BY <2>1, <3>1 DEF SentInOrder, N
    <2>2. CASE i \in 1..N /\ j = N + 1
        <3>1. n < Q /\ k = Q
            BY <1>1, <1>2, <1>8, <1>9, <1>12, <2>2 DEF Q
        <3>2. i < j
            BY <1>4, <2>2
        <3> QED
            BY <3>1, <3>2
    <2>3. CASE i = N + 1 /\ j \in 1..N
        <3>1. n = Q /\ k < Q
            BY <1>1, <1>2, <1>8, <1>9, <1>12, <2>3 DEF Q
        <3>2. j < i /\ j \in Int /\ i \in Int
            BY <1>1, <1>4, <2>3
        <3>3. ~(i < j) /\ ~(n < k)
            BY <1>7, <3>1, <3>2
        <3> QED
            BY <3>3
    <2>4. CASE i = N + 1 /\ j = N + 1
        <3>1. n = Q /\ k = Q
            BY <1>2, <1>9, <1>12, <2>4 DEF Q
        <3>2. ~(i < j) /\ ~(n < k)
            BY <1>1, <1>7, <2>4, <3>1
        <3> QED
            BY <3>2
    <2> QED
        BY <1>3, <2>1, <2>2, <2>3, <2>4
<1> QED
    BY <1>2, <1>6, <1>10, <1>11, <1>12 DEF SentInOrder

LEMMA SendOrder ==
    ASSUME BufferPart, OrderPart, NEW t \in Thread, SendEffect(t),
           order' = IF mine[t].async
                    THEN [order EXCEPT ![CoreOf[t]] = Append(@, request[CoreOf[t]][mine[t].buffer].param)]
                    ELSE order
    PROVE  OrderPart'
<1> USE DEF BufferPart
<1>0. Active(t) /\ pc[t] = "send" /\ pc[t] \in InHand
    BY InHandIsActive DEF SendEffect, InHand
<1>c. PICK c \in Core : c = CoreOf[t]
    BY Constants
<1>b. PICK b \in Buffer : b = mine[t].buffer
    BY <1>0, CommandOfThread
<1>p. PICK p0 : p0 = request[c][b].param
    OBVIOUS
<1>q. PICK Q \in Nat : Q = Len(queue)
    BY DEF Types, ServiceTypes
<1>1. /\ LeaveEffect(t) /\ OthersStay(t) /\ pc'[t] \in {"idle", "wait"}
      /\ queue' = Append(queue, mine[t].command)
      /\ UNCHANGED <<request, callbacks, service>>
    BY DEF SendEffect, LeaveEffect
<1>2. /\ mine[t].command \in CommandType /\ mine[t].command.core = c /\ mine[t].command.buffer = b
      /\ AtThread(t, c, b) /\ (mine[t].async <=> p0 # NoParam)
      /\ queue \in Seq(CommandType)
    BY <1>0, <1>c, <1>b, <1>p, CommandOfThread DEF AtThread, OwnCommands, Types, ServiceTypes
<1>3. /\ Len(queue') = Q + 1 /\ \A i \in 1..Q : queue'[i] = queue[i]
      /\ queue'[Q + 1] = mine[t].command
    <2> HIDE DEF CommandType
    <2> QED
        BY <1>1, <1>2, <1>q, AppendIs
<1>4. \A d \in Core, a \in Buffer :
          /\ AtService(d, a)' <=> AtService(d, a)
          /\ \A i \in 1..Q : AtQueue(i, d, a)' <=> AtQueue(i, d, a)
          /\ AtQueue(Q + 1, d, a)' <=> d = c /\ a = b
          /\ \A u \in Thread : AtThread(u, d, a)' => AtThread(u, d, a) /\ u # t
    BY <1>1, <1>2, <1>3 DEF AtService, AtQueue, AtThread, OthersStay, InHand
<1>5. \A d \in Core, p \in Params :
          /\ Serves(d, p)' <=> Serves(d, p)
          /\ \A i \in 1..Q : Queued(i, d, p)' <=> Queued(i, d, p)
          /\ Queued(Q + 1, d, p)' <=> d = c /\ p = p0
          /\ Held(d, p)' => Held(d, p)
    BY <1>1, <1>4, <1>p DEF Serves, Queued, Held
<1>6. \A i \in 1..Q + 1 : i \in 1..Q \/ i = Q + 1
    OBVIOUS
<1>7. \A d \in Core, p \in Params, n \in Int :
          Place(d, p, n)' <=> Place(d, p, n) \/ (d = c /\ p = p0 /\ p # NoParam /\ n = Q + 2)
    <2> TAKE d \in Core, p \in Params, n \in Int
    <2>1. (\E i \in 1..Q + 1 : n = i + 1 /\ Queued(i, d, p)') <=>
              (\E i \in 1..Q : n = i + 1 /\ Queued(i, d, p)) \/ (n = Q + 2 /\ d = c /\ p = p0)
        <3>1. \A i \in 1..Q : i \in 1..Q + 1
            OBVIOUS
        <3>2. Q + 1 \in 1..Q + 1 /\ (Q + 1) + 1 = Q + 2
            OBVIOUS
        <3> QED
            BY <1>5, <1>6, <3>1, <3>2
    <2>2. Serves(d, p)' <=> Serves(d, p)
        BY <1>5
    <2> QED
        BY <1>1, <1>3, <1>q, <2>1, <2>2 DEF Place
<1>8. order[c] \in Seq(Params) /\ order \in [Core -> Seq(Params)]
    BY DEF OrderPart, OrderTypes
<1>9. request[c][b].param \in Params
    BY Constants DEF OrderPart, OrderTypes
<1>10. /\ \A d \in Core : d # c => order'[d] = order[d]
       /\ p0 = NoParam => order'[c] = order[c]
       /\ p0 # NoParam => order'[c] = Append(order[c], p0)
       /\ order' \in [Core -> Seq(Params)]
    BY <1>2, <1>8, <1>9, <1>c, <1>b, <1>p
<1>11. OrderTypes'
    BY <1>1, <1>10 DEF OrderPart, OrderTypes
<1>12. ASSUME NEW d \in Core, d # c \/ p0 = NoParam
       PROVE  SentInOrder(d)' /\ HeldIsNew(d)' /\ CalledOnce(d)'
    <2>1. \A p \in Params, n \in Int : Place(d, p, n)' <=> Place(d, p, n)
        BY <1>7, <1>12
    <2> QED
        BY <1>1, <1>5, <1>10, <1>12, <2>1, QuietCore
<1>13. ASSUME p0 # NoParam PROVE SentInOrder(c)' /\ HeldIsNew(c)' /\ CalledOnce(c)'
    <2>1. p0 \in Params /\ ~Sent(c, p0) /\ ~Called(c, p0)
        <3>1. Held(c, p0)
            BY <1>2, <1>p DEF Held
        <3> QED
            BY <1>9, <1>13, <1>p, <3>1 DEF OrderPart, HeldIsNew
    <2>2. SentInOrder(c)' /\ \A p : Sent(c, p)' <=> Sent(c, p) \/ p = p0
        BY <1>7, <1>10, <1>13, <1>q, <2>1, RequestIsLast DEF OrderPart
    <2>3. \A p : ~Held(c, p)'
        <3>1. \A u \in Thread, a \in Buffer : ~AtThread(u, c, a)'
            <4> SUFFICES ASSUME NEW u \in Thread, NEW a \in Buffer, AtThread(u, c, a)' PROVE FALSE
                OBVIOUS
            <4>1. AtThread(u, c, a) /\ u # t
                BY <1>4
            <4> QED
                BY <1>0, <1>c, <4>1, InHandIsActive DEF OneRuns, AtThread
        <3> QED
            BY <3>1 DEF Held
    <2>4. CalledOnce(c)'
        BY <1>1, <2>1, <2>2 DEF OrderPart, CalledOnce, Called
    <2> QED
        BY <2>2, <2>3, <2>4 DEF HeldIsNew
<1> QED
    BY <1>11, <1>12, <1>13 DEF OrderPart
-----------------------------------------------------------------------------
(* The IPC thread.                                                         *)

LEMMA TailIs ==
    ASSUME NEW S, NEW q \in Seq(S), q # <<>>
    PROVE  /\ Len(q) \in Nat \ {0} /\ Head(q) = q[1]
           /\ Tail(q) \in Seq(S) /\ Len(Tail(q)) = Len(q) - 1
           /\ \A i \in 1..Len(q) - 1 : Tail(q)[i] = q[i + 1]
OBVIOUS

\* The first callback of core c is taken away.
TakesCallback(c) ==
    /\ Len(callbacks[c]) \in Nat \ {0} /\ Len(callbacks'[c]) = Len(callbacks[c]) - 1
    /\ \A i \in 1..Len(callbacks[c]) - 1 : callbacks'[c][i] = callbacks[c][i + 1]

\* Only the oldest place is lost.
LEMMA OldestPlace ==
    ASSUME NEW c \in Core, TakesCallback(c), queue' = queue, request' = request, service' = service,
           NEW l \in Int, l = 1 - Len(callbacks[c])
    PROVE  \A n \in Int : \A p :
               /\ Place(c, p, n)' => Place(c, p, n) /\ n # l
               /\ Place(c, p, n) => \/ Place(c, p, n)'
                                    \/ n = l /\ callbacks[c][1].ok /\ callbacks[c][1].param = p
               /\ Place(c, p, n) => n >= l
<1>1. PICK L \in Nat : L + 1 = Len(callbacks[c]) /\ L = Len(callbacks'[c])
    BY DEF TakesCallback
<1>2. /\ l = -L
      /\ \A i \in 1..L : callbacks'[c][i] = callbacks[c][i + 1]
    BY <1>1 DEF TakesCallback
<1> TAKE n \in Int
<1> TAKE p
<1>3. /\ Serves(c, p)' <=> Serves(c, p)
      /\ \A i : Queued(i, c, p)' <=> Queued(i, c, p)
    BY DEF Serves, Queued, AtService, AtQueue
<1> DEFINE At(i) == callbacks[c][i].ok /\ callbacks[c][i].param = p
<1>4. Place(c, p, n) <=>
          /\ p # NoParam
          /\ \/ \E i \in 1..L + 1 : n = i - (L + 1) /\ At(i)
             \/ n = 1 /\ Serves(c, p)
             \/ \E i \in 1..Len(queue) : n = i + 1 /\ Queued(i, c, p)
    BY <1>1 DEF Place
<1>5. Place(c, p, n)' <=>
          /\ p # NoParam
          /\ \/ \E i \in 1..L : n = i - L /\ At(i + 1)
             \/ n = 1 /\ Serves(c, p)
             \/ \E i \in 1..Len(queue) : n = i + 1 /\ Queued(i, c, p)
    BY <1>1, <1>2, <1>3 DEF Place
<1> HIDE DEF At
<1>q. PICK Q : Q = Len(queue)
    OBVIOUS
<1>6. /\ \A i \in 1..L : n = i - L =>
             i + 1 \in 1..L + 1 /\ n = (i + 1) - (L + 1) /\ n # -L
      /\ n = 1 => n # -L /\ n >= -L
      /\ \A i \in 1..Len(queue) : n = i + 1 => n # -L /\ n >= -L
      /\ \A i \in 1..L + 1 : n = i - (L + 1) => n >= -L
    <2>1. \A i \in 1..L : n = i - L =>
             i + 1 \in 1..L + 1 /\ n = (i + 1) - (L + 1) /\ n # -L
        OBVIOUS
    <2>2. n = 1 => n # -L /\ n >= -L
        OBVIOUS
    <2>3. \A i \in 1..Q : n = i + 1 => n # -L /\ n >= -L
        OBVIOUS
    <2>4. \A i \in 1..L + 1 : n = i - (L + 1) => n >= -L
        OBVIOUS
    <2> QED
        BY <1>q, <2>1, <2>2, <2>3, <2>4
<1>7. \A i \in 1..L + 1 : n = i - (L + 1) /\ At(i) =>
          (\E j \in 1..L : n = j - L /\ At(j + 1)) \/ (n = -L /\ At(1))
    <2> TAKE i \in 1..L + 1
    <2>1. CASE i = 1
        BY <2>1
    <2>2. CASE i # 1
        <3>1. PICK j \in 1..L : i = j + 1
            BY <2>2
        <3>2. n = i - (L + 1) => n = j - L
            BY <3>1
        <3> QED
            BY <3>1, <3>2
    <2> QED
        BY <2>1, <2>2
<1>8. Place(c, p, n)' => Place(c, p, n) /\ n # l
    <2>1. ASSUME NEW i \in 1..L, n = i - L, At(i + 1)
          PROVE  (\E j \in 1..L + 1 : n = j - (L + 1) /\ At(j)) /\ n # l
        <3>1. PICK j \in 1..L + 1 : j = i + 1
            BY <1>6, <2>1
        <3>2. n = j - (L + 1) /\ n # l /\ At(j)
            BY <1>2, <1>6, <2>1, <3>1
        <3> QED
            BY <3>2
    <2> QED
        BY <1>2, <1>4, <1>5, <1>6, <2>1
<1>9. Place(c, p, n) => Place(c, p, n)' \/ (n = l /\ At(1))
    BY <1>2, <1>4, <1>5, <1>7
<1>10. Place(c, p, n) => n >= l
    BY <1>2, <1>4, <1>6
<1> QED
    BY <1>8, <1>9, <1>10 DEF At

\* The callback that is taken is that of the first request, or of none.
LEMMA FirstIsTaken ==
    ASSUME Types, NEW c \in Core, OrderTypes, SentInOrder(c), TakesCallback(c),
           queue' = queue, request' = request, service' = service,
           callbacks[c][1].ok,
           order'[c] = Tail(order[c])
    PROVE  SentInOrder(c)' /\ order'[c] \in Seq(Params) /\ \A p : Sent(c, p)' => Sent(c, p)
<1> DEFINE p0 == callbacks[c][1].param
           N == Len(order[c])
<1>0. 1 - Len(callbacks[c]) \in Int
    BY DEF TakesCallback
<1>1. PICK l \in Int : l = 1 - Len(callbacks[c])
    BY <1>0
<1>2. 1 \in 1..Len(callbacks[c]) /\ p0 \in Params /\ p0 # NoParam
    <2>1. 1 \in 1..Len(callbacks[c])
        BY DEF TakesCallback
    <2> QED
        BY <2>1, CallbackTypes DEF OrderTypes
<1>3. Place(c, p0, l)
    BY <1>1, <1>2, PlaceIs DEF PlaceRule
<1>4. /\ N \in Nat /\ order[c] \in Seq(Params) /\ \A i \in 1..N : order[c][i] \in Params
      /\ \A p : Sent(c, p) <=> \E i \in 1..N : order[c][i] = p
    BY SentIs
<1>5. PICK k \in 1..N : order[c][k] = p0
    BY <1>2, <1>3, <1>4 DEF SentInOrder
<1>6. 1 \in 1..N /\ N \in Nat \ {0} /\ order[c] # <<>>
    BY <1>4, <1>5
<1>7. /\ order'[c] \in Seq(Params) /\ Len(order'[c]) = N - 1
      /\ \A i \in 1..N - 1 : order'[c][i] = order[c][i + 1]
    BY <1>4, <1>6, TailIs
<1>o. \A n \in Int : \A p :
                /\ Place(c, p, n)' => Place(c, p, n) /\ n # l
                /\ Place(c, p, n) => Place(c, p, n)' \/ (n = l /\ p0 = p)
                /\ Place(c, p, n) => n >= l
    BY <1>1, OldestPlace
<1> HIDE DEF p0, N
<1>8. \A i, j \in 1..N, n, m \in Int :
          Place(c, order[c][i], n) /\ Place(c, order[c][j], m) => (i < j <=> n < m)
    BY DEF SentInOrder, N
<1>9. k = 1
    <2>1. PICK n \in Int : Place(c, order[c][1], n)
        BY <1>6 DEF SentInOrder, N
    <2>2. 1 < k <=> n < l
        BY <1>3, <1>5, <1>6, <1>8, <2>1
    <2>3. n >= l
        BY <1>o, <2>1
    <2> QED
        BY <1>4, <2>2, <2>3
<1>10. \A i \in 1..N - 1 : i + 1 \in 1..N /\ i + 1 # 1
    BY <1>4
\* No other request is at the place that is lost.
<1>11. ASSUME NEW i \in 1..N - 1, NEW n \in Int, Place(c, order[c][i + 1], n)
       PROVE  n # l /\ order[c][i + 1] # p0
    <2>1. 1 < i + 1 <=> l < n
        BY <1>3, <1>5, <1>6, <1>8, <1>9, <1>10, <1>11
    <2>2. n # l
        BY <2>1
    <2>3. p0 \in Params
        BY <1>2 DEF p0
    <2>4. order[c][i + 1] = p0 => n = l
        BY <1>3, <1>11, <2>3, OnlyPlace
    <2> QED
        BY <2>2, <2>4
<1>s. /\ \A p : Sent(c, p)' <=> \E i \in 1..N - 1 : order'[c][i] = p
      /\ \A i \in 1..N - 1 : order'[c][i] \in Params
    <2>1. DOMAIN order'[c] = 1..N - 1
        BY <1>7, ElementsOf
    <2> QED
        BY <1>4, <1>7, <1>10, <2>1 DEF Sent
<1>12. ASSUME NEW i \in 1..N - 1 PROVE \E n \in Int : Place(c, order[c][i], n)'
    <2>1. PICK n \in Int : Place(c, order[c][i + 1], n)
        BY <1>10 DEF SentInOrder, N
    <2>2. PICK p : p = order[c][i + 1]
        OBVIOUS
    <2>3. n # l /\ order'[c][i] = p
        BY <1>7, <1>11, <2>1, <2>2
    <2>4. Place(c, p, n)'
        BY <1>11, <1>o, <2>1, <2>2
    <2> QED
        BY <2>3, <2>4
<1>13. ASSUME NEW p \in Params, NEW n \in Int, Place(c, p, n)' PROVE Sent(c, p)'
    <2>1. Place(c, p, n) /\ n # l
        BY <1>o, <1>13
    <2>2. PICK i \in 1..N : order[c][i] = p
        BY <1>4, <2>1 DEF SentInOrder
    <2>3. i # 1
        <3>1. ASSUME i = 1 PROVE FALSE
            <4>1. Place(c, p, l)
                BY <1>3, <1>5, <1>9, <2>2, <3>1
            <4> QED
                BY <2>1, <4>1, OnlyPlace
        <3> QED
            BY <3>1
    <2>4. PICK j \in 1..N - 1 : i = j + 1
        BY <1>4, <2>3
    <2> QED
        BY <1>7, <1>s, <2>2, <2>4
<1>14. ASSUME NEW i \in 1..N - 1, NEW j \in 1..N - 1, NEW n \in Int, NEW m \in Int,
              Place(c, order[c][i], n)', Place(c, order[c][j], m)'
       PROVE  i < j <=> n < m
    <2>1. PICK p, q : p = order'[c][i] /\ q = order'[c][j]
        OBVIOUS
    <2>2. Place(c, p, n)' /\ Place(c, q, m)'
        BY <1>14, <2>1
    <2>3. Place(c, p, n) /\ Place(c, q, m)
        BY <1>o, <2>2
    <2>4. p = order[c][i + 1] /\ q = order[c][j + 1]
        BY <1>7, <2>1
    <2>5. i + 1 < j + 1 <=> n < m
        BY <1>8, <1>10, <2>3, <2>4
    <2> QED
        BY <1>4, <2>5
<1>15. SentInOrder(c)'
    BY <1>7, <1>12, <1>13, <1>14 DEF SentInOrder
<1>16. \A p : Sent(c, p)' => Sent(c, p)
    BY <1>4, <1>7, <1>10, <1>s
<1> QED
    BY <1>7, <1>15, <1>16

\* The callback that is called is not there a second time.
LEMMA TakenOnce ==
    ASSUME NEW c \in Core, TakesCallback(c), CalledOnce(c), HeldIsNew(c),
           \A p : Sent(c, p)' => Sent(c, p), \A p \in Params : Held(c, p)' => Held(c, p)
    PROVE  /\ HeldIsNew(c)' /\ CalledOnce(c)'
           /\ \A i \in 1..Len(callbacks'[c]) : \E j \in 1..Len(callbacks[c]) :
                  callbacks'[c][i] = callbacks[c][j]
<1>1. PICK L \in Nat : L + 1 = Len(callbacks[c]) /\ L = Len(callbacks'[c])
    BY DEF TakesCallback
<1>2. \A i \in 1..L : callbacks'[c][i] = callbacks[c][i + 1]
    BY <1>1 DEF TakesCallback
<1>3. \A i \in 1..L : i \in Int /\ i + 1 \in 1..L + 1
    OBVIOUS
<1>4. \A p : Called(c, p)' => Called(c, p)
    BY <1>1, <1>2, <1>3 DEF Called
<1>5. HeldIsNew(c)'
    BY <1>4 DEF HeldIsNew
<1>6. ASSUME NEW i \in 1..L, NEW j \in 1..L, callbacks'[c][i].param = callbacks'[c][j].param
      PROVE  i = j
    <2>1. callbacks[c][i + 1].param = callbacks[c][j + 1].param
        BY <1>2, <1>6
    <2>2. i + 1 = j + 1
        BY <1>1, <1>3, <2>1 DEF CalledOnce
    <2> QED
        BY <1>3, <2>2
<1>7. ASSUME NEW i \in 1..L, ~callbacks'[c][i].ok PROVE ~Sent(c, callbacks[c][i].param)'
    <2>1. PICK p : p = callbacks[c][i + 1].param
        OBVIOUS
    <2>2. ~Sent(c, p)'
        BY <1>1, <1>2, <1>3, <1>7, <2>1 DEF CalledOnce
    <2>3. p = callbacks'[c][i].param
        BY <1>2, <2>1
    <2> QED
        BY <2>2, <2>3
<1>8. CalledOnce(c)'
    BY <1>1, <1>6, <1>7 DEF CalledOnce
<1> QED
    BY <1>1, <1>2, <1>3, <1>5, <1>8

LEMMA CallbacksOrder ==
    ASSUME Types, OrderPart, NEW c \in Core, IPCThreadCalls(c)
    PROVE  OrderPart'
<1>1. /\ callbacks[c] # <<>> /\ callbacks' = [callbacks EXCEPT ![c] = Tail(@)]
      /\ order' = IF Head(callbacks[c]).ok THEN [order EXCEPT ![c] = Tail(@)] ELSE order
      /\ UNCHANGED <<request, queue, service, pc, mine>>
    BY DEF IPCThreadCalls, serviceVars, guestVars
<1>2. /\ callbacks \in [Core -> Seq([param : Params, ok : BOOLEAN])]
      /\ callbacks[c] \in Seq([param : Params, ok : BOOLEAN])
      /\ order \in [Core -> Seq(Params)]
    BY DEF Types, DriverTypes, OrderPart, OrderTypes
<1>3. callbacks'[c] = Tail(callbacks[c]) /\ \A d \in Core : d # c => callbacks'[d] = callbacks[d]
    BY <1>1, <1>2
<1>4. TakesCallback(c) /\ Head(callbacks[c]) = callbacks[c][1]
    <2> DEFINE S == [param : Params, ok : BOOLEAN]
    <2>1. callbacks[c] \in Seq(S)
        BY <1>2
    <2> HIDE DEF S
    <2> QED
        BY <1>1, <1>3, <2>1, TailIs DEF TakesCallback
<1>5. /\ \A d \in Core : d # c => order'[d] = order[d]
      /\ callbacks[c][1].ok => order'[c] = Tail(order[c])
      /\ ~callbacks[c][1].ok => order'[c] = order[c]
      /\ DOMAIN order' = Core /\ order' = [d \in Core |-> order'[d]]
    BY <1>1, <1>2, <1>4
<1>6. \A d \in Core : \A p :
          /\ Held(d, p)' => Held(d, p)
          /\ Serves(d, p)' <=> Serves(d, p)
          /\ \A i \in 1..Len(queue) : Queued(i, d, p)' <=> Queued(i, d, p)
    BY <1>1 DEF Held, Serves, Queued, AtThread, AtService, AtQueue
<1>7. SentInOrder(c)' /\ order'[c] \in Seq(Params) /\ \A p : Sent(c, p)' => Sent(c, p)
    <2>1. CASE callbacks[c][1].ok
        BY <1>1, <1>4, <1>5, <2>1, FirstIsTaken DEF OrderPart
    <2>2. CASE ~callbacks[c][1].ok
        <3>0. 1 - Len(callbacks[c]) \in Int
            BY <1>4 DEF TakesCallback
        <3>1. PICK l \in Int : l = 1 - Len(callbacks[c])
            BY <3>0
        <3>2. \A p \in Params, n \in Int : Place(c, p, n)' <=> Place(c, p, n)
            BY <1>1, <1>4, <2>2, <3>1, OldestPlace
        <3>3. order'[c] = order[c]
            BY <1>5, <2>2
        <3>4. SentInOrder(c)'
            BY <3>2, <3>3, PlacesSame DEF OrderPart
        <3>5. \A p : Sent(c, p)' => Sent(c, p)
            BY <3>3 DEF Sent
        <3> QED
            BY <1>2, <3>3, <3>4, <3>5
    <2> QED
        BY <2>1, <2>2
<1>8. /\ HeldIsNew(c)' /\ CalledOnce(c)'
      /\ \A i \in 1..Len(callbacks'[c]) : \E j \in 1..Len(callbacks[c]) :
             callbacks'[c][i] = callbacks[c][j]
    BY <1>4, <1>6, <1>7, TakenOnce DEF OrderPart
<1>9. ASSUME NEW d \in Core, d # c PROVE SentInOrder(d)' /\ HeldIsNew(d)' /\ CalledOnce(d)'
    <2>1. \A p \in Params, n \in Int : Place(d, p, n)' <=> Place(d, p, n)
        BY <1>1, <1>3, <1>6, <1>9, SamePlaces
    <2> QED
        BY <1>3, <1>5, <1>6, <1>9, <2>1, QuietCore
<1>10. OrderTypes'
    <2>1. order' \in [Core -> Seq(Params)]
        BY <1>2, <1>5, <1>7
    <2>2. ASSUME NEW d \in Core, NEW i \in 1..Len(callbacks'[d])
          PROVE  callbacks'[d][i].param \in Param[d] \ {NoParam}
        <3>1. CASE d = c
            BY <1>8, <2>2, <3>1 DEF OrderPart, OrderTypes
        <3>2. CASE d # c
            BY <1>3, <2>2, <3>2 DEF OrderPart, OrderTypes
        <3> QED
            BY <3>1, <3>2
    <2> QED
        BY <1>1, <2>1, <2>2 DEF OrderPart, OrderTypes
<1> QED
    BY <1>7, <1>8, <1>9, <1>10 DEF OrderPart
-----------------------------------------------------------------------------
(* OrderPart holds.                                                        *)

LEMMA OrderPartInit ==
    ASSUME Init
    PROVE  OrderPart
<1>1. /\ \A c \in Core : callbacks[c] = <<>> /\ order[c] = <<>>
      /\ order = [c \in Core |-> <<>>] /\ queue = <<>>
      /\ \A c \in Core, b \in Buffer : request[c][b].param = NoParam
      /\ service.at = "receive" /\ \A t \in Thread : pc[t] = "idle"
    BY ReceivingIs DEF Init, NoRequest
<1>2. /\ \A c \in Core : callbacks[c] = <<>> /\ order[c] = <<>>
      /\ order \in [Core -> Seq(Params)]
    BY <1>1
<1>3. OrderTypes
    BY <1>1, <1>2 DEF OrderTypes, Serving
<1>4. \A c \in Core : \A p, n : ~Place(c, p, n) /\ ~Held(c, p)
    BY <1>1 DEF Place, Held, Serves, Queued, AtThread, AtService, AtQueue, Serving, InHand
<1>5. \A c \in Core : Len(order[c]) = 0 /\ Len(callbacks[c]) = 0
    BY <1>1
<1> QED
    BY <1>3, <1>4, <1>5 DEF OrderPart, SentInOrder, HeldIsNew, CalledOnce

LEMMA SendMessageOrder ==
    ASSUME BufferPart, OrderPart, NEW t \in Thread, SendMessage(t)
    PROVE  OrderPart'
<1> USE DEF BufferPart
<1>1. SendEffect(t) \/ (KeepsRequest(t) /\ pc'[t] = "fail")
    BY SendMessageDoes
<1>2. pc'[t] = "fail" => order' = order
    <2>1. CASE Len(queue) < QueueSize
        <3>1. pc' = [pc EXCEPT ![t] = IF mine[t].async THEN "idle" ELSE "wait"]
            BY <2>1 DEF SendMessage, Leave, Goes
        <3> QED
            BY <3>1 DEF Types, ThreadTypes
    <2> QED
        BY <2>1 DEF SendMessage
<1>3. CASE KeepsRequest(t) /\ pc'[t] = "fail"
    BY <1>2, <1>3, KeepsRequestOrder
<1>4. CASE SendEffect(t)
    <2>1. pc'[t] # "fail"
        BY <1>4 DEF SendEffect, LeaveEffect
    <2>2. Len(queue) < QueueSize
        <3>1. ~(Len(queue) < QueueSize) => pc' = [pc EXCEPT ![t] = "fail"]
            BY DEF SendMessage, Goes
        <3> QED
            BY <2>1, <3>1 DEF Types, ThreadTypes
    <2>3. order' = IF mine[t].async
                   THEN [order EXCEPT ![CoreOf[t]] =
                             Append(@, request[CoreOf[t]][mine[t].buffer].param)]
                   ELSE order
        BY <2>2 DEF SendMessage
    <2> QED
        BY <1>4, <2>3, SendOrder
<1> QED
    BY <1>1, <1>3, <1>4

LEMMA OrderPartStays ==
    ASSUME FewRequests, BufferPart, OrderPart, [Next]_vars
    PROVE  OrderPart'
<1> USE DEF BufferPart
<1>1. ASSUME NEW t \in Thread, Call(t) PROVE OrderPart'
    <2>1. PICK op \in Ops, h \in HandleType, p \in Params, to \in {"open", "dispatch", "fail"},
               b \in Buffer : CallEffect(t, op, h, p, to, b)
        BY <1>1, CallDoes
    <2>2. to \in InHand
        BY DEF InHand
    <2> QED
        BY <2>1, <2>2, CallOrder
<1>2. ASSUME NEW t \in Thread, ThreadStep(t) PROVE OrderPart'
    <2>1. CASE FindSlot(t)
        BY <2>1, FindSlotDoes, KeepsRequestOrder DEF FindSlotEffect, FindSlot
    <2>2. CASE ClaimSlot(t)
        BY <2>2, ClaimSlotDoes, KeepsRequestOrder DEF ClaimSlotEffect, ClaimSlot
    <2>3. CASE Dispatch(t)
        BY <2>3, DispatchDoes, KeepsRequestOrder DEF DispatchEffect, Dispatch
    <2>4. CASE SendMessage(t)
        BY <2>4, SendMessageOrder
    <2>5. CASE Fail(t)
        BY <2>5, FailDoes, FailOrder DEF Fail
    <2>6. CASE FailRespond(t)
        BY <2>6, FailRespondDoes, FailRespondOrder DEF FailRespond
    <2>7. CASE FailRelease(t)
        BY <2>7, FailReleaseDoes, FailReleaseOrder DEF FailRelease
    <2>8. CASE WaitReturns(t)
        BY <2>8, WaitReturnsDoes, WaitReturnsOrder DEF WaitReturns
    <2> QED
        BY <1>2, <2>1, <2>2, <2>3, <2>4, <2>5, <2>6, <2>7, <2>8 DEF ThreadStep
<1>3. ASSUME NEW c \in Core, IPCThreadCalls(c) PROVE OrderPart'
    BY <1>3, CallbacksOrder
<1>4. CASE ServiceStep
    <2>1. CASE ReceiveMessage
        BY <2>1, ReceiveMessageDoes, ReceiveOrder DEF ReceiveMessage
    <2>2. CASE ServeOpen
        BY <2>2, ServeOpenDoes, ServiceMovesOrder DEF ServeOpenEffect, ServeOpen
    <2>3. CASE ServeClose
        BY <2>3, ServeCloseDoes, ServiceMovesOrder DEF ServeCloseEffect, ServeClose
    <2>4. CASE ServeIoctl
        BY <2>4, ServeIoctlDoes, ServiceMovesOrder DEF ServeIoctlEffect, ServeIoctl
    <2>5. CASE AssignTarget
        BY <2>5, AssignTargetDoes, ServiceMovesOrder DEF AssignTargetEffect, AssignTarget
    <2>6. CASE DestroyHandle
        <3>1. order' = order /\ (RefuseEffect \/ DestroyEffect)
            BY <2>6, DestroyHandleDoes DEF DestroyHandle
        <3>2. CASE RefuseEffect
            BY <3>1, <3>2, ServiceMovesOrder DEF RefuseEffect
        <3>3. CASE DestroyEffect
            BY <3>1, <3>3, ReceivingIs, ServiceRestsOrder DEF DestroyEffect, Serving
        <3> QED
            BY <3>1, <3>2, <3>3
    <2>7. CASE Reply
        BY <2>7, ReplyDoes, ReplyOrder DEF Reply
    <2>8. CASE ReplyRespond
        BY <2>8, ReplyRespondDoes, ReplyRespondOrder DEF ReplyRespond
    <2>9. CASE ReplyRelease
        <3>1. order' = order /\ ServiceReleaseEffect
            BY <2>9, ReplyReleaseDoes DEF ReplyRelease
        <3>2. UNCHANGED <<request, callbacks, queue, pc, mine>>
            BY <3>1 DEF ServiceReleaseEffect, ReleaseEffect
        <3>3. service.at \notin Serving /\ service'.at \notin Serving
            BY <3>1, ReceivingIs DEF ServiceReleaseEffect, Serving
        <3> QED
            BY <3>1, <3>2, <3>3, ServiceRestsOrder
    <2> QED
        BY <1>4, <2>1, <2>2, <2>3, <2>4, <2>5, <2>6, <2>7, <2>8, <2>9 DEF ServiceStep
<1>5. CASE UNCHANGED vars
    <2>1. UNCHANGED <<request, callbacks, queue, service, pc, mine, order>>
        BY <1>5 DEF vars, driverVars, serviceVars, guestVars
    <2>2. \A c \in Core, b \in Buffer :
              /\ AtService(c, b)' <=> AtService(c, b)
              /\ \A t \in Thread : AtThread(t, c, b)' => AtThread(t, c, b)
        BY <2>1 DEF AtService, AtThread
    <2> QED
        BY <2>1, <2>2, QuietStep DEF OrderPart, OrderTypes
<1> QED
    BY <1>1, <1>2, <1>3, <1>4, <1>5 DEF Next

LEMMA OrderPartInv ==
    ASSUME FewRequests
    PROVE  Spec => [](BufferPart /\ OrderPart)
<1>1. Init => BufferPart /\ OrderPart
    BY BufferPartInit, OrderPartInit
<1>2. BufferPart /\ OrderPart /\ [Next]_vars => (BufferPart /\ OrderPart)'
    BY BufferPartStays, OrderPartStays
<1> QED
    BY <1>1, <1>2, PTL DEF Spec

(* The callbacks of a core run in the order in which its asynchronous      *)
(* requests were sent to the service (IPCDriver_HandleResponse and         *)
(* __IPCDriverThreadFunc), if no more of them are on their way than the    *)
(* queue of its IPC thread holds.                                          *)
THEOREM CallbacksRunInOrder ==
    ASSUME FewRequests
    PROVE  Spec => []CallbacksInOrder
<1>1. BufferPart /\ OrderPart => CallbacksInOrder
    BY OrderIsKept
<1> QED
    BY <1>1, OrderPartInv, PTL

(* Every callback finds room in the queue of its IPC thread, to which      *)
(* IPCDriver_HandleResponse sends it without a look at the outcome, under  *)
(* the same condition.                                                     *)
THEOREM CallbacksFindRoom ==
    ASSUME FewRequests
    PROVE  Spec => []CallbacksAreKept
<1>1. BufferPart /\ OrderPart => CallbacksAreKept
    BY AnswersFindRoom
<1> QED
    BY <1>1, OrderPartInv, PTL
=============================================================================
