---------------------------- MODULE MessageQueue ----------------------------
(***************************************************************************)
(* OSMessageQueue (coreinit_MessageQueue.cpp): a ring of messages with a   *)
(* wait queue for blocked receivers and one for blocked senders.  A pass   *)
(* through the loop of OSReceiveMessage or OSSendMessage holds the         *)
(* scheduler lock from its test to its wait or return and is one action.   *)
(*                                                                         *)
(* A woken thread goes on whenever the scheduler gets to it, so others may *)
(* overtake it.  The order of a wait queue depends on priorities the guest *)
(* may change at any time: any waiting thread may be the one woken.        *)
(***************************************************************************)
EXTENDS Naturals, Sequences, FiniteSets

CONSTANTS Thread, Message, MsgCount, NoMessage

ASSUME MessageQueueAssumption ==
    /\ MsgCount \in Nat \ {0}
    /\ NoMessage \notin Message
    /\ IsFiniteSet(Thread)

VARIABLES
    firstIndex, usedCount, msgArray,
    threadQueueReceive, threadQueueSend,    \* the threads linked in them
    call,   \* the call a thread is blocked in, or was woken from
    got     \* the message a thread's last receive or peek copied out

ring == <<firstIndex, usedCount, msgArray>>
vars == <<firstIndex, usedCount, msgArray, threadQueueReceive,
          threadQueueSend, call, got>>

NoCall == [op |-> "none"]
Receiving == [op |-> "receive"]
Sending(m, high) == [op |-> "send", msg |-> m, high |-> high]
Call == {NoCall, Receiving} \cup {Sending(m, h) : m \in Message, h \in BOOLEAN}

\* OSInitMessageQueueEx
Init ==
    /\ firstIndex = 0 /\ usedCount = 0
    /\ msgArray = [i \in 0..MsgCount - 1 |-> NoMessage]
    /\ threadQueueReceive = {} /\ threadQueueSend = {}
    /\ call = [t \in Thread |-> NoCall]
    /\ got = [t \in Thread |-> NoMessage]

\* wakeupSingleThreadWaitQueue, for a queue q that is left as r
WakeSingle(q, r) == IF q = {} THEN r = q ELSE \E t \in q : r = q \ {t}
-----------------------------------------------------------------------------
\* Mutant: a sender is woken only when the ring was full.
TakeMessageWakesIfFull(t) ==
    /\ usedCount > 0
    /\ got' = [got EXCEPT ![t] = msgArray[firstIndex]]
    /\ firstIndex' = (firstIndex + 1) % MsgCount
    /\ usedCount' = usedCount - 1
    /\ IF usedCount = MsgCount THEN WakeSingle(threadQueueSend, threadQueueSend')
                               ELSE UNCHANGED threadQueueSend
    /\ call' = [call EXCEPT ![t] = NoCall]
    /\ UNCHANGED <<msgArray, threadQueueReceive>>

TakeMessage(t) ==
    /\ usedCount > 0
    /\ got' = [got EXCEPT ![t] = msgArray[firstIndex]]
    /\ firstIndex' = (firstIndex + 1) % MsgCount
    /\ usedCount' = usedCount - 1
    /\ WakeSingle(threadQueueSend, threadQueueSend')
    /\ call' = [call EXCEPT ![t] = NoCall]
    /\ UNCHANGED <<msgArray, threadQueueReceive>>

WaitToReceive(t) ==
    /\ usedCount = 0
    /\ threadQueueReceive' = threadQueueReceive \cup {t}
    /\ call' = [call EXCEPT ![t] = Receiving]
    /\ UNCHANGED <<ring, threadQueueSend, got>>

\* OSReceiveMessage of a thread that is in no call; without OS_MESSAGE_BLOCK
\* it fails on an empty queue.
OSReceiveMessage(t, block) ==
    /\ call[t] = NoCall
    /\ \/ TakeMessage(t)
       \/ block /\ WaitToReceive(t)
       \/ /\ ~block /\ usedCount = 0
          /\ got' = [got EXCEPT ![t] = NoMessage]
          /\ UNCHANGED <<ring, threadQueueReceive, threadQueueSend, call>>

\* A woken receiver tests the queue again.
ReceiveWoken(t) ==
    /\ call[t] = Receiving /\ t \notin threadQueueReceive
    /\ TakeMessage(t) \/ WaitToReceive(t)

OSPeekMessage(t) ==
    /\ call[t] = NoCall
    /\ got' = [got EXCEPT ![t] = IF usedCount = 0 THEN NoMessage
                                 ELSE msgArray[firstIndex]]
    /\ UNCHANGED <<ring, threadQueueReceive, threadQueueSend, call>>
-----------------------------------------------------------------------------
\* Mutant: the message in front goes to the first index, not before it.
PutMessageAtFirst(t, m, high) ==
    LET index == IF high THEN firstIndex ELSE (firstIndex + usedCount) % MsgCount IN
    /\ usedCount < MsgCount
    /\ usedCount' = usedCount + 1
    /\ msgArray' = [msgArray EXCEPT ![index] = m]
    /\ WakeSingle(threadQueueReceive, threadQueueReceive')
    /\ call' = [call EXCEPT ![t] = NoCall]
    /\ UNCHANGED <<firstIndex, threadQueueSend, got>>

\* Mutant: a receiver is woken only when the ring was empty.
PutMessageWakesIfEmpty(t, m, high) ==
    LET index == (firstIndex + (IF high THEN MsgCount - 1 ELSE usedCount)) % MsgCount IN
    /\ usedCount < MsgCount
    /\ firstIndex' = IF high THEN index ELSE firstIndex
    /\ usedCount' = usedCount + 1
    /\ msgArray' = [msgArray EXCEPT ![index] = m]
    /\ IF usedCount = 0 THEN WakeSingle(threadQueueReceive, threadQueueReceive')
                        ELSE UNCHANGED threadQueueReceive
    /\ call' = [call EXCEPT ![t] = NoCall]
    /\ UNCHANGED <<threadQueueSend, got>>

\* With OS_MESSAGE_HIGH_PRIORITY in front of the first message.
PutMessage(t, m, high) ==
    LET index == (firstIndex + (IF high THEN MsgCount - 1 ELSE usedCount)) % MsgCount IN
    /\ usedCount < MsgCount
    /\ firstIndex' = IF high THEN index ELSE firstIndex
    /\ usedCount' = usedCount + 1
    /\ msgArray' = [msgArray EXCEPT ![index] = m]
    /\ WakeSingle(threadQueueReceive, threadQueueReceive')
    /\ call' = [call EXCEPT ![t] = NoCall]
    /\ UNCHANGED <<threadQueueSend, got>>

WaitToSend(t, m, high) ==
    /\ usedCount >= MsgCount
    /\ threadQueueSend' = threadQueueSend \cup {t}
    /\ call' = [call EXCEPT ![t] = Sending(m, high)]
    /\ UNCHANGED <<ring, threadQueueReceive, got>>

\* OSSendMessage; without OS_MESSAGE_BLOCK it fails on a full queue and
\* changes nothing.
OSSendMessage(t, m, block, high) ==
    /\ call[t] = NoCall
    /\ PutMessage(t, m, high) \/ (block /\ WaitToSend(t, m, high))

SendWoken(t) ==
    /\ call[t].op = "send" /\ t \notin threadQueueSend
    /\ \/ PutMessage(t, call[t].msg, call[t].high)
       \/ WaitToSend(t, call[t].msg, call[t].high)
-----------------------------------------------------------------------------
Next ==
    \E t \in Thread :
        \/ \E block \in BOOLEAN : OSReceiveMessage(t, block)
        \/ \E m \in Message, block, high \in BOOLEAN : OSSendMessage(t, m, block, high)
        \/ OSPeekMessage(t)
        \/ ReceiveWoken(t)
        \/ SendWoken(t)

Spec == Init /\ [][Next]_vars

\* A woken thread is scheduled in the end.
Fairness == \A t \in Thread : WF_vars(ReceiveWoken(t)) /\ WF_vars(SendWoken(t))

FairSpec == Spec /\ Fairness
-----------------------------------------------------------------------------
\* The ring indices stay in the array, and the wait queues hold threads that
\* are blocked in the call the queue is for.
TypeOK ==
    /\ firstIndex \in 0..MsgCount - 1
    /\ usedCount \in 0..MsgCount
    /\ msgArray \in [0..MsgCount - 1 -> Message \cup {NoMessage}]
    /\ call \in [Thread -> Call]
    /\ threadQueueReceive \subseteq {t \in Thread : call[t] = Receiving}
    /\ threadQueueSend \subseteq {t \in Thread : call[t].op = "send"}
    /\ got \in [Thread -> Message \cup {NoMessage}]

WokenReceivers == {t \in Thread : call[t] = Receiving} \ threadQueueReceive
WokenSenders == {t \in Thread : call[t].op = "send"} \ threadQueueSend

\* Each send wakes one receiver at most.  Though others take messages before
\* the woken receivers run, no receiver sleeps beside a message that no woken
\* receiver is on its way to.
NoReceiverForgotten ==
    threadQueueReceive # {} => usedCount <= Cardinality(WokenReceivers)

\* The same for senders and free places.
NoSenderForgotten ==
    threadQueueSend # {} => MsgCount - usedCount <= Cardinality(WokenSenders)

\* The ring, read from its first index, is the bounded deque.
Messages == [i \in 1..usedCount |-> msgArray[(firstIndex + i - 1) % MsgCount]]

Deque == INSTANCE BoundedDeque WITH deque <- Messages, Capacity <- MsgCount

DequeSpec == Deque!Spec

\* Receivers and senders never wait at the same time for good: while somebody
\* waits to receive, the messages are taken, and while somebody waits to send,
\* the places are filled.
MessagesAreTaken ==
    /\ threadQueueReceive # {} ~> threadQueueReceive = {} \/ usedCount = 0
    /\ threadQueueSend # {} ~> threadQueueSend = {} \/ usedCount = MsgCount
=============================================================================
