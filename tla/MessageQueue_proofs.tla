------------------------ MODULE MessageQueue_proofs ------------------------
(***************************************************************************)
(* For any number of threads, messages and places: no receiver and no      *)
(* sender is forgotten, and the ring implements the bounded deque.         *)
(***************************************************************************)
EXTENDS MessageQueue, FiniteSetTheorems, SequenceTheorems, TLAPS

IInv == TypeOK /\ NoReceiverForgotten /\ NoSenderForgotten

\* The thread makes its call now, or was woken from it.
MayReceive(t) == call[t] = NoCall \/ t \in WokenReceivers
MaySend(t) == call[t] = NoCall \/ t \in WokenSenders

\* The remainder of an index that wraps at most once.
LEMMA Wrap ==
    ASSUME NEW n \in Nat \ {0}, NEW x \in 0..2 * n - 1
    PROVE  x % n = IF x < n THEN x ELSE x - n
<1>1. CASE x < n
  BY <1>1
<1>2. CASE x >= n
  <2>1. x - n \in 0..n - 1
    BY <1>2
  <2>2. x = 1 * n + (x - n)
    BY <2>1
  <2>. QED
    BY <1>2, <2>1, <2>2
<1>. QED
  BY <1>1, <1>2

LEMMA WrapIndex ==
    \A x \in 0..2 * MsgCount - 1 :
        x % MsgCount = IF x < MsgCount THEN x ELSE x - MsgCount
  BY Wrap, MessageQueueAssumption

\* The calls are told apart by their operation.
LEMMA CallKinds ==
    /\ NoCall \in Call /\ NoCall.op = "none"
    /\ Receiving \in Call /\ Receiving.op = "receive"
    /\ \A m \in Message, h \in BOOLEAN :
           Sending(m, h) \in Call /\ Sending(m, h).op = "send"
    /\ \A k \in Call : k.op = "send" =>
           k.msg \in Message /\ k.high \in BOOLEAN
<1>1. /\ NoCall \in Call /\ NoCall.op = "none"
      /\ Receiving \in Call /\ Receiving.op = "receive"
  BY DEF Call, NoCall, Receiving
<1>2. ASSUME NEW m \in Message, NEW h \in BOOLEAN
      PROVE  /\ Sending(m, h) \in Call
             /\ Sending(m, h).op = "send"
             /\ Sending(m, h).msg = m /\ Sending(m, h).high = h
  BY DEF Call, Sending
<1>3. ASSUME NEW k \in Call, k.op = "send"
      PROVE  k.msg \in Message /\ k.high \in BOOLEAN
  <2>1. PICK m \in Message, h \in BOOLEAN : k = Sending(m, h)
    BY <1>1, <1>3 DEF Call
  <2>. QED
    BY <1>2, <2>1
<1>. QED
  BY <1>1, <1>2, <1>3

\* Waking one thread of a queue q empties it or makes one thread more awake.
LEMMA WakeCounts ==
    ASSUME NEW S, IsFiniteSet(S), NEW q, q \subseteq S, NEW r, WakeSingle(q, r),
           NEW n \in Nat, q # {} => n <= Cardinality(S \ q)
    PROVE  /\ r \subseteq q
           /\ r # {} => n + 1 <= Cardinality(S \ r)
<1>1. CASE q = {}
  BY <1>1 DEF WakeSingle
<1>2. CASE q # {}
  <2>1. PICK t \in q : r = q \ {t}
    BY <1>2 DEF WakeSingle
  <2>2. S \ r = (S \ q) \cup {t} /\ t \notin S \ q
    BY <2>1
  <2>3. IsFiniteSet(S \ q)
    BY FS_Subset
  <2>4. Cardinality(S \ r) = Cardinality(S \ q) + 1
    BY <2>2, <2>3, FS_AddElement
  <2>5. Cardinality(S \ q) \in Nat
    BY <2>3, FS_CardinalityType
  <2>. QED
    BY <1>2, <2>1, <2>4, <2>5
<1>. QED
  BY <1>1, <1>2

\* A thread that leaves a finite set takes one from its cardinality.
LEMMA OneLess ==
    ASSUME NEW S, IsFiniteSet(S), NEW t \in S, NEW n \in Nat, n <= Cardinality(S)
    PROVE  n - 1 <= Cardinality(S \ {t})
<1>1. Cardinality(S \ {t}) = Cardinality(S) - 1
  BY FS_RemoveElement
<1>2. Cardinality(S) \in Nat
  BY FS_CardinalityType
<1>. QED
  BY <1>1, <1>2

LEMMA WokenFinite ==
    /\ IsFiniteSet({u \in Thread : call[u] = Receiving})
    /\ IsFiniteSet({u \in Thread : call[u].op = "send"})
    /\ IsFiniteSet(WokenReceivers) /\ IsFiniteSet(WokenSenders)
    /\ Cardinality(WokenReceivers) \in Nat /\ Cardinality(WokenSenders) \in Nat
<1>1. /\ IsFiniteSet({u \in Thread : call[u] = Receiving})
      /\ IsFiniteSet({u \in Thread : call[u].op = "send"})
  <2>1. \A S \in SUBSET Thread : IsFiniteSet(S)
    BY MessageQueueAssumption, FS_Subset
  <2>. QED
    BY <2>1
<1>2. IsFiniteSet(WokenReceivers) /\ IsFiniteSet(WokenSenders)
  BY <1>1, FS_Subset DEF WokenReceivers, WokenSenders
<1>. QED
  BY <1>1, <1>2, FS_CardinalityType
-----------------------------------------------------------------------------
LEMMA TakeStep ==
    ASSUME IInv, NEW t \in Thread, MayReceive(t), TakeMessage(t)
    PROVE  IInv'
<1>. DEFINE S == {u \in Thread : call[u].op = "send"}
<1>1. TypeOK /\ usedCount \in 1..MsgCount /\ MsgCount \in Nat \ {0}
  BY MessageQueueAssumption DEF IInv, TakeMessage, TypeOK
<1>2. /\ firstIndex' \in 0..MsgCount - 1
      /\ usedCount' \in 0..MsgCount
      /\ msgArray' \in [0..MsgCount - 1 -> Message \cup {NoMessage}]
      /\ got' \in [Thread -> Message \cup {NoMessage}]
  BY <1>1 DEF TypeOK, TakeMessage
<1>3. /\ call' \in [Thread -> Call]
      /\ call'[t] = NoCall
      /\ \A u \in Thread \ {t} : call'[u] = call[u]
  BY <1>1, CallKinds DEF TypeOK, TakeMessage
<1>4. call[t] \in {NoCall, Receiving} /\ t \notin threadQueueReceive
  BY <1>1, CallKinds DEF MayReceive, WokenReceivers, TypeOK
<1>5. {u \in Thread : call'[u].op = "send"} = S
  BY <1>3, <1>4, CallKinds
<1>6. /\ threadQueueSend' \subseteq threadQueueSend
      /\ threadQueueSend' # {} =>
             MsgCount - usedCount + 1 <= Cardinality(S \ threadQueueSend')
  <2>1. IsFiniteSet(S)
    BY WokenFinite
  <2>2. threadQueueSend \subseteq S
    BY <1>1 DEF TypeOK
  <2>3. WakeSingle(threadQueueSend, threadQueueSend')
    BY DEF TakeMessage
  <2>4. threadQueueSend # {} =>
            MsgCount - usedCount <= Cardinality(S \ threadQueueSend)
    BY DEF IInv, NoSenderForgotten, WokenSenders
  <2>5. MsgCount - usedCount \in Nat
    BY <1>1
  <2>. HIDE DEF S
  <2>. QED
    BY <2>1, <2>2, <2>3, <2>4, <2>5, WakeCounts
<1>7. NoSenderForgotten'
  <2>1. WokenSenders' = S \ threadQueueSend'
    BY <1>5 DEF WokenSenders
  <2>2. usedCount' = usedCount - 1
    BY DEF TakeMessage
  <2>. HIDE DEF S
  <2>. QED
    BY <1>1, <1>6, <2>1, <2>2 DEF NoSenderForgotten
<1>8. NoReceiverForgotten'
  <2>1. usedCount' = usedCount - 1 /\ threadQueueReceive' = threadQueueReceive
    BY DEF TakeMessage
  <2>2. WokenReceivers' = WokenReceivers \ {t}
    BY <1>3, <2>1, CallKinds DEF WokenReceivers
  <2>3. threadQueueReceive # {} => usedCount <= Cardinality(WokenReceivers)
    BY DEF IInv, NoReceiverForgotten
  <2>4. CASE t \in WokenReceivers
    BY <1>1, <2>1, <2>2, <2>3, <2>4, WokenFinite, OneLess DEF NoReceiverForgotten
  <2>5. CASE t \notin WokenReceivers
    <3>1. WokenReceivers' = WokenReceivers
      BY <2>2, <2>5
    <3>2. Cardinality(WokenReceivers) \in Nat
      BY WokenFinite
    <3>. QED
      BY <1>1, <2>1, <2>3, <3>1, <3>2 DEF NoReceiverForgotten
  <2>. QED
    BY <2>4, <2>5
<1>9. TypeOK'
  <2>1. threadQueueReceive' \subseteq {u \in Thread : call'[u] = Receiving}
    BY <1>1, <1>3, <1>4 DEF TakeMessage, TypeOK
  <2>2. threadQueueSend' \subseteq {u \in Thread : call'[u].op = "send"}
    BY <1>1, <1>5, <1>6 DEF TypeOK
  <2>. QED
    BY <1>2, <1>3, <2>1, <2>2 DEF TypeOK
<1>. QED
  BY <1>7, <1>8, <1>9 DEF IInv

LEMMA PutStep ==
    ASSUME IInv, NEW t \in Thread, NEW m \in Message, NEW high \in BOOLEAN,
           MaySend(t), PutMessage(t, m, high)
    PROVE  IInv'
<1>. DEFINE S == {u \in Thread : call[u] = Receiving}
<1>1. TypeOK /\ usedCount \in 0..MsgCount - 1 /\ MsgCount \in Nat \ {0}
  BY MessageQueueAssumption DEF IInv, PutMessage, TypeOK
<1>2. /\ firstIndex' \in 0..MsgCount - 1
      /\ usedCount' \in 0..MsgCount
      /\ msgArray' \in [0..MsgCount - 1 -> Message \cup {NoMessage}]
      /\ got' \in [Thread -> Message \cup {NoMessage}]
  BY <1>1 DEF TypeOK, PutMessage
<1>3. /\ call' \in [Thread -> Call]
      /\ call'[t] = NoCall
      /\ \A u \in Thread \ {t} : call'[u] = call[u]
  BY <1>1, CallKinds DEF TypeOK, PutMessage
<1>4. call[t] # Receiving /\ t \notin threadQueueSend
  BY <1>1, CallKinds DEF MaySend, WokenSenders, TypeOK
<1>5. {u \in Thread : call'[u] = Receiving} = S
  BY <1>3, <1>4, CallKinds
<1>6. /\ threadQueueReceive' \subseteq threadQueueReceive
      /\ threadQueueReceive' # {} =>
             usedCount + 1 <= Cardinality(S \ threadQueueReceive')
  <2>1. IsFiniteSet(S)
    BY WokenFinite
  <2>2. threadQueueReceive \subseteq S
    BY <1>1 DEF TypeOK
  <2>3. WakeSingle(threadQueueReceive, threadQueueReceive')
    BY DEF PutMessage
  <2>4. threadQueueReceive # {} =>
            usedCount <= Cardinality(S \ threadQueueReceive)
    BY DEF IInv, NoReceiverForgotten, WokenReceivers
  <2>5. usedCount \in Nat
    BY <1>1
  <2>. HIDE DEF S
  <2>. QED
    BY <2>1, <2>2, <2>3, <2>4, <2>5, WakeCounts
<1>7. NoReceiverForgotten'
  <2>1. WokenReceivers' = S \ threadQueueReceive'
    BY <1>5 DEF WokenReceivers
  <2>2. usedCount' = usedCount + 1
    BY DEF PutMessage
  <2>. HIDE DEF S
  <2>. QED
    BY <1>1, <1>6, <2>1, <2>2 DEF NoReceiverForgotten
<1>8. NoSenderForgotten'
  <2>1. usedCount' = usedCount + 1 /\ threadQueueSend' = threadQueueSend
    BY DEF PutMessage
  <2>2. WokenSenders' = WokenSenders \ {t}
    BY <1>3, <2>1, CallKinds DEF WokenSenders
  <2>3. threadQueueSend # {} => MsgCount - usedCount <= Cardinality(WokenSenders)
    BY DEF IInv, NoSenderForgotten
  <2>4. MsgCount - usedCount \in Nat
    BY <1>1
  <2>5. CASE t \in WokenSenders
    <3>1. threadQueueSend # {} =>
              (MsgCount - usedCount) - 1 <= Cardinality(WokenSenders \ {t})
      BY <2>3, <2>4, <2>5, WokenFinite, OneLess
    <3>2. (MsgCount - usedCount) - 1 = MsgCount - usedCount'
      BY <1>1, <2>1
    <3>. QED
      BY <2>1, <2>2, <3>1, <3>2 DEF NoSenderForgotten
  <2>6. CASE t \notin WokenSenders
    <3>1. WokenSenders' = WokenSenders
      BY <2>2, <2>6
    <3>2. Cardinality(WokenSenders) \in Nat
      BY WokenFinite
    <3>. QED
      BY <1>1, <2>1, <2>3, <3>1, <3>2 DEF NoSenderForgotten
  <2>. QED
    BY <2>5, <2>6
<1>9. TypeOK'
  <2>1. threadQueueReceive' \subseteq {u \in Thread : call'[u] = Receiving}
    BY <1>1, <1>5, <1>6 DEF TypeOK
  <2>2. threadQueueSend' \subseteq {u \in Thread : call'[u].op = "send"}
    BY <1>1, <1>3, <1>4 DEF PutMessage, TypeOK
  <2>. QED
    BY <1>2, <1>3, <2>1, <2>2 DEF TypeOK
<1>. QED
  BY <1>7, <1>8, <1>9 DEF IInv

LEMMA WaitReceiveStep ==
    ASSUME IInv, NEW t \in Thread, MayReceive(t), WaitToReceive(t)
    PROVE  IInv'
<1>1. TypeOK /\ usedCount = 0
  BY DEF IInv, WaitToReceive
<1>2. /\ call' \in [Thread -> Call]
      /\ call'[t] = Receiving
      /\ \A u \in Thread \ {t} : call'[u] = call[u]
  BY <1>1, CallKinds DEF TypeOK, WaitToReceive
<1>3. call[t] \in {NoCall, Receiving}
  BY DEF MayReceive, WokenReceivers
<1>4. UNCHANGED <<ring, threadQueueSend, got>>
  BY DEF WaitToReceive
<1>5. TypeOK'
  <2>1. threadQueueReceive' \subseteq {u \in Thread : call'[u] = Receiving}
    BY <1>1, <1>2 DEF WaitToReceive, TypeOK
  <2>2. threadQueueSend' \subseteq {u \in Thread : call'[u].op = "send"}
    BY <1>1, <1>2, <1>3, <1>4, CallKinds DEF TypeOK
  <2>. QED
    BY <1>1, <1>2, <1>4, <2>1, <2>2 DEF TypeOK, ring
<1>6. NoReceiverForgotten'
  <2>1. Cardinality(WokenReceivers') \in Nat
    <3>1. WokenReceivers' \subseteq Thread
      BY DEF WokenReceivers
    <3>. QED
      BY <3>1, MessageQueueAssumption, FS_Subset, FS_CardinalityType
  <2>2. usedCount' = 0
    BY <1>1, <1>4 DEF ring
  <2>. QED
    BY <2>1, <2>2 DEF NoReceiverForgotten
<1>7. NoSenderForgotten'
  <2>1. WokenSenders' = WokenSenders
    BY <1>2, <1>3, <1>4, CallKinds DEF WokenSenders
  <2>. QED
    BY <1>4, <2>1 DEF IInv, NoSenderForgotten, ring
<1>. QED
  BY <1>5, <1>6, <1>7 DEF IInv

LEMMA WaitSendStep ==
    ASSUME IInv, NEW t \in Thread, NEW m \in Message, NEW high \in BOOLEAN,
           MaySend(t), WaitToSend(t, m, high)
    PROVE  IInv'
<1>1. TypeOK /\ usedCount = MsgCount /\ MsgCount \in Nat
  BY MessageQueueAssumption DEF IInv, WaitToSend, TypeOK
<1>2. /\ call' \in [Thread -> Call]
      /\ call'[t].op = "send"
      /\ \A u \in Thread \ {t} : call'[u] = call[u]
  <2>1. call' = [call EXCEPT ![t] = Sending(m, high)]
    BY DEF WaitToSend
  <2>2. Sending(m, high) \in Call /\ Sending(m, high).op = "send"
    BY CallKinds
  <2>. QED
    BY <1>1, <2>1, <2>2 DEF TypeOK
<1>3. call[t] # Receiving
  BY CallKinds DEF MaySend, WokenSenders
<1>4. UNCHANGED <<ring, threadQueueReceive, got>>
  BY DEF WaitToSend
<1>5. TypeOK'
  <2>1. threadQueueReceive' \subseteq {u \in Thread : call'[u] = Receiving}
    BY <1>1, <1>2, <1>3, <1>4 DEF TypeOK
  <2>2. threadQueueSend' \subseteq {u \in Thread : call'[u].op = "send"}
    BY <1>1, <1>2 DEF WaitToSend, TypeOK
  <2>. QED
    BY <1>1, <1>2, <1>4, <2>1, <2>2 DEF TypeOK, ring
<1>6. NoSenderForgotten'
  <2>1. Cardinality(WokenSenders') \in Nat
    <3>1. WokenSenders' \subseteq Thread
      BY DEF WokenSenders
    <3>. QED
      BY <3>1, MessageQueueAssumption, FS_Subset, FS_CardinalityType
  <2>2. MsgCount - usedCount' = 0
    BY <1>1, <1>4 DEF ring
  <2>. QED
    BY <2>1, <2>2 DEF NoSenderForgotten
<1>7. NoReceiverForgotten'
  <2>1. call'[t] # Receiving
    BY <1>2, CallKinds
  <2>2. WokenReceivers' = WokenReceivers
    BY <1>2, <1>3, <1>4, <2>1 DEF WokenReceivers
  <2>. QED
    BY <1>4, <2>2 DEF IInv, NoReceiverForgotten, ring
<1>. QED
  BY <1>5, <1>6, <1>7 DEF IInv

\* A call that only looks at the queue.
LEMMA LookStep ==
    ASSUME IInv, got' \in [Thread -> Message \cup {NoMessage}],
           UNCHANGED <<ring, threadQueueReceive, threadQueueSend, call>>
    PROVE  IInv'
<1>1. TypeOK'
  BY DEF IInv, TypeOK, ring
<1>2. WokenReceivers' = WokenReceivers /\ WokenSenders' = WokenSenders
  BY DEF WokenReceivers, WokenSenders
<1>. QED
  BY <1>1, <1>2 DEF IInv, NoReceiverForgotten, NoSenderForgotten, ring

LEMMA FrontMessage == TypeOK => msgArray[firstIndex] \in Message \cup {NoMessage}
  BY DEF TypeOK

LEMMA InitIInv == Init => IInv
<1>. SUFFICES ASSUME Init PROVE IInv
  OBVIOUS
<1>1. NoCall \in Call
  BY CallKinds
<1>2. TypeOK
  BY <1>1, MessageQueueAssumption DEF Init, TypeOK
<1>. QED
  BY <1>2 DEF Init, IInv, NoReceiverForgotten, NoSenderForgotten

\* The steps of a thread, as one of the four ways to change the queue, or a
\* look at it.
LEMMA StepKinds ==
    ASSUME TypeOK, Next
    PROVE  \/ \E t \in Thread : MayReceive(t) /\ (TakeMessage(t) \/ WaitToReceive(t))
           \/ \E t \in Thread, m \in Message, high \in BOOLEAN :
                  MaySend(t) /\ (PutMessage(t, m, high) \/ WaitToSend(t, m, high))
           \/ /\ UNCHANGED <<ring, threadQueueReceive, threadQueueSend, call>>
              /\ \E t \in Thread :
                     got' = [got EXCEPT ![t] = IF usedCount = 0 THEN NoMessage
                                               ELSE msgArray[firstIndex]]
<1>. PICK t \in Thread :
        \/ \E block \in BOOLEAN : OSReceiveMessage(t, block)
        \/ \E m \in Message, block, high \in BOOLEAN : OSSendMessage(t, m, block, high)
        \/ OSPeekMessage(t)
        \/ ReceiveWoken(t)
        \/ SendWoken(t)
  BY DEF Next
<1>1. ASSUME NEW block \in BOOLEAN, OSReceiveMessage(t, block)
      PROVE  \/ MayReceive(t) /\ (TakeMessage(t) \/ WaitToReceive(t))
             \/ /\ UNCHANGED <<ring, threadQueueReceive, threadQueueSend, call>>
                /\ got' = [got EXCEPT ![t] = IF usedCount = 0 THEN NoMessage
                                             ELSE msgArray[firstIndex]]
  BY <1>1 DEF OSReceiveMessage, MayReceive
<1>2. ASSUME NEW m \in Message, NEW block \in BOOLEAN, NEW high \in BOOLEAN,
             OSSendMessage(t, m, block, high)
      PROVE  MaySend(t) /\ (PutMessage(t, m, high) \/ WaitToSend(t, m, high))
  BY <1>2 DEF OSSendMessage, MaySend
<1>3. ASSUME OSPeekMessage(t)
      PROVE  /\ UNCHANGED <<ring, threadQueueReceive, threadQueueSend, call>>
             /\ got' = [got EXCEPT ![t] = IF usedCount = 0 THEN NoMessage
                                          ELSE msgArray[firstIndex]]
  BY <1>3 DEF OSPeekMessage
<1>4. ASSUME ReceiveWoken(t)
      PROVE  MayReceive(t) /\ (TakeMessage(t) \/ WaitToReceive(t))
  BY <1>4 DEF ReceiveWoken, MayReceive, WokenReceivers
<1>5. ASSUME SendWoken(t)
      PROVE  \E m \in Message, high \in BOOLEAN :
                 MaySend(t) /\ (PutMessage(t, m, high) \/ WaitToSend(t, m, high))
  <2>1. call[t] \in Call /\ call[t].op = "send"
    BY <1>5 DEF SendWoken, TypeOK
  <2>2. call[t].msg \in Message /\ call[t].high \in BOOLEAN
    BY <2>1, CallKinds
  <2>3. MaySend(t)
    BY <1>5 DEF SendWoken, MaySend, WokenSenders
  <2>4. \/ PutMessage(t, call[t].msg, call[t].high)
        \/ WaitToSend(t, call[t].msg, call[t].high)
    BY <1>5 DEF SendWoken
  <2>. QED
    BY <2>2, <2>3, <2>4
<1>. QED
  BY <1>1, <1>2, <1>3, <1>4, <1>5

LEMMA NextIInv == IInv /\ [Next]_vars => IInv'
<1>. SUFFICES ASSUME IInv, [Next]_vars PROVE IInv'
  OBVIOUS
<1>. USE DEF ring
<1>1. CASE UNCHANGED vars
  <2>1. got' \in [Thread -> Message \cup {NoMessage}]
    BY <1>1 DEF IInv, TypeOK, vars
  <2>2. UNCHANGED <<ring, threadQueueReceive, threadQueueSend, call>>
    BY <1>1 DEF vars
  <2>. QED
    BY <2>1, <2>2, LookStep
<1>2. CASE Next
  <2>1. TypeOK
    BY DEF IInv
  <2>2. ASSUME NEW t \in Thread, MayReceive(t), TakeMessage(t) \/ WaitToReceive(t)
        PROVE  IInv'
    BY <2>2, TakeStep, WaitReceiveStep
  <2>3. ASSUME NEW t \in Thread, NEW m \in Message, NEW high \in BOOLEAN,
               MaySend(t), PutMessage(t, m, high) \/ WaitToSend(t, m, high)
        PROVE  IInv'
    BY <2>3, PutStep, WaitSendStep
  <2>4. ASSUME UNCHANGED <<ring, threadQueueReceive, threadQueueSend, call>>,
               NEW t \in Thread,
               got' = [got EXCEPT ![t] = IF usedCount = 0 THEN NoMessage
                                         ELSE msgArray[firstIndex]]
        PROVE  IInv'
    <3>1. got' \in [Thread -> Message \cup {NoMessage}]
      BY <2>1, <2>4, FrontMessage DEF TypeOK
    <3>. QED
      BY <2>4, <3>1, LookStep
  <2>. QED
    BY <1>2, <2>1, <2>2, <2>3, <2>4, StepKinds
<1>. QED
  BY <1>1, <1>2

THEOREM InductiveInvariant == Spec => []IInv
  BY InitIInv, NextIInv, PTL DEF Spec

\* The ring indices of OSReceiveMessage and OSSendMessage never leave the
\* array, and a wait queue holds only threads blocked in its call.
THEOREM TypeCorrect == Spec => []TypeOK
<1>1. IInv => TypeOK
  BY DEF IInv
<1>. QED
  BY <1>1, InductiveInvariant, PTL

\* One wakeup for each send is enough: no receiver sleeps beside a message
\* that no woken receiver is on its way to.
THEOREM ReceiversAreRemembered == Spec => []NoReceiverForgotten
<1>1. IInv => NoReceiverForgotten
  BY DEF IInv
<1>. QED
  BY <1>1, InductiveInvariant, PTL

\* One wakeup for each receive is enough for the senders.
THEOREM SendersAreRemembered == Spec => []NoSenderForgotten
<1>1. IInv => NoSenderForgotten
  BY DEF IInv
<1>. QED
  BY <1>1, InductiveInvariant, PTL
-----------------------------------------------------------------------------
(* The refinement, by lemmas about the ring as a value. *)

Slot == Message \cup {NoMessage}

\* The messages of a ring a with u of them from index f on.
Ring(f, u, a) == [i \in 1..u |-> a[(f + i - 1) % MsgCount]]

\* The index of message i, without the remainder.
At(f, i) == IF f + i - 1 < MsgCount THEN f + i - 1 ELSE f + i - 1 - MsgCount

LEMMA RingIsASequence ==
    ASSUME NEW f \in 0..MsgCount - 1, NEW u \in 0..MsgCount,
           NEW a \in [0..MsgCount - 1 -> Slot]
    PROVE  /\ Ring(f, u, a) \in Seq(Slot)
           /\ Len(Ring(f, u, a)) = u
           /\ \A i \in 1..u : Ring(f, u, a)[i] = a[At(f, i)]
<1>1. MsgCount \in Nat \ {0}
  BY MessageQueueAssumption
<1>2. ASSUME NEW i \in 1..u
      PROVE  (f + i - 1) % MsgCount = At(f, i) /\ At(f, i) \in 0..MsgCount - 1
  <2>. DEFINE x == f + i - 1
  <2>1. x \in 0..2 * MsgCount - 1 /\ At(f, i) \in 0..MsgCount - 1
    BY <1>1 DEF At
  <2>2. At(f, i) = IF x < MsgCount THEN x ELSE x - MsgCount
    BY <1>1 DEF At
  <2>. HIDE DEF x
  <2>3. x % MsgCount = At(f, i)
    BY <2>1, <2>2, WrapIndex
  <2>. QED
    BY <2>1, <2>3 DEF x
<1>3. Ring(f, u, a) = [i \in 1..u |-> a[At(f, i)]]
  BY <1>2 DEF Ring
<1>4. Ring(f, u, a) \in [1..u -> Slot]
  BY <1>2, <1>3
<1>5. Ring(f, u, a) \in Seq(Slot)
  BY <1>1, <1>4
<1>6. Len(Ring(f, u, a)) = u
  BY <1>1, <1>4, <1>5, LenProperties
<1>. QED
  BY <1>3, <1>5, <1>6

\* Advancing the first index drops the head.
LEMMA RingTail ==
    ASSUME NEW f \in 0..MsgCount - 1, NEW u \in 1..MsgCount,
           NEW a \in [0..MsgCount - 1 -> Slot]
    PROVE  /\ Ring(f, u, a) # <<>>
           /\ Head(Ring(f, u, a)) = a[f]
           /\ Ring((f + 1) % MsgCount, u - 1, a) = Tail(Ring(f, u, a))
<1>. DEFINE g == (f + 1) % MsgCount
            r == Ring(f, u, a)
            s == Ring(g, u - 1, a)
<1>1. MsgCount \in Nat \ {0} /\ u \in 0..MsgCount /\ u - 1 \in 0..MsgCount
  BY MessageQueueAssumption
<1>2. g = IF f + 1 < MsgCount THEN f + 1 ELSE 0
  <2>1. f + 1 \in 0..2 * MsgCount - 1
    BY <1>1
  <2>2. g = IF f + 1 < MsgCount THEN f + 1 ELSE f + 1 - MsgCount
    BY <1>1, <2>1, WrapIndex
  <2>. QED
    BY <1>1, <2>2
<1>3. g \in 0..MsgCount - 1
  BY <1>1, <1>2
<1>. HIDE DEF g
<1>4. /\ r \in Seq(Slot) /\ Len(r) = u
      /\ \A i \in 1..u : r[i] = a[At(f, i)]
  BY <1>1, RingIsASequence
<1>5. /\ s \in Seq(Slot) /\ Len(s) = u - 1
      /\ \A i \in 1..u - 1 : s[i] = a[At(g, i)]
  BY <1>1, <1>3, RingIsASequence
<1>. HIDE DEF r, s
<1>6. r # <<>> /\ Head(r) = a[f]
  <2>1. At(f, 1) = f
    BY <1>1 DEF At
  <2>2. r[1] = a[f]
    BY <1>1, <1>4, <2>1
  <2>. QED
    BY <1>1, <1>4, <2>2
<1>7. /\ Tail(r) \in Seq(Slot) /\ Len(Tail(r)) = u - 1
      /\ \A i \in 1..u - 1 : Tail(r)[i] = r[i + 1]
  BY <1>1, <1>4, <1>6, HeadTailProperties
<1>8. \A i \in 1..u - 1 : s[i] = Tail(r)[i]
  <2>. TAKE i \in 1..u - 1
  <2>1. i + 1 \in 1..u /\ At(f, i + 1) = At(g, i)
    BY <1>1, <1>2 DEF At
  <2>. QED
    BY <1>4, <1>5, <1>7, <2>1
<1>9. s = Tail(r)
  BY <1>5, <1>7, <1>8, SeqEqual
<1>. QED
  BY <1>6, <1>9 DEF r, s, g

\* Writing the slot behind the last message appends it.
LEMMA RingAppend ==
    ASSUME NEW f \in 0..MsgCount - 1, NEW u \in 0..MsgCount - 1,
           NEW a \in [0..MsgCount - 1 -> Slot], NEW m \in Slot
    PROVE  Ring(f, u + 1, [a EXCEPT ![(f + u) % MsgCount] = m])
             = Append(Ring(f, u, a), m)
<1>. DEFINE k == (f + u) % MsgCount
            b == [a EXCEPT ![k] = m]
            r == Ring(f, u, a)
            s == Ring(f, u + 1, b)
<1>1. MsgCount \in Nat \ {0} /\ u \in 0..MsgCount /\ u + 1 \in 0..MsgCount
  BY MessageQueueAssumption
<1>2. k = At(f, u + 1)
  <2>. DEFINE x == f + u
  <2>1. x \in 0..2 * MsgCount - 1
    BY <1>1
  <2>2. At(f, u + 1) = IF x < MsgCount THEN x ELSE x - MsgCount
    BY <1>1 DEF At
  <2>. HIDE DEF x
  <2>3. x % MsgCount = At(f, u + 1)
    BY <2>1, <2>2, WrapIndex
  <2>. QED
    BY <2>3 DEF x
<1>3. k \in 0..MsgCount - 1
  BY <1>1, <1>2 DEF At
<1>. HIDE DEF k
<1>4. b \in [0..MsgCount - 1 -> Slot]
  BY <1>3
<1>5. /\ r \in Seq(Slot) /\ Len(r) = u
      /\ \A i \in 1..u : r[i] = a[At(f, i)]
  BY <1>1, RingIsASequence
<1>6. /\ s \in Seq(Slot) /\ Len(s) = u + 1
      /\ \A i \in 1..u + 1 : s[i] = b[At(f, i)]
  <2>. HIDE DEF b
  <2>. QED
    BY <1>1, <1>4, RingIsASequence
<1>7. b[k] = m /\ \A j \in 0..MsgCount - 1 : j # k => b[j] = a[j]
  BY <1>3
<1>. HIDE DEF r, s, b
<1>8. \A i \in 1..u + 1 : s[i] = Append(r, m)[i]
  <2>. TAKE i \in 1..u + 1
  <2>1. CASE i = u + 1
    BY <1>1, <1>2, <1>5, <1>6, <1>7, <2>1
  <2>2. CASE i # u + 1
    <3>1. i \in 1..u
      BY <1>1, <2>2
    <3>2. At(f, i) \in 0..MsgCount - 1 /\ At(f, i) # k
      BY <1>1, <1>2, <3>1 DEF At
    <3>3. s[i] = r[i]
      BY <1>5, <1>6, <1>7, <3>1, <3>2
    <3>. QED
      BY <1>5, <3>1, <3>3
  <2>. QED
    BY <2>1, <2>2
<1>9. Append(r, m) \in Seq(Slot) /\ Len(Append(r, m)) = u + 1
  BY <1>5
<1>10. s = Append(r, m)
  BY <1>6, <1>8, <1>9, SeqEqual
<1>. QED
  BY <1>10 DEF r, s, b, k

\* Stepping the first index back and writing its slot puts a message in front.
LEMMA RingFront ==
    ASSUME NEW f \in 0..MsgCount - 1, NEW u \in 0..MsgCount - 1,
           NEW a \in [0..MsgCount - 1 -> Slot], NEW m \in Slot
    PROVE  LET k == (f + (MsgCount - 1)) % MsgCount
           IN  Ring(k, u + 1, [a EXCEPT ![k] = m]) = <<m>> \o Ring(f, u, a)
<1>. DEFINE k == (f + (MsgCount - 1)) % MsgCount
            b == [a EXCEPT ![k] = m]
            r == Ring(f, u, a)
            s == Ring(k, u + 1, b)
<1>1. MsgCount \in Nat \ {0} /\ u \in 0..MsgCount /\ u + 1 \in 0..MsgCount
  BY MessageQueueAssumption
<1>2. k = IF f = 0 THEN MsgCount - 1 ELSE f - 1
  <2>. DEFINE x == f + (MsgCount - 1)
  <2>1. x \in 0..2 * MsgCount - 1
    BY <1>1
  <2>2. (IF f = 0 THEN MsgCount - 1 ELSE f - 1)
          = IF x < MsgCount THEN x ELSE x - MsgCount
    BY <1>1
  <2>. HIDE DEF x
  <2>3. x % MsgCount = IF x < MsgCount THEN x ELSE x - MsgCount
    BY <2>1, WrapIndex
  <2>. QED
    BY <2>2, <2>3 DEF x
<1>3. k \in 0..MsgCount - 1
  BY <1>1, <1>2
<1>. HIDE DEF k
<1>4. b \in [0..MsgCount - 1 -> Slot]
  BY <1>3
<1>5. /\ r \in Seq(Slot) /\ Len(r) = u
      /\ \A i \in 1..u : r[i] = a[At(f, i)]
  BY <1>1, RingIsASequence
<1>6. /\ s \in Seq(Slot) /\ Len(s) = u + 1
      /\ \A i \in 1..u + 1 : s[i] = b[At(k, i)]
  <2>. HIDE DEF b
  <2>. QED
    BY <1>1, <1>3, <1>4, RingIsASequence
<1>7. b[k] = m /\ \A j \in 0..MsgCount - 1 : j # k => b[j] = a[j]
  BY <1>3
<1>. HIDE DEF r, s, b
<1>8. /\ <<m>> \o r \in Seq(Slot) /\ Len(<<m>> \o r) = u + 1
      /\ \A i \in 1..u + 1 : (<<m>> \o r)[i] = IF i = 1 THEN m ELSE r[i - 1]
  <2>1. <<m>> \in Seq(Slot) /\ Len(<<m>>) = 1 /\ <<m>>[1] = m
    OBVIOUS
  <2>. QED
    BY <1>1, <1>5, <2>1, ConcatProperties
<1>9. \A i \in 1..u + 1 : s[i] = (<<m>> \o r)[i]
  <2>. TAKE i \in 1..u + 1
  <2>1. CASE i = 1
    <3>1. At(k, i) = k
      BY <1>1, <1>3, <2>1 DEF At
    <3>. QED
      BY <1>6, <1>7, <1>8, <2>1, <3>1
  <2>2. CASE i # 1
    <3>1. i - 1 \in 1..u
      BY <1>1, <2>2
    <3>2. At(k, i) = At(f, i - 1)
      BY <1>1, <1>2, <3>1 DEF At
    <3>3. At(f, i - 1) \in 0..MsgCount - 1 /\ At(f, i - 1) # k
      BY <1>1, <1>2, <3>1 DEF At
    <3>. QED
      BY <1>5, <1>6, <1>7, <1>8, <2>2, <3>1, <3>2, <3>3
  <2>. QED
    BY <2>1, <2>2
<1>10. s = <<m>> \o r
  BY <1>6, <1>8, <1>9, SeqEqual
<1>. QED
  BY <1>10 DEF r, s, b, k

\* Seen through Messages, every step of the queue is a step of the deque or
\* none.
LEMMA StepRefines == TypeOK /\ [Next]_vars => [Deque!Next]_<<Messages, got>>
<1>. SUFFICES ASSUME TypeOK, [Next]_vars
              PROVE  [Deque!Next]_<<Messages, got>>
  OBVIOUS
<1>1. /\ Messages = Ring(firstIndex, usedCount, msgArray)
      /\ Messages' = Ring(firstIndex', usedCount', msgArray')
  BY DEF Messages, Ring
<1>2. /\ MsgCount \in Nat \ {0}
      /\ firstIndex \in 0..MsgCount - 1 /\ usedCount \in 0..MsgCount
      /\ msgArray \in [0..MsgCount - 1 -> Slot]
  BY MessageQueueAssumption DEF TypeOK, Slot
<1>3. /\ Len(Messages) = usedCount
      /\ usedCount > 0 => Messages # <<>> /\ Head(Messages) = msgArray[firstIndex]
      /\ usedCount = 0 => Messages = <<>>
  <2>1. Messages \in Seq(Slot) /\ Len(Messages) = usedCount
    BY <1>1, <1>2, RingIsASequence
  <2>2. ASSUME usedCount > 0
        PROVE  Messages # <<>> /\ Head(Messages) = msgArray[firstIndex]
    <3>1. usedCount \in 1..MsgCount
      BY <1>2, <2>2
    <3>. QED
      BY <1>1, <1>2, <3>1, RingTail
  <2>3. usedCount = 0 => Messages = <<>>
    BY <2>1, EmptySeq
  <2>. QED
    BY <2>1, <2>2, <2>3
<1>4. ASSUME NEW t \in Thread, TakeMessage(t)
      PROVE  Deque!Take(t)
  <2>1. usedCount \in 1..MsgCount
    BY <1>2, <1>4 DEF TakeMessage
  <2>2. Ring((firstIndex + 1) % MsgCount, usedCount - 1, msgArray) = Tail(Messages)
    BY <1>1, <1>2, <2>1, RingTail
  <2>3. Messages' = Tail(Messages)
    BY <1>1, <1>4, <2>2 DEF TakeMessage
  <2>4. got' = [got EXCEPT ![t] = msgArray[firstIndex]]
    BY <1>4 DEF TakeMessage
  <2>5. Messages # <<>> /\ Head(Messages) = msgArray[firstIndex]
    BY <1>2, <1>3, <2>1
  <2>. QED
    BY <2>3, <2>4, <2>5, Zenon DEF Deque!Take
<1>5. ASSUME NEW t \in Thread, NEW m \in Message, NEW high \in BOOLEAN,
             PutMessage(t, m, high)
      PROVE  Deque!PutBack(m) \/ Deque!PutFront(m)
  <2>1. /\ usedCount \in 0..MsgCount - 1
        /\ usedCount' = usedCount + 1 /\ got' = got
    BY <1>2, <1>5 DEF PutMessage
  <2>2. m \in Slot
    BY DEF Slot
  <2>3. CASE high
    <3>. DEFINE k == (firstIndex + (MsgCount - 1)) % MsgCount
    <3>1. firstIndex' = k /\ msgArray' = [msgArray EXCEPT ![k] = m]
      BY <1>5, <2>3 DEF PutMessage
    <3>2. Messages' = <<m>> \o Messages
      BY <1>1, <1>2, <2>1, <2>2, <3>1, RingFront
    <3>. QED
      BY <1>2, <1>3, <2>1, <3>2 DEF Deque!PutFront
  <2>4. CASE ~high
    <3>. DEFINE k == (firstIndex + usedCount) % MsgCount
    <3>1. firstIndex' = firstIndex /\ msgArray' = [msgArray EXCEPT ![k] = m]
      BY <1>5, <2>4 DEF PutMessage
    <3>2. Messages' = Append(Messages, m)
      BY <1>1, <1>2, <2>1, <2>2, <3>1, RingAppend
    <3>. QED
      BY <1>2, <1>3, <2>1, <3>2 DEF Deque!PutBack
  <2>. QED
    BY <2>3, <2>4
<1>6. ASSUME UNCHANGED <<ring, got>>
      PROVE  UNCHANGED <<Messages, got>>
  BY <1>1, <1>6 DEF ring
<1>7. ASSUME UNCHANGED ring, NEW t \in Thread,
             got' = [got EXCEPT ![t] = IF usedCount = 0 THEN NoMessage
                                       ELSE msgArray[firstIndex]]
      PROVE  Deque!Look(t)
  <2>1. Messages' = Messages
    BY <1>1, <1>7 DEF ring
  <2>2. CASE usedCount = 0
    BY <1>3, <1>7, <2>1, <2>2 DEF Deque!Look
  <2>3. CASE usedCount # 0
    <3>1. usedCount > 0
      BY <1>2, <2>3
    <3>. QED
      BY <1>3, <1>7, <2>1, <2>3, <3>1 DEF Deque!Look
  <2>. QED
    BY <2>2, <2>3
<1>8. CASE UNCHANGED vars
  BY <1>6, <1>8 DEF vars, ring
<1>9. CASE Next
  <2>1. ASSUME NEW t \in Thread, TakeMessage(t) \/ WaitToReceive(t)
        PROVE  [Deque!Next]_<<Messages, got>>
    BY <1>4, <1>6, <2>1 DEF WaitToReceive, Deque!Next
  <2>2. ASSUME NEW t \in Thread, NEW m \in Message, NEW high \in BOOLEAN,
               PutMessage(t, m, high) \/ WaitToSend(t, m, high)
        PROVE  [Deque!Next]_<<Messages, got>>
    BY <1>5, <1>6, <2>2 DEF WaitToSend, Deque!Next
  <2>3. ASSUME UNCHANGED ring, NEW t \in Thread,
               got' = [got EXCEPT ![t] = IF usedCount = 0 THEN NoMessage
                                         ELSE msgArray[firstIndex]]
        PROVE  Deque!Next
    BY <1>7, <2>3 DEF Deque!Next
  <2>. QED
    BY <1>9, <2>1, <2>2, <2>3, StepKinds DEF ring
<1>. QED
  BY <1>8, <1>9

\* An OSMessageQueue is the bounded deque: every message sent is received
\* once, in order, those of high priority first.
THEOREM QueueIsADeque == Spec => DequeSpec
<1>1. Init => Deque!Init
  <2>. SUFFICES ASSUME Init PROVE Deque!Init
    OBVIOUS
  <2>1. usedCount = 0 /\ got = [t \in Thread |-> NoMessage]
    BY DEF Init
  <2>2. Messages = <<>>
    BY <2>1 DEF Messages
  <2>. QED
    BY <2>1, <2>2 DEF Deque!Init
<1>. QED
  BY <1>1, StepRefines, TypeCorrect, PTL DEF Spec, DequeSpec, Deque!Spec
=============================================================================
