-------------------------- MODULE Primitives_proofs --------------------------
(***************************************************************************)
(* Proofs about the events, the semaphores, the alarms and the linked      *)
(* lists, each for any number of threads, events, alarms and queues.       *)
(***************************************************************************)
EXTENDS PrimitivesMC, FiniteSetTheorems, SequenceTheorems, WellFoundedInduction, TLAPS
-----------------------------------------------------------------------------
(* The events.  EventInv is inductive: a queue holds only threads in a     *)
(* wait for its event that has not timed out, an alarm is that of the      *)
(* wait its thread is in, and nobody waits for an event that is set.       *)

EventInv == TypeOK /\ NobodyWaitsForASetEvent /\ AlarmsBelongToTheWait

\* Threads in no call are in no queue and have no alarm.
LEMMA IdleThread ==
    ASSUME EventInv, NEW t \in Thread, call[t] = NoCall
    PROVE  /\ alarm[t] = NoEvent
           /\ \A e \in Event : t \notin threadQueue[e]
BY DEF EventInv, TypeOK, AlarmsBelongToTheWait, NoCall, Waiting

LEMMA EventInit == Init => EventInv
BY EventAssumption DEF Init, EventInv, TypeOK, NobodyWaitsForASetEvent,
                       AlarmsBelongToTheWait, Call

\* The step preserves the invariant: one fact for each kind of change.
LEMMA EventStep == EventInv /\ [Next]_vars => EventInv'
<1> SUFFICES ASSUME EventInv, [Next]_vars PROVE EventInv'
    OBVIOUS
<1> USE EventAssumption
<1>0. CASE UNCHANGED vars
    BY <1>0 DEF vars, EventInv, TypeOK, NobodyWaitsForASetEvent, AlarmsBelongToTheWait
<1>1. ASSUME NEW e \in Event, OSResetEvent(e) PROVE EventInv'
    BY <1>1 DEF OSResetEvent, EventInv, TypeOK, NobodyWaitsForASetEvent, AlarmsBelongToTheWait
<1>2. ASSUME NEW e \in Event, NEW everyone \in BOOLEAN, OSSignalEvent(e, everyone) PROVE EventInv'
    <2>1. /\ \A f \in Event : threadQueue'[f] \subseteq threadQueue[f]
          /\ \A f \in Event : f # e => threadQueue'[f] = threadQueue[f]
          /\ threadQueue' \in [Event -> SUBSET Thread]
          /\ signaled'[e] => threadQueue'[e] = {}
        BY <1>2 DEF OSSignalEvent, EventInv, TypeOK
    <2>2. /\ signaled' \in [Event -> BOOLEAN]
          /\ \A f \in Event : f # e => signaled'[f] = signaled[f]
        BY <1>2 DEF OSSignalEvent, EventInv, TypeOK
    <2>3. UNCHANGED <<alarm, call, result>>
        BY <1>2 DEF OSSignalEvent
    <2>4. TypeOK'
        BY <2>1, <2>2, <2>3 DEF EventInv, TypeOK
    <2>5. NobodyWaitsForASetEvent'
        BY <2>1, <2>2 DEF EventInv, NobodyWaitsForASetEvent
    <2>6. AlarmsBelongToTheWait'
        BY <2>3 DEF EventInv, AlarmsBelongToTheWait
    <2> QED
        BY <2>4, <2>5, <2>6 DEF EventInv
<1>3. ASSUME NEW e \in Event, NEW t \in Thread, call[t] = NoCall, PassSignaled(t, e)
      PROVE  EventInv'
    <2>1. /\ signaled' \in [Event -> BOOLEAN]
          /\ \A f \in Event : signaled'[f] => signaled[f]
          /\ result' \in [Thread -> {"none", "passed", "timeout"}]
          /\ UNCHANGED <<threadQueue, alarm, call>>
        BY <1>3 DEF PassSignaled, EventInv, TypeOK
    <2>2. TypeOK'
        BY <2>1 DEF EventInv, TypeOK
    <2>3. NobodyWaitsForASetEvent' /\ AlarmsBelongToTheWait'
        BY <2>1 DEF EventInv, NobodyWaitsForASetEvent, AlarmsBelongToTheWait
    <2> QED
        BY <2>2, <2>3 DEF EventInv
<1>4. ASSUME NEW e \in Event, NEW t \in Thread, NEW b \in {e, NoEvent},
             call[t] = NoCall, EnterQueue(t, e), alarm' = [alarm EXCEPT ![t] = b]
      PROVE  EventInv'
    <2>1. /\ \A u : \A f \in Event : u \in threadQueue'[f] <=>
                  u \in threadQueue[f] \/ (f = e /\ u = t)
          /\ threadQueue' \in [Event -> SUBSET Thread]
        BY <1>4 DEF EnterQueue, EventInv, TypeOK
    <2>2. /\ call' \in [Thread -> Call]
          /\ call'[t] = Waiting(e)
          /\ \A u \in Thread : u # t => call'[u] = call[u]
        <3>1. Waiting(e) \in Call
            BY DEF Waiting, Call
        <3>2. call' = [call EXCEPT ![t] = Waiting(e)]
            BY <1>4 DEF EnterQueue
        <3> QED
            BY <3>1, <3>2 DEF EventInv, TypeOK
    <2>3. /\ alarm' \in [Thread -> Event \cup {NoEvent}]
          /\ alarm'[t] = b
          /\ \A u \in Thread : u # t => alarm'[u] = alarm[u]
        BY <1>4 DEF EventInv, TypeOK
    <2>4. \A f \in Event : t \notin threadQueue[f]
        BY <1>4, IdleThread
    <2>5. ~signaled[e] /\ UNCHANGED <<signaled, result>>
        BY <1>4 DEF EnterQueue
    <2>6. TypeOK'
        BY <2>1, <2>2, <2>3, <2>4, <2>5 DEF EventInv, TypeOK, Waiting
    <2>7. NobodyWaitsForASetEvent'
        <3> SUFFICES ASSUME NEW f \in Event, signaled'[f], NEW u \in threadQueue'[f]
                     PROVE  FALSE
            BY DEF NobodyWaitsForASetEvent
        <3> QED
            BY <2>1, <2>5 DEF EventInv, NobodyWaitsForASetEvent
    <2>8. AlarmsBelongToTheWait'
        BY <2>2, <2>3 DEF EventInv, AlarmsBelongToTheWait
    <2> QED
        BY <2>6, <2>7, <2>8 DEF EventInv
<1>5. ASSUME NEW e \in Event, NEW t \in Thread, OSWaitEvent(t, e) PROVE EventInv'
    <2>1. CASE PassSignaled(t, e)
        BY <1>3, <1>5, <2>1 DEF OSWaitEvent
    <2>2. CASE EnterQueue(t, e) /\ UNCHANGED alarm
        <3>1. alarm' = [alarm EXCEPT ![t] = NoEvent]
            BY <1>5, <2>2, IdleThread DEF OSWaitEvent, EventInv, TypeOK
        <3> QED
            BY <1>4, <1>5, <2>2, <3>1 DEF OSWaitEvent
    <2> QED
        BY <1>5, <2>1, <2>2 DEF OSWaitEvent
<1>6. ASSUME NEW e \in Event, NEW t \in Thread, NEW zero \in BOOLEAN,
             OSWaitEventWithTimeout(t, e, zero)
      PROVE  EventInv'
    <2>1. CASE PassSignaled(t, e)
        BY <1>3, <1>6, <2>1 DEF OSWaitEventWithTimeout
    <2>2. CASE EnterQueue(t, e) /\ alarm' = [alarm EXCEPT ![t] = e]
        BY <1>4, <1>6, <2>2 DEF OSWaitEventWithTimeout
    <2>3. CASE /\ result' = [result EXCEPT ![t] = "timeout"]
               /\ UNCHANGED <<signaled, threadQueue, alarm, call>>
        BY <2>3 DEF EventInv, TypeOK, NobodyWaitsForASetEvent, AlarmsBelongToTheWait
    <2> QED
        BY <1>6, <2>1, <2>2, <2>3 DEF OSWaitEventWithTimeout
<1>7. ASSUME NEW t \in Thread, WaitReturns(t) PROVE EventInv'
    <2>1. /\ UNCHANGED <<signaled, threadQueue>>
          /\ call' = [call EXCEPT ![t] = NoCall]
          /\ alarm' = [alarm EXCEPT ![t] = NoEvent]
          /\ result' \in [Thread -> {"none", "passed", "timeout"}]
        BY <1>7 DEF WaitReturns, EventInv, TypeOK
    <2>2. \A f \in Event : t \notin threadQueue[f]
        BY <1>7 DEF WaitReturns, Woken, EventInv, TypeOK, Waiting, NoCall
    <2>3. TypeOK'
        BY <2>1, <2>2 DEF EventInv, TypeOK, Call, Waiting
    <2>4. NobodyWaitsForASetEvent' /\ AlarmsBelongToTheWait'
        BY <2>1 DEF EventInv, TypeOK, NobodyWaitsForASetEvent, AlarmsBelongToTheWait
    <2> QED
        BY <2>3, <2>4 DEF EventInv
<1>8. ASSUME NEW t \in Thread, AlarmFires(t) PROVE EventInv'
    <2>1. /\ alarm[t] \in Event
          /\ call[t] = Waiting(alarm[t])
          /\ alarm' = [alarm EXCEPT ![t] = NoEvent]
          /\ UNCHANGED <<signaled, result>>
        BY <1>8 DEF AlarmFires, EventInv, TypeOK, AlarmsBelongToTheWait
    <2>2. CASE UNCHANGED <<call, threadQueue>>
        BY <2>1, <2>2 DEF EventInv, TypeOK, NobodyWaitsForASetEvent, AlarmsBelongToTheWait
    <2>3. CASE /\ call' = [call EXCEPT ![t].op = "timedOut"]
               /\ threadQueue' = [threadQueue EXCEPT ![alarm[t]] = @ \ {t}]
        <3>1. call'[t] = TimedOut(alarm[t])
            BY <2>1, <2>3 DEF Waiting, TimedOut, EventInv, TypeOK
        <3>2. /\ call' \in [Thread -> Call]
              /\ \A u \in Thread : u # t => call'[u] = call[u]
            <4>1. TimedOut(alarm[t]) \in Call
                BY <2>1 DEF TimedOut, Call
            <4>2. DOMAIN call' = Thread /\ call' = [u \in Thread |-> call'[u]]
                BY <2>3 DEF EventInv, TypeOK
            <4>3. \A u \in Thread : u # t => call'[u] = call[u]
                BY <2>3 DEF EventInv, TypeOK
            <4> QED
                BY <3>1, <4>1, <4>2, <4>3 DEF EventInv, TypeOK
        <3>3. /\ \A u : \A f \in Event : u \in threadQueue'[f] <=>
                      u \in threadQueue[f] /\ ~(f = alarm[t] /\ u = t)
              /\ threadQueue' \in [Event -> SUBSET Thread]
            BY <2>1, <2>3 DEF EventInv, TypeOK
        <3>4. \A f \in Event : t \notin threadQueue'[f]
            <4>1. \A f \in Event : t \in threadQueue[f] => Waiting(f) = Waiting(alarm[t])
                BY <2>1 DEF EventInv, TypeOK, Waiting
            <4>2. \A f \in Event : t \in threadQueue[f] => f = alarm[t]
                BY <4>1 DEF Waiting
            <4> QED
                BY <3>3, <4>2
        <3>5. TypeOK'
            <4>1. ASSUME NEW f \in Event, NEW u \in Thread, u \in threadQueue'[f]
                  PROVE  call'[u] = Waiting(f)
                <5>1. u \in threadQueue[f]
                    BY <3>3, <4>1
                <5>2. call[u] = Waiting(f)
                    BY <5>1 DEF EventInv, TypeOK
                <5> QED
                    BY <3>2, <3>4, <4>1, <5>2
            <4>2. alarm' \in [Thread -> Event \cup {NoEvent}]
                BY <2>1 DEF EventInv, TypeOK
            <4> QED
                BY <2>1, <3>2, <3>3, <4>1, <4>2 DEF EventInv, TypeOK, Waiting
        <3>6. NobodyWaitsForASetEvent'
            BY <2>1, <3>3 DEF EventInv, TypeOK, NobodyWaitsForASetEvent
        <3>7. AlarmsBelongToTheWait'
            BY <2>1, <3>2 DEF EventInv, TypeOK, AlarmsBelongToTheWait
        <3> QED
            BY <3>5, <3>6, <3>7 DEF EventInv
    <2> QED
        BY <1>8, <2>2, <2>3 DEF AlarmFires
<1> QED
    BY <1>0, <1>1, <1>2, <1>5, <1>6, <1>7, <1>8 DEF Next

\* The invariant holds in every reachable state.
THEOREM EventInvariant == Spec => []EventInv
<1> QED
    BY EventInit, EventStep, PTL DEF Spec

\* The wait queues hold threads that wait for their event and have not timed
\* out, whatever alarms fire (OSWaitEventWithTimeout).
THEOREM TypeCorrect == Spec => []TypeOK
<1>1. EventInv => TypeOK
    BY DEF EventInv
<1> QED
    BY EventInvariant, <1>1, PTL

\* No thread sleeps on an event that is set: OSSignalEvent sets an automatic
\* event only if nobody waits, and OSWaitEvent waits only if it is not set.
THEOREM SetEventsHaveNoWaiters == Spec => []NobodyWaitsForASetEvent
<1>1. EventInv => NobodyWaitsForASetEvent
    BY DEF EventInv
<1> QED
    BY EventInvariant, <1>1, PTL

\* A host alarm of OSWaitEventWithTimeout never outlives the wait it is for.
THEOREM AlarmsEndWithTheirWait == Spec => []AlarmsBelongToTheWait
<1>1. EventInv => AlarmsBelongToTheWait
    BY DEF EventInv
<1> QED
    BY EventInvariant, <1>1, PTL
-----------------------------------------------------------------------------
\* What Outcome says of the call a thread is in.
OutcomeReads ==
    \A u \in Thread :
        /\ call[u] = NoCall => Outcome[u] = result[u]
        /\ \A e \in Event : call[u] = Waiting(e) =>
               Outcome[u] = IF u \in threadQueue[e] THEN "none" ELSE "passed"
        /\ \A e \in Event : call[u] = TimedOut(e) => Outcome[u] = "timeout"

LEMMA OutcomeValue == TypeOK => OutcomeReads
<1> SUFFICES ASSUME TypeOK, NEW u \in Thread
             PROVE  /\ call[u] = NoCall => Outcome[u] = result[u]
                    /\ \A e \in Event : call[u] = Waiting(e) =>
                           Outcome[u] = IF u \in threadQueue[e] THEN "none" ELSE "passed"
                    /\ \A e \in Event : call[u] = TimedOut(e) => Outcome[u] = "timeout"
    BY DEF OutcomeReads
<1>1. call[u] = NoCall => Outcome[u] = result[u]
    BY DEF Outcome
<1>2. ASSUME NEW e \in Event, call[u] = Waiting(e)
      PROVE  Outcome[u] = IF u \in threadQueue[e] THEN "none" ELSE "passed"
    <2>1. /\ call[u] # NoCall
          /\ call[u].event = e
          /\ call[u].op # "timedOut"
        BY <1>2 DEF Waiting, NoCall
    <2> QED
        BY <2>1 DEF Outcome, Woken
<1>3. ASSUME NEW e \in Event, call[u] = TimedOut(e) PROVE Outcome[u] = "timeout"
    <2>1. /\ call[u] # NoCall
          /\ call[u].event = e
          /\ call[u].op = "timedOut"
        BY <1>3 DEF TimedOut, NoCall
    <2>2. u \notin threadQueue[e]
        BY <1>3 DEF TypeOK, Waiting, TimedOut
    <2> QED
        BY <2>1, <2>2 DEF Outcome, Woken
<1> QED
    BY <1>1, <1>2, <1>3

\* A thread whose call and place in the queues stay has the outcome it had.
LEMMA OutcomeStays ==
    ASSUME NEW u \in Thread, call'[u] = call[u], result'[u] = result[u],
           \A e \in Event : u \in threadQueue'[e] <=> u \in threadQueue[e],
           TypeOK
    PROVE  Outcome'[u] = Outcome[u]
<1>1. CASE call[u] = NoCall
    BY <1>1 DEF Outcome, NoCall
<1>2. CASE call[u] # NoCall
    <2>1. call[u].event \in Event /\ call'[u] # NoCall
        BY <1>2 DEF TypeOK, Call, NoCall
    <2>2. Woken(u)' <=> Woken(u)
        BY <1>2, <2>1 DEF Woken, NoCall
    <2> QED
        BY <1>2, <2>1, <2>2 DEF Outcome, NoCall
<1> QED
    BY <1>1, <1>2

LEMMA OutcomeIsFunction ==
    Outcome = [u \in Thread |-> Outcome[u]] /\ Outcome' = [u \in Thread |-> Outcome'[u]]
BY DEF Outcome

\* Every step of the event is a step of the gate or leaves it alone.
LEMMA EventRefines ==
    EventInv /\ EventInv' /\ [Next]_vars => [Abstract!Next]_<<signaled, threadQueue, Outcome>>
<1> SUFFICES ASSUME EventInv, EventInv', [Next]_vars
             PROVE  [Abstract!Next]_<<signaled, threadQueue, Outcome>>
    OBVIOUS
<1> USE EventAssumption
<1>a. TypeOK /\ TypeOK'
    BY DEF EventInv
<1>b. OutcomeReads
    BY <1>a, OutcomeValue
<1>c. OutcomeReads'
    <2>1. (TypeOK => OutcomeReads)'
        BY OutcomeValue, PTL
    <2> QED
        BY <1>a, <2>1
<1>0. CASE UNCHANGED vars
    <2>1. \A u \in Thread : Outcome'[u] = Outcome[u]
        BY <1>0, <1>a, OutcomeStays DEF vars
    <2> QED
        BY <1>0, <2>1, OutcomeIsFunction DEF vars
<1>1. ASSUME NEW e \in Event, OSResetEvent(e) PROVE Abstract!Next
    <2>1. \A u \in Thread : Outcome'[u] = Outcome[u]
        BY <1>1, <1>a, OutcomeStays DEF OSResetEvent
    <2>2. Abstract!Reset(e)
        BY <1>1, <2>1, OutcomeIsFunction DEF OSResetEvent, Abstract!Reset
    <2> QED
        BY <2>2 DEF Abstract!Next
<1>2. ASSUME NEW e \in Event, NEW everyone \in BOOLEAN, OSSignalEvent(e, everyone)
      PROVE  Abstract!Next
    <2> DEFINE woken == threadQueue[e] \ threadQueue'[e]
    <2>1. /\ threadQueue' = [threadQueue EXCEPT ![e] = @ \ woken]
          /\ woken \subseteq threadQueue[e]
          /\ UNCHANGED <<alarm, call, result>>
          /\ \/ woken = threadQueue[e]
                /\ (everyone \/ e \in Manual \/ threadQueue[e] = {})
             \/ ~(everyone \/ e \in Manual \/ threadQueue[e] = {})
                /\ \E t \in threadQueue[e] : woken = {t}
        <3>1. CASE everyone \/ e \in Manual \/ threadQueue[e] = {}
            BY <1>2, <1>a, <3>1 DEF OSSignalEvent, TypeOK
        <3>2. CASE ~(everyone \/ e \in Manual \/ threadQueue[e] = {})
            BY <1>2, <1>a, <3>2 DEF OSSignalEvent, TypeOK
        <3> QED
            BY <3>1, <3>2
    <2> HIDE DEF woken
    <2>2. ASSUME NEW u \in Thread
          PROVE  Outcome'[u] = IF u \in woken THEN "passed" ELSE Outcome[u]
        <3>1. CASE u \in woken
            <4>1. call[u] = Waiting(e) /\ call'[u] = Waiting(e)
                BY <2>1, <3>1, <1>a DEF TypeOK
            <4>2. u \notin threadQueue'[e]
                BY <2>1, <3>1, <1>a DEF TypeOK
            <4> QED
                BY <1>c, <3>1, <4>1, <4>2 DEF OutcomeReads, Waiting
        <3>2. CASE u \notin woken
            <4>1. \A f \in Event : u \in threadQueue'[f] <=> u \in threadQueue[f]
                BY <2>1, <3>2, <1>a DEF TypeOK
            <4> QED
                BY <2>1, <3>2, <4>1, <1>a, OutcomeStays
        <3> QED
            BY <3>1, <3>2
    <2>3. Outcome' = [u \in Thread |-> IF u \in woken THEN "passed" ELSE Outcome[u]]
        BY <2>2, OutcomeIsFunction, Zenon
    <2>4. Abstract!LetPass(e, woken)
        BY <2>1, <2>3 DEF Abstract!LetPass
    <2>5. ~signaled[e] /\ signaled' = [signaled EXCEPT ![e] = e \in Manual \/ threadQueue[e] = {}]
        BY <1>2 DEF OSSignalEvent
    <2>6. Abstract!Signal(e, everyone)
        BY <2>1, <2>4, <2>5, Zenon DEF Abstract!Signal
    <2> QED
        BY <2>6 DEF Abstract!Next
<1>3. ASSUME NEW e \in Event, NEW t \in Thread, call[t] = NoCall, PassSignaled(t, e)
      PROVE  Abstract!Next
    <2>1. /\ UNCHANGED <<threadQueue, alarm, call>>
          /\ result' = [result EXCEPT ![t] = "passed"]
        BY <1>3 DEF PassSignaled
    <2>2. Outcome'[t] = "passed"
        BY <1>3, <2>1, <1>a, <1>c DEF TypeOK, OutcomeReads, NoCall
    <2>3. \A u \in Thread : u # t => Outcome'[u] = Outcome[u]
        BY <2>1, <1>a, OutcomeStays DEF TypeOK
    <2>4. Outcome' = [Outcome EXCEPT ![t] = "passed"]
        BY <2>2, <2>3, OutcomeIsFunction
    <2>5. Abstract!Pass(t, e)
        BY <1>3, <2>4 DEF PassSignaled, Abstract!Pass
    <2> QED
        BY <2>5 DEF Abstract!Next
<1>4. ASSUME NEW e \in Event, NEW t \in Thread, call[t] = NoCall, EnterQueue(t, e)
      PROVE  Abstract!Next
    <2>1. /\ threadQueue' = [threadQueue EXCEPT ![e] = @ \cup {t}]
          /\ call' = [call EXCEPT ![t] = Waiting(e)]
          /\ UNCHANGED result
        BY <1>4 DEF EnterQueue
    <2>2. Outcome'[t] = "none"
        <3>1. call'[t] = Waiting(e) /\ t \in threadQueue'[e]
            BY <2>1, <1>a DEF TypeOK
        <3> QED
            BY <3>1, <1>c DEF OutcomeReads, Waiting
    <2>3. ASSUME NEW u \in Thread, u # t PROVE Outcome'[u] = Outcome[u]
        <3>1. \A f \in Event : u \in threadQueue'[f] <=> u \in threadQueue[f]
            BY <2>1, <2>3, <1>a DEF TypeOK
        <3>2. call'[u] = call[u]
            BY <2>1, <2>3, <1>a DEF TypeOK
        <3> QED
            BY <2>1, <3>1, <3>2, <1>a, OutcomeStays
    <2>4. Outcome' = [Outcome EXCEPT ![t] = "none"]
        BY <2>2, <2>3, OutcomeIsFunction
    <2>5. Abstract!Wait(t, e)
        BY <1>4, <2>4 DEF EnterQueue, Abstract!Wait
    <2> QED
        BY <2>5 DEF Abstract!Next
<1>5. ASSUME NEW e \in Event, NEW t \in Thread, call[t] = NoCall, ~signaled[e],
             result' = [result EXCEPT ![t] = "timeout"],
             UNCHANGED <<signaled, threadQueue, alarm, call>>
      PROVE  Abstract!Next
    <2>1. Outcome'[t] = "timeout"
        BY <1>5, <1>a, <1>c DEF TypeOK, OutcomeReads, NoCall
    <2>2. \A u \in Thread : u # t => Outcome'[u] = Outcome[u]
        BY <1>5, <1>a, OutcomeStays DEF TypeOK
    <2>3. Outcome' = [Outcome EXCEPT ![t] = "timeout"]
        BY <2>1, <2>2, OutcomeIsFunction
    <2>4. Abstract!Poll(t, e)
        BY <1>5, <2>3 DEF Abstract!Poll
    <2> QED
        BY <2>4 DEF Abstract!Next
<1>6. ASSUME NEW t \in Thread, WaitReturns(t)
      PROVE  UNCHANGED <<signaled, threadQueue, Outcome>>
    <2>1. /\ UNCHANGED <<signaled, threadQueue>>
          /\ call[t] # NoCall /\ t \notin threadQueue[call[t].event]
          /\ call'[t] = NoCall
          /\ result'[t] = IF call[t].op = "timedOut" THEN "timeout" ELSE "passed"
          /\ \A u \in Thread : u # t => call'[u] = call[u] /\ result'[u] = result[u]
        BY <1>6, <1>a DEF WaitReturns, Woken, TypeOK
    <2>2. Outcome'[t] = result'[t]
        BY <2>1, <1>c DEF OutcomeReads, NoCall
    <2>3. Outcome[t] = result'[t]
        BY <2>1 DEF Outcome, Woken
    <2>4. \A u \in Thread : u # t => Outcome'[u] = Outcome[u]
        BY <2>1, <1>a, OutcomeStays
    <2> QED
        BY <2>1, <2>2, <2>3, <2>4, OutcomeIsFunction
<1>7. ASSUME NEW t \in Thread, AlarmFires(t)
      PROVE  [Abstract!Next]_<<signaled, threadQueue, Outcome>>
    <2>1. /\ alarm[t] \in Event
          /\ call[t] = Waiting(alarm[t])
          /\ UNCHANGED <<signaled, result>>
        BY <1>7 DEF AlarmFires, EventInv, TypeOK, AlarmsBelongToTheWait
    <2>2. CASE UNCHANGED <<call, threadQueue>>
        <3>1. \A u \in Thread : Outcome'[u] = Outcome[u]
            BY <2>1, <2>2, <1>a, OutcomeStays
        <3> QED
            BY <2>1, <2>2, <3>1, OutcomeIsFunction
    <2>3. CASE /\ \E e \in Event : t \in threadQueue[e]
               /\ call' = [call EXCEPT ![t].op = "timedOut"]
               /\ threadQueue' = [threadQueue EXCEPT ![alarm[t]] = @ \ {t}]
        <3>1. t \in threadQueue[alarm[t]]
            <4>1. PICK e \in Event : t \in threadQueue[e]
                BY <2>3
            <4>2. Waiting(e) = Waiting(alarm[t])
                BY <2>1, <4>1, <1>a DEF TypeOK, Waiting
            <4>3. e = alarm[t]
                BY <4>2 DEF Waiting
            <4> QED
                BY <4>1, <4>3
        <3>2. call'[t] = TimedOut(alarm[t])
            BY <2>1, <2>3, <1>a DEF TypeOK, Waiting, TimedOut
        <3>3. Outcome'[t] = "timeout"
            BY <2>1, <3>2, <1>c DEF OutcomeReads, TimedOut
        <3>4. ASSUME NEW u \in Thread, u # t PROVE Outcome'[u] = Outcome[u]
            <4>1. \A f \in Event : u \in threadQueue'[f] <=> u \in threadQueue[f]
                BY <2>1, <2>3, <3>4, <1>a DEF TypeOK
            <4>2. call'[u] = call[u]
                BY <2>3, <3>4, <1>a DEF TypeOK
            <4> QED
                BY <2>1, <4>1, <4>2, <1>a, OutcomeStays
        <3>5. Outcome' = [Outcome EXCEPT ![t] = "timeout"]
            BY <3>3, <3>4, OutcomeIsFunction
        <3>6. Abstract!Timeout(t, alarm[t])
            BY <2>1, <2>3, <3>1, <3>5 DEF Abstract!Timeout
        <3> QED
            BY <2>1, <3>6 DEF Abstract!Next
    <2> QED
        BY <1>7, <2>2, <2>3 DEF AlarmFires
<1>8. ASSUME NEW e \in Event, NEW t \in Thread, OSWaitEvent(t, e) PROVE Abstract!Next
    BY <1>3, <1>4, <1>8 DEF OSWaitEvent
<1>9. ASSUME NEW e \in Event, NEW t \in Thread, NEW zero \in BOOLEAN,
             OSWaitEventWithTimeout(t, e, zero)
      PROVE  Abstract!Next
    BY <1>3, <1>4, <1>5, <1>9 DEF OSWaitEventWithTimeout
<1> QED
    BY <1>0, <1>1, <1>2, <1>6, <1>7, <1>8, <1>9 DEF Next

\* An OSEvent is a gate: a signal of an automatic event ends one wait or is
\* kept, and no wait both times out and uses a signal up.
THEOREM EventIsAGate == Spec => GateSpec
<1>1. Init => Abstract!Init
    <2> SUFFICES ASSUME Init PROVE Abstract!Init
        OBVIOUS
    <2>1. Outcome = [t \in Thread |-> "none"]
        BY DEF Init, Outcome
    <2> QED
        BY <2>1 DEF Init, Abstract!Init
<1> QED
    BY <1>1, EventInvariant, EventRefines, PTL DEF Spec, GateSpec, Abstract!Spec
-----------------------------------------------------------------------------
(* The semaphores.  That nobody sleeps beside units is inductive as it     *)
(* stands once the count is known to be an integer, which needs the guest  *)
(* to start with one.                                                      *)

SemaphoreInv == count \in Int /\ NobodySleepsBesideUnits

\* A thread that takes a unit leaves none that it found beside a sleeper; one
\* that falls asleep found none.
LEMMA TakeOrWait ==
    ASSUME SemaphoreInv, NEW t \in SemaphoreThread,
           Semaphores!TakeUnit(t) \/ Semaphores!WaitForUnit(t)
    PROVE  SemaphoreInv'
<1>1. CASE Semaphores!TakeUnit(t)
    BY <1>1 DEF SemaphoreInv, NobodySleepsBesideUnits, Semaphores!NobodySleepsBesideUnits,
                Semaphores!TakeUnit
<1>2. CASE Semaphores!WaitForUnit(t)
    BY <1>2 DEF SemaphoreInv, NobodySleepsBesideUnits, Semaphores!NobodySleepsBesideUnits,
                Semaphores!WaitForUnit
<1> QED
    BY <1>1, <1>2

LEMMA SemaphoreStep == SemaphoreInv /\ [Semaphores!Next]_(Semaphores!vars) => SemaphoreInv'
<1> SUFFICES ASSUME SemaphoreInv, [Semaphores!Next]_(Semaphores!vars) PROVE SemaphoreInv'
    OBVIOUS
<1> USE DEF NobodySleepsBesideUnits, Semaphores!NobodySleepsBesideUnits
<1>1. CASE UNCHANGED Semaphores!vars
    BY <1>1 DEF SemaphoreInv, Semaphores!vars
<1>2. ASSUME NEW t \in SemaphoreThread, NEW try \in BOOLEAN, Semaphores!OSWaitSemaphore(t, try)
      PROVE  SemaphoreInv'
    BY <1>2, TakeOrWait DEF Semaphores!OSWaitSemaphore
<1>3. ASSUME NEW t \in SemaphoreThread, Semaphores!OSWaitSemaphoreInternal(t)
      PROVE  SemaphoreInv'
    BY <1>3, TakeOrWait DEF Semaphores!OSWaitSemaphoreInternal
<1>4. ASSUME NEW t \in SemaphoreThread, Semaphores!OSSignalSemaphore(t)
      PROVE  SemaphoreInv'
    BY <1>4 DEF SemaphoreInv, Semaphores!OSSignalSemaphore
<1> QED
    BY <1>1, <1>2, <1>3, <1>4 DEF Semaphores!Next

\* No thread sleeps in OSWaitSemaphore while the count is positive, for any
\* number of threads and any count given to OSInitSemaphoreEx.
THEOREM SleepersFindNoUnits ==
    ASSUME Owed \in Int
    PROVE  Semaphores!Spec => []NobodySleepsBesideUnits
<1>1. Semaphores!Init => SemaphoreInv
    BY DEF Semaphores!Init, SemaphoreInv, NobodySleepsBesideUnits,
           Semaphores!NobodySleepsBesideUnits
<1>2. SemaphoreInv => NobodySleepsBesideUnits
    BY DEF SemaphoreInv
<1> QED
    BY <1>1, <1>2, SemaphoreStep, PTL DEF Semaphores!Spec
-----------------------------------------------------------------------------
(* The alarms: how the times are counted.                                  *)

\* Division with remainder.
LEMMA Division ==
    ASSUME NEW a \in Int, NEW b \in Nat, b > 0
    PROVE  \E q \in Int, r \in 0..b - 1 : a \div b = q /\ a % b = r /\ a = q * b + r
<1> DEFINE q == a \div b
           r == a % b
<1>1. q \in Int /\ r \in 0..b - 1
    OBVIOUS
<1>2. ASSUME NEW x \in Int, NEW y \in Int, x = a \div b, y = a % b
      PROVE  a = x * b + y
    BY <1>2
<1>3. a = q * b + r
    BY <1>1, <1>2
<1> QED
    BY <1>1, <1>3

LEMMA Multiples ==
    ASSUME NEW q \in Int, NEW b \in Nat
    PROVE  /\ q * b \in Int
           /\ q >= 1 => q * b >= b
           /\ q >= 2 => q * b >= b + b
           /\ q <= 0 => q * b <= 0
           /\ q <= -1 => q * b <= -b
           /\ q <= -2 => q * b <= -b - b
           /\ (q + 1) * b = q * b + b
           /\ (q - 1) * b = q * b - b
OBVIOUS

\* A clock of b ticks that wraps around at most once.
LEMMA Remainder ==
    ASSUME NEW a \in Int, NEW b \in Nat, b > 0
    PROVE  /\ 0 <= a /\ a < b => a % b = a
           /\ b <= a /\ a < b + b => a % b = a - b
           /\ -b <= a /\ a < 0 => a % b = a + b
<1>1. PICK q \in Int, r \in 0..b - 1 : a % b = r /\ a = q * b + r
    BY Division
<1>2. q <= -2 \/ q = -1 \/ q = 0 \/ q = 1 \/ q >= 2
    OBVIOUS
<1> QED
    BY <1>1, <1>2, Multiples

\* The first multiple of p after x.
LEMMA NextMultiple ==
    ASSUME NEW x \in Nat, NEW p \in Nat, p > 0
    PROVE  /\ x \div p \in Int
           /\ (x \div p + 1) * p \in Int
           /\ x < (x \div p + 1) * p /\ (x \div p + 1) * p <= x + p
<1>1. PICK q \in Int, r \in 0..p - 1 : x \div p = q /\ x = q * p + r
    BY Division
<1>2. q * p \in Int /\ (q + 1) * p = q * p + p
    BY Multiples
<1> QED
    BY <1>1, <1>2

\* A periodic alarm fires after now and within its period, also if the start
\* lies in the future and the count of ticks since then wraps around.
LEMMA NextFireComesWithinThePeriod ==
    ASSUME NEW start \in 0..MaxTime + 1, NEW p \in Period, now \in 0..MaxTime
    PROVE  /\ Alarms!NextFire(start, p) \in Nat
           /\ now < Alarms!NextFire(start, p) /\ Alarms!NextFire(start, p) <= now + p
<1> DEFINE W == 2^Width
           x == (now - start) % W
           y == (x \div p + 1) * p
<1>0. /\ W \in Nat /\ p \in Nat /\ p > 0 /\ MaxTime \in Nat
      /\ MaxTime + 1 < W /\ MaxTime + 1 + p < W
    BY AlarmAssumption
<1> HIDE DEF W
<1>1. Alarms!NextFire(start, p) = (start + y) % W
    BY DEF Alarms!NextFire, W
<1>2. CASE start <= now
    <2>1. x = now - start
        BY <1>0, <1>2, Remainder
    <2>2. y \in Int /\ now - start < y /\ y <= now - start + p
        BY <1>0, <1>2, <2>1, NextMultiple
    <2> HIDE DEF x, y
    <2>3. (start + y) % W = start + y
        BY <1>0, <1>2, <2>2, Remainder
    <2> QED
        BY <1>0, <1>1, <1>2, <2>2, <2>3
<1>3. CASE now < start
    <2>1. x = now - start + W
        BY <1>0, <1>3, Remainder
    <2>2. y \in Int /\ now - start + W < y /\ y <= now - start + W + p
        BY <1>0, <1>3, <2>1, NextMultiple
    <2> HIDE DEF x, y
    <2>3. (start + y) % W = start + y - W
        BY <1>0, <1>3, <2>2, Remainder
    <2> QED
        BY <1>0, <1>1, <1>3, <2>2, <2>3
<1> QED
    BY <1>2, <1>3
-----------------------------------------------------------------------------
(* The invariant of the alarms.                                            *)

Host == [listed : BOOLEAN, fire : Nat]
\* The assumption without the width of the clock.
LEMMA Parameters ==
    /\ MaxTime \in Nat /\ Delay \subseteq Nat /\ NoTime \notin Nat
    /\ \A p \in Period \cup {0} : p \in Nat
    /\ \A p \in Period : p > 0
    /\ NoHost \notin Host
BY AlarmAssumption DEF Host

ThreadAt == {"wait", "woken", "asleep", "look", "call"}

AlarmTypeOK ==
    /\ now \in 0..MaxTime
    /\ nextTime \in [Alarm -> Nat]
    /\ period \in [Alarm -> Period \cup {0}]
    /\ host \in [Alarm -> Host \cup {NoHost}]
    /\ orphans \subseteq Nat
    /\ updateTick \in Nat \cup {NoTime}
    /\ eventSignaled \in [{AlarmEvent} -> BOOLEAN]
    /\ eventWaiting \in [{AlarmEvent} -> SUBSET {AlarmThread}]
    /\ thread \in [at : ThreadAt, tick : Nat]

\* What the main core and the alarm thread have read of the clock is past, and
\* only the alarm thread waits for the event.
Readings ==
    /\ updateTick # NoTime => updateTick <= now
    /\ thread.tick <= now
    /\ eventWaiting[AlarmEvent] # {} => thread.at = "asleep"

\* A host alarm fires once at the time of its alarm; or it is in the list, a
\* number of periods off the time of its alarm, and fires within the period.
HostAlarm(a) ==
    IF period[a] = 0
    THEN host[a].fire = nextTime[a] /\ (~host[a].listed => nextTime[a] <= now)
    ELSE /\ host[a].listed /\ host[a].fire <= now + period[a]
         /\ \E k \in Int : host[a].fire = nextTime[a] + k * period[a]

HostAlarms == \A a \in Alarm : host[a] # NoHost => HostAlarm(a)

Fired(a) == host[a] # NoHost /\ (~host[a].listed \/ host[a].fire > nextTime[a])

Awake == eventSignaled[AlarmEvent] \/ thread.at = "woken"
         \/ (thread.at = "asleep" /\ eventWaiting[AlarmEvent] = {})

Looks == thread.at \in {"look", "call"}

\* The time at which a fired host alarm was last due has been seen or will be.
FiredAreSeen ==
    \A a \in Alarm :
        Fired(a) => Awake \/ (Looks /\ thread.tick + period[a] >= host[a].fire)

AlarmInv == AlarmTypeOK /\ Readings /\ HostAlarms /\ FiredAreSeen

\* Where an alarm has its invariant still, if the clock has only gone on.
LEMMA HostAlarmStays ==
    ASSUME AlarmTypeOK, AlarmTypeOK', NEW a \in Alarm, host[a] # NoHost, HostAlarm(a),
           host'[a] = host[a], nextTime'[a] = nextTime[a], period'[a] = period[a],
           now' >= now
    PROVE  HostAlarm(a)'
<1>1. /\ now \in Int /\ now' \in Int /\ nextTime[a] \in Nat
      /\ period[a] \in Nat /\ host[a] \in Host /\ host[a].fire \in Nat
    BY Parameters DEF AlarmTypeOK, Host
<1>2. CASE period[a] = 0
    BY <1>1, <1>2 DEF HostAlarm
<1>3. CASE period[a] # 0
    <2>1. /\ host'[a].listed /\ host'[a].fire <= now' + period'[a]
        BY <1>1, <1>3 DEF HostAlarm
    <2>2. \E k \in Int : host'[a].fire = nextTime'[a] + k * period'[a]
        BY <1>3 DEF HostAlarm
    <2> QED
        BY <1>3, <2>1, <2>2 DEF HostAlarm
<1> QED
    BY <1>2, <1>3

LEMMA AllHostAlarmsStay ==
    ASSUME AlarmTypeOK, AlarmTypeOK', HostAlarms,
           UNCHANGED <<host, nextTime, period>>, now' >= now
    PROVE  HostAlarms'
BY HostAlarmStays DEF HostAlarms

\* A host alarm that has fired was due one period before it fires next.
LEMMA FiredIsPast ==
    ASSUME AlarmTypeOK, HostAlarms, NEW a \in Alarm, Fired(a)
    PROVE  host[a].fire <= now + period[a]
<1>1. /\ now \in Int /\ nextTime[a] \in Nat /\ period[a] \in Nat /\ host[a].fire \in Nat
    <2>1. now \in Int /\ nextTime[a] \in Nat /\ period[a] \in Nat /\ host[a] \in Host
        BY Parameters DEF AlarmTypeOK, Fired
    <2> QED
        BY <2>1 DEF Host
<1> QED
    BY <1>1 DEF HostAlarms, HostAlarm, Fired

\* A tick that has seen a fired host alarm has seen the time of its alarm.
LEMMA SeenIsDue ==
    ASSUME AlarmTypeOK, HostAlarms, NEW a \in Alarm, Fired(a),
           NEW tick \in Nat, tick + period[a] >= host[a].fire
    PROVE  tick >= nextTime[a]
<1>1. nextTime[a] \in Nat /\ period[a] \in Nat /\ host[a].fire \in Nat /\ HostAlarm(a)
    <2>1. nextTime[a] \in Nat /\ period[a] \in Nat /\ host[a] \in Host /\ HostAlarm(a)
        BY Parameters DEF AlarmTypeOK, Fired, HostAlarms
    <2> QED
        BY <2>1 DEF Host
<1>2. CASE period[a] = 0
    BY <1>1, <1>2 DEF HostAlarm
<1>3. CASE period[a] # 0
    <2>1. PICK k \in Int : host[a].fire = nextTime[a] + k * period[a]
        BY <1>1, <1>3 DEF HostAlarm
    <2>2. host[a].fire > nextTime[a]
        BY <1>1, <1>3 DEF HostAlarm, Fired
    <2>3. k >= 1 \/ k <= 0
        BY <2>1
    <2> QED
        BY <1>1, <2>1, <2>2, <2>3, Multiples
<1> QED
    BY <1>2, <1>3

LEMMA AlarmInit == Alarms!Init => AlarmInv
<1> SUFFICES ASSUME Alarms!Init PROVE AlarmInv
    OBVIOUS
<1>1. /\ now = 0
      /\ nextTime = [a \in Alarm |-> 0] /\ period = [a \in Alarm |-> 0]
      /\ host = [a \in Alarm |-> NoHost] /\ orphans = {} /\ updateTick = NoTime
      /\ eventSignaled = [e \in {AlarmEvent} |-> FALSE]
      /\ eventWaiting = [e \in {AlarmEvent} |-> {}]
      /\ thread = [at |-> "wait", tick |-> 0]
    BY DEF Alarms!Init, Alarms!alarmEvent!Init
<1>2. AlarmTypeOK
    BY <1>1, Parameters DEF AlarmTypeOK, ThreadAt
<1>3. Readings
    BY <1>1 DEF Readings
<1>4. HostAlarms /\ FiredAreSeen
    BY <1>1 DEF HostAlarms, FiredAreSeen, Fired
<1> QED
    BY <1>2, <1>3, <1>4 DEF AlarmInv

\* The clock goes on.
LEMMA TickKeepsAlarmInv ==
    ASSUME AlarmInv, Alarms!Tick
    PROVE  AlarmInv'
<1>1. /\ now < MaxTime /\ now' = now + 1
      /\ UNCHANGED <<nextTime, period, host, orphans, updateTick, eventSignaled,
                     eventWaiting, thread>>
    BY DEF Alarms!Tick, Alarms!eventVars
<1>2. AlarmTypeOK /\ AlarmTypeOK'
    BY <1>1, Parameters DEF AlarmInv, AlarmTypeOK
<1>3. now \in Nat /\ now' > now /\ thread.tick \in Nat /\ (updateTick # NoTime => updateTick \in Nat)
    BY <1>1, <1>2, Parameters DEF AlarmTypeOK
<1>4. Readings'
    BY <1>1, <1>3 DEF AlarmInv, Readings
<1>5. HostAlarms'
    BY <1>1, <1>2, <1>3, AllHostAlarmsStay DEF AlarmInv
<1>6. FiredAreSeen'
    BY <1>1 DEF AlarmInv, FiredAreSeen, Fired, Awake, Looks
<1> QED
    BY <1>2, <1>4, <1>5, <1>6 DEF AlarmInv

\* An alarm that is set anew has not fired.
LEMMA InitiateKeepsAlarmInv ==
    ASSUME AlarmInv, NEW a \in Alarm, NEW time \in Nat, NEW p \in Period \cup {0},
           p # 0 => time <= now + p, Alarms!Initiate(a, time, p)
    PROVE  AlarmInv'
<1> DEFINE h == [listed |-> TRUE, fire |-> time]
<1>1. /\ nextTime' = [nextTime EXCEPT ![a] = time]
      /\ period' = [period EXCEPT ![a] = p]
      /\ host' = [host EXCEPT ![a] = h]
      /\ UNCHANGED <<now, orphans, updateTick, eventSignaled, eventWaiting, thread>>
    BY DEF Alarms!Initiate, Alarms!eventVars
<1>2. h \in Host /\ h.listed /\ h.fire = time
    BY DEF Host
<1>. h # NoHost
    BY <1>2, Parameters
<1> HIDE DEF h
<1>3. AlarmTypeOK
    BY DEF AlarmInv
<1>4. AlarmTypeOK'
    BY <1>1, <1>2, <1>3 DEF AlarmTypeOK
<1>5. Readings'
    BY <1>1 DEF AlarmInv, Readings
<1>6. /\ host'[a] = h /\ nextTime'[a] = time /\ period'[a] = p
      /\ \A b \in Alarm : b # a =>
             host'[b] = host[b] /\ nextTime'[b] = nextTime[b] /\ period'[b] = period[b]
    BY <1>1, <1>3 DEF AlarmTypeOK
<1>7. p \in Nat /\ now \in Nat
    BY <1>3, Parameters DEF AlarmTypeOK
<1>8. HostAlarm(a)'
    <2>1. time = time + 0 * p
        BY <1>7
    <2>2. p # 0 => host'[a].fire <= now' + period'[a]
        BY <1>1, <1>2, <1>6
    <2>3. \E k \in Int : host'[a].fire = nextTime'[a] + k * period'[a]
        BY <1>2, <1>6, <2>1
    <2> QED
        BY <1>2, <1>6, <2>2, <2>3 DEF HostAlarm
<1>9. HostAlarms'
    <2> SUFFICES ASSUME NEW b \in Alarm, host'[b] # NoHost PROVE HostAlarm(b)'
        BY DEF HostAlarms
    <2>1. CASE b = a
        BY <1>8, <2>1
    <2>2. CASE b # a
        BY <1>1, <1>3, <1>4, <1>6, <1>7, <2>2, HostAlarmStays DEF AlarmInv, HostAlarms
    <2> QED
        BY <2>1, <2>2
<1>10. FiredAreSeen'
    <2> SUFFICES ASSUME NEW b \in Alarm, Fired(b)'
                 PROVE  (Awake \/ (Looks /\ thread.tick + period[b] >= host[b].fire))'
        BY DEF FiredAreSeen
    <2>1. b # a
        BY <1>2, <1>6 DEF Fired
    <2>2. Fired(b)
        BY <1>6, <2>1 DEF Fired
    <2> QED
        BY <1>1, <1>6, <2>1, <2>2 DEF AlarmInv, FiredAreSeen, Awake, Looks
<1> QED
    BY <1>4, <1>5, <1>9, <1>10 DEF AlarmInv

LEMMA SetKeepsAlarmInv ==
    ASSUME AlarmInv, NEW a \in Alarm, Alarms!OSSetAlarm(a) \/ Alarms!OSSetPeriodicAlarm(a)
    PROVE  AlarmInv'
<1>1. now \in 0..MaxTime /\ now \in Nat
    BY Parameters DEF AlarmInv, AlarmTypeOK
<1>2. CASE Alarms!OSSetAlarm(a)
    <2>1. PICK delay \in Delay : Alarms!Initiate(a, now + delay, 0)
        BY <1>2 DEF Alarms!OSSetAlarm
    <2>2. now + delay \in Nat
        BY <1>1, Parameters
    <2> QED
        BY <2>1, <2>2, InitiateKeepsAlarmInv
<1>3. CASE Alarms!OSSetPeriodicAlarm(a)
    <2>1. PICK p \in Period, start \in 0..MaxTime + 1 :
              Alarms!Initiate(a, Alarms!NextFire(start, p), p)
        BY <1>3 DEF Alarms!OSSetPeriodicAlarm
    <2>2. Alarms!NextFire(start, p) \in Nat /\ Alarms!NextFire(start, p) <= now + p
        BY <1>1, NextFireComesWithinThePeriod
    <2> QED
        BY <2>1, <2>2, InitiateKeepsAlarmInv
<1> QED
    BY <1>2, <1>3

LEMMA CancelKeepsAlarmInv ==
    ASSUME AlarmInv, NEW a \in Alarm, Alarms!OSCancelAlarm(a)
    PROVE  AlarmInv'
<1>1. /\ host' = [host EXCEPT ![a] = NoHost]
      /\ UNCHANGED <<now, nextTime, period, orphans, updateTick, eventSignaled,
                     eventWaiting, thread>>
    BY DEF Alarms!OSCancelAlarm, Alarms!eventVars
<1>2. AlarmTypeOK /\ AlarmTypeOK'
    BY <1>1 DEF AlarmInv, AlarmTypeOK
<1>3. Readings'
    BY <1>1 DEF AlarmInv, Readings
<1>4. \A b \in Alarm : host'[b] # NoHost => b # a /\ host'[b] = host[b] /\ host[b] # NoHost
    BY <1>1, <1>2 DEF AlarmTypeOK
<1>5. now' >= now
    BY <1>1, <1>2, Parameters DEF AlarmTypeOK
<1>6. HostAlarms'
    BY <1>1, <1>2, <1>4, <1>5, HostAlarmStays DEF AlarmInv, HostAlarms
<1>7. FiredAreSeen'
    BY <1>1, <1>4 DEF AlarmInv, FiredAreSeen, Fired, Awake, Looks
<1> QED
    BY <1>2, <1>3, <1>6, <1>7 DEF AlarmInv

LEMMA UpdateReadsKeepsAlarmInv ==
    ASSUME AlarmInv, Alarms!UpdateReads
    PROVE  AlarmInv'
<1>1. /\ updateTick' = now
      /\ UNCHANGED <<now, nextTime, period, host, orphans, eventSignaled, eventWaiting, thread>>
    BY DEF Alarms!UpdateReads, Alarms!eventVars
<1>2. AlarmTypeOK /\ now \in Nat
    BY Parameters DEF AlarmInv, AlarmTypeOK
<1>3. AlarmTypeOK'
    BY <1>1, <1>2 DEF AlarmTypeOK
<1>4. Readings'
    BY <1>1, <1>2 DEF AlarmInv, Readings
<1>5. HostAlarms'
    BY <1>1, <1>2, <1>3, AllHostAlarmsStay DEF AlarmInv
<1>6. FiredAreSeen'
    BY <1>1 DEF AlarmInv, FiredAreSeen, Fired, Awake, Looks
<1> QED
    BY <1>3, <1>4, <1>5, <1>6 DEF AlarmInv

\* A host alarm that expires is taken out of the list, or put back to a time
\* that is to come and was due within the period.
LEMMA ExpiredHostAlarm ==
    ASSUME AlarmTypeOK, Readings, HostAlarms, NEW a \in Alarm,
           updateTick # NoTime, host[a] # NoHost, host[a].listed,
           updateTick >= host[a].fire
    PROVE  LET h == Alarms!Expired(host[a], period[a])
           IN  /\ h \in Host
               /\ IF period[a] = 0
                  THEN h.fire = nextTime[a] /\ nextTime[a] <= now
                  ELSE /\ h.listed /\ h.fire <= now + period[a]
                       /\ \E k \in Int : h.fire = nextTime[a] + k * period[a]
<1> DEFINE h == Alarms!Expired(host[a], period[a])
           p == period[a]
           f == host[a].fire
           x == updateTick - f
           y == (x \div p + 1) * p
<1>1. host[a] \in Host /\ HostAlarm(a)
    BY DEF AlarmTypeOK, HostAlarms
<1>2. f \in Nat /\ host[a].listed \in BOOLEAN /\ host[a] = [listed |-> TRUE, fire |-> f]
    BY <1>1 DEF Host
<1>3. /\ now \in Nat /\ p \in Nat /\ updateTick \in Nat /\ nextTime[a] \in Nat
      /\ updateTick <= now
    BY Parameters DEF AlarmTypeOK, Readings
<1>4. CASE p = 0
    <2>1. h = [host[a] EXCEPT !.listed = FALSE]
        BY <1>4 DEF Alarms!Expired
    <2>2. h = [listed |-> FALSE, fire |-> f]
        BY <1>2, <2>1
    <2>3. f = nextTime[a]
        BY <1>1, <1>4 DEF HostAlarm
    <2> HIDE DEF h, f
    <2>4. h \in Host /\ h.fire = nextTime[a]
        BY <1>2, <2>2, <2>3 DEF Host
    <2>5. nextTime[a] <= now
        BY <1>3, <2>3 DEF f
    <2> QED
        BY <1>4, <2>4, <2>5 DEF h
<1>5. CASE p # 0
    <2>1. h = [host[a] EXCEPT !.fire = f + y]
        BY <1>5 DEF Alarms!Expired
    <2>2. h = [listed |-> TRUE, fire |-> f + y]
        BY <1>2, <2>1
    <2>3. x \in Nat
        BY <1>2, <1>3
    <2>4. x \div p \in Int /\ y \in Int /\ x < y /\ y <= x + p
        BY <1>3, <1>5, <2>3, NextMultiple
    <2>5. PICK k \in Int : f = nextTime[a] + k * p
        BY <1>1, <1>5 DEF HostAlarm
    <2> DEFINE n == x \div p
    <2>6. n \in Int /\ y = (n + 1) * p
        BY <2>4
    <2>7. k * p \in Int /\ (k + n + 1) * p = k * p + (n + 1) * p
        BY <1>3, <2>6
    <2>8. x = updateTick - f
        OBVIOUS
    <2> HIDE DEF h, f, p, x, y, n
    <2>9. f + y \in Nat /\ f + y <= now + p
        BY <1>2, <1>3, <2>3, <2>4, <2>8
    <2>10. f + y = nextTime[a] + (k + n + 1) * p /\ k + n + 1 \in Int
        BY <1>3, <2>4, <2>5, <2>6, <2>7
    <2>11. h \in Host /\ h.listed /\ h.fire = f + y
        BY <2>2, <2>9 DEF Host
    <2>12. \E j \in Int : h.fire = nextTime[a] + j * p
        BY <2>10, <2>11
    <2> QED
        BY <1>5, <2>9, <2>11, <2>12 DEF h, p
<1> QED
    BY <1>4, <1>5

\* Whatever fires, the event is set or the alarm thread wakes.
LEMMA SignalWakes ==
    ASSUME AlarmTypeOK, Readings, Alarms!Signal, UNCHANGED thread
    PROVE  /\ Awake'
           /\ eventSignaled' \in [{AlarmEvent} -> BOOLEAN]
           /\ eventWaiting' \in [{AlarmEvent} -> SUBSET {AlarmThread}]
           /\ eventWaiting'[AlarmEvent] \subseteq eventWaiting[AlarmEvent]
<1>1. CASE eventSignaled[AlarmEvent]
    <2>1. UNCHANGED <<eventSignaled, eventWaiting>>
        BY <1>1 DEF Alarms!Signal, Alarms!eventVars
    <2> QED
        BY <1>1, <2>1 DEF AlarmTypeOK, Awake
<1>2. CASE ~eventSignaled[AlarmEvent]
    <2>0. Alarms!alarmEvent!Signal(AlarmEvent, FALSE)
        BY <1>2 DEF Alarms!Signal
    <2>1. eventSignaled' =
              [eventSignaled EXCEPT ![AlarmEvent] = eventWaiting[AlarmEvent] = {}]
        BY <2>0 DEF Alarms!alarmEvent!Signal
    <2>2. CASE eventWaiting[AlarmEvent] = {}
        <3>1. eventWaiting' = [eventWaiting EXCEPT ![AlarmEvent] = @ \ {}]
            BY <2>0, <2>2 DEF Alarms!alarmEvent!Signal, Alarms!alarmEvent!LetPass
        <3> QED
            BY <2>1, <2>2, <3>1 DEF AlarmTypeOK, Awake
    <2>3. CASE eventWaiting[AlarmEvent] # {}
        <3>1. PICK t \in eventWaiting[AlarmEvent] :
                  eventWaiting' = [eventWaiting EXCEPT ![AlarmEvent] = @ \ {t}]
            BY <2>0, <2>3 DEF Alarms!alarmEvent!Signal, Alarms!alarmEvent!LetPass
        <3>2. eventWaiting[AlarmEvent] = {AlarmThread} /\ t = AlarmThread
            BY <3>1 DEF AlarmTypeOK
        <3>3. eventWaiting'[AlarmEvent] = {}
            BY <3>1, <3>2 DEF AlarmTypeOK
        <3>4. thread.at = "asleep"
            BY <2>3 DEF Readings
        <3>5. Awake'
            BY <3>3, <3>4 DEF Awake
        <3>6. eventSignaled' \in [{AlarmEvent} -> BOOLEAN]
            BY <2>1 DEF AlarmTypeOK
        <3>7. eventWaiting' \in [{AlarmEvent} -> SUBSET {AlarmThread}]
            BY <3>1 DEF AlarmTypeOK
        <3> QED
            BY <3>3, <3>5, <3>6, <3>7
    <2> QED
        BY <2>2, <2>3
<1> QED
    BY <1>1, <1>2

LEMMA UpdateRunsKeepsAlarmInv ==
    ASSUME AlarmInv, Alarms!UpdateRuns
    PROVE  AlarmInv'
<1> DEFINE expired == {a \in Alarms!Listed : updateTick >= host[a].fire}
           late == {time \in orphans : updateTick >= time}
<1>0. AlarmTypeOK /\ Readings /\ HostAlarms /\ FiredAreSeen
    BY DEF AlarmInv
<1>1. /\ updateTick # NoTime
      /\ host' = [a \in Alarm |-> IF a \in expired THEN Alarms!Expired(host[a], period[a])
                                  ELSE host[a]]
      /\ orphans' = orphans \ late
      /\ IF expired \cup late # {} THEN Alarms!Signal ELSE UNCHANGED Alarms!eventVars
      /\ updateTick' = NoTime
      /\ UNCHANGED <<now, nextTime, period, thread>>
    BY DEF Alarms!UpdateRuns
<1>2. ASSUME NEW a \in expired
      PROVE  /\ a \in Alarm /\ host[a] # NoHost /\ host[a].listed
             /\ updateTick >= host[a].fire
    BY DEF Alarms!Listed
<1> HIDE DEF expired, late
<1>3. \A a \in Alarm : a \notin expired => host'[a] = host[a]
    BY <1>1
<1>4. ASSUME NEW a \in Alarm, a \in expired
      PROVE  /\ host'[a] \in Host
             /\ IF period[a] = 0
                THEN host'[a].fire = nextTime[a] /\ nextTime[a] <= now
                ELSE /\ host'[a].listed /\ host'[a].fire <= now + period[a]
                     /\ \E k \in Int : host'[a].fire = nextTime[a] + k * period[a]
    <2>1. host'[a] = Alarms!Expired(host[a], period[a])
        BY <1>1, <1>4
    <2> QED
        BY <1>0, <1>1, <1>2, <1>4, <2>1, ExpiredHostAlarm
<1>5. host' \in [Alarm -> Host \cup {NoHost}]
    <2>1. \A a \in Alarm : host'[a] \in Host \cup {NoHost}
        BY <1>0, <1>3, <1>4 DEF AlarmTypeOK
    <2> QED
        BY <1>1, <2>1
<1>6. /\ eventSignaled' \in [{AlarmEvent} -> BOOLEAN]
      /\ eventWaiting' \in [{AlarmEvent} -> SUBSET {AlarmThread}]
      /\ eventWaiting'[AlarmEvent] \subseteq eventWaiting[AlarmEvent]
      /\ Awake => Awake'
      /\ Awake' \/ (expired = {} /\ UNCHANGED <<eventSignaled, eventWaiting>>)
    <2>1. CASE expired \cup late # {}
        BY <1>0, <1>1, <2>1, SignalWakes
    <2>2. CASE expired \cup late = {}
        <3>1. UNCHANGED <<eventSignaled, eventWaiting, thread>>
            BY <1>1, <2>2 DEF Alarms!eventVars
        <3> QED
            BY <1>0, <2>2, <3>1 DEF AlarmTypeOK, Awake
    <2> QED
        BY <2>1, <2>2
<1>7. AlarmTypeOK'
    BY <1>0, <1>1, <1>5, <1>6 DEF AlarmTypeOK
<1>8. Readings'
    BY <1>0, <1>1, <1>6 DEF Readings
<1>9. HostAlarms'
    <2> SUFFICES ASSUME NEW a \in Alarm, host'[a] # NoHost PROVE HostAlarm(a)'
        BY DEF HostAlarms
    <2>1. CASE a \in expired
        BY <1>1, <1>4, <2>1 DEF HostAlarm
    <2>2. CASE a \notin expired
        <3>1. host'[a] = host[a] /\ host[a] # NoHost /\ HostAlarm(a)
            BY <1>0, <1>3, <2>2 DEF HostAlarms
        <3>2. now' >= now
            BY <1>0, <1>1, Parameters DEF AlarmTypeOK
        <3> QED
            BY <1>0, <1>1, <1>7, <3>1, <3>2, HostAlarmStays
    <2> QED
        BY <2>1, <2>2
<1>10. FiredAreSeen'
    <2>1. CASE Awake'
        BY <2>1 DEF FiredAreSeen
    <2>2. CASE expired = {} /\ UNCHANGED <<eventSignaled, eventWaiting>>
        <3>1. \A a \in Alarm : host'[a] = host[a]
            BY <1>3, <2>2
        <3> QED
            BY <1>0, <1>1, <2>2, <3>1 DEF FiredAreSeen, Fired, Awake, Looks
    <2> QED
        BY <1>6, <2>1, <2>2
<1> QED
    BY <1>7, <1>8, <1>9, <1>10 DEF AlarmInv

\* The thread waits only when it has seen all that has fired, or wakes at once.
LEMMA ThreadWaitsKeepsAlarmInv ==
    ASSUME AlarmInv, Alarms!AlarmThreadWaits
    PROVE  AlarmInv'
<1>1. /\ thread.at = "wait" /\ eventWaiting[AlarmEvent] = {}
      /\ UNCHANGED <<now, nextTime, period, host, orphans, updateTick>>
    BY DEF Alarms!AlarmThreadWaits
<1>2. AlarmTypeOK /\ Readings /\ HostAlarms /\ FiredAreSeen
    BY DEF AlarmInv
<1>3. /\ eventSignaled' \in [{AlarmEvent} -> BOOLEAN]
      /\ eventWaiting' \in [{AlarmEvent} -> SUBSET {AlarmThread}]
      /\ \/ /\ thread' = [thread EXCEPT !.at = "woken"]
            /\ eventWaiting' = eventWaiting
         \/ /\ thread' = [thread EXCEPT !.at = "asleep"]
            /\ ~eventSignaled[AlarmEvent]
    <2>1. CASE /\ Alarms!alarmEvent!Pass(AlarmThread, AlarmEvent)
               /\ thread' = [thread EXCEPT !.at = "woken"]
        BY <1>2, <2>1 DEF AlarmTypeOK, Alarms!alarmEvent!Pass
    <2>2. CASE /\ Alarms!alarmEvent!Wait(AlarmThread, AlarmEvent)
               /\ thread' = [thread EXCEPT !.at = "asleep"]
        BY <1>2, <2>2 DEF AlarmTypeOK, Alarms!alarmEvent!Wait
    <2> QED
        BY <2>1, <2>2 DEF Alarms!AlarmThreadWaits
<1>4. /\ thread' \in [at : ThreadAt, tick : Nat] /\ thread'.tick = thread.tick
      /\ thread'.at = "woken" \/ thread'.at = "asleep"
    BY <1>2, <1>3 DEF AlarmTypeOK, ThreadAt
<1>5. AlarmTypeOK'
    BY <1>1, <1>2, <1>3, <1>4 DEF AlarmTypeOK
<1>6. Readings'
    BY <1>1, <1>2, <1>3, <1>4 DEF Readings, AlarmTypeOK
<1>7. HostAlarms'
    BY <1>1, <1>2, <1>5, Parameters, AllHostAlarmsStay DEF AlarmTypeOK
<1>8. FiredAreSeen'
    <2>1. \A a \in Alarm : Fired(a)' <=> Fired(a)
        BY <1>1 DEF Fired
    <2>2. CASE thread'.at = "woken"
        BY <2>2 DEF FiredAreSeen, Awake
    <2>3. CASE ~eventSignaled[AlarmEvent]
        <3>1. ~Awake /\ ~Looks
            BY <1>1, <2>3 DEF Awake, Looks
        <3> QED
            BY <1>2, <2>1, <3>1 DEF FiredAreSeen
    <2>4. thread'.at = "woken" \/ ~eventSignaled[AlarmEvent]
        BY <1>2, <1>3 DEF AlarmTypeOK
    <2> QED
        BY <2>2, <2>3, <2>4
<1> QED
    BY <1>5, <1>6, <1>7, <1>8 DEF AlarmInv

LEMMA ThreadReadsKeepsAlarmInv ==
    ASSUME AlarmInv, Alarms!AlarmThreadReads
    PROVE  AlarmInv'
<1>1. /\ thread.at = "woken" \/ (thread.at = "asleep" /\ eventWaiting[AlarmEvent] = {})
      /\ thread' = [at |-> "look", tick |-> now]
      /\ UNCHANGED <<now, nextTime, period, host, orphans, updateTick, eventSignaled,
                     eventWaiting>>
    BY DEF Alarms!AlarmThreadReads, Alarms!eventVars
<1>2. AlarmTypeOK /\ Readings /\ HostAlarms /\ now \in Nat
    BY Parameters DEF AlarmInv, AlarmTypeOK
<1>3. /\ thread' \in [at : ThreadAt, tick : Nat]
      /\ thread'.at = "look" /\ thread'.tick = now
    BY <1>1, <1>2 DEF ThreadAt
<1>4. AlarmTypeOK'
    BY <1>1, <1>2, <1>3 DEF AlarmTypeOK
<1>5. Readings'
    <2>1. eventWaiting[AlarmEvent] = {}
        BY <1>1, <1>2 DEF Readings
    <2> QED
        BY <1>1, <1>2, <1>3, <2>1 DEF Readings
<1>6. HostAlarms'
    BY <1>1, <1>2, <1>4, AllHostAlarmsStay
<1>7. FiredAreSeen'
    <2> SUFFICES ASSUME NEW a \in Alarm, Fired(a)'
                 PROVE  Looks' /\ thread'.tick + period'[a] >= host'[a].fire
        BY DEF FiredAreSeen
    <2>1. Fired(a)
        BY <1>1 DEF Fired
    <2>2. host[a].fire <= now + period[a]
        BY <1>2, <2>1, FiredIsPast
    <2>3. period[a] \in Nat /\ host[a].fire \in Nat
        <3>1. period[a] \in Nat /\ host[a] \in Host
            BY <1>2, <2>1, Parameters DEF AlarmTypeOK, Fired
        <3> QED
            BY <3>1 DEF Host
    <2> QED
        BY <1>1, <1>2, <1>3, <2>2, <2>3 DEF Looks
<1> QED
    BY <1>4, <1>5, <1>6, <1>7 DEF AlarmInv

\* An alarm that is called once is gone; a periodic one is due a period later,
\* and its host alarm has fired only if it had before.
LEMMA ThreadTakesKeepsAlarmInv ==
    ASSUME AlarmInv, NEW a \in Alarm, Alarms!AlarmThreadTakes(a)
    PROVE  AlarmInv'
<1>1. /\ thread.at = "look" /\ host[a] # NoHost /\ thread.tick >= nextTime[a]
      /\ thread' = [thread EXCEPT !.at = "call"]
      /\ UNCHANGED <<now, period, updateTick, eventSignaled, eventWaiting>>
    BY DEF Alarms!AlarmThreadTakes, Alarms!eventVars
<1>2. AlarmTypeOK /\ Readings /\ HostAlarms /\ FiredAreSeen
    BY DEF AlarmInv
<1>3. /\ thread' \in [at : ThreadAt, tick : Nat]
      /\ thread'.at = "call" /\ thread'.tick = thread.tick
    BY <1>1, <1>2 DEF AlarmTypeOK, ThreadAt
<1>4. Readings'
    BY <1>1, <1>2, <1>3 DEF Readings
<1>5. /\ now \in Nat /\ now' \in Nat /\ now' >= now
      /\ nextTime[a] \in Nat /\ period[a] \in Nat /\ thread.tick \in Nat
      /\ host[a] \in Host /\ host[a].fire \in Nat
    <2>1. host[a] \in Host
        BY <1>1, <1>2 DEF AlarmTypeOK
    <2>2. host[a].fire \in Nat
        BY <2>1 DEF Host
    <2> QED
        BY <1>1, <1>2, <2>1, <2>2, Parameters DEF AlarmTypeOK
<1>6. CASE period[a] = 0
    <2>1. /\ host' = [host EXCEPT ![a] = NoHost]
          /\ orphans' = IF host[a].listed THEN orphans \cup {host[a].fire} ELSE orphans
          /\ UNCHANGED nextTime
        BY <1>6 DEF Alarms!AlarmThreadTakes
    <2>2. AlarmTypeOK'
        <3>1. orphans' \subseteq Nat
            BY <1>2, <1>5, <2>1 DEF AlarmTypeOK
        <3>2. host' \in [Alarm -> Host \cup {NoHost}]
            BY <1>2, <2>1 DEF AlarmTypeOK
        <3> QED
            BY <1>1, <1>2, <1>3, <2>1, <3>1, <3>2 DEF AlarmTypeOK
    <2>3. \A b \in Alarm : host'[b] # NoHost => host'[b] = host[b] /\ host[b] # NoHost
        BY <1>2, <2>1 DEF AlarmTypeOK
    <2>4. HostAlarms'
        BY <1>1, <1>2, <1>5, <2>1, <2>2, <2>3, HostAlarmStays DEF HostAlarms
    <2>5. FiredAreSeen'
        BY <1>1, <1>2, <1>3, <2>1, <2>3 DEF FiredAreSeen, Fired, Awake, Looks
    <2> QED
        BY <1>4, <2>2, <2>4, <2>5 DEF AlarmInv
<1>7. CASE period[a] # 0
    <2>1. /\ nextTime' = [nextTime EXCEPT ![a] = @ + period[a]]
          /\ UNCHANGED <<host, orphans>>
        BY <1>7 DEF Alarms!AlarmThreadTakes
    <2>2. /\ nextTime' \in [Alarm -> Nat]
          /\ nextTime'[a] = nextTime[a] + period[a]
          /\ \A b \in Alarm : b # a => nextTime'[b] = nextTime[b]
        BY <1>2, <1>5, <2>1 DEF AlarmTypeOK
    <2>3. AlarmTypeOK'
        BY <1>1, <1>2, <1>3, <2>1, <2>2 DEF AlarmTypeOK
    <2>4. HostAlarm(a)'
        <3>1. /\ host'[a].listed /\ host'[a].fire <= now' + period'[a]
            BY <1>1, <1>2, <1>7, <2>1 DEF HostAlarms, HostAlarm
        <3>2. PICK k \in Int : host[a].fire = nextTime[a] + k * period[a]
            BY <1>1, <1>2, <1>7 DEF HostAlarms, HostAlarm
        <3>3. k - 1 \in Int /\ k * period[a] \in Int
              /\ (k - 1) * period[a] = k * period[a] - period[a]
            BY <1>5, Multiples
        <3>4. host'[a].fire = nextTime'[a] + (k - 1) * period'[a]
            BY <1>1, <1>5, <2>1, <2>2, <3>2, <3>3
        <3> QED
            BY <1>1, <1>7, <3>1, <3>3, <3>4 DEF HostAlarm
    <2>5. HostAlarms'
        <3> SUFFICES ASSUME NEW b \in Alarm, host'[b] # NoHost PROVE HostAlarm(b)'
            BY DEF HostAlarms
        <3>1. CASE b # a
            BY <1>1, <1>2, <1>5, <2>1, <2>2, <2>3, <3>1, HostAlarmStays DEF HostAlarms
        <3> QED
            BY <2>4, <3>1
    <2>6. FiredAreSeen'
        <3> SUFFICES ASSUME NEW b \in Alarm, Fired(b)'
                     PROVE  (Awake \/ (Looks /\ thread.tick + period[b] >= host[b].fire))'
            BY DEF FiredAreSeen
        <3>1. Fired(b)
            <4>1. CASE b = a
                BY <1>5, <2>1, <2>2, <4>1 DEF Fired
            <4>2. CASE b # a
                BY <2>1, <2>2, <4>2 DEF Fired
            <4> QED
                BY <4>1, <4>2
        <3> QED
            BY <1>1, <1>2, <1>3, <2>1, <3>1 DEF FiredAreSeen, Awake, Looks
    <2> QED
        BY <1>4, <2>3, <2>5, <2>6 DEF AlarmInv
<1> QED
    BY <1>6, <1>7

\* The callback returns, or the pass ends with no alarm that is due.
LEMMA ThreadGoesOnKeepsAlarmInv ==
    ASSUME AlarmInv, Alarms!AlarmThreadCalls \/ Alarms!AlarmThreadEndsPass
    PROVE  AlarmInv'
<1>1. UNCHANGED <<now, nextTime, period, host, orphans, updateTick, eventSignaled,
                  eventWaiting>>
    BY DEF Alarms!AlarmThreadCalls, Alarms!AlarmThreadEndsPass, Alarms!eventVars
<1>2. AlarmTypeOK /\ Readings /\ HostAlarms /\ FiredAreSeen
    BY DEF AlarmInv
<1>3. /\ thread' \in [at : ThreadAt, tick : Nat]
      /\ \/ /\ thread.at = "call" /\ thread'.at = "look" /\ thread'.tick = thread.tick
         \/ /\ thread.at = "look" /\ thread'.at = "wait" /\ thread'.tick = 0
            /\ \A a \in Alarm : host[a] # NoHost => thread.tick < nextTime[a]
    BY <1>2 DEF AlarmTypeOK, ThreadAt, Alarms!AlarmThreadCalls, Alarms!AlarmThreadEndsPass
<1>4. AlarmTypeOK'
    BY <1>1, <1>2, <1>3 DEF AlarmTypeOK
<1>5. now \in Nat /\ now' >= now /\ thread.tick \in Nat
    BY <1>1, <1>2, Parameters DEF AlarmTypeOK
<1>6. Readings'
    <2>1. thread'.tick <= now'
        BY <1>1, <1>2, <1>3, <1>5 DEF Readings
    <2>2. eventWaiting[AlarmEvent] = {}
        BY <1>2, <1>3 DEF Readings
    <2> QED
        BY <1>1, <1>2, <2>1, <2>2 DEF Readings
<1>7. HostAlarms'
    BY <1>1, <1>2, <1>4, <1>5, AllHostAlarmsStay
<1>8. FiredAreSeen'
    <2> SUFFICES ASSUME NEW a \in Alarm, Fired(a)'
                 PROVE  (Awake \/ (Looks /\ thread.tick + period[a] >= host[a].fire))'
        BY DEF FiredAreSeen
    <2>1. Fired(a)
        BY <1>1 DEF Fired
    <2>2. CASE Awake
        <3>1. eventSignaled[AlarmEvent]
            BY <1>3, <2>2 DEF Awake
        <3> QED
            BY <1>1, <3>1 DEF Awake
    <2>3. CASE thread.tick + period[a] >= host[a].fire
        <3>1. thread.tick >= nextTime[a]
            BY <1>2, <1>5, <2>1, <2>3, SeenIsDue
        <3>2. host[a] # NoHost /\ nextTime[a] \in Nat
            BY <1>2, <2>1 DEF Fired, AlarmTypeOK
        <3>3. thread'.at = "look" /\ thread'.tick = thread.tick
            BY <1>3, <1>5, <3>1, <3>2
        <3> QED
            BY <1>1, <2>3, <3>3 DEF Looks
    <2> QED
        BY <1>2, <2>1, <2>2, <2>3 DEF FiredAreSeen
<1> QED
    BY <1>4, <1>6, <1>7, <1>8 DEF AlarmInv

LEMMA AlarmStep == AlarmInv /\ [Alarms!Next]_(Alarms!vars) => AlarmInv'
<1> SUFFICES ASSUME AlarmInv, [Alarms!Next]_(Alarms!vars) PROVE AlarmInv'
    OBVIOUS
<1>1. CASE UNCHANGED Alarms!vars
    <2>1. UNCHANGED <<now, nextTime, period, host, orphans, updateTick, eventSignaled,
                      eventWaiting, thread>>
        BY <1>1 DEF Alarms!vars, Alarms!eventVars
    <2>2. AlarmTypeOK' /\ Readings'
        BY <2>1 DEF AlarmInv, AlarmTypeOK, Readings
    <2>3. HostAlarms' /\ FiredAreSeen'
        BY <2>1 DEF AlarmInv, HostAlarms, HostAlarm, FiredAreSeen, Fired, Awake, Looks
    <2> QED
        BY <2>2, <2>3 DEF AlarmInv
<1>2. CASE Alarms!AlarmThreadStep
    BY <1>2, ThreadWaitsKeepsAlarmInv, ThreadReadsKeepsAlarmInv, ThreadTakesKeepsAlarmInv,
       ThreadGoesOnKeepsAlarmInv DEF Alarms!AlarmThreadStep
<1> QED
    BY <1>1, <1>2, TickKeepsAlarmInv, SetKeepsAlarmInv, CancelKeepsAlarmInv,
       UpdateReadsKeepsAlarmInv, UpdateRunsKeepsAlarmInv DEF Alarms!Next

LEMMA AlarmInvariant == Alarms!Spec => []AlarmInv
BY AlarmInit, AlarmStep, PTL DEF Alarms!Spec

\* The alarm thread has an alarm to call from the take to the callback.
CallingInv == IF thread.at = "call" THEN \E a \in Alarm : calling = {a} ELSE calling = {}

LEMMA CallingInvariant == Alarms!Spec => []CallingInv
<1>1. Alarms!Init => CallingInv
    BY DEF Alarms!Init, CallingInv
<1>2. AlarmInv /\ CallingInv /\ [Alarms!Next]_(Alarms!vars) => CallingInv'
    <2> SUFFICES ASSUME AlarmInv, CallingInv, [Alarms!Next]_(Alarms!vars) PROVE CallingInv'
        OBVIOUS
    <2>1. thread \in [at : ThreadAt, tick : Nat]
        BY DEF AlarmInv, AlarmTypeOK
    <2>2. CASE UNCHANGED <<thread, calling>>
        BY <2>2 DEF CallingInv
    <2>3. ASSUME NEW a \in Alarm, Alarms!AlarmThreadTakes(a) PROVE CallingInv'
        BY <2>1, <2>3 DEF Alarms!AlarmThreadTakes, CallingInv
    <2>4. CASE Alarms!AlarmThreadWaits
        BY <2>1, <2>4 DEF Alarms!AlarmThreadWaits, CallingInv
    <2>5. CASE Alarms!AlarmThreadReads
        BY <2>1, <2>5 DEF Alarms!AlarmThreadReads, CallingInv
    <2>6. CASE Alarms!AlarmThreadCalls
        BY <2>1, <2>6 DEF Alarms!AlarmThreadCalls, CallingInv
    <2>7. CASE Alarms!AlarmThreadEndsPass
        BY <2>1, <2>7 DEF Alarms!AlarmThreadEndsPass, CallingInv
    <2>8. UNCHANGED <<thread, calling>> \/ Alarms!AlarmThreadStep
        BY DEF Alarms!Next, Alarms!vars, Alarms!Tick, Alarms!OSSetAlarm, Alarms!OSSetPeriodicAlarm,
           Alarms!Initiate, Alarms!OSCancelAlarm, Alarms!UpdateReads, Alarms!UpdateRuns
    <2> QED
        BY <2>2, <2>3, <2>4, <2>5, <2>6, <2>7, <2>8 DEF Alarms!AlarmThreadStep
<1> QED
    BY <1>1, <1>2, AlarmInvariant, PTL DEF Alarms!Spec

\* An alarm whose host alarm has fired is called: the event is set, the alarm
\* thread is on its way to look, or looks with a clock that shows its time
\* (updateAlarms and _OSAlarmThread).
THEOREM FiredAlarmsAreSeen == Alarms!Spec => []ExpiredAlarmsAreSeen
<1>1. AlarmInv => ExpiredAlarmsAreSeen
    <2> SUFFICES ASSUME AlarmInv, NEW a \in Alarm, Fired(a), ~Awake
                 PROVE  thread.at \in {"look", "call"} /\ thread.tick >= nextTime[a]
        BY DEF ExpiredAlarmsAreSeen, Alarms!ExpiredAlarmsAreSeen, Fired, Awake
    <2>1. Looks /\ thread.tick + period[a] >= host[a].fire
        BY DEF AlarmInv, FiredAreSeen
    <2>2. thread.tick \in Nat
        BY DEF AlarmInv, AlarmTypeOK
    <2>3. thread.tick >= nextTime[a]
        BY <2>1, <2>2, SeenIsDue DEF AlarmInv
    <2> QED
        BY <2>1, <2>3 DEF Looks
<1> QED
    BY <1>1, AlarmInvariant, PTL
-----------------------------------------------------------------------------
(* The alarms are an alarm clock, but for its fairness.                    *)

Due == [a \in Alarm |-> IF host[a] = NoHost THEN NoTime ELSE nextTime[a]]

LEMMA DueStays ==
    ASSUME \A a \in Alarm : (host'[a] = NoHost <=> host[a] = NoHost)
                            /\ nextTime'[a] = nextTime[a]
    PROVE  Due' = Due
BY DEF Due

\* Setting an alarm, for a time within the range of the alarm clock.
LEMMA InitiateSetsTheClock ==
    ASSUME AlarmInv, NEW a \in Alarm, NEW time \in 0..2 * MaxTime, NEW p \in 0..MaxTime,
           p > 0 => now < time /\ time <= now + p, Alarms!Initiate(a, time, p)
    PROVE  Alarms!Clock!Set(a, time, p)
<1> DEFINE h == [listed |-> TRUE, fire |-> time]
<1>1. /\ nextTime' = [nextTime EXCEPT ![a] = time]
      /\ period' = [period EXCEPT ![a] = p]
      /\ host' = [host EXCEPT ![a] = h]
      /\ UNCHANGED <<now, calling>>
    BY DEF Alarms!Initiate
<1>2. h \in Host
    BY Parameters DEF Host
<1> HIDE DEF h
<1>3. h # NoHost
    BY <1>2, Parameters
<1>4. /\ nextTime \in [Alarm -> Nat] /\ host \in [Alarm -> Host \cup {NoHost}]
    BY DEF AlarmInv, AlarmTypeOK
<1>5. Due' = [Due EXCEPT ![a] = time]
    BY <1>1, <1>3, <1>4 DEF Due
<1> QED
    BY <1>1, <1>5, Zenon DEF Alarms!Clock!Set, Due

LEMMA AlarmRefines ==
    ASSUME Delay \subseteq 0..MaxTime, Period \subseteq 1..MaxTime,
           AlarmInv, CallingInv, [Alarms!Next]_(Alarms!vars)
    PROVE  [Alarms!Clock!Next]_(Alarms!Clock!vars)
<1>1. AlarmTypeOK /\ Readings /\ HostAlarms /\ now \in Nat /\ now <= MaxTime /\ MaxTime \in Nat
    BY Parameters DEF AlarmInv, AlarmTypeOK
<1>2. ASSUME UNCHANGED <<now, period, calling>>, Due' = Due
      PROVE  UNCHANGED Alarms!Clock!vars
    BY <1>2 DEF Alarms!Clock!vars, Due
<1>3. CASE Alarms!Tick
    <2>1. now < MaxTime /\ now' = now + 1 /\ UNCHANGED <<host, nextTime, period, calling>>
        BY <1>3 DEF Alarms!Tick
    <2>2. Due' = Due
        BY <2>1, DueStays
    <2>3. Alarms!Clock!Tick
        BY <2>1, <2>2 DEF Alarms!Clock!Tick, Due
    <2> QED
        BY <2>3 DEF Alarms!Clock!Next
<1>4. ASSUME NEW a \in Alarm, Alarms!OSSetAlarm(a) PROVE Alarms!Clock!Next
    <2>1. PICK delay \in Delay : Alarms!Initiate(a, now + delay, 0)
        BY <1>4 DEF Alarms!OSSetAlarm
    <2>2. now + delay \in 0..2 * MaxTime /\ 0 \in 0..MaxTime
        BY <1>1, delay \in 0..MaxTime
    <2>3. Alarms!Clock!Set(a, now + delay, 0)
        BY <2>1, <2>2, InitiateSetsTheClock
    <2> QED
        BY <2>2, <2>3, Zenon DEF Alarms!Clock!Next
<1>5. ASSUME NEW a \in Alarm, Alarms!OSSetPeriodicAlarm(a) PROVE Alarms!Clock!Next
    <2>1. PICK p \in Period, start \in 0..MaxTime + 1 :
              Alarms!Initiate(a, Alarms!NextFire(start, p), p)
        BY <1>5 DEF Alarms!OSSetPeriodicAlarm
    <2> DEFINE time == Alarms!NextFire(start, p)
    <2>2. time \in Nat /\ now < time /\ time <= now + p
        BY <1>1, NextFireComesWithinThePeriod
    <2>3. p \in 0..MaxTime /\ time \in 0..2 * MaxTime
        BY <1>1, <2>2, p \in 1..MaxTime
    <2>4. Alarms!Clock!Set(a, time, p)
        BY <2>1, <2>2, <2>3, InitiateSetsTheClock
    <2> HIDE DEF time
    <2> QED
        BY <2>3, <2>4, Zenon DEF Alarms!Clock!Next
<1>6. ASSUME NEW a \in Alarm, Alarms!OSCancelAlarm(a) PROVE Alarms!Clock!Next
    <2>1. host' = [host EXCEPT ![a] = NoHost] /\ UNCHANGED <<now, nextTime, period, calling>>
        BY <1>6 DEF Alarms!OSCancelAlarm
    <2>2. Due' = [Due EXCEPT ![a] = NoTime]
        BY <1>1, <2>1 DEF Due, AlarmTypeOK
    <2>3. Alarms!Clock!Cancel(a)
        BY <2>1, <2>2 DEF Alarms!Clock!Cancel, Due
    <2> QED
        BY <2>3 DEF Alarms!Clock!Next
<1>7. CASE Alarms!UpdateReads
    <2>1. UNCHANGED <<now, period, host, nextTime, calling>>
        BY <1>7 DEF Alarms!UpdateReads
    <2> QED
        BY <1>2, <2>1, DueStays
<1>8. CASE Alarms!UpdateRuns
    <2> DEFINE expired == {a \in Alarms!Listed : updateTick >= host[a].fire}
    <2>1. /\ updateTick # NoTime
          /\ UNCHANGED <<now, period, nextTime, calling>>
          /\ host' = [a \in Alarm |-> IF a \in expired THEN Alarms!Expired(host[a], period[a])
                                      ELSE host[a]]
        BY <1>8 DEF Alarms!UpdateRuns
    <2>2. ASSUME NEW a \in Alarm PROVE host'[a] = NoHost <=> host[a] = NoHost
        <3>1. CASE a \in expired
            <4>1. host[a] # NoHost /\ host[a].listed /\ updateTick >= host[a].fire
                BY <3>1 DEF Alarms!Listed
            <4>2. host'[a] = Alarms!Expired(host[a], period[a])
                BY <2>1, <3>1
            <4>3. host'[a] \in Host
                BY <1>1, <2>1, <4>1, <4>2, ExpiredHostAlarm
            <4> QED
                BY <4>1, <4>3, Parameters
        <3>2. CASE a \notin expired
            BY <2>1, <3>2
        <3> QED
            BY <3>1, <3>2
    <2>3. Due' = Due
        BY <2>1, <2>2, DueStays
    <2> QED
        BY <1>2, <2>1, <2>3
<1>9. ASSUME NEW a \in Alarm, Alarms!AlarmThreadTakes(a) PROVE Alarms!Clock!Next
    <2>1. /\ host[a] # NoHost /\ thread.tick >= nextTime[a] /\ UNCHANGED <<now, period>>
          /\ thread.at = "look" /\ calling' = {a}
          /\ IF period[a] = 0
             THEN host' = [host EXCEPT ![a] = NoHost] /\ UNCHANGED nextTime
             ELSE nextTime' = [nextTime EXCEPT ![a] = @ + period[a]] /\ UNCHANGED host
        BY <1>9 DEF Alarms!AlarmThreadTakes
    <2>2. Due[a] = nextTime[a] /\ Due[a] # NoTime /\ Due[a] <= now
        <3>1. nextTime[a] \in Nat /\ thread.tick \in Nat /\ thread.tick <= now
            BY <1>1 DEF AlarmTypeOK, Readings
        <3> QED
            BY <1>1, <2>1, <3>1, Parameters DEF Due
    <2>3. Due' = [Due EXCEPT ![a] = IF period[a] = 0 THEN NoTime ELSE @ + period[a]]
        BY <1>1, <2>1 DEF Due, AlarmTypeOK
    <2>4. a \notin calling /\ calling' = calling \cup {a}
        BY <2>1 DEF CallingInv
    <2>5. Alarms!Clock!Take(a)
        BY <2>1, <2>2, <2>3, <2>4 DEF Alarms!Clock!Take, Due
    <2> QED
        BY <2>5 DEF Alarms!Clock!Next
<1>10. CASE Alarms!AlarmThreadCalls
    <2>1. thread.at = "call" /\ calling' = {} /\ UNCHANGED <<now, period, host, nextTime>>
        BY <1>10 DEF Alarms!AlarmThreadCalls
    <2>2. PICK a \in Alarm : calling = {a}
        BY <2>1 DEF CallingInv
    <2>3. Due' = Due
        BY <2>1, DueStays
    <2>4. Alarms!Clock!Call(a)
        BY <2>1, <2>2, <2>3 DEF Alarms!Clock!Call, Due
    <2> QED
        BY <2>4 DEF Alarms!Clock!Next
<1>11. CASE \/ Alarms!AlarmThreadWaits \/ Alarms!AlarmThreadReads
            \/ Alarms!AlarmThreadEndsPass \/ UNCHANGED Alarms!vars
    <2>1. UNCHANGED <<now, period, host, nextTime, calling>>
        BY <1>11 DEF Alarms!AlarmThreadWaits, Alarms!AlarmThreadReads,
           Alarms!AlarmThreadEndsPass, Alarms!vars
    <2> QED
        BY <1>2, <2>1, DueStays
<1> QED
    BY <1>3, <1>4, <1>5, <1>6, <1>7, <1>8, <1>9, <1>10, <1>11
       DEF Alarms!Next, Alarms!AlarmThreadStep

\* Every callback is of an alarm that the alarm thread took, once, when it was
\* due and set, though it may have been cancelled or set anew before the callback
\* runs; no alarm is taken before its time or once it is cancelled, one without
\* a period is taken once, and one with a period every period: what the host
\* alarms, the event and the thread do is what an alarm clock may do.
THEOREM AlarmsKeepTime ==
    ASSUME Delay \subseteq 0..MaxTime, Period \subseteq 1..MaxTime
    PROVE  Alarms!Spec => Alarms!Clock!Init /\ [][Alarms!Clock!Next]_(Alarms!Clock!vars)
<1>1. Alarms!Init => Alarms!Clock!Init
    BY DEF Alarms!Init, Alarms!Clock!Init
<1>2. AlarmInv /\ CallingInv /\ [Alarms!Next]_(Alarms!vars)
          => [Alarms!Clock!Next]_(Alarms!Clock!vars)
    BY AlarmRefines
<1> QED
    BY <1>1, <1>2, AlarmInvariant, CallingInvariant, PTL DEF Alarms!Spec
-----------------------------------------------------------------------------
(* The linked lists.  LinkInv is inductive: the links spell the sequences   *)
(* that the walks from the heads find, read from either end.  Every step is *)
(* shown for any sequences the links spell, so nothing has to be said of    *)
(* the recursive walks but that they find those sequences.                  *)

\* The types of the links.
LinkTypes ==
    /\ head \in [Queue -> LinkThread \cup {Null}] /\ tail \in [Queue -> LinkThread \cup {Null}]
    /\ next \in [LinkThread -> LinkThread \cup {Null}]
    /\ prev \in [LinkThread -> LinkThread \cup {Null}]
    /\ prio \in [LinkThread -> Priority]

\* The thread behind and in front of position i of s.
Behind(s, i) == IF i < Len(s) THEN s[i + 1] ELSE Null
Ahead(s, i) == IF i > 1 THEN s[i - 1] ELSE Null

\* t is in one of the queues Q.
Member(Q, t) == \E q \in Queue : \E i \in 1..Len(Q[q]) : Q[q][i] = t

\* The links spell the queues Q: no thread is in Q twice, the ends and the
\* neighbours are those in Q, and a thread that is not in Q has none.
Spells(Q) ==
    /\ Q \in [Queue -> Seq(LinkThread)]
    /\ \A p, q \in Queue : \A i \in 1..Len(Q[p]), j \in 1..Len(Q[q]) :
           Q[p][i] = Q[q][j] => p = q /\ i = j
    /\ \A q \in Queue : head[q] = Behind(Q[q], 0) /\ tail[q] = Ahead(Q[q], Len(Q[q]) + 1)
    /\ \A q \in Queue : \A i \in 1..Len(Q[q]) :
           next[Q[q][i]] = Behind(Q[q], i) /\ prev[Q[q][i]] = Ahead(Q[q], i)
    /\ \A t \in LinkThread : ~Member(Q, t) => next[t] = Null /\ prev[t] = Null

\* What the walks from the heads find.
Spelled == [q \in Queue |-> Links!Forward(q)]
LinkInv == LinkTypes /\ Spells(Spelled)
-----------------------------------------------------------------------------
(* Sequences.                                                              *)

LEMMA LeastNumber ==
    ASSUME NEW T \in SUBSET Nat, T # {}
    PROVE  \E x \in T : \A y \in T : x <= y
<1>1. PICK x \in T : \A y \in T : ~ (<<y, x>> \in OpToRel(<, Nat))
    BY WFMin, NatLessThanWellFounded
<1>2. \A y \in T : ~ (y < x)
    BY <1>1 DEF OpToRel
<1> QED
    BY <1>2

\* RemoveAt and InsertAt, position by position.
LEMMA RemoveAtElements ==
    ASSUME NEW s \in Seq(LinkThread), NEW i \in 1..Len(s), NEW r, r = Links!Lists!RemoveAt(s, i)
    PROVE  /\ r \in Seq(LinkThread) /\ Len(r) = Len(s) - 1
           /\ \A j \in 1..Len(s) - 1 : r[j] = IF j < i THEN s[j] ELSE s[j + 1]
<1> DEFINE a == SubSeq(s, 1, i - 1)
           b == SubSeq(s, i + 1, Len(s))
<1>0. Len(s) \in Nat /\ \A j \in 1..Len(s) : s[j] \in LinkThread
    BY LenProperties, ElementOfSeq
<1>1. a \in Seq(LinkThread) /\ Len(a) = i - 1 /\ \A j \in 1..i - 1 : a[j] = s[j]
    BY <1>0, SubSeqProperties
<1>2. b \in Seq(LinkThread) /\ Len(b) = Len(s) - i /\ \A j \in 1..Len(s) - i : b[j] = s[i + j]
    BY <1>0, SubSeqProperties
<1>3. r = a \o b
    BY DEF Links!Lists!RemoveAt
<1> HIDE DEF a, b
<1>4. /\ a \o b \in Seq(LinkThread) /\ Len(a \o b) = Len(a) + Len(b)
      /\ \A j \in 1..Len(a) + Len(b) : (a \o b)[j] = IF j <= Len(a) THEN a[j] ELSE b[j - Len(a)]
    BY <1>1, <1>2, ConcatProperties
<1>5. ASSUME NEW j \in 1..Len(s) - 1, j < i PROVE r[j] = s[j]
    BY <1>0, <1>1, <1>2, <1>3, <1>4, <1>5
<1>6. ASSUME NEW j \in 1..Len(s) - 1, ~(j < i) PROVE r[j] = s[j + 1]
    <2>1. /\ j \in 1..Len(a) + Len(b) /\ ~(j <= Len(a)) /\ j - Len(a) \in 1..Len(s) - i
          /\ i + (j - Len(a)) = j + 1
        BY <1>0, <1>1, <1>2, <1>6
    <2> QED
        BY <1>2, <1>3, <1>4, <2>1
<1> QED
    BY <1>0, <1>1, <1>2, <1>3, <1>4, <1>5, <1>6

LEMMA InsertAtElements ==
    ASSUME NEW s \in Seq(LinkThread), NEW t \in LinkThread, NEW i \in 1..Len(s) + 1,
           NEW r, r = Links!Lists!InsertAt(s, i, t)
    PROVE  /\ r \in Seq(LinkThread) /\ Len(r) = Len(s) + 1
           /\ \A j \in 1..Len(s) + 1 :
                  r[j] = IF j < i THEN s[j] ELSE IF j = i THEN t ELSE s[j - 1]
<1> DEFINE a == SubSeq(s, 1, i - 1)
           b == SubSeq(s, i, Len(s))
           m == a \o <<t>>
<1>0. Len(s) \in Nat /\ \A j \in 1..Len(s) : s[j] \in LinkThread
    BY LenProperties, ElementOfSeq
<1>1. a \in Seq(LinkThread) /\ Len(a) = i - 1 /\ \A j \in 1..i - 1 : a[j] = s[j]
    BY <1>0, SubSeqProperties
<1>2. /\ b \in Seq(LinkThread) /\ Len(b) = Len(s) - i + 1
      /\ \A j \in 1..Len(s) - i + 1 : b[j] = s[i + j - 1]
    BY <1>0, SubSeqProperties
<1>3. r = m \o b
    BY DEF Links!Lists!InsertAt
<1> HIDE DEF a, b
<1>4. /\ m \in Seq(LinkThread) /\ Len(m) = i
      /\ \A j \in 1..i : m[j] = IF j < i THEN s[j] ELSE t
    BY <1>0, <1>1
<1> HIDE DEF m
<1>5. /\ m \o b \in Seq(LinkThread) /\ Len(m \o b) = Len(m) + Len(b)
      /\ \A j \in 1..Len(m) + Len(b) : (m \o b)[j] = IF j <= Len(m) THEN m[j] ELSE b[j - Len(m)]
    BY <1>2, <1>4, ConcatProperties
<1>6. ASSUME NEW j \in 1..Len(s) + 1, j <= i PROVE r[j] = IF j < i THEN s[j] ELSE t
    BY <1>0, <1>2, <1>3, <1>4, <1>5, <1>6
<1>7. ASSUME NEW j \in 1..Len(s) + 1, j > i PROVE r[j] = s[j - 1]
    <2>1. /\ j \in 1..Len(m) + Len(b) /\ ~(j <= Len(m)) /\ j - Len(m) \in 1..Len(s) - i + 1
          /\ i + (j - Len(m)) - 1 = j - 1
        BY <1>0, <1>2, <1>4, <1>7
    <2> QED
        BY <1>2, <1>3, <1>5, <2>1
<1> QED
    BY <1>0, <1>2, <1>3, <1>4, <1>5, <1>6, <1>7
-----------------------------------------------------------------------------
(* Following the links.                                                    *)

\* Following the links of a list yields the list.
LEMMA WalkSpells ==
    ASSUME NEW link, NEW s \in Seq(LinkThread), NEW n \in Nat, Len(s) <= n,
           \A i \in 1..Len(s) : link[s[i]] = Behind(s, i)
    PROVE  Links!Walk(link, Behind(s, 0), n) = s
<1> DEFINE t == Behind(s, 0)
           step(u) == IF link[Links!Last(u)] = Null THEN u ELSE Append(u, link[Links!Last(u)])
           Walks(f) == f = [m \in 1..n |-> IF m = 1 THEN <<t>> ELSE step(f[m - 1])]
           walk == CHOOSE f : Walks(f)
           front == [m \in 1..n |-> IF m < Len(s) THEN SubSeq(s, 1, m) ELSE s]
<1>0. Len(s) \in Nat /\ (\A j \in 1..Len(s) : s[j] \in LinkThread /\ s[j] # Null)
    BY LenProperties, ElementOfSeq, LinkAssumption
<1>1. Links!Walk(link, t, n) = IF t = Null THEN <<>> ELSE walk[n]
    BY DEF Links!Walk
<1>2. CASE s = <<>>
    BY <1>1, <1>2 DEF Behind
<1>3. CASE s # <<>>
    <2>1. Len(s) \in 1..n /\ t = s[1] /\ t # Null
        BY <1>0, <1>3, EmptySeq DEF Behind
    <2>2. \A m \in 1..Len(s) : /\ SubSeq(s, 1, m) \in Seq(LinkThread) /\ Len(SubSeq(s, 1, m)) = m
                               /\ \A j \in 1..m : SubSeq(s, 1, m)[j] = s[j]
        BY <1>0, SubSeqProperties
    <2>3. SubSeq(s, 1, Len(s)) = s
        BY <1>0, <2>1, <2>2, SeqEqual
    <2>4. ASSUME NEW m \in 1..n PROVE front[m] = SubSeq(s, 1, IF m < Len(s) THEN m ELSE Len(s))
        <3>1. front[m] = IF m < Len(s) THEN SubSeq(s, 1, m) ELSE s
            OBVIOUS
        <3> HIDE DEF front
        <3> QED
            BY <2>3, <3>1
    <2> HIDE DEF front
    <2>5. front[1] = <<t>>
        <3>1. front[1] = SubSeq(s, 1, 1)
            BY <1>0, <2>1, <2>4
        <3>2. SubSeq(s, 1, 1) \in Seq(LinkThread) /\ Len(SubSeq(s, 1, 1)) = 1 /\ SubSeq(s, 1, 1)[1] = t
            BY <2>1, <2>2
        <3>3. <<t>> \in Seq(LinkThread) /\ Len(<<t>>) = 1 /\ <<t>>[1] = t
            BY <1>0, <2>1
        <3>4. SubSeq(s, 1, 1) = <<t>>
            <4>1. \A i \in 1..1 : SubSeq(s, 1, 1)[i] = <<t>>[i]
                BY <3>2, <3>3
            <4> QED
                BY <3>2, <3>3, <4>1, SeqEqual
        <3> QED
            BY <3>1, <3>4
    <2>6. ASSUME NEW m \in 1..n, m # 1 PROVE front[m] = step(front[m - 1])
        <3> DEFINE k == IF m - 1 < Len(s) THEN m - 1 ELSE Len(s)
                   u == SubSeq(s, 1, k)
        <3>1. k \in 1..Len(s) /\ m - 1 \in 1..n
            BY <1>0, <2>1, <2>6
        <3>2. front[m - 1] = u /\ Links!Last(u) = s[k]
            BY <2>2, <2>4, <3>1 DEF Links!Last
        <3>3. link[s[k]] = Behind(s, k)
            BY <3>1
        <3>4. CASE k = Len(s)
            <4>1. link[s[k]] = Null /\ u = s
                BY <1>0, <2>3, <3>3, <3>4 DEF Behind
            <4>2. front[m] = s
                BY <1>0, <2>3, <2>4, <3>1, <3>4
            <4> QED
                BY <3>2, <4>1, <4>2
        <3>5. CASE k < Len(s)
            <4>1. k = m - 1 /\ m \in 1..Len(s) /\ k + 1 = m
                BY <1>0, <2>6, <3>5
            <4>2. link[s[k]] = s[m] /\ s[m] # Null
                BY <1>0, <3>3, <3>5, <4>1 DEF Behind
            <4>3. front[m] = SubSeq(s, 1, m)
                BY <1>0, <2>4, <4>1
            <4>4. Append(u, s[m]) = SubSeq(s, 1, m)
                <5> DEFINE a == Append(u, s[m])
                           b == SubSeq(s, 1, m)
                <5>1. u \in Seq(LinkThread) /\ Len(u) = m - 1 /\ \A j \in 1..m - 1 : u[j] = s[j]
                    BY <2>2, <3>1, <4>1
                <5>2. s[m] \in LinkThread
                    BY <1>0, <4>1
                <5> HIDE DEF u
                <5>3. /\ a \in Seq(LinkThread) /\ Len(a) = m
                      /\ \A j \in 1..m : a[j] = IF j = m THEN s[m] ELSE u[j]
                    BY <4>1, <5>1, <5>2, AppendProperties
                <5>4. b \in Seq(LinkThread) /\ Len(b) = m /\ \A j \in 1..m : b[j] = s[j]
                    BY <2>2, <4>1
                <5> HIDE DEF a, b
                <5>5. \A j \in 1..m : a[j] = b[j]
                    BY <4>1, <5>1, <5>3, <5>4
                <5>6. a = b
                    BY <5>3, <5>4, <5>5, SeqEqual
                <5> QED
                    BY <5>6 DEF a, b
            <4> QED
                BY <3>2, <4>2, <4>3, <4>4
        <3> QED
            BY <1>0, <3>1, <3>4, <3>5
    <2>7. Walks(front)
        <3>1. front = [m \in 1..n |-> front[m]]
            BY DEF front
        <3>2. \A m \in 1..n : front[m] = IF m = 1 THEN <<t>> ELSE step(front[m - 1])
            BY <2>5, <2>6
        <3> HIDE DEF t, step
        <3> QED
            BY <3>1, <3>2
    <2>8. Walks(walk)
        <3> HIDE DEF Walks
        <3> QED
            BY <2>7
    <2>9. \A m \in 1..n : walk[m] = IF m = 1 THEN <<t>> ELSE step(walk[m - 1])
        <3> HIDE DEF walk, step, t
        <3> QED
            BY <2>8
    <2> HIDE DEF walk, t, step, Walks
    <2>10. \A m \in 1..n : walk[m] = front[m]
        <3> DEFINE wrong == {m \in 1..n : walk[m] # front[m]}
        <3> SUFFICES ASSUME wrong # {} PROVE FALSE
            OBVIOUS
        <3>1. wrong \in SUBSET Nat
            OBVIOUS
        <3>2. PICK m \in wrong : \A k \in wrong : m <= k
            BY <3>1, LeastNumber
        <3>3. m # 1 /\ m \in 1..n
            BY <2>5, <2>9, <3>2
        <3>4. m - 1 \in 1..n /\ m - 1 \notin wrong
            BY <3>2, <3>3
        <3>5. walk[m - 1] = front[m - 1]
            BY <3>4
        <3> QED
            BY <2>6, <2>9, <3>2, <3>3, <3>5
    <2>11. walk[n] = s
        <3>1. n \in 1..n /\ ~(n < Len(s))
            BY <1>0, <2>1
        <3>2. front[n] = s
            BY <2>3, <2>4, <3>1
        <3> QED
            BY <2>10, <3>1, <3>2
    <2>12. Links!Walk(link, t, n) = walk[n]
        BY <1>1, <2>1
    <2>13. Links!Walk(link, t, n) = s
        BY <2>11, <2>12
    <2> QED
        BY <2>13 DEF t
<1> QED
    BY <1>2, <1>3

\* The queues are no longer than there are threads.
LEMMA QueueLength ==
    ASSUME NEW s \in Seq(LinkThread), \A i, j \in 1..Len(s) : s[i] = s[j] => i = j
    PROVE  /\ Links!Cardinality(LinkThread) \in Nat
           /\ Len(s) \in Nat /\ Len(s) <= Links!Cardinality(LinkThread)
<1>0. Len(s) \in Nat /\ \A j \in 1..Len(s) : s[j] \in LinkThread
    BY LenProperties, ElementOfSeq
<1>1. Links!Cardinality(LinkThread) = Cardinality(LinkThread)
    BY DEF Links!Cardinality, Cardinality
<1>2. Cardinality(LinkThread) \in Nat
    BY FS_CardinalityType, LinkAssumption
<1> DEFINE f == [i \in 1..Len(s) |-> s[i]]
<1>3. f \in Injection(1..Len(s), LinkThread)
    BY <1>0 DEF Injection, IsInjective
<1>4. Cardinality(1..Len(s)) <= Cardinality(LinkThread)
    BY <1>3, FS_Injection, LinkAssumption
<1>5. Cardinality(1..Len(s)) = Len(s)
    <2>1. Cardinality(1..Len(s)) = IF 1 > Len(s) THEN 0 ELSE Len(s) - 1 + 1
        BY <1>0, FS_Interval
    <2> QED
        BY <1>0, <2>1
<1> QED
    BY <1>0, <1>1, <1>2, <1>4, <1>5

\* What the links spell is what the walks find, from both ends.
LEMMA SpellsForward ==
    ASSUME NEW Q, Spells(Q), NEW q \in Queue
    PROVE  Links!Forward(q) = Q[q]
<1> DEFINE s == Q[q]
           n == Links!Cardinality(LinkThread) + 1
<1>1. /\ s \in Seq(LinkThread) /\ (\A i, j \in 1..Len(s) : s[i] = s[j] => i = j)
      /\ head[q] = Behind(s, 0) /\ (\A i \in 1..Len(s) : next[s[i]] = Behind(s, i))
    BY DEF Spells
<1>2. Links!Forward(q) = Links!Walk(next, Behind(s, 0), n)
    BY <1>1 DEF Links!Forward
<1> HIDE DEF s
<1>3. n \in Nat /\ Len(s) <= n
    BY <1>1, QueueLength
<1> HIDE DEF n
<1>4. Links!Forward(q) = s
    BY <1>1, <1>2, <1>3, WalkSpells
<1> QED
    BY <1>4 DEF s

LEMMA SpellsBackward ==
    ASSUME NEW Q, Spells(Q), NEW q \in Queue
    PROVE  Links!Backward(q) = Links!Reverse(Q[q])
<1> DEFINE s == Q[q]
           r == Links!Reverse(s)
           n == Links!Cardinality(LinkThread) + 1
<1>1. /\ s \in Seq(LinkThread) /\ (\A i, j \in 1..Len(s) : s[i] = s[j] => i = j)
      /\ tail[q] = Ahead(s, Len(s) + 1) /\ (\A i \in 1..Len(s) : prev[s[i]] = Ahead(s, i))
    BY DEF Spells
<1> HIDE DEF s
<1>2. Len(s) \in Nat /\ \A i \in 1..Len(s) : s[i] \in LinkThread
    BY <1>1, LenProperties, ElementOfSeq
<1>3. r = [i \in 1..Len(s) |-> s[Len(s) - i + 1]]
    BY DEF Links!Reverse
<1>4. \A i \in 1..Len(s) : Len(s) - i + 1 \in 1..Len(s)
    BY <1>2
<1>5. /\ r \in Seq(LinkThread) /\ Len(r) = Len(s)
      /\ \A i \in 1..Len(s) : r[i] = s[Len(s) - i + 1]
    <2>1. r \in [1..Len(s) -> LinkThread]
        BY <1>2, <1>3, <1>4
    <2>2. r \in Seq(LinkThread) /\ Len(r) = Len(s)
        BY <1>2, <2>1
    <2> QED
        BY <1>3, <2>2
<1> HIDE DEF r
<1>6. tail[q] = Behind(r, 0)
    <2>1. CASE Len(s) = 0
        BY <1>1, <1>5, <2>1 DEF Ahead, Behind
    <2>2. CASE Len(s) > 0
        <3>1. 1 \in 1..Len(s) /\ Len(s) - 1 + 1 = Len(s) /\ r[1] = s[Len(s)]
            BY <1>2, <1>5, <2>2
        <3> QED
            BY <1>1, <1>2, <1>5, <2>2, <3>1 DEF Ahead, Behind
    <2> QED
        BY <1>2, <2>1, <2>2
<1>7. ASSUME NEW i \in 1..Len(r) PROVE prev[r[i]] = Behind(r, i)
    <2> DEFINE k == Len(s) - i + 1
    <2>1. k \in 1..Len(s) /\ r[i] = s[k] /\ prev[s[k]] = Ahead(s, k)
        BY <1>1, <1>4, <1>5
    <2>2. CASE i < Len(s)
        <3>1. i + 1 \in 1..Len(s) /\ Len(s) - (i + 1) + 1 = k - 1 /\ k > 1
            BY <1>2, <1>5, <2>2
        <3>2. r[i + 1] = s[k - 1]
            BY <1>5, <3>1
        <3> QED
            BY <1>5, <2>1, <2>2, <3>1, <3>2 DEF Ahead, Behind
    <2>3. CASE ~(i < Len(s))
        <3>1. k = 1
            BY <1>2, <1>5, <2>3
        <3> QED
            BY <1>5, <2>1, <2>3, <3>1 DEF Ahead, Behind
    <2> QED
        BY <2>2, <2>3
<1>8. n \in Nat /\ Len(r) <= n
    <2>1. Links!Cardinality(LinkThread) \in Nat /\ Len(s) <= Links!Cardinality(LinkThread)
        BY <1>1, QueueLength
    <2> QED
        BY <1>2, <1>5, <2>1
<1>9. Links!Backward(q) = Links!Walk(prev, Behind(r, 0), n)
    BY <1>6 DEF Links!Backward
<1> HIDE DEF n
<1>10. Links!Backward(q) = r
    BY <1>5, <1>7, <1>8, <1>9, WalkSpells
<1> QED
    BY <1>10 DEF r, s

LEMMA SpelledIs ==
    ASSUME NEW Q, Spells(Q)
    PROVE  Spelled = Q
<1>1. Q = [q \in Queue |-> Q[q]]
    BY DEF Spells
<1> QED
    BY <1>1, SpellsForward DEF Spelled

LEMMA MemberLinked ==
    ASSUME NEW Q, Spells(Q), NEW t
    PROVE  Links!Linked(t) <=> Member(Q, t)
BY SpellsForward DEF Links!Linked, Links!ToSet, Member

LEMMA SpellsAgree ==
    ASSUME NEW Q, Spells(Q)
    PROVE  LinksAgree
<1>1. \A q \in Queue : Links!Backward(q) = Links!Reverse(Links!Forward(q))
    BY SpellsForward, SpellsBackward
<1>2. \A t \in LinkThread : ~Links!Linked(t) => next[t] = Null /\ prev[t] = Null
    BY MemberLinked DEF Spells
<1> QED
    BY <1>1, <1>2 DEF LinksAgree, Links!LinksAgree
-----------------------------------------------------------------------------
(* What adding and removing a thread do to the queues that the links spell.*)

\* r is s with t put in at position k.
Inserted(r, s, t, k) ==
    /\ r \in Seq(LinkThread) /\ Len(r) = Len(s) + 1
    /\ \A j \in 1..Len(s) + 1 : r[j] = IF j < k THEN s[j] ELSE IF j = k THEN t ELSE s[j - 1]

\* What happens to the links when t comes to position k of queue q, which was s.
PutIn(q, s, t, k) ==
    /\ head' = IF k = 1 THEN [head EXCEPT ![q] = t] ELSE head
    /\ tail' = IF k > Len(s) THEN [tail EXCEPT ![q] = t] ELSE tail
    /\ next'[t] = Behind(s, k - 1) /\ prev'[t] = Ahead(s, k)
    /\ k > 1 => next'[s[k - 1]] = t
    /\ k <= Len(s) => prev'[s[k]] = t
    /\ \A u \in LinkThread :
           /\ u # t /\ (k > 1 => u # s[k - 1]) => next'[u] = next[u]
           /\ u # t /\ (k <= Len(s) => u # s[k]) => prev'[u] = prev[u]

LEMMA InsertSpells ==
    ASSUME NEW Q, Spells(Q), NEW q \in Queue, NEW t \in LinkThread, ~Member(Q, t),
           NEW k \in 1..Len(Q[q]) + 1, NEW r, Inserted(r, Q[q], t, k),
           LinkTypes, PutIn(q, Q[q], t, k)
    PROVE  Spells([Q EXCEPT ![q] = r])'
<1> USE DEF PutIn
<1> DEFINE s == Q[q]
           R == [Q EXCEPT ![q] = r]
           n == Len(s)
<1>1. /\ Q \in [Queue -> Seq(LinkThread)] /\ s \in Seq(LinkThread) /\ n \in Nat
      /\ \A p \in Queue : Len(Q[p]) \in Nat /\ \A i \in 1..Len(Q[p]) : Q[p][i] \in LinkThread
    BY LenProperties, ElementOfSeq DEF Spells
<1>2. R \in [Queue -> Seq(LinkThread)] /\ R[q] = r /\ \A p \in Queue : p # q => R[p] = Q[p]
    BY <1>1 DEF Inserted
<1>3. \A p \in Queue : \A i \in 1..Len(Q[p]) : Q[p][i] # t
    BY DEF Member
<1>4. \A p, o \in Queue : \A i \in 1..Len(Q[p]), j \in 1..Len(Q[o]) :
          Q[p][i] = Q[o][j] => p = o /\ i = j
    BY DEF Spells
<1>6. /\ k \in 1..n + 1 /\ Len(r) = n + 1 /\ r[k] = t
      /\ \A j \in 1..n : j < k => r[j] = s[j]
      /\ \A j \in 1..n : j >= k => r[j + 1] = s[j]
    <2>1. /\ k \in 1..n + 1 /\ Len(r) = n + 1
          /\ \A j \in 1..n + 1 : r[j] = IF j < k THEN s[j] ELSE IF j = k THEN t ELSE s[j - 1]
        BY DEF Inserted
    <2> HIDE DEF s
    <2>2. ASSUME NEW j \in 1..n, j >= k PROVE r[j + 1] = s[j]
        <3>1. j + 1 \in 1..n + 1 /\ (j + 1) - 1 = j /\ ~(j + 1 < k) /\ j + 1 # k
            BY <1>1, <2>1, <2>2
        <3> QED
            BY <2>1, <3>1
    <2> QED
        BY <1>1, <2>1, <2>2
<1> HIDE DEF s, R
<1>5. /\ \A i, j \in 1..n : s[i] = s[j] => i = j
      /\ \A j \in 1..n : s[j] # t
      /\ \A p \in Queue : p # q => \A i \in 1..Len(Q[p]), j \in 1..n : Q[p][i] # s[j] /\ Q[p][i] # t
    BY <1>3, <1>4 DEF s
<1>7. ASSUME NEW j \in 1..n + 1, j # k
      PROVE  \E i \in 1..n : r[j] = s[i] /\ i = IF j < k THEN j ELSE j - 1
    <2>1. CASE j < k
        <3>1. j \in 1..n
            BY <1>1, <1>6, <2>1
        <3> QED
            BY <1>6, <2>1, <3>1
    <2>2. CASE j > k
        <3>1. j - 1 \in 1..n /\ (j - 1) + 1 = j /\ j - 1 >= k
            BY <1>1, <1>6, <2>2
        <3>2. r[j] = s[j - 1]
            BY <1>6, <3>1
        <3> QED
            BY <1>6, <2>2, <3>1, <3>2
    <2> QED
        BY <1>6, <1>7, <2>1, <2>2
<1>8. ASSUME NEW p \in Queue, NEW o \in Queue,
             NEW i \in 1..Len(R[p]), NEW j \in 1..Len(R[o]), R[p][i] = R[o][j]
      PROVE  p = o /\ i = j
    <2>1. CASE p = q /\ o = q
        <3>1. r[i] = r[j] /\ i \in 1..n + 1 /\ j \in 1..n + 1
            BY <1>2, <1>6, <1>8, <2>1
        <3>2. CASE i # k /\ j # k
            <4>1. PICK a \in 1..n : r[i] = s[a] /\ a = IF i < k THEN i ELSE i - 1
                BY <1>7, <3>1, <3>2
            <4>2. PICK b \in 1..n : r[j] = s[b] /\ b = IF j < k THEN j ELSE j - 1
                BY <1>7, <3>1, <3>2
            <4>3. s[a] = s[b]
                BY <3>1, <4>1, <4>2
            <4>4. a = b
                BY <1>5, <4>3
            <4> QED
                BY <1>1, <1>6, <2>1, <3>1, <3>2, <4>1, <4>2, <4>4
        <3>3. CASE i = k \/ j = k
            <4>1. \A x \in 1..n + 1 : r[x] = t => x = k
                BY <1>5, <1>7
            <4> QED
                BY <1>6, <2>1, <3>1, <3>3, <4>1
        <3> QED
            BY <3>2, <3>3
    <2>0. \A x \in 1..n + 1 : r[x] = t \/ \E a \in 1..n : r[x] = s[a]
        BY <1>6, <1>7
    <2>2. CASE p = q /\ o # q
        <3>1. i \in 1..n + 1 /\ j \in 1..Len(Q[o]) /\ r[i] = Q[o][j]
            BY <1>2, <1>6, <1>8, <2>2
        <3> QED
            BY <1>3, <1>5, <2>2, <2>0, <3>1
    <2>3. CASE p # q /\ o = q
        <3>1. i \in 1..Len(Q[p]) /\ j \in 1..n + 1 /\ Q[p][i] = r[j]
            BY <1>2, <1>6, <1>8, <2>3
        <3> QED
            BY <1>3, <1>5, <2>3, <2>0, <3>1
    <2>4. CASE p # q /\ o # q
        <3>1. i \in 1..Len(Q[p]) /\ j \in 1..Len(Q[o]) /\ Q[p][i] = Q[o][j]
            BY <1>2, <1>8, <2>4
        <3> QED
            BY <1>4, <3>1
    <2> QED
        BY <2>1, <2>2, <2>3, <2>4
<1>9. ASSUME NEW p \in Queue
      PROVE  head'[p] = Behind(R[p], 0) /\ tail'[p] = Ahead(R[p], Len(R[p]) + 1)
    <2>1. head[p] = Behind(Q[p], 0) /\ tail[p] = Ahead(Q[p], Len(Q[p]) + 1)
        BY DEF Spells
    <2>2. CASE p # q
        <3>1. head'[p] = head[p] /\ tail'[p] = tail[p]
            BY <2>2 DEF LinkTypes
        <3> QED
            BY <1>2, <2>1, <2>2, <3>1
    <2>3. CASE p = q
        <3>1. Behind(r, 0) = r[1] /\ Ahead(r, Len(r) + 1) = r[n + 1]
            BY <1>1, <1>6 DEF Behind, Ahead
        <3>2. head'[q] = r[1]
            <4>1. CASE k = 1
                BY <1>6, <4>1 DEF LinkTypes
            <4>2. CASE k > 1
                <5>1. 1 \in 1..n /\ r[1] = s[1]
                    BY <1>1, <1>6, <4>2 DEF s
                <5> QED
                    BY <1>1, <2>1, <2>3, <4>2, <5>1 DEF Behind, s
            <4> QED
                BY <1>1, <4>1, <4>2 DEF s
        <3>3. tail'[q] = r[n + 1]
            <4>1. CASE k > n
                <5>1. k = n + 1
                    BY <1>1, <4>1 DEF s
                <5> QED
                    BY <1>6, <4>1, <5>1 DEF LinkTypes, s
            <4>2. CASE k <= n
                <5>0. n \in 1..n /\ n >= k
                    BY <1>1, <1>6, <4>2
                <5>1. n \in 1..n /\ r[n + 1] = s[n]
                    BY <1>6, <5>0
                <5> QED
                    BY <1>1, <2>1, <2>3, <4>2, <5>1 DEF Ahead, s
            <4> QED
                BY <1>1, <4>1, <4>2 DEF s
        <3> QED
            BY <1>2, <2>3, <3>1, <3>2, <3>3
    <2> QED
        BY <2>2, <2>3
<1>10. ASSUME NEW p \in Queue, NEW i \in 1..Len(R[p])
      PROVE  next'[R[p][i]] = Behind(R[p], i) /\ prev'[R[p][i]] = Ahead(R[p], i)
    <2>1. CASE p # q
        <3>1. R[p] = Q[p] /\ i \in 1..Len(Q[p]) /\ Q[p][i] \in LinkThread
            BY <1>1, <1>2, <2>1
        <3>2. Q[p][i] # t /\ \A j \in 1..n : Q[p][i] # s[j]
            BY <1>3, <1>4, <2>1, <3>1 DEF s
        <3>3. (k > 1 => k - 1 \in 1..n) /\ (k <= n => k \in 1..n)
            BY <1>1 DEF s
        <3>4. next'[Q[p][i]] = next[Q[p][i]] /\ prev'[Q[p][i]] = prev[Q[p][i]]
            BY <3>1, <3>2, <3>3 DEF s
        <3> QED
            BY <3>1, <3>4 DEF Spells
    <2>2. CASE p = q
        <3>1. i \in 1..n + 1 /\ R[p] = r
            BY <1>2, <1>6, <2>2
        <3>2. CASE i = k
            <4>1. next'[t] = Behind(r, k)
                <5>1. CASE k <= n
                    BY <1>1, <1>6, <5>1 DEF Behind, s
                <5>2. CASE k > n
                    BY <1>1, <1>6, <5>2 DEF Behind, s
                <5> QED
                    BY <1>1, <5>1, <5>2 DEF s
            <4>2. prev'[t] = Ahead(r, k)
                <5>1. CASE k > 1
                    <6>1. k - 1 \in 1..n /\ r[k - 1] = s[k - 1]
                        BY <1>1, <1>6, <5>1 DEF s
                    <6> QED
                        BY <5>1, <6>1 DEF Ahead, s
                <5>2. CASE k = 1
                    BY <5>2 DEF Ahead
                <5> QED
                    BY <1>1, <5>1, <5>2 DEF s
            <4> QED
                BY <1>6, <3>1, <3>2, <4>1, <4>2
        <3>3. CASE i < k
            <4>1. i \in 1..n /\ r[i] = s[i] /\ s[i] \in LinkThread /\ s[i] # t
                BY <1>1, <1>3, <1>6, <3>1, <3>3 DEF s
            <4>2. next[s[i]] = Behind(s, i) /\ prev[s[i]] = Ahead(s, i)
                BY <4>1 DEF Spells, s
            <4>3. prev'[s[i]] = prev[s[i]]
                <5>1. k <= n => s[i] # s[k]
                    BY <1>1, <1>4, <3>3, <4>1 DEF s
                <5> QED
                    BY <4>1, <5>1 DEF s
            <4>4. Ahead(s, i) = Ahead(r, i)
                <5>1. i > 1 => i - 1 \in 1..n /\ i - 1 < k
                    BY <1>1, <3>3, <4>1
                <5> QED
                    BY <1>6, <5>1 DEF Ahead
            <4>5. next'[s[i]] = Behind(r, i)
                <5>1. CASE i = k - 1
                    BY <1>1, <1>6, <3>1, <3>3, <5>1 DEF Behind, s
                <5>2. CASE i # k - 1
                    <6>1. k > 1 /\ k - 1 \in 1..n /\ i + 1 \in 1..n /\ i + 1 < k
                        BY <1>1, <3>1, <3>3, <5>2 DEF s
                    <6>2. s[i] # s[k - 1]
                        BY <1>4, <4>1, <5>2, <6>1 DEF s
                    <6>3. next'[s[i]] = next[s[i]]
                        BY <4>1, <6>2 DEF s
                    <6>4. r[i + 1] = s[i + 1]
                        BY <1>6, <6>1
                    <6>5. Behind(s, i) = s[i + 1] /\ Behind(r, i) = r[i + 1]
                        BY <1>1, <1>6, <4>1, <6>1 DEF Behind
                    <6> QED
                        BY <4>2, <6>3, <6>4, <6>5
                <5> QED
                    BY <5>1, <5>2
            <4> QED
                BY <3>1, <4>1, <4>2, <4>3, <4>4, <4>5
        <3>4. CASE i > k
            <4> DEFINE j == i - 1
            <4>1. /\ j \in 1..n /\ j + 1 = i /\ j >= k /\ r[i] = s[j]
                  /\ s[j] \in LinkThread /\ s[j] # t
                BY <1>1, <1>3, <1>6, <3>1, <3>4 DEF s
            <4>2. next[s[j]] = Behind(s, j) /\ prev[s[j]] = Ahead(s, j)
                BY <4>1 DEF Spells, s
            <4>3. next'[s[j]] = next[s[j]]
                <5>1. k > 1 => k - 1 \in 1..n /\ k - 1 # j
                    BY <1>1, <4>1 DEF s
                <5>2. k > 1 => s[j] # s[k - 1]
                    BY <1>4, <4>1, <5>1 DEF s
                <5> QED
                    BY <4>1, <5>2 DEF s
            <4>4. Behind(s, j) = Behind(r, i)
                <5>1. CASE j < n
                    <6>1. j + 1 \in 1..n /\ j + 1 >= k /\ (j + 1) + 1 = i + 1
                        BY <1>1, <1>6, <4>1, <5>1
                    <6>2. r[i + 1] = s[j + 1]
                        BY <1>6, <6>1
                    <6>3. i < Len(r)
                        BY <1>1, <1>6, <4>1, <5>1
                    <6> QED
                        BY <5>1, <6>2, <6>3 DEF Behind
                <5>2. CASE ~(j < n)
                    BY <1>1, <1>6, <4>1, <5>2 DEF Behind
                <5> QED
                    BY <5>1, <5>2
            <4>5. prev'[s[j]] = Ahead(r, i)
                <5>1. CASE j = k
                    BY <1>1, <1>6, <4>1, <5>1 DEF Ahead, s
                <5>2. CASE j # k
                    <6>1. k \in 1..n /\ j - 1 \in 1..n /\ j - 1 >= k /\ (j - 1) + 1 = i - 1
                        BY <1>1, <4>1, <5>2 DEF s
                    <6>2. s[j] # s[k]
                        BY <1>4, <4>1, <5>2, <6>1 DEF s
                    <6>3. prev'[s[j]] = prev[s[j]]
                        BY <4>1, <6>2 DEF s
                    <6>4. r[i - 1] = s[j - 1]
                        BY <1>6, <6>1
                    <6>5. Ahead(s, j) = s[j - 1] /\ Ahead(r, i) = r[i - 1]
                        BY <1>1, <4>1, <6>1 DEF Ahead
                    <6> QED
                        BY <4>2, <6>3, <6>4, <6>5
                <5> QED
                    BY <5>1, <5>2
            <4> QED
                BY <3>1, <4>1, <4>2, <4>3, <4>4, <4>5
        <3> QED
            BY <1>1, <3>1, <3>2, <3>3, <3>4 DEF s
    <2> QED
        BY <2>1, <2>2
<1>11. ASSUME NEW u \in LinkThread, ~Member(R, u)
       PROVE  next'[u] = Null /\ prev'[u] = Null
    <2>1. u # t
        BY <1>1, <1>2, <1>6, <1>11 DEF Member, s
    <2>2. ASSUME NEW j \in 1..n, u = s[j] PROVE FALSE
        <3>1. CASE j < k
            <4>1. j \in 1..Len(R[q]) /\ R[q][j] = u
                BY <1>1, <1>2, <1>6, <2>2, <3>1
            <4> QED
                BY <1>11, <4>1 DEF Member
        <3>2. CASE j >= k
            <4>0. j + 1 \in 1..Len(r) /\ r[j + 1] = u
                BY <1>1, <1>6, <2>2, <3>2
            <4>1. j + 1 \in 1..Len(R[q]) /\ R[q][j + 1] = u
                BY <1>2, <4>0
            <4> QED
                BY <1>11, <4>1 DEF Member
        <3> QED
            BY <1>1, <3>1, <3>2 DEF s
    <2>3. ~Member(Q, u)
        BY <1>2, <1>11, <2>2 DEF Member, s
    <2>4. (k > 1 => k - 1 \in 1..n) /\ (k <= n => k \in 1..n)
        BY <1>1 DEF s
    <2>5. next'[u] = next[u] /\ prev'[u] = prev[u]
        BY <2>1, <2>2, <2>4 DEF s
    <2> QED
        BY <2>3, <2>5 DEF Spells
<1> QED
    BY <1>2, <1>8, <1>9, <1>10, <1>11 DEF Spells, R, Member

\* r is s without its position k.
Removed(r, s, k) ==
    /\ r \in Seq(LinkThread) /\ Len(r) = Len(s) - 1
    /\ \A j \in 1..Len(s) - 1 : r[j] = IF j < k THEN s[j] ELSE s[j + 1]

\* What happens to the links when the thread at position k leaves queue q.
TakenOut(q, s, k) ==
    /\ head' = IF k = 1 THEN [head EXCEPT ![q] = Behind(s, k)] ELSE head
    /\ tail' = IF k = Len(s) THEN [tail EXCEPT ![q] = Ahead(s, k)] ELSE tail
    /\ next'[s[k]] = Null /\ prev'[s[k]] = Null
    /\ k > 1 => next'[s[k - 1]] = Behind(s, k)
    /\ k < Len(s) => prev'[s[k + 1]] = Ahead(s, k)
    /\ \A u \in LinkThread :
           /\ u # s[k] /\ (k > 1 => u # s[k - 1]) => next'[u] = next[u]
           /\ u # s[k] /\ (k < Len(s) => u # s[k + 1]) => prev'[u] = prev[u]

LEMMA RemoveSpells ==
    ASSUME NEW Q, Spells(Q), NEW q \in Queue, NEW k \in 1..Len(Q[q]),
           NEW r, Removed(r, Q[q], k), LinkTypes, TakenOut(q, Q[q], k)
    PROVE  Spells([Q EXCEPT ![q] = r])'
<1> DEFINE s == Q[q]
           R == [Q EXCEPT ![q] = r]
           n == Len(s)
<1>1. /\ Q \in [Queue -> Seq(LinkThread)] /\ s \in Seq(LinkThread) /\ n \in Nat
      /\ \A p \in Queue : Len(Q[p]) \in Nat /\ \A i \in 1..Len(Q[p]) : Q[p][i] \in LinkThread
    BY LenProperties, ElementOfSeq DEF Spells
<1>2. R \in [Queue -> Seq(LinkThread)] /\ R[q] = r /\ \A p \in Queue : p # q => R[p] = Q[p]
    BY <1>1 DEF Removed
<1>3. \A p, o \in Queue : \A i \in 1..Len(Q[p]), j \in 1..Len(Q[o]) :
          Q[p][i] = Q[o][j] => p = o /\ i = j
    BY DEF Spells
<1>4. /\ k \in 1..n /\ Len(r) = n - 1
      /\ \A j \in 1..n - 1 : r[j] = IF j < k THEN s[j] ELSE s[j + 1]
    BY DEF Removed
<1>5. /\ k > 1 => next'[s[k - 1]] = Behind(s, k)
      /\ k < n => prev'[s[k + 1]] = Ahead(s, k)
      /\ next'[s[k]] = Null /\ prev'[s[k]] = Null
      /\ \A u \in LinkThread :
             /\ u # s[k] /\ (k > 1 => u # s[k - 1]) => next'[u] = next[u]
             /\ u # s[k] /\ (k < n => u # s[k + 1]) => prev'[u] = prev[u]
    BY DEF TakenOut
<1>6. /\ \A i, j \in 1..n : s[i] = s[j] => i = j
      /\ \A j \in 1..n : s[j] \in LinkThread /\ next[s[j]] = Behind(s, j) /\ prev[s[j]] = Ahead(s, j)
      /\ \A p \in Queue : p # q => \A i \in 1..Len(Q[p]), j \in 1..n : Q[p][i] # s[j]
    BY <1>1, <1>3 DEF Spells
<1>7. /\ head' = IF k = 1 THEN [head EXCEPT ![q] = Behind(s, k)] ELSE head
      /\ tail' = IF k = n THEN [tail EXCEPT ![q] = Ahead(s, k)] ELSE tail
      /\ head[q] = Behind(s, 0) /\ tail[q] = Ahead(s, n + 1)
    BY DEF Spells, TakenOut
<1> HIDE DEF s, R
<1> HIDE DEF n
<1>8. ASSUME NEW j \in 1..n - 1
      PROVE  \E i \in 1..n : r[j] = s[i] /\ i # k /\ i = IF j < k THEN j ELSE j + 1
    <2>1. CASE j < k
        <3>1. j \in 1..n
            BY <1>1
        <3> QED
            BY <1>4, <2>1, <3>1
    <2>2. CASE ~(j < k)
        <3>1. j + 1 \in 1..n /\ j + 1 # k
            BY <1>1, <1>4, <2>2
        <3> QED
            BY <1>4, <2>2, <3>1
    <2> QED
        BY <2>1, <2>2
<1>9. ASSUME NEW p \in Queue, NEW o \in Queue,
             NEW i \in 1..Len(R[p]), NEW j \in 1..Len(R[o]), R[p][i] = R[o][j]
      PROVE  p = o /\ i = j
    <2>1. CASE p = q /\ o = q
        <3>1. r[i] = r[j] /\ i \in 1..n - 1 /\ j \in 1..n - 1
            BY <1>2, <1>4, <1>9, <2>1
        <3>2. PICK a \in 1..n : r[i] = s[a] /\ a = IF i < k THEN i ELSE i + 1
            BY <1>8, <3>1
        <3>3. PICK b \in 1..n : r[j] = s[b] /\ b = IF j < k THEN j ELSE j + 1
            BY <1>8, <3>1
        <3>4. s[a] = s[b]
            BY <3>1, <3>2, <3>3
        <3>5. a = b
            BY <1>6, <3>4
        <3> QED
            BY <1>1, <1>4, <2>1, <3>1, <3>2, <3>3, <3>5
    <2>2. CASE p = q /\ o # q
        <3>1. i \in 1..n - 1 /\ j \in 1..Len(Q[o]) /\ r[i] = Q[o][j]
            BY <1>2, <1>4, <1>9, <2>2
        <3> QED
            BY <1>6, <1>8, <2>2, <3>1
    <2>3. CASE p # q /\ o = q
        <3>1. i \in 1..Len(Q[p]) /\ j \in 1..n - 1 /\ Q[p][i] = r[j]
            BY <1>2, <1>4, <1>9, <2>3
        <3> QED
            BY <1>6, <1>8, <2>3, <3>1
    <2>4. CASE p # q /\ o # q
        <3>1. i \in 1..Len(Q[p]) /\ j \in 1..Len(Q[o]) /\ Q[p][i] = Q[o][j]
            BY <1>2, <1>9, <2>4
        <3> QED
            BY <1>3, <3>1
    <2> QED
        BY <2>1, <2>2, <2>3, <2>4
<1>10. ASSUME NEW p \in Queue
       PROVE  head'[p] = Behind(R[p], 0) /\ tail'[p] = Ahead(R[p], Len(R[p]) + 1)
    <2>2. CASE p # q
        <3>1. head[p] = Behind(Q[p], 0) /\ tail[p] = Ahead(Q[p], Len(Q[p]) + 1)
            BY DEF Spells
        <3>2. head'[p] = head[p] /\ tail'[p] = tail[p]
            BY <1>7, <2>2 DEF LinkTypes
        <3> QED
            BY <1>2, <2>2, <3>1, <3>2
    <2>3. CASE p = q
        <3>1. /\ Behind(r, 0) = IF n > 1 THEN r[1] ELSE Null
              /\ Ahead(r, Len(r) + 1) = IF n > 1 THEN r[n - 1] ELSE Null
            BY <1>1, <1>4 DEF Behind, Ahead
        <3>2. head'[q] = IF n > 1 THEN r[1] ELSE Null
            <4>1. CASE k = 1
                <5>1. head'[q] = Behind(s, 1)
                    BY <1>7, <4>1 DEF LinkTypes
                <5>0. n > 1 => 1 \in 1..n - 1 /\ ~(1 < k)
                    BY <1>1, <4>1
                <5>2. n > 1 => 1 \in 1..n - 1 /\ r[1] = s[1 + 1]
                    BY <1>4, <5>0
                <5>3. Behind(s, 1) = IF n > 1 THEN s[1 + 1] ELSE Null
                    BY <1>1 DEF Behind, n
                <5> QED
                    BY <5>1, <5>2, <5>3
            <4>2. CASE k > 1
                <5>1. n > 1 /\ 1 \in 1..n - 1 /\ r[1] = s[1]
                    BY <1>1, <1>4, <4>2
                <5>2. Behind(s, 0) = s[1]
                    BY <1>1, <5>1 DEF Behind, n
                <5> QED
                    BY <1>7, <4>2, <5>1, <5>2
            <4> QED
                BY <1>1, <1>4, <4>1, <4>2
        <3>3. tail'[q] = IF n > 1 THEN r[n - 1] ELSE Null
            <4>1. CASE k = n
                <5>1. tail'[q] = Ahead(s, n)
                    BY <1>7, <4>1 DEF LinkTypes
                <5>2. n > 1 => n - 1 \in 1..n - 1 /\ n - 1 < k
                    BY <1>1, <1>4, <4>1
                <5>3. n > 1 => r[n - 1] = s[n - 1]
                    BY <1>4, <5>2
                <5>4. Ahead(s, n) = IF n > 1 THEN s[n - 1] ELSE Null
                    BY <1>1 DEF Ahead
                <5> QED
                    BY <5>1, <5>3, <5>4
            <4>2. CASE k < n
                <5>1. n > 1 /\ n - 1 \in 1..n - 1 /\ ~(n - 1 < k) /\ (n - 1) + 1 = n /\ k # n
                    BY <1>1, <1>4, <4>2
                <5>2. r[n - 1] = s[n]
                    BY <1>4, <5>1
                <5>3. Ahead(s, n + 1) = s[n]
                    BY <1>1, <5>1 DEF Ahead
                <5> QED
                    BY <1>7, <5>1, <5>2, <5>3
            <4> QED
                BY <1>1, <1>4, <4>1, <4>2
        <3> QED
            BY <1>2, <2>3, <3>1, <3>2, <3>3
    <2> QED
        BY <2>2, <2>3
<1>11. ASSUME NEW p \in Queue, NEW i \in 1..Len(R[p])
       PROVE  next'[R[p][i]] = Behind(R[p], i) /\ prev'[R[p][i]] = Ahead(R[p], i)
    <2>1. CASE p # q
        <3>1. R[p] = Q[p] /\ i \in 1..Len(Q[p]) /\ Q[p][i] \in LinkThread
            BY <1>1, <1>2, <2>1
        <3>2. \A j \in 1..n : Q[p][i] # s[j]
            BY <1>6, <2>1, <3>1
        <3>3. (k > 1 => k - 1 \in 1..n) /\ (k < n => k + 1 \in 1..n)
            BY <1>1, <1>4
        <3>4. next'[Q[p][i]] = next[Q[p][i]] /\ prev'[Q[p][i]] = prev[Q[p][i]]
            BY <1>4, <1>5, <3>1, <3>2, <3>3
        <3> QED
            BY <3>1, <3>4 DEF Spells
    <2>2. CASE p = q
        <3>1. i \in 1..n - 1 /\ R[p] = r
            BY <1>2, <1>4, <2>2
        <3>2. CASE i < k
            <4>1. i \in 1..n /\ r[i] = s[i] /\ s[i] # s[k]
                BY <1>1, <1>4, <1>6, <3>1, <3>2
            <4>2. prev'[s[i]] = Ahead(s, i)
                <5>1. k < n => k + 1 \in 1..n /\ i # k + 1
                    BY <1>1, <1>4, <3>2, <4>1
                <5>2. k < n => s[i] # s[k + 1]
                    BY <1>6, <4>1, <5>1
                <5> QED
                    BY <1>5, <1>6, <4>1, <5>2
            <4>3. Ahead(s, i) = Ahead(r, i)
                <5>1. i > 1 => i - 1 \in 1..n - 1 /\ i - 1 < k
                    BY <1>1, <3>2, <4>1
                <5> QED
                    BY <1>4, <5>1 DEF Ahead
            <4>4. next'[s[i]] = Behind(r, i)
                <5>1. CASE i = k - 1
                    <6>1. k > 1 /\ next'[s[i]] = Behind(s, k) /\ i + 1 = k
                        BY <1>1, <1>4, <1>5, <4>1, <5>1
                    <6>2. CASE k < n
                        <7>1. i < n - 1 /\ k \in 1..n - 1 /\ r[k] = s[k + 1]
                            BY <1>1, <1>4, <5>1, <6>2
                        <7> QED
                            BY <1>4, <6>1, <6>2, <7>1 DEF Behind, n
                    <6>3. CASE ~(k < n)
                        <7>1. ~(i < n - 1)
                            BY <1>1, <1>4, <5>1, <6>3
                        <7> QED
                            BY <1>4, <6>1, <6>3, <7>1 DEF Behind, n
                    <6> QED
                        BY <6>2, <6>3
                <5>2. CASE i # k - 1
                    <6>1. /\ k > 1 /\ k - 1 \in 1..n /\ i + 1 \in 1..n - 1 /\ i + 1 < k
                          /\ i < n /\ i < n - 1
                        BY <1>1, <1>4, <3>2, <4>1, <5>2
                    <6>2. s[i] # s[k - 1]
                        BY <1>6, <4>1, <5>2, <6>1
                    <6>3. next'[s[i]] = next[s[i]]
                        BY <1>5, <1>6, <4>1, <6>2
                    <6>4. r[i + 1] = s[i + 1]
                        BY <1>4, <6>1
                    <6>5. Behind(s, i) = s[i + 1] /\ Behind(r, i) = r[i + 1]
                        BY <1>4, <6>1 DEF Behind, n
                    <6> QED
                        BY <1>6, <4>1, <6>3, <6>4, <6>5
                <5> QED
                    BY <5>1, <5>2
            <4> QED
                BY <3>1, <4>1, <4>2, <4>3, <4>4
        <3>3. CASE ~(i < k)
            <4> DEFINE j == i + 1
            <4>1. j \in 1..n /\ j > k /\ j - 1 = i /\ i \in 1..n /\ i >= k
                BY <1>1, <1>4, <3>1, <3>3
            <4>2. r[i] = s[j] /\ s[j] # s[k]
                BY <1>4, <1>6, <3>1, <3>3, <4>1
            <4> HIDE DEF j
            <4>3. next'[s[j]] = Behind(s, j)
                <5>1. k > 1 => k - 1 \in 1..n /\ k - 1 # j
                    BY <1>1, <1>4, <4>1
                <5>2. k > 1 => s[j] # s[k - 1]
                    BY <1>6, <4>1, <5>1
                <5> QED
                    BY <1>5, <1>6, <4>1, <4>2, <5>2
            <4>4. Behind(s, j) = Behind(r, i)
                <5>1. CASE j < n
                    <6>1. i + 1 \in 1..n - 1 /\ ~(i + 1 < k) /\ (i + 1) + 1 = j + 1 /\ i < n - 1
                        BY <1>1, <1>4, <4>1, <5>1
                    <6>2. r[i + 1] = s[j + 1]
                        BY <1>4, <6>1
                    <6> QED
                        BY <1>4, <5>1, <6>1, <6>2 DEF Behind, n
                <5>2. CASE ~(j < n)
                    <6>1. ~(i < n - 1)
                        BY <1>1, <4>1, <5>2
                    <6> QED
                        BY <1>4, <5>2, <6>1 DEF Behind, n
                <5> QED
                    BY <5>1, <5>2
            <4>5. prev'[s[j]] = Ahead(r, i)
                <5>1. CASE i = k
                    <6>1. k < n /\ j = k + 1
                        BY <1>1, <1>4, <4>1, <5>1
                    <6>2. prev'[s[j]] = Ahead(s, k)
                        BY <1>5, <6>1
                    <6>3. k > 1 => k - 1 \in 1..n - 1 /\ k - 1 < k
                        BY <1>1, <1>4
                    <6>4. k > 1 => r[k - 1] = s[k - 1]
                        BY <1>4, <6>3
                    <6> QED
                        BY <5>1, <6>2, <6>4 DEF Ahead
                <5>2. CASE i # k
                    <6>1. /\ k < n /\ k + 1 \in 1..n /\ j # k + 1
                          /\ i - 1 \in 1..n - 1 /\ ~(i - 1 < k) /\ (i - 1) + 1 = i /\ i > 1 /\ j > 1
                        BY <1>1, <1>4, <3>1, <4>1, <5>2
                    <6>2. s[j] # s[k + 1]
                        BY <1>6, <4>1, <6>1
                    <6>3. prev'[s[j]] = prev[s[j]]
                        BY <1>5, <1>6, <4>1, <4>2, <6>2
                    <6>4. r[i - 1] = s[i]
                        BY <1>4, <6>1
                    <6>5. Ahead(s, j) = s[i] /\ Ahead(r, i) = r[i - 1]
                        BY <4>1, <6>1 DEF Ahead
                    <6> QED
                        BY <1>6, <4>1, <6>3, <6>4, <6>5
                <5> QED
                    BY <5>1, <5>2
            <4> QED
                BY <3>1, <4>2, <4>3, <4>4, <4>5
        <3> QED
            BY <3>2, <3>3
    <2> QED
        BY <2>1, <2>2
<1>12. ASSUME NEW u \in LinkThread, ~Member(R, u)
       PROVE  next'[u] = Null /\ prev'[u] = Null
    <2>1. CASE u = s[k]
        BY <1>5, <2>1
    <2>2. CASE u # s[k]
        <3>1. ASSUME NEW j \in 1..n, u = s[j] PROVE FALSE
            <4>1. CASE j < k
                <5>1. j \in 1..n - 1 /\ r[j] = u
                    BY <1>1, <1>4, <3>1, <4>1
                <5>2. j \in 1..Len(R[q]) /\ R[q][j] = u
                    BY <1>2, <1>4, <5>1
                <5> QED
                    BY <1>12, <5>2 DEF Member
            <4>2. CASE j > k
                <5>1. j - 1 \in 1..n - 1 /\ ~(j - 1 < k) /\ (j - 1) + 1 = j
                    BY <1>1, <1>4, <4>2
                <5>2. r[j - 1] = u
                    BY <1>4, <3>1, <5>1
                <5>3. j - 1 \in 1..Len(R[q]) /\ R[q][j - 1] = u
                    BY <1>2, <1>4, <5>1, <5>2
                <5> QED
                    BY <1>12, <5>3 DEF Member
            <4> QED
                BY <1>1, <1>4, <2>2, <3>1, <4>1, <4>2
        <3>2. ~Member(Q, u)
            BY <1>2, <1>12, <3>1 DEF Member, s, n
        <3>3. (k > 1 => k - 1 \in 1..n) /\ (k < n => k + 1 \in 1..n)
            BY <1>1, <1>4
        <3>4. next'[u] = next[u] /\ prev'[u] = prev[u]
            BY <1>5, <2>2, <3>1, <3>3
        <3> QED
            BY <3>2, <3>4 DEF Spells
    <2> QED
        BY <2>1, <2>2
<1> QED
    BY <1>2, <1>9, <1>10, <1>11, <1>12 DEF Spells, R, Member
-----------------------------------------------------------------------------
(* The walk of addThreadByPriority.  `end' is a recursive function over the *)
(* threads, and only the links say that it is one: it is given explicitly   *)
(* by the position where the walk ends, and the one that is chosen takes    *)
(* the same values along a list, by the least position where it would not.  *)

\* In the first i positions of s, j is the last as urgent as t.
Urgent(s, t, i, j) ==
    /\ j \in 0..i
    /\ j > 0 => prio[s[j]] <= prio[t]
    /\ \A m \in j + 1..i : prio[s[m]] > prio[t]

LastUrgent(s, t, i) == CHOOSE j \in 0..i : Urgent(s, t, i, j)

LEMMA UrgentExists ==
    ASSUME LinkTypes, NEW s \in Seq(LinkThread), NEW t \in LinkThread, NEW i \in 0..Len(s)
    PROVE  \E j \in 0..i : Urgent(s, t, i, j)
<1>0. Len(s) \in Nat /\ (\A j \in 1..Len(s) : s[j] \in LinkThread)
    BY LenProperties, ElementOfSeq
<1>1. prio[t] \in Int /\ \A j \in 1..Len(s) : prio[s[j]] \in Int
    BY <1>0, LinkAssumption DEF LinkTypes
<1> DEFINE T == {d \in 0..i : d = i \/ prio[s[i - d]] <= prio[t]}
<1>2. T \in SUBSET Nat /\ T # {}
    <2>1. i \in T
        BY <1>0
    <2> QED
        BY <1>0, <2>1
<1>3. PICK x \in T : \A y \in T : x <= y
    BY <1>2, LeastNumber
<1>4. i - x \in 0..i /\ x \in 0..i
    BY <1>0
<1>5. i - x > 0 => prio[s[i - x]] <= prio[t]
    BY <1>0, <1>4
<1>6. ASSUME NEW m \in i - x + 1..i PROVE prio[s[m]] > prio[t]
    <2>1. i - m \in 0..i /\ i - m # i /\ i - (i - m) = m /\ i - m < x /\ m \in 1..Len(s)
        BY <1>0, <1>4
    <2>2. i - m \notin T
        <3>1. ~(x <= i - m)
            BY <1>0, <1>4, <2>1
        <3> HIDE DEF T
        <3> QED
            BY <1>3, <3>1
    <2>3. ~(prio[s[m]] <= prio[t])
        BY <2>1, <2>2
    <2> QED
        BY <1>1, <2>1, <2>3
<1> QED
    BY <1>4, <1>5, <1>6 DEF Urgent

LEMMA UrgentUnique ==
    ASSUME LinkTypes, NEW s \in Seq(LinkThread), NEW t \in LinkThread, NEW i \in 0..Len(s),
           NEW j, Urgent(s, t, i, j), NEW m, Urgent(s, t, i, m)
    PROVE  j = m
<1>0. Len(s) \in Nat /\ (\A a \in 1..Len(s) : s[a] \in LinkThread)
    BY LenProperties, ElementOfSeq
<1>1. prio[t] \in Int /\ \A a \in 1..Len(s) : prio[s[a]] \in Int
    BY <1>0, LinkAssumption DEF LinkTypes
<1>2. ASSUME NEW a, Urgent(s, t, i, a), NEW b, Urgent(s, t, i, b), a < b PROVE FALSE
    <2>1. a \in 0..i /\ b \in 0..i /\ b > 0 /\ b \in a + 1..i /\ b \in 1..Len(s)
        BY <1>0, <1>2 DEF Urgent
    <2>2. b > 0 => prio[s[b]] <= prio[t]
        BY <1>2 DEF Urgent
    <2>3. \A c \in a + 1..i : prio[s[c]] > prio[t]
        BY <1>2 DEF Urgent
    <2> QED
        BY <1>1, <2>1, <2>2, <2>3
<1>3. j \in 0..i /\ m \in 0..i
    BY DEF Urgent
<1>4. ~(j < m) /\ ~(m < j)
    BY <1>2
<1> QED
    BY <1>0, <1>3, <1>4

LEMMA UrgentIs ==
    ASSUME LinkTypes, NEW s \in Seq(LinkThread), NEW t \in LinkThread, NEW i \in 0..Len(s)
    PROVE  Urgent(s, t, i, LastUrgent(s, t, i))
BY UrgentExists DEF LastUrgent

LEMMA UrgentStep ==
    ASSUME LinkTypes, NEW s \in Seq(LinkThread), NEW t \in LinkThread, NEW i \in 1..Len(s)
    PROVE  LastUrgent(s, t, i) = IF prio[s[i]] > prio[t] THEN LastUrgent(s, t, i - 1) ELSE i
<1>0. Len(s) \in Nat /\ s[i] \in LinkThread /\ i \in 0..Len(s) /\ i - 1 \in 0..Len(s)
    BY LenProperties, ElementOfSeq
<1>1. prio[t] \in Int /\ prio[s[i]] \in Int
    BY <1>0, LinkAssumption DEF LinkTypes
<1>2. Urgent(s, t, i, LastUrgent(s, t, i))
    BY <1>0, UrgentIs
<1>3. CASE prio[s[i]] > prio[t]
    <2> DEFINE j == LastUrgent(s, t, i - 1)
    <2>1. Urgent(s, t, i - 1, j)
        BY <1>0, UrgentIs
    <2> HIDE DEF j
    <2>2. j \in 0..i /\ \A m \in j + 1..i : m = i \/ m \in j + 1..i - 1
        BY <1>0, <2>1 DEF Urgent
    <2>3. Urgent(s, t, i, j)
        BY <1>3, <2>1, <2>2 DEF Urgent
    <2>4. LastUrgent(s, t, i) = j
        BY <1>0, <1>2, <2>3, UrgentUnique
    <2> QED
        BY <1>3, <2>4 DEF j
<1>4. CASE ~(prio[s[i]] > prio[t])
    <2>1. Urgent(s, t, i, i)
        BY <1>0, <1>1, <1>4 DEF Urgent
    <2>2. LastUrgent(s, t, i) = i
        BY <1>0, <1>2, <2>1, UrgentUnique
    <2> QED
        BY <1>4, <2>2
<1> QED
    BY <1>3, <1>4

LEMMA UrgentZero ==
    ASSUME LinkTypes, NEW s \in Seq(LinkThread), NEW t \in LinkThread
    PROVE  LastUrgent(s, t, 0) = 0
<1>1. 0 \in 0..Len(s)
    BY LenProperties
<1>2. Urgent(s, t, 0, LastUrgent(s, t, 0))
    BY <1>1, UrgentIs
<1> QED
    BY <1>2 DEF Urgent

\* The position at which the abstract queue inserts.
LEMMA UrgentPosition ==
    ASSUME LinkTypes, NEW s \in Seq(LinkThread), NEW t \in LinkThread
    PROVE  /\ LastUrgent(s, t, Len(s)) \in 0..Len(s)
           /\ Links!Lists!InsertPosition(s, t, prio) = LastUrgent(s, t, Len(s)) + 1
<1> DEFINE n == Len(s)
           j == LastUrgent(s, t, n)
           Fits(i) == /\ \A m \in i..Len(s) : prio[s[m]] > prio[t]
                      /\ i > 1 => prio[s[i - 1]] <= prio[t]
           k == CHOOSE i \in 1..Len(s) + 1 : Fits(i)
<1>0. n \in Nat /\ n \in 0..Len(s)
    BY LenProperties
<1>1. Urgent(s, t, n, j)
    BY <1>0, UrgentIs
<1>2. Links!Lists!InsertPosition(s, t, prio) = k
    BY DEF Links!Lists!InsertPosition
<1> HIDE DEF j
<1>3. j + 1 \in 1..n + 1 /\ (j + 1) - 1 = j /\ j \in 0..n
    BY <1>0, <1>1 DEF Urgent
<1>4. Fits(j + 1)
    BY <1>0, <1>1, <1>3 DEF Urgent
<1>5. k \in 1..n + 1 /\ Fits(k)
    BY <1>3, <1>4
<1> HIDE DEF k
<1>6. Urgent(s, t, n, k - 1)
    <2>1. k - 1 \in 0..n /\ (k - 1) + 1 = k
        BY <1>0, <1>5
    <2> QED
        BY <1>0, <1>5, <2>1 DEF Urgent
<1>7. k - 1 = j
    BY <1>0, <1>1, <1>6, UrgentUnique
<1> QED
    BY <1>0, <1>2, <1>3, <1>5, <1>7 DEF j

\* The walk of addThreadByPriority ends in front of that position.
LEMMA WalkEnds ==
    ASSUME LinkTypes, NEW Q, Spells(Q), NEW q \in Queue, NEW t \in LinkThread
    PROVE  Links!InsertAfter(t, tail[q]) = Ahead(Q[q], LastUrgent(Q[q], t, Len(Q[q])) + 1)
<1> DEFINE Stop(s, i) == Ahead(s, LastUrgent(s, t, i) + 1)
           Over(w) == w # Null /\ prio[w] > prio[t]
           Ends(f) == f = [w \in LinkThread \cup {Null} |-> IF Over(w) THEN f[prev[w]] ELSE w]
           end == CHOOSE f : Ends(f)
           StopOf(w) == CHOOSE v : \E p \in Queue : \E i \in 1..Len(Q[p]) :
                            w = Q[p][i] /\ v = Stop(Q[p], i)
           known == [w \in LinkThread \cup {Null} |->
                        IF Member(Q, w) THEN StopOf(w) ELSE IF Over(w) THEN Null ELSE w]
<1>0. /\ Q \in [Queue -> Seq(LinkThread)]
      /\ \A p \in Queue : Len(Q[p]) \in Nat /\ \A i \in 1..Len(Q[p]) : Q[p][i] \in LinkThread
    BY LenProperties, ElementOfSeq DEF Spells
<1>1. Links!InsertAfter(t, tail[q]) = end[tail[q]]
    BY DEF Links!InsertAfter, Links!WalkOver
<1>2. ASSUME NEW p \in Queue, NEW i \in 1..Len(Q[p]), Over(Q[p][i])
      PROVE  /\ Stop(Q[p], i) = Stop(Q[p], i - 1)
             /\ i = 1 => prev[Q[p][i]] = Null /\ Stop(Q[p], i) = Null
             /\ i > 1 => prev[Q[p][i]] = Q[p][i - 1] /\ i - 1 \in 1..Len(Q[p])
    <2>1. LastUrgent(Q[p], t, i) = LastUrgent(Q[p], t, i - 1)
        BY <1>0, <1>2, UrgentStep
    <2>2. prev[Q[p][i]] = Ahead(Q[p], i)
        BY DEF Spells
    <2>3. LastUrgent(Q[p], t, 0) = 0
        BY <1>0, UrgentZero
    <2>4. i = 1 => Stop(Q[p], i) = Null
        BY <2>1, <2>3 DEF Ahead
    <2>5. i > 1 => i - 1 \in 1..Len(Q[p])
        BY <1>0
    <2> QED
        BY <2>1, <2>2, <2>4, <2>5 DEF Ahead
<1>3. ASSUME NEW p \in Queue, NEW i \in 1..Len(Q[p]), ~Over(Q[p][i])
      PROVE  Stop(Q[p], i) = Q[p][i]
    <2>1. LastUrgent(Q[p], t, i) = i
        BY <1>0, <1>3, UrgentStep, LinkAssumption
    <2> QED
        BY <1>0, <2>1 DEF Ahead
<1> HIDE DEF Stop, end
<1>4. ASSUME NEW p \in Queue, NEW i \in 1..Len(Q[p])
      PROVE  known[Q[p][i]] = Stop(Q[p], i)
    <2> DEFINE w == Q[p][i]
    <2>1. w \in LinkThread /\ Member(Q, w)
        BY <1>0 DEF Member
    <2>2. \A o \in Queue : \A j \in 1..Len(Q[o]) : w = Q[o][j] => o = p /\ j = i
        BY DEF Spells
    <2>3. StopOf(w) = Stop(Q[p], i)
        BY <2>2
    <2> HIDE DEF w
    <2> QED
        BY <2>1, <2>3 DEF w
<1>5. Null \notin LinkThread /\ ~Member(Q, Null)
    BY <1>0, LinkAssumption DEF Member
<1>6. known[Null] = Null
    BY <1>5
<1>7. ASSUME NEW w \in LinkThread \cup {Null}
      PROVE  known[w] = IF Over(w) THEN known[prev[w]] ELSE w
    <2>1. CASE Member(Q, w)
        <3>0. PICK p \in Queue : \E i \in 1..Len(Q[p]) : w = Q[p][i]
            BY <2>1 DEF Member
        <3>1. PICK i \in 1..Len(Q[p]) : w = Q[p][i]
            BY <3>0
        <3>2. known[w] = Stop(Q[p], i)
            BY <1>4, <3>1
        <3> HIDE DEF known
        <3>3. CASE Over(w)
            <4>1. CASE i = 1
                BY <1>2, <1>6, <3>1, <3>2, <3>3, <4>1
            <4>2. CASE i # 1
                <5>1. i > 1
                    BY <1>0, <4>2
                <5>2. prev[w] = Q[p][i - 1] /\ i - 1 \in 1..Len(Q[p]) /\ Stop(Q[p], i) = Stop(Q[p], i - 1)
                    BY <1>2, <3>1, <3>3, <5>1
                <5> QED
                    BY <1>4, <3>2, <3>3, <5>2
            <4> QED
                BY <4>1, <4>2
        <3>4. CASE ~Over(w)
            BY <1>3, <3>1, <3>2, <3>4
        <3> QED
            BY <3>3, <3>4
    <2>2. CASE ~Member(Q, w)
        <3>1. CASE Over(w)
            <4>1. prev[w] = Null
                BY <2>2, <3>1 DEF Spells
            <4>2. known[w] = Null
                BY <2>2, <3>1
            <4> QED
                BY <1>6, <3>1, <4>1, <4>2
        <3>2. CASE ~Over(w)
            BY <2>2, <3>2
        <3> QED
            BY <3>1, <3>2
    <2> QED
        BY <2>1, <2>2
<1>8. Ends(known)
    <2>1. known = [w \in LinkThread \cup {Null} |-> known[w]]
        OBVIOUS
    <2> HIDE DEF known
    <2> QED
        BY <1>7, <2>1
<1>9. Ends(end)
    BY <1>8 DEF end
<1>10. \A w \in LinkThread \cup {Null} : end[w] = IF Over(w) THEN end[prev[w]] ELSE w
    BY <1>9
<1>11. end[Null] = Null
    BY <1>10
<1> HIDE DEF Ends
<1>12. ASSUME NEW i \in 1..Len(Q[q]) PROVE end[Q[q][i]] = Stop(Q[q], i)
    <2> DEFINE T == {j \in 1..Len(Q[q]) : end[Q[q][j]] # Stop(Q[q], j)}
    <2>1. SUFFICES ASSUME T # {} PROVE FALSE
        OBVIOUS
    <2>2. T \in SUBSET Nat
        BY <1>0
    <2>3. PICK j \in T : \A m \in T : j <= m
        BY <2>1, <2>2, LeastNumber
    <2>4. Q[q][j] \in LinkThread /\ j \in 1..Len(Q[q])
        BY <1>0
    <2>5. end[Q[q][j]] = IF Over(Q[q][j]) THEN end[prev[Q[q][j]]] ELSE Q[q][j]
        BY <1>10, <2>4
    <2>6. CASE Over(Q[q][j])
        <3>1. CASE j = 1
            BY <1>2, <1>11, <2>4, <2>5, <2>6, <3>1
        <3>2. CASE j # 1
            <4>1. j > 1
                BY <1>0, <2>4, <3>2
            <4>2. /\ prev[Q[q][j]] = Q[q][j - 1] /\ j - 1 \in 1..Len(Q[q])
                  /\ Stop(Q[q], j) = Stop(Q[q], j - 1)
                BY <1>2, <2>4, <2>6, <4>1
            <4>3. ~(j <= j - 1)
                BY <1>0, <2>4
            <4>4. end[Q[q][j - 1]] = Stop(Q[q], j - 1)
                BY <2>3, <4>2, <4>3
            <4> QED
                BY <2>5, <2>6, <4>2, <4>4
        <3> QED
            BY <3>1, <3>2
    <2>7. CASE ~Over(Q[q][j])
        BY <1>3, <2>4, <2>5, <2>7
    <2> QED
        BY <2>6, <2>7
<1>13. tail[q] = Ahead(Q[q], Len(Q[q]) + 1)
    BY DEF Spells
<1>14. CASE Len(Q[q]) = 0
    <2>1. tail[q] = Null
        BY <1>13, <1>14 DEF Ahead
    <2>2. Stop(Q[q], Len(Q[q])) = Null
        <3>1. LastUrgent(Q[q], t, 0) = 0
            BY <1>0, UrgentZero
        <3> QED
            BY <1>14, <3>1 DEF Ahead, Stop
    <2> QED
        BY <1>1, <1>11, <2>1, <2>2 DEF Stop
<1>15. CASE Len(Q[q]) # 0
    <2>1. tail[q] = Q[q][Len(Q[q])] /\ Len(Q[q]) \in 1..Len(Q[q])
        BY <1>0, <1>13, <1>15 DEF Ahead
    <2> QED
        BY <1>1, <1>12, <2>1 DEF Stop
<1> QED
    BY <1>14, <1>15
-----------------------------------------------------------------------------
(* The operations: each does to the sequences that the links spell what    *)
(* ThreadLists says.                                                       *)

LEMMA Ends ==
    ASSUME NEW Q, Spells(Q), NEW q \in Queue
    PROVE  /\ Q[q] \in Seq(LinkThread) /\ Len(Q[q]) \in Nat
           /\ \A j \in 1..Len(Q[q]) : Q[q][j] \in LinkThread /\ Q[q][j] # Null
           /\ head[q] = IF Len(Q[q]) = 0 THEN Null ELSE Q[q][1]
           /\ tail[q] = IF Len(Q[q]) = 0 THEN Null ELSE Q[q][Len(Q[q])]
           /\ \A j \in 1..Len(Q[q]) : next[Q[q][j]] = Behind(Q[q], j) /\ prev[Q[q][j]] = Ahead(Q[q], j)
<1>1. Q[q] \in Seq(LinkThread) /\ Len(Q[q]) \in Nat
    BY LenProperties DEF Spells
<1>2. \A j \in 1..Len(Q[q]) : Q[q][j] \in LinkThread /\ Q[q][j] # Null
    BY <1>1, ElementOfSeq, LinkAssumption
<1>3. head[q] = Behind(Q[q], 0) /\ tail[q] = Ahead(Q[q], Len(Q[q]) + 1)
    BY DEF Spells
<1>4. head[q] = IF Len(Q[q]) = 0 THEN Null ELSE Q[q][1]
    BY <1>1, <1>3 DEF Behind
<1>5. tail[q] = IF Len(Q[q]) = 0 THEN Null ELSE Q[q][Len(Q[q])]
    BY <1>1, <1>3 DEF Ahead
<1> QED
    BY <1>1, <1>2, <1>4, <1>5 DEF Spells

LEMMA AppendSpells ==
    ASSUME NEW Q, Spells(Q), LinkTypes, NEW q \in Queue, NEW t \in LinkThread, ~Member(Q, t),
           Links!InsertAfterTail(q, t), UNCHANGED prio,
           NEW r, Inserted(r, Q[q], t, Len(Q[q]) + 1)
    PROVE  LinkTypes' /\ Spells([Q EXCEPT ![q] = r])'
<1> DEFINE s == Q[q]
           n == Len(s)
           k == n + 1
<1>1. /\ n \in Nat /\ k \in 1..n + 1 /\ k - 1 = n /\ ~(k <= n)
      /\ \A j \in 1..n : s[j] \in LinkThread /\ s[j] # Null /\ s[j] # t
      /\ tail[q] = IF n = 0 THEN Null ELSE s[n]
    BY Ends DEF Member
<1>2. LinkTypes'
    BY DEF LinkTypes, Links!InsertAfterTail
<1>3. CASE n = 0
    <2>1. /\ tail[q] = Null
          /\ head' = [head EXCEPT ![q] = t] /\ tail' = [tail EXCEPT ![q] = t]
          /\ next' = [next EXCEPT ![t] = Null] /\ prev' = [prev EXCEPT ![t] = tail[q]]
        BY <1>1, <1>3 DEF Links!InsertAfterTail
    <2>2. Behind(s, k - 1) = Null /\ Ahead(s, k) = Null
        BY <1>3 DEF Behind, Ahead
    <2>3. next'[t] = Behind(s, k - 1) /\ prev'[t] = Ahead(s, k)
        BY <2>1, <2>2 DEF LinkTypes
    <2>4. \A u \in LinkThread : u # t => next'[u] = next[u] /\ prev'[u] = prev[u]
        BY <2>1 DEF LinkTypes
    <2>5. k = 1 /\ k > n /\ ~(k > 1)
        BY <1>3
    <2>6. PutIn(q, s, t, k)
        <3> HIDE DEF k
        <3> QED
            BY <2>1, <2>3, <2>4, <2>5 DEF PutIn
    <2> QED
        BY <1>1, <1>2, <2>6, InsertSpells
<1>4. CASE n # 0
    <2>1. n \in 1..n /\ tail[q] = s[n] /\ tail[q] \in LinkThread /\ tail[q] # Null /\ tail[q] # t
        BY <1>1, <1>4
    <2>2. /\ head' = head /\ tail' = [tail EXCEPT ![q] = t]
          /\ next' = [next EXCEPT ![t] = Null, ![tail[q]] = t]
          /\ prev' = [prev EXCEPT ![t] = tail[q]]
        BY <2>1 DEF Links!InsertAfterTail
    <2>3. Behind(s, k - 1) = Null /\ Ahead(s, k) = s[n]
        BY <1>1, <2>1 DEF Behind, Ahead
    <2>4. /\ next'[t] = Behind(s, k - 1) /\ prev'[t] = Ahead(s, k) /\ next'[s[k - 1]] = t
        BY <1>1, <2>1, <2>2, <2>3 DEF LinkTypes
    <2>5. \A u \in LinkThread : /\ u # t /\ u # s[k - 1] => next'[u] = next[u]
                                /\ u # t => prev'[u] = prev[u]
        BY <1>1, <2>1, <2>2 DEF LinkTypes
    <2>6. k # 1 /\ k > n /\ k > 1
        BY <1>1, <1>4
    <2>7. PutIn(q, s, t, k)
        <3> HIDE DEF k
        <3> QED
            BY <1>1, <2>2, <2>4, <2>5, <2>6 DEF PutIn
    <2> QED
        BY <1>1, <1>2, <2>7, InsertSpells
<1> QED
    BY <1>2, <1>3, <1>4

LEMMA PutInSpells ==
    ASSUME NEW Q, Spells(Q), LinkTypes, NEW q \in Queue, NEW t \in LinkThread, ~Member(Q, t),
           Links!addThreadByPriority(q, t),
           NEW k, k = LastUrgent(Q[q], t, Len(Q[q])) + 1, NEW r, Inserted(r, Q[q], t, k)
    PROVE  LinkTypes' /\ Spells([Q EXCEPT ![q] = r])'
<1> DEFINE s == Q[q]
           n == Len(s)
           u == Links!InsertAfter(t, tail[q])
<1>1. /\ n \in Nat /\ s \in Seq(LinkThread)
      /\ \A j \in 1..n : s[j] \in LinkThread /\ s[j] # Null /\ s[j] # t /\ next[s[j]] = Behind(s, j)
      /\ tail[q] = IF n = 0 THEN Null ELSE s[n]
      /\ head[q] = IF n = 0 THEN Null ELSE s[1]
    BY Ends DEF Member
<1>2. k \in 1..n + 1 /\ (k > 1 => k - 1 \in 1..n) /\ (k <= n => k \in 1..n)
    <2>1. LastUrgent(s, t, n) \in 0..n
        BY <1>1, UrgentPosition
    <2> QED
        BY <1>1, <2>1
<1>3. u = Ahead(s, k)
    BY WalkEnds
<1>4. /\ IF tail[q] = Null THEN Links!InsertAfterTail(q, t)
         ELSE IF u = Null THEN Links!InsertInFront(q, t)
         ELSE Links!InsertBetween(q, t, u)
      /\ UNCHANGED prio
    BY DEF Links!addThreadByPriority
<1> HIDE DEF u
<1>5. CASE tail[q] = Null
    <2>1. n = 0
        <3>1. n # 0 => n \in 1..n
            BY <1>1
        <3> QED
            BY <1>1, <1>5, <3>1
    <2>2. k = n + 1
        BY <1>2, <2>1
    <2> QED
        BY <1>4, <1>5, <2>2, AppendSpells
<1>6. CASE tail[q] # Null /\ u = Null
    <2>1. n # 0 /\ 1 \in 1..n
        BY <1>1, <1>6
    <2>2. k = 1 /\ k <= n /\ ~(k > n)
        <3>1. k > 1 => u = s[k - 1] /\ s[k - 1] # Null
            BY <1>1, <1>2, <1>3 DEF Ahead
        <3> QED
            BY <1>1, <1>2, <1>6, <2>1, <3>1
    <2>3. head[q] = s[1] /\ s[1] \in LinkThread /\ s[1] # t
        BY <1>1, <2>1
    <2>4. /\ next' = [next EXCEPT ![t] = s[1]] /\ prev' = [prev EXCEPT ![t] = Null, ![s[1]] = t]
          /\ head' = [head EXCEPT ![q] = t] /\ tail' = tail
        BY <1>4, <1>6, <2>3 DEF Links!InsertInFront
    <2>5. Behind(s, k - 1) = s[1] /\ Ahead(s, k) = Null
        BY <1>1, <2>1, <2>2 DEF Behind, Ahead
    <2>6. next'[t] = Behind(s, k - 1) /\ prev'[t] = Ahead(s, k) /\ prev'[s[k]] = t
        BY <2>2, <2>3, <2>4, <2>5 DEF LinkTypes
    <2>7. \A v \in LinkThread : /\ v # t => next'[v] = next[v]
                                /\ v # t /\ v # s[k] => prev'[v] = prev[v]
        BY <2>2, <2>3, <2>4 DEF LinkTypes
    <2>8. LinkTypes'
        BY <1>4, <2>3, <2>4 DEF LinkTypes
    <2>9. PutIn(q, s, t, k)
        <3>1. head' = IF k = 1 THEN [head EXCEPT ![q] = t] ELSE head
            BY <2>2, <2>4
        <3>2. tail' = IF k > n THEN [tail EXCEPT ![q] = t] ELSE tail
            BY <2>2, <2>4
        <3>3. ~(k > 1)
            BY <2>2
        <3> QED
            BY <2>2, <2>6, <2>7, <3>1, <3>2, <3>3 DEF PutIn
    <2> QED
        BY <1>2, <2>8, <2>9, InsertSpells
<1>7. CASE tail[q] # Null /\ u # Null
    <2>1. k > 1 /\ k # 1 /\ u = s[k - 1] /\ k - 1 \in 1..n
        BY <1>2, <1>3, <1>7 DEF Ahead
    <2>2. u \in LinkThread /\ u # t /\ next[u] = Behind(s, k - 1) /\ Ahead(s, k) = u
        BY <1>1, <1>3, <2>1
    <2>3. next' = [next EXCEPT ![t] = next[u], ![u] = t] /\ head' = head
        BY <1>4, <1>7 DEF Links!InsertBetween
    <2>4. next'[t] = Behind(s, k - 1) /\ next'[s[k - 1]] = t
        BY <2>1, <2>2, <2>3 DEF LinkTypes
    <2>5. \A v \in LinkThread : v # t /\ v # s[k - 1] => next'[v] = next[v]
        BY <2>1, <2>2, <2>3 DEF LinkTypes
    <2>6. CASE k <= n
        <3>1. Behind(s, k - 1) = s[k] /\ s[k] \in LinkThread /\ s[k] # Null /\ s[k] # t
            BY <1>1, <1>2, <2>6 DEF Behind
        <3>2. prev' = [prev EXCEPT ![t] = u, ![s[k]] = t] /\ tail' = tail
            BY <1>4, <1>7, <2>2, <3>1 DEF Links!InsertBetween
        <3>3. prev'[t] = Ahead(s, k) /\ prev'[s[k]] = t
            BY <2>2, <3>1, <3>2 DEF LinkTypes
        <3>4. \A v \in LinkThread : v # t /\ v # s[k] => prev'[v] = prev[v]
            BY <3>2 DEF LinkTypes
        <3>5. LinkTypes'
            BY <1>4, <2>2, <2>3, <3>1, <3>2 DEF LinkTypes
        <3>6. ~(k > n)
            BY <1>1, <1>2, <2>6
        <3>7. PutIn(q, s, t, k)
            BY <2>1, <2>3, <2>4, <2>5, <2>6, <3>2, <3>3, <3>4, <3>6 DEF PutIn
        <3> QED
            BY <1>2, <3>5, <3>7, InsertSpells
    <2>7. CASE ~(k <= n)
        <3>1. Behind(s, k - 1) = Null /\ k > n
            BY <1>1, <1>2, <2>7 DEF Behind
        <3>2. prev' = [prev EXCEPT ![t] = u] /\ tail' = [tail EXCEPT ![q] = t]
            BY <1>4, <1>7, <2>2, <3>1 DEF Links!InsertBetween
        <3>3. prev'[t] = Ahead(s, k) /\ \A v \in LinkThread : v # t => prev'[v] = prev[v]
            BY <2>2, <3>2 DEF LinkTypes
        <3>4. LinkTypes'
            BY <1>4, <2>2, <2>3, <3>1, <3>2 DEF LinkTypes
        <3>5. PutIn(q, s, t, k)
            BY <2>1, <2>3, <2>4, <2>5, <2>7, <3>1, <3>2, <3>3 DEF PutIn
        <3> QED
            BY <1>2, <3>4, <3>5, InsertSpells
    <2> QED
        BY <2>6, <2>7
<1> QED
    BY <1>5, <1>6, <1>7

LEMMA TakeOutSpells ==
    ASSUME NEW Q, Spells(Q), LinkTypes, NEW q \in Queue, NEW k \in 1..Len(Q[q]),
           Links!removeThread(q, Q[q][k]), NEW r, Removed(r, Q[q], k)
    PROVE  LinkTypes' /\ Spells([Q EXCEPT ![q] = r])'
<1> DEFINE s == Q[q]
           n == Len(s)
           t == s[k]
<1>1. /\ n \in Nat /\ s \in Seq(LinkThread) /\ k \in 1..n
      /\ \A j \in 1..n : s[j] \in LinkThread /\ s[j] # Null
      /\ t \in LinkThread /\ next[t] = Behind(s, k) /\ prev[t] = Ahead(s, k)
      /\ \A j \in 1..n : s[j] = t => j = k
    <2>1. \A i, j \in 1..n : s[i] = s[j] => i = j
        BY DEF Spells
    <2> QED
        BY <2>1, Ends
<1>2. /\ IF prev[t] # Null
         THEN next' = [next EXCEPT ![prev[t]] = next[t], ![t] = Null] /\ UNCHANGED head
         ELSE next' = [next EXCEPT ![t] = Null] /\ head' = [head EXCEPT ![q] = next[t]]
      /\ IF next[t] # Null
         THEN prev' = [prev EXCEPT ![next[t]] = prev[t], ![t] = Null] /\ UNCHANGED tail
         ELSE prev' = [prev EXCEPT ![t] = Null] /\ tail' = [tail EXCEPT ![q] = prev[t]]
      /\ UNCHANGED prio
    BY DEF Links!removeThread
<1>3. LinkTypes'
    BY <1>1, <1>2 DEF LinkTypes
<1>4. k > 1 => k - 1 \in 1..n /\ k # 1 /\ prev[t] = s[k - 1] /\ prev[t] # Null /\ s[k - 1] # t
               /\ s[k - 1] \in LinkThread
    <2> SUFFICES ASSUME k > 1 PROVE k - 1 \in 1..n /\ k # 1 /\ prev[t] = s[k - 1] /\ prev[t] # Null
                                    /\ s[k - 1] # t /\ s[k - 1] \in LinkThread
        OBVIOUS
    <2>1. k - 1 \in 1..n /\ k # 1 /\ k - 1 # k
        BY <1>1
    <2>2. prev[t] = s[k - 1]
        BY <1>1 DEF Ahead
    <2> HIDE DEF t
    <2> QED
        BY <1>1, <2>1, <2>2
<1>5. k < n => k + 1 \in 1..n /\ k # n /\ next[t] = s[k + 1] /\ next[t] # Null /\ s[k + 1] # t
               /\ s[k + 1] \in LinkThread
    <2> SUFFICES ASSUME k < n PROVE k + 1 \in 1..n /\ k # n /\ next[t] = s[k + 1] /\ next[t] # Null
                                    /\ s[k + 1] # t /\ s[k + 1] \in LinkThread
        OBVIOUS
    <2>1. k + 1 \in 1..n /\ k # n /\ k + 1 # k
        BY <1>1
    <2>2. next[t] = s[k + 1]
        BY <1>1 DEF Behind
    <2> HIDE DEF t
    <2> QED
        BY <1>1, <2>1, <2>2
<1>6. (~(k > 1) => k = 1 /\ prev[t] = Null) /\ (~(k < n) => k = n /\ next[t] = Null)
    BY <1>1 DEF Ahead, Behind
<1> HIDE DEF t
<1>7. /\ head' = IF k = 1 THEN [head EXCEPT ![q] = Behind(s, k)] ELSE head
      /\ tail' = IF k = n THEN [tail EXCEPT ![q] = Ahead(s, k)] ELSE tail
    <2>1. CASE k > 1 /\ k < n
        BY <1>2, <1>4, <1>5, <2>1
    <2>2. CASE k > 1 /\ ~(k < n)
        BY <1>1, <1>2, <1>4, <1>6, <2>2
    <2>3. CASE ~(k > 1) /\ k < n
        BY <1>1, <1>2, <1>5, <1>6, <2>3
    <2>4. CASE ~(k > 1) /\ ~(k < n)
        BY <1>1, <1>2, <1>6, <2>4
    <2> QED
        BY <2>1, <2>2, <2>3, <2>4
<1>8. /\ next'[t] = Null /\ (k > 1 => next'[s[k - 1]] = Behind(s, k))
      /\ \A u \in LinkThread : u # t /\ (k > 1 => u # s[k - 1]) => next'[u] = next[u]
    <2>1. CASE k > 1
        <3>1. next' = [next EXCEPT ![s[k - 1]] = Behind(s, k), ![t] = Null]
            BY <1>1, <1>2, <1>4, <2>1
        <3> QED
            BY <1>1, <1>4, <2>1, <3>1 DEF LinkTypes
    <2>2. CASE ~(k > 1)
        <3>1. next' = [next EXCEPT ![t] = Null]
            BY <1>2, <1>6, <2>2
        <3> QED
            BY <1>1, <2>2, <3>1 DEF LinkTypes
    <2> QED
        BY <2>1, <2>2
<1>9. /\ prev'[t] = Null /\ (k < n => prev'[s[k + 1]] = Ahead(s, k))
      /\ \A u \in LinkThread : u # t /\ (k < n => u # s[k + 1]) => prev'[u] = prev[u]
    <2>1. CASE k < n
        <3>1. prev' = [prev EXCEPT ![s[k + 1]] = Ahead(s, k), ![t] = Null]
            BY <1>1, <1>2, <1>5, <2>1
        <3> QED
            BY <1>1, <1>5, <2>1, <3>1 DEF LinkTypes
    <2>2. CASE ~(k < n)
        <3>1. prev' = [prev EXCEPT ![t] = Null]
            BY <1>2, <1>6, <2>2
        <3> QED
            BY <1>1, <2>2, <3>1 DEF LinkTypes
    <2> QED
        BY <2>1, <2>2
<1> QED
    <2>1. TakenOut(q, s, k)
        BY <1>7, <1>8, <1>9 DEF TakenOut, t
    <2> QED
        BY <1>3, <2>1, RemoveSpells
-----------------------------------------------------------------------------
LEMMA SpelledNext == (\A Q : Spells(Q) => Spelled = Q)'
<1>1. \A Q : Spells(Q) => Spelled = Q
    BY SpelledIs
<1> QED
    BY <1>1, PTL

\* A step of ThreadLists from the queues Q to the queues R.
ListStep(Q, R) ==
    \/ \E q \in Queue, t \in LinkThread :
           /\ ~Member(Q, t)
           /\ \/ R = [Q EXCEPT ![q] = Links!Lists!AddThread(@, t)]
              \/ R = [Q EXCEPT ![q] = Links!Lists!AddThreadByPriority(@, t, prio)]
           /\ UNCHANGED prio
    \/ \E q \in Queue, t \in LinkThread :
           /\ \E i \in 1..Len(Q[q]) : Q[q][i] = t
           /\ R = [Q EXCEPT ![q] = Links!Lists!RemoveThread(@, t)]
           /\ UNCHANGED prio
    \/ prio' \in [LinkThread -> Priority] /\ R = Q

LEMMA InsertAtInserts ==
    ASSUME NEW s \in Seq(LinkThread), NEW t \in LinkThread, NEW i \in 1..Len(s) + 1
    PROVE  Inserted(Links!Lists!InsertAt(s, i, t), s, t, i)
<1> DEFINE r == Links!Lists!InsertAt(s, i, t)
<1>1. /\ r \in Seq(LinkThread) /\ Len(r) = Len(s) + 1
      /\ \A j \in 1..Len(s) + 1 :
             r[j] = IF j < i THEN s[j] ELSE IF j = i THEN t ELSE s[j - 1]
    BY InsertAtElements
<1> HIDE DEF r
<1>2. Inserted(r, s, t, i)
    BY <1>1 DEF Inserted
<1> QED
    BY <1>2 DEF r

LEMMA RemoveSteps ==
    ASSUME LinkTypes, NEW Q, Spells(Q), NEW q \in Queue, NEW t \in LinkThread,
           Links!removeThread(q, t)
    PROVE  \E R : LinkTypes' /\ Spells(R)' /\ ListStep(Q, R)
<1> DEFINE s == Q[q]
           k == CHOOSE i \in 1..Len(s) : s[i] = t
           r == Links!Lists!RemoveAt(s, k)
<1>1. \E i \in 1..Len(s) : s[i] = t
    <2>1. t \in Links!ToSet(s)
        BY SpellsForward DEF Links!removeThread
    <2> QED
        BY <2>1, Ends DEF Links!ToSet
<1>2. k \in 1..Len(s) /\ s[k] = t
    BY <1>1
<1>3. Links!Lists!RemoveThread(s, t) = r
    BY <1>1 DEF Links!Lists!RemoveThread
<1> HIDE DEF k
<1>4. Removed(r, s, k)
    <2>1. s \in Seq(LinkThread)
        BY Ends
    <2> HIDE DEF s
    <2> QED
        BY <1>2, <2>1, RemoveAtElements DEF Removed
<1>5. Links!removeThread(q, s[k])
    BY <1>2
<1> HIDE DEF r
<1>6. LinkTypes' /\ Spells([Q EXCEPT ![q] = r])'
    BY <1>2, <1>4, <1>5, TakeOutSpells
<1>7. prio' = prio
    BY DEF Links!removeThread
<1>8. ListStep(Q, [Q EXCEPT ![q] = r])
    BY <1>1, <1>3, <1>7 DEF ListStep
<1> QED
    BY <1>6, <1>8

LEMMA LinkStep ==
    ASSUME LinkTypes, NEW Q, Spells(Q), [Links!Next]_(Links!vars)
    PROVE  \E R : LinkTypes' /\ Spells(R)' /\ ListStep(Q, R)
<1>1. ASSUME NEW q \in Queue, NEW t \in LinkThread, Links!addThread(q, t)
      PROVE  \E R : LinkTypes' /\ Spells(R)' /\ ListStep(Q, R)
    <2> DEFINE r == Append(Q[q], t)
    <2>1. ~Member(Q, t) /\ Links!InsertAfterTail(q, t) /\ prio' = prio
        BY <1>1, MemberLinked DEF Links!addThread
    <2>2. Inserted(r, Q[q], t, Len(Q[q]) + 1)
        BY Ends DEF Inserted
    <2>3. Links!Lists!AddThread(Q[q], t) = r
        BY DEF Links!Lists!AddThread
    <2> HIDE DEF r
    <2>4. LinkTypes' /\ Spells([Q EXCEPT ![q] = r])'
        BY <2>1, <2>2, AppendSpells
    <2>5. ListStep(Q, [Q EXCEPT ![q] = r])
        BY <2>1, <2>3 DEF ListStep
    <2> QED
        BY <2>4, <2>5
<1>2. ASSUME NEW q \in Queue, NEW t \in LinkThread, Links!addThreadByPriority(q, t)
      PROVE  \E R : LinkTypes' /\ Spells(R)' /\ ListStep(Q, R)
    <2>1. ~Member(Q, t) /\ prio' = prio
        BY <1>2, MemberLinked DEF Links!addThreadByPriority
    <2>2. Q[q] \in Seq(LinkThread) /\ Len(Q[q]) \in Nat
        BY Ends
    <2>3. PICK k : k = LastUrgent(Q[q], t, Len(Q[q])) + 1
        OBVIOUS
    <2>4. PICK r : r = Links!Lists!InsertAt(Q[q], k, t)
        OBVIOUS
    <2>5. k \in 1..Len(Q[q]) + 1 /\ Links!Lists!InsertPosition(Q[q], t, prio) = k
        BY <2>2, <2>3, UrgentPosition
    <2>6. Links!Lists!AddThreadByPriority(Q[q], t, prio) = r
        BY <2>4, <2>5 DEF Links!Lists!AddThreadByPriority
    <2>7. Inserted(r, Q[q], t, k)
        BY <2>2, <2>4, <2>5, InsertAtInserts
    <2>8. LinkTypes' /\ Spells([Q EXCEPT ![q] = r])'
        BY <1>2, <2>1, <2>3, <2>7, PutInSpells
    <2>9. ListStep(Q, [Q EXCEPT ![q] = r])
        BY <2>1, <2>6 DEF ListStep
    <2> QED
        BY <2>8, <2>9
<1>3. ASSUME NEW q \in Queue, Links!takeFirstFromQueue(q)
      PROVE  \E R : LinkTypes' /\ Spells(R)' /\ ListStep(Q, R)
    <2>1. head[q] \in LinkThread /\ Links!removeThread(q, head[q])
        BY <1>3 DEF Links!takeFirstFromQueue, LinkTypes
    <2> QED
        BY <2>1, RemoveSteps
<1>4. ASSUME NEW t \in LinkThread, NEW p \in Priority, Links!OSSetThreadPriority(t, p)
      PROVE  \E R : LinkTypes' /\ Spells(R)' /\ ListStep(Q, R)
    BY <1>4 DEF Links!OSSetThreadPriority, Links!links, LinkTypes, Spells, Member, ListStep
<1>5. ASSUME UNCHANGED Links!vars
      PROVE  \E R : LinkTypes' /\ Spells(R)' /\ ListStep(Q, R)
    BY <1>5 DEF Links!vars, LinkTypes, Spells, Member, ListStep
<1> QED
    BY <1>1, <1>2, <1>3, <1>4, <1>5, RemoveSteps DEF Links!Next

LEMMA LinkInit == Links!Init => LinkInv /\ Spelled = [q \in Queue |-> <<>>]
<1> SUFFICES ASSUME Links!Init PROVE LinkInv /\ Spelled = [q \in Queue |-> <<>>]
    OBVIOUS
<1> DEFINE Q == [q \in Queue |-> <<>>]
<1>1. LinkTypes
    BY DEF Links!Init, LinkTypes
<1>2. Spells(Q)
    BY DEF Links!Init, Spells, Member, Behind, Ahead
<1>3. Spelled = Q
    BY <1>2, SpelledIs
<1> QED
    BY <1>1, <1>2, <1>3 DEF LinkInv

LEMMA LinkInvStep ==
    LinkInv /\ [Links!Next]_(Links!vars) => LinkInv' /\ ListStep(Spelled, Spelled')
<1> SUFFICES ASSUME LinkInv, [Links!Next]_(Links!vars)
             PROVE  LinkInv' /\ ListStep(Spelled, Spelled')
    OBVIOUS
<1>1. PICK R : LinkTypes' /\ Spells(R)' /\ ListStep(Spelled, R)
    BY LinkStep DEF LinkInv
<1>2. Spelled' = R
    BY <1>1, SpelledNext
<1>3. Spells(Spelled)'
    BY <1>1, <1>2 DEF Spells, Member
<1> QED
    BY <1>1, <1>2, <1>3 DEF LinkInv

\* The lists can be read in both directions after every operation on them, and
\* a thread that is in no queue keeps no neighbour (queueAndWait and
\* _debugCheckChain assert it), for any queues, threads and priorities.
THEOREM ListsReadBothWays == Links!Spec => []LinksAgree
<1>1. LinkInv => LinksAgree
    BY SpellsAgree DEF LinkInv
<1> QED
    BY <1>1, LinkInit, LinkInvStep, PTL DEF Links!Spec

\* The linked lists implement queues of threads: addThread appends,
\* addThreadByPriority inserts behind the last thread that is as urgent,
\* removeThread and takeFirstFromQueue take one thread out and keep the order
\* of the others.
THEOREM LinksAreLists == Links!Spec => ListsSpec
<1>1. Links!Init => Links!Lists!Init
    BY LinkInit DEF Links!Lists!Init, Links!Init, Spelled
<1>2. LinkInv /\ [Links!Next]_(Links!vars)
          => [Links!Lists!Next]_<<[q \in Queue |-> Links!Forward(q)], prio>>
    <2> SUFFICES ASSUME LinkInv, [Links!Next]_(Links!vars)
                 PROVE  [Links!Lists!Next]_<<[q \in Queue |-> Links!Forward(q)], prio>>
        OBVIOUS
    <2>1. ListStep(Spelled, Spelled')
        BY LinkInvStep
    <2>2. ASSUME NEW q \in Queue, NEW t \in LinkThread, ~Member(Spelled, t), UNCHANGED prio,
                 \/ Spelled' = [Spelled EXCEPT ![q] = Links!Lists!AddThread(@, t)]
                 \/ Spelled' = [Spelled EXCEPT ![q] = Links!Lists!AddThreadByPriority(@, t, prio)]
          PROVE  Links!Lists!Add(q, t)
        <3>1. \A r \in Queue : ~Links!Lists!In(t, r)
            BY <2>2 DEF Member, Links!Lists!In, Spelled
        <3> QED
            BY <2>2, <3>1 DEF Links!Lists!Add, Spelled
    <2>3. ASSUME NEW q \in Queue, NEW t \in LinkThread, UNCHANGED prio,
                 \E i \in 1..Len(Spelled[q]) : Spelled[q][i] = t,
                 Spelled' = [Spelled EXCEPT ![q] = Links!Lists!RemoveThread(@, t)]
          PROVE  Links!Lists!TakeOut(q, t)
        <3>1. Links!Lists!In(t, q)
            BY <2>3 DEF Links!Lists!In, Spelled
        <3> QED
            BY <2>3, <3>1 DEF Links!Lists!TakeOut, Spelled
    <2>4. ASSUME prio' \in [LinkThread -> Priority], Spelled' = Spelled
          PROVE  Links!Lists!SetPriority
        BY <2>4 DEF Links!Lists!SetPriority, Spelled
    <2>5. Links!Lists!Next
        BY <2>1, <2>2, <2>3, <2>4 DEF ListStep, Links!Lists!Next
    <2> QED
        BY <2>5
<1> QED
    BY <1>1, <1>2, LinkInit, LinkInvStep, PTL DEF Links!Spec, ListsSpec, Links!ListsSpec, Links!Lists!Spec
=============================================================================
