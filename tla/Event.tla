------------------------------- MODULE Event -------------------------------
(***************************************************************************)
(* OSEvent (coreinit_Synchronization.cpp) with the timeouts of             *)
(* OSWaitEventWithTimeout.  All of it runs under the scheduler lock: what  *)
(* a call does up to its wait or return is one action, what a woken wait   *)
(* does before it returns another.  The host alarm of a timed wait fires   *)
(* on the main core at any time between its creation and its destruction,  *)
(* also after the wait was signaled and before the thread runs again.      *)
(*                                                                         *)
(* Any waiting thread may be the one woken, because the order of a wait    *)
(* queue depends on changing priorities.                                   *)
(***************************************************************************)
CONSTANTS
    Thread, Event,
    Manual,     \* the events in MODE_MANUAL; the others are in MODE_AUTO
    NoEvent

ASSUME EventAssumption == Manual \subseteq Event /\ NoEvent \notin Event

VARIABLES
    signaled,       \* OSEvent::state is STATE_SIGNALED
    threadQueue,    \* the threads in the wait queue of an event
    alarm,          \* the event an active host alarm of a thread is for
    call,           \* the wait a thread is in
    result          \* what the last wait of a thread returned

vars == <<signaled, threadQueue, alarm, call, result>>

NoCall == [op |-> "none"]
Waiting(e) == [op |-> "wait", event |-> e]
\* In the same call with hasTimeout set in its WaitEventWithTimeoutData.
TimedOut(e) == [op |-> "timedOut", event |-> e]
Call == {NoCall} \cup [op : {"wait", "timedOut"}, event : Event]

\* OSInitEvent
Init ==
    /\ signaled \in [Event -> BOOLEAN]
    /\ threadQueue = [e \in Event |-> {}]
    /\ alarm = [t \in Thread |-> NoEvent]
    /\ call = [t \in Thread |-> NoCall]
    /\ result = [t \in Thread |-> "none"]
-----------------------------------------------------------------------------
OSResetEvent(e) ==
    /\ signaled' = [signaled EXCEPT ![e] = FALSE]
    /\ UNCHANGED <<threadQueue, alarm, call, result>>

PassSignaled(t, e) ==
    /\ signaled[e]
    /\ signaled' = [signaled EXCEPT ![e] = e \in Manual]
    /\ result' = [result EXCEPT ![t] = "passed"]
    /\ UNCHANGED <<threadQueue, alarm, call>>

EnterQueue(t, e) ==
    /\ ~signaled[e]
    /\ threadQueue' = [threadQueue EXCEPT ![e] = @ \cup {t}]
    /\ call' = [call EXCEPT ![t] = Waiting(e)]
    /\ UNCHANGED <<signaled, result>>

OSWaitEvent(t, e) ==
    /\ call[t] = NoCall
    /\ PassSignaled(t, e) \/ (EnterQueue(t, e) /\ UNCHANGED alarm)

\* With a timeout of zero it fails at once.
OSWaitEventWithTimeout(t, e, zero) ==
    /\ call[t] = NoCall
    /\ \/ PassSignaled(t, e)
       \/ /\ zero /\ ~signaled[e]
          /\ result' = [result EXCEPT ![t] = "timeout"]
          /\ UNCHANGED <<signaled, threadQueue, alarm, call>>
       \/ /\ ~zero /\ EnterQueue(t, e)
          /\ alarm' = [alarm EXCEPT ![t] = e]

Woken(t) == call[t] # NoCall /\ t \notin threadQueue[call[t].event]

\* A woken thread destroys its host alarm and returns.
WaitReturns(t) ==
    /\ Woken(t)
    /\ alarm' = [alarm EXCEPT ![t] = NoEvent]
    /\ result' = [result EXCEPT ![t] =
                     IF call[t].op = "timedOut" THEN "timeout" ELSE "passed"]
    /\ call' = [call EXCEPT ![t] = NoCall]
    /\ UNCHANGED <<signaled, threadQueue>>

\* Mutant: whether the thread still waits is not checked.
AlarmFiresUnchecked(t) ==
    /\ alarm[t] # NoEvent
    /\ call' = [call EXCEPT ![t].op = "timedOut"]
    /\ threadQueue' = [threadQueue EXCEPT ![alarm[t]] = @ \ {t}]
    /\ alarm' = [alarm EXCEPT ![t] = NoEvent]
    /\ UNCHANGED <<signaled, result>>

\* Mutant: the thread stays linked in the queue.
AlarmFiresLinked(t) ==
    /\ alarm[t] # NoEvent
    /\ IF \E e \in Event : t \in threadQueue[e]
       THEN call' = [call EXCEPT ![t].op = "timedOut"]
       ELSE UNCHANGED call
    /\ alarm' = [alarm EXCEPT ![t] = NoEvent]
    /\ UNCHANGED <<signaled, threadQueue, result>>

\* _OSWaitEventWithTimeoutHandler: a thread that waits, whatever it waits for,
\* is taken out of the queue its alarm is for.
AlarmFires(t) ==
    /\ alarm[t] # NoEvent
    /\ IF \E e \in Event : t \in threadQueue[e]
       THEN /\ call' = [call EXCEPT ![t].op = "timedOut"]
            /\ threadQueue' = [threadQueue EXCEPT ![alarm[t]] = @ \ {t}]
       ELSE UNCHANGED <<call, threadQueue>>
    /\ alarm' = [alarm EXCEPT ![t] = NoEvent]
    /\ UNCHANGED <<signaled, result>>
-----------------------------------------------------------------------------
\* Mutant: an automatic event is set even if the signal woke a thread.
OSSignalEventSets(e, all) ==
    /\ ~signaled[e]
    /\ signaled' = [signaled EXCEPT ![e] = TRUE]
    /\ IF all \/ e \in Manual \/ threadQueue[e] = {}
       THEN threadQueue' = [threadQueue EXCEPT ![e] = {}]
       ELSE \E t \in threadQueue[e] : threadQueue' = [threadQueue EXCEPT ![e] = @ \ {t}]
    /\ UNCHANGED <<alarm, call, result>>

\* OSSignalEvent, and OSSignalEventAll if `all'; a set event stays as it is.
OSSignalEvent(e, all) ==
    /\ ~signaled[e]
    /\ signaled' = [signaled EXCEPT ![e] = e \in Manual \/ threadQueue[e] = {}]
    /\ IF all \/ e \in Manual \/ threadQueue[e] = {}
       THEN threadQueue' = [threadQueue EXCEPT ![e] = {}]
       ELSE \E t \in threadQueue[e] : threadQueue' = [threadQueue EXCEPT ![e] = @ \ {t}]
    /\ UNCHANGED <<alarm, call, result>>
-----------------------------------------------------------------------------
Next ==
    \/ \E e \in Event :
        \/ OSResetEvent(e)
        \/ \E all \in BOOLEAN : OSSignalEvent(e, all)
        \/ \E t \in Thread : \/ OSWaitEvent(t, e)
                             \/ \E zero \in BOOLEAN : OSWaitEventWithTimeout(t, e, zero)
    \/ \E t \in Thread : WaitReturns(t) \/ AlarmFires(t)

Spec == Init /\ [][Next]_vars

\* A woken thread is scheduled in the end, and time passes.
Fairness == \A t \in Thread : WF_vars(WaitReturns(t)) /\ WF_vars(AlarmFires(t))

FairSpec == Spec /\ Fairness
-----------------------------------------------------------------------------
\* A wait queue holds only threads that wait for its event and have not timed
\* out.
TypeOK ==
    /\ signaled \in [Event -> BOOLEAN]
    /\ threadQueue \in [Event -> SUBSET Thread]
    /\ alarm \in [Thread -> Event \cup {NoEvent}]
    /\ call \in [Thread -> Call]
    /\ result \in [Thread -> {"none", "passed", "timeout"}]
    /\ \A e \in Event, t \in Thread : t \in threadQueue[e] => call[t] = Waiting(e)

\* No thread waits for an event that is set.
NobodyWaitsForASetEvent == \A e \in Event : signaled[e] => threadQueue[e] = {}

\* A host alarm belongs to the wait its thread is in: none is left over that
\* could end a later wait or take the thread out of a queue it is not in.
AlarmsBelongToTheWait ==
    \A t \in Thread : alarm[t] # NoEvent => call[t] = Waiting(alarm[t])

\* The event is a gate; how a wait ends is settled when the thread leaves the
\* queue, and a late alarm or signal does not change it.
Outcome == [t \in Thread |->
    IF call[t] = NoCall THEN result[t]
    ELSE IF ~Woken(t) THEN "none"
    ELSE IF call[t].op = "timedOut" THEN "timeout" ELSE "passed"]

Abstract == INSTANCE Gate WITH waiting <- threadQueue, outcome <- Outcome

GateSpec == Abstract!Spec

\* A wait with a timeout returns, signaled or not.
TimedWaitsReturn ==
    \A t \in Thread : alarm[t] # NoEvent ~> call[t] = NoCall
=============================================================================
