-------------------------------- MODULE Alarm --------------------------------
(***************************************************************************)
(* The alarms of the guest (coreinit_Alarm.cpp).  Each alarm that is set   *)
(* has a host alarm in a list ordered by time, which the main core looks   *)
(* through when time has passed; a host alarm that expires signals an      *)
(* event, and the alarm thread that waits for it looks for itself which    *)
(* alarms are due.  Everything but reading the clock and the callbacks is  *)
(* under the scheduler lock.  The event is the gate that Primitives_proofs *)
(* shows an OSEvent to be.                                                 *)
(*                                                                         *)
(* Left out: what updateAlarms reads when its loop has emptied the list,   *)
(* the host alarms of sleeping threads, which Scheduler and Event have,    *)
(* and OSAlarm_Shutdown, which runs when the cores have stopped.           *)
(***************************************************************************)
EXTENDS Integers

CONSTANTS
    Alarm,
    AlarmThread, AlarmEvent,    \* g_alarmThread, g_alarmEvent
    Delay, Period,              \* the times the guest gives, in ticks
    MaxTime,                    \* bound on the clock
    Width,                      \* times are below 2^Width
    NoHost, NoTime

VARIABLES
    now,                        \* OSGetTime
    nextTime, period,           \* the fields of each OSAlarm_t
    host,                       \* g_activeAlarms
    orphans,                    \* fire times of listed host alarms that it has lost
    updateTick,                 \* what alarm_update of the main core has read
    eventSignaled, eventWaiting, eventOutcome,
    thread,                     \* where the alarm thread is
    calling                     \* the alarm it is to call, none or one
                                \* (alarm of _OSAlarmThread)

eventVars == <<eventSignaled, eventWaiting, eventOutcome>>
vars == <<now, nextTime, period, host, orphans, updateTick, eventVars, thread, calling>>

alarmEvent == INSTANCE Gate WITH
    Thread <- {AlarmThread}, Event <- {AlarmEvent}, Manual <- {},
    signaled <- eventSignaled, waiting <- eventWaiting, outcome <- eventOutcome

\* OSSignalEventInternal
Signal == IF eventSignaled[AlarmEvent] THEN UNCHANGED eventVars
          ELSE alarmEvent!Signal(AlarmEvent, FALSE)

Init ==
    /\ now = 0
    /\ nextTime = [a \in Alarm |-> 0] /\ period = [a \in Alarm |-> 0]
    /\ host = [a \in Alarm |-> NoHost] /\ orphans = {}
    /\ updateTick = NoTime
    /\ alarmEvent!Init /\ eventSignaled = [e \in {AlarmEvent} |-> FALSE]
    /\ thread = [at |-> "wait", tick |-> 0] /\ calling = {}

Tick ==
    /\ now < MaxTime
    /\ now' = now + 1
    /\ UNCHANGED <<nextTime, period, host, orphans, updateTick, eventVars, thread, calling>>
-----------------------------------------------------------------------------
\* __OSInitiateAlarm; a host alarm the alarm had before is destroyed.
Initiate(a, time, p) ==
    /\ nextTime' = [nextTime EXCEPT ![a] = time]
    /\ period' = [period EXCEPT ![a] = p]
    /\ host' = [host EXCEPT ![a] = [listed |-> TRUE, fire |-> time]]
    /\ UNCHANGED <<now, orphans, updateTick, eventVars, thread, calling>>

OSSetAlarm(a) == \E delay \in Delay : Initiate(a, now + delay, 0)

\* The periods are counted in 64 bits without a sign: a start in the future
\* wraps around, and the alarm does not wait for it.
NextFire(start, p) ==
    LET ticksSinceStart == (now - start) % 2^Width
        numPeriods == ticksSinceStart \div p
    IN  (start + (numPeriods + 1) * p) % 2^Width

OSSetPeriodicAlarm(a) ==
    \E p \in Period : \E time \in {NextFire(start, p) : start \in 0..MaxTime + 1} :
        Initiate(a, time, p)

OSCancelAlarm(a) ==
    /\ host[a] # NoHost
    /\ host' = [host EXCEPT ![a] = NoHost]
    /\ UNCHANGED <<now, nextTime, period, orphans, updateTick, eventVars, thread, calling>>
-----------------------------------------------------------------------------
Listed == {a \in Alarm : host[a] # NoHost /\ host[a].listed}
Soonest == {host[a].fire : a \in Listed} \cup orphans

\* alarm_update reads the clock, and g_soonestAlarm without the lock.
UpdateReads ==
    /\ updateTick = NoTime
    /\ \E time \in Soonest : now >= time
    /\ updateTick' = now
    /\ UNCHANGED <<now, nextTime, period, host, orphans, eventVars, thread, calling>>

\* Mutant: a periodic host alarm is not put back.
ExpiredOnce(h, p) == [h EXCEPT !.listed = FALSE]

\* A host alarm that has expired, after the loop of updateAlarms; a periodic
\* one was put back until its time is to come.
Expired(h, p) ==
    IF p = 0 THEN [h EXCEPT !.listed = FALSE]
    ELSE [h EXCEPT !.fire = @ + ((updateTick - @) \div p + 1) * p]

UpdateRuns ==
    LET expired == {a \in Listed : updateTick >= host[a].fire}
        late == {time \in orphans : updateTick >= time}
    IN  /\ updateTick # NoTime
        /\ host' = [a \in Alarm |->
                       IF a \in expired THEN Expired(host[a], period[a]) ELSE host[a]]
        /\ orphans' = orphans \ late
        /\ IF expired \cup late # {} THEN Signal ELSE UNCHANGED eventVars
        /\ updateTick' = NoTime
        /\ UNCHANGED <<now, nextTime, period, thread, calling>>
-----------------------------------------------------------------------------
(* _OSAlarmThread.                                                         *)

AlarmThreadWaits ==
    /\ thread.at = "wait" /\ eventWaiting[AlarmEvent] = {}
    /\ \/ /\ alarmEvent!Pass(AlarmThread, AlarmEvent)
          /\ thread' = [thread EXCEPT !.at = "woken"]
       \/ /\ alarmEvent!Wait(AlarmThread, AlarmEvent)
          /\ thread' = [thread EXCEPT !.at = "asleep"]
    /\ UNCHANGED <<now, nextTime, period, host, orphans, updateTick, calling>>

\* The clock is read once for all alarms of a pass.
AlarmThreadReads ==
    /\ thread.at = "woken" \/ (thread.at = "asleep" /\ eventWaiting[AlarmEvent] = {})
    /\ thread' = [at |-> "look", tick |-> now]
    /\ UNCHANGED <<now, nextTime, period, host, orphans, updateTick, eventVars, calling>>

\* An alarm is taken whether or not its host alarm has expired; if it has not,
\* it stays in the list without its alarm.
AlarmThreadTakes(a) ==
    /\ thread.at = "look" /\ host[a] # NoHost /\ thread.tick >= nextTime[a]
    /\ IF period[a] = 0
       THEN /\ host' = [host EXCEPT ![a] = NoHost]
            /\ orphans' = IF host[a].listed THEN orphans \cup {host[a].fire} ELSE orphans
            /\ UNCHANGED nextTime
       ELSE /\ nextTime' = [nextTime EXCEPT ![a] = @ + period[a]]
            /\ UNCHANGED <<host, orphans>>
    /\ thread' = [thread EXCEPT !.at = "call"] /\ calling' = {a}
    /\ UNCHANGED <<now, period, updateTick, eventVars>>

\* The callback runs and returns.  The lock is free since the alarm was taken:
\* it may have been cancelled or set anew in between, and is called all the same.
AlarmThreadCalls ==
    /\ thread.at = "call"
    /\ thread' = [thread EXCEPT !.at = "look"] /\ calling' = {}
    /\ UNCHANGED <<now, nextTime, period, host, orphans, updateTick, eventVars>>

\* Mutant: the event is reset when no alarm is due any more.
AlarmThreadEndsPassResets ==
    /\ thread.at = "look"
    /\ \A a \in Alarm : host[a] # NoHost => thread.tick < nextTime[a]
    /\ thread' = [at |-> "wait", tick |-> 0]
    /\ alarmEvent!Reset(AlarmEvent)
    /\ UNCHANGED <<now, nextTime, period, host, orphans, updateTick, calling>>

AlarmThreadEndsPass ==
    /\ thread.at = "look"
    /\ \A a \in Alarm : host[a] # NoHost => thread.tick < nextTime[a]
    /\ thread' = [at |-> "wait", tick |-> 0]
    /\ UNCHANGED <<now, nextTime, period, host, orphans, updateTick, eventVars, calling>>
-----------------------------------------------------------------------------
AlarmThreadStep ==
    \/ AlarmThreadWaits \/ AlarmThreadReads \/ AlarmThreadCalls \/ AlarmThreadEndsPass
    \/ \E a \in Alarm : AlarmThreadTakes(a)

Next ==
    \/ Tick
    \/ \E a \in Alarm : OSSetAlarm(a) \/ OSSetPeriodicAlarm(a) \/ OSCancelAlarm(a)
    \/ UpdateReads \/ UpdateRuns
    \/ AlarmThreadStep

Spec == Init /\ [][Next]_vars

\* The main core looks at the alarms again and again, and the alarm thread has
\* the highest priority.
Fairness == WF_vars(UpdateReads) /\ WF_vars(UpdateRuns) /\ WF_vars(AlarmThreadStep)

FairSpec == Spec /\ Fairness
-----------------------------------------------------------------------------
\* An alarm whose host alarm has expired, though the thread looks with a clock
\* it read before that, will be looked at again.
ExpiredAlarmsAreSeen ==
    \A a \in Alarm :
        host[a] # NoHost /\ (~host[a].listed \/ host[a].fire > nextTime[a]) =>
            \/ eventSignaled[AlarmEvent]
            \/ thread.at = "woken" \/ (thread.at = "asleep" /\ eventWaiting[AlarmEvent] = {})
            \/ thread.at \in {"look", "call"} /\ thread.tick >= nextTime[a]

\* The list of host alarms, the event and the thread make an alarm clock: every
\* callback is that of an alarm that was due when the thread took it, and a
\* cancel between take and callback, which the lock does not cover, stops none.
Clock == INSTANCE AlarmClock WITH
    due <- [a \in Alarm |-> IF host[a] = NoHost THEN NoTime ELSE nextTime[a]],
    again <- period

ClockSpec == Clock!Spec
=============================================================================
