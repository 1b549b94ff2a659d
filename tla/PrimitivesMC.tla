---------------------------- MODULE PrimitivesMC ----------------------------
(***************************************************************************)
(* Small instances for TLC of four components that share no state: the     *)
(* events, the linked lists, the semaphores and the alarms.  A behaviour   *)
(* is one of the component that is picked at its start.                    *)
(***************************************************************************)
EXTENDS Event, Integers, FiniteSets

CONSTANTS
    LinkThread, Queue, Priority, Null,
    SemaphoreThread, MaxCount,
    Owed,           \* the units a semaphore is short of at its start
    Alarm, AlarmThread, AlarmEvent, Delay, Period, MaxTime, Width, NoHost, NoTime

ASSUME LinkAssumption ==
    IsFiniteSet(LinkThread) /\ Null \notin LinkThread /\ Priority \subseteq Int

\* The times of the alarms: none comes near the width of the clock.
ASSUME AlarmAssumption ==
    /\ MaxTime \in Nat /\ Delay \subseteq Nat /\ Period \subseteq Nat \ {0}
    /\ \A p \in Period : MaxTime + 1 + p < 2^Width
    /\ 2^Width \in Nat /\ MaxTime + 1 < 2^Width
    /\ NoHost \notin [listed : BOOLEAN, fire : Nat] /\ NoTime \notin Nat

VARIABLES
    picked,
    head, tail, next, prev, prio,
    count, semaphoreQueue, semaphoreWaiting,
    now, nextTime, period, host, orphans, updateTick,
    eventSignaled, eventWaiting, eventOutcome, thread, calling

Links == INSTANCE ThreadLinks WITH Thread <- LinkThread

Semaphores == INSTANCE Semaphore WITH
    Thread <- SemaphoreThread, InitialCount <- -Owed,
    threadQueue <- semaphoreQueue, waiting <- semaphoreWaiting

Alarms == INSTANCE Alarm

linkVars == <<head, tail, next, prev, prio>>
semaphoreVars == <<count, semaphoreQueue, semaphoreWaiting>>
alarmVars == <<now, nextTime, period, host, orphans, updateTick, eventSignaled,
               eventWaiting, eventOutcome, thread, calling>>
all == <<picked, vars, linkVars, semaphoreVars, alarmVars>>

AnyInit ==
    /\ picked \in {"events", "links", "semaphores", "alarms"}
    /\ Init /\ Links!Init /\ Semaphores!Init /\ Alarms!Init
    /\ picked # "events" => signaled = [e \in Event |-> FALSE]
    /\ picked # "links" => prio = [t \in LinkThread |-> CHOOSE p \in Priority : TRUE]

AnyNext ==
    /\ UNCHANGED picked
    /\ \/ /\ picked = "events" /\ Next
          /\ UNCHANGED <<linkVars, semaphoreVars, alarmVars>>
       \/ /\ picked = "links" /\ Links!Next
          /\ UNCHANGED <<vars, semaphoreVars, alarmVars>>
       \/ /\ picked = "semaphores" /\ Semaphores!Next
          /\ UNCHANGED <<vars, linkVars, alarmVars>>
       \/ /\ picked = "alarms" /\ Alarms!Next
          /\ UNCHANGED <<vars, linkVars, semaphoreVars>>

\* The fairness of the events and of the alarms.
AnyFairSpec ==
    /\ AnyInit /\ [][AnyNext]_all
    /\ \A t \in Thread :
          /\ WF_vars(picked = "events" /\ WaitReturns(t))
          /\ WF_vars(picked = "events" /\ AlarmFires(t))
    /\ WF_alarmVars(picked = "alarms" /\ Alarms!UpdateReads)
    /\ WF_alarmVars(picked = "alarms" /\ Alarms!UpdateRuns)
    /\ WF_alarmVars(picked = "alarms" /\ Alarms!AlarmThreadStep)
-----------------------------------------------------------------------------
\* The linked lists of ThreadLinks: see LinksAgree and ListsSpec there.
LinksAgree == Links!LinksAgree

ListsSpec == Links!ListsSpec

\* The semaphores: no thread sleeps while there are units.
NobodySleepsBesideUnits == Semaphores!NobodySleepsBesideUnits

\* The alarms: an expired alarm is looked at again; and every callback is that
\* of an alarm taken when it was due, whatever is set or cancelled before the
\* callback runs.
ExpiredAlarmsAreSeen == Alarms!ExpiredAlarmsAreSeen

ClockSpec == Alarms!ClockSpec
=============================================================================
