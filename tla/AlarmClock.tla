----------------------------- MODULE AlarmClock -----------------------------
(***************************************************************************)
(* What the alarms of the guest promise.  An alarm is taken when its time  *)
(* has come, not before and not for ever later, once or again after every  *)
(* period, unless it is cancelled or set anew before; and what was taken   *)
(* is called, once.  A cancel does not stop the callback of an alarm that  *)
(* was taken already, and one that was set anew since is called early.     *)
(***************************************************************************)
EXTENDS Naturals

CONSTANTS Alarm, NoTime, MaxTime

VARIABLES
    now,
    due,        \* the time of an alarm that is set
    again,      \* its period, zero for an alarm that is called once
    calling     \* the alarms taken whose callbacks have not run

Init ==
    /\ now = 0
    /\ due = [a \in Alarm |-> NoTime] /\ again = [a \in Alarm |-> 0]
    /\ calling = {}

Tick == now < MaxTime /\ now' = now + 1 /\ UNCHANGED <<due, again, calling>>

\* A periodic alarm comes within its period.
Set(a, time, period) ==
    /\ period > 0 => now < time /\ time <= now + period
    /\ due' = [due EXCEPT ![a] = time] /\ again' = [again EXCEPT ![a] = period]
    /\ UNCHANGED <<now, calling>>

Cancel(a) == due' = [due EXCEPT ![a] = NoTime] /\ UNCHANGED <<now, again, calling>>

Take(a) ==
    /\ due[a] # NoTime /\ due[a] <= now /\ a \notin calling
    /\ due' = [due EXCEPT ![a] = IF again[a] = 0 THEN NoTime ELSE @ + again[a]]
    /\ calling' = calling \cup {a}
    /\ UNCHANGED <<now, again>>

Call(a) == a \in calling /\ calling' = calling \ {a} /\ UNCHANGED <<now, due, again>>

Next ==
    \/ Tick
    \/ \E a \in Alarm :
        \/ \E time \in 0..2 * MaxTime, period \in 0..MaxTime : Set(a, time, period)
        \/ Cancel(a) \/ Take(a) \/ Call(a)

vars == <<now, due, again, calling>>

Spec ==
    /\ Init /\ [][Next]_vars
    /\ \A a \in Alarm : WF_vars(Take(a)) /\ WF_vars(Call(a))
=============================================================================
