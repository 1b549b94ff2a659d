-------------------------------- MODULE Gate --------------------------------
(***************************************************************************)
(* What an OSEvent promises.  A wait passes or times out, never both; a    *)
(* signal of an automatic event lets one wait pass, now or later, and a    *)
(* wait that timed out has not used one up; a manual event stays open.     *)
(***************************************************************************)
CONSTANTS Thread, Event, Manual

VARIABLES
    signaled,
    waiting,    \* the threads that wait for an event
    outcome     \* how the last wait of a thread ended

Outcome == {"none", "passed", "timeout"}

Init ==
    /\ signaled \in [Event -> BOOLEAN]
    /\ waiting = [e \in Event |-> {}]
    /\ outcome = [t \in Thread |-> "none"]

Reset(e) ==
    /\ signaled' = [signaled EXCEPT ![e] = FALSE]
    /\ UNCHANGED <<waiting, outcome>>

Pass(t, e) ==
    /\ signaled[e]
    /\ signaled' = [signaled EXCEPT ![e] = e \in Manual]
    /\ outcome' = [outcome EXCEPT ![t] = "passed"]
    /\ UNCHANGED waiting

Wait(t, e) ==
    /\ ~signaled[e]
    /\ waiting' = [waiting EXCEPT ![e] = @ \cup {t}]
    /\ outcome' = [outcome EXCEPT ![t] = "none"]
    /\ UNCHANGED signaled

Poll(t, e) ==
    /\ ~signaled[e]
    /\ outcome' = [outcome EXCEPT ![t] = "timeout"]
    /\ UNCHANGED <<signaled, waiting>>

\* The threads of the set pass through the closed event e.
LetPass(e, threads) ==
    /\ waiting' = [waiting EXCEPT ![e] = @ \ threads]
    /\ outcome' = [t \in Thread |-> IF t \in threads THEN "passed" ELSE outcome[t]]

Signal(e, all) ==
    /\ ~signaled[e]
    /\ signaled' = [signaled EXCEPT ![e] = e \in Manual \/ waiting[e] = {}]
    /\ IF all \/ e \in Manual \/ waiting[e] = {}
       THEN LetPass(e, waiting[e])
       ELSE \E t \in waiting[e] : LetPass(e, {t})

Timeout(t, e) ==
    /\ t \in waiting[e]
    /\ waiting' = [waiting EXCEPT ![e] = @ \ {t}]
    /\ outcome' = [outcome EXCEPT ![t] = "timeout"]
    /\ UNCHANGED signaled

Next ==
    \E e \in Event :
        \/ Reset(e)
        \/ \E all \in BOOLEAN : Signal(e, all)
        \/ \E t \in Thread : Pass(t, e) \/ Wait(t, e) \/ Poll(t, e) \/ Timeout(t, e)

Spec == Init /\ [][Next]_<<signaled, waiting, outcome>>
=============================================================================
