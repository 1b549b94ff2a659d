----------------------------- MODULE Rendezvous -----------------------------
(***************************************************************************)
(* OSRendezvous (coreinit_Synchronization.cpp).  The threads of all        *)
(* rendezvous wait for one automatic event, g_rendezvousEvent, and every   *)
(* arrival wakes all of them to look whether theirs is met.  The event may *)
(* stay signaled when nobody waited.                                       *)
(***************************************************************************)
CONSTANTS Thread, Core, Meeting

VARIABLES
    coreHit,        \* the cores that arrived at each OSRendezvous
    signaled,       \* state of g_rendezvousEvent
    threadQueue,    \* the threads in its wait queue
    call            \* the OSWaitRendezvous a thread is in

vars == <<coreHit, signaled, threadQueue, call>>

NoCall == [op |-> "none"]
Waiting(r, mask) == [op |-> "wait", rendezvous |-> r, coreMask |-> mask]
Call == {NoCall} \cup {Waiting(r, mask) : r \in Meeting, mask \in SUBSET Core}

Init ==
    /\ coreHit = [r \in Meeting |-> {}]
    /\ signaled = FALSE
    /\ threadQueue = {}
    /\ call = [t \in Thread |-> NoCall]

\* Who uses a rendezvous again must wait until nobody is in it: no guard here
\* demands it.
Empty(r) == \A t \in Thread : call[t] # NoCall => call[t].rendezvous # r

OSInitRendezvous(r) ==
    /\ coreHit' = [coreHit EXCEPT ![r] = {}]
    /\ UNCHANGED <<signaled, threadQueue, call>>

\* Mutant: the event is not reset before the wait.
MeetOrWaitKeepsSignal(t, r, mask, sig, q) ==
    \/ /\ mask \subseteq coreHit'[r]
       /\ call' = [call EXCEPT ![t] = NoCall]
       /\ signaled' = sig /\ threadQueue' = q
    \/ /\ ~(mask \subseteq coreHit'[r])
       /\ call' = [call EXCEPT ![t] = Waiting(r, mask)]
       /\ signaled' = sig /\ threadQueue' = q \cup {t}

\* The loop of OSWaitRendezvous, with the event in state sig and its queue q:
\* a signaled event is reset and the cores are looked at again.
MeetOrWait(t, r, mask, sig, q) ==
    \/ /\ mask \subseteq coreHit'[r]
       /\ call' = [call EXCEPT ![t] = NoCall]
       /\ signaled' = sig /\ threadQueue' = q
    \/ /\ ~(mask \subseteq coreHit'[r])
       /\ call' = [call EXCEPT ![t] = Waiting(r, mask)]
       /\ signaled' = FALSE /\ threadQueue' = q \cup {t}

\* Mutant: OSSignalEvent in the place of OSSignalEventAll.
OSWaitRendezvousWakesOne(t, c, r, mask) ==
    /\ call[t] = NoCall
    /\ coreHit' = [coreHit EXCEPT ![r] = @ \cup {c}]
    /\ IF signaled \/ threadQueue = {}
       THEN MeetOrWait(t, r, mask, TRUE, threadQueue)
       ELSE \E u \in threadQueue : MeetOrWait(t, r, mask, FALSE, threadQueue \ {u})

\* By thread t on core c.  OSSignalEventAllInternal does nothing to a signaled
\* event; if it wakes threads it may switch to one of them, and t goes on as a
\* woken thread does.
OSWaitRendezvous(t, c, r, mask) ==
    /\ call[t] = NoCall
    /\ coreHit' = [coreHit EXCEPT ![r] = @ \cup {c}]
    /\ \/ /\ signaled \/ threadQueue = {}
          /\ MeetOrWait(t, r, mask, TRUE, threadQueue)
       \/ /\ ~signaled /\ threadQueue # {}
          /\ \/ MeetOrWait(t, r, mask, FALSE, {})
             \/ /\ call' = [call EXCEPT ![t] = Waiting(r, mask)]
                /\ signaled' = FALSE /\ threadQueue' = {}

Woken(t) ==
    /\ call[t] # NoCall /\ t \notin threadQueue
    /\ UNCHANGED coreHit
    /\ MeetOrWait(t, call[t].rendezvous, call[t].coreMask, signaled, threadQueue)

Next ==
    \/ \E r \in Meeting : Empty(r) /\ OSInitRendezvous(r)
    \/ \E t \in Thread, c \in Core, r \in Meeting, mask \in SUBSET Core :
           OSWaitRendezvous(t, c, r, mask)
    \/ \E t \in Thread : Woken(t)

Spec == Init /\ [][Next]_vars
-----------------------------------------------------------------------------
\* Only threads that wait for a rendezvous are in the queue of the event.
TypeOK ==
    /\ coreHit \in [Meeting -> SUBSET Core]
    /\ signaled \in BOOLEAN
    /\ threadQueue \subseteq {t \in Thread : call[t] # NoCall}
    /\ call \in [Thread -> Call]

Met(t) == call[t] # NoCall /\ call[t].coreMask \subseteq coreHit[call[t].rendezvous]

\* Though all rendezvous share one automatic event and each of them may use up
\* its signal, nobody sleeps in a rendezvous that is met.
NobodySleepsWhenMet == \A t \in threadQueue : ~Met(t)

\* A signal that would be lost on the next arrival, because the event ignores
\* a signal when it is signaled, is never pending while somebody sleeps.
NobodySleepsOnASignal == signaled => threadQueue = {}
=============================================================================
