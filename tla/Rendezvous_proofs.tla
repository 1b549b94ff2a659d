-------------------------- MODULE Rendezvous_proofs --------------------------
(***************************************************************************)
(* Proofs about Rendezvous.  The three invariants are inductive together:  *)
(* an arrival wakes everybody unless the event is signaled, and then       *)
(* nobody sleeps; whoever goes back to sleep has just looked.              *)
(***************************************************************************)
EXTENDS Rendezvous, TLAPS

IInv == TypeOK /\ NobodySleepsWhenMet /\ NobodySleepsOnASignal

LEMMA InitIInv == Init => IInv
<1>1. NoCall \in Call
    BY DEF Call
<1>2. QED BY <1>1 DEF Init, IInv, TypeOK, NobodySleepsWhenMet, NobodySleepsOnASignal

\* The loop of OSWaitRendezvous, entered with a queue q whose threads are not
\* met and that is empty if the event is signaled.
LEMMA MeetOrWaitIInv ==
    ASSUME TypeOK,
           NEW t \in Thread, NEW r \in Meeting, NEW mask \in SUBSET Core,
           NEW sig \in BOOLEAN, NEW q,
           coreHit' \in [Meeting -> SUBSET Core],
           q \subseteq threadQueue \ {t},
           sig => q = {},
           \A u \in q : ~(call[u].coreMask \subseteq coreHit'[call[u].rendezvous]),
           MeetOrWait(t, r, mask, sig, q)
    PROVE  IInv'
<1>1. call' \in [Thread -> Call]
    BY DEF MeetOrWait, TypeOK, Call
<1>2. \A u \in Thread \ {t} : call'[u] = call[u]
    BY DEF MeetOrWait, TypeOK
<1>3. \A u \in q : u \in Thread \ {t} /\ call[u] # NoCall
    BY DEF TypeOK
<1>4. CASE mask \subseteq coreHit'[r]
    <2>1. signaled' = sig /\ threadQueue' = q
        BY <1>4 DEF MeetOrWait
    <2>2. TypeOK'
        BY <1>1, <1>2, <1>3, <2>1 DEF TypeOK
    <2>3. NobodySleepsWhenMet'
        BY <1>2, <1>3, <2>1 DEF NobodySleepsWhenMet, Met
    <2>4. QED BY <2>1, <2>2, <2>3 DEF IInv, NobodySleepsOnASignal
<1>5. CASE ~(mask \subseteq coreHit'[r])
    <2>1. signaled' = FALSE /\ threadQueue' = q \cup {t}
        BY <1>5 DEF MeetOrWait
    <2>2. call'[t] = Waiting(r, mask)
        BY <1>5 DEF MeetOrWait, TypeOK
    <2>3. call'[t] # NoCall /\ call'[t].rendezvous = r /\ call'[t].coreMask = mask
        BY <2>2 DEF Waiting, NoCall
    <2>4. TypeOK'
        BY <1>1, <1>2, <1>3, <2>1, <2>3 DEF TypeOK
    <2>5. NobodySleepsWhenMet'
        BY <1>2, <1>3, <1>5, <2>1, <2>3 DEF NobodySleepsWhenMet, Met
    <2>6. QED BY <2>1, <2>4, <2>5 DEF IInv, NobodySleepsOnASignal
<1>6. QED BY <1>4, <1>5

LEMMA OSInitRendezvousIInv ==
    ASSUME IInv, NEW r \in Meeting, Empty(r), OSInitRendezvous(r)
    PROVE  IInv'
<1>1. coreHit' \in [Meeting -> SUBSET Core]
    BY DEF OSInitRendezvous, IInv, TypeOK
<1>2. TypeOK'
    BY <1>1 DEF OSInitRendezvous, IInv, TypeOK
<1>3. \A u \in threadQueue : u \in Thread /\ call[u] # NoCall
    BY DEF IInv, TypeOK
<1>4. \A u \in threadQueue : coreHit'[call[u].rendezvous] = coreHit[call[u].rendezvous]
    <2> TAKE u \in threadQueue
    <2>1. call[u].rendezvous # r
        BY <1>3 DEF Empty
    <2>2. call[u] \in Call /\ call[u] # NoCall
        BY <1>3 DEF IInv, TypeOK
    <2>3. call[u].rendezvous \in Meeting
        BY <2>2 DEF Call, Waiting
    <2>4. QED BY <2>1, <2>3 DEF OSInitRendezvous, IInv, TypeOK
<1>5. NobodySleepsWhenMet'
    BY <1>3, <1>4 DEF OSInitRendezvous, IInv, NobodySleepsWhenMet, Met
<1>6. QED BY <1>2, <1>5 DEF OSInitRendezvous, IInv, NobodySleepsOnASignal

\* An arrival on c at r may meet the wait of any sleeper, and wakes them all.
LEMMA OSWaitRendezvousIInv ==
    ASSUME IInv, NEW t \in Thread, NEW c \in Core, NEW r \in Meeting,
           NEW mask \in SUBSET Core, OSWaitRendezvous(t, c, r, mask)
    PROVE  IInv'
<1>1. coreHit' \in [Meeting -> SUBSET Core]
    BY DEF OSWaitRendezvous, IInv, TypeOK
<1>2. TypeOK /\ (signaled => threadQueue = {})
    BY DEF IInv, NobodySleepsOnASignal
<1>3. CASE signaled \/ threadQueue = {}
    <2>1. threadQueue = {}
        BY <1>2, <1>3
    <2>2. MeetOrWait(t, r, mask, TRUE, {})
        BY <1>3, <2>1 DEF OSWaitRendezvous
    <2>3. QED BY <1>1, <1>2, <2>2, MeetOrWaitIInv
<1>4. CASE MeetOrWait(t, r, mask, FALSE, {})
    BY <1>1, <1>2, <1>4, MeetOrWaitIInv
<1>5. CASE /\ call' = [call EXCEPT ![t] = Waiting(r, mask)]
           /\ signaled' = FALSE /\ threadQueue' = {}
    <2>1. call' \in [Thread -> Call]
        BY <1>2, <1>5 DEF TypeOK, Call
    <2>2. QED BY <1>1, <1>5, <2>1
              DEF IInv, TypeOK, NobodySleepsWhenMet, NobodySleepsOnASignal
<1>6. QED BY <1>3, <1>4, <1>5 DEF OSWaitRendezvous

LEMMA WokenIInv ==
    ASSUME IInv, NEW t \in Thread, Woken(t)
    PROVE  IInv'
<1>1. call[t] \in Call /\ call[t] # NoCall /\ t \notin threadQueue
    BY DEF Woken, IInv, TypeOK
<1>2. call[t].rendezvous \in Meeting /\ call[t].coreMask \in SUBSET Core
    BY <1>1 DEF Call, Waiting
<1>3. coreHit' = coreHit
    BY DEF Woken
<1>4. coreHit' \in [Meeting -> SUBSET Core] /\ signaled \in BOOLEAN
    BY <1>3 DEF IInv, TypeOK
<1>5. \A u \in threadQueue : ~(call[u].coreMask \subseteq coreHit'[call[u].rendezvous])
    BY <1>3 DEF IInv, TypeOK, NobodySleepsWhenMet, Met
<1>6. TypeOK /\ (signaled => threadQueue = {}) /\ threadQueue \subseteq threadQueue \ {t}
    BY <1>1 DEF IInv, NobodySleepsOnASignal
<1>7. MeetOrWait(t, call[t].rendezvous, call[t].coreMask, signaled, threadQueue)
    BY DEF Woken
<1>8. QED BY <1>2, <1>4, <1>5, <1>6, <1>7, MeetOrWaitIInv

LEMMA NextIInv == IInv /\ [Next]_vars => IInv'
<1> SUFFICES ASSUME IInv, [Next]_vars PROVE IInv'
    OBVIOUS
<1>1. CASE UNCHANGED vars
    BY <1>1 DEF IInv, TypeOK, NobodySleepsWhenMet, Met, NobodySleepsOnASignal, vars
<1>2. CASE Next
    BY <1>2, OSInitRendezvousIInv, OSWaitRendezvousIInv, WokenIInv DEF Next
<1>3. QED BY <1>1, <1>2

LEMMA SpecIInv == Spec => []IInv
BY InitIInv, NextIInv, PTL DEF Spec

\* Only threads that wait for a rendezvous are in the queue of its event.
THEOREM TypeCorrect == Spec => []TypeOK
<1>1. IInv => TypeOK
    BY DEF IInv
<1>2. QED BY <1>1, SpecIInv, PTL

\* Nobody sleeps in OSWaitRendezvous when all cores of its mask have arrived,
\* for any number of rendezvous, threads and cores on the one automatic event.
THEOREM MetThreadsAreAwake == Spec => []NobodySleepsWhenMet
<1>1. IInv => NobodySleepsWhenMet
    BY DEF IInv
<1>2. QED BY <1>1, SpecIInv, PTL

\* g_rendezvousEvent is never signaled while a thread is in its queue.
THEOREM SignalsFindNoSleepers == Spec => []NobodySleepsOnASignal
<1>1. IInv => NobodySleepsOnASignal
    BY DEF IInv
<1>2. QED BY <1>1, SpecIInv, PTL
=============================================================================
