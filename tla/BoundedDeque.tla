---------------------------- MODULE BoundedDeque ----------------------------
(***************************************************************************)
(* What an OSMessageQueue promises: a bounded queue of messages, taken at  *)
(* the front, put at the back or, with high priority, at the front.  Every *)
(* message put is taken once.                                              *)
(***************************************************************************)
EXTENDS Naturals, Sequences

CONSTANTS Thread, Message, Capacity, NoMessage

VARIABLES
    deque,  \* the messages, the next one to be received first
    got     \* what each thread's last receive or peek returned

Init ==
    /\ deque = <<>>
    /\ got = [t \in Thread |-> NoMessage]

PutBack(m) ==
    /\ Len(deque) < Capacity
    /\ deque' = Append(deque, m)
    /\ UNCHANGED got

PutFront(m) ==
    /\ Len(deque) < Capacity
    /\ deque' = <<m>> \o deque
    /\ UNCHANGED got

Take(t) ==
    /\ deque # <<>>
    /\ got' = [got EXCEPT ![t] = Head(deque)]
    /\ deque' = Tail(deque)

Look(t) ==
    /\ got' = [got EXCEPT ![t] = IF deque = <<>> THEN NoMessage ELSE Head(deque)]
    /\ UNCHANGED deque

Next ==
    \/ \E m \in Message : PutBack(m) \/ PutFront(m)
    \/ \E t \in Thread : Take(t) \/ Look(t)

Spec == Init /\ [][Next]_<<deque, got>>
=============================================================================
