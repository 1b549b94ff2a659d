---------------------------- MODULE SchedulerMC ----------------------------
(* The small instances of Scheduler for TLC. *)
EXTENDS Scheduler, TLC

CONSTANTS c0, c1, main, t1, t2, q1

OneCoreMasks == {{c0}, {c1}}
AllMasks == {{c0}, {c1}, {c0, c1}}
SharedMask == {{c0, c1}}
=============================================================================
