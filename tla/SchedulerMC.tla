---------------------------- MODULE SchedulerMC ----------------------------
(* An instance of Scheduler: two callers, three events, delays below and   *)
(* above SCHEDULER_MINTICKS.                                               *)
EXTENDS Scheduler, TLC

CONSTANTS disp, sig, e1, e2, e3

MCDelays == {1, 3}
=============================================================================
