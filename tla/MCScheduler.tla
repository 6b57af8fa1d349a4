---------------------------- MODULE MCScheduler ----------------------------
(* Instances of Scheduler for TLC: an agent's task that runs once and triggers *)
(* an extension's task, which also runs every two intervals.                   *)
EXTENDS Scheduler

CONSTANTS once, cron, i1, i2

MCPeriod == [t \in Tasks |-> IF t = once THEN 0 ELSE 2]
MCClass == [t \in Tasks |-> IF t = once THEN "agent" ELSE "extension"]
MCChain == [t \in Tasks |-> IF t = once THEN cron ELSE Nothing]

\* The delay doubles up to a cap.
MCBackoff == [n \in 1 .. MaxFailures |-> IF n = 1 THEN 2 ELSE 4]
=============================================================================
