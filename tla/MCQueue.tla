------------------------------ MODULE MCQueue ------------------------------
(***************************************************************************)
(* Instances of QueueProcessor for TLC.  A message's name says how it      *)
(* arrives: q1 for an agent's chain, c1 a command for any lead, g1 for the *)
(* thread pool with an agent nobody configured, i1 immediate, e1 immediate *)
(* for a team, in a thread: the pool takes it when the team gives it up.   *)
(***************************************************************************)
EXTENDS QueueOwnership

CONSTANTS q1, c1, g1, i1, e1, a, b, ghost, x, y

AgentOf == [m \in Messages |->
              CASE m = g1 -> ghost [] m = c1 -> Nothing [] OTHER -> a]

ThreadOf == [m \in Messages |->
               CASE m = e1 -> x [] m = g1 -> y [] OTHER -> Nothing]

PriorityOf == [m \in Messages |-> IF m = c1 THEN 2 ELSE 1]

KindOf == [m \in Messages |->
             CASE m = c1 -> "command" [] m = i1 -> "immediate"
               [] m = e1 -> "team" [] OTHER -> "queued"]
=============================================================================
