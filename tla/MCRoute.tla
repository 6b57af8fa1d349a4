------------------------------ MODULE MCRoute ------------------------------
(* An instance of MessageRoute for TLC: e1 is posted for a team, q1 is the   *)
(* message its request becomes when it times out.                            *)
EXTENDS MessageRoute

CONSTANTS e1, q1, a

AgentOf == [m \in Messages |-> a]
ThreadOf == [m \in Messages |-> Nothing]
PriorityOf == [m \in Messages |-> 1]
KindOf == [m \in Messages |-> IF m = e1 THEN "team" ELSE "queued"]
CopyOf == [m \in Messages |-> IF m = e1 THEN q1 ELSE Nothing]
=============================================================================
