----------------------------- MODULE MCSteering -----------------------------
(* Instances of Steering for TLC: q1 arrives for the chain of agent a, i1 is *)
(* executed immediately.                                                     *)
EXTENDS Steering

CONSTANTS q1, i1, a, s1, s2

AgentOf == [m \in Messages |-> a]
ThreadOf == [m \in Messages |-> Nothing]
PriorityOf == [m \in Messages |-> 1]
KindOf == [m \in Messages |-> IF m = i1 THEN "immediate" ELSE "command"]
=============================================================================
