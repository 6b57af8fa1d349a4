---------------------------- MODULE MCDelegation ----------------------------
(* Instances of Delegation for TLC. *)
EXTENDS Delegation

CONSTANTS a, b, r, m1

\* Nobody, one agent, two agents, a remote one.
MCMany == {<<>>, <<b>>, <<a, b>>, <<r>>}

\* Nobody, one agent.
MCOne == {<<>>, <<a>>}
=============================================================================
