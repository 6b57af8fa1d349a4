----------------------------- MODULE MCProposal -----------------------------
(* Instances of ProposalExecutor for TLC: p1 is untouched, and so is p2       *)
(* unless the run says what may be done to it.                                *)
EXTENDS ProposalExecutor

CONSTANTS p1, p2, r1, r2, MCOverridden

MCOverrides == [p \in Proposals |-> IF p = p1 THEN {} ELSE MCOverridden]
=============================================================================
