------------------------- MODULE MessageLease_proof -------------------------
(***************************************************************************)
(* Proofs about MessageLease: the lease is exclusive, for any messages and *)
(* any workers, and what is done stays done.                               *)
(***************************************************************************)
EXTENDS MessageLease, TLAPS

LeaseInv == LeaseTypeOK /\ LeaseExclusive

\* What a step may do to one message.
LeaseMove(m) ==
  \/ Stay(m)
  \/ /\ state'[m] \in States \ {"held"} /\ holder'[m] = Nobody
  \/ Take(m)

LEMMA EveryStepMoves ==
  ASSUME LeaseTypeOK, LeaseNext, NEW m \in Messages
  PROVE  LeaseMove(m)
<1>1. \/ Stay(m) \/ Submit(m) \/ Begin(m) \/ End(m) \/ Recover(m)
      \/ Reply(m) \/ Lapse(m) \/ Drop(m) \/ Dispute(m)
  BY DEF LeaseNext
<1> QED BY <1>1
        DEF LeaseMove, Submit, Begin, End, Recover, Reply, Lapse, Drop, Dispute, Becomes, States

LEMMA HeldByHolder ==
  ASSUME LeaseAssumption, LeaseInv, NEW m \in Messages, LeaseMove(m)
  PROVE  state'[m] = "held" <=> holder'[m] # Nobody
<1>1. CASE Stay(m)
  BY <1>1 DEF Stay, LeaseInv, LeaseExclusive
<1>2. CASE state'[m] \in States \ {"held"} /\ holder'[m] = Nobody
  BY <1>2
<1>3. CASE Take(m)
  BY <1>3 DEF Take, LeaseAssumption
<1> QED BY <1>1, <1>2, <1>3 DEF LeaseMove

LEMMA OneEach ==
  ASSUME LeaseAssumption, LeaseInv,
         NEW m \in Messages, NEW n \in Messages, m # n,
         LeaseMove(m), LeaseMove(n), holder'[m] \in Workers
  PROVE  holder'[m] # holder'[n]
<1>1. CASE Take(m)
  BY <1>1 DEF Take, LeaseAssumption
<1>2. CASE Take(n)
  BY <1>2 DEF Take, LeaseAssumption
<1>3. CASE Stay(m) /\ Stay(n)
  BY <1>3 DEF Stay, LeaseInv, LeaseExclusive
<1>4. CASE holder'[n] = Nobody \/ holder'[m] = Nobody
  BY <1>4 DEF LeaseAssumption
<1> QED BY <1>1, <1>2, <1>3, <1>4 DEF LeaseMove

LEMMA LeaseInvHolds ==
  ASSUME LeaseAssumption
  PROVE  LeaseSpec => []LeaseInv
<1>1. LeaseInit => LeaseInv
  BY LeaseAssumption
     DEF LeaseInit, LeaseInv, LeaseTypeOK, LeaseExclusive, LeaseAssumption, States
<1>2. LeaseInv /\ [LeaseNext]_leaseVars => LeaseInv'
  <2> SUFFICES ASSUME LeaseInv, [LeaseNext]_leaseVars
               PROVE  LeaseInv'
    OBVIOUS
  <2>1. CASE LeaseNext
    <3>1. LeaseTypeOK'
      BY <2>1 DEF LeaseNext, LeaseTypeOK
    <3>2. \A m \in Messages : LeaseMove(m)
      BY <2>1, EveryStepMoves DEF LeaseInv
    <3>3. \A m \in Messages : state'[m] = "held" <=> holder'[m] # Nobody
      BY <3>2, HeldByHolder, LeaseAssumption
    <3>4. \A m, n \in Messages :
            m # n /\ holder'[m] \in Workers => holder'[m] # holder'[n]
      BY <3>2, OneEach, LeaseAssumption
    <3> QED BY <3>1, <3>3, <3>4 DEF LeaseInv, LeaseExclusive
  <2>2. CASE UNCHANGED leaseVars
    BY <2>2 DEF leaseVars, LeaseInv, LeaseTypeOK, LeaseExclusive
  <2> QED BY <2>1, <2>2
<1> QED BY <1>1, <1>2, PTL DEF LeaseSpec

-----------------------------------------------------------------------------
(* Theorems                                                                *)

\* A message is held by one worker, and no worker holds two messages.
THEOREM LeaseHolds ==
  ASSUME LeaseAssumption
  PROVE  LeaseSpec => []LeaseExclusive
<1>1. LeaseInv => LeaseExclusive
  BY DEF LeaseInv
<1> QED BY <1>1, LeaseInvHolds, PTL

\* A message that is done is never worked on again, nor is one that was given up,
\* unless a late reply disputes that.
THEOREM ClosedStays == LeaseSpec => ClosedIsFinal
<1>1. [LeaseNext]_leaseVars => [StaysClosed]_leaseVars
  <2> SUFFICES ASSUME LeaseNext, NEW m \in Messages
               PROVE  /\ state[m] = "done" => state'[m] = "done"
                      /\ state[m] = "dead" => state'[m] \in {"dead", "disputed"}
    BY DEF StaysClosed
  <2>1. \/ Stay(m) \/ Submit(m) \/ Begin(m) \/ End(m) \/ Recover(m)
        \/ Reply(m) \/ Lapse(m) \/ Drop(m) \/ Dispute(m)
    BY DEF LeaseNext
  <2> QED BY <2>1
          DEF Stay, Submit, Begin, End, Recover, Reply, Lapse, Drop, Dispute, Becomes
<1> QED BY <1>1, PTL DEF LeaseSpec, ClosedIsFinal
=============================================================================
