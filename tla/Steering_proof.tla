--------------------------- MODULE Steering_proof ---------------------------
(***************************************************************************)
(* Proofs about Steering, for every set of steers and every instance of    *)
(* the processor.  A step of Steering is a step of the processor or leaves *)
(* it alone, so that what is proved of the processor holds here as well.   *)
(***************************************************************************)
EXTENDS Steering, QueueProcessor_proof

LEMMA QueueSteps ==
  ASSUME [SteeringNext]_allVars
  PROVE  [Next]_vars
<1>1. ASSUME NEW s \in Steers, SteerArrives(s) \/ SteerAges(s)
      PROVE  UNCHANGED vars
  BY <1>1 DEF SteerArrives, SteerAges
<1>2. ASSUME NEW x \in Slots, Delivers(x) \/ Interrupts(x)
      PROVE  UNCHANGED vars
  BY <1>2 DEF Delivers, Interrupts
<1>3. ASSUME NEW x \in Slots, Answers(x) \/ Fails(x) \/ EndsOtherwise(x)
      PROVE  FinishSlot(x)
  BY <1>3 DEF Answers, Fails, EndsOtherwise, FinishSlot
<1>4. ASSUME NEW x \in Slots, CrashInDelivery(x)
      PROVE  Crash
  BY <1>4 DEF CrashInDelivery, Crash, Executing
<1>5. CASE Cleans
  BY <1>5 DEF Cleans, Next
<1>6. CASE OtherSteps
  BY <1>6 DEF OtherSteps, Next
<1>7. CASE UNCHANGED allVars
  BY <1>7 DEF allVars
<1> QED BY <1>1, <1>2, <1>3, <1>4, <1>5, <1>6, <1>7 DEF SteeringNext, SteeredSlot, Next

\* The history variable only watches.
LEMMA SteeringStep == [SteeringNext /\ Records]_historyVars => [SteeringNext]_allVars
BY DEF historyVars

\* Steers change nothing of what the processor may do.
LEMMA ImplementsOwnership == SteeringSpec => OwnershipSpec
<1>1. SteeringInit => OwnershipInit
  BY DEF SteeringInit
<1>2. [SteeringNext /\ Records]_historyVars => [Next /\ Records]_ownVars
  <2>1. ASSUME SteeringNext, Records
        PROVE  [Next /\ Records]_ownVars
    <3>1. Next \/ UNCHANGED vars
      BY <2>1, QueueSteps
    <3> QED BY <2>1, <3>1, NothingToRecord
  <2>2. UNCHANGED historyVars => UNCHANGED ownVars
    BY DEF historyVars, allVars, ownVars
  <2> QED BY <2>1, <2>2
<1> QED BY <1>1, <1>2, PTL DEF SteeringSpec, OwnershipSpec

LEMMA ImplementsQueue == SteeringSpec => Spec
BY ImplementsOwnership, OwnershipIsProcessor, PTL

\* No step forgets a crash.
LEMMA CrashesGrow ==
  ASSUME TypeOK, [Next]_vars
  PROVE  crashes \in Nat /\ crashes' \in Nat /\ crashes' >= crashes
<1>1. crashes \in Nat
  BY DEF TypeOK
<1>2. CASE LoseProcess
  BY <1>1, <1>2 DEF LoseProcess
<1>3. CASE Poll \/ Cleanup \/ Tick \/ Start \/ Drain \/ DrainCompletes \/ DrainTimesOut \/ ClearRows
  BY <1>1, <1>3 DEF Poll, Cleanup, Tick, Start, Drain, DrainCompletes, DrainTimesOut,
                    ClearRows, procVars
<1>4. CASE Crash \/ CrashInCleanup \/ Exit
  BY <1>2, <1>4 DEF Crash, CrashInCleanup, Exit
<1>5. ASSUME NEW a \in Agents, StartLink(a)
      PROVE  crashes' = crashes
  BY <1>5 DEF StartLink
<1>6. ASSUME NEW x \in Slots, FinishSlot(x)
      PROVE  crashes' = crashes
  BY <1>6, FinishSlotEffect DEF Leave
<1>7. ASSUME NEW x \in Slots, CrashInSlot(x)
      PROVE  LoseProcess
  BY <1>7 DEF CrashInSlot
<1>8. ASSUME NEW m \in Messages, MessageStep(m)
      PROVE  crashes' = crashes \/ LoseProcess
  <2>1. CASE FinishImmediate(m)
    BY <2>1, FinishImmediateEffect DEF LeaveImmediate
  <2>2. CASE CrashInImmediate(m)
    BY <2>2 DEF CrashInImmediate
  <2>3. CASE Enqueue(m) \/ EnqueueImmediate(m)
    BY <2>3 DEF Enqueue, EnqueueImmediate
  <2>4. CASE ReplyAsync(m) \/ ReplySync(m) \/ ApplyReply(m) \/ DropReply(m) \/ ReplyInConversation(m)
    BY <2>4 DEF ReplyAsync, ReplySync, ApplyReply, DropReply, ReplyInConversation
  <2> QED BY <1>8, <2>1, <2>2, <2>3, <2>4 DEF MessageStep
<1>9. CASE UNCHANGED vars
  BY <1>1, <1>9 DEF vars, procVars
<1> QED BY <1>1, <1>2, <1>3, <1>4, <1>5, <1>6, <1>7, <1>8, <1>9 DEF Next

-----------------------------------------------------------------------------
(* The inductive invariant: a steer that waits has not been told, unless a *)
(* crash took the process between the history and the marks.               *)

SteerInv ==
  /\ SteerTypeOK /\ ToldOnce /\ DeliveredIsTold
  /\ \A s \in Steers :
       /\ steer[s] = "none" => told[s] = 0
       /\ steer[s] \in {"pending", "late"} => told[s] = 0 \/ crashes > 0

\* What a step may do to each steer.
Moves(s) ==
  \/ steer'[s] = steer[s] /\ told'[s] = told[s]
  \/ steer[s] = "none" /\ steer'[s] = "pending" /\ told'[s] = told[s]
  \/ /\ steer[s] \in {"pending", "late"} /\ steer'[s] \in {"late", "expired"}
     /\ told'[s] = told[s]
  \/ /\ steer[s] \in {"pending", "late"} /\ steer'[s] \in {steer[s], "delivered"}
     /\ told'[s] = IF told[s] < 2 THEN told[s] + 1 ELSE told[s]
     /\ steer'[s] = "delivered" \/ crashes' > 0

LEMMA CrashesStay ==
  ASSUME crashes \in Nat, crashes' \in Nat, crashes' >= crashes, crashes > 0
  PROVE  crashes' > 0
OBVIOUS

LEMMA OneMoveKeeps ==
  ASSUME NEW s, Moves(s), told[s] \in 0 .. 2,
         crashes > 0 => crashes' > 0,
         told[s] > 1 => crashes > 0,
         steer[s] = "delivered" => told[s] > 0,
         steer[s] = "none" => told[s] = 0,
         steer[s] \in {"pending", "late"} => told[s] = 0 \/ crashes > 0
  PROVE  /\ told'[s] > 1 => crashes' > 0
         /\ steer'[s] = "delivered" => told'[s] > 0
         /\ steer'[s] = "none" => told'[s] = 0
         /\ steer'[s] \in {"pending", "late"} => told'[s] = 0 \/ crashes' > 0
<1>1. CASE steer'[s] = steer[s] /\ told'[s] = told[s]
  BY <1>1
<1>2. CASE steer[s] = "none" /\ steer'[s] = "pending" /\ told'[s] = told[s]
  BY <1>2
<1>3. CASE /\ steer[s] \in {"pending", "late"} /\ steer'[s] \in {"late", "expired"}
           /\ told'[s] = told[s]
  BY <1>3
<1>4. CASE /\ steer[s] \in {"pending", "late"} /\ steer'[s] \in {steer[s], "delivered"}
           /\ told'[s] = IF told[s] < 2 THEN told[s] + 1 ELSE told[s]
           /\ steer'[s] = "delivered" \/ crashes' > 0
  <2>1. told'[s] > 0 /\ (told'[s] > 1 => told[s] > 0)
    BY <1>4
  <2>2. told[s] > 0 => crashes' > 0
    BY <1>4
  <2>3. told'[s] > 1 => crashes' > 0
    BY <2>1, <2>2
  <2>4. steer'[s] # "none"
    BY <1>4
  <2> QED BY <1>4, <2>1, <2>3, <2>4
<1> QED BY <1>1, <1>2, <1>3, <1>4 DEF Moves

LEMMA MovesKeep ==
  ASSUME SteerInv, crashes \in Nat, crashes' \in Nat, crashes' >= crashes,
         SteerTypeOK', \A s \in Steers : Moves(s)
  PROVE  SteerInv'
<1>1. crashes > 0 => crashes' > 0
  BY CrashesStay
<1> SUFFICES ASSUME NEW s \in Steers
             PROVE  /\ told'[s] > 1 => crashes' > 0
                    /\ steer'[s] = "delivered" => told'[s] > 0
                    /\ steer'[s] = "none" => told'[s] = 0
                    /\ steer'[s] \in {"pending", "late"} => told'[s] = 0 \/ crashes' > 0
  BY DEF SteerInv, ToldOnce, DeliveredIsTold
<1>2. /\ told[s] \in 0 .. 2 /\ (told[s] > 1 => crashes > 0)
      /\ steer[s] = "delivered" => told[s] > 0
      /\ steer[s] = "none" => told[s] = 0
      /\ steer[s] \in {"pending", "late"} => told[s] = 0 \/ crashes > 0
  BY DEF SteerInv, SteerTypeOK, ToldOnce, DeliveredIsTold
<1> QED BY <1>1, <1>2, OneMoveKeeps

LEMMA PendingForSteers ==
  ASSUME SteerInv, NEW m
  PROVE  /\ PendingFor(m) \subseteq Steers
         /\ \A s \in PendingFor(m) : steer[s] \in {"pending", "late"}
BY DEF PendingFor

LEMMA MarkedSteers ==
  ASSUME SteerInv, NEW S \in SUBSET Steers, NEW status \in {"delivered", "expired"},
         steer' = Marked(S, status)
  PROVE  /\ steer' \in [Steers -> {"none", "pending", "late", "delivered", "expired"}]
         /\ \A s \in S : steer'[s] = status
         /\ \A s \in Steers \ S : steer'[s] = steer[s]
         /\ \A s \in Steers : steer'[s] # "none" => steer[s] # "none" \/ s \in S
BY DEF SteerInv, SteerTypeOK, Marked

LEMMA RetoldSteers ==
  ASSUME SteerInv, NEW S \in SUBSET Steers, told' = Retold(S)
  PROVE  /\ told' \in [Steers -> 0 .. 2]
         /\ \A s \in S : told'[s] = IF told[s] < 2 THEN told[s] + 1 ELSE told[s]
         /\ \A s \in Steers \ S : told'[s] = told[s]
BY DEF SteerInv, SteerTypeOK, Retold

LEMMA LeftSlots ==
  ASSUME SteerInv, SlotsLeft
  PROVE  follows' \subseteq Slots /\ stopped' \subseteq Slots
BY DEF SteerInv, SteerTypeOK, SlotsLeft

\* What each step does to the steers.
LEMMA SteersMove ==
  ASSUME TypeOK, SteerInv, [SteeringNext]_allVars, crashes \in Nat, crashes' \in Nat,
         crashes' >= crashes
  PROVE  SteerTypeOK' /\ \A s \in Steers : Moves(s)
<1>1. ASSUME NEW s \in Steers, SteerArrives(s)
      PROVE  SteerTypeOK' /\ \A z \in Steers : Moves(z)
  BY <1>1 DEF SteerArrives, SteerInv, SteerTypeOK, Moves
<1>2. ASSUME NEW s \in Steers, SteerAges(s)
      PROVE  SteerTypeOK' /\ \A z \in Steers : Moves(z)
  BY <1>2 DEF SteerAges, SteerInv, SteerTypeOK, Moves
<1>3. ASSUME NEW x \in Slots, Interrupts(x)
      PROVE  SteerTypeOK' /\ \A z \in Steers : Moves(z)
  BY <1>3 DEF Interrupts, SteerInv, SteerTypeOK, Moves
<1>4. ASSUME NEW x \in Slots, Delivers(x)
      PROVE  SteerTypeOK' /\ \A z \in Steers : Moves(z)
  <2> DEFINE P == PendingFor(slot[x])
  <2>1. P \subseteq Steers /\ \A s \in P : steer[s] \in {"pending", "late"}
    BY PendingForSteers
  <2>2. told' = Retold(P) /\ steer' = Marked(P, "delivered")
        /\ target' = target /\ follows' = follows \cup {x} /\ stopped' = stopped
    BY <1>4 DEF Delivers
  <2> HIDE DEF P
  <2>3. \A s \in P : steer'[s] = "delivered"
                      /\ told'[s] = IF told[s] < 2 THEN told[s] + 1 ELSE told[s]
    BY <2>1, <2>2, MarkedSteers, RetoldSteers
  <2>4. \A s \in Steers \ P : steer'[s] = steer[s] /\ told'[s] = told[s]
    BY <2>1, <2>2, MarkedSteers, RetoldSteers
  <2>5. \A s \in Steers : Moves(s)
    BY <2>1, <2>3, <2>4 DEF Moves
  <2>6. SteerTypeOK'
    <3>1. /\ steer' \in [Steers -> {"none", "pending", "late", "delivered", "expired"}]
          /\ told' \in [Steers -> 0 .. 2]
      BY <2>1, <2>2, MarkedSteers, RetoldSteers
    <3>2. \A s \in Steers : steer[s] # "none" => target[s] \in Messages
      BY DEF SteerInv, SteerTypeOK
    <3>3. \A s \in Steers : steer'[s] # "none" => target'[s] \in Messages
      BY <2>1, <2>2, <2>4, <3>2
    <3> QED BY <2>2, <3>1, <3>3 DEF SteerInv, SteerTypeOK
  <2> QED BY <2>5, <2>6
<1>5. ASSUME NEW x \in Slots, CrashInDelivery(x)
      PROVE  SteerTypeOK' /\ \A z \in Steers : Moves(z)
  <2> DEFINE P == PendingFor(slot[x])
  <2>1. P \subseteq Steers /\ \A s \in P : steer[s] \in {"pending", "late"}
    BY PendingForSteers
  <2>2. PICK S \in SUBSET P : steer' = Marked(S, "delivered")
    BY <1>5 DEF CrashInDelivery
  <2>3. told' = Retold(P) /\ target' = target /\ SlotsLeft /\ crashes' > 0
    BY <1>5 DEF CrashInDelivery, LoseProcess
  <2> HIDE DEF P
  <2>4. /\ steer' \in [Steers -> {"none", "pending", "late", "delivered", "expired"}]
        /\ told' \in [Steers -> 0 .. 2]
        /\ \A s \in Steers : steer'[s] = IF s \in S THEN "delivered" ELSE steer[s]
    BY <2>1, <2>2, <2>3, MarkedSteers, RetoldSteers
  <2>5. /\ \A s \in P : told'[s] = IF told[s] < 2 THEN told[s] + 1 ELSE told[s]
        /\ \A s \in Steers \ P : told'[s] = told[s]
    BY <2>1, <2>3, RetoldSteers
  <2>6. \A s \in Steers : Moves(s)
    BY <2>1, <2>2, <2>3, <2>4, <2>5 DEF Moves
  <2>7. \A s \in Steers : steer'[s] # "none" => target'[s] \in Messages
    BY <2>1, <2>2, <2>3, <2>4 DEF SteerInv, SteerTypeOK
  <2>8. target' \in [Steers -> Messages \cup {Nothing}]
    BY <2>3 DEF SteerInv, SteerTypeOK
  <2>9. SteerTypeOK'
    BY <2>3, <2>4, <2>7, <2>8, LeftSlots DEF SteerTypeOK
  <2> QED BY <2>6, <2>9
<1>6. ASSUME NEW m, ExpireFor(m), SlotsLeft
      PROVE  SteerTypeOK' /\ \A z \in Steers : Moves(z)
  <2> DEFINE P == PendingFor(m)
  <2>1. P \subseteq Steers /\ \A s \in P : steer[s] \in {"pending", "late"}
    BY PendingForSteers
  <2>2. steer' = Marked(P, "expired") /\ target' = target /\ told' = told
    BY <1>6 DEF ExpireFor
  <2> HIDE DEF P
  <2>3. /\ steer' \in [Steers -> {"none", "pending", "late", "delivered", "expired"}]
        /\ \A s \in P : steer'[s] = "expired"
        /\ \A s \in Steers \ P : steer'[s] = steer[s]
    BY <2>1, <2>2, MarkedSteers
  <2>4. \A s \in Steers : Moves(s)
    BY <2>1, <2>2, <2>3 DEF Moves
  <2>5. SteerTypeOK'
    BY <1>6, <2>1, <2>2, <2>3, LeftSlots DEF SteerInv, SteerTypeOK
  <2> QED BY <2>4, <2>5
<1>7. CASE Cleans
  <2> DEFINE P == {s \in Steers : steer[s] = "late"}
  <2>1. /\ steer' = Marked(P, "expired") /\ target' = target /\ told' = told
        /\ follows' = follows /\ stopped' = stopped
    BY <1>7 DEF Cleans
  <2>2. P \subseteq Steers /\ \A s \in P : steer[s] = "late"
    OBVIOUS
  <2> HIDE DEF P
  <2>3. /\ steer' \in [Steers -> {"none", "pending", "late", "delivered", "expired"}]
        /\ \A s \in P : steer'[s] = "expired"
        /\ \A s \in Steers \ P : steer'[s] = steer[s]
    BY <2>1, <2>2, MarkedSteers
  <2>4. \A s \in Steers : Moves(s)
    BY <2>1, <2>2, <2>3 DEF Moves
  <2>5. SteerTypeOK'
    BY <2>1, <2>2, <2>3 DEF SteerInv, SteerTypeOK
  <2> QED BY <2>4, <2>5
<1>8. CASE UNCHANGED <<steer, target, told>> /\ SlotsLeft
  <2>1. follows' \subseteq Slots /\ stopped' \subseteq Slots
    BY <1>8, LeftSlots
  <2> QED BY <1>8, <2>1 DEF SteerInv, SteerTypeOK, Moves
<1>9. CASE UNCHANGED allVars
  BY <1>9 DEF allVars, steerVars, SteerInv, SteerTypeOK, Moves
<1>10. ASSUME NEW x \in Slots, Answers(x) \/ Fails(x)
       PROVE  ExpireFor(slot[x]) /\ SlotsLeft
  BY <1>10 DEF Answers, Fails
<1>11. ASSUME NEW x \in Slots, EndsOtherwise(x)
       PROVE  UNCHANGED <<steer, target, told>> /\ SlotsLeft
  BY <1>11 DEF EndsOtherwise
<1>12. OtherSteps => UNCHANGED <<steer, target, told>> /\ SlotsLeft
  BY DEF OtherSteps
<1> QED BY <1>1, <1>2, <1>3, <1>4, <1>5, <1>6, <1>7, <1>8, <1>9, <1>10, <1>11, <1>12
        DEF SteeringNext, SteeredSlot

LEMMA SteerInvStep ==
  ASSUME TypeOK, SteerInv, [SteeringNext]_allVars
  PROVE  SteerInv'
<1>1. crashes \in Nat /\ crashes' \in Nat /\ crashes' >= crashes
  BY QueueSteps, CrashesGrow
<1> QED BY <1>1, SteersMove, MovesKeep

LEMMA SteerInvHolds == SteeringSpec => []SteerInv
<1>1. SteeringInit => SteerInv
  BY DEF SteeringInit, SteerInv, SteerTypeOK, ToldOnce, DeliveredIsTold
<1>2. SteeringSpec => []TypeOK
  BY ImplementsQueue, TypeCorrect, PTL
<1>3. TypeOK /\ SteerInv /\ [SteeringNext]_allVars => SteerInv'
  BY SteerInvStep
<1> QED BY <1>1, <1>2, <1>3, SteeringStep, PTL DEF SteeringSpec

-----------------------------------------------------------------------------
(* How a slot is left.                                                     *)

\* A claim is made by a slot that is free, and no slot is left but by the end of
\* its execution or of the process.
LEMMA ClaimsLeaveNone ==
  ASSUME TypeOK, NEW rows, PoolClaims(rows) \/ slot' = slot, NEW x \in Slots, slot[x] # Nothing
  PROVE  slot'[x] # Nothing
<1>1. CASE PoolClaims(rows)
  BY <1>1 DEF PoolClaims, TypeOK
<1> QED BY <1>1

LEMMA MessagesLeaveNone ==
  ASSUME TypeOK, NEW x \in Slots, slot[x] # Nothing, NEW m \in Messages, MessageStep(m)
  PROVE  slot'[x] # Nothing \/ LoseProcess
<1>1. CASE Enqueue(m) \/ EnqueueImmediate(m) \/ ReplyAsync(m)
  <2>1. PICK rows : OnEnqueued(rows)
    BY <1>1 DEF Enqueue, EnqueueImmediate, ReplyAsync
  <2>2. PoolClaims(rows) \/ slot' = slot
    BY <2>1, OnEnqueuedEffect
  <2> QED BY <2>2, ClaimsLeaveNone
<1>2. CASE FinishImmediate(m)
  BY <1>2, FinishImmediateEffect DEF LeaveImmediate
<1>3. CASE ReplySync(m) \/ ApplyReply(m) \/ DropReply(m) \/ ReplyInConversation(m)
  BY <1>3 DEF ReplySync, ApplyReply, DropReply, ReplyInConversation
<1>4. CASE CrashInImmediate(m)
  BY <1>4 DEF CrashInImmediate
<1> QED BY <1>1, <1>2, <1>3, <1>4 DEF MessageStep

LEMMA OthersLeaveNone ==
  ASSUME TypeOK, NEW x \in Slots, slot[x] # Nothing, OtherSteps
  PROVE  slot'[x] # Nothing \/ LoseProcess
<1>1. CASE Poll \/ Start
  <2>1. PICK rows : ProcessNext(rows)
    BY <1>1 DEF Poll, Start
  <2>2. PoolClaims(rows) \/ slot' = slot
    BY <2>1, ProcessNextEffect
  <2> QED BY <2>2, ClaimsLeaveNone
<1>2. CASE Tick \/ Drain \/ DrainCompletes \/ DrainTimesOut \/ ClearRows
  BY <1>2 DEF Tick, Drain, DrainCompletes, DrainTimesOut, ClearRows, procVars
<1>3. CASE Crash \/ CrashInCleanup \/ Exit \/ \E y \in Slots : CrashInSlot(y)
  BY <1>3 DEF Crash, CrashInCleanup, Exit, CrashInSlot
<1>4. ASSUME NEW a \in Agents, StartLink(a)
      PROVE  slot'[x] # Nothing
  BY <1>4, NothingAssumption DEF StartLink, TypeOK, First, ClaimableBy, Pending
<1>5. ASSUME NEW m \in Messages, MessageStep(m)
      PROVE  slot'[x] # Nothing \/ LoseProcess
  BY <1>5, MessagesLeaveNone
<1> QED BY <1>1, <1>2, <1>3, <1>4, <1>5 DEF OtherSteps

\* An execution that ends in this step leaves its own slot.
LEMMA LeavesItsOwn ==
  ASSUME TypeOK, NEW x \in Slots, NEW y \in Slots, slot[x] # Nothing, slot'[x] = Nothing, Leave(y)
  PROVE  y = x
BY DEF Leave, TypeOK

\* A slot is left in one of three ways when the process lives on.
LEMMA SlotEnds ==
  ASSUME TypeOK, [SteeringNext]_allVars, NEW x \in Slots, slot[x] # Nothing, slot'[x] = Nothing
  PROVE  \/ Answers(x) \/ Fails(x) \/ EndsOtherwise(x)
         \/ LoseProcess /\ (OtherSteps \/ \E y \in Slots : CrashInDelivery(y))
<1>1. ASSUME NEW y \in Slots, Answers(y) \/ Fails(y) \/ EndsOtherwise(y)
      PROVE  Answers(x) \/ Fails(x) \/ EndsOtherwise(x)
  <2>1. Leave(y)
    BY <1>1 DEF Answers, Fails, EndsOtherwise, SlotAnswers, SlotFails, SlotAsks,
                SlotHandlesCommand, SlotRejects
  <2>2. y = x
    BY <2>1, LeavesItsOwn
  <2> QED BY <1>1, <2>2
<1>2. ASSUME slot' = slot
      PROVE  FALSE
  BY <1>2
<1>3. ASSUME NEW s \in Steers, SteerArrives(s) \/ SteerAges(s)
      PROVE  slot' = slot
  BY <1>3 DEF SteerArrives, SteerAges, vars, procVars
<1>4. ASSUME NEW y \in Slots, Delivers(y) \/ Interrupts(y)
      PROVE  slot' = slot
  BY <1>4 DEF Delivers, Interrupts, vars, procVars
<1>5. ASSUME NEW y \in Slots, CrashInDelivery(y)
      PROVE  LoseProcess
  BY <1>5 DEF CrashInDelivery
<1>6. Cleans => slot' = slot
  BY DEF Cleans, Cleanup, procVars
<1>7. OtherSteps => LoseProcess
  BY OthersLeaveNone
<1>8. UNCHANGED allVars => slot' = slot
  BY DEF allVars, vars, procVars
<1>9. CASE \E s \in Steers : SteerArrives(s) \/ SteerAges(s)
  BY <1>2, <1>3, <1>9
<1>10. CASE \E y \in Slots : SteeredSlot(y) \/ Interrupts(y) \/ CrashInDelivery(y)
  BY <1>1, <1>2, <1>4, <1>5, <1>10 DEF SteeredSlot
<1>11. CASE Cleans \/ UNCHANGED allVars
  BY <1>2, <1>6, <1>8, <1>11
<1> QED BY <1>7, <1>9, <1>10, <1>11 DEF SteeringNext

\* The loss of the process refuses no steer.
LEMMA LossesRefuseNone ==
  ASSUME TypeOK, SteerInv, OtherSteps \/ \E y \in Slots : CrashInDelivery(y),
         NEW m, NEW s \in PendingFor(m)
  PROVE  steer'[s] # "expired"
<1>1. s \in Steers /\ steer[s] \in {"pending", "late"}
  BY PendingForSteers
<1>2. CASE OtherSteps
  BY <1>1, <1>2 DEF OtherSteps
<1>3. ASSUME NEW y \in Slots, CrashInDelivery(y)
      PROVE  steer'[s] # "expired"
  <2>1. PICK S \in SUBSET PendingFor(slot[y]) : steer' = Marked(S, "delivered")
    BY <1>3 DEF CrashInDelivery
  <2> QED BY <1>1, <2>1 DEF Marked
<1> QED BY <1>2, <1>3

\* A failure completes nothing, whatever the row has become.
LEMMA FailuresCompleteNone ==
  ASSUME TypeOK, NEW x \in Slots, SlotFails(x)
  PROVE  row'[slot[x]].status # "completed"
<1>1. slot[x] \in Messages /\ row \in [Messages -> Row]
  BY DEF SlotFails, Executing, TypeOK, DbTypeOK
<1>2. PICK maxRetries \in {0, Attempts} : Fail(slot[x], maxRetries, 4)
  BY DEF SlotFails
<1> DEFINE r == Failed(row[slot[x]], maxRetries)
<1>3. row' = [row EXCEPT ![slot[x]] = r]
  BY <1>2 DEF Fail
<1>4. r.status \in {"pending", "dead_letter", "deleted"}
  <2>1. row[slot[x]] \in Row
    BY <1>1
  <2>2. CASE row[slot[x]].status = "deleted"
    BY <2>1, <2>2, FailedRow
  <2>3. CASE row[slot[x]].status # "deleted"
    BY <2>1, <2>3, FailedRow
  <2> QED BY <2>2, <2>3
<1> HIDE DEF r
<1>5. row'[slot[x]] = r
  BY <1>1, <1>3
<1> QED BY <1>4, <1>5

-----------------------------------------------------------------------------
(* Theorems                                                                *)

\* The steers' rows, targets and counts keep their types.
THEOREM SteerTypesHold == SteeringSpec => []SteerTypeOK
<1>1. SteerInv => SteerTypeOK
  BY DEF SteerInv
<1> QED BY <1>1, SteerInvHolds, PTL

\* Without a crash no steer enters the history twice.
THEOREM TellsOnce == SteeringSpec => []ToldOnce
<1>1. SteerInv => ToldOnce
  BY DEF SteerInv
<1> QED BY <1>1, SteerInvHolds, PTL

\* A delivered steer is in the history, whatever crashes.
THEOREM DeliveriesAreTold == SteeringSpec => []DeliveredIsTold
<1>1. SteerInv => DeliveredIsTold
  BY DEF SteerInv
<1> QED BY <1>1, SteerInvHolds, PTL

\* A message has one execution at a time while it is steered as well, but one
\* that was swept from under its execution or replied to again.
THEOREM SteeredOnce == SteeringSpec => []OneExecution
BY ImplementsOwnership, NoDoubleExecution, PTL

\* A steer that the answer refuses came while the agent, called again, was answering
\* earlier ones: before that the processor looks for what is waiting.
THEOREM AnswersHear == SteeringSpec => InTimeIsHeard
<1>1. TypeOK /\ SteerInv /\ [SteeringNext]_allVars =>
        [\A x \in Slots, s \in Steers :
           /\ slot[x] # Nothing /\ slot'[x] = Nothing /\ row'[slot[x]].status = "completed"
           /\ s \in PendingFor(slot[x]) /\ steer'[s] = "expired"
           => x \in follows]_allVars
  <2> SUFFICES ASSUME TypeOK, SteerInv, [SteeringNext]_allVars, NEW x \in Slots, NEW s \in Steers,
                      slot[x] # Nothing, slot'[x] = Nothing, row'[slot[x]].status = "completed",
                      s \in PendingFor(slot[x]), steer'[s] = "expired"
               PROVE  x \in follows
    OBVIOUS
  <2>1. steer'[s] # steer[s]
    BY DEF PendingFor
  <2>2. CASE Answers(x)
    BY <2>2 DEF Answers
  <2>3. ~Fails(x)
    BY FailuresCompleteNone DEF Fails
  <2>4. ~EndsOtherwise(x)
    BY <2>1 DEF EndsOtherwise
  <2>5. ~(OtherSteps \/ \E y \in Slots : CrashInDelivery(y))
    BY LossesRefuseNone
  <2> QED BY <2>2, <2>3, <2>4, <2>5, SlotEnds
<1> QED BY <1>1, SteerInvHolds, ImplementsQueue, TypeCorrect, SteeringStep, PTL
       DEF SteeringSpec, InTimeIsHeard

\* An execution that completes its message, gives it up or gives it back leaves no
\* steer waiting.  A message that names an agent which is not configured is failed
\* without a look at the steers.
THEOREM NoSteerIsLeft ==
  ASSUME \A m \in Messages : KnownAgent(m)
  PROVE  SteeringSpec => NoneIsLeftBehind
<1>1. TypeOK /\ SteerInv /\ [SteeringNext]_allVars =>
        [\A x \in Slots :
           /\ slot[x] # Nothing /\ slot'[x] = Nothing /\ phase' # "down"
           /\ row[slot[x]].status = "processing"
           /\ row'[slot[x]].status \in {"completed", "pending", "dead_letter"}
           => \A s \in PendingFor(slot[x]) : steer'[s] \notin {"pending", "late"}]_allVars
  <2> SUFFICES ASSUME TypeOK, SteerInv, [SteeringNext]_allVars, NEW x \in Slots,
                      slot[x] # Nothing, slot'[x] = Nothing, phase' # "down",
                      row[slot[x]].status = "processing",
                      row'[slot[x]].status \in {"completed", "pending", "dead_letter"},
                      NEW s \in PendingFor(slot[x])
               PROVE  steer'[s] \notin {"pending", "late"}
    OBVIOUS
  <2>1. slot[x] \in Messages /\ row \in [Messages -> Row]
    BY DEF TypeOK, DbTypeOK
  <2>2. CASE Answers(x) \/ Fails(x)
    <3>1. steer' = Marked(PendingFor(slot[x]), "expired")
      BY <2>2 DEF Answers, Fails, ExpireFor
    <3> QED BY <3>1, PendingForSteers DEF Marked
  <2>3. ~EndsOtherwise(x)
    <3>1. ~SlotAsks(x)
      <4> SUFFICES ASSUME SlotAsks(x)
                   PROVE  FALSE
        OBVIOUS
      <4> DEFINE r == Moved(row[slot[x]], "suspended")
      <4>1. row' = [row EXCEPT ![slot[x]] = r]
        BY DEF SlotAsks, Ask
      <4>2. r.status = "suspended"
        BY <2>1 DEF Moved, Row
      <4> HIDE DEF r
      <4> QED BY <2>1, <4>1, <4>2
    <3>2. ~SlotHandlesCommand(x)
      BY DEF SlotHandlesCommand, HandleCommand
    <3>3. ~SlotRejects(x)
      BY <2>1 DEF SlotRejects, KnownAgent
    <3> QED BY <3>1, <3>2, <3>3 DEF EndsOtherwise
  <2>4. ~LoseProcess
    BY DEF LoseProcess
  <2> QED BY <2>2, <2>3, <2>4, SlotEnds
<1> QED BY <1>1, SteerInvHolds, ImplementsQueue, TypeCorrect, SteeringStep, PTL
       DEF SteeringSpec, NoneIsLeftBehind
=============================================================================
