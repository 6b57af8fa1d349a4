------------------------- MODULE MessageRoute_proof -------------------------
(***************************************************************************)
(* Proofs about MessageRoute, for every set of messages, agents and        *)
(* threads, whatever each timed-out request is copied to.  A step of the   *)
(* routes is a step of the processor or leaves it alone.                   *)
(***************************************************************************)
EXTENDS MessageRoute, QueueProcessor_proof

-----------------------------------------------------------------------------
(* The routes add nothing to what the processor may do.                    *)

LEMMA CopyIsMessage ==
  ASSUME NEW m \in Messages, Copy[m] # Nothing
  PROVE  Copy[m] \in Messages
BY RouteAssumption

LEMMA RouteSteps ==
  ASSUME [RouteNext]_routeVars
  PROVE  [Next]_vars
<1>1. ASSUME NEW m \in Messages, Posts(m) \/ AsksStatus(m)
      PROVE  UNCHANGED vars
  BY <1>1 DEF Posts, AsksStatus
<1>2. ASSUME NEW m \in Messages, Begins(m)
      PROVE  EnqueueImmediate(m)
  BY <1>2 DEF Begins
<1>3. ASSUME NEW m \in Messages, Responds(m)
      PROVE  FinishImmediate(m)
  BY <1>3 DEF Responds
<1>4. ASSUME NEW m \in Messages, TimesOut(m)
      PROVE  UNCHANGED vars \/ \E n \in Messages : Enqueue(n)
  BY <1>4, CopyIsMessage DEF TimesOut
<1>5. CASE OtherSteps
  BY <1>5 DEF OtherSteps, Next, MessageStep
<1>6. CASE UNCHANGED routeVars
  BY <1>6 DEF routeVars
<1> QED BY <1>1, <1>2, <1>3, <1>4, <1>5, <1>6 DEF RouteNext, Next, MessageStep

\* The history variable only watches.
LEMMA RouteStep == [RouteNext /\ Records]_historyVars => [RouteNext]_routeVars
BY DEF historyVars

LEMMA ImplementsOwnership == RouteSpec => OwnershipSpec
<1>1. RouteInit => OwnershipInit
  BY DEF RouteInit
<1>2. [RouteNext /\ Records]_historyVars => [Next /\ Records]_ownVars
  <2>1. ASSUME RouteNext, Records
        PROVE  [Next /\ Records]_ownVars
    <3>1. Next \/ UNCHANGED vars
      BY <2>1, RouteSteps
    <3> QED BY <2>1, <3>1, NothingToRecord
  <2>2. UNCHANGED historyVars => UNCHANGED ownVars
    BY DEF historyVars, routeVars, ownVars
  <2> QED BY <2>1, <2>2
<1> QED BY <1>1, <1>2, PTL DEF RouteSpec, OwnershipSpec

LEMMA ImplementsQueue == RouteSpec => Spec
BY ImplementsOwnership, OwnershipIsProcessor, PTL

\* No message is executed twice at once, neither for a request that has timed
\* out nor for the copy that was enqueued for it, but one that was swept from
\* under its execution or replied to again.
THEOREM RoutesExecuteOnce == RouteSpec => []OneExecution
BY ImplementsOwnership, NoDoubleExecution, PTL

-----------------------------------------------------------------------------
(* Where clients are.                                                      *)

LEMMA ClientStep ==
  ASSUME RouteTypeOK, [RouteNext]_routeVars
  PROVE  RouteTypeOK'
<1>1. ASSUME NEW m \in Messages, TimesOut(m)
      PROVE  RouteTypeOK'
  <2>1. CASE client' = [client EXCEPT ![m] = "polling"]
    BY <2>1 DEF RouteTypeOK
  <2>2. CASE /\ Copy[m] # Nothing
             /\ client' = [client EXCEPT ![m] = "left", ![Copy[m]] = "polling"]
    BY <2>2, CopyIsMessage DEF RouteTypeOK
  <2> QED BY <1>1, <2>1, <2>2 DEF TimesOut
<1>2. ASSUME NEW m \in Messages, Posts(m) \/ Begins(m) \/ Responds(m) \/ AsksStatus(m)
      PROVE  RouteTypeOK'
  BY <1>2 DEF Posts, Begins, Responds, AsksStatus, RouteTypeOK
<1>3. CASE OtherSteps
  BY <1>3 DEF OtherSteps, RouteTypeOK
<1>4. CASE UNCHANGED routeVars
  BY <1>4 DEF routeVars, RouteTypeOK
<1> QED BY <1>1, <1>2, <1>3, <1>4 DEF RouteNext

\* A client is always in one of the five places the routes know of.
THEOREM ClientsAreSomewhere == RouteSpec => []RouteTypeOK
<1>1. RouteInit => RouteTypeOK
  BY DEF RouteInit, RouteTypeOK
<1>2. RouteTypeOK /\ [RouteNext]_routeVars => RouteTypeOK'
  BY ClientStep
<1> QED BY <1>1, <1>2, RouteStep, PTL DEF RouteSpec

-----------------------------------------------------------------------------
(* What is completed has a response.                                       *)

\* The last commit of an answer comes after the response was stored.
LEMMA AnswerCompletes ==
  ASSUME TypeOK, NEW m \in Messages, NEW k \in 1 .. 3, Answer(m, k),
         row[m].status # "completed", row'[m].status = "completed"
  PROVE  resp'[m] # "none"
<1>1. k >= 3
  BY DEF Answer
<1>2. resp' = Stored(resp, m, "answer")
  BY <1>1 DEF Answer
<1> QED BY <1>2 DEF Stored, TypeOK, DbTypeOK

\* No other end of an execution of a slot completes its message.
LEMMA OthersDoNot ==
  ASSUME TypeOK, NEW m \in Messages, row[m].status # "completed", NEW k, NEW maxRetries,
         \/ Ask(m, k) \/ Fail(m, maxRetries, k)
         \/ HandleCommand(m) \/ RejectUnknownAgent(m)
  PROVE  row'[m].status # "completed"
<1>1. row \in [Messages -> Row]
  BY DEF TypeOK, DbTypeOK
<1>2. CASE Ask(m, k)
  BY <1>1, <1>2, MovedTo DEF Ask, Statuses, TypeOK
<1>3. CASE Fail(m, maxRetries, k)
  <2> DEFINE f == Failed(row[m], maxRetries)
             u == [f EXCEPT !.created = row[m].created]
  <2>1. f \in Row /\ f.status # "completed"
    BY <1>1, FailedRow
  <2>2. FailedUndeferred(row[m], maxRetries) = u
    BY DEF FailedUndeferred
  <2> HIDE DEF f
  <2>3. u.status = f.status
    BY <2>1 DEF Row
  <2> HIDE DEF u
  <2>4. row' = row \/ row' = [row EXCEPT ![m] = f] \/ row' = [row EXCEPT ![m] = u]
    BY <1>3, <2>2 DEF Fail, f
  <2> QED BY <1>1, <2>1, <2>3, <2>4
<1>4. CASE HandleCommand(m)
  BY <1>4 DEF HandleCommand
<1>5. CASE RejectUnknownAgent(m)
  <2> DEFINE f == Failed(row[m], Attempts)
  <2>1. f \in Row /\ f.status # "completed"
    BY <1>1, FailedRow
  <2>2. row' = [row EXCEPT ![m] = f]
    BY <1>5 DEF RejectUnknownAgent
  <2> HIDE DEF f
  <2> QED BY <1>1, <2>1, <2>2
<1> QED BY <1>2, <1>3, <1>4, <1>5

LEMMA CompletionStep ==
  ASSUME TypeOK, Next, NEW n \in Messages, immediate[n] = 0,
         row[n].status # "completed", row'[n].status = "completed"
  PROVE  resp'[n] # "none"
<1>1. DbTypeOK /\ row \in [Messages -> Row]
  BY DEF TypeOK, DbTypeOK
<1>2. MinAge \in Nat /\ SweepAge \in Nat /\ 0 \in Nat
  BY ThresholdAssumption
<1>3. ASSUME NEW rows \in [Messages -> Row], rows[n].status # "completed",
             \/ PoolClaims(rows)
             \/ row' = rows /\ slot' = slot /\ activeThreads' = activeThreads
      PROVE  FALSE
  <2>1. Moved(rows[n], "processing").status # "completed"
    BY <1>3, MovedRow DEF Statuses
  <2> QED BY <1>3, <2>1, PoolEffect DEF Passed, Taken
<1>4. CASE Poll
  BY <1>1, <1>3, <1>4, ProcessNextEffect DEF Poll
<1>5. CASE Start
  <2>1. /\ ResetOrphans(row, MinAge, 0) \in [Messages -> Row]
        /\ ResetOrphans(row, MinAge, 0)[n].status # "completed"
    BY <1>1, <1>2, ResetType, OrphanedRow DEF ResetOrphans
  <2>2. ProcessNext(ResetOrphans(row, MinAge, 0))
    BY <1>5 DEF Start
  <2> QED BY <1>3, <2>1, <2>2, ProcessNextEffect
<1>6. CASE Cleanup
  <2>1. /\ row' = ResetOrphans(Expired(row), SweepAge, MinAge)
        /\ Expired(row) \in [Messages -> Row]
        /\ Expired(row)[n].status # "completed"
    BY <1>1, <1>6, CleanupType, ExpiredEffect
  <2>2. row'[n] = Orphaned(Expired(row)[n], SweepAge, MinAge)
    BY <2>1 DEF ResetOrphans
  <2>3. Expired(row)[n] \in Row
    BY <2>1
  <2> DEFINE r == Expired(row)[n]
  <2>4. Orphaned(r, SweepAge, MinAge).status # "completed"
    <3> HIDE DEF r
    <3>1. r \in Row /\ r.status # "completed"
      BY <2>1, <2>3 DEF r
    <3>2. \/ Orphaned(r, SweepAge, MinAge) = r
          \/ Orphaned(r, SweepAge, MinAge).status \in {"dead_letter", "pending"}
      BY <1>2, <3>1, OrphanedRow
    <3> QED BY <3>1, <3>2
  <2> QED BY <2>2, <2>4
<1>7. CASE Tick
  <2>1. PICK reported \in SUBSET {m \in Messages : Live(m)} :
          row' = [m \in Messages |-> Aged(row[m], m \in reported)]
    BY <1>7 DEF Tick
  <2>2. Aged(row[n], n \in reported).status = row[n].status
    BY <1>1, AgedRow
  <2> QED BY <2>1, <2>2
<1>8. CASE CrashInCleanup
  BY <1>1, <1>8, ExpiredEffect DEF CrashInCleanup
<1>9. CASE ClearRows
  BY <1>1, <1>9, ClearRowsEffect DEF ClearRows
<1>10. CASE Crash \/ Exit \/ Drain \/ DrainCompletes \/ DrainTimesOut
  BY <1>10 DEF Crash, Exit, Drain, DrainCompletes, DrainTimesOut, dbVars
<1>11. ASSUME NEW a \in Agents, StartLink(a)
       PROVE  FALSE
  <2>1. a \in Slots /\ slot \in [Slots -> Messages \cup {Nothing}]
    BY DEF Slots, TypeOK
  <2>2. Moved(row[n], "processing").status # "completed"
    BY <1>1, MovedRow DEF Statuses
  <2> QED BY <1>1, <1>11, <2>1, <2>2, StartLinkEffect, ClaimEffect DEF Passed, Taken
<1>12. ASSUME NEW s \in Slots, FinishSlot(s) \/ CrashInSlot(s), slot[s] = n
       PROVE  resp'[n] # "none"
  <2>1. CASE \E k \in 1 .. 3 : Answer(n, k)
    BY <2>1, AnswerCompletes
  <2>2. CASE \/ \E k, maxRetries : Ask(n, k) \/ Fail(n, maxRetries, k)
             \/ HandleCommand(n) \/ RejectUnknownAgent(n)
    BY <2>2, OthersDoNot
  <2> QED BY <1>12, <2>1, <2>2
        DEF FinishSlot, CrashInSlot, SlotAnswers, SlotAsks, SlotFails,
            SlotHandlesCommand, SlotRejects
<1>13. ASSUME NEW s \in Slots, FinishSlot(s) \/ CrashInSlot(s)
       PROVE  slot[s] = n
  <2>1. slot[s] \in Messages
    BY <1>13, FinishSlotEffect DEF CrashInSlot, Executing, TypeOK
  <2>2. Settles(slot[s])
    BY <1>13, <2>1, FinishSlotEffect, CrashInExecutionEffect
  <2> QED BY <2>1, <2>2 DEF Settles
<1>14. ASSUME NEW m \in Messages, FinishImmediate(m) \/ CrashInImmediate(m)
       PROVE  FALSE
  <2>1. m # n
    BY <1>14, FinishImmediateEffect DEF CrashInImmediate, ExecutingImmediate
  <2>2. Settles(m)
    BY <1>14, FinishImmediateEffect, CrashInExecutionEffect
  <2> QED BY <2>1, <2>2 DEF Settles
<1>15. ASSUME NEW m \in Messages, Enqueue(m) \/ EnqueueImmediate(m)
       PROVE  FALSE
  <2>1. PICK status \in {"pending", "processing"} : OnEnqueued(Inserted(row, m, status))
    BY <1>15 DEF Enqueue, EnqueueImmediate
  <2>2. /\ Inserted(row, m, status) \in [Messages -> Row]
        /\ Inserted(row, m, status)[n].status # "completed"
    <3>1. status \in Statuses /\ status # "completed"
      BY DEF Statuses
    <3>2. m = n \/ m # n
      OBVIOUS
    <3>3. /\ Inserted(row, m, status) \in [Messages -> Row]
          /\ Inserted(row, m, status)[m].status = status
          /\ m # n => Inserted(row, m, status)[n] = row[n]
      BY <1>1, <3>1, InsertedType
    <3> QED BY <3>1, <3>2, <3>3
  <2> QED BY <1>3, <2>1, <2>2, OnEnqueuedEffect
<1>16. ASSUME NEW m \in Messages, ReplyAsync(m)
       PROVE  FALSE
  <2>1. /\ [row EXCEPT ![m] = Moved(@, "pending")] \in [Messages -> Row]
        /\ [row EXCEPT ![m] = Moved(@, "pending")][n].status # "completed"
    BY <1>1, <1>16, MovedTo DEF Statuses, ReplyAsync, Resumed
  <2> QED BY <1>3, <1>16, <2>1, OnEnqueuedEffect DEF ReplyAsync
<1>17. ASSUME NEW m \in Messages, ReplySync(m) \/ DropReply(m)
       PROVE  FALSE
  BY <1>17 DEF ReplySync, DropReply, dbVars
<1>18. ASSUME NEW m \in Messages, ApplyReply(m) \/ ReplyInConversation(m)
       PROVE  FALSE
  <2>1. row' = [row EXCEPT ![m] = Moved(@, "processing")] /\ row[m].status # "deleted"
    BY <1>18 DEF ApplyReply, ReplyInConversation, Resumed
  <2> QED BY <1>1, <2>1, MovedTo DEF Statuses
<1> QED
  BY <1>4, <1>5, <1>6, <1>7, <1>8, <1>9, <1>10, <1>11, <1>12, <1>13, <1>14, <1>15,
     <1>16, <1>17, <1>18 DEF Next, MessageStep

\* What a chain or the pool completes has a response, wherever it crashes.
THEOREM CompletedIsAnswered == RouteSpec => CompletedHasResponse
<1>1. ASSUME TypeOK, Next
      PROVE  \A s \in Slots :
               /\ slot[s] # Nothing /\ immediate[slot[s]] = 0
               /\ row[slot[s]].status # "completed" /\ row'[slot[s]].status = "completed"
               => resp'[slot[s]] # "none"
  <2>1. \A s \in Slots : slot[s] # Nothing => slot[s] \in Messages
    BY <1>1 DEF TypeOK
  <2> QED BY <1>1, <2>1, CompletionStep
<1>2. TypeOK /\ [Next]_vars
      => [\A s \in Slots :
            /\ slot[s] # Nothing /\ immediate[slot[s]] = 0
            /\ row[slot[s]].status # "completed" /\ row'[slot[s]].status = "completed"
            => resp'[slot[s]] # "none"]_vars
  BY <1>1
<1> QED BY <1>2, ImplementsQueue, TypeCorrect, PTL DEF Spec, CompletedHasResponse
=============================================================================
