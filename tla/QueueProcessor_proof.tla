------------------------ MODULE QueueProcessor_proof ------------------------
(***************************************************************************)
(* Proofs about QueueProcessor and QueueOwnership, for every set of        *)
(* messages, agents and threads, every value of the timeouts and limits,   *)
(* and whichever executions are silent and whichever users reply again.    *)
(***************************************************************************)
EXTENDS QueueOwnership, FiniteSetTheorems, TLAPS

-----------------------------------------------------------------------------
(* What the row operators return.                                          *)

LEMMA MovedRow ==
  ASSUME NEW r \in Row, NEW status \in Statuses
  PROVE  /\ Moved(r, status) \in Row
         /\ r.status # "deleted" => /\ Moved(r, status).status = status
                                    /\ Moved(r, status).updated = 0
         /\ r.status = "deleted" => Moved(r, status) = r
<1> DEFINE r1 == [r EXCEPT !.status = status]
           r2 == [r1 EXCEPT !.updated = 0]
<1>1. r1 \in Row /\ r1.status = status
  BY DEF Row
<1>2. r2 \in Row /\ r2.status = r1.status /\ r2.updated = 0
  <2> HIDE DEF r1
  <2> QED BY <1>1, ThresholdAssumption DEF Row
<1>3. [r EXCEPT !.status = status, !.updated = 0] = r2
  BY DEF Row
<1> HIDE DEF r2
<1>4. QED
  BY <1>1, <1>2, <1>3 DEF Moved

LEMMA NewRowType ==
  ASSUME NEW status \in Statuses
  PROVE  NewRow(status) \in Row /\ NewRow(status).status = status /\ NewRow(status).updated = 0
BY ThresholdAssumption DEF NewRow, Row

LEMMA RetriedType ==
  ASSUME NEW r \in Row
  PROVE  Retried(r) \in 0..Attempts
BY ThresholdAssumption DEF Retried, Row

LEMMA FailedRow ==
  ASSUME NEW r \in Row, NEW maxRetries
  PROVE  /\ Failed(r, maxRetries) \in Row
         /\ r.status # "deleted" => Failed(r, maxRetries).status \in {"pending", "dead_letter"}
         /\ r.status = "deleted" => Failed(r, maxRetries) = r
<1> DEFINE d == Moved(r, "dead_letter")
           p == Moved(r, "pending")
<1>1. {"dead_letter", "pending"} \subseteq Statuses
  BY DEF Statuses
<1>2. /\ d \in Row /\ p \in Row
      /\ r.status # "deleted" => d.status = "dead_letter" /\ p.status = "pending"
  BY <1>1, MovedRow
<1>3. Retried(r) \in 0..Attempts
  BY RetriedType
<1> HIDE DEF d, p
<1>4. /\ [d EXCEPT !.retry = Retried(r)] \in Row
      /\ [d EXCEPT !.retry = Retried(r)].status = d.status
  BY <1>2, <1>3 DEF Row
<1> DEFINE q == [p EXCEPT !.retry = Retried(r)]
<1>5. q \in Row /\ q.status = p.status
  BY <1>2, <1>3 DEF Row
<1>6. [p EXCEPT !.retry = Retried(r), !.created = -1] = [q EXCEPT !.created = -1]
  BY <1>2 DEF Row
<1> HIDE DEF q
<1>7. [q EXCEPT !.created = -1] \in Row /\ [q EXCEPT !.created = -1].status = q.status
  BY <1>5, ThresholdAssumption DEF Row
<1>8. QED
  BY <1>2, <1>4, <1>5, <1>6, <1>7 DEF Failed, d, p

LEMMA OrphanedRow ==
  ASSUME NEW r \in Row, NEW maxAge \in Nat, NEW minAge \in Nat
  PROVE  /\ Orphaned(r, maxAge, minAge) \in Row
         /\ r.status # "processing" => Orphaned(r, maxAge, minAge) = r
         /\ r.status = "processing" =>
              \/ Orphaned(r, maxAge, minAge) = r
              \/ Orphaned(r, maxAge, minAge).status = "dead_letter"
              \/ /\ Orphaned(r, maxAge, minAge).status = "pending"
                 /\ r.updated >= minAge
<1> DEFINE d == Moved(r, "dead_letter")
           p == Moved(r, "pending")
<1>1. {"dead_letter", "pending"} \subseteq Statuses
  BY DEF Statuses
<1>2. /\ d \in Row /\ p \in Row
      /\ r.status # "deleted" => d.status = "dead_letter" /\ p.status = "pending"
  BY <1>1, MovedRow
<1>3. Retried(r) \in 0..Attempts
  BY RetriedType
<1> HIDE DEF d, p
<1>4. /\ [p EXCEPT !.retry = Retried(r)] \in Row
      /\ [p EXCEPT !.retry = Retried(r)].status = p.status
  BY <1>2, <1>3 DEF Row
<1>5. QED
  BY <1>2, <1>4 DEF Orphaned, d, p

LEMMA AgedRow ==
  ASSUME NEW r \in Row, NEW m, NEW reported
  PROVE  /\ Aged(r, m \in reported) \in Row
         /\ Aged(r, m \in reported).status = r.status
         /\ r.status = "processing" /\ m \in reported => Aged(r, m \in reported).updated = 0
<1>1. /\ Older(r.created, WallAge + 1) \in -1..(WallAge + 1)
      /\ Older(r.updated, SweepAge + 1) \in 0..(SweepAge + 1)
  BY ThresholdAssumption DEF Older, Row
<1> DEFINE u == IF m \in reported THEN 0
                ELSE IF r.status = "processing" THEN Older(r.updated, SweepAge + 1)
                ELSE r.updated
           r1 == [r EXCEPT !.created = Older(r.created, WallAge + 1)]
           r2 == [r1 EXCEPT !.updated = u]
<1>2. u \in 0..(SweepAge + 1)
  BY <1>1, ThresholdAssumption DEF Row
<1>3. r1 \in Row /\ r1.status = r.status /\ r1.updated = r.updated
  BY <1>1 DEF Row
<1>4. [r EXCEPT !.created = Older(@, WallAge + 1),
                !.updated = IF m \in reported THEN 0
                            ELSE IF r.status = "processing" THEN Older(@, SweepAge + 1)
                            ELSE @] = r2
  BY DEF Row
<1> HIDE DEF u, r1
<1>5. r2 \in Row /\ r2.status = r1.status /\ r2.updated = u
  BY <1>2, <1>3 DEF Row
<1> HIDE DEF r2
<1>6. QED
  BY <1>3, <1>4, <1>5 DEF Aged, u

-----------------------------------------------------------------------------
(* What a step that may claim does: rows is the messages table before the  *)
(* claim.                                                                  *)

\* The pool takes a pending message of rows for a thread that has none.
PoolClaims(rows) ==
  \E m \in Messages, t \in Threads :
    /\ rows[m].status = "pending"
    /\ slot[t] = Nothing
    /\ activeThreads < MaxThreads
    /\ row' = Claimed(rows, m)
    /\ slot' = [slot EXCEPT ![t] = m]
    /\ activeThreads' = activeThreads + 1

LEMMA ProcessNextEffect ==
  ASSUME TypeOK, NEW rows, ProcessNext(rows)
  PROVE  /\ agentChains' \subseteq Agents
         /\ links' \in [Agents -> 0..MaxLinks]
         /\ \/ PoolClaims(rows)
            \/ row' = rows /\ slot' = slot /\ activeThreads' = activeThreads
<1>1. agentChains' \subseteq Agents
  BY DEF ProcessNext, AppendLinks, TypeOK
<1>2. links' \in [Agents -> 0..MaxLinks]
  BY ProcessorAssumption DEF ProcessNext, AppendLinks, TypeOK
<1>3. ASSUME NEW m \in First(rows, IF activeThreads < MaxThreads
                                     THEN ClaimableThread(rows, ActiveThreadIds) ELSE {}),
             row' = Claimed(rows, m),
             slot' = [slot EXCEPT ![MsgThread[m]] = m],
             activeThreads' = activeThreads + 1
      PROVE  PoolClaims(rows)
  <2>1. activeThreads < MaxThreads /\ m \in ClaimableThread(rows, ActiveThreadIds)
    BY <1>3 DEF First
  <2>2. m \in Messages /\ rows[m].status = "pending" /\ MsgThread[m] # Nothing
        /\ MsgThread[m] \notin ActiveThreadIds
    BY <2>1 DEF ClaimableThread, Pending
  <2>3. MsgThread[m] \in Threads
    BY <2>2, AttributeAssumption
  <2>4. slot[MsgThread[m]] = Nothing
    BY <2>2, <2>3 DEF ActiveThreadIds
  <2>5. QED
    BY <1>3, <2>1, <2>2, <2>3, <2>4 DEF PoolClaims
<1>4. QED
  BY <1>1, <1>2, <1>3 DEF ProcessNext

LEMMA OnEnqueuedEffect ==
  ASSUME TypeOK, NEW rows, OnEnqueued(rows)
  PROVE  /\ agentChains' \subseteq Agents
         /\ links' \in [Agents -> 0..MaxLinks]
         /\ \/ PoolClaims(rows)
            \/ row' = rows /\ slot' = slot /\ activeThreads' = activeThreads
<1>1. CASE phase = "running" /\ ProcessNext(rows)
  BY <1>1, ProcessNextEffect
<1>2. CASE phase # "running"
  BY <1>2 DEF OnEnqueued, TypeOK
<1>3. QED
  BY <1>1, <1>2 DEF OnEnqueued

\* n is untouched by the claim.
Passed(rows, n) == row'[n] = rows[n] /\ \A s \in Slots : slot'[s] = n <=> slot[s] = n

\* n is the message that was claimed.
Taken(rows, n) ==
  /\ rows[n].status = "pending"
  /\ row'[n] = Moved(rows[n], "processing")
  /\ \E s \in Slots : /\ slot[s] = Nothing /\ slot'[s] = n
                      /\ \A t \in Slots : t # s => slot'[t] = slot[t]

LEMMA ClaimEffect ==
  ASSUME NEW rows \in [Messages -> Row], NEW n \in Messages,
         slot \in [Slots -> Messages \cup {Nothing}],
         NEW m \in Messages, NEW s \in Slots,
         rows[m].status = "pending", slot[s] = Nothing,
         row' = Claimed(rows, m), slot' = [slot EXCEPT ![s] = m]
  PROVE  /\ row' \in [Messages -> Row]
         /\ slot' \in [Slots -> Messages \cup {Nothing}]
         /\ Passed(rows, n) \/ Taken(rows, n)
<1>1. Moved(rows[m], "processing") \in Row
  <2>1. "processing" \in Statuses
    BY DEF Statuses
  <2>2. QED
    BY <2>1, MovedRow
<1>2. row' \in [Messages -> Row]
  BY <1>1 DEF Claimed
<1>3. slot' \in [Slots -> Messages \cup {Nothing}]
  OBVIOUS
<1>4. CASE n = m
  <2>1. row'[n] = Moved(rows[n], "processing")
    BY <1>4 DEF Claimed
  <2>2. slot'[s] = n /\ \A t \in Slots : t # s => slot'[t] = slot[t]
    BY <1>4
  <2>3. QED
    BY <1>2, <1>3, <1>4, <2>1, <2>2 DEF Taken
<1>5. CASE n # m
  <2>1. row'[n] = rows[n]
    BY <1>5 DEF Claimed
  <2>2. \A t \in Slots : slot'[t] = n <=> slot[t] = n
    BY <1>5, NothingAssumption
  <2>3. QED
    BY <1>2, <1>3, <2>1, <2>2 DEF Passed
<1>6. QED
  BY <1>4, <1>5

LEMMA PoolEffect ==
  ASSUME TypeOK, NEW rows \in [Messages -> Row],
         \/ PoolClaims(rows)
         \/ row' = rows /\ slot' = slot /\ activeThreads' = activeThreads
  PROVE  /\ row' \in [Messages -> Row]
         /\ slot' \in [Slots -> Messages \cup {Nothing}]
         /\ activeThreads' \in Int
         /\ \A n \in Messages : Passed(rows, n) \/ Taken(rows, n)
<1>1. CASE row' = rows /\ slot' = slot /\ activeThreads' = activeThreads
  BY <1>1 DEF TypeOK, Passed
<1>2. CASE PoolClaims(rows)
  <2>1. PICK m \in Messages, t \in Threads :
          /\ rows[m].status = "pending" /\ slot[t] = Nothing
          /\ row' = Claimed(rows, m) /\ slot' = [slot EXCEPT ![t] = m]
          /\ activeThreads' = activeThreads + 1
    BY <1>2 DEF PoolClaims
  <2>2. t \in Slots /\ slot \in [Slots -> Messages \cup {Nothing}] /\ activeThreads \in Int
    BY DEF Slots, TypeOK
  <2>3. \A n \in Messages :
          /\ row' \in [Messages -> Row]
          /\ slot' \in [Slots -> Messages \cup {Nothing}]
          /\ Passed(rows, n) \/ Taken(rows, n)
    BY <2>1, <2>2, ClaimEffect
  <2>4. QED
    BY <2>1, <2>2, <2>3
<1>3. QED
  BY <1>1, <1>2

-----------------------------------------------------------------------------
(* What the end of an execution of m does to the database.                 *)

\* A message that waits for its user, or has lapsed, has had no reply.
Unanswered(m) == row[m].status \in {"suspended", "failed"} => asked[m] # "answered"

\* The question of m is on record exactly when it should be.
InOrder(m) ==
  /\ asked[m] = "waiting" <=> row[m].status \in {"suspended", "failed"}
  /\ row[m].status \in {"absent", "completed"} => asked[m] = "none"

\* m is past its question, if it had one, and not done.
PastQuestion(m) ==
  asked[m] # "waiting" /\ row[m].status \notin {"absent", "completed", "suspended", "failed"}

\* Only m is touched: it is done with, given back or asks its user.
Settles(m) ==
  /\ DbTypeOK'
  /\ \A n \in Messages : n # m => row'[n] = row[n] /\ asked'[n] = asked[n]
  /\ row'[m].status \in {"completed", "suspended", "pending", "dead_letter", row[m].status}
  /\ Unanswered(m) => Unanswered(m)'
  /\ PastQuestion(m) => InOrder(m)'

LEMMA StoredType ==
  ASSUME DbTypeOK, NEW m \in Messages, NEW kind \in ResponseKinds
  PROVE  Stored(resp, m, kind) \in [Messages -> ResponseKinds]
BY DEF Stored, DbTypeOK

LEMMA ClearEffect ==
  ASSUME DbTypeOK, NEW m \in Messages, Clear(m) \/ Keep
  PROVE  /\ asked' \in [Messages -> {"none", "waiting", "answered"}]
         /\ askedAge' \in [Messages -> 0..InputTimeout]
         /\ \A n \in Messages : n # m => asked'[n] = asked[n]
         /\ Clear(m) => asked'[m] = "none"
         /\ asked'[m] \in {"none", asked[m]}
BY ThresholdAssumption DEF DbTypeOK, Clear, Keep

LEMMA UpdatedRow ==
  ASSUME DbTypeOK, NEW m \in Messages, NEW r \in Row, row' = [row EXCEPT ![m] = r]
  PROVE  /\ row' \in [Messages -> Row]
         /\ row'[m] = r
         /\ \A n \in Messages : n # m => row'[n] = row[n]
BY DEF DbTypeOK

LEMMA AnswerEffect ==
  ASSUME DbTypeOK, NEW m \in Messages, NEW k \in Nat, Answer(m, k) \/ AnswerImmediate(m, k)
  PROVE  Settles(m)
<1> DEFINE r == Moved(row[m], "completed")
<1>1. r \in Row /\ r.status \in {"completed", row[m].status}
  <2>1. "completed" \in Statuses /\ row[m] \in Row
    BY DEF Statuses, DbTypeOK
  <2>2. QED
    BY <2>1, MovedRow
<1>2. \/ row' = [row EXCEPT ![m] = r] /\ Clear(m)
      \/ row' = row
  BY DEF Answer, AnswerImmediate
<1>3. Clear(m) \/ Keep
  BY DEF Answer, AnswerImmediate
<1>4. resp' \in [Messages -> ResponseKinds]
  <2>1. resp' = Stored(resp, m, "answer") \/ resp' = resp
    BY DEF Answer, AnswerImmediate
  <2>2. QED
    BY <2>1, StoredType DEF DbTypeOK, ResponseKinds
<1> HIDE DEF r
<1>5. /\ row' \in [Messages -> Row]
      /\ row'[m].status \in {"completed", row[m].status}
      /\ row'[m].status # row[m].status => Clear(m)
      /\ \A n \in Messages : n # m => row'[n] = row[n]
  BY <1>1, <1>2, UpdatedRow DEF DbTypeOK
<1>6. /\ asked'[m] \in {"none", asked[m]}
      /\ row'[m].status # row[m].status => asked'[m] = "none"
  BY <1>3, <1>5, ClearEffect
<1>7. Unanswered(m) => Unanswered(m)'
  BY <1>5, <1>6 DEF Unanswered
<1>8. PastQuestion(m) => InOrder(m)'
  BY <1>5, <1>6 DEF PastQuestion, InOrder
<1>9. QED
  BY <1>3, <1>4, <1>5, <1>7, <1>8, ClearEffect DEF Settles, DbTypeOK

LEMMA AskEffect ==
  ASSUME DbTypeOK, NEW m \in Messages, NEW k, Ask(m, k)
  PROVE  Settles(m)
<1> DEFINE r == Moved(row[m], "suspended")
<1>1. r \in Row /\ r.status = "suspended"
  <2>1. "suspended" \in Statuses /\ row[m] \in Row /\ row[m].status # "deleted"
    BY DEF Statuses, DbTypeOK, Ask
  <2>2. QED
    BY <2>1, MovedRow
<1>2. row' = [row EXCEPT ![m] = r]
  BY DEF Ask
<1>3. resp' \in [Messages -> ResponseKinds]
  <2>1. resp' = Stored(resp, m, "interim") \/ resp' = resp
    BY DEF Ask
  <2>2. QED
    BY <2>1, StoredType DEF DbTypeOK, ResponseKinds
<1>4. /\ asked' \in [Messages -> {"none", "waiting", "answered"}]
      /\ askedAge' \in [Messages -> 0..InputTimeout]
      /\ asked'[m] = "waiting"
      /\ \A n \in Messages : n # m => asked'[n] = asked[n]
  BY ThresholdAssumption DEF Ask, DbTypeOK
<1> HIDE DEF r
<1>5. /\ row' \in [Messages -> Row]
      /\ row'[m].status = "suspended"
      /\ \A n \in Messages : n # m => row'[n] = row[n]
  BY <1>1, <1>2, UpdatedRow
<1>6. Unanswered(m)' /\ InOrder(m)'
  BY <1>4, <1>5 DEF Unanswered, InOrder
<1>7. QED
  BY <1>3, <1>4, <1>5, <1>6 DEF Settles, DbTypeOK

LEMMA FailEffect ==
  ASSUME DbTypeOK, NEW m \in Messages, NEW maxRetries, NEW k,
         Fail(m, maxRetries, k)
  PROVE  Settles(m)
<1> DEFINE r == Failed(row[m], maxRetries)
           u == FailedUndeferred(row[m], maxRetries)
<1>1. r \in Row /\ r.status \in {"pending", "dead_letter", row[m].status}
  BY FailedRow DEF DbTypeOK
<1>7. u \in Row /\ u.status = r.status
  BY <1>1 DEF DbTypeOK, Row, FailedUndeferred
<1>2. row' = [row EXCEPT ![m] = r] \/ row' = [row EXCEPT ![m] = u] \/ row' = row
  BY DEF Fail
<1>3. Clear(m) \/ Keep
  BY DEF Fail
<1>4. resp' \in [Messages -> ResponseKinds]
  <2>1. resp' = Stored(resp, m, "interim") \/ resp' = resp
    BY DEF Fail
  <2>2. QED
    BY <2>1, StoredType DEF DbTypeOK, ResponseKinds
<1> HIDE DEF r, u
<1>5. /\ row' \in [Messages -> Row]
      /\ row'[m].status \in {"pending", "dead_letter", row[m].status}
      /\ \A n \in Messages : n # m => row'[n] = row[n]
  BY <1>1, <1>7, <1>2, UpdatedRow DEF DbTypeOK
<1>6. asked'[m] \in {"none", asked[m]}
  BY <1>3, ClearEffect
<1>8. Unanswered(m) => Unanswered(m)'
  BY <1>5, <1>6 DEF Unanswered
<1>9. PastQuestion(m) => InOrder(m)'
  BY <1>5, <1>6 DEF PastQuestion, InOrder
<1>10. QED
  BY <1>3, <1>4, <1>5, <1>8, <1>9, ClearEffect DEF Settles, DbTypeOK

LEMMA RejectEffect ==
  ASSUME DbTypeOK, NEW m \in Messages, RejectUnknownAgent(m)
  PROVE  Settles(m)
<1> DEFINE r == Failed(row[m], Attempts)
<1>1. r \in Row /\ r.status \in {"pending", "dead_letter", row[m].status}
  BY FailedRow DEF DbTypeOK
<1>2. row' = [row EXCEPT ![m] = r]
  BY DEF RejectUnknownAgent
<1> HIDE DEF r
<1>3. /\ row' \in [Messages -> Row]
      /\ row'[m].status \in {"pending", "dead_letter", row[m].status}
      /\ \A n \in Messages : n # m => row'[n] = row[n]
  BY <1>1, <1>2, UpdatedRow
<1>4. asked' = asked
  BY DEF RejectUnknownAgent
<1>5. Unanswered(m) => Unanswered(m)'
  BY <1>3, <1>4 DEF Unanswered
<1>6. PastQuestion(m) => InOrder(m)'
  BY <1>3, <1>4 DEF PastQuestion, InOrder
<1>7. QED
  BY <1>3, <1>4, <1>5, <1>6 DEF RejectUnknownAgent, Settles, DbTypeOK

LEMMA CommandEffect ==
  ASSUME DbTypeOK, NEW m \in Messages, HandleCommand(m)
  PROVE  Settles(m)
<1>1. resp' \in [Messages -> ResponseKinds]
  BY StoredType DEF HandleCommand, DbTypeOK, ResponseKinds
<1>2. UNCHANGED <<row, asked, askedAge>>
  BY DEF HandleCommand
<1>3. (Unanswered(m) => Unanswered(m)') /\ (PastQuestion(m) => InOrder(m)')
  BY <1>2 DEF Unanswered, PastQuestion, InOrder
<1>4. QED
  BY <1>1, <1>2, <1>3 DEF Settles, DbTypeOK

LEMMA TeamEffect ==
  ASSUME DbTypeOK, NEW m \in Messages, TeamCompletes(m)
  PROVE  Settles(m)
<1> DEFINE r == Moved(row[m], "completed")
<1>1. r \in Row /\ r.status \in {"completed", row[m].status}
  <2>1. "completed" \in Statuses /\ row[m] \in Row
    BY DEF Statuses, DbTypeOK
  <2>2. QED
    BY <2>1, MovedRow
<1>2. row' = [row EXCEPT ![m] = r]
  BY DEF TeamCompletes
<1> HIDE DEF r
<1>3. /\ row' \in [Messages -> Row]
      /\ row'[m].status \in {"completed", row[m].status}
      /\ \A n \in Messages : n # m => row'[n] = row[n]
  BY <1>1, <1>2, UpdatedRow
<1>4. UNCHANGED <<asked, askedAge, resp>> /\ asked[m] \in {"none", "waiting"}
  BY DEF TeamCompletes, ByTeam, DbTypeOK
<1>5. Unanswered(m)'
  BY <1>4 DEF Unanswered
<1>6. PastQuestion(m) => InOrder(m)'
  BY <1>3, <1>4 DEF PastQuestion, InOrder
<1>7. QED
  BY <1>3, <1>4, <1>5, <1>6 DEF Settles, DbTypeOK

\* Everything that can end an execution held by a slot, and by a caller.
LEMMA FinishSlotEffect ==
  ASSUME TypeOK, NEW s \in Slots, FinishSlot(s)
  PROVE  /\ slot[s] \in Messages /\ phase # "down"
         /\ Settles(slot[s])
         /\ Leave(s)
<1>1. slot[s] \in Messages /\ phase # "down" /\ Leave(s)
  BY DEF FinishSlot, SlotAnswers, SlotAsks, SlotFails, SlotHandlesCommand, SlotRejects,
         Executing, TypeOK
<1>2. DbTypeOK
  BY DEF TypeOK
<1>3. CASE SlotAnswers(s)
  BY <1>1, <1>2, <1>3, AnswerEffect DEF SlotAnswers
<1>4. CASE SlotAsks(s)
  BY <1>1, <1>2, <1>4, AskEffect DEF SlotAsks
<1>5. CASE SlotFails(s)
  BY <1>1, <1>2, <1>5, FailEffect DEF SlotFails
<1>6. CASE SlotHandlesCommand(s)
  BY <1>1, <1>2, <1>6, CommandEffect DEF SlotHandlesCommand
<1>7. CASE SlotRejects(s)
  BY <1>1, <1>2, <1>7, RejectEffect DEF SlotRejects
<1>8. QED
  BY <1>1, <1>3, <1>4, <1>5, <1>6, <1>7 DEF FinishSlot

LEMMA FinishImmediateEffect ==
  ASSUME TypeOK, NEW m \in Messages, FinishImmediate(m)
  PROVE  /\ immediate[m] > 0 /\ phase # "down"
         /\ Settles(m)
         /\ LeaveImmediate(m)
<1>1. immediate[m] > 0 /\ phase # "down" /\ LeaveImmediate(m)
  BY DEF FinishImmediate, ImmediateAnswers, ImmediateAsks, ImmediateFails, TeamCompletes,
         ImmediateThrows, ExecutingImmediate
<1>2. DbTypeOK
  BY DEF TypeOK
<1>3. CASE ImmediateAnswers(m)
  BY <1>1, <1>2, <1>3, AnswerEffect DEF ImmediateAnswers
<1>4. CASE ImmediateAsks(m)
  BY <1>1, <1>2, <1>4, AskEffect DEF ImmediateAsks
<1>5. CASE ImmediateFails(m)
  BY <1>1, <1>2, <1>5, FailEffect DEF ImmediateFails
<1>6. CASE TeamCompletes(m)
  BY <1>1, <1>2, <1>6, TeamEffect
<1>7. CASE ImmediateThrows(m)
  <2>1. UNCHANGED dbVars
    BY <1>7 DEF ImmediateThrows
  <2>2. (Unanswered(m) => Unanswered(m)') /\ (PastQuestion(m) => InOrder(m)')
    BY <2>1 DEF dbVars, Unanswered, PastQuestion, InOrder
  <2>3. QED
    BY <1>1, <1>2, <2>1, <2>2 DEF dbVars, Settles, DbTypeOK
<1>8. QED
  BY <1>1, <1>3, <1>4, <1>5, <1>6, <1>7 DEF FinishImmediate

LEMMA CrashInExecutionEffect ==
  ASSUME TypeOK, NEW m \in Messages,
         \/ \E s \in Slots : slot[s] = m /\ CrashInSlot(s)
         \/ CrashInImmediate(m)
  PROVE  Live(m) /\ Settles(m) /\ LoseProcess
<1>1. Live(m) /\ LoseProcess
  BY DEF CrashInSlot, CrashInImmediate, ExecutingImmediate, Live
<1>2. DbTypeOK
  BY DEF TypeOK
<1>3. ASSUME NEW k \in Nat, Answer(m, k) \/ AnswerImmediate(m, k)
      PROVE  Settles(m)
  BY <1>2, <1>3, AnswerEffect
<1>4. ASSUME NEW k, Ask(m, k)
      PROVE  Settles(m)
  BY <1>2, <1>4, AskEffect
<1>5. ASSUME NEW maxRetries, NEW k, Fail(m, maxRetries, k)
      PROVE  Settles(m)
  BY <1>2, <1>5, FailEffect
<1>6. CASE CrashInImmediate(m)
  BY <1>1, <1>3, <1>4, <1>5, <1>6 DEF CrashInImmediate
<1>7. ASSUME NEW s \in Slots, slot[s] = m, CrashInSlot(s)
      PROVE  Settles(m)
  BY <1>1, <1>3, <1>4, <1>5, <1>7 DEF CrashInSlot
<1>8. QED
  BY <1>1, <1>6, <1>7

-----------------------------------------------------------------------------
(* Type correctness.                                                       *)

LEMMA InsertedType ==
  ASSUME DbTypeOK, NEW m \in Messages, NEW status \in Statuses
  PROVE  /\ Inserted(row, m, status) \in [Messages -> Row]
         /\ Inserted(row, m, status)[m].status = status
         /\ Inserted(row, m, status)[m].updated = 0
         /\ \A n \in Messages : n # m => Inserted(row, m, status)[n] = row[n]
<1> DEFINE r == NewRow(status)
<1>1. r \in Row /\ r.status = status /\ r.updated = 0
  BY NewRowType
<1> HIDE DEF r
<1>2. Inserted(row, m, status) = [row EXCEPT ![m] = r]
  BY DEF Inserted, r
<1>3. QED
  BY <1>1, <1>2 DEF DbTypeOK

LEMMA MovedTo ==
  ASSUME DbTypeOK, NEW m \in Messages, NEW status \in Statuses
  PROVE  /\ [row EXCEPT ![m] = Moved(@, status)] \in [Messages -> Row]
         /\ row[m].status # "deleted" =>
              /\ [row EXCEPT ![m] = Moved(@, status)][m].status = status
              /\ [row EXCEPT ![m] = Moved(@, status)][m].updated = 0
         /\ \A n \in Messages :
              n # m => [row EXCEPT ![m] = Moved(@, status)][n] = row[n]
<1> DEFINE r == Moved(row[m], status)
<1>1. r \in Row /\ (row[m].status # "deleted" => r.status = status /\ r.updated = 0)
  BY MovedRow DEF DbTypeOK
<1> HIDE DEF r
<1>2. [row EXCEPT ![m] = Moved(@, status)] = [row EXCEPT ![m] = r]
  BY DEF r
<1>3. QED
  BY <1>1, <1>2 DEF DbTypeOK

LEMMA ExpiredEffect ==
  ASSUME DbTypeOK
  PROVE  /\ Expired(row) \in [Messages -> Row]
         /\ \A m \in Messages :
              \/ Expired(row)[m] = row[m]
              \/ row[m].status = "suspended" /\ Expired(row)[m].status = "failed"
<1>1. ASSUME NEW m \in Messages
      PROVE  /\ Moved(row[m], "failed") \in Row
             /\ row[m].status # "deleted" => Moved(row[m], "failed").status = "failed"
  <2>1. "failed" \in Statuses /\ row[m] \in Row
    BY DEF Statuses, DbTypeOK
  <2>2. QED
    BY <2>1, MovedRow
<1>2. \A m \in TimedOut(row, askedAge) : row[m].status = "suspended"
  BY DEF TimedOut
<1>3. QED
  BY <1>1, <1>2 DEF Expired, DbTypeOK

LEMMA ResetType ==
  ASSUME NEW rows \in [Messages -> Row], NEW maxAge \in Nat, NEW minAge \in Nat
  PROVE  ResetOrphans(rows, maxAge, minAge) \in [Messages -> Row]
BY OrphanedRow DEF ResetOrphans

LEMMA LoseProcessType ==
  ASSUME TypeOK, LoseProcess, DbTypeOK'
  PROVE  TypeOK'
BY ProcessorAssumption DEF LoseProcess, TypeOK, Slots

LEMMA NotifiedType ==
  ASSUME DbTypeOK, NEW S
  PROVE  Notified(S) \in [Messages -> ResponseKinds]
BY DEF Notified, DbTypeOK, ResponseKinds

\* The queue's half of the type invariant.
LEMMA CleanupType ==
  ASSUME TypeOK, Cleanup
  PROVE  /\ DbTypeOK'
         /\ row' = ResetOrphans(Expired(row), SweepAge, MinAge)
<1>1. DbTypeOK /\ SweepAge \in Nat /\ MinAge \in Nat
  BY ThresholdAssumption DEF TypeOK
<1>2. row' = ResetOrphans(Expired(row), SweepAge, MinAge)
  BY DEF Cleanup
<1>3. row' \in [Messages -> Row]
  BY <1>1, <1>2, ExpiredEffect, ResetType
<1>4. resp' \in [Messages -> ResponseKinds]
  BY <1>1, NotifiedType DEF Cleanup
<1>5. QED
  BY <1>1, <1>2, <1>3, <1>4 DEF Cleanup, DbTypeOK

LEMMA TickType ==
  ASSUME TypeOK, Tick
  PROVE  DbTypeOK'
<1>1. PICK reported \in SUBSET {m \in Messages : Live(m)} :
        row' = [m \in Messages |-> Aged(row[m], m \in reported)]
  BY DEF Tick
<1>2. \A m \in Messages : Aged(row[m], m \in reported) \in Row
  BY AgedRow DEF TypeOK, DbTypeOK
<1>3. \A m \in Messages : Older(askedAge[m], InputTimeout) \in 0..InputTimeout
  BY ThresholdAssumption DEF Older, TypeOK, DbTypeOK
<1>4. row' \in [Messages -> Row] /\ askedAge' \in [Messages -> 0..InputTimeout]
  BY <1>1, <1>2, <1>3 DEF Tick, TypeOK, DbTypeOK
<1>5. QED
  BY <1>4 DEF Tick, TypeOK, DbTypeOK

LEMMA ClearRowsEffect ==
  ASSUME DbTypeOK, NEW S, ClearDeadLetters(S) \/ ClearFailed(S)
  PROVE  /\ DbTypeOK'
         /\ \A m \in Messages :
              \/ row'[m] = row[m] /\ asked'[m] = asked[m]
              \/ /\ row[m].status = "dead_letter" /\ row'[m].status = "dead_letter_cleared"
                 /\ asked'[m] = asked[m]
              \/ row[m].status = "failed" /\ row'[m].status = "deleted" /\ asked'[m] = "none"
<1>1. \A m \in Messages, status \in Statuses :
        /\ Moved(row[m], status) \in Row
        /\ row[m].status # "deleted" => Moved(row[m], status).status = status
  BY MovedRow DEF DbTypeOK
<1>2. "deleted" \in Statuses /\ "dead_letter_cleared" \in Statuses
  BY DEF Statuses
<1>3. CASE ClearDeadLetters(S)
  BY <1>1, <1>2, <1>3 DEF ClearDeadLetters, DbTypeOK
<1>4. CASE ClearFailed(S)
  <2>1. asked' \in [Messages -> {"none", "waiting", "answered"}] /\ resp' = resp
    BY <1>4 DEF ClearFailed, DbTypeOK
  <2>2. askedAge' \in [Messages -> 0..InputTimeout]
    BY <1>4, ThresholdAssumption DEF ClearFailed, DbTypeOK
  <2>3. row' = [m \in Messages |-> IF m \in S THEN Moved(row[m], "deleted") ELSE row[m]]
    BY <1>4 DEF ClearFailed
  <2>4. row' \in [Messages -> Row]
    BY <1>1, <1>2, <2>3 DEF DbTypeOK
  <2>5. ASSUME NEW m \in Messages
        PROVE  \/ row'[m] = row[m] /\ asked'[m] = asked[m]
               \/ row[m].status = "failed" /\ row'[m].status = "deleted" /\ asked'[m] = "none"
    <3>1. CASE m \in S
      <4>1. row[m].status = "failed" /\ asked'[m] = "none"
        BY <1>4, <3>1 DEF ClearFailed
      <4>2. row'[m] = Moved(row[m], "deleted")
        BY <2>3, <3>1
      <4>3. QED
        BY <1>1, <1>2, <4>1, <4>2
    <3>2. CASE m \notin S
      BY <1>4, <3>2 DEF ClearFailed
    <3>3. QED
      BY <3>1, <3>2
  <2>6. QED
    BY <2>1, <2>2, <2>4, <2>5 DEF DbTypeOK
<1>5. QED
  BY <1>3, <1>4

\* A step whose queue half is typed and whose claims, if any, are the pool's.
LEMMA EnqueuedType ==
  ASSUME TypeOK, NEW rows \in [Messages -> Row], OnEnqueued(rows),
         immediate' \in [Messages -> 0..MaxImmediate],
         asked' \in [Messages -> {"none", "waiting", "answered"}],
         UNCHANGED <<askedAge, resp, phase, replying, crashes>>
  PROVE  TypeOK'
<1>1. agentChains' \subseteq Agents /\ links' \in [Agents -> 0..MaxLinks]
  BY OnEnqueuedEffect
<1>2. /\ row' \in [Messages -> Row]
      /\ slot' \in [Slots -> Messages \cup {Nothing}]
      /\ activeThreads' \in Int
  BY OnEnqueuedEffect, PoolEffect
<1>3. QED
  BY <1>1, <1>2 DEF TypeOK, DbTypeOK

LEMMA StartLinkEffect ==
  ASSUME TypeOK, NEW a \in Agents, StartLink(a)
  PROVE  \/ row' = row /\ slot' = slot
         \/ \E m \in Messages : /\ row[m].status = "pending" /\ slot[a] = Nothing
                                /\ row' = Claimed(row, m)
                                /\ slot' = [slot EXCEPT ![a] = m]
<1>1. \A m \in First(row, ClaimableBy(row, a)) : m \in Messages /\ row[m].status = "pending"
  BY DEF First, ClaimableBy, Pending
<1>2. QED
  BY <1>1 DEF StartLink

LEMMA TypeStep ==
  ASSUME TypeOK, [Next]_vars
  PROVE  TypeOK'
<1> USE DEF TypeOK
<1>1. CASE Poll
  <2>1. OnEnqueued(row)
    BY <1>1 DEF Poll, OnEnqueued
  <2>2. QED
    BY <1>1, <2>1, EnqueuedType DEF Poll, DbTypeOK
<1>2. CASE Cleanup
  BY <1>2, CleanupType DEF Cleanup, procVars
<1>3. CASE Tick
  BY <1>3, TickType DEF Tick, procVars
<1>4. CASE Crash
  BY <1>4, LoseProcessType DEF Crash, dbVars, DbTypeOK
<1>5. CASE CrashInCleanup
  <2>1. DbTypeOK'
    BY <1>5, ExpiredEffect, NotifiedType DEF CrashInCleanup, DbTypeOK
  <2>2. QED
    BY <1>5, <2>1, LoseProcessType DEF CrashInCleanup
<1>6. CASE Start
  <2> DEFINE rows == ResetOrphans(row, MinAge, 0)
  <2>1. rows \in [Messages -> Row]
    BY ResetType, ThresholdAssumption DEF DbTypeOK
  <2>2. ProcessNext(rows)
    BY <1>6 DEF Start
  <2> HIDE DEF rows
  <2>3. agentChains' \subseteq Agents /\ links' \in [Agents -> 0..MaxLinks]
    BY <2>2, ProcessNextEffect
  <2>4. /\ row' \in [Messages -> Row]
        /\ slot' \in [Slots -> Messages \cup {Nothing}]
        /\ activeThreads' \in Int
    BY <2>1, <2>2, ProcessNextEffect, PoolEffect
  <2>5. QED
    BY <1>6, <2>3, <2>4 DEF Start, DbTypeOK
<1>7. CASE Drain \/ DrainCompletes \/ DrainTimesOut
  BY <1>7 DEF Drain, DrainCompletes, DrainTimesOut, dbVars, DbTypeOK
<1>8. CASE Exit
  BY <1>8, LoseProcessType DEF Exit, dbVars, DbTypeOK
<1>9. CASE ClearRows
  BY <1>9, ClearRowsEffect DEF ClearRows, procVars
<1>10. ASSUME NEW a \in Agents, StartLink(a)
       PROVE  TypeOK'
  <2>1. a \in Slots
    BY DEF Slots
  <2>2. row' \in [Messages -> Row] /\ slot' \in [Slots -> Messages \cup {Nothing}]
    BY <1>10, <2>1, StartLinkEffect, ClaimEffect DEF DbTypeOK
  <2>3. links' \in [Agents -> 0..MaxLinks]
    BY <1>10, ProcessorAssumption DEF StartLink
  <2>4. QED
    BY <1>10, <2>2, <2>3 DEF StartLink, DbTypeOK
<1>11. ASSUME NEW s \in Slots, FinishSlot(s)
       PROVE  TypeOK'
  <2>1. Settles(slot[s]) /\ Leave(s)
    BY <1>11, FinishSlotEffect
  <2>2. QED
    BY <2>1 DEF Settles, Leave
<1>12. ASSUME NEW s \in Slots, CrashInSlot(s)
       PROVE  TypeOK'
  <2>1. slot[s] \in Messages
    BY <1>12 DEF CrashInSlot, Executing
  <2>2. QED
    BY <1>12, <2>1, CrashInExecutionEffect, LoseProcessType DEF Settles
<1>13. ASSUME NEW m \in Messages, Enqueue(m)
       PROVE  TypeOK'
  <2>1. Inserted(row, m, "pending") \in [Messages -> Row]
    BY InsertedType DEF Statuses
  <2>2. QED
    BY <1>13, <2>1, EnqueuedType DEF Enqueue, DbTypeOK
<1>14. ASSUME NEW m \in Messages, EnqueueImmediate(m)
       PROVE  TypeOK'
  <2>1. Inserted(row, m, "processing") \in [Messages -> Row]
    BY InsertedType DEF Statuses
  <2>2. immediate' \in [Messages -> 0..MaxImmediate]
    BY <1>14, ProcessorAssumption DEF EnqueueImmediate
  <2>3. QED
    BY <1>14, <2>1, <2>2, EnqueuedType DEF EnqueueImmediate, DbTypeOK
<1>15. ASSUME NEW m \in Messages, FinishImmediate(m)
       PROVE  TypeOK'
  <2>1. Settles(m) /\ LeaveImmediate(m) /\ immediate[m] > 0
    BY <1>15, FinishImmediateEffect
  <2>2. immediate' \in [Messages -> 0..MaxImmediate]
    BY <2>1, ProcessorAssumption DEF LeaveImmediate
  <2>3. QED
    BY <2>1, <2>2 DEF Settles, LeaveImmediate
<1>16. ASSUME NEW m \in Messages, ReplyAsync(m)
       PROVE  TypeOK'
  <2>1. [row EXCEPT ![m] = Moved(@, "pending")] \in [Messages -> Row]
    BY MovedTo DEF Statuses
  <2>2. asked' \in [Messages -> {"none", "waiting", "answered"}]
    BY <1>16 DEF ReplyAsync, Resumed, DbTypeOK
  <2>3. QED
    BY <1>16, <2>1, <2>2, EnqueuedType DEF ReplyAsync, Resumed
<1>17. ASSUME NEW m \in Messages, ReplySync(m) \/ DropReply(m)
       PROVE  TypeOK'
  BY <1>17 DEF ReplySync, DropReply, dbVars, DbTypeOK
<1>18. ASSUME NEW m \in Messages, ApplyReply(m) \/ ReplyInConversation(m)
       PROVE  TypeOK'
  <2>1. row' \in [Messages -> Row]
    <3>1. [row EXCEPT ![m] = Moved(@, "processing")] \in [Messages -> Row]
      BY MovedTo DEF Statuses
    <3>2. QED
      BY <1>18, <3>1 DEF ApplyReply, ReplyInConversation
  <2>2. asked' \in [Messages -> {"none", "waiting", "answered"}] /\ UNCHANGED <<askedAge, resp>>
    BY <1>18 DEF ApplyReply, ReplyInConversation, Resumed, DbTypeOK
  <2>3. immediate' \in [Messages -> 0..MaxImmediate]
    BY <1>18, ProcessorAssumption DEF ApplyReply, ReplyInConversation
  <2>4. replying' \in [Messages -> 0..1]
    BY <1>18 DEF ApplyReply, ReplyInConversation
  <2>5. QED
    BY <1>18, <2>1, <2>2, <2>3, <2>4 DEF ApplyReply, ReplyInConversation, DbTypeOK
<1>19. ASSUME NEW m \in Messages, CrashInImmediate(m)
       PROVE  TypeOK'
  BY <1>19, CrashInExecutionEffect, LoseProcessType DEF Settles
<1>20. CASE UNCHANGED vars
  BY <1>20 DEF vars, dbVars, procVars, DbTypeOK
<1>21. QED
  BY <1>1, <1>2, <1>3, <1>4, <1>5, <1>6, <1>7, <1>8, <1>9, <1>10, <1>11, <1>12, <1>13,
     <1>14, <1>15, <1>16, <1>17, <1>18, <1>19, <1>20 DEF Next, MessageStep

LEMMA TypeInit == Init => TypeOK
<1>1. "absent" \in Statuses
  BY DEF Statuses
<1>2. Init => DbTypeOK
  BY <1>1, NewRowType, ThresholdAssumption DEF Init, DbInit, DbTypeOK, ResponseKinds
<1>3. QED
  BY <1>2, ProcessorAssumption DEF Init, TypeOK

\* The variables stay in their types: in particular retry_count and the ages
\* stay within the bounds that stand for "large enough", and no step of the
\* processor or of a route writes a status the schema does not list.
THEOREM TypeCorrect == Spec => []TypeOK
<1>1. QED
  BY TypeInit, TypeStep, PTL DEF Spec

-----------------------------------------------------------------------------
(* What holds of every message, silent, replied to again or not.           *)

\* Who executes n is as before.
SameHold(n) == immediate'[n] = immediate[n] /\ \A s \in Slots : slot'[s] = n <=> slot[s] = n

\* A step that leaves the process as it is up to the claim of a message.
LEMMA DownStep ==
  ASSUME TypeOK, DownIsDead, [Next]_vars
  PROVE  DownIsDead'
<1>1. CASE \/ Crash \/ Exit \/ CrashInCleanup
           \/ (\E s \in Slots : CrashInSlot(s)) \/ (\E m \in Messages : CrashInImmediate(m))
  <2>1. LoseProcess
    BY <1>1 DEF Crash, Exit, CrashInCleanup, CrashInSlot, CrashInImmediate
  <2>2. QED
    BY <2>1, NothingAssumption DEF LoseProcess, DownIsDead, Live
<1>2. CASE Tick \/ UNCHANGED vars
  BY <1>2 DEF Tick, vars, procVars, DownIsDead, Live
<1>3. CASE Poll \/ Cleanup \/ Start \/ Drain \/ DrainCompletes \/ DrainTimesOut \/ ClearRows
  BY <1>3 DEF Poll, Cleanup, Start, Drain, DrainCompletes, DrainTimesOut, ClearRows, procVars,
     DownIsDead
<1>4. CASE (\E a \in Agents : StartLink(a)) \/ (\E s \in Slots : FinishSlot(s))
  BY <1>4, FinishSlotEffect DEF StartLink, Leave, DownIsDead
<1>5. ASSUME NEW m \in Messages,
             \/ Enqueue(m) \/ EnqueueImmediate(m) \/ FinishImmediate(m) \/ ReplyAsync(m)
             \/ ReplySync(m) \/ ApplyReply(m) \/ DropReply(m) \/ ReplyInConversation(m)
      PROVE  DownIsDead'
  BY <1>5, FinishImmediateEffect DEF Enqueue, EnqueueImmediate, LeaveImmediate, ReplyAsync,
     ReplySync, MayReply, ApplyReply, DropReply, ReplyInConversation, DownIsDead
<1>6. QED
  BY <1>1, <1>2, <1>3, <1>4, <1>5 DEF Next, MessageStep

LEMMA DownInit == Init => DownIsDead
BY NothingAssumption DEF Init, DownIsDead, Live

LEMMA DownAlways == Spec => []DownIsDead
<1>1. TypeOK /\ DownIsDead /\ [Next]_vars => DownIsDead'
  BY DownStep
<1>2. QED
  BY <1>1, DownInit, TypeCorrect, PTL DEF Spec

\* The claim inside a poll or an enqueue leaves no message unanswered.
LEMMA ClaimUnanswered ==
  ASSUME TypeOK, NEW rows \in [Messages -> Row], NEW n \in Messages,
         Passed(rows, n) \/ Taken(rows, n),
         rows[n].status \in {"suspended", "failed"} => asked'[n] # "answered"
  PROVE  Unanswered(n)'
<1>1. "processing" \in Statuses
  BY DEF Statuses
<1>2. CASE Passed(rows, n)
  BY <1>2 DEF Passed, Unanswered
<1>3. CASE Taken(rows, n)
  <2>1. row'[n].status = "processing"
    BY <1>1, <1>3, MovedRow DEF Taken
  <2>2. QED
    BY <2>1 DEF Unanswered
<1>4. QED
  BY <1>2, <1>3

LEMMA UnansweredStep ==
  ASSUME TypeOK, NEW n \in Messages, Unanswered(n), [Next]_vars
  PROVE  Unanswered(n)'
<1>1. DbTypeOK /\ row \in [Messages -> Row]
  BY DEF TypeOK, DbTypeOK
<1>2. MinAge \in Nat /\ SweepAge \in Nat /\ 0 \in Nat
  BY ThresholdAssumption
<1>3. ASSUME NEW rows \in [Messages -> Row],
             rows[n].status \in {"suspended", "failed"} => asked'[n] # "answered",
             \/ PoolClaims(rows)
             \/ row' = rows /\ slot' = slot /\ activeThreads' = activeThreads
      PROVE  Unanswered(n)'
  BY <1>3, PoolEffect, ClaimUnanswered
<1>4. CASE Poll
  BY <1>1, <1>3, <1>4, ProcessNextEffect DEF Poll, Unanswered
<1>5. CASE Start
  <2> DEFINE rows == ResetOrphans(row, MinAge, 0)
  <2>1. rows \in [Messages -> Row]
    BY <1>1, <1>2, ResetType
  <2>2. rows[n].status \in {"suspended", "failed"} => rows[n] = row[n]
    BY <1>1, <1>2, OrphanedRow DEF ResetOrphans
  <2>3. ProcessNext(rows) /\ asked' = asked
    BY <1>5 DEF Start
  <2> HIDE DEF rows
  <2>4. QED
    BY <1>3, <2>1, <2>2, <2>3, ProcessNextEffect DEF Unanswered
<1>6. CASE Cleanup
  <2>1. PICK r \in Row :
          /\ r = Expired(row)[n]
          /\ \/ r = row[n]
             \/ row[n].status = "suspended" /\ r.status = "failed"
    BY <1>1, ExpiredEffect
  <2>2. row'[n] = Orphaned(r, SweepAge, MinAge) /\ asked' = asked
    BY <1>6, <2>1, CleanupType DEF ResetOrphans, Cleanup
  <2>3. row'[n] = r \/ row'[n].status \in {"pending", "dead_letter"}
    BY <1>2, <2>2, OrphanedRow
  <2>4. QED
    BY <2>1, <2>2, <2>3 DEF Unanswered
<1>7. CASE CrashInCleanup
  BY <1>1, <1>7, ExpiredEffect DEF CrashInCleanup, Unanswered
<1>8. CASE Tick
  <2>1. PICK reported \in SUBSET {m \in Messages : Live(m)} :
          row' = [m \in Messages |-> Aged(row[m], m \in reported)]
    BY <1>8 DEF Tick
  <2>2. row'[n].status = row[n].status /\ asked' = asked
    BY <1>1, <1>8, <2>1, AgedRow DEF Tick
  <2>3. QED
    BY <2>2 DEF Unanswered
<1>9. CASE ClearRows
  BY <1>1, <1>9, ClearRowsEffect DEF ClearRows, Unanswered
<1>10. CASE \/ Crash \/ Exit \/ Drain \/ DrainCompletes \/ DrainTimesOut \/ UNCHANGED vars
            \/ \E m \in Messages : ReplySync(m) \/ DropReply(m)
  <2>1. row' = row /\ asked' = asked
    BY <1>10 DEF Crash, Exit, Drain, DrainCompletes, DrainTimesOut, ReplySync, DropReply, vars,
       dbVars
  <2>2. QED
    BY <2>1 DEF Unanswered
<1>11. ASSUME NEW a \in Agents, StartLink(a)
       PROVE  Unanswered(n)'
  <2>1. a \in Slots /\ slot \in [Slots -> Messages \cup {Nothing}] /\ asked' = asked
    BY <1>11 DEF Slots, TypeOK, StartLink
  <2>2. row' = row \/ Passed(row, n) \/ Taken(row, n)
    BY <1>1, <1>11, <2>1, StartLinkEffect, ClaimEffect
  <2>3. QED
    BY <1>1, <2>1, <2>2, ClaimUnanswered DEF Unanswered
<1>12. ASSUME NEW m \in Messages, Settles(m)
       PROVE  Unanswered(n)'
  BY <1>12 DEF Settles, Unanswered
<1>13. ASSUME NEW s \in Slots, FinishSlot(s)
       PROVE  Unanswered(n)'
  BY <1>12, <1>13, FinishSlotEffect
<1>14. ASSUME NEW m \in Messages, FinishImmediate(m) \/ CrashInImmediate(m)
       PROVE  Unanswered(n)'
  BY <1>12, <1>14, FinishImmediateEffect, CrashInExecutionEffect
<1>15. ASSUME NEW s \in Slots, CrashInSlot(s)
       PROVE  Unanswered(n)'
  <2>1. slot[s] \in Messages
    BY <1>15 DEF CrashInSlot, Executing, TypeOK
  <2>2. QED
    BY <1>12, <1>15, <2>1, CrashInExecutionEffect
<1>16. ASSUME NEW m \in Messages, NEW status \in {"pending", "processing"},
              OnEnqueued(Inserted(row, m, status)), asked' = asked
       PROVE  Unanswered(n)'
  <2>1. status \in Statuses
    BY DEF Statuses
  <2>2. /\ Inserted(row, m, status) \in [Messages -> Row]
        /\ n # m => Inserted(row, m, status)[n] = row[n]
        /\ Inserted(row, m, status)[m].status = status
    BY <1>1, <2>1, InsertedType
  <2>3. QED
    BY <1>3, <1>16, <2>2, OnEnqueuedEffect DEF Unanswered
<1>17. ASSUME NEW m \in Messages, Enqueue(m) \/ EnqueueImmediate(m)
       PROVE  Unanswered(n)'
  BY <1>16, <1>17 DEF Enqueue, EnqueueImmediate
<1>18. ASSUME NEW m \in Messages, Resumed(m)
       PROVE  asked'[m] = "answered" /\ row[m].status # "deleted"
              /\ \A k \in Messages : k # m => asked'[k] = asked[k]
  BY <1>1, <1>18 DEF Resumed, DbTypeOK
<1>19. ASSUME NEW m \in Messages, ReplyAsync(m)
       PROVE  Unanswered(n)'
  <2> DEFINE rows == [row EXCEPT ![m] = Moved(@, "pending")]
  <2>1. Resumed(m) /\ OnEnqueued(rows) /\ "pending" \in Statuses
    BY <1>19 DEF ReplyAsync, Statuses
  <2>2. /\ rows \in [Messages -> Row]
        /\ rows[m].status = "pending"
        /\ n # m => rows[n] = row[n]
    BY <1>1, <1>18, <2>1, MovedTo
  <2> HIDE DEF rows
  <2>3. QED
    BY <1>3, <1>18, <2>1, <2>2, OnEnqueuedEffect DEF Unanswered
<1>20. ASSUME NEW m \in Messages, ApplyReply(m) \/ ReplyInConversation(m)
       PROVE  Unanswered(n)'
  <2>1. /\ Resumed(m) /\ "processing" \in Statuses
        /\ row' = [row EXCEPT ![m] = Moved(@, "processing")]
    BY <1>20 DEF ApplyReply, ReplyInConversation, Statuses
  <2>2. row'[m].status = "processing" /\ (n # m => row'[n] = row[n])
    BY <1>1, <1>18, <2>1, MovedTo
  <2>3. QED
    BY <1>18, <2>1, <2>2 DEF Unanswered
<1>21. QED
  BY <1>4, <1>5, <1>6, <1>7, <1>8, <1>9, <1>10, <1>11, <1>13, <1>14, <1>15, <1>17, <1>19,
     <1>20 DEF Next, MessageStep

AllUnanswered == \A n \in Messages : Unanswered(n)

LEMMA UnansweredAlways == Spec => []AllUnanswered
<1>1. Init => AllUnanswered
  BY DEF Init, DbInit, NewRow, AllUnanswered, Unanswered
<1>2. TypeOK /\ AllUnanswered /\ [Next]_vars => AllUnanswered'
  BY UnansweredStep DEF AllUnanswered
<1>3. QED
  BY <1>1, <1>2, TypeCorrect, PTL DEF Spec

LEMMA AnsweredStep ==
  ASSUME TypeOK, Next, NEW n \in Messages, Unanswered(n), asked[n] = "answered", ~Live(n)
  PROVE  asked'[n] = "answered"
<1>1. DbTypeOK
  BY DEF TypeOK
<1>2. CASE \/ Poll \/ Cleanup \/ Tick \/ Crash \/ CrashInCleanup \/ Start
           \/ Drain \/ DrainCompletes \/ DrainTimesOut \/ Exit
           \/ \E a \in Agents : StartLink(a)
           \/ \E m \in Messages : \/ Enqueue(m) \/ EnqueueImmediate(m)
                                  \/ ReplySync(m) \/ DropReply(m)
  <2>1. asked' = asked
    BY <1>2 DEF Poll, Cleanup, Tick, Crash, CrashInCleanup, Start, Drain, DrainCompletes,
       DrainTimesOut, Exit, StartLink, Enqueue, EnqueueImmediate, ReplySync, DropReply, dbVars
  <2>2. QED
    BY <2>1
<1>3. CASE ClearRows
  <2>1. row[n].status # "failed"
    BY DEF Unanswered
  <2>2. QED
    BY <1>1, <1>3, <2>1, ClearRowsEffect DEF ClearRows
<1>4. ASSUME NEW m \in Messages, ReplyAsync(m) \/ ApplyReply(m) \/ ReplyInConversation(m)
      PROVE  asked'[n] = "answered"
  BY <1>1, <1>4 DEF ReplyAsync, ApplyReply, ReplyInConversation, Resumed, DbTypeOK
<1>5. ASSUME NEW s \in Slots, FinishSlot(s)
      PROVE  asked'[n] = "answered"
  <2>1. slot[s] \in Messages /\ slot[s] # n /\ Settles(slot[s])
    BY <1>5, FinishSlotEffect DEF Live
  <2>2. QED
    BY <2>1 DEF Settles
<1>6. ASSUME NEW m \in Messages, FinishImmediate(m)
      PROVE  asked'[n] = "answered"
  <2>1. m # n /\ Settles(m)
    BY <1>6, FinishImmediateEffect DEF Live
  <2>2. QED
    BY <2>1 DEF Settles
<1>7. ASSUME NEW m \in Messages,
             \/ \E s \in Slots : slot[s] = m /\ CrashInSlot(s)
             \/ CrashInImmediate(m)
      PROVE  asked'[n] = "answered"
  <2>1. Live(m) /\ Settles(m)
    BY <1>7, CrashInExecutionEffect
  <2>2. QED
    BY <2>1 DEF Settles
<1>8. \A s \in Slots : CrashInSlot(s) => slot[s] \in Messages
  BY DEF CrashInSlot, Executing, TypeOK
<1>9. QED
  BY <1>2, <1>3, <1>4, <1>5, <1>6, <1>7, <1>8 DEF Next, MessageStep

\* A user's reply waits in suspended_runs until an execution has read it: no
\* restart, sweep, expiry, route, further reply or other message's step discards
\* it, whatever executions are silent.
THEOREM RepliesSurvive == Spec => ReplySurvives
<1>1. ASSUME TypeOK, AllUnanswered, Next
      PROVE  \A m \in Messages :
               asked[m] = "answered" /\ asked'[m] # "answered" => Live(m)
  BY <1>1, AnsweredStep DEF AllUnanswered
<1>2. TypeOK /\ AllUnanswered /\ [Next]_vars
      => [\A m \in Messages :
            asked[m] = "answered" /\ asked'[m] # "answered" => Live(m)]_vars
  BY <1>1
<1>3. QED
  BY <1>2, TypeCorrect, UnansweredAlways, PTL DEF Spec, ReplySurvives

-----------------------------------------------------------------------------
(* One execution at a time.  The invariant is a conjunction over messages, *)
(* and is proved message by message: what a step does to n depends on what *)
(* holds of n alone, so that a contested message disturbs no other.        *)

MessageInv(n) ==
  /\ immediate[n] <= 1
  /\ \A s, t \in Slots : slot[s] = n /\ slot[t] = n => s = t
  /\ immediate[n] > 0 => \A s \in Slots : slot[s] # n
  /\ Live(n) => row[n].status \in {"processing", "dead_letter", "dead_letter_cleared"}
  /\ InOrder(n)

LEMMA InvByMessage ==
  OwnershipInv <=> /\ TypeOK /\ DownIsDead /\ contested \subseteq Messages
                   /\ \A n \in Uncontested : MessageInv(n)
BY DEF OwnershipInv, OneExecution, LiveIsOwned, QuestionIsOpen, NothingToReplyTo, MessageInv,
       InOrder

\* Nobody executes n after the step, and its question is in order.
AtRest(n) ==
  /\ immediate'[n] = 0
  /\ \A s \in Slots : slot'[s] # n
  /\ InOrder(n)'

\* Exactly one executor has n after the step.
Held(n) ==
  /\ immediate'[n] <= 1
  /\ \A s, t \in Slots : slot'[s] = n /\ slot'[t] = n => s = t
  /\ immediate'[n] > 0 => \A s \in Slots : slot'[s] # n
  /\ row'[n].status = "processing"
  /\ asked'[n] # "waiting"

LEMMA Undisturbed ==
  ASSUME NEW n \in Messages, MessageInv(n), SameHold(n),
         row'[n].status = row[n].status, asked'[n] = asked[n]
  PROVE  MessageInv(n)'
BY DEF MessageInv, InOrder, SameHold, Live

LEMMA Rests ==
  ASSUME NEW n \in Messages, AtRest(n)
  PROVE  MessageInv(n)'
BY DEF AtRest, MessageInv, Live

LEMMA Holds ==
  ASSUME NEW n \in Messages, Held(n)
  PROVE  MessageInv(n)'
BY DEF Held, MessageInv, InOrder, Live

LEMMA NotLive ==
  ASSUME TypeOK, NEW n \in Messages, MessageInv(n),
         row[n].status \notin {"processing", "dead_letter", "dead_letter_cleared"}
  PROVE  ~Live(n) /\ immediate[n] = 0 /\ \A s \in Slots : slot[s] # n
BY DEF MessageInv, Live, TypeOK

LEMMA LiveIsPast ==
  ASSUME NEW n \in Messages, MessageInv(n), Live(n)
  PROVE  PastQuestion(n)
BY DEF MessageInv, InOrder, PastQuestion

\* A reply to a question that is open finds the message at rest; any other is a
\* reply to a question that has had one.
LEMMA ReplyFinds ==
  ASSUME TypeOK, NEW n \in Messages, MessageInv(n), asked[n] # "none"
  PROVE  \/ asked[n] = "answered"
         \/ /\ asked[n] = "waiting" /\ row[n].status \in {"suspended", "failed"}
            /\ ~Live(n) /\ immediate[n] = 0 /\ \A s \in Slots : slot[s] # n
<1>1. asked[n] \in {"waiting", "answered"}
  BY DEF TypeOK, DbTypeOK
<1>2. asked[n] = "waiting" => row[n].status \in {"suspended", "failed"}
  BY DEF MessageInv, InOrder
<1>3. QED
  BY <1>1, <1>2, NotLive

\* A claim takes n only from 'pending', where nobody executes it.
LEMMA TakenIsHeld ==
  ASSUME NEW rows \in [Messages -> Row], NEW n \in Messages, Taken(rows, n),
         \A s \in Slots : slot[s] # n,
         immediate'[n] = 0, asked'[n] # "waiting"
  PROVE  MessageInv(n)'
<1>1. row'[n].status = "processing"
  <2>1. "processing" \in Statuses
    BY DEF Statuses
  <2>2. QED
    BY <2>1, MovedRow DEF Taken
<1>2. \A s, t \in Slots : slot'[s] = n /\ slot'[t] = n => s = t
  BY DEF Taken
<1>3. QED
  BY <1>1, <1>2, Holds DEF Held

\* The process is lost: what is left is what the database says.
LEMMA LostMessage ==
  ASSUME NEW n \in Messages, LoseProcess, InOrder(n)'
  PROVE  MessageInv(n)'
BY Rests, NothingAssumption DEF AtRest, LoseProcess

\* The claim inside a poll or an enqueue, for a message the caller left alone.
LEMMA ClaimingKeeps ==
  ASSUME TypeOK, NEW rows \in [Messages -> Row], NEW n \in Messages, MessageInv(n),
         Passed(rows, n) \/ Taken(rows, n), rows[n] = row[n],
         asked'[n] = asked[n], immediate'[n] = immediate[n]
  PROVE  MessageInv(n)'
<1>1. CASE Passed(rows, n)
  BY <1>1, Undisturbed DEF Passed, SameHold
<1>2. CASE Taken(rows, n)
  <2>1. row[n].status = "pending"
    BY <1>2 DEF Taken
  <2>2. immediate[n] = 0 /\ \A s \in Slots : slot[s] # n
    BY <2>1, NotLive
  <2>3. asked[n] # "waiting"
    BY <2>1 DEF MessageInv, InOrder
  <2>4. QED
    BY <1>2, <2>2, <2>3, TakenIsHeld
<1>3. QED
  BY <1>1, <1>2

\* ... and for a message at rest whose row the caller has moved.
LEMMA ClaimingMoved ==
  ASSUME NEW rows \in [Messages -> Row], NEW n \in Messages,
         Passed(rows, n) \/ Taken(rows, n),
         \A s \in Slots : slot[s] # n, immediate'[n] = 0,
         asked'[n] = "waiting" <=> rows[n].status \in {"suspended", "failed"},
         rows[n].status \in {"absent", "completed"} => asked'[n] = "none"
  PROVE  MessageInv(n)'
<1>1. CASE Passed(rows, n)
  <2>1. row'[n].status = rows[n].status /\ \A s \in Slots : slot'[s] # n
    BY <1>1 DEF Passed
  <2>2. InOrder(n)'
    BY <2>1 DEF InOrder
  <2>3. QED
    BY <2>1, <2>2, Rests DEF AtRest
<1>2. CASE Taken(rows, n)
  <2>1. asked'[n] # "waiting"
    BY <1>2 DEF Taken
  <2>2. QED
    BY <1>2, <2>1, TakenIsHeld
<1>3. QED
  BY <1>1, <1>2

LEMMA PollInv ==
  ASSUME TypeOK, NEW n \in Messages, MessageInv(n), Poll
  PROVE  MessageInv(n)'
<1>1. row \in [Messages -> Row]
  BY DEF TypeOK, DbTypeOK
<1>2. Passed(row, n) \/ Taken(row, n)
  BY <1>1, ProcessNextEffect, PoolEffect DEF Poll
<1>3. QED
  BY <1>1, <1>2, ClaimingKeeps DEF Poll

LEMMA EnqueueInv ==
  ASSUME TypeOK, NEW n \in Messages, MessageInv(n), NEW m \in Messages, Enqueue(m)
  PROVE  MessageInv(n)'
<1> DEFINE rows == Inserted(row, m, "pending")
<1>1. DbTypeOK
  BY DEF TypeOK
<1>2. /\ rows \in [Messages -> Row]
      /\ rows[m].status = "pending"
      /\ n # m => rows[n] = row[n]
  BY <1>1, InsertedType DEF Statuses
<1>3. OnEnqueued(rows) /\ row[m].status = "absent" /\ UNCHANGED <<asked, immediate>>
  BY DEF Enqueue
<1> HIDE DEF rows
<1>4. Passed(rows, n) \/ Taken(rows, n)
  BY <1>2, <1>3, OnEnqueuedEffect, PoolEffect
<1>5. CASE n = m
  <2>1. immediate[n] = 0 /\ (\A s \in Slots : slot[s] # n) /\ asked[n] = "none"
    BY <1>3, <1>5, NotLive DEF MessageInv, InOrder
  <2>2. QED
    BY <1>2, <1>3, <1>4, <1>5, <2>1, ClaimingMoved
<1>6. CASE n # m
  BY <1>2, <1>3, <1>4, <1>6, ClaimingKeeps
<1>7. QED
  BY <1>5, <1>6

LEMMA EnqueueImmediateInv ==
  ASSUME TypeOK, NEW n \in Messages, MessageInv(n), NEW m \in Messages, EnqueueImmediate(m)
  PROVE  MessageInv(n)'
<1> DEFINE rows == Inserted(row, m, "processing")
<1>1. DbTypeOK
  BY DEF TypeOK
<1>2. /\ rows \in [Messages -> Row]
      /\ rows[m].status = "processing"
      /\ n # m => rows[n] = row[n]
  BY <1>1, InsertedType DEF Statuses
<1>3. OnEnqueued(rows) /\ row[m].status = "absent" /\ asked' = asked
  BY DEF EnqueueImmediate
<1> HIDE DEF rows
<1>4. Passed(rows, n) \/ Taken(rows, n)
  BY <1>2, <1>3, OnEnqueuedEffect, PoolEffect
<1>5. CASE n = m
  <2>1. (\A s \in Slots : slot[s] # n) /\ asked[n] = "none"
    BY <1>3, <1>5, NotLive DEF MessageInv, InOrder
  <2>2. row'[n] = rows[n] /\ \A s \in Slots : slot'[s] # n
    BY <1>2, <1>4, <1>5, <2>1 DEF Passed, Taken
  <2>3. immediate'[n] = 1
    BY <1>5 DEF EnqueueImmediate, TypeOK
  <2>4. Held(n)
    BY <1>2, <1>3, <1>5, <2>1, <2>2, <2>3 DEF Held
  <2>5. QED
    BY <2>4, Holds
<1>6. CASE n # m
  <2>1. immediate'[n] = immediate[n]
    BY <1>6 DEF EnqueueImmediate, TypeOK
  <2>2. QED
    BY <1>2, <1>3, <1>4, <1>6, <2>1, ClaimingKeeps
<1>7. QED
  BY <1>5, <1>6

LEMMA StartLinkInv ==
  ASSUME TypeOK, NEW n \in Messages, MessageInv(n), NEW a \in Agents, StartLink(a)
  PROVE  MessageInv(n)'
<1>1. row \in [Messages -> Row] /\ a \in Slots /\ slot \in [Slots -> Messages \cup {Nothing}]
  BY DEF TypeOK, DbTypeOK, Slots
<1>2. Passed(row, n) \/ Taken(row, n)
  <2>1. CASE row' = row /\ slot' = slot
    BY <2>1 DEF Passed
  <2>2. CASE \E m \in Messages : /\ row[m].status = "pending" /\ slot[a] = Nothing
                                 /\ row' = Claimed(row, m)
                                 /\ slot' = [slot EXCEPT ![a] = m]
    BY <1>1, <2>2, ClaimEffect
  <2>3. QED
    BY <2>1, <2>2, StartLinkEffect
<1>3. QED
  BY <1>1, <1>2, ClaimingKeeps DEF StartLink

LEMMA StartInv ==
  ASSUME TypeOK, DownIsDead, NEW n \in Messages, MessageInv(n), Start
  PROVE  MessageInv(n)'
<1> DEFINE rows == ResetOrphans(row, MinAge, 0)
<1>1. row \in [Messages -> Row] /\ MinAge \in Nat /\ 0 \in Nat
  BY ThresholdAssumption DEF TypeOK, DbTypeOK
<1>2. rows \in [Messages -> Row]
  BY <1>1, ResetType
<1>3. \/ rows[n] = row[n]
      \/ row[n].status = "processing" /\ rows[n].status \in {"pending", "dead_letter"}
  BY <1>1, OrphanedRow DEF ResetOrphans
<1>4. ProcessNext(rows) /\ UNCHANGED <<asked, immediate>>
  BY DEF Start
<1> HIDE DEF rows
<1>5. Passed(rows, n) \/ Taken(rows, n)
  BY <1>2, <1>4, ProcessNextEffect, PoolEffect
<1>6. immediate[n] = 0 /\ \A s \in Slots : slot[s] # n
  BY DEF DownIsDead, Start, Live, TypeOK
<1>7. /\ asked[n] = "waiting" <=> rows[n].status \in {"suspended", "failed"}
      /\ rows[n].status \in {"absent", "completed"} => asked[n] = "none"
  BY <1>3 DEF MessageInv, InOrder
<1>8. QED
  BY <1>2, <1>4, <1>5, <1>6, <1>7, ClaimingMoved

LEMMA FinishSlotInv ==
  ASSUME TypeOK, NEW n \in Messages, MessageInv(n), NEW s \in Slots, FinishSlot(s)
  PROVE  MessageInv(n)'
<1>1. PICK m \in Messages : slot[s] = m /\ Settles(m) /\ Leave(s)
  BY FinishSlotEffect
<1>2. CASE n # m
  <2>1. SameHold(n)
    BY <1>1, <1>2, NothingAssumption DEF Leave, SameHold, TypeOK
  <2>2. row'[n] = row[n] /\ asked'[n] = asked[n]
    BY <1>1, <1>2 DEF Settles
  <2>3. QED
    BY <2>1, <2>2, Undisturbed
<1>3. CASE n = m
  <2>1. Live(n)
    BY <1>1, <1>3 DEF Live
  <2>2. immediate[n] = 0 /\ \A t \in Slots : t # s => slot[t] # n
    BY <1>1, <1>3 DEF MessageInv, TypeOK
  <2>3. immediate'[n] = 0 /\ \A t \in Slots : slot'[t] # n
    BY <1>1, <1>3, <2>2, NothingAssumption DEF Leave, TypeOK
  <2>4. InOrder(n)'
    BY <1>1, <1>3, <2>1, LiveIsPast DEF Settles
  <2>5. QED
    BY <2>3, <2>4, Rests DEF AtRest
<1>4. QED
  BY <1>2, <1>3

LEMMA FinishImmediateInv ==
  ASSUME TypeOK, NEW n \in Messages, MessageInv(n), NEW m \in Messages, FinishImmediate(m)
  PROVE  MessageInv(n)'
<1>1. immediate[m] > 0 /\ Settles(m) /\ LeaveImmediate(m)
  BY FinishImmediateEffect
<1>2. CASE n # m
  <2>1. SameHold(n)
    BY <1>1, <1>2 DEF LeaveImmediate, SameHold, TypeOK
  <2>2. row'[n] = row[n] /\ asked'[n] = asked[n]
    BY <1>1, <1>2 DEF Settles
  <2>3. QED
    BY <2>1, <2>2, Undisturbed
<1>3. CASE n = m
  <2>1. Live(n)
    BY <1>1, <1>3 DEF Live
  <2>2. immediate[n] = 1 /\ \A s \in Slots : slot[s] # n
    BY <1>1, <1>3 DEF MessageInv, TypeOK
  <2>3. immediate'[n] = 0 /\ \A s \in Slots : slot'[s] # n
    BY <1>1, <1>3, <2>2 DEF LeaveImmediate, TypeOK
  <2>4. InOrder(n)'
    BY <1>1, <1>3, <2>1, LiveIsPast DEF Settles
  <2>5. QED
    BY <2>3, <2>4, Rests DEF AtRest
<1>4. QED
  BY <1>2, <1>3

LEMMA CrashInv ==
  ASSUME TypeOK, NEW n \in Messages, MessageInv(n),
         \/ Crash \/ Exit \/ CrashInCleanup
         \/ \E s \in Slots : CrashInSlot(s)
         \/ \E m \in Messages : CrashInImmediate(m)
  PROVE  MessageInv(n)'
<1>1. DbTypeOK /\ InOrder(n)
  BY DEF TypeOK, MessageInv
<1>2. CASE Crash \/ Exit
  <2>1. LoseProcess /\ row' = row /\ asked' = asked
    BY <1>2 DEF Crash, Exit, dbVars
  <2>2. InOrder(n)'
    BY <1>1, <2>1 DEF InOrder
  <2>3. QED
    BY <2>1, <2>2, LostMessage
<1>3. CASE CrashInCleanup
  <2>1. LoseProcess /\ row' = Expired(row) /\ asked' = asked
    BY <1>3 DEF CrashInCleanup
  <2>2. InOrder(n)'
    BY <1>1, <2>1, ExpiredEffect DEF InOrder
  <2>3. QED
    BY <2>1, <2>2, LostMessage
<1>4. ASSUME NEW m \in Messages,
             \/ \E s \in Slots : slot[s] = m /\ CrashInSlot(s)
             \/ CrashInImmediate(m)
      PROVE  MessageInv(n)'
  <2>1. Live(m) /\ Settles(m) /\ LoseProcess
    BY <1>4, CrashInExecutionEffect
  <2>2. CASE n = m
    BY <2>1, <2>2, LiveIsPast, LostMessage DEF Settles
  <2>3. CASE n # m
    <3>1. row'[n] = row[n] /\ asked'[n] = asked[n]
      BY <2>1, <2>3 DEF Settles
    <3>2. InOrder(n)'
      BY <1>1, <3>1 DEF InOrder
    <3>3. QED
      BY <2>1, <3>2, LostMessage
  <2>4. QED
    BY <2>2, <2>3
<1>5. \A s \in Slots : CrashInSlot(s) => slot[s] \in Messages
  BY DEF CrashInSlot, Executing, TypeOK
<1>6. QED
  BY <1>2, <1>3, <1>4, <1>5

LEMMA CleanupInv ==
  ASSUME TypeOK, NEW n \in Messages, MessageInv(n), ~SweptAlive(n), Cleanup
  PROVE  MessageInv(n)'
<1>1. DbTypeOK /\ SweepAge \in Nat /\ MinAge \in Nat
  BY ThresholdAssumption DEF TypeOK
<1>2. row' = ResetOrphans(Expired(row), SweepAge, MinAge) /\ asked' = asked
  BY CleanupType DEF Cleanup
<1>3. PICK r \in Row :
        /\ r = Expired(row)[n]
        /\ \/ r = row[n]
           \/ row[n].status = "suspended" /\ r.status = "failed"
  BY <1>1, ExpiredEffect
<1>4. row'[n] = Orphaned(r, SweepAge, MinAge)
  BY <1>2, <1>3 DEF ResetOrphans
<1>5. SameHold(n) /\ (Live(n)' <=> Live(n))
  BY DEF Cleanup, procVars, SameHold, Live
<1>6. CASE row[n].status = "processing"
  <2>1. \/ row'[n] = row[n]
        \/ row'[n].status = "dead_letter"
        \/ row'[n].status = "pending" /\ row[n].updated >= MinAge
    BY <1>1, <1>3, <1>4, <1>6, OrphanedRow
  <2>2. Live(n) => row'[n].status \in {"processing", "dead_letter"}
    BY <1>5, <1>6, <2>1 DEF SweptAlive
  <2>3. QED
    BY <1>2, <1>5, <1>6, <2>1, <2>2 DEF MessageInv, InOrder, SameHold
<1>7. CASE row[n].status # "processing"
  <2>1. row'[n] = r
    BY <1>1, <1>3, <1>4, <1>7, OrphanedRow
  <2>2. QED
    BY <1>2, <1>3, <1>5, <2>1 DEF MessageInv, InOrder, SameHold
<1>8. QED
  BY <1>6, <1>7

\* Whichever executions report: the age of a row is nothing to the invariant.
LEMMA TickInv ==
  ASSUME TypeOK, NEW n \in Messages, MessageInv(n), Tick
  PROVE  MessageInv(n)'
<1>1. PICK reported \in SUBSET {m \in Messages : Live(m)} :
        row' = [m \in Messages |-> Aged(row[m], m \in reported)]
  BY DEF Tick
<1>2. row'[n].status = row[n].status
  BY <1>1, AgedRow DEF TypeOK, DbTypeOK
<1>3. SameHold(n) /\ asked' = asked
  BY DEF Tick, procVars, SameHold
<1>4. QED
  BY <1>2, <1>3, Undisturbed

LEMMA ReplyAsyncInv ==
  ASSUME TypeOK, NEW n \in Messages, MessageInv(n), ~RepliedAgain(n),
         NEW m \in Messages, ReplyAsync(m)
  PROVE  MessageInv(n)'
<1> DEFINE rows == [row EXCEPT ![m] = Moved(@, "pending")]
<1>1. DbTypeOK /\ asked[m] # "none" /\ row[m].status # "deleted" /\ "pending" \in Statuses
  BY DEF TypeOK, ReplyAsync, MayReply, Resumed, Statuses
<1>2. /\ rows \in [Messages -> Row]
      /\ rows[m].status = "pending"
      /\ n # m => rows[n] = row[n]
  BY <1>1, MovedTo
<1>3. OnEnqueued(rows) /\ immediate' = immediate
  BY DEF ReplyAsync
<1>4. asked'[m] = "answered" /\ (n # m => asked'[n] = asked[n])
  BY <1>1 DEF ReplyAsync, Resumed, DbTypeOK
<1> HIDE DEF rows
<1>5. Passed(rows, n) \/ Taken(rows, n)
  BY <1>2, <1>3, OnEnqueuedEffect, PoolEffect
<1>6. CASE n # m
  BY <1>2, <1>3, <1>4, <1>5, <1>6, ClaimingKeeps
<1>7. CASE n = m /\ asked[n] = "answered"
  <2>1. UNCHANGED <<row, slot, immediate>>
    BY <1>7 DEF RepliedAgain, Replies
  <2>2. QED
    BY <1>4, <1>7, <2>1, Undisturbed DEF SameHold
<1>8. CASE n = m /\ asked[n] # "answered"
  <2>1. immediate[n] = 0 /\ \A s \in Slots : slot[s] # n
    BY <1>1, <1>8, ReplyFinds
  <2>2. QED
    BY <1>2, <1>3, <1>4, <1>5, <1>8, <2>1, ClaimingMoved
<1>9. QED
  BY <1>6, <1>7, <1>8

LEMMA ApplyReplyInv ==
  ASSUME TypeOK, NEW n \in Messages, MessageInv(n), ~RepliedAgain(n),
         NEW m \in Messages, ApplyReply(m) \/ ReplyInConversation(m)
  PROVE  MessageInv(n)'
<1>1. DbTypeOK /\ asked[m] # "none" /\ row[m].status # "deleted" /\ "processing" \in Statuses
  BY DEF TypeOK, ApplyReply, ReplyInConversation, Resumed, Statuses
<1>2. row'[m].status = "processing" /\ (n # m => row'[n] = row[n])
  <2>1. row' = [row EXCEPT ![m] = Moved(@, "processing")]
    BY DEF ApplyReply, ReplyInConversation
  <2>2. QED
    BY <1>1, <2>1, MovedTo
<1>3. asked'[m] = "answered" /\ (n # m => asked'[n] = asked[n])
  BY <1>1 DEF ApplyReply, ReplyInConversation, Resumed, DbTypeOK
<1>4. /\ slot' = slot /\ immediate'[m] \in {immediate[m], immediate[m] + 1}
      /\ n # m => immediate'[n] = immediate[n]
  BY DEF ApplyReply, ReplyInConversation, TypeOK
<1>5. CASE n # m
  BY <1>2, <1>3, <1>4, <1>5, Undisturbed DEF SameHold
<1>6. CASE n = m /\ asked[n] = "answered"
  <2>1. UNCHANGED <<row, slot, immediate>>
    BY <1>6 DEF RepliedAgain, Replies
  <2>2. QED
    BY <1>3, <1>6, <2>1, Undisturbed DEF SameHold
<1>7. CASE n = m /\ asked[n] # "answered"
  <2>1. immediate[n] = 0 /\ \A s \in Slots : slot[s] # n
    BY <1>1, <1>7, ReplyFinds
  <2>2. Held(n)
    BY <1>2, <1>3, <1>4, <1>7, <2>1 DEF Held
  <2>3. QED
    BY <2>2, Holds
<1>8. QED
  BY <1>5, <1>6, <1>7

LEMMA ClearRowsInv ==
  ASSUME TypeOK, NEW n \in Messages, MessageInv(n), ClearRows
  PROVE  MessageInv(n)'
<1>1. \/ row'[n] = row[n] /\ asked'[n] = asked[n]
      \/ /\ row[n].status = "dead_letter" /\ row'[n].status = "dead_letter_cleared"
         /\ asked'[n] = asked[n]
      \/ row[n].status = "failed" /\ row'[n].status = "deleted" /\ asked'[n] = "none"
  BY ClearRowsEffect DEF ClearRows, TypeOK
<1>2. SameHold(n) /\ (Live(n)' <=> Live(n))
  BY DEF ClearRows, procVars, SameHold, Live
<1>3. QED
  BY <1>1, <1>2 DEF MessageInv, InOrder, SameHold

\* Steps that touch neither a row nor an execution.
LEMMA QuietInv ==
  ASSUME NEW n \in Messages, MessageInv(n),
         \/ Drain \/ DrainCompletes \/ DrainTimesOut \/ UNCHANGED vars
         \/ \E m \in Messages : ReplySync(m) \/ DropReply(m)
  PROVE  MessageInv(n)'
<1>1. UNCHANGED <<row, asked, slot, immediate>>
  BY DEF Drain, DrainCompletes, DrainTimesOut, ReplySync, DropReply, vars, dbVars, procVars
<1>2. QED
  BY <1>1, Undisturbed DEF SameHold

LEMMA MessageStepInv ==
  ASSUME TypeOK, DownIsDead, NEW n \in Messages, MessageInv(n),
         ~SweptAlive(n), ~RepliedAgain(n), [Next]_vars
  PROVE  MessageInv(n)'
<1>1. CASE Poll \/ Cleanup \/ Tick \/ Start \/ ClearRows
  BY <1>1, PollInv, CleanupInv, TickInv, StartInv, ClearRowsInv
<1>2. CASE \/ Drain \/ DrainCompletes \/ DrainTimesOut \/ UNCHANGED vars
           \/ \E m \in Messages : ReplySync(m) \/ DropReply(m)
  BY <1>2, QuietInv
<1>3. CASE \/ Crash \/ Exit \/ CrashInCleanup
           \/ \E s \in Slots : CrashInSlot(s)
           \/ \E m \in Messages : CrashInImmediate(m)
  BY <1>3, CrashInv
<1>4. CASE \E a \in Agents : StartLink(a)
  BY <1>4, StartLinkInv
<1>5. CASE \E s \in Slots : FinishSlot(s)
  BY <1>5, FinishSlotInv
<1>6. ASSUME NEW m \in Messages,
             Enqueue(m) \/ EnqueueImmediate(m) \/ FinishImmediate(m)
      PROVE  MessageInv(n)'
  BY <1>6, EnqueueInv, EnqueueImmediateInv, FinishImmediateInv
<1>7. ASSUME NEW m \in Messages,
             ReplyAsync(m) \/ ApplyReply(m) \/ ReplyInConversation(m)
      PROVE  MessageInv(n)'
  BY <1>7, ReplyAsyncInv, ApplyReplyInv
<1>8. QED
  BY <1>1, <1>2, <1>3, <1>4, <1>5, <1>6, <1>7 DEF Next, MessageStep

\* What becomes contested is recorded.
LEMMA RecordedStep ==
  ASSUME contested \subseteq Messages, [Next /\ Records]_ownVars
  PROVE  /\ [Next]_vars
         /\ contested' \subseteq Messages
         /\ \A n \in Messages : n \in contested => n \in contested'
         /\ \A n \in Uncontested' : n \in Uncontested /\ ~SweptAlive(n) /\ ~RepliedAgain(n)
<1>1. CASE Next /\ Records
  BY <1>1 DEF Records, Uncontested
<1>2. CASE UNCHANGED ownVars
  <2>1. UNCHANGED vars /\ contested' = contested
    BY <1>2 DEF ownVars
  <2>2. UNCHANGED <<row, slot, immediate>>
    BY <2>1 DEF vars, dbVars, procVars
  <2>3. \A n \in Messages : ~SweptAlive(n) /\ ~RepliedAgain(n)
    BY <2>2 DEF SweptAlive, RepliedAgain
  <2>4. QED
    BY <2>1, <2>3 DEF Uncontested
<1>3. QED
  BY <1>1, <1>2

\* A step that leaves the processor alone contests nothing.
LEMMA NothingToRecord ==
  ASSUME UNCHANGED vars, Records
  PROVE  UNCHANGED ownVars
<1>1. UNCHANGED <<row, slot, immediate>>
  BY DEF vars, dbVars, procVars
<1>2. \A n \in Messages : ~SweptAlive(n) /\ ~RepliedAgain(n)
  BY <1>1 DEF SweptAlive, RepliedAgain
<1>3. contested' = contested
  BY <1>2 DEF Records
<1>4. QED
  BY <1>3 DEF ownVars

LEMMA OwnershipIsProcessor == OwnershipSpec => Spec
<1>1. [Next /\ Records]_ownVars => [Next]_vars
  BY DEF ownVars
<1>2. QED
  BY <1>1, PTL DEF OwnershipSpec, OwnershipInit, Spec

LEMMA InitIsOwned == OwnershipInit => OwnershipInv
<1> SUFFICES ASSUME Init, contested = {} PROVE OwnershipInv
  BY DEF OwnershipInit
<1>1. \A n \in Messages :
        immediate[n] = 0 /\ row[n].status = "absent" /\ asked[n] = "none"
  BY DEF Init, DbInit, NewRow
<1>2. \A s \in Slots, n \in Messages : slot[s] # n
  BY NothingAssumption DEF Init
<1>3. \A n \in Messages : MessageInv(n)
  BY <1>1, <1>2 DEF MessageInv, InOrder, Live
<1>4. QED
  BY <1>3, TypeInit, DownInit, InvByMessage DEF Uncontested

LEMMA OwnershipStep ==
  ASSUME OwnershipInv, [Next /\ Records]_ownVars
  PROVE  OwnershipInv'
<1>1. /\ TypeOK /\ DownIsDead /\ contested \subseteq Messages
      /\ \A n \in Uncontested : MessageInv(n)
  BY InvByMessage
<1>2. /\ [Next]_vars
      /\ contested' \subseteq Messages
      /\ \A n \in Uncontested' : n \in Uncontested /\ ~SweptAlive(n) /\ ~RepliedAgain(n)
  BY <1>1, RecordedStep
<1>3. TypeOK' /\ DownIsDead'
  BY <1>1, <1>2, TypeStep, DownStep
<1>4. ASSUME NEW n \in Messages, n \notin contested'
      PROVE  MessageInv(n)'
  <2>1. MessageInv(n) /\ ~SweptAlive(n) /\ ~RepliedAgain(n)
    BY <1>1, <1>2, <1>4 DEF Uncontested
  <2>2. QED
    BY <1>1, <1>2, <2>1, MessageStepInv
<1>5. \A n \in Uncontested' : MessageInv(n)'
  BY <1>4 DEF Uncontested
<1>6. (TypeOK /\ DownIsDead /\ contested \subseteq Messages
         /\ \A n \in Uncontested : MessageInv(n))' => OwnershipInv'
  BY InvByMessage, PTL
<1>7. QED
  BY <1>2, <1>3, <1>5, <1>6

\* The inductive invariant holds, whichever executions are silent and whichever
\* users reply again: only the messages this has happened to are left out.
THEOREM OwnershipInvariant == OwnershipSpec => []OwnershipInv
<1>1. OwnershipInv /\ [Next /\ Records]_ownVars => OwnershipInv'
  BY OwnershipStep
<1>2. QED
  BY <1>1, InitIsOwned, PTL DEF OwnershipSpec

\* No message but one that was swept from under its execution or replied to
\* again is ever executed twice at once, by any two of the agent chains, the
\* thread pool and the immediate callers, across crashes and restarts.
THEOREM NoDoubleExecution == OwnershipSpec => []OneExecution
<1>1. OwnershipInv => OneExecution
  BY DEF OwnershipInv
<1>2. QED
  BY <1>1, OwnershipInvariant, PTL

\* A question keeps the record its reply and its timeout need exactly as long
\* as its message waits or has lapsed.
THEOREM QuestionsAnswerable == OwnershipSpec => []QuestionIsOpen
<1>1. OwnershipInv => QuestionIsOpen
  BY DEF OwnershipInv
<1>2. QED
  BY <1>1, OwnershipInvariant, PTL

-----------------------------------------------------------------------------
(* What no step may do.                                                    *)

LEMMA CompletedStep ==
  ASSUME TypeOK, Next, NEW n \in Messages, MessageInv(n), row[n].status = "completed"
  PROVE  row'[n].status = "completed"
<1>1. DbTypeOK /\ row \in [Messages -> Row]
  BY DEF TypeOK, DbTypeOK
<1>2. ~Live(n) /\ asked[n] = "none"
  BY NotLive DEF MessageInv, InOrder
<1>3. MinAge \in Nat /\ SweepAge \in Nat /\ 0 \in Nat
  BY ThresholdAssumption
<1>4. ASSUME NEW rows \in [Messages -> Row], rows[n] = row[n],
             \/ PoolClaims(rows)
             \/ row' = rows /\ slot' = slot /\ activeThreads' = activeThreads
      PROVE  row'[n].status = "completed"
  BY <1>1, <1>4, PoolEffect DEF Passed, Taken
<1>5. CASE Poll
  BY <1>1, <1>4, <1>5, ProcessNextEffect DEF Poll
<1>6. CASE Start
  <2>1. /\ ResetOrphans(row, MinAge, 0) \in [Messages -> Row]
        /\ ResetOrphans(row, MinAge, 0)[n] = row[n]
    BY <1>1, <1>3, ResetType, OrphanedRow DEF ResetOrphans
  <2>2. ProcessNext(ResetOrphans(row, MinAge, 0))
    BY <1>6 DEF Start
  <2>3. QED
    BY <1>1, <1>4, <2>1, <2>2, ProcessNextEffect
<1>7. CASE Cleanup
  <2>1. /\ row' = ResetOrphans(Expired(row), SweepAge, MinAge)
        /\ Expired(row)[n] = row[n]
    BY <1>1, <1>7, CleanupType, ExpiredEffect
  <2>2. QED
    BY <1>1, <1>3, <2>1, OrphanedRow DEF ResetOrphans
<1>8. CASE Tick
  <2>1. PICK reported \in SUBSET {m \in Messages : Live(m)} :
          row' = [m \in Messages |-> Aged(row[m], m \in reported)]
    BY <1>8 DEF Tick
  <2>2. Aged(row[n], n \in reported).status = row[n].status
    BY <1>1, AgedRow
  <2>3. QED
    BY <1>1, <2>1, <2>2
<1>9. CASE CrashInCleanup
  BY <1>1, <1>9, ExpiredEffect DEF CrashInCleanup
<1>10. CASE ClearRows
  BY <1>1, <1>10, ClearRowsEffect DEF ClearRows
<1>11. CASE Crash \/ Exit \/ Drain \/ DrainCompletes \/ DrainTimesOut
  BY <1>11 DEF Crash, Exit, Drain, DrainCompletes, DrainTimesOut, dbVars
<1>12. ASSUME NEW a \in Agents, StartLink(a)
       PROVE  row'[n].status = "completed"
  <2>1. a \in Slots /\ slot \in [Slots -> Messages \cup {Nothing}]
    BY <1>1 DEF Slots, TypeOK
  <2>2. QED
    BY <1>1, <1>12, <2>1, StartLinkEffect, ClaimEffect DEF Passed, Taken
<1>13. ASSUME NEW s \in Slots, FinishSlot(s)
       PROVE  row'[n].status = "completed"
  <2>1. slot[s] \in Messages /\ slot[s] # n /\ Settles(slot[s])
    BY <1>1, <1>2, <1>13, FinishSlotEffect DEF Live
  <2>2. QED
    BY <2>1 DEF Settles
<1>14. ASSUME NEW m \in Messages, FinishImmediate(m)
       PROVE  row'[n].status = "completed"
  <2>1. m # n /\ Settles(m)
    BY <1>1, <1>2, <1>14, FinishImmediateEffect DEF Live
  <2>2. QED
    BY <2>1 DEF Settles
<1>15. ASSUME NEW m \in Messages,
              \/ \E s \in Slots : slot[s] = m /\ CrashInSlot(s)
              \/ CrashInImmediate(m)
       PROVE  row'[n].status = "completed"
  <2>1. Live(m) /\ Settles(m)
    BY <1>1, <1>15, CrashInExecutionEffect
  <2>2. QED
    BY <1>2, <2>1 DEF Settles
<1>16. \A s \in Slots : CrashInSlot(s) => slot[s] \in Messages
  BY <1>1 DEF CrashInSlot, Executing, TypeOK
<1>17. ASSUME NEW m \in Messages, Enqueue(m) \/ EnqueueImmediate(m)
       PROVE  row'[n].status = "completed"
  <2>1. PICK status \in {"pending", "processing"} : OnEnqueued(Inserted(row, m, status))
    BY <1>17 DEF Enqueue, EnqueueImmediate
  <2>2. m # n
    BY <1>17 DEF Enqueue, EnqueueImmediate
  <2>3. /\ Inserted(row, m, status) \in [Messages -> Row]
        /\ Inserted(row, m, status)[n] = row[n]
    BY <1>1, <2>2, InsertedType DEF Statuses
  <2>4. QED
    BY <1>1, <1>4, <2>1, <2>3, OnEnqueuedEffect
<1>18. ASSUME NEW m \in Messages, ReplyAsync(m)
       PROVE  row'[n].status = "completed"
  <2>1. m # n
    BY <1>2, <1>18 DEF ReplyAsync, MayReply
  <2>2. /\ [row EXCEPT ![m] = Moved(@, "pending")] \in [Messages -> Row]
        /\ [row EXCEPT ![m] = Moved(@, "pending")][n] = row[n]
    BY <1>1, <2>1, MovedTo DEF Statuses
  <2>3. QED
    BY <1>1, <1>4, <1>18, <2>2, OnEnqueuedEffect DEF ReplyAsync
<1>19. ASSUME NEW m \in Messages, ReplySync(m) \/ DropReply(m)
       PROVE  row'[n].status = "completed"
  BY <1>19 DEF ReplySync, DropReply, dbVars
<1>20. ASSUME NEW m \in Messages, ApplyReply(m) \/ ReplyInConversation(m)
       PROVE  row'[n].status = "completed"
  <2>1. m # n
    BY <1>1, <1>2, <1>20 DEF ApplyReply, ReplyInConversation
  <2>2. row' = [row EXCEPT ![m] = Moved(@, "processing")]
    BY <1>20 DEF ApplyReply, ReplyInConversation
  <2>3. QED
    BY <1>1, <2>1, <2>2
<1>21. QED
  BY <1>5, <1>6, <1>7, <1>8, <1>9, <1>10, <1>11, <1>12, <1>13, <1>14, <1>15, <1>16, <1>17,
     <1>18, <1>19, <1>20 DEF Next, MessageStep

\* A message that was answered is never claimed, failed, swept or suspended
\* again, by the queue, by a late reply or by a restart, unless it had been
\* executed or replied to twice before.
THEOREM CompletedStays == OwnershipSpec => CompletedIsFinal
<1>1. ASSUME OwnershipInv, Next, NEW m \in Uncontested, row[m].status = "completed"
      PROVE  row'[m].status = "completed"
  <2>1. TypeOK /\ m \in Messages /\ MessageInv(m)
    BY <1>1, InvByMessage DEF Uncontested
  <2>2. QED
    BY <1>1, <2>1, CompletedStep
<1>2. OwnershipInv /\ [Next /\ Records]_ownVars
      => [\A m \in Uncontested :
            row[m].status = "completed" => row'[m].status = "completed"]_ownVars
  BY <1>1
<1>3. QED
  BY <1>2, OwnershipInvariant, PTL DEF OwnershipSpec, CompletedIsFinal

-----------------------------------------------------------------------------
(* The thread pool.                                                        *)

PoolInv == TypeOK /\ PoolAccounting

LEMMA PoolStep ==
  ASSUME PoolInv, [Next]_vars
  PROVE  PoolInv'
<1>1. TypeOK /\ TypeOK' /\ activeThreads \in Int /\ MaxThreads \in Nat
  BY TypeStep, ProcessorAssumption DEF PoolInv, TypeOK
<1>2. IsFiniteSet(ActiveThreadIds)
  BY NothingAssumption, FS_Subset DEF ActiveThreadIds
<1>3. CASE slot' = slot /\ activeThreads' = activeThreads
  BY <1>1, <1>3 DEF PoolInv, PoolAccounting, ActiveThreadIds
<1>4. ASSUME NEW rows, PoolClaims(rows)
      PROVE  PoolAccounting'
  <2>1. PICK m \in Messages, t \in Threads :
          /\ slot[t] = Nothing /\ activeThreads < MaxThreads
          /\ slot' = [slot EXCEPT ![t] = m]
          /\ activeThreads' = activeThreads + 1
    BY <1>4 DEF PoolClaims
  <2>2. t \notin ActiveThreadIds /\ ActiveThreadIds' = ActiveThreadIds \cup {t}
    BY <1>1, <2>1, NothingAssumption DEF ActiveThreadIds, Slots, TypeOK
  <2>3. Cardinality(ActiveThreadIds') = Cardinality(ActiveThreadIds) + 1
    BY <1>2, <2>2, FS_AddElement
  <2>4. QED
    BY <1>1, <2>1, <2>3 DEF PoolInv, PoolAccounting
<1>5. ASSUME NEW s \in Slots, FinishSlot(s)
      PROVE  PoolAccounting'
  <2>1. slot[s] # Nothing /\ Leave(s)
    BY <1>1, <1>5, FinishSlotEffect, NothingAssumption
  <2>2. CASE s \in Threads
    <3>1. s \in ActiveThreadIds /\ ActiveThreadIds' = ActiveThreadIds \ {s}
      BY <1>1, <2>1, <2>2 DEF ActiveThreadIds, Leave, Slots, TypeOK
    <3>2. Cardinality(ActiveThreadIds') = Cardinality(ActiveThreadIds) - 1
      BY <1>2, <3>1, FS_RemoveElement
    <3>3. QED
      BY <1>1, <2>1, <2>2, <3>2 DEF PoolInv, PoolAccounting, Leave
  <2>3. CASE s \notin Threads
    BY <1>1, <2>1, <2>3 DEF PoolInv, PoolAccounting, ActiveThreadIds, Leave, Slots, TypeOK
  <2>4. QED
    BY <2>2, <2>3
<1>6. ASSUME LoseProcess
      PROVE  PoolAccounting'
  <2>1. ActiveThreadIds' = {} /\ activeThreads' = 0
    BY <1>6 DEF LoseProcess, ActiveThreadIds, Slots
  <2>2. QED
    BY <1>1, <2>1, FS_EmptySet DEF PoolAccounting
<1>7. CASE Poll \/ Start
  BY <1>1, <1>3, <1>4, <1>7, ProcessNextEffect DEF Poll, Start, PoolInv
<1>8. ASSUME NEW m \in Messages, Enqueue(m) \/ EnqueueImmediate(m) \/ ReplyAsync(m)
      PROVE  PoolAccounting'
  <2>1. PICK rows : OnEnqueued(rows)
    BY <1>8 DEF Enqueue, EnqueueImmediate, ReplyAsync
  <2>2. QED
    BY <1>1, <1>3, <1>4, <2>1, OnEnqueuedEffect DEF PoolInv
<1>9. ASSUME NEW a \in Agents, StartLink(a)
      PROVE  PoolAccounting'
  <2>1. a \notin Threads
    BY AttributeAssumption, NothingAssumption
  <2>2. ActiveThreadIds' = ActiveThreadIds /\ activeThreads' = activeThreads
    BY <1>1, <1>9, <2>1 DEF StartLink, ActiveThreadIds, Slots, TypeOK
  <2>3. QED
    BY <2>2 DEF PoolInv, PoolAccounting
<1>10. ASSUME NEW m \in Messages,
              \/ FinishImmediate(m) \/ ReplySync(m) \/ ApplyReply(m)
              \/ DropReply(m) \/ ReplyInConversation(m)
       PROVE  PoolAccounting'
  <2>1. slot' = slot /\ activeThreads' = activeThreads
    BY <1>1, <1>10, FinishImmediateEffect DEF LeaveImmediate, ReplySync, ApplyReply, DropReply,
       ReplyInConversation
  <2>2. QED
    BY <1>3, <2>1 DEF PoolInv
<1>11. CASE \/ Cleanup \/ Tick \/ Drain \/ DrainCompletes \/ DrainTimesOut \/ ClearRows
            \/ UNCHANGED vars
  BY <1>3, <1>11 DEF Cleanup, Tick, Drain, DrainCompletes, DrainTimesOut, ClearRows, vars,
     procVars, PoolInv
<1>12. CASE \/ Crash \/ Exit \/ CrashInCleanup
            \/ \E s \in Slots : CrashInSlot(s)
            \/ \E m \in Messages : CrashInImmediate(m)
  <2>1. LoseProcess
    BY <1>12 DEF Crash, Exit, CrashInCleanup, CrashInSlot, CrashInImmediate
  <2>2. QED
    BY <1>1, <1>6, <2>1 DEF PoolInv
<1>13. QED
  BY <1>1, <1>3, <1>5, <1>7, <1>8, <1>9, <1>10, <1>11, <1>12 DEF Next, MessageStep, PoolInv

\* activeThreadCount is exact and within maxConcurrentThreads, however the
\* executions end, whatever replies arrive and whatever the sweep decides.
THEOREM PoolIsAccounted == Spec => []PoolAccounting
<1>1. Init => PoolInv
  <2>1. Init => ActiveThreadIds = {} /\ activeThreads = 0
    BY DEF Init, ActiveThreadIds, Slots
  <2>2. QED
    BY <2>1, TypeInit, FS_EmptySet, ProcessorAssumption DEF PoolInv, PoolAccounting
<1>2. PoolInv /\ [Next]_vars => PoolInv'
  BY PoolStep
<1>3. PoolInv => PoolAccounting
  BY DEF PoolInv
<1>4. QED
  BY <1>1, <1>2, <1>3, PTL DEF Spec

LEMMA DrainedStep ==
  ASSUME TypeOK, DrainedStaysIdle, [Next]_vars
  PROVE  DrainedStaysIdle'
<1>1. CASE UNCHANGED vars
  BY <1>1 DEF vars, procVars, DrainedStaysIdle
<1>2. CASE \/ Crash \/ Exit \/ CrashInCleanup
           \/ \E s \in Slots : CrashInSlot(s)
           \/ \E m \in Messages : CrashInImmediate(m)
  <2>1. LoseProcess
    BY <1>2 DEF Crash, Exit, CrashInCleanup, CrashInSlot, CrashInImmediate
  <2>2. QED
    BY <2>1 DEF LoseProcess, DrainedStaysIdle
<1>3. CASE Poll \/ Start \/ Drain \/ DrainTimesOut
  BY <1>3 DEF Poll, Start, Drain, DrainTimesOut, DrainedStaysIdle
<1>4. CASE DrainCompletes
  BY <1>4 DEF DrainCompletes, DrainedStaysIdle
<1>5. CASE Cleanup \/ Tick \/ ClearRows
  BY <1>5 DEF Cleanup, Tick, ClearRows, procVars, DrainedStaysIdle
<1>6. ASSUME NEW a \in Agents, StartLink(a)
      PROVE  DrainedStaysIdle'
  <2>1. phase # "drained"
    BY <1>6 DEF StartLink, DrainedStaysIdle, TypeOK
  <2>2. QED
    BY <1>6, <2>1 DEF StartLink, DrainedStaysIdle
<1>7. ASSUME NEW s \in Slots, FinishSlot(s)
      PROVE  DrainedStaysIdle'
  <2>1. slot[s] # Nothing /\ Leave(s)
    BY <1>7, FinishSlotEffect, NothingAssumption
  <2>2. QED
    BY <2>1 DEF Leave, DrainedStaysIdle
<1>8. ASSUME NEW m \in Messages, Enqueue(m) \/ EnqueueImmediate(m) \/ ReplyAsync(m)
      PROVE  DrainedStaysIdle'
  <2>1. phase' = phase /\ \E rows : OnEnqueued(rows)
    BY <1>8 DEF Enqueue, EnqueueImmediate, ReplyAsync
  <2>2. phase = "drained" => UNCHANGED <<slot, links>>
    BY <2>1 DEF OnEnqueued
  <2>3. QED
    BY <2>1, <2>2 DEF DrainedStaysIdle
<1>9. ASSUME NEW m \in Messages,
             \/ FinishImmediate(m) \/ ReplySync(m) \/ ApplyReply(m)
             \/ DropReply(m) \/ ReplyInConversation(m)
      PROVE  DrainedStaysIdle'
  <2>1. UNCHANGED <<phase, slot, links>>
    BY <1>9, FinishImmediateEffect DEF LeaveImmediate, ReplySync, ApplyReply, DropReply,
       ReplyInConversation
  <2>2. QED
    BY <2>1 DEF DrainedStaysIdle
<1>10. QED
  BY <1>1, <1>2, <1>3, <1>4, <1>5, <1>6, <1>7, <1>8, <1>9 DEF Next, MessageStep

\* After drain() has reported success the listener still hears every enqueue
\* and every reply, and starts nothing on a chain or in the pool.
THEOREM DrainedIdle == Spec => []DrainedStaysIdle
<1>1. Init => DrainedStaysIdle
  BY DEF Init, DrainedStaysIdle
<1>2. TypeOK /\ DrainedStaysIdle /\ [Next]_vars => DrainedStaysIdle'
  BY DrainedStep
<1>3. QED
  BY <1>1, <1>2, TypeCorrect, PTL DEF Spec

-----------------------------------------------------------------------------
(* The lease.  What a step does to one message is one of four things, of   *)
(* which each is a move that MessageLease allows, unless the message is    *)
(* contested: then it is disputed, or becomes so.                          *)

\* Who has the lease is the caller, or the one slot that executes the message,
\* and nobody when the message is contested.
LeaseFits(n) ==
  /\ LeaseState(n) \in Lease!States
  /\ LeaseHolder(n) \in Slots \cup {"caller", Nothing}
  /\ n \notin contested /\ immediate[n] > 0 => LeaseHolder(n) = "caller"
  /\ n \notin contested => \A s \in Slots : slot[s] = n => LeaseHolder(n) = s
  /\ n \in contested \/ ~Live(n) => LeaseHolder(n) = Nothing

LeaseFit == \A n \in Messages : LeaseFits(n)

LEMMA LeasesFit == OwnershipInv => LeaseFit
<1> SUFFICES ASSUME OwnershipInv, NEW n \in Messages
             PROVE  LeaseFits(n)
  BY DEF LeaseFit
<1>1. LeaseState(n) \in Lease!States
  BY DEF LeaseState, Lease!States
<1>2. CASE n \in contested
  BY <1>1, <1>2 DEF LeaseFits, LeaseHolder
<1>3. CASE n \notin contested
  <2>1. MessageInv(n)
    BY <1>3, InvByMessage DEF Uncontested
  <2>2. ASSUME NEW s \in Slots, slot[s] = n
        PROVE  LeaseHolder(n) = s
    <3>1. ~(immediate[n] > 0) /\ \A t \in Slots : slot[t] = n => t = s
      BY <2>1, <2>2 DEF MessageInv
    <3>2. (CHOOSE t \in Slots : slot[t] = n) = s
      BY <2>2, <3>1
    <3> QED BY <1>3, <2>2, <3>1, <3>2 DEF LeaseHolder
  <2>3. immediate[n] > 0 => LeaseHolder(n) = "caller"
    BY <1>3 DEF LeaseHolder
  <2>4. ~Live(n) => LeaseHolder(n) = Nothing
    BY DEF LeaseHolder, Live
  <2> QED BY <1>1, <1>3, <2>2, <2>3, <2>4 DEF LeaseFits, Live
<1> QED BY <1>2, <1>3

Kept(n) == SameHold(n) /\ (Live(n) \/ row'[n].status = row[n].status)

Ended(n) == Live(n) /\ ~Live(n)' /\ row'[n].status \notin {"absent", "failed"}

\* The moves of the row of a message nobody executes.
Shift(s, t) ==
  \/ t = s
  \/ s = "absent" /\ t = "pending"
  \/ s = "processing" /\ t \in {"pending", "dead_letter"}
  \/ s = "suspended" /\ t \in {"pending", "processing", "failed"}
  \/ s = "failed" /\ t \in {"pending", "processing", "deleted"}
  \/ s = "dead_letter" /\ t = "dead_letter_cleared"

Shifted(n) == ~Live(n) /\ ~Live(n)' /\ Shift(row[n].status, row'[n].status)

Started(n) ==
  /\ ~Live(n)
  /\ row[n].status \in {"absent", "pending", "processing", "suspended", "failed"}
  /\ immediate'[n] > 0 \/ \E s \in Slots : slot[s] = Nothing /\ slot'[s] = n

Served(n) == Kept(n) \/ Ended(n) \/ Shifted(n) \/ Started(n)

\* The moves of MessageLease, in the terms of the processor.
LeaseStays(n) == LeaseState(n)' = LeaseState(n) /\ LeaseHolder(n)' = LeaseHolder(n)

LeaseFree(n) ==
  /\ LeaseHolder(n)' = Nothing
  /\ \/ LeaseState(n) = "new" /\ LeaseState(n)' = "waiting"
     \/ /\ LeaseState(n) = "held"
        /\ LeaseState(n)' \in {"done", "dead", "waiting", "parked", "orphaned"}
     \/ LeaseState(n) = "orphaned" /\ LeaseState(n)' \in {"waiting", "dead"}
     \/ LeaseState(n) = "parked" /\ LeaseState(n)' \in {"waiting", "orphaned", "lapsed"}
     \/ LeaseState(n) = "lapsed" /\ LeaseState(n)' \in {"waiting", "orphaned", "dead"}
     \/ /\ LeaseState(n) \in {"waiting", "held", "orphaned", "dead"}
        /\ LeaseState(n)' = "disputed"

LeaseTaken(n) ==
  /\ LeaseState(n) \in {"new", "waiting", "orphaned", "parked", "lapsed"}
  /\ LeaseState(n)' = "held"
  /\ \/ LeaseHolder(n)' = "caller"
     \/ /\ LeaseHolder(n)' \in Slots
        /\ \A m \in Messages : m # n => LeaseHolder(m)' # LeaseHolder(n)'
        /\ \A m \in Messages : LeaseHolder(m) # LeaseHolder(n)'

\* Neither before nor after the step is n contested.
Clean(n) == n \notin contested /\ n \notin contested'

LEMMA KeptLeaseStays ==
  ASSUME NEW n \in Messages, Clean(n), LeaseFits(n), LeaseFits(n)', Kept(n)
  PROVE  LeaseStays(n)
<1>1. Live(n)' <=> Live(n)
  BY DEF Kept, SameHold, Live
<1>2. LeaseState(n)' = LeaseState(n)
  BY <1>1 DEF Clean, Kept, LeaseState
<1>3. LeaseHolder(n)' = LeaseHolder(n)
  BY <1>1 DEF Clean, Kept, SameHold, LeaseFits, Live
<1> QED BY <1>2, <1>3 DEF LeaseStays

LEMMA EndedLeaseIsFree ==
  ASSUME NEW n \in Messages, Clean(n), row'[n].status \in Statuses, LeaseFits(n)', Ended(n)
  PROVE  LeaseFree(n)
<1>1. LeaseHolder(n)' = Nothing /\ LeaseState(n) = "held"
  BY DEF Clean, LeaseFits, Ended, LeaseState
<1>2. LeaseState(n)' \in {"done", "dead", "waiting", "parked", "orphaned"}
  BY DEF Clean, Ended, LeaseState, Statuses
<1> QED BY <1>1, <1>2 DEF LeaseFree

LEMMA ShiftedLeaseIsFree ==
  ASSUME NEW n \in Messages, Clean(n), LeaseFits(n), LeaseFits(n)', Shifted(n)
  PROVE  LeaseStays(n) \/ LeaseFree(n)
<1>1. LeaseHolder(n)' = Nothing /\ LeaseHolder(n) = Nothing
  BY DEF Clean, LeaseFits, Shifted
<1>2. CASE row'[n].status = row[n].status
  BY <1>1, <1>2 DEF Clean, Shifted, LeaseState, LeaseStays
<1>3. CASE row[n].status = "absent" /\ row'[n].status = "pending"
  BY <1>1, <1>3 DEF Clean, Shifted, LeaseState, LeaseFree
<1>4. CASE row[n].status = "processing" /\ row'[n].status \in {"pending", "dead_letter"}
  BY <1>1, <1>4 DEF Clean, Shifted, LeaseState, LeaseFree
<1>5. CASE row[n].status = "suspended" /\ row'[n].status \in {"pending", "processing", "failed"}
  BY <1>1, <1>5 DEF Clean, Shifted, LeaseState, LeaseFree
<1>6. CASE row[n].status = "failed" /\ row'[n].status \in {"pending", "processing", "deleted"}
  BY <1>1, <1>6 DEF Clean, Shifted, LeaseState, LeaseFree
<1>7. CASE row[n].status = "dead_letter" /\ row'[n].status = "dead_letter_cleared"
  BY <1>1, <1>7 DEF Clean, Shifted, LeaseState, LeaseStays
<1> QED BY <1>2, <1>3, <1>4, <1>5, <1>6, <1>7 DEF Shifted, Shift

\* A slot that takes a message was free, and holds no other.
LEMMA StartedLeaseIsTaken ==
  ASSUME TypeOK, LeaseFit, LeaseFit', NEW n \in Messages, Clean(n), Started(n)
  PROVE  LeaseTaken(n)
<1>1. LeaseState(n) \in {"new", "waiting", "orphaned", "parked", "lapsed"}
  BY DEF Clean, Started, LeaseState
<1>2. LeaseState(n)' = "held"
  BY DEF Clean, Started, LeaseState, Live
<1>3. CASE immediate'[n] > 0
  BY <1>1, <1>2, <1>3 DEF Clean, LeaseFit, LeaseFits, LeaseTaken
<1>4. ASSUME NEW s \in Slots, slot[s] = Nothing, slot'[s] = n, s # "caller"
      PROVE  LeaseTaken(n)
  <2>1. LeaseHolder(n)' = s
    BY <1>4 DEF Clean, LeaseFit, LeaseFits
  <2>2. s # Nothing /\ Nothing \notin Messages
    BY NothingAssumption, AttributeAssumption DEF Slots
  <2>3. ASSUME NEW m \in Messages, m # n
        PROVE  LeaseHolder(m)' # s
    <3>1. slot'[s] # m
      BY <1>4, <2>3
    <3>2. CASE Live(m)' /\ m \notin contested'
      BY <1>4, <3>1, <3>2 DEF LeaseFit, LeaseFits, Live
    <3>3. CASE ~Live(m)' \/ m \in contested'
      BY <2>2, <3>3 DEF LeaseFit, LeaseFits
    <3> QED BY <3>2, <3>3
  <2>4. ASSUME NEW m \in Messages
        PROVE  LeaseHolder(m) # s
    <3>1. slot[s] # m
      BY <1>4, <2>2
    <3>2. CASE Live(m) /\ m \notin contested
      BY <1>4, <3>1, <3>2 DEF LeaseFit, LeaseFits, Live
    <3>3. CASE ~Live(m) \/ m \in contested
      BY <2>2, <3>3 DEF LeaseFit, LeaseFits
    <3> QED BY <3>2, <3>3
  <2> QED BY <1>1, <1>2, <2>1, <2>3, <2>4 DEF LeaseTaken
<1>5. ASSUME NEW s \in Slots, slot'[s] = n, s = "caller"
      PROVE  LeaseTaken(n)
  <2>1. LeaseHolder(n)' = "caller"
    BY <1>5 DEF Clean, LeaseFit, LeaseFits
  <2> QED BY <1>1, <1>2, <2>1 DEF LeaseTaken
<1> QED BY <1>3, <1>4, <1>5 DEF Started

\* What is contested stays so, and is held by nobody.
LEMMA ContestedLeaseStays ==
  ASSUME NEW n \in Messages, n \in contested, n \in contested'
  PROVE  LeaseStays(n)
BY DEF LeaseStays, LeaseState, LeaseHolder

\* Only a message that has had its reply, or is executed, becomes contested.
LEMMA ContestIsDispute ==
  ASSUME TypeOK, NEW n \in Messages, n \notin contested, n \in contested',
         MessageInv(n), SweptAlive(n) \/ RepliedAgain(n)
  PROVE  LeaseFree(n)
<1>1. LeaseHolder(n)' = Nothing /\ LeaseState(n)' = "disputed"
  BY DEF LeaseState, LeaseHolder
<1>2. LeaseState(n) \in {"waiting", "held", "orphaned", "dead"}
  <2>1. CASE Live(n)
    BY <2>1 DEF LeaseState
  <2>2. CASE ~Live(n)
    <3>1. row[n].status \notin {"absent", "completed", "suspended", "failed"}
      BY <2>2 DEF SweptAlive, RepliedAgain, MessageInv, InOrder
    <3> QED BY <2>2, <3>1 DEF LeaseState
  <2> QED BY <2>1, <2>2
<1> QED BY <1>1, <1>2 DEF LeaseFree

\* Together they are a step of MessageLease.
LEMMA ServedIsLeased ==
  ASSUME TypeOK, LeaseFit, LeaseFit', TypeOK',
         \A n \in Messages : \/ LeaseStays(n) \/ LeaseFree(n)
                             \/ Clean(n) /\ Served(n)
  PROVE  Lease!LeaseNext
<1>1. \A n \in Messages : row'[n].status \in Statuses
  BY DEF TypeOK, DbTypeOK, Row
<1>2. \A n \in Messages : LeaseStays(n) \/ LeaseFree(n) \/ LeaseTaken(n)
  <2> SUFFICES ASSUME NEW n \in Messages, Clean(n), Served(n)
               PROVE  LeaseStays(n) \/ LeaseFree(n) \/ LeaseTaken(n)
    OBVIOUS
  <2>1. LeaseFits(n) /\ LeaseFits(n)'
    BY DEF LeaseFit
  <2> QED BY <1>1, <2>1, KeptLeaseStays, EndedLeaseIsFree, ShiftedLeaseIsFree,
             StartedLeaseIsTaken DEF Served
<1>3. \A n \in Messages :
        /\ LeaseState(n)' \in Lease!States
        /\ LeaseHolder(n)' \in Slots \cup {"caller", Nothing}
  BY DEF LeaseFit, LeaseFits
<1>4. \A n \in Messages : LeaseStays(n) => Lease!Stay(n)
  BY DEF LeaseStays, Lease!Stay
<1>5. \A n \in Messages : LeaseFree(n) =>
        Lease!Submit(n) \/ Lease!End(n) \/ Lease!Recover(n) \/ Lease!Reply(n)
          \/ Lease!Lapse(n) \/ Lease!Drop(n) \/ Lease!Dispute(n)
  BY DEF LeaseFree, Lease!Submit, Lease!End, Lease!Recover, Lease!Reply, Lease!Lapse,
         Lease!Drop, Lease!Dispute, Lease!Becomes
<1>6. \A n \in Messages : LeaseTaken(n) =>
        Lease!Submit(n) \/ Lease!Begin(n) \/ Lease!Recover(n) \/ Lease!Reply(n)
  <2>1. \A n \in Messages : LeaseTaken(n) => Lease!Take(n)
    BY DEF LeaseTaken, Lease!Take
  <2> QED BY <2>1 DEF LeaseTaken, Lease!Submit, Lease!Begin, Lease!Recover, Lease!Reply
<1> QED BY <1>2, <1>3, <1>4, <1>5, <1>6 DEF Lease!LeaseNext

-----------------------------------------------------------------------------
(* Every step serves every message so.                                     *)

\* The claim inside a poll or an enqueue, for a message the caller left alone.
LEMMA ClaimServes ==
  ASSUME TypeOK, NEW rows, NEW n \in Messages, MessageInv(n), rows[n] = row[n],
         Passed(rows, n) \/ Taken(rows, n), immediate'[n] = immediate[n]
  PROVE  Served(n)
<1>1. CASE Passed(rows, n)
  BY <1>1 DEF Passed, Served, Kept, SameHold
<1>2. CASE Taken(rows, n)
  <2>1. row[n].status = "pending" /\ ~Live(n)
    BY <1>2, NotLive DEF Taken
  <2> QED BY <1>2, <2>1 DEF Taken, Served, Started
<1> QED BY <1>1, <1>2

\* ... and for a message nobody executes, whose row the caller has moved.
LEMMA ClaimServesMoved ==
  ASSUME NEW rows, NEW n \in Messages, ~Live(n), Shift(row[n].status, rows[n].status),
         Passed(rows, n) \/ Taken(rows, n), immediate'[n] = 0
  PROVE  Served(n)
<1>1. CASE Passed(rows, n)
  <2>1. ~Live(n)' /\ row'[n] = rows[n]
    BY <1>1 DEF Passed, Live
  <2> QED BY <2>1 DEF Served, Shifted
<1>2. CASE Taken(rows, n)
  <2>1. row[n].status \in {"absent", "pending", "processing", "suspended", "failed"}
    BY <1>2 DEF Taken, Shift
  <2> QED BY <1>2, <2>1 DEF Taken, Served, Started
<1> QED BY <1>1, <1>2

\* A message whose executor stays, if it has one.
LEMMA KeepServes ==
  ASSUME NEW n \in Messages, SameHold(n),
         Live(n) \/ Shift(row[n].status, row'[n].status)
  PROVE  Served(n)
<1>1. Live(n)' <=> Live(n)
  BY DEF SameHold, Live
<1> QED BY <1>1 DEF Served, Kept, Shifted

LEMMA PollServes ==
  ASSUME TypeOK, NEW n \in Messages, MessageInv(n), Poll
  PROVE  Served(n)
<1>1. row \in [Messages -> Row]
  BY DEF TypeOK, DbTypeOK
<1>2. Passed(row, n) \/ Taken(row, n)
  BY <1>1, ProcessNextEffect, PoolEffect DEF Poll
<1> QED BY <1>1, <1>2, ClaimServes DEF Poll

LEMMA StartLinkServes ==
  ASSUME TypeOK, NEW n \in Messages, MessageInv(n), NEW a \in Agents, StartLink(a)
  PROVE  Served(n)
<1>1. row \in [Messages -> Row] /\ a \in Slots /\ slot \in [Slots -> Messages \cup {Nothing}]
  BY DEF TypeOK, DbTypeOK, Slots
<1>2. CASE row' = row /\ slot' = slot
  BY <1>2 DEF StartLink, Served, Kept, SameHold
<1>3. CASE \E m \in Messages : /\ row[m].status = "pending" /\ slot[a] = Nothing
                               /\ row' = Claimed(row, m)
                               /\ slot' = [slot EXCEPT ![a] = m]
  <2>1. Passed(row, n) \/ Taken(row, n)
    BY <1>1, <1>3, ClaimEffect
  <2> QED BY <1>1, <2>1, ClaimServes DEF StartLink
<1> QED BY <1>2, <1>3, StartLinkEffect

\* The two actions that submit a message.
LEMMA SubmitServes ==
  ASSUME TypeOK, NEW n \in Messages, MessageInv(n), NEW m \in Messages,
         Enqueue(m) \/ EnqueueImmediate(m)
  PROVE  Served(n)
<1>1. DbTypeOK /\ row[m].status = "absent"
  BY DEF TypeOK, Enqueue, EnqueueImmediate
<1>2. n = m => ~Live(n) /\ immediate[n] = 0
  BY <1>1, NotLive
<1>3. CASE Enqueue(m)
  <2> DEFINE rows == Inserted(row, m, "pending")
  <2>1. /\ rows \in [Messages -> Row] /\ rows[m].status = "pending"
        /\ n # m => rows[n] = row[n]
    BY <1>1, InsertedType DEF Statuses
  <2>2. OnEnqueued(rows) /\ immediate' = immediate
    BY <1>3 DEF Enqueue
  <2> HIDE DEF rows
  <2>3. Passed(rows, n) \/ Taken(rows, n)
    BY <2>1, <2>2, OnEnqueuedEffect, PoolEffect
  <2>4. CASE n = m
    BY <1>1, <1>2, <2>1, <2>2, <2>3, <2>4, ClaimServesMoved DEF Shift
  <2>5. CASE n # m
    BY <2>1, <2>2, <2>3, <2>5, ClaimServes
  <2> QED BY <2>4, <2>5
<1>4. CASE EnqueueImmediate(m)
  <2> DEFINE rows == Inserted(row, m, "processing")
  <2>1. /\ rows \in [Messages -> Row]
        /\ n # m => rows[n] = row[n]
    BY <1>1, InsertedType DEF Statuses
  <2>2. OnEnqueued(rows) /\ immediate'[m] = 1 /\ (n # m => immediate'[n] = immediate[n])
    BY <1>4 DEF EnqueueImmediate, TypeOK
  <2> HIDE DEF rows
  <2>3. Passed(rows, n) \/ Taken(rows, n)
    BY <2>1, <2>2, OnEnqueuedEffect, PoolEffect
  <2>4. CASE n = m
    BY <1>1, <1>2, <2>2, <2>4 DEF Served, Started
  <2>5. CASE n # m
    BY <2>1, <2>2, <2>3, <2>5, ClaimServes
  <2> QED BY <2>4, <2>5
<1> QED BY <1>3, <1>4

\* A reply that is queued.
LEMMA ReplyAsyncServes ==
  ASSUME TypeOK, NEW n \in Messages, MessageInv(n), ~RepliedAgain(n),
         NEW m \in Messages, ReplyAsync(m)
  PROVE  Served(n)
<1> DEFINE rows == [row EXCEPT ![m] = Moved(@, "pending")]
<1>1. DbTypeOK /\ asked[m] # "none" /\ row[m].status # "deleted" /\ "pending" \in Statuses
  BY DEF TypeOK, ReplyAsync, MayReply, Resumed, Statuses
<1>2. /\ rows \in [Messages -> Row] /\ rows[m].status = "pending"
      /\ n # m => rows[n] = row[n]
  BY <1>1, MovedTo
<1>3. OnEnqueued(rows) /\ immediate' = immediate
  BY DEF ReplyAsync
<1> HIDE DEF rows
<1>4. Passed(rows, n) \/ Taken(rows, n)
  BY <1>2, <1>3, OnEnqueuedEffect, PoolEffect
<1>5. CASE n # m
  BY <1>2, <1>3, <1>4, <1>5, ClaimServes
<1>6. CASE n = m /\ asked[n] = "answered"
  <2>1. UNCHANGED <<row, slot, immediate>>
    BY <1>6 DEF RepliedAgain, Replies
  <2> QED BY <2>1 DEF Served, Kept, SameHold
<1>7. CASE n = m /\ asked[n] # "answered"
  <2>1. ~Live(n) /\ immediate[n] = 0 /\ row[n].status \in {"suspended", "failed"}
    BY <1>1, <1>7, ReplyFinds
  <2>2. Shift(row[n].status, rows[n].status)
    BY <1>2, <1>7, <2>1 DEF Shift
  <2> QED BY <1>3, <1>4, <2>1, <2>2, ClaimServesMoved
<1> QED BY <1>5, <1>6, <1>7

LEMMA StartServes ==
  ASSUME TypeOK, DownIsDead, NEW n \in Messages, Start
  PROVE  Served(n)
<1> DEFINE rows == ResetOrphans(row, MinAge, 0)
<1>1. row \in [Messages -> Row] /\ MinAge \in Nat /\ 0 \in Nat
  BY ThresholdAssumption DEF TypeOK, DbTypeOK
<1>2. rows \in [Messages -> Row] /\ Shift(row[n].status, rows[n].status)
  BY <1>1, ResetType, OrphanedRow DEF ResetOrphans, Shift
<1>3. ProcessNext(rows)
  BY DEF Start
<1> HIDE DEF rows
<1>4. Passed(rows, n) \/ Taken(rows, n)
  BY <1>1, <1>2, <1>3, ProcessNextEffect, PoolEffect
<1>5. ~Live(n)
  BY DEF DownIsDead, Start
<1>6. immediate'[n] = 0
  BY <1>5 DEF Start, Live, TypeOK
<1> QED BY <1>2, <1>4, <1>5, <1>6, ClaimServesMoved

LEMMA FinishServes ==
  ASSUME TypeOK, NEW n \in Messages, MessageInv(n),
         \/ \E s \in Slots : FinishSlot(s)
         \/ \E m \in Messages : FinishImmediate(m)
  PROVE  Served(n)
<1>1. ASSUME NEW m \in Messages, Settles(m), n # m
      PROVE  row'[n] = row[n]
  BY <1>1 DEF Settles
<1>2. ASSUME Settles(n), Live(n)
      PROVE  row'[n].status \notin {"absent", "failed"}
  BY <1>2 DEF Settles, MessageInv
<1>3. ASSUME NEW s \in Slots, FinishSlot(s)
      PROVE  Served(n)
  <2>1. PICK m \in Messages : slot[s] = m /\ Settles(m) /\ Leave(s)
    BY <1>3, FinishSlotEffect
  <2>2. CASE n = m
    <3>1. Live(n)
      BY <2>1, <2>2 DEF Live
    <3>2. immediate[n] = 0 /\ \A t \in Slots : t # s => slot[t] # n
      BY <2>1, <2>2 DEF MessageInv, TypeOK
    <3>3. immediate'[n] = 0 /\ \A t \in Slots : slot'[t] # n
      BY <2>1, <2>2, <3>2, NothingAssumption DEF Leave, TypeOK
    <3> QED BY <1>2, <2>1, <2>2, <3>1, <3>3 DEF Served, Ended, Live
  <2>3. CASE n # m
    <3>1. SameHold(n)
      BY <2>1, <2>3, NothingAssumption DEF Leave, SameHold, TypeOK
    <3> QED BY <1>1, <2>1, <2>3, <3>1 DEF Served, Kept
  <2> QED BY <2>2, <2>3
<1>4. ASSUME NEW m \in Messages, FinishImmediate(m)
      PROVE  Served(n)
  <2>1. immediate[m] > 0 /\ Settles(m) /\ LeaveImmediate(m)
    BY <1>4, FinishImmediateEffect
  <2>2. CASE n = m
    <3>1. Live(n)
      BY <2>1, <2>2 DEF Live
    <3>2. immediate[n] = 1 /\ \A s \in Slots : slot[s] # n
      BY <2>1, <2>2 DEF MessageInv, TypeOK
    <3>3. immediate'[n] = 0 /\ \A s \in Slots : slot'[s] # n
      BY <2>1, <2>2, <3>2 DEF LeaveImmediate, TypeOK
    <3> QED BY <1>2, <2>1, <2>2, <3>1, <3>3 DEF Served, Ended, Live
  <2>3. CASE n # m
    <3>1. SameHold(n)
      BY <2>1, <2>3 DEF LeaveImmediate, SameHold, TypeOK
    <3> QED BY <1>1, <2>1, <2>3, <3>1 DEF Served, Kept
  <2> QED BY <2>2, <2>3
<1> QED BY <1>3, <1>4

\* A process that goes down leaves orphans, and moves no other message's row
\* but the one it was ending.
LEMMA LossServes ==
  ASSUME TypeOK, NEW n \in Messages, MessageInv(n),
         \/ Crash \/ Exit \/ CrashInCleanup
         \/ \E s \in Slots : CrashInSlot(s)
         \/ \E m \in Messages : CrashInImmediate(m)
  PROVE  Served(n)
<1>1. DbTypeOK
  BY DEF TypeOK
<1>2. ASSUME LoseProcess,
             Live(n) => row'[n].status \notin {"absent", "failed"},
             ~Live(n) => Shift(row[n].status, row'[n].status)
      PROVE  Served(n)
  <2>1. ~Live(n)'
    BY <1>2, NothingAssumption DEF LoseProcess, Live
  <2> QED BY <1>2, <2>1 DEF Served, Ended, Shifted
<1>3. Live(n) => row[n].status \notin {"absent", "failed", "suspended"}
  BY DEF MessageInv
<1>4. CASE Crash \/ Exit
  BY <1>2, <1>3, <1>4 DEF Crash, Exit, dbVars, Shift
<1>5. CASE CrashInCleanup
  <2>1. LoseProcess /\ row' = Expired(row)
    BY <1>5 DEF CrashInCleanup
  <2>2. \/ row'[n] = row[n]
        \/ row[n].status = "suspended" /\ row'[n].status = "failed"
    BY <1>1, <2>1, ExpiredEffect
  <2> QED BY <1>2, <1>3, <2>1, <2>2 DEF Shift
<1>6. ASSUME NEW m \in Messages,
             \/ \E s \in Slots : slot[s] = m /\ CrashInSlot(s)
             \/ CrashInImmediate(m)
      PROVE  Served(n)
  <2>1. Live(m) /\ Settles(m) /\ LoseProcess
    BY <1>6, CrashInExecutionEffect
  <2>2. n # m => row'[n] = row[n]
    BY <2>1 DEF Settles
  <2>3. n = m => row'[n].status \notin {"absent", "failed"}
    BY <1>3, <2>1 DEF Settles
  <2> QED BY <1>2, <1>3, <2>1, <2>2, <2>3 DEF Shift
<1>7. \A s \in Slots : CrashInSlot(s) => slot[s] \in Messages
  BY DEF CrashInSlot, Executing, TypeOK
<1> QED BY <1>4, <1>5, <1>6, <1>7

LEMMA CleanupServes ==
  ASSUME TypeOK, NEW n \in Messages, Cleanup
  PROVE  Served(n)
<1>1. DbTypeOK /\ SweepAge \in Nat /\ MinAge \in Nat
  BY ThresholdAssumption DEF TypeOK
<1>2. SameHold(n)
  BY DEF Cleanup, procVars, SameHold
<1>3. PICK r \in Row :
        /\ r = Expired(row)[n]
        /\ \/ r = row[n]
           \/ row[n].status = "suspended" /\ r.status = "failed"
  BY <1>1, ExpiredEffect
<1>4. row'[n] = Orphaned(r, SweepAge, MinAge)
  BY <1>1, <1>3, CleanupType DEF ResetOrphans
<1>5. Shift(row[n].status, row'[n].status)
  BY <1>1, <1>3, <1>4, OrphanedRow DEF Shift
<1> QED BY <1>2, <1>5, KeepServes

\* Steps that change nobody's executor and no status, or only a route's.
LEMMA QuietServes ==
  ASSUME TypeOK, NEW n \in Messages,
         \/ Tick \/ Drain \/ DrainCompletes \/ DrainTimesOut \/ ClearRows \/ UNCHANGED vars
         \/ \E m \in Messages : ReplySync(m) \/ DropReply(m)
  PROVE  Served(n)
<1>1. DbTypeOK
  BY DEF TypeOK
<1>2. SameHold(n)
  BY DEF Tick, Drain, DrainCompletes, DrainTimesOut, ClearRows, vars, procVars, ReplySync,
         DropReply, SameHold
<1>3. CASE Tick
  <2>1. row'[n].status = row[n].status
    BY <1>1, <1>3, AgedRow DEF Tick, DbTypeOK
  <2> QED BY <1>2, <2>1, KeepServes DEF Shift
<1>4. CASE ClearRows
  <2>1. Shift(row[n].status, row'[n].status)
    BY <1>1, <1>4, ClearRowsEffect DEF ClearRows, Shift
  <2> QED BY <1>2, <2>1, KeepServes
<1>5. CASE row' = row
  BY <1>2, <1>5 DEF Served, Kept
<1> QED BY <1>3, <1>4, <1>5 DEF Drain, DrainCompletes, DrainTimesOut, vars, dbVars, ReplySync,
           DropReply

\* A reply that is applied at once: its caller runs the message, or the text
\* was a command and the row is left an orphan.
LEMMA AppliedServes ==
  ASSUME TypeOK, NEW n \in Messages, MessageInv(n), ~RepliedAgain(n),
         NEW m \in Messages, ApplyReply(m) \/ ReplyInConversation(m)
  PROVE  Served(n)
<1>1. DbTypeOK /\ asked[m] # "none" /\ row[m].status # "deleted" /\ "processing" \in Statuses
  BY DEF TypeOK, ApplyReply, ReplyInConversation, Resumed, Statuses
<1>2. row'[m].status = "processing" /\ (n # m => row'[n] = row[n])
  <2>1. row' = [row EXCEPT ![m] = Moved(@, "processing")]
    BY DEF ApplyReply, ReplyInConversation
  <2> QED BY <1>1, <2>1, MovedTo
<1>3. /\ slot' = slot /\ immediate'[m] \in {immediate[m], immediate[m] + 1}
      /\ n # m => immediate'[n] = immediate[n]
  BY DEF ApplyReply, ReplyInConversation, TypeOK
<1>4. CASE n # m
  BY <1>2, <1>3, <1>4 DEF Served, Kept, SameHold
<1>5. CASE n = m /\ asked[n] = "answered"
  <2>1. UNCHANGED <<row, slot, immediate>>
    BY <1>5 DEF RepliedAgain, Replies
  <2> QED BY <2>1 DEF Served, Kept, SameHold
<1>6. CASE n = m /\ asked[n] # "answered"
  <2>1. /\ ~Live(n) /\ immediate[n] = 0 /\ row[n].status \in {"suspended", "failed"}
        /\ \A s \in Slots : slot[s] # n
    BY <1>1, <1>6, ReplyFinds
  <2>2. CASE immediate'[n] = 1
    BY <2>1, <2>2 DEF Served, Started
  <2>3. CASE immediate'[n] = 0
    <3>1. ~Live(n)'
      BY <1>3, <2>1, <2>3 DEF Live
    <3> QED BY <1>2, <1>6, <2>1, <3>1 DEF Served, Shifted, Shift
  <2> QED BY <1>3, <1>6, <2>1, <2>2, <2>3
<1> QED BY <1>4, <1>5, <1>6

LEMMA ServedByStep ==
  ASSUME TypeOK, DownIsDead, NEW n \in Messages, MessageInv(n), ~RepliedAgain(n), [Next]_vars
  PROVE  Served(n)
<1>1. CASE Poll \/ Start \/ Cleanup \/ \E a \in Agents : StartLink(a)
  BY <1>1, PollServes, StartServes, CleanupServes, StartLinkServes
<1>2. CASE \E m \in Messages : Enqueue(m) \/ EnqueueImmediate(m)
  BY <1>2, SubmitServes
<1>3. CASE \/ \E s \in Slots : FinishSlot(s)
           \/ \E m \in Messages : FinishImmediate(m)
  BY <1>3, FinishServes
<1>4. CASE \/ Crash \/ Exit \/ CrashInCleanup
           \/ \E s \in Slots : CrashInSlot(s)
           \/ \E m \in Messages : CrashInImmediate(m)
  BY <1>4, LossServes
<1>5. CASE \/ Tick \/ Drain \/ DrainCompletes \/ DrainTimesOut \/ ClearRows \/ UNCHANGED vars
           \/ \E m \in Messages : ReplySync(m) \/ DropReply(m)
  BY <1>5, QuietServes
<1>6. CASE \E m \in Messages : ReplyAsync(m) \/ ApplyReply(m) \/ ReplyInConversation(m)
  BY <1>6, ReplyAsyncServes, AppliedServes
<1> QED BY <1>1, <1>2, <1>3, <1>4, <1>5, <1>6 DEF Next, MessageStep

LEMMA LeaseStep ==
  ASSUME OwnershipInv, OwnershipInv', [Next /\ Records]_ownVars
  PROVE  Lease!LeaseNext
<1>1. /\ TypeOK /\ DownIsDead /\ contested \subseteq Messages
      /\ \A n \in Uncontested : MessageInv(n)
  BY InvByMessage
<1>2. LeaseFit /\ TypeOK'
  BY LeasesFit DEF OwnershipInv
<1>3. LeaseFit'
  BY LeasesFit, PTL
<1>4. /\ [Next]_vars
      /\ \A n \in Messages : n \in contested => n \in contested'
      /\ \A n \in Uncontested' : n \in Uncontested /\ ~SweptAlive(n) /\ ~RepliedAgain(n)
  BY <1>1, RecordedStep
<1>5. ASSUME NEW n \in Messages
      PROVE  LeaseStays(n) \/ LeaseFree(n) \/ (Clean(n) /\ Served(n))
  <2>1. CASE n \in contested
    BY <1>4, <2>1, ContestedLeaseStays
  <2>2. CASE n \notin contested /\ n \in contested'
    <3>1. SweptAlive(n) \/ RepliedAgain(n)
      BY <2>2 DEF Records, ownVars
    <3>2. MessageInv(n)
      BY <1>1, <2>2 DEF Uncontested
    <3> QED BY <1>1, <2>2, <3>1, <3>2, ContestIsDispute
  <2>3. CASE n \notin contested /\ n \notin contested'
    <3>1. MessageInv(n) /\ ~RepliedAgain(n)
      BY <1>1, <1>4, <2>3 DEF Uncontested
    <3>2. Served(n)
      BY <1>1, <1>4, <3>1, ServedByStep
    <3> QED BY <2>3, <3>2 DEF Clean
  <2> QED BY <2>1, <2>2, <2>3
<1> QED BY <1>1, <1>2, <1>3, <1>5, ServedIsLeased

\* The processor keeps the promise made to each message: it is submitted once,
\* held by one executor at a time, parked only by its holder and closed for
\* good, whichever path runs it and however often the process goes down; the
\* promise ends when it is swept from under its execution or replied to again.
THEOREM ProcessorImplementsLease == OwnershipSpec => ImplementsLease
<1>1. OwnershipInit => Lease!LeaseInit
  <2> SUFFICES ASSUME Init, contested = {} PROVE Lease!LeaseInit
    BY DEF OwnershipInit
  <2>1. \A m \in Messages : ~Live(m) /\ row[m].status = "absent"
    BY NothingAssumption DEF Init, DbInit, NewRow, Live
  <2>2. \A m \in Messages : LeaseState(m) = "new" /\ LeaseHolder(m) = Nothing
    BY <2>1 DEF LeaseState, LeaseHolder, Live
  <2> QED BY <2>2 DEF Lease!LeaseInit
<1>2. OwnershipInv /\ OwnershipInv' /\ [Next /\ Records]_ownVars
      => [Lease!LeaseNext]_(Lease!leaseVars)
  BY LeaseStep
<1>3. QED
  BY <1>1, <1>2, OwnershipInvariant, PTL DEF OwnershipSpec, ImplementsLease, Lease!LeaseSpec

\* A message that is done is never worked on again, and one that was given up,
\* cleared or deleted is only if it was replied to again: no claim, sweep,
\* restart or late reply takes it out of that state.
THEOREM ClosedForGood == OwnershipSpec => Lease!ClosedIsFinal
<1>1. Lease!LeaseNext => Lease!StaysClosed
  <2> SUFFICES ASSUME Lease!LeaseNext, NEW n \in Messages
               PROVE  /\ LeaseState(n) = "done" => LeaseState(n)' = "done"
                      /\ LeaseState(n) = "dead" => LeaseState(n)' \in {"dead", "disputed"}
    BY DEF Lease!StaysClosed
  <2>1. \/ LeaseState(n) \notin {"done", "dead"}
        \/ Lease!Stay(n)
        \/ LeaseState(n) = "dead" /\ Lease!Dispute(n)
    BY DEF Lease!LeaseNext, Lease!Submit, Lease!Begin, Lease!End, Lease!Recover, Lease!Reply,
           Lease!Lapse, Lease!Drop, Lease!Dispute
  <2>2. Lease!Stay(n) => LeaseState(n)' = LeaseState(n)
    BY DEF Lease!Stay
  <2>3. Lease!Dispute(n) => LeaseState(n)' = "disputed"
    BY DEF Lease!Dispute, Lease!Becomes
  <2> QED BY <2>1, <2>2, <2>3
<1>2. OwnershipInv /\ OwnershipInv' /\ [Next /\ Records]_ownVars
      => [Lease!StaysClosed]_(Lease!leaseVars)
  BY <1>1, LeaseStep
<1>3. QED
  BY <1>2, OwnershipInvariant, PTL DEF OwnershipSpec, Lease!ClosedIsFinal
=============================================================================
