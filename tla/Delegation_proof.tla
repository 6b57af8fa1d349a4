-------------------------- MODULE Delegation_proof --------------------------
(***************************************************************************)
(* Proofs about Delegation, for every set of messages, agents and mentions *)
(* and every limit: types, that whoever asked waits, up to the execution,  *)
(* that a run which was replaced by a completed one is not reported as     *)
(* failed, and that no execution has more runs than its budget.            *)
(***************************************************************************)
EXTENDS Delegation, FiniteSetTheorems, WellFoundedInduction, TLAPS

-----------------------------------------------------------------------------
(* What the statements of the store do to its rows.                        *)

Rows == [Ids -> RunRow]

LEMMA RunsAreTyped ==
  /\ RunInit => RunTypeOK
  /\ NoRun \in RunRow
<1> DEFINE m0 == CHOOSE m \in Messages : TRUE
<1>1. m0 \in Messages
  BY RunsAssumption
<1>2. NoRun = [message |-> m0, parent |-> None, status |-> "absent", quiet |-> FALSE]
  BY DEF NoRun
<1> HIDE DEF m0
<1>3. NoRun \in RunRow
  BY <1>1, <1>2 DEF RunRow, RunStatuses
<1> QED BY <1>3 DEF RunInit, RunTypeOK

LEMMA CreatedTyped ==
  ASSUME NEW rows \in Rows, NEW i, NEW m \in Messages, NEW p \in Ids \cup {None}
  PROVE  Created(rows, i, m, p) \in Rows
BY DEF Rows, Created, RunRow, RunStatuses

LEMMA UpdatesTyped ==
  ASSUME NEW rows \in Rows, NEW i
  PROVE  /\ Progressed(rows, i) \in Rows
         /\ Written(rows, i, "failed") \in Rows
         /\ Written(rows, i, "completed") \in Rows
<1>1. Progressed(rows, i) \in Rows
  BY DEF Rows, Progressed, RunRow, RunStatuses
<1>2. ASSUME NEW status \in RunStatuses
      PROVE  Written(rows, i, status) \in Rows
  BY DEF Rows, Written, RunRow
<1> QED BY <1>1, <1>2 DEF RunStatuses

LEMMA SweepsTyped ==
  ASSUME NEW rows \in Rows, NEW i, NEW S
  PROVE  /\ Superseded(rows, i) \in Rows
         /\ ResetOrphans(rows) \in Rows
         /\ Aged(rows, S) \in Rows
<1>1. Superseded(rows, i) \in Rows
  BY DEF Rows, Superseded, RunRow, RunStatuses
<1>2. ResetOrphans(rows) \in Rows
  BY DEF Rows, ResetOrphans, RunRow, RunStatuses
<1>3. Aged(rows, S) \in Rows
  BY DEF Rows, Aged, RunRow
<1> QED BY <1>1, <1>2, <1>3

LEMMA CompletedTyped ==
  ASSUME NEW rows \in Rows, NEW i
  PROVE  Completed(rows, i) \in Rows
BY UpdatesTyped, SweepsTyped DEF Completed

\* No row is orphaned beside one that replaces it, but for those of B.
Reported(rows, B) ==
  \A i, j \in Ids :
    Replaces(rows, j, i) /\ rows[i].message \notin B => rows[i].status # "orphaned"

LEMMA CreatedReports ==
  ASSUME NEW rows \in Rows, NEW B, Reported(rows, B),
         NEW i, NEW m, NEW p
  PROVE  Reported(Created(rows, i, m, p), B)
BY DEF Rows, Reported, Created, Replaces, TopLevel

LEMMA ProgressedReports ==
  ASSUME NEW rows \in Rows, NEW B, Reported(rows, B), NEW i
  PROVE  Reported(Progressed(rows, i), B)
BY DEF Rows, Reported, Progressed, Replaces, TopLevel, RunRow

LEMMA FailedReports ==
  ASSUME NEW rows \in Rows, NEW B, Reported(rows, B), NEW i
  PROVE  Reported(Written(rows, i, "failed"), B)
BY DEF Rows, Reported, Written, Replaces, TopLevel, RunRow

LEMMA CompletedReports ==
  ASSUME NEW rows \in Rows, NEW B, Reported(rows, B), NEW k \in Ids
  PROVE  Reported(Completed(rows, k), B)
<1> DEFINE w == Written(rows, k, "completed")
           c == Completed(rows, k)
<1>1. w \in Rows /\ c \in Rows
  BY UpdatesTyped, CompletedTyped
<1>2. \A i \in Ids : /\ w[i].message = rows[i].message /\ w[i].parent = rows[i].parent
                     /\ w[i].status = "absent" <=> rows[i].status = "absent"
                     /\ i # k => w[i] = rows[i]
  BY DEF Rows, Written, RunRow
<1>3. w[k].status \in {"absent", "completed"}
  BY DEF Rows, Written, RunRow
<1>4. \A i \in Ids : c[i] = IF Replaces(w, k, i) /\ w[i].status \in {"running", "orphaned"}
                              THEN [w[i] EXCEPT !.status = "superseded", !.quiet = FALSE]
                              ELSE w[i]
  BY DEF Completed, Superseded
<1> HIDE DEF w, c
<1>5. \A i \in Ids : /\ c[i].message = w[i].message /\ c[i].parent = w[i].parent
                     /\ c[i].status = w[i].status
                        \/ /\ Replaces(w, k, i)
                           /\ w[i].status # "absent"
                           /\ c[i].status = "superseded"
                     /\ Replaces(w, k, i) /\ w[i].status = "orphaned"
                          => c[i].status # "orphaned"
  BY <1>1, <1>4 DEF Rows, RunRow
<1> SUFFICES ASSUME NEW i \in Ids, NEW j \in Ids, Replaces(c, j, i), c[i].message \notin B,
                    c[i].status = "orphaned"
             PROVE  FALSE
  BY DEF Reported, c
<1>6. c[i] = w[i] /\ w[i].status = "orphaned" /\ i # k
  BY <1>1, <1>3, <1>4, <1>5 DEF Rows, RunRow
<1>7. w[j].status = "completed" /\ Replaces(w, j, i)
  BY <1>5, <1>6 DEF Replaces, TopLevel
<1>8. CASE j = k
  BY <1>5, <1>6, <1>7, <1>8
<1>9. CASE j # k
  <2>1. Replaces(rows, j, i) /\ rows[i].message \notin B
    BY <1>2, <1>5, <1>6, <1>7, <1>9 DEF Replaces, TopLevel
  <2> QED BY <1>2, <1>6, <2>1 DEF Reported
<1> QED BY <1>8, <1>9

LEMMA ResetReports ==
  ASSUME NEW rows \in Rows, NEW B, Reported(rows, B)
  PROVE  Reported(ResetOrphans(rows), B)
BY DEF Rows, Reported, ResetOrphans, Replaces, TopLevel, RunRow

LEMMA AgedReports ==
  ASSUME NEW rows \in Rows, NEW B, Reported(rows, B), NEW S
  PROVE  Reported(Aged(rows, S), B)
BY DEF Rows, Reported, Aged, Replaces, TopLevel, RunRow

\* The message of a row whose completion was cut in two joins the excepted ones.
LEMMA TornReports ==
  ASSUME NEW rows \in Rows, NEW B, Reported(rows, B), NEW i \in Ids
  PROVE  Reported(Written(rows, i, "completed"), B \cup {rows[i].message})
BY DEF Rows, Reported, Written, Replaces, TopLevel, RunRow
-----------------------------------------------------------------------------
(* Where tasks are.                                                        *)

\* A task that is busy belongs to an execution, and unless it is the execution
\* itself somebody asked an agent for it.  Only an execution answers.
Formed(i) ==
  task[i].at # "none" =>
    /\ i <= given
    /\ Root(i) \in Ids /\ Root(i) <= given
    /\ ~IsRoot(i) => task[i].agent \in Agents /\ task[i].parent \in Ids
    /\ task[i].at \in {"asked", "held"} => ~IsRoot(i)
    /\ task[i].at = "answers" => IsRoot(i)

AllFormed == \A i \in Ids : Formed(i)

TaskOK == task \in [Ids -> Task]

LEMMA NoTaskTyped == NoTask \in Task
BY DelegationAssumption DEF NoTask, Task, Stages

LEMMA GoneTyped ==
  ASSUME TypeOK, NEW i \in Ids
  PROVE  /\ Zombie(i) \in Task
         /\ Gone(i) \in [Ids -> Task]
         /\ Gone(i)[i] \in Task /\ Gone(i)[i].at = "none"
         /\ Zombie(i).at = "none"
         /\ \A j \in Ids \ {i} : Gone(i)[j] = task[j]
<1>1. task[i].root \in Ids \cup {None}
  BY DEF TypeOK, Task
<1>2. Zombie(i) \in Task /\ Zombie(i).at = "none"
  BY <1>1, NoTaskTyped DEF Zombie, Root, NoTask, Task
<1>3. NoTask \in Task /\ NoTask.at = "none"
  BY NoTaskTyped DEF NoTask
<1> QED BY <1>2, <1>3 DEF Gone, TypeOK

LEMMA AtTyped ==
  ASSUME TypeOK, NEW i \in Ids, NEW stage \in Stages
  PROVE  /\ At(i, stage) \in [Ids -> Task]
         /\ \A j \in Ids \ {i} : At(i, stage)[j] = task[j]
         /\ \A j \in Ids : /\ At(i, stage)[j].at = IF j = i THEN stage ELSE task[j].at
                          /\ At(i, stage)[j].root = task[j].root
                          /\ At(i, stage)[j].parent = task[j].parent
                          /\ At(i, stage)[j].agent = task[j].agent
BY DEF At, TypeOK, Task

LEMMA KeyTyped ==
  ASSUME TypeOK, AllFormed, NEW i \in Ids, task[i].at # "none"
  PROVE  /\ MessageOf(i) \in Messages
         /\ ~IsRoot(i) => Key(i) \in Messages \X Agents
<1>1. Root(i) \in Ids /\ (~IsRoot(i) => task[i].agent \in Agents)
  BY DEF AllFormed, Formed
<1> QED BY <1>1 DEF MessageOf, Key, TypeOK, RunTypeOK, RunRow

\* What the budget lets through is a number, and fits in it.
LEMMA RoomTyped ==
  ASSUME TypeOK, AllFormed, NEW i \in Ids, task[i].at = "parses"
  PROVE  /\ Room(i) \in Nat
         /\ Room(i) + task[Root(i)].count <= MaxMessages
         /\ Room(i) > 0 => task[i].depth < MaxDepth
<1>1. Root(i) \in Ids
  BY DEF AllFormed, Formed
<1>2. task[Root(i)].count \in 0 .. MaxMessages /\ task[i].depth \in 0 .. MaxDepth
  BY <1>1 DEF TypeOK, Task
<1> QED BY <1>2, DelegationAssumption DEF Room

\* What a turn of a response that mentions agents does.
Asks(i, n, s) ==
  /\ n \in Nat \ {0} /\ n <= Room(i) /\ n <= Len(s) /\ s \in Seq(Agents)
  /\ task' = [j \in Ids |-> IF j \in given + 1 .. given + n THEN NewTask(i, s[j - given])
                            ELSE Counted(i, n)[j]]
  /\ given' = given + n
  /\ UNCHANGED active

LEMMA DelegatesAsks ==
  ASSUME TypeOK, AllFormed, NEW i \in Ids, Delegates(i)
  PROVE  \/ Concludes(i) /\ UNCHANGED given
         \/ \E n, s : Asks(i, n, s)
<1>1. Room(i) \in Nat
  BY RoomTyped DEF Delegates
<1>2. PICK s \in Mentions :
        LET n == IF Len(s) < Room(i) THEN Len(s) ELSE Room(i)
            New == given + 1 .. given + n
        IN  \/ n = 0 /\ Concludes(i) /\ UNCHANGED given
            \/ /\ n > 0
               /\ task' = [j \in Ids |-> IF j \in New THEN NewTask(i, s[j - given])
                                         ELSE Counted(i, n)[j]]
               /\ given' = given + n
               /\ UNCHANGED active
  BY DEF Delegates
<1>3. s \in Seq(Agents) /\ Len(s) \in Nat
  BY DelegationAssumption
<1> DEFINE n == IF Len(s) < Room(i) THEN Len(s) ELSE Room(i)
<1>4. n \in Nat /\ n <= Room(i) /\ n <= Len(s)
  BY <1>1, <1>3
<1>5. CASE n = 0 /\ Concludes(i) /\ UNCHANGED given
  BY <1>5
<1>6. CASE n > 0 /\ ~(n = 0)
  <2>1. Asks(i, n, s)
    BY <1>2, <1>3, <1>4, <1>6 DEF Asks
  <2> QED BY <2>1
<1> QED BY <1>2, <1>4, <1>5, <1>6

LEMMA AsksTyped ==
  ASSUME TypeOK, AllFormed, NEW i \in Ids, task[i].at = "parses", NEW n, NEW s, Asks(i, n, s)
  PROVE  /\ task' \in [Ids -> Task]
         /\ \A j \in Ids : j \in given + 1 .. given + n =>
              /\ task'[j].at = "asked" /\ task'[j].root = Root(i) /\ task'[j].parent = i
              /\ task'[j].agent \in Agents
         /\ \A j \in Ids : j \notin given + 1 .. given + n /\ j # i =>
              /\ task'[j].at = task[j].at /\ task'[j].root = task[j].root
              /\ task'[j].parent = task[j].parent /\ task'[j].agent = task[j].agent
         /\ i \notin given + 1 .. given + n =>
              /\ task'[i].at = "waits" /\ task'[i].root = task[i].root
              /\ task'[i].parent = task[i].parent /\ task'[i].agent = task[i].agent
<1>1. /\ Root(i) \in Ids /\ task[Root(i)].count + n \in 0 .. MaxMessages
      /\ task[i].depth + 1 \in 0 .. MaxDepth
  <2>1. Root(i) \in Ids
    BY DEF AllFormed, Formed
  <2>2. task[Root(i)].count \in 0 .. MaxMessages /\ task[i].depth \in 0 .. MaxDepth
    BY <2>1 DEF TypeOK, Task
  <2>3. n \in Nat /\ n > 0 /\ n <= Room(i)
    BY DEF Asks
  <2>4. Room(i) + task[Root(i)].count <= MaxMessages /\ task[i].depth < MaxDepth
    <3>1. Room(i) \in Nat /\ Room(i) > 0
      BY <2>3, RoomTyped
    <3> QED BY <3>1, RoomTyped
  <2>5. Room(i) \in Nat
    BY RoomTyped
  <2>6. task[Root(i)].count + n \in 0 .. MaxMessages
    BY <2>2, <2>3, <2>4, <2>5, DelegationAssumption
  <2>7. task[i].depth + 1 \in 0 .. MaxDepth
    BY <2>2, <2>4, DelegationAssumption
  <2> QED BY <2>1, <2>6, <2>7
<1>2. ASSUME NEW j \in Ids, j \in given + 1 .. given + n
      PROVE  NewTask(i, s[j - given]) \in Task /\ s[j - given] \in Agents
  <2>1. s[j - given] \in Agents
    BY <1>2 DEF Asks, TypeOK, Ids
  <2> QED BY <1>1, <2>1, DelegationAssumption DEF NewTask, Task, Stages
<1>3. /\ Counted(i, n) \in [Ids -> Task]
      /\ \A j \in Ids : /\ Counted(i, n)[j].at = IF j = i THEN "waits" ELSE task[j].at
                        /\ Counted(i, n)[j].root = task[j].root
                        /\ Counted(i, n)[j].parent = task[j].parent
                        /\ Counted(i, n)[j].agent = task[j].agent
  <2> DEFINE f == At(i, "waits")
  <2>1. /\ f \in [Ids -> Task]
        /\ \A j \in Ids : /\ f[j].at = IF j = i THEN "waits" ELSE task[j].at
                          /\ f[j].root = task[j].root /\ f[j].parent = task[j].parent
                          /\ f[j].agent = task[j].agent
    <3>1. "waits" \in Stages
      BY DEF Stages
    <3> HIDE DEF f
    <3>2. ASSUME NEW j \in Ids
          PROVE  /\ f[j].at = IF j = i THEN "waits" ELSE task[j].at
                 /\ f[j].root = task[j].root /\ f[j].parent = task[j].parent
                 /\ f[j].agent = task[j].agent
      BY <3>1, AtTyped DEF f
    <3>3. f \in [Ids -> Task]
      BY <3>1, AtTyped DEF f
    <3> QED BY <3>2, <3>3
  <2>2. Counted(i, n) = [f EXCEPT ![Root(i)].count = task[Root(i)].count + n]
    BY DEF Counted, At
  <2> HIDE DEF f
  <2> QED BY <1>1, <2>1, <2>2 DEF Task
<1>4. task' = [j \in Ids |-> IF j \in given + 1 .. given + n THEN NewTask(i, s[j - given])
                             ELSE Counted(i, n)[j]]
  BY DEF Asks
<1>5. task' \in [Ids -> Task]
  BY <1>2, <1>3, <1>4
<1>6. ASSUME NEW j \in Ids, j \in given + 1 .. given + n
      PROVE  /\ task'[j].at = "asked" /\ task'[j].root = Root(i) /\ task'[j].parent = i
             /\ task'[j].agent \in Agents
  BY <1>2, <1>4, <1>6 DEF NewTask
<1> QED BY <1>3, <1>4, <1>5, <1>6

\* The turn of a task is over, and it answers or is gone.
LEMMA ConcludesTyped ==
  ASSUME TypeOK, AllFormed, NEW i \in Ids, Concludes(i)
  PROVE  /\ task' \in [Ids -> Task]
         /\ \A j \in Ids \ {i} : task'[j] = task[j]
         /\ task'[i].at = "none"
            \/ /\ IsRoot(i)
               /\ task'[i].at = "answers" /\ task'[i].root = task[i].root
               /\ task'[i].parent = task[i].parent /\ task'[i].agent = task[i].agent
         /\ active' \subseteq active
<1>1. CASE IsRoot(i)
  <2>1. task' = At(i, "answers") /\ active' = active
    BY <1>1 DEF Concludes
  <2>2. "answers" \in Stages
    BY DEF Stages
  <2> QED BY <1>1, <2>1, <2>2, AtTyped
<1>2. CASE ~IsRoot(i)
  <2>1. task' = Gone(i) /\ active' \subseteq active
    BY <1>2 DEF Concludes
  <2> QED BY <2>1, GoneTyped
<1> QED BY <1>1, <1>2
-----------------------------------------------------------------------------
(* What every step keeps.                                                  *)

LEMMA RunsStayTyped ==
  ASSUME TypeOK, AllFormed, Next
  PROVE  RunTypeOK'
<1> USE DEF RunTypeOK, Rows
<1>0. run \in Rows
  BY DEF TypeOK
<1>1. ASSUME NEW m \in Messages, Begin(m)
      PROVE  RunTypeOK'
  BY <1>0, <1>1, CreatedTyped DEF Begin
<1>2. ASSUME NEW i \in Ids, Progress(i)
      PROVE  RunTypeOK'
  BY <1>0, <1>2, UpdatesTyped DEF Progress
<1>3. ASSUME NEW i \in Ids, Returns(i) \/ Delivers(i)
      PROVE  RunTypeOK'
  BY <1>0, <1>3, CompletedTyped DEF Returns, Delivers
<1>4. ASSUME NEW i \in Ids, Starts(i)
      PROVE  RunTypeOK'
  <2>1. MessageOf(i) \in Messages
    BY <1>4, KeyTyped DEF Starts
  <2>2. task[i].parent \in Ids \cup {None}
    BY DEF TypeOK, Task
  <2> QED BY <1>0, <1>4, <2>1, <2>2, CreatedTyped DEF Starts
<1>5. ASSUME NEW i \in Ids, Fails(i) \/ FailsSearching(i) \/ CrashInCompletion(i)
      PROVE  RunTypeOK'
  BY <1>0, <1>5, UpdatesTyped DEF Fails, FailsSearching, RecordsFailure, CrashInCompletion
<1>6. ASSUME NEW i \in Ids, Settles(i) \/ AsksUser(i)
      PROVE  RunTypeOK'
  BY <1>0, <1>6, UpdatesTyped DEF Settles, AsksUser
<1>7. ASSUME NEW i \in Ids, RemoteReturns(i) \/ Delegates(i) \/ Spawns(i) \/ LateEnds(i)
      PROVE  RunTypeOK'
  BY <1>0, <1>7 DEF RemoteReturns, Delegates, Spawns, LateEnds
<1>8. ASSUME NEW i \in Ids, Ages(i)
      PROVE  RunTypeOK'
  BY <1>0, <1>8, SweepsTyped DEF Ages
<1>9. ASSUME NEW old, Cleanup(old)
      PROVE  RunTypeOK'
  BY <1>0, <1>9, SweepsTyped DEF Cleanup
<1>10. CASE Crash
  <2>1. PICK S : run' = ResetOrphans(Aged(run, S))
    BY <1>10 DEF Crash
  <2>2. Aged(run, S) \in Rows
    BY <1>0, SweepsTyped
  <2> QED BY <2>1, <2>2, SweepsTyped
<1>11. ASSUME NEW m \in Messages, ClearConversation(m)
       PROVE  RunTypeOK'
  BY <1>0, <1>11 DEF ClearConversation
<1> QED BY <1>1, <1>2, <1>3, <1>4, <1>5, <1>6, <1>7, <1>8, <1>9, <1>10, <1>11
        DEF Next, Advances

LEMMA ReportsStay ==
  ASSUME TypeOK, AllFormed, Reported(run, torn), Next
  PROVE  Reported(run, torn)'
<1>0. run \in Rows
  BY DEF TypeOK, RunTypeOK, Rows
<1>1. ASSUME NEW m \in Messages, Begin(m)
      PROVE  Reported(run', torn')
  BY <1>0, <1>1, CreatedReports DEF Begin
<1>2. ASSUME NEW i \in Ids, Progress(i)
      PROVE  Reported(run', torn')
  BY <1>0, <1>2, UpdatesTyped, ProgressedReports DEF Progress
<1>3. ASSUME NEW i \in Ids, Returns(i) \/ Delivers(i)
      PROVE  Reported(run', torn')
  BY <1>0, <1>3, CompletedReports DEF Returns, Delivers
<1>4. ASSUME NEW i \in Ids, Starts(i)
      PROVE  Reported(run', torn')
  BY <1>0, <1>4, CreatedReports DEF Starts
<1>5. ASSUME NEW i \in Ids, Fails(i) \/ FailsSearching(i)
      PROVE  Reported(run', torn')
  BY <1>0, <1>5, FailedReports DEF Fails, FailsSearching, RecordsFailure
<1>6. ASSUME NEW i \in Ids, Settles(i) \/ AsksUser(i)
      PROVE  Reported(run', torn')
  BY <1>0, <1>6, ProgressedReports DEF Settles, AsksUser
<1>7. ASSUME NEW i \in Ids, RemoteReturns(i) \/ Delegates(i) \/ Spawns(i) \/ LateEnds(i)
      PROVE  Reported(run', torn')
  BY <1>7 DEF RemoteReturns, Delegates, Spawns, LateEnds
<1>8. ASSUME NEW i \in Ids, Ages(i)
      PROVE  Reported(run', torn')
  BY <1>0, <1>8, AgedReports DEF Ages
<1>9. ASSUME NEW old, Cleanup(old)
      PROVE  Reported(run', torn')
  BY <1>0, <1>9, ResetReports DEF Cleanup
<1>10. CASE Crash
  <2>1. PICK S : run' = ResetOrphans(Aged(run, S)) /\ torn' = torn
    BY <1>10 DEF Crash
  <2>2. Aged(run, S) \in Rows /\ Reported(Aged(run, S), torn)
    BY <1>0, SweepsTyped, AgedReports
  <2> QED BY <2>1, <2>2, ResetReports
<1>11. ASSUME NEW m \in Messages, ClearConversation(m)
       PROVE  Reported(run', torn')
  BY <1>11 DEF ClearConversation
<1>12. ASSUME NEW i \in Ids, CrashInCompletion(i)
       PROVE  Reported(run', torn')
  <2>1. IsRoot(i)
    BY <1>12 DEF AllFormed, Formed, CrashInCompletion
  <2>2. torn' = torn \cup {run[i].message} /\ run' = Written(run, i, "completed")
    BY <1>12, <2>1 DEF CrashInCompletion, MessageOf, IsRoot
  <2> QED BY <1>0, <2>2, TornReports
<1>13. Reported(run', torn')
  BY <1>1, <1>2, <1>3, <1>4, <1>5, <1>6, <1>7, <1>8, <1>9, <1>10, <1>11, <1>12
     DEF Next, Advances
<1> QED BY <1>13 DEF Reported, Replaces, TopLevel
TasksInv == TaskOK /\ AllFormed /\ CallersWait

\* One task is given up, ends, or goes on; the others stay as they are.
LEMMA OneMoves ==
  ASSUME TypeOK, AllFormed, CallersWait, NEW i \in Ids,
         task' \in [Ids -> Task], given' = given,
         \A j \in Ids \ {i} : task'[j] = task[j],
         \/ task'[i].at = "none"
         \/ /\ task[i].at # "none"
            /\ task'[i].root = task[i].root /\ task'[i].parent = task[i].parent
            /\ task'[i].agent = task[i].agent
            /\ task'[i].at \notin {"asked", "held"}
            /\ task'[i].at = "answers" => IsRoot(i),
         task[i].at = "waits" => Children(i) = {}
  PROVE  TasksInv'
<1>1. ASSUME NEW j \in Ids
      PROVE  Formed(j)'
  <2>1. CASE j = i
    BY <2>1 DEF AllFormed, Formed, IsRoot, Root
  <2>2. CASE j # i
    BY <2>2 DEF AllFormed, Formed, IsRoot, Root
  <2> QED BY <2>1, <2>2
<1>2. ASSUME NEW j \in Ids, task'[j].at # "none", task'[j].root # j
      PROVE  task'[task'[j].parent].at = "waits"
  <2>1. /\ task[j].at # "none" /\ task'[j].root = task[j].root
        /\ task'[j].parent = task[j].parent
    BY <1>2
  <2>2. task[task[j].parent].at = "waits" /\ task[j].parent \in Ids
    BY <1>2, <2>1 DEF CallersWait, AllFormed, Formed, IsRoot, Root
  <2>3. task[j].parent # i
    BY <2>1, <2>2 DEF Children
  <2> QED BY <2>1, <2>2, <2>3
<1> QED BY <1>1, <1>2 DEF TasksInv, TaskOK, AllFormed, CallersWait, IsRoot, Root

\* Callbacks end: tasks are where they were.
LEMMA NoneMoves ==
  ASSUME TypeOK, AllFormed, CallersWait,
         task' \in [Ids -> Task], given' = given,
         \A j \in Ids : /\ task'[j].at = task[j].at
                        /\ task[j].at # "none" =>
                             /\ task'[j].root = task[j].root
                             /\ task'[j].parent = task[j].parent
                             /\ task'[j].agent = task[j].agent
  PROVE  TasksInv'
<1>1. ASSUME NEW j \in Ids
      PROVE  Formed(j)'
  BY DEF AllFormed, Formed, IsRoot, Root
<1>2. ASSUME NEW j \in Ids, task'[j].at # "none", task'[j].root # j
      PROVE  task'[task'[j].parent].at = "waits"
  <2>1. /\ task[j].at # "none" /\ task'[j].root = task[j].root
        /\ task'[j].parent = task[j].parent
    BY <1>2
  <2>2. task[task[j].parent].at = "waits" /\ task[j].parent \in Ids
    BY <1>2, <2>1 DEF CallersWait, AllFormed, Formed, IsRoot, Root
  <2> QED BY <2>1, <2>2
<1> QED BY <1>1, <1>2 DEF TasksInv, TaskOK, AllFormed, CallersWait, IsRoot, Root

\* A search that throws ends its task and those it would have asked.
LEMMA SearchEnds ==
  ASSUME TypeOK, NEW i \in Ids, FailsSearching(i)
  PROVE  /\ task' \in [Ids -> Task] /\ task'[i].at = "none"
         /\ \A j \in Asked(i) : task'[j].at = "none"
         /\ \A j \in Ids : j # i /\ j \notin Asked(i) => task'[j] = task[j]
<1>1. Asked(i) \subseteq Ids /\ i \notin Asked(i)
  BY DEF FailsSearching, Asked
<1>2. /\ Gone(i) \in [Ids -> Task] /\ Gone(i)[i].at = "none"
      /\ \A j \in Ids : j # i => Gone(i)[j] = task[j]
  BY GoneTyped
<1>3. task' = [j \in Ids |-> IF j \in Asked(i) THEN NoTask ELSE Gone(i)[j]]
  BY DEF FailsSearching
<1>4. NoTask \in Task /\ NoTask.at = "none"
  BY NoTaskTyped DEF NoTask
<1> HIDE DEF NoTask
<1> QED BY <1>1, <1>2, <1>3, <1>4

LEMMA TasksStay ==
  ASSUME TypeOK, AllFormed, CallersWait, Next
  PROVE  TasksInv'
<1>0. /\ task \in [Ids -> Task] /\ given \in Nat
      /\ \A i \in Ids : /\ task[i].root \in Ids \cup {None} /\ task[i].depth \in 0 .. MaxDepth
                        /\ task[i].parent \in Ids \cup {None}
                        /\ task[i].turns \in 0 .. MaxTurns
  BY DEF TypeOK, Task
<1>1. ASSUME NEW m \in Messages, Begin(m)
      PROVE  TasksInv'
  <2> DEFINE i == given + 1
  <2>1. PICK turns \in {1, MaxTurns} :
          task' = [task EXCEPT ![i] = NewExecution(i, turns)]
    BY <1>1 DEF Begin
  <2>2. given' = given + 1
    BY <1>1 DEF Begin
  <2> DEFINE t == NewExecution(i, turns)
  <2>3. t.at = "works" /\ t.root = i /\ (i \in Ids => t \in Task)
    <3>1. turns \in 0 .. MaxTurns
      BY DelegationAssumption
    <3> QED BY <3>1, DelegationAssumption DEF NewExecution, Task, Stages
  <2> HIDE DEF t
  <2>4. task' \in [Ids -> Task] /\ \A j \in Ids : task'[j] = IF j = i THEN t ELSE task[j]
    BY <1>0, <2>1, <2>3 DEF t
  <2>5. ASSUME NEW j \in Ids
        PROVE  Formed(j)'
    <3>1. CASE j = i
      <4>1. task'[j].at = "works" /\ task'[j].root = j /\ j <= given'
        BY <1>0, <2>2, <2>3, <2>4, <3>1
      <4> QED BY <4>1 DEF Formed, IsRoot, Root
    <3>2. CASE j # i
      <4>1. task'[j] = task[j]
        BY <2>4, <3>2
      <4>2. Formed(j)
        BY DEF AllFormed
      <4>3. given' > given /\ j \in Int /\ (task[j].root \in Ids => task[j].root \in Int)
        BY <1>0, <2>2 DEF Ids
      <4> QED BY <1>0, <2>2, <4>1, <4>2, <4>3 DEF Formed, IsRoot, Root
    <3> QED BY <3>1, <3>2
  <2>6. ASSUME NEW j \in Ids, task'[j].at # "none", task'[j].root # j
        PROVE  task'[task'[j].parent].at = "waits"
    <3>1. j # i /\ task'[j] = task[j] /\ task[j].at # "none" /\ task[j].root # j
      BY <2>3, <2>4, <2>6
    <3>2. task[task[j].parent].at = "waits" /\ task[j].parent \in Ids
      BY <2>6, <3>1 DEF CallersWait, AllFormed, Formed, IsRoot, Root
    <3>3. task[j].parent <= given
      BY <3>2 DEF AllFormed, Formed
    <3>4. task[j].parent # i
      BY <1>0, <3>3
    <3> QED BY <2>4, <3>1, <3>2, <3>4
  <2> QED BY <2>4, <2>5, <2>6 DEF TasksInv, TaskOK, AllFormed, CallersWait, IsRoot, Root
<1>2. ASSUME NEW i \in Ids, LateEnds(i)
      PROVE  TasksInv'
  <2>1. given' = given
        /\ task' = [task EXCEPT ![i] = IF task[i].at = "none" THEN NoTask
                                       ELSE [@ EXCEPT !.late = FALSE]]
    BY <1>2 DEF LateEnds
  <2>2. CASE task[i].at = "none"
    <3>1. task' = [task EXCEPT ![i] = NoTask] /\ NoTask.at = "none"
      BY <2>1, <2>2 DEF NoTask
    <3> QED BY <1>0, <2>1, <2>2, <3>1, NoTaskTyped, NoneMoves
  <2>3. CASE task[i].at # "none"
    <3>1. task' = [task EXCEPT ![i].late = FALSE]
      BY <2>1, <2>3
    <3>2. /\ task' \in [Ids -> Task]
          /\ \A j \in Ids : /\ task'[j].at = task[j].at /\ task'[j].root = task[j].root
                            /\ task'[j].parent = task[j].parent
                            /\ task'[j].agent = task[j].agent
      BY <1>0, <3>1 DEF Task
    <3> QED BY <2>1, <3>2, NoneMoves
  <2> QED BY <2>2, <2>3
<1>3. ASSUME NEW i \in Ids, Returns(i)
      PROVE  TasksInv'
  <2>1. PICK late \in BOOLEAN :
          task' = [task EXCEPT ![i].at = "parses", ![i].late = late]
    <3>1. task[i].late \in BOOLEAN
      BY DEF TypeOK, Task
    <3>2. CASE IsRoot(i)
      <4>1. task' = [task EXCEPT ![i].at = "parses", ![i].late = task[i].late]
        BY <1>0, <1>3, <3>2 DEF Returns, At, Task
      <4> QED BY <3>1, <4>1
    <3>3. CASE ~IsRoot(i)
      BY <1>3, <3>1, <3>3 DEF Returns
    <3> QED BY <3>2, <3>3
  <2>2. given' = given /\ task[i].at = "works"
    BY <1>3 DEF Returns
  <2>3. /\ task' \in [Ids -> Task] /\ \A j \in Ids \ {i} : task'[j] = task[j]
        /\ task'[i].at = "parses" /\ task'[i].root = task[i].root
        /\ task'[i].parent = task[i].parent /\ task'[i].agent = task[i].agent
    <3> DEFINE f == At(i, "parses")
    <3>0. /\ f \in [Ids -> Task] /\ \A j \in Ids \ {i} : f[j] = task[j]
          /\ f[i].at = "parses" /\ f[i].root = task[i].root
          /\ f[i].parent = task[i].parent /\ f[i].agent = task[i].agent
      <4>1. "parses" \in Stages
        BY DEF Stages
      <4> HIDE DEF f
      <4>2. f = At(i, "parses")
        BY DEF f
      <4> QED BY <4>1, <4>2, AtTyped
    <3> HIDE DEF f
    <3>1. CASE late = TRUE
      <4>1. task' = [f EXCEPT ![i].late = TRUE]
        BY <2>1, <3>1 DEF f, At
      <4> QED BY <3>0, <4>1 DEF Task
    <3>2. CASE late = FALSE
      <4>1. task' = [f EXCEPT ![i].late = FALSE]
        BY <2>1, <3>2 DEF f, At
      <4> QED BY <3>0, <4>1 DEF Task
    <3> QED BY <3>1, <3>2
  <2> QED BY <2>2, <2>3, OneMoves
<1>4. ASSUME NEW i \in Ids, RemoteReturns(i) \/ AsksUser(i) \/ Delivers(i)
      PROVE  TasksInv'
  <2>1. task' = Gone(i) /\ given' = given /\ task[i].at # "waits"
    BY <1>4 DEF RemoteReturns, AsksUser, Delivers
  <2>2. /\ task' \in [Ids -> Task] /\ task'[i].at = "none"
        /\ \A j \in Ids \ {i} : task'[j] = task[j]
    BY <2>1, GoneTyped
  <2> QED BY <2>1, <2>2, OneMoves
<1>5. ASSUME NEW i \in Ids, Delegates(i)
      PROVE  TasksInv'
  <2>1. task[i].at = "parses"
    BY <1>5 DEF Delegates
  <2>2. CASE Concludes(i) /\ UNCHANGED given
    BY <2>1, <2>2, ConcludesTyped, OneMoves
  <2>3. ASSUME NEW n, NEW s, Asks(i, n, s)
        PROVE  TasksInv'
    <3> DEFINE New == given + 1 .. given + n
    <3>1. /\ given' = given + n /\ n \in Nat
          /\ task' \in [Ids -> Task]
          /\ \A j \in Ids : j \in New =>
               /\ task'[j].at = "asked" /\ task'[j].root = Root(i) /\ task'[j].parent = i
               /\ task'[j].agent \in Agents
          /\ \A j \in Ids : j \notin New /\ j # i =>
               /\ task'[j].at = task[j].at /\ task'[j].root = task[j].root
               /\ task'[j].parent = task[j].parent /\ task'[j].agent = task[j].agent
          /\ i \notin New =>
               /\ task'[i].at = "waits" /\ task'[i].root = task[i].root
               /\ task'[i].parent = task[i].parent /\ task'[i].agent = task[i].agent
      BY <2>1, <2>3, AsksTyped DEF Asks
    <3>2. /\ i <= given /\ Root(i) \in Ids /\ Root(i) <= given
          /\ ~IsRoot(i) => task[i].agent \in Agents /\ task[i].parent \in Ids
      BY <2>1 DEF AllFormed, Formed
    <3>3. \A j \in Ids : j \in Int /\ (j \in New <=> given < j /\ j <= given + n)
      BY <1>0, <3>1 DEF Ids
    <3> HIDE DEF New
    <3>4. i \notin New /\ Root(i) \notin New
      BY <1>0, <3>2, <3>3
    <3>5. ASSUME NEW j \in Ids
          PROVE  Formed(j)'
      <4>1. CASE j \in New
        <5>1. task'[j].root # j /\ j <= given' /\ Root(i) <= given'
          BY <1>0, <3>1, <3>2, <3>3, <3>4, <4>1
        <5> QED BY <3>1, <3>2, <4>1, <5>1 DEF Formed, IsRoot, Root
      <4>2. CASE j = i
        <5>1. i <= given' /\ Root(i) <= given'
          BY <1>0, <3>1, <3>2, <3>3
        <5> QED BY <3>1, <3>2, <3>4, <4>2, <5>1 DEF Formed, IsRoot, Root
      <4>3. CASE j \notin New /\ j # i
        <5>1. Formed(j)
          BY DEF AllFormed
        <5>2. \A k \in Ids : k <= given => k <= given'
          BY <1>0, <3>1, <3>3
        <5> QED BY <3>1, <4>3, <5>1, <5>2 DEF Formed, IsRoot, Root
      <4> QED BY <4>1, <4>2, <4>3
    <3>6. ASSUME NEW j \in Ids, task'[j].at # "none", task'[j].root # j
          PROVE  task'[task'[j].parent].at = "waits"
      <4>1. CASE j \in New
        BY <3>1, <3>4, <4>1
      <4>2. CASE j \notin New
        <5>1. /\ task[j].at # "none" /\ task[j].root # j
              /\ task'[j].parent = task[j].parent
          BY <2>1, <3>1, <3>6, <4>2
        <5>2. task[task[j].parent].at = "waits" /\ task[j].parent \in Ids
          BY <5>1 DEF CallersWait, AllFormed, Formed, IsRoot, Root
        <5>3. task[j].parent <= given
          BY <5>2 DEF AllFormed, Formed
        <5>4. task[j].parent \notin New /\ task[j].parent # i
          BY <1>0, <2>1, <3>3, <5>2, <5>3
        <5> QED BY <3>1, <5>1, <5>2, <5>4
      <4> QED BY <4>1, <4>2
    <3> QED BY <3>1, <3>5, <3>6 DEF TasksInv, TaskOK, AllFormed, CallersWait, IsRoot, Root
  <2> QED BY <1>5, <2>2, <2>3, DelegatesAsks
<1>6. ASSUME NEW i \in Ids, Spawns(i)
      PROVE  TasksInv'
  <2> DEFINE taken == {c \in Asked(i) : Accepted(i, c)}
  <2>1. PICK thrown \in SUBSET taken :
          task' = [c \in Ids |->
                     IF c \in Asked(i) \ taken \/ c \in thrown THEN NoTask
                     ELSE IF c \in taken
                       THEN [task[c] EXCEPT !.at = IF IsRemote(c) THEN "works" ELSE "held"]
                     ELSE task[c]]
    BY <1>6 DEF Spawns
  <2>0. taken \subseteq Asked(i)
    OBVIOUS
  <2> HIDE DEF taken
  <2>2. given' = given /\ \A c \in Asked(i) : c \in Ids /\ task[c].at = "asked"
    BY <1>6 DEF Spawns, Asked
  <2>3. ASSUME NEW c \in Ids
        PROVE  /\ task'[c] \in Task
               /\ \/ task'[c] = task[c]
                  \/ task[c].at = "asked" /\ task'[c].at = "none"
                  \/ /\ task[c].at = "asked" /\ task'[c].at \in {"works", "held"}
                     /\ task'[c].root = task[c].root /\ task'[c].parent = task[c].parent
                     /\ task'[c].agent = task[c].agent
    <3>1. CASE c \in Asked(i) \ taken \/ c \in thrown
      <4>1. task'[c] = NoTask
        BY <2>1, <3>1
      <4> QED BY <2>0, <2>1, <2>2, <3>1, <4>1, NoTaskTyped DEF NoTask
    <3>2. CASE c \in taken /\ c \notin thrown
      <4>1. PICK stage \in {"works", "held"} : task'[c] = [task[c] EXCEPT !.at = stage]
        <5>1. CASE IsRemote(c)
          BY <2>1, <3>2, <5>1
        <5>2. CASE ~IsRemote(c)
          BY <2>1, <3>2, <5>2
        <5> QED BY <5>1, <5>2
      <4>2. task[c] \in Task
        BY <1>0
      <4> QED BY <2>0, <2>1, <2>2, <3>2, <4>1, <4>2 DEF Task, Stages
    <3>3. CASE c \notin Asked(i) /\ c \notin taken
      BY <1>0, <2>0, <2>1, <3>3
    <3> QED BY <2>0, <2>1, <3>1, <3>2, <3>3
  <2>4. task' \in [Ids -> Task]
    BY <2>1, <2>3
  <2>5. ASSUME NEW j \in Ids
        PROVE  Formed(j)'
    <3>1. Formed(j)
      BY DEF AllFormed
    <3> QED BY <2>2, <2>3, <3>1 DEF Formed, IsRoot, Root
  <2>6. ASSUME NEW j \in Ids, task'[j].at # "none", task'[j].root # j
        PROVE  task'[task'[j].parent].at = "waits"
    <3>1. /\ task[j].at # "none" /\ task[j].root # j
          /\ task'[j].parent = task[j].parent
      BY <2>3, <2>6
    <3>2. task[task[j].parent].at = "waits" /\ task[j].parent \in Ids
      BY <3>1 DEF CallersWait, AllFormed, Formed, IsRoot, Root
    <3> QED BY <2>3, <3>1, <3>2
  <2> QED BY <2>4, <2>5, <2>6 DEF TasksInv, TaskOK, AllFormed, CallersWait, IsRoot, Root
<1>7. ASSUME NEW i \in Ids, Starts(i)
      PROVE  TasksInv'
  <2>1. task' = At(i, "works") /\ given' = given /\ task[i].at = "held" /\ "works" \in Stages
    BY <1>7 DEF Starts, Stages
  <2> QED BY <2>1, AtTyped, OneMoves
<1>8. ASSUME NEW i \in Ids, Fails(i)
      PROVE  TasksInv'
  <2>1. /\ given' = given /\ task[i].at # "waits"
        /\ task' = [task EXCEPT ![i] = Zombie(i)] \/ task' = [task EXCEPT ![i] = Gone(i)[i]]
    BY <1>8 DEF Fails, RecordsFailure
  <2>2. /\ task' \in [Ids -> Task] /\ task'[i].at = "none"
        /\ \A j \in Ids \ {i} : task'[j] = task[j]
    BY <1>0, <2>1, GoneTyped
  <2> QED BY <2>1, <2>2, OneMoves
<1>9. ASSUME NEW i \in Ids, Settles(i)
      PROVE  TasksInv'
  <2>1. given' = given /\ task[i].at = "waits" /\ Children(i) = {}
    BY <1>9 DEF Settles
  <2>2. CASE /\ task[i].turns > 1
             /\ task' = [task EXCEPT ![i].at = "works", ![i].turns = task[i].turns - 1]
    <3>1. task[i].turns - 1 \in 0 .. MaxTurns
      BY <1>0, <2>2, DelegationAssumption
    <3>2. /\ task' \in [Ids -> Task] /\ \A j \in Ids \ {i} : task'[j] = task[j]
          /\ task'[i].at = "works" /\ task'[i].root = task[i].root
          /\ task'[i].parent = task[i].parent /\ task'[i].agent = task[i].agent
      BY <1>0, <2>2, <3>1 DEF Task, Stages
    <3> QED BY <2>1, <3>2, OneMoves
  <2>3. CASE Concludes(i)
    BY <2>1, <2>3, ConcludesTyped, OneMoves
  <2> QED BY <1>9, <2>2, <2>3 DEF Settles
<1>10. CASE Crash \/ \E i \in Ids : CrashInCompletion(i)
  <2>1. task' = [i \in Ids |-> NoTask]
    BY <1>10 DEF Crash, CrashInCompletion, Lost
  <2>2. task' \in [Ids -> Task] /\ \A i \in Ids : task'[i].at = "none"
    BY <2>1, NoTaskTyped DEF NoTask
  <2> QED BY <2>2 DEF TasksInv, TaskOK, AllFormed, Formed, CallersWait
<1>11. ASSUME task' = task, given' = given
       PROVE  TasksInv'
  BY <1>0, <1>11 DEF TasksInv, TaskOK, AllFormed, Formed, CallersWait, IsRoot, Root
<1>12. ASSUME NEW i \in Ids, Progress(i) \/ Ages(i)
       PROVE  TasksInv'
  BY <1>11, <1>12 DEF Progress, Ages
<1>13. ASSUME NEW old, Cleanup(old)
       PROVE  TasksInv'
  BY <1>11, <1>13 DEF Cleanup
<1>14. ASSUME NEW m \in Messages, ClearConversation(m)
       PROVE  TasksInv'
  BY <1>11, <1>14 DEF ClearConversation
<1>15. ASSUME NEW i \in Ids, FailsSearching(i)
       PROVE  TasksInv'
  <2>1. given' = given /\ \A j \in Ids :
          task'[j] = IF j \in Asked(i) THEN NoTask ELSE Gone(i)[j]
    BY <1>15 DEF FailsSearching, RecordsFailure
  <2>2. /\ task' \in [Ids -> Task] /\ task'[i].at = "none"
        /\ \A j \in Asked(i) : task'[j].at = "none"
        /\ \A j \in Ids : j # i /\ j \notin Asked(i) => task'[j] = task[j]
    BY <1>15, <2>1, SearchEnds
  <2>3. ASSUME NEW j \in Ids
        PROVE  Formed(j)'
    <3>1. Formed(j)
      BY DEF AllFormed
    <3>2. task'[j].at = "none" \/ task'[j] = task[j]
      BY <2>2
    <3> QED BY <2>1, <3>1, <3>2 DEF Formed, IsRoot, Root
  <2>4. ASSUME NEW j \in Ids, task'[j].at # "none", task'[j].root # j
        PROVE  task'[task'[j].parent].at = "waits"
    <3>1. task'[j] = task[j] /\ j \notin Asked(i)
      BY <2>2, <2>4
    <3>2. task[task[j].parent].at = "waits" /\ task[j].parent \in Ids
      BY <2>4, <3>1 DEF CallersWait, AllFormed, Formed, IsRoot, Root
    <3>3. task[j].parent # i
      BY <1>15, <2>4, <3>1 DEF FailsSearching, Children
    <3>4. task[j].parent \notin Asked(i)
      BY <3>2 DEF Asked
    <3> QED BY <2>2, <3>1, <3>2, <3>3, <3>4
  <2> QED BY <2>2, <2>3, <2>4 DEF TasksInv, TaskOK, AllFormed, CallersWait, IsRoot, Root
<1> QED BY <1>1, <1>2, <1>3, <1>4, <1>5, <1>6, <1>7, <1>8, <1>9, <1>10, <1>12, <1>13, <1>14,
           <1>15 DEF Next, Advances

\* The entries of delegated agents, the messages' fates and the bounds.
RestOK ==
  /\ given \in Nat
  /\ active \subseteq Messages \X Agents
  /\ fate \in [Messages -> {"open", "answered", "dead"}]
  /\ torn \subseteq Messages
  /\ crashes \in 0 .. MaxCrashes

LEMMA RestStays ==
  ASSUME TypeOK, AllFormed, Next
  PROVE  RestOK'
<1>0. RestOK
  BY DEF TypeOK, RestOK
<1>1. ASSUME NEW m \in Messages, Begin(m) \/ ClearConversation(m)
      PROVE  RestOK'
  BY <1>0, <1>1 DEF Begin, ClearConversation, RestOK
<1>2. ASSUME NEW i \in Ids,
             Progress(i) \/ LateEnds(i) \/ Ages(i) \/ Returns(i) \/ RemoteReturns(i)
             \/ Starts(i) \/ AsksUser(i)
      PROVE  RestOK'
  BY <1>0, <1>2
     DEF Progress, LateEnds, Ages, Returns, RemoteReturns, Starts, AsksUser, RestOK
<1>3. ASSUME NEW i \in Ids, Delegates(i)
      PROVE  RestOK'
  <2>1. given' \in Nat /\ active' \subseteq active
    BY <1>0, <1>3, DelegatesAsks, ConcludesTyped DEF Asks, RestOK
  <2> QED BY <1>0, <1>3, <2>1 DEF Delegates, RestOK
<1>4. ASSUME NEW i \in Ids, Settles(i)
      PROVE  RestOK'
  <2>1. active' \subseteq active
    BY <1>4, ConcludesTyped DEF Settles
  <2> QED BY <1>0, <1>4, <2>1 DEF Settles, RestOK
<1>5. ASSUME NEW i \in Ids, Spawns(i)
      PROVE  RestOK'
  <2>1. \A c \in Asked(i) : Key(c) \in Messages \X Agents
    <3> SUFFICES ASSUME NEW c \in Asked(i)
                 PROVE  Key(c) \in Messages \X Agents
      OBVIOUS
    <3>1. c \in Ids /\ task[c].at = "asked"
      BY DEF Asked
    <3>2. ~IsRoot(c)
      BY <3>1 DEF AllFormed, Formed
    <3> QED BY <3>1, <3>2, KeyTyped
  <2>2. active' \subseteq active \cup {Key(c) : c \in Asked(i)}
    BY <1>5 DEF Spawns
  <2>3. active' \subseteq Messages \X Agents
    BY <1>0, <2>1, <2>2 DEF RestOK
  <2> QED BY <1>0, <1>5, <2>3 DEF Spawns, RestOK
<1>6. ASSUME NEW i \in Ids, Fails(i) \/ FailsSearching(i) \/ Delivers(i)
      PROVE  RestOK'
  <2>1. /\ given' = given /\ torn' = torn /\ crashes' = crashes /\ active' \subseteq active
        /\ fate' \in [Messages -> {"open", "answered", "dead"}]
    BY <1>0, <1>6 DEF Fails, FailsSearching, RecordsFailure, Delivers, RestOK
  <2> QED BY <1>0, <2>1 DEF RestOK
<1>7. ASSUME NEW old, Cleanup(old)
      PROVE  RestOK'
  BY <1>0, <1>7 DEF Cleanup, RestOK
<1>8. CASE Crash
  BY <1>0, <1>8, DelegationAssumption DEF Crash, Lost, RestOK
<1>9. ASSUME NEW i \in Ids, CrashInCompletion(i)
      PROVE  RestOK'
  <2>1. MessageOf(i) \in Messages
    BY <1>9, KeyTyped DEF CrashInCompletion
  <2> QED BY <1>0, <1>9, <2>1, DelegationAssumption DEF CrashInCompletion, Lost, RestOK
<1> QED BY <1>1, <1>2, <1>3, <1>4, <1>5, <1>6, <1>7, <1>8, <1>9 DEF Next, Advances

-----------------------------------------------------------------------------
(* The executions that tasks belong to.                                    *)

Busy(i) == task[i].at # "none"

\* A task's execution is busy too, and so is the one that asked it, which has
\* an earlier id and belongs to the same execution.
Kin(i) ==
  Busy(i) =>
    /\ Root(i) \in Ids /\ Busy(Root(i)) /\ IsRoot(Root(i))
    /\ ~IsRoot(i) => task[i].parent < i /\ Root(task[i].parent) = Root(i)

AllKin == \A i \in Ids : Kin(i)

LEMMA LeastOf ==
  ASSUME NEW S, S \subseteq Nat, S # {}
  PROVE  \E x \in S : \A y \in S : x <= y
<1> DEFINE R == OpToRel(<, Nat)
<1>1. IsWellFoundedOn(R, Nat)
  BY NatLessThanWellFounded, Zenon
<1>2. \A x, y \in Nat : x < y => <<x, y>> \in R
  BY DEF OpToRel
<1> HIDE DEF R
<1>3. PICK x \in S : \A y \in S : ~ (<<y, x>> \in R)
  BY <1>1, WFMin
<1>4. ASSUME NEW y \in S
      PROVE  x <= y
  <2>1. x \in Nat /\ y \in Nat
    OBVIOUS
  <2>2. ~(y < x)
    BY <1>2, <1>3, <2>1
  <2> QED BY <2>1, <2>2
<1> QED BY <1>4

\* While anybody is busy for an execution, the execution waits for somebody it
\* asked itself: the earliest of those who are busy for it has no other caller.
LEMMA ExecutionsWait ==
  ASSUME TypeOK, AllFormed, CallersWait, AllKin,
         NEW j \in Ids, Busy(j), ~IsRoot(j)
  PROVE  task[Root(j)].at = "waits" /\ Children(Root(j)) # {}
<1> DEFINE r == Root(j)
           S == {k \in Ids : Busy(k) /\ ~IsRoot(k) /\ Root(k) = r}
<1>1. j \in S /\ S \subseteq Nat
  BY DEF Ids
<1>2. PICK k \in S : \A l \in S : k <= l
  BY <1>1, LeastOf
<1>3. k \in Ids /\ Busy(k) /\ ~IsRoot(k) /\ Root(k) = r
  OBVIOUS
<1>4. /\ task[k].parent \in Ids /\ task[k].parent < k
      /\ Root(task[k].parent) = r /\ task[task[k].parent].at = "waits"
  BY <1>3 DEF AllKin, Kin, AllFormed, Formed, CallersWait, Busy
<1>5. task[k].parent \notin S
  <2>1. k \in Int /\ task[k].parent \in Int
    BY <1>4 DEF Ids
  <2> QED BY <1>2, <1>4, <2>1
<1>6. IsRoot(task[k].parent)
  BY <1>4, <1>5 DEF Busy
<1>7. task[k].parent = r
  BY <1>4, <1>6 DEF IsRoot
<1>8. k \in Children(r)
  BY <1>3, <1>7 DEF Children, Busy
<1> QED BY <1>4, <1>7, <1>8

\* As long as those an execution asked have not begun, nobody else is busy for it.
LEMMA OnlyTheAsked ==
  ASSUME TypeOK, AllFormed, CallersWait, AllKin, NEW j \in Ids, Busy(j), ~IsRoot(j),
         \A k \in Children(Root(j)) : task[k].at = "asked"
  PROVE  j \in Children(Root(j))
<1> DEFINE r == Root(j)
           S == {k \in Ids : Busy(k) /\ ~IsRoot(k) /\ Root(k) = r /\ task[k].parent # r}
<1> SUFFICES ASSUME j \notin Children(r)
             PROVE  FALSE
  OBVIOUS
<1>1. j \in S /\ S \subseteq Nat
  BY DEF Ids, Children, Busy
<1>2. PICK k \in S : \A l \in S : k <= l
  BY <1>1, LeastOf
<1>3. k \in Ids /\ Busy(k) /\ ~IsRoot(k) /\ Root(k) = r /\ task[k].parent # r
  OBVIOUS
<1> DEFINE p == task[k].parent
<1>4. p \in Ids /\ p < k /\ Root(p) = r /\ task[p].at = "waits"
  BY <1>3 DEF AllKin, Kin, AllFormed, Formed, CallersWait, Busy
<1>5. p \notin S
  <2>1. k \in Int /\ p \in Int
    BY <1>4 DEF Ids
  <2> HIDE DEF p
  <2> QED BY <1>2, <1>4, <2>1
<1>6. ~IsRoot(p)
  BY <1>3, <1>4 DEF IsRoot
<1>7. task[p].parent = r
  BY <1>4, <1>5, <1>6 DEF Busy
<1>8. p \in Children(r)
  BY <1>4, <1>7 DEF Children
<1> QED BY <1>4, <1>8

\* What a step does to the tasks unless it adds some: they go on as the tasks
\* they are or end, and whoever waits does so until nobody it asked is busy, or
\* ends with those it asked before they begin, or with the process.
GoOn ==
  /\ given' = given
  /\ \A j \in Ids : task'[j].at # "none" =>
       /\ Busy(j)
       /\ task'[j].root = task[j].root /\ task'[j].parent = task[j].parent
       /\ task'[j].count = task[j].count
  /\ \A j \in Ids : task[j].at = "waits" =>
       \/ task'[j].at = "waits"
       \/ Children(j) = {}
       \/ \A k \in Children(j) : task[k].at = "asked" /\ task'[k].at = "none"
       \/ \A k \in Ids : task'[k].at = "none"

\* One task does.
LEMMA OneGoesOn ==
  ASSUME TypeOK, NEW i \in Ids, given' = given,
         \A j \in Ids \ {i} : task'[j] = task[j],
         \/ task'[i].at = "none"
         \/ /\ Busy(i)
            /\ task'[i].root = task[i].root /\ task'[i].parent = task[i].parent
            /\ task'[i].count = task[i].count,
         task[i].at = "waits" => task'[i].at = "waits" \/ Children(i) = {}
  PROVE  GoOn
BY DEF GoOn, Busy

LEMMA ConcludesGoesOn ==
  ASSUME TypeOK, NEW i \in Ids, Busy(i), Concludes(i), given' = given,
         task[i].at = "waits" => Children(i) = {}
  PROVE  GoOn
<1>1. CASE IsRoot(i)
  <2>1. task' = [task EXCEPT ![i].at = "answers"]
    BY <1>1 DEF Concludes, At
  <2>2. /\ \A j \in Ids \ {i} : task'[j] = task[j]
        /\ task'[i].root = task[i].root /\ task'[i].parent = task[i].parent
        /\ task'[i].count = task[i].count
    BY <2>1 DEF TypeOK, Task
  <2> QED BY <2>2, OneGoesOn
<1>2. CASE ~IsRoot(i)
  <2>1. task' = Gone(i)
    BY <1>2 DEF Concludes
  <2>2. task'[i].at = "none" /\ \A j \in Ids \ {i} : task'[j] = task[j]
    BY <2>1, GoneTyped
  <2> QED BY <2>2, OneGoesOn
<1> QED BY <1>1, <1>2

\* Every step but the beginning of an execution and a turn that delegates.
LEMMA TaskSteps ==
  ASSUME TypeOK, AllFormed, CallersWait, Next
  PROVE  \/ GoOn
         \/ \E m \in Messages : Begin(m)
         \/ \E i \in Ids : Delegates(i) /\ task[i].at = "parses" /\ \E n, s : Asks(i, n, s)
<1>0. task \in [Ids -> Task]
  BY DEF TypeOK
<1>1. ASSUME NEW i \in Ids, LateEnds(i)
      PROVE  GoOn
  <2>1. task' = [task EXCEPT ![i] = IF task[i].at = "none" THEN NoTask
                                    ELSE [@ EXCEPT !.late = FALSE]]
        /\ given' = given
    BY <1>1 DEF LateEnds
  <2>2. CASE task[i].at = "none"
    BY <1>0, <2>1, <2>2, OneGoesOn DEF NoTask
  <2>3. CASE task[i].at # "none"
    <3>1. task' = [task EXCEPT ![i].late = FALSE]
      BY <2>1, <2>3
    <3>2. /\ \A j \in Ids \ {i} : task'[j] = task[j]
          /\ task'[i].root = task[i].root /\ task'[i].parent = task[i].parent
          /\ task'[i].count = task[i].count /\ task'[i].at = task[i].at
      BY <1>0, <3>1 DEF Task
    <3> QED BY <2>1, <2>3, <3>2, OneGoesOn DEF Busy
  <2> QED BY <2>2, <2>3
<1>2. ASSUME NEW i \in Ids, Returns(i)
      PROVE  GoOn
  <2>1. given' = given /\ task[i].at = "works"
        /\ \/ task' = [task EXCEPT ![i].at = "parses"]
           \/ \E late \in BOOLEAN : task' = [task EXCEPT ![i].at = "parses", ![i].late = late]
    <3>1. task[i].late \in BOOLEAN
      BY <1>0 DEF Task
    <3> QED BY <1>2, <3>1 DEF Returns, At
  <2>2. /\ \A j \in Ids \ {i} : task'[j] = task[j]
        /\ task'[i].root = task[i].root /\ task'[i].parent = task[i].parent
        /\ task'[i].count = task[i].count
    BY <1>0, <2>1 DEF Task
  <2> QED BY <2>1, <2>2, OneGoesOn DEF Busy
<1>3. ASSUME NEW i \in Ids, RemoteReturns(i) \/ AsksUser(i) \/ Delivers(i)
      PROVE  GoOn
  <2>1. task' = Gone(i) /\ given' = given /\ task[i].at # "waits"
    BY <1>3 DEF RemoteReturns, AsksUser, Delivers
  <2>2. task'[i].at = "none" /\ \A j \in Ids \ {i} : task'[j] = task[j]
    BY <2>1, GoneTyped
  <2> QED BY <2>1, <2>2, OneGoesOn
<1>4. ASSUME NEW i \in Ids, Delegates(i)
      PROVE  \/ GoOn
             \/ Delegates(i) /\ task[i].at = "parses" /\ \E n, s : Asks(i, n, s)
  <2>1. task[i].at = "parses"
    BY <1>4 DEF Delegates
  <2>2. CASE Concludes(i) /\ UNCHANGED given
    BY <2>1, <2>2, ConcludesGoesOn DEF Busy
  <2> QED BY <1>4, <2>1, <2>2, DelegatesAsks
<1>5. ASSUME NEW i \in Ids, Spawns(i)
      PROVE  GoOn
  <2> DEFINE taken == {c \in Asked(i) : Accepted(i, c)}
  <2>0. taken \subseteq Asked(i)
    OBVIOUS
  <2>1. PICK thrown \in SUBSET taken :
          task' = [c \in Ids |->
                     IF c \in Asked(i) \ taken \/ c \in thrown THEN NoTask
                     ELSE IF c \in taken
                       THEN [task[c] EXCEPT !.at = IF IsRemote(c) THEN "works" ELSE "held"]
                     ELSE task[c]]
    BY <1>5 DEF Spawns
  <2> HIDE DEF taken
  <2>2. given' = given /\ \A c \in Asked(i) : c \in Ids /\ task[c].at = "asked"
    BY <1>5 DEF Spawns, Asked
  <2>3. ASSUME NEW c \in Ids
        PROVE  \/ task'[c] = task[c]
               \/ task[c].at = "asked" /\ task'[c].at = "none"
               \/ /\ task[c].at = "asked"
                  /\ task'[c].root = task[c].root /\ task'[c].parent = task[c].parent
                  /\ task'[c].count = task[c].count
    <3>1. CASE c \in Asked(i) \ taken \/ c \in thrown
      <4>1. task'[c] = NoTask
        BY <2>1, <3>1
      <4> QED BY <2>0, <2>2, <3>1, <4>1 DEF NoTask
    <3>2. CASE c \in taken /\ c \notin thrown
      <4>1. PICK stage \in {"works", "held"} : task'[c] = [task[c] EXCEPT !.at = stage]
        <5>1. CASE IsRemote(c)
          BY <2>1, <3>2, <5>1
        <5>2. CASE ~IsRemote(c)
          BY <2>1, <3>2, <5>2
        <5> QED BY <5>1, <5>2
      <4>2. task[c] \in Task
        BY <1>0
      <4> QED BY <2>0, <2>2, <3>2, <4>1, <4>2 DEF Task
    <3>3. CASE c \notin Asked(i) /\ c \notin taken /\ c \notin thrown
      BY <1>0, <2>1, <3>3
    <3> QED BY <2>0, <3>1, <3>2, <3>3
  <2> QED BY <2>2, <2>3 DEF GoOn, Busy
<1>6. ASSUME NEW i \in Ids, Starts(i)
      PROVE  GoOn
  <2>1. task' = [task EXCEPT ![i].at = "works"] /\ given' = given /\ task[i].at = "held"
    BY <1>6 DEF Starts, At
  <2>2. /\ \A j \in Ids \ {i} : task'[j] = task[j]
        /\ task'[i].root = task[i].root /\ task'[i].parent = task[i].parent
        /\ task'[i].count = task[i].count
    BY <1>0, <2>1 DEF Task
  <2> QED BY <2>1, <2>2, OneGoesOn DEF Busy
<1>7. ASSUME NEW i \in Ids, Fails(i)
      PROVE  GoOn
  <2>1. /\ given' = given /\ task[i].at # "waits"
        /\ task' = [task EXCEPT ![i] = Zombie(i)] \/ task' = [task EXCEPT ![i] = Gone(i)[i]]
    BY <1>7 DEF Fails, RecordsFailure
  <2>2. task'[i].at = "none" /\ \A j \in Ids \ {i} : task'[j] = task[j]
    BY <1>0, <2>1, GoneTyped
  <2> QED BY <2>1, <2>2, OneGoesOn
<1>8. ASSUME NEW i \in Ids, Settles(i)
      PROVE  GoOn
  <2>1. given' = given /\ task[i].at = "waits" /\ Children(i) = {}
    BY <1>8 DEF Settles
  <2>2. CASE task' = [task EXCEPT ![i].at = "works", ![i].turns = task[i].turns - 1]
    <3>1. /\ \A j \in Ids \ {i} : task'[j] = task[j]
          /\ task'[i].root = task[i].root /\ task'[i].parent = task[i].parent
          /\ task'[i].count = task[i].count
      BY <1>0, <2>2 DEF Task
    <3> QED BY <2>1, <3>1, OneGoesOn DEF Busy
  <2>3. CASE Concludes(i)
    BY <2>1, <2>3, ConcludesGoesOn DEF Busy
  <2> QED BY <1>8, <2>2, <2>3 DEF Settles
<1>9. CASE Crash \/ \E i \in Ids : CrashInCompletion(i)
  <2>1. task' = [i \in Ids |-> NoTask] /\ given' = given
    BY <1>9 DEF Crash, CrashInCompletion, Lost
  <2>2. \A i \in Ids : task'[i].at = "none"
    BY <2>1 DEF NoTask
  <2> QED BY <2>1, <2>2 DEF GoOn
<1>10. ASSUME task' = task, given' = given
       PROVE  GoOn
  BY <1>10 DEF GoOn, Busy
<1>11. ASSUME NEW i \in Ids, Progress(i) \/ Ages(i)
       PROVE  GoOn
  BY <1>10, <1>11 DEF Progress, Ages
<1>12. ASSUME NEW old, Cleanup(old)
       PROVE  GoOn
  BY <1>10, <1>12 DEF Cleanup
<1>13. ASSUME NEW m \in Messages, ClearConversation(m)
       PROVE  GoOn
  BY <1>10, <1>13 DEF ClearConversation
<1>14. ASSUME NEW i \in Ids, FailsSearching(i)
       PROVE  GoOn
  <2>1. given' = given /\ Asked(i) = Children(i) /\ task[i].at = "waits"
    BY <1>14 DEF FailsSearching, RecordsFailure
  <2>2. /\ task'[i].at = "none" /\ \A j \in Asked(i) : task'[j].at = "none"
        /\ \A j \in Ids : j # i /\ j \notin Asked(i) => task'[j] = task[j]
    BY <1>14, SearchEnds
  <2>3. \A j \in Asked(i) : j \in Ids /\ task[j].at = "asked"
    BY DEF Asked
  <2>4. \A k \in Children(i) : task[k].at = "asked" /\ task'[k].at = "none"
    BY <2>1, <2>2, <2>3
  <2>5. \A j \in Ids : task[j].at = "waits" => j = i \/ task'[j].at = "waits"
    BY <2>2, <2>3
  <2> QED BY <2>1, <2>2, <2>4, <2>5 DEF GoOn, Busy
<1> QED BY <1>1, <1>2, <1>3, <1>4, <1>5, <1>6, <1>7, <1>8, <1>9, <1>11, <1>12, <1>13, <1>14
        DEF Next, Advances

\* What a turn that delegates does: the asked ones take the next ids, and the
\* execution counts them.
LEMMA AsksCounted ==
  ASSUME TypeOK, AllFormed, NEW i \in Ids, task[i].at = "parses", NEW n, NEW s, Asks(i, n, s)
  PROVE  /\ n \in Nat /\ given' = given + n
         /\ \A j \in Ids : j \in given + 1 .. given + n =>
              task'[j].root = Root(i) /\ task'[j].parent = i
         /\ \A j \in Ids : j \notin given + 1 .. given + n =>
              /\ task'[j].at = IF j = i THEN "waits" ELSE task[j].at
              /\ task'[j].root = task[j].root /\ task'[j].parent = task[j].parent
              /\ task'[j].count = IF j = Root(i) THEN task[j].count + n ELSE task[j].count
         /\ Root(i) \in Ids /\ task[Root(i)].count + n <= MaxMessages
<1>0. task \in [Ids -> Task] /\ Root(i) \in Ids
  BY DEF TypeOK, AllFormed, Formed
<1>1. n \in Nat /\ n > 0 /\ n <= Room(i) /\ given' = given + n
  BY DEF Asks
<1>2. Room(i) \in Nat /\ Room(i) + task[Root(i)].count <= MaxMessages
  BY RoomTyped
<1>3. task[Root(i)].count \in Nat
  BY <1>0 DEF Task
<1>4. task[Root(i)].count + n <= MaxMessages
  BY <1>1, <1>2, <1>3, DelegationAssumption
<1>5. task' = [j \in Ids |-> IF j \in given + 1 .. given + n THEN NewTask(i, s[j - given])
                             ELSE Counted(i, n)[j]]
  BY DEF Asks
<1>6. \A j \in Ids : j \in given + 1 .. given + n =>
        task'[j].root = Root(i) /\ task'[j].parent = i
  BY <1>5 DEF NewTask
<1>7. \A j \in Ids : /\ Counted(i, n)[j].at = IF j = i THEN "waits" ELSE task[j].at
                     /\ Counted(i, n)[j].root = task[j].root
                     /\ Counted(i, n)[j].parent = task[j].parent
                     /\ Counted(i, n)[j].count = IF j = Root(i) THEN task[j].count + n
                                                 ELSE task[j].count
  BY <1>0 DEF Counted, Task
<1> QED BY <1>0, <1>1, <1>4, <1>5, <1>6, <1>7

LEMMA KinStays ==
  ASSUME TypeOK, AllFormed, CallersWait, AllKin, Next
  PROVE  AllKin'
<1>0. task \in [Ids -> Task] /\ given \in Nat
  BY DEF TypeOK
<1>1. CASE GoOn
  <2> SUFFICES ASSUME NEW j \in Ids, task'[j].at # "none"
               PROVE  Kin(j)'
    BY DEF AllKin, Kin, Busy
  <2>1. /\ Busy(j) /\ task'[j].root = task[j].root /\ task'[j].parent = task[j].parent
    BY <1>1 DEF GoOn
  <2>2. Root(j) \in Ids /\ Busy(Root(j)) /\ IsRoot(Root(j))
    BY <2>1 DEF AllKin, Kin
  <2>3. CASE IsRoot(j)
    BY <2>1, <2>2, <2>3 DEF Kin, Busy, IsRoot, Root
  <2>4. CASE ~IsRoot(j)
    <3>1. task[Root(j)].at = "waits" /\ Children(Root(j)) # {}
      BY <2>1, <2>4, ExecutionsWait
    <3>2. task'[Root(j)].at = "waits"
      <4>1. CASE \A k \in Children(Root(j)) : task[k].at = "asked" /\ task'[k].at = "none"
        BY <2>1, <2>4, <4>1, OnlyTheAsked
      <4> QED BY <1>1, <2>2, <3>1, <4>1 DEF GoOn
    <3>3. task'[Root(j)].root = task[Root(j)].root
      BY <1>1, <2>2, <3>2 DEF GoOn
    <3>4. /\ task[j].parent \in Ids /\ task[task[j].parent].at = "waits"
          /\ task[j].parent < j /\ Root(task[j].parent) = Root(j)
      BY <2>1, <2>4 DEF AllKin, Kin, AllFormed, Formed, CallersWait, Busy
    <3>5. j \in Children(task[j].parent)
      BY <2>1 DEF Children, Busy
    <3>6. task'[task[j].parent].at = "waits"
      BY <1>1, <3>4, <3>5 DEF GoOn
    <3>7. task'[task[j].parent].root = Root(j)
      BY <1>1, <3>4, <3>6 DEF GoOn, Root
    <3> QED BY <2>1, <2>2, <3>2, <3>3, <3>4, <3>7 DEF Kin, Busy, IsRoot, Root
  <2> QED BY <2>3, <2>4
<1>2. ASSUME NEW m \in Messages, Begin(m)
      PROVE  AllKin'
  <2> DEFINE i == given + 1
  <2>1. PICK turns : task' = [task EXCEPT ![i] = NewExecution(i, turns)]
    BY <1>2 DEF Begin
  <2>2. \A j \in Ids : j # i => task'[j] = task[j]
    BY <1>0, <2>1
  <2>3. i \in Ids => task'[i].root = i /\ task'[i].at = "works"
    BY <1>0, <2>1 DEF NewExecution
  <2>4. ASSUME NEW j \in Ids, task'[j].at # "none"
        PROVE  Kin(j)'
    <3>1. CASE j = i
      BY <2>3, <3>1 DEF Kin, Busy, IsRoot, Root
    <3>2. CASE j # i
      <4>1. Busy(j) /\ task'[j] = task[j] /\ Kin(j) /\ Formed(j)
        BY <2>2, <2>4, <3>2 DEF Busy, AllKin, AllFormed
      <4>2. Root(j) \in Ids /\ Root(j) # i
        BY <1>0, <4>1 DEF Formed, Busy, Ids
      <4>3. ~IsRoot(j) => task[j].parent \in Ids /\ task[j].parent # i
        <5> SUFFICES ASSUME ~IsRoot(j)
                     PROVE  task[j].parent \in Ids /\ task[j].parent # i
          OBVIOUS
        <5>1. task[j].parent \in Ids /\ task[task[j].parent].at = "waits"
          BY <4>1 DEF Formed, Busy, CallersWait
        <5>2. task[j].parent <= given
          BY <5>1 DEF AllFormed, Formed
        <5> QED BY <1>0, <5>1, <5>2
      <4> QED BY <2>2, <4>1, <4>2, <4>3 DEF Kin, Busy, IsRoot, Root
    <3> QED BY <3>1, <3>2
  <2> QED BY <2>4 DEF AllKin, Kin, Busy
<1>3. ASSUME NEW i \in Ids, task[i].at = "parses", NEW n, NEW s, Asks(i, n, s)
      PROVE  AllKin'
  <2> DEFINE New == given + 1 .. given + n
  <2>1. /\ n \in Nat
        /\ \A j \in Ids : j \in New => task'[j].root = Root(i) /\ task'[j].parent = i
        /\ \A j \in Ids : j \notin New =>
             /\ task'[j].at = IF j = i THEN "waits" ELSE task[j].at
             /\ task'[j].root = task[j].root /\ task'[j].parent = task[j].parent
    BY <1>3, AsksCounted
  <2>2. \A j \in Ids : Busy(j) => j <= given /\ j \notin New
    BY <1>0, <2>1 DEF AllFormed, Formed, Busy, Ids
  <2>3. \A j \in Ids : j \in New => i < j
    BY <1>0, <1>3, <2>1, <2>2 DEF Busy, Ids
  <2> HIDE DEF New
  <2>4. Busy(i) /\ Kin(i)
    BY <1>3 DEF Busy, AllKin
  <2>5. \A j \in Ids : Busy(j) =>
          task'[j].at # "none" /\ task'[j].root = Root(j) /\ task'[j].parent = task[j].parent
    BY <2>1, <2>2 DEF Busy, Root
  <2>6. ASSUME NEW j \in Ids, task'[j].at # "none"
        PROVE  Kin(j)'
    <3>1. CASE j \in New
      <4>1. task'[j].root = Root(i) /\ task'[j].parent = i /\ i < j
        BY <2>1, <2>3, <3>1
      <4> QED BY <2>4, <2>5, <4>1 DEF Kin, Busy, IsRoot, Root
    <3>2. CASE j \notin New
      <4>1. Busy(j) /\ Kin(j) /\ Formed(j)
        BY <1>3, <2>1, <2>6, <3>2 DEF Busy, AllKin, AllFormed
      <4>2. ~IsRoot(j) => task[j].parent \in Ids /\ Busy(task[j].parent)
        BY <4>1 DEF Formed, Busy, CallersWait
      <4> QED BY <2>5, <4>1, <4>2 DEF Kin, Busy, IsRoot, Root
    <3> QED BY <3>1, <3>2
  <2> QED BY <2>6 DEF AllKin, Kin, Busy
<1> QED BY <1>1, <1>2, <1>3, TaskSteps

-----------------------------------------------------------------------------
(* The budget of an execution.                                             *)

\* The runs are those that were, of the same messages and parents.
SameRuns(rows, others) ==
  \A i \in Ids : /\ others[i].status = "absent" <=> rows[i].status = "absent"
                 /\ others[i].message = rows[i].message
                 /\ others[i].parent = rows[i].parent

LEMMA UpdatesKeepRuns ==
  ASSUME NEW rows \in Rows, NEW i, NEW S
  PROVE  /\ SameRuns(rows, Progressed(rows, i))
         /\ SameRuns(rows, Written(rows, i, "failed"))
         /\ SameRuns(rows, Written(rows, i, "completed"))
         /\ SameRuns(rows, Superseded(rows, i))
         /\ SameRuns(rows, ResetOrphans(rows))
         /\ SameRuns(rows, Aged(rows, S))
<1>1. /\ SameRuns(rows, Progressed(rows, i))
      /\ SameRuns(rows, Written(rows, i, "failed"))
      /\ SameRuns(rows, Written(rows, i, "completed"))
  BY DEF Rows, SameRuns, Progressed, Written, RunRow
<1>2. SameRuns(rows, Superseded(rows, i))
  BY DEF Rows, SameRuns, Superseded, RunRow
<1>3. SameRuns(rows, ResetOrphans(rows)) /\ SameRuns(rows, Aged(rows, S))
  BY DEF Rows, SameRuns, ResetOrphans, Aged, RunRow
<1> QED BY <1>1, <1>2, <1>3

\* Two statements after one another.
LEMMA SameRunsTwice ==
  ASSUME NEW a, NEW b, NEW c, SameRuns(a, b), SameRuns(b, c)
  PROVE  SameRuns(a, c)
BY DEF SameRuns

\* Only the beginning of an execution and that of a delegated agent add a run.
LEMMA RunSteps ==
  ASSUME TypeOK, AllFormed, Next
  PROVE  \/ SameRuns(run, run')
         \/ \E m \in Messages : Begin(m)
         \/ \E i \in Ids : Starts(i)
<1>0. run \in Rows
  BY DEF TypeOK, RunTypeOK, Rows
<1>1. ASSUME NEW i \in Ids, Progress(i)
      PROVE  SameRuns(run, run')
  <2>1. run' = Progressed(Progressed(run, i), Root(i)) /\ Progressed(run, i) \in Rows
    BY <1>0, <1>1, UpdatesTyped DEF Progress
  <2> QED BY <1>0, <2>1, UpdatesKeepRuns, SameRunsTwice
<1>2. ASSUME NEW i \in Ids, Returns(i) \/ Delivers(i)
      PROVE  SameRuns(run, run')
  <2>1. run' = run \/ run' = Superseded(Written(run, i, "completed"), i)
    BY <1>2 DEF Returns, Delivers, Completed
  <2>2. Written(run, i, "completed") \in Rows
    BY <1>0, UpdatesTyped
  <2>3. SameRuns(run, Superseded(Written(run, i, "completed"), i))
    BY <1>0, <2>2, UpdatesKeepRuns, SameRunsTwice
  <2> QED BY <2>1, <2>3 DEF SameRuns
<1>3. ASSUME NEW i \in Ids, Fails(i) \/ FailsSearching(i) \/ CrashInCompletion(i)
      PROVE  SameRuns(run, run')
  BY <1>0, <1>3, UpdatesKeepRuns DEF Fails, FailsSearching, RecordsFailure, CrashInCompletion
<1>4. ASSUME NEW i \in Ids, Settles(i) \/ AsksUser(i)
      PROVE  SameRuns(run, run')
  <2>1. run' = run \/ run' = Progressed(run, i)
    BY <1>4 DEF Settles, AsksUser
  <2>2. SameRuns(run, Progressed(run, i))
    BY <1>0, UpdatesKeepRuns
  <2> QED BY <2>1, <2>2 DEF SameRuns
<1>5. ASSUME NEW i \in Ids, RemoteReturns(i) \/ Delegates(i) \/ Spawns(i) \/ LateEnds(i)
      PROVE  SameRuns(run, run')
  BY <1>5 DEF RemoteReturns, Delegates, Spawns, LateEnds, SameRuns
<1>6. ASSUME NEW i \in Ids, Ages(i)
      PROVE  SameRuns(run, run')
  BY <1>0, <1>6, UpdatesKeepRuns DEF Ages
<1>7. ASSUME NEW old, Cleanup(old)
      PROVE  SameRuns(run, run')
  BY <1>0, <1>7, UpdatesKeepRuns DEF Cleanup
<1>8. CASE Crash
  <2>1. PICK S : run' = ResetOrphans(Aged(run, S))
    BY <1>8 DEF Crash
  <2>2. Aged(run, S) \in Rows
    BY <1>0, SweepsTyped
  <2> QED BY <1>0, <2>1, <2>2, UpdatesKeepRuns, SameRunsTwice
<1>9. ASSUME NEW m \in Messages, ClearConversation(m)
      PROVE  SameRuns(run, run')
  BY <1>9 DEF ClearConversation, SameRuns
<1> QED BY <1>1, <1>2, <1>3, <1>4, <1>5, <1>6, <1>7, <1>8, <1>9 DEF Next, Advances

Executions == {i \in Ids : TopLevel(run, i)}

\* The ids that were given have places in the budgets of the executions: each a
\* place of its own, numbered no higher than the execution has counted as long
\* as it is busy.  A run belongs to the message of its execution.
Placed(place) ==
  /\ place \in [1 .. given -> Executions \X (1 .. MaxMessages)]
  /\ \A i, j \in 1 .. given : place[i] = place[j] => i = j
  /\ \A i \in Ids : run[i].status # "absent" =>
       i \in 1 .. given /\ run[i].message = run[place[i][1]].message
  /\ \A i \in Executions : place[i][1] = i
  /\ \A i \in Ids : Busy(i) => place[i][1] = Root(i)
  /\ \A r \in Ids : Busy(r) =>
       \A i \in 1 .. given : place[i][1] = r => place[i][2] <= task[r].count

\* No more executions have begun than the bound admits.
HasPlaces ==
  /\ \E place : Placed(place)
  /\ Cardinality(Executions) <= MaxAttempts

\* A task that goes on keeps its place, and so does the run that it gets.
LEMMA PlacesKept ==
  ASSUME TypeOK, AllFormed, GoOn, NEW place, Placed(place),
         \/ SameRuns(run, run')
         \/ \E i \in Ids : Starts(i)
  PROVE  Placed(place)' /\ Executions' = Executions
<1>0. given \in Nat /\ given' = given /\ run \in [Ids -> RunRow]
  BY DEF TypeOK, RunTypeOK, GoOn
<1>1. /\ Executions' = Executions
      /\ \A i \in Executions : run'[i].message = run[i].message
      /\ \A i \in Ids : run'[i].status # "absent" =>
           i \in 1 .. given /\ run'[i].message = run[place[i][1]].message
  <2>1. CASE SameRuns(run, run')
    BY <2>1 DEF SameRuns, Executions, TopLevel, Placed
  <2>2. ASSUME NEW i \in Ids, Starts(i)
        PROVE  <1>1!1 /\ <1>1!2 /\ <1>1!3
    <3>1. /\ Busy(i) /\ ~IsRoot(i) /\ task[i].parent \in Ids /\ i <= given
          /\ run' = Created(run, i, MessageOf(i), task[i].parent)
      BY <2>2 DEF Starts, Busy, AllFormed, Formed
    <3>2. place[i][1] = Root(i) /\ i \in 1 .. given
      BY <1>0, <3>1 DEF Placed, Ids
    <3>3. i \notin Executions
      BY <3>1, <3>2 DEF Placed, IsRoot
    <3>4. /\ run'[i].message = run[place[i][1]].message
          /\ run'[i].parent = task[i].parent /\ task[i].parent # None
          /\ \A j \in Ids : j # i => run'[j] = run[j]
      BY <1>0, <3>1, <3>2 DEF Created, MessageOf, Ids, None
    <3>5. Executions' = Executions
      BY <3>3, <3>4 DEF Executions, TopLevel
    <3>6. \A j \in Executions : run'[j].message = run[j].message
      BY <3>3, <3>4 DEF Executions
    <3>7. \A j \in Ids : run'[j].status # "absent" =>
            j \in 1 .. given /\ run'[j].message = run[place[j][1]].message
      BY <3>2, <3>4 DEF Placed
    <3> QED BY <3>5, <3>6, <3>7
  <2> QED BY <2>1, <2>2
<1>2. \A i \in 1 .. given : place[i][1] \in Executions
  BY DEF Placed
<1>3. \A i \in Ids : run'[i].status # "absent" =>
        i \in 1 .. given /\ run'[i].message = run'[place[i][1]].message
  BY <1>1, <1>2
<1>4. \A i \in Ids : task'[i].at # "none" =>
        Busy(i) /\ task'[i].root = task[i].root /\ task'[i].count = task[i].count
  BY DEF GoOn
<1> QED BY <1>0, <1>1, <1>3, <1>4 DEF Placed, Busy, Root


\* Each of finitely many has one of K places of its own.
LEMMA PlacesBound ==
  ASSUME NEW S, NEW T, IsFiniteSet(T), NEW K \in Nat, NEW f \in Injection(S, T \X (1 .. K))
  PROVE  IsFiniteSet(S) /\ Cardinality(S) <= K * Cardinality(T)
<1>1. IsFiniteSet(1 .. K) /\ Cardinality(1 .. K) = K
  BY FS_Interval
<1>2. IsFiniteSet(T \X (1 .. K)) /\ Cardinality(T \X (1 .. K)) = Cardinality(T) * K
  BY <1>1, FS_Product
<1>3. Cardinality(T) \in Nat
  BY FS_CardinalityType
<1>4. IsFiniteSet(S) /\ Cardinality(S) <= Cardinality(T) * K
  BY <1>2, FS_Injection
<1>5. Cardinality(T) * K = K * Cardinality(T)
  BY <1>3
<1> QED BY <1>4, <1>5

LEMMA ExecutionsFinite ==
  /\ IsFiniteSet(Ids) /\ IsFiniteSet(Executions)
  /\ Cardinality(Executions) \in Nat
<1>1. IsFiniteSet(Ids)
  BY RunsAssumption, FS_Interval DEF Ids
<1>2. Executions \subseteq Ids
  BY DEF Executions
<1>3. IsFiniteSet(Executions)
  BY <1>1, <1>2, FS_Subset
<1> QED BY <1>1, <1>3, FS_CardinalityType

\* No more ids are given than the executions' budgets have places.
LEMMA GivenFit ==
  ASSUME TypeOK, NEW place, Placed(place)
  PROVE  given <= MaxMessages * Cardinality(Executions)
<1>1. place \in Injection(1 .. given, Executions \X (1 .. MaxMessages))
  BY DEF Placed, Injection, IsInjective
<1>2. Cardinality(1 .. given) <= MaxMessages * Cardinality(Executions)
  BY <1>1, ExecutionsFinite, PlacesBound, DelegationAssumption
<1>3. Cardinality(1 .. given) = given
  BY FS_Interval DEF TypeOK
<1> QED BY <1>2, <1>3

LEMMA BeginPlaces ==
  ASSUME TypeOK, AllFormed, NEW place, Placed(place), NEW m \in Messages, Begin(m)
  PROVE  HasPlaces'
<1> DEFINE i == given + 1
           p == [k \in 1 .. i |-> IF k = i THEN <<i, 1>> ELSE place[k]]
<1>0. given \in Nat /\ run \in [Ids -> RunRow] /\ task \in [Ids -> Task]
  BY DEF TypeOK, RunTypeOK
<1>1. i <= MaxRuns
  <2> DEFINE n == Cardinality(Executions)
  <2>1. n \in Nat /\ n < MaxAttempts
    BY <1>0, ExecutionsFinite DEF Begin, Executions
  <2>2. given <= MaxMessages * n
    BY GivenFit
  <2> HIDE DEF n
  <2>3. MaxMessages * (n + 1) <= MaxMessages * MaxAttempts
    BY <2>1, DelegationAssumption
  <2>4. MaxMessages * (n + 1) = MaxMessages * n + MaxMessages /\ MaxMessages * n \in Nat
    BY <2>1, DelegationAssumption
  <2>5. MaxMessages * MaxAttempts = MaxAttempts * MaxMessages /\ MaxMessages >= 1
        /\ MaxMessages * MaxAttempts \in Nat
    BY DelegationAssumption
  <2>6. given + 1 <= MaxAttempts * MaxMessages
    BY <1>0, <2>2, <2>3, <2>4, <2>5, DelegationAssumption
  <2> QED BY <1>0, <2>5, <2>6, DelegationAssumption, RunsAssumption
<1>2. i \in Ids /\ i \notin 1 .. given /\ 1 \in 1 .. MaxMessages
  BY <1>0, <1>1, DelegationAssumption DEF Ids
<1>3. /\ run' = [run EXCEPT ![i] = [message |-> m, parent |-> None, status |-> "running",
                                    quiet |-> FALSE]]
      /\ given' = i
      /\ \E turns : task' = [task EXCEPT ![i] = NewExecution(i, turns)]
  BY DEF Begin, Created
<1>4. /\ \A k \in Ids : k # i => run'[k] = run[k] /\ task'[k] = task[k]
      /\ run'[i].message = m /\ run'[i].status = "running" /\ run'[i].parent = None
      /\ task'[i].root = i /\ task'[i].count = 1
  BY <1>0, <1>2, <1>3 DEF NewExecution
<1>5. Executions' = Executions \cup {i} /\ i \notin Executions
  <2>1. i \notin Executions
    BY <1>2 DEF Placed, Executions, TopLevel
  <2>2. \A k \in Ids : k \in Executions' <=> k \in Executions \/ k = i
    BY <1>4 DEF Executions, TopLevel
  <2> QED BY <1>2, <2>1, <2>2 DEF Executions
<1>6. \A k \in 1 .. i : k \in 1 .. given \/ k = i
  BY <1>0
<1>7. \A k \in 1 .. given : /\ k \in 1 .. i /\ k # i /\ place[k] \in Executions \X (1 .. MaxMessages)
                            /\ place[k][1] \in Executions /\ place[k][1] # i
  BY <1>0, <1>5 DEF Placed
<1>8. i \in 1 .. i
  BY <1>0
<1>9. p \in [1 .. i -> Executions' \X (1 .. MaxMessages)]
  <2>1. \A k \in 1 .. i : (IF k = i THEN <<i, 1>> ELSE place[k]) \in Executions' \X (1 .. MaxMessages)
    BY <1>2, <1>5, <1>6, <1>7
  <2> QED BY <2>1
<1>10. p[i] = <<i, 1>> /\ \A k \in 1 .. given : p[k] = place[k]
  BY <1>7, <1>8
<1> HIDE DEF p
<1>11. \A j, k \in 1 .. i : p[j] = p[k] => j = k
  BY <1>6, <1>7, <1>10 DEF Placed
<1>12. ASSUME NEW k \in Ids, run'[k].status # "absent"
       PROVE  k \in 1 .. i /\ run'[k].message = run'[p[k][1]].message
  <2>1. CASE k = i
    BY <1>8, <1>10, <2>1
  <2>2. CASE k # i
    <3>1. k \in 1 .. given /\ run[k].message = run[place[k][1]].message
      BY <1>4, <1>12, <2>2 DEF Placed
    <3>2. place[k][1] \in Ids /\ place[k][1] # i
      BY <1>7, <3>1 DEF Executions
    <3> QED BY <1>4, <1>7, <1>10, <2>2, <3>1, <3>2
  <2> QED BY <2>1, <2>2
<1>13. ASSUME NEW k \in Executions'
       PROVE  p[k][1] = k
  <2>1. CASE k = i
    BY <1>10, <2>1
  <2>2. CASE k # i
    <3>1. k \in Executions /\ k \in 1 .. given
      BY <1>5, <2>2 DEF Placed, Executions, TopLevel
    <3> QED BY <1>10, <3>1 DEF Placed
  <2> QED BY <2>1, <2>2
<1>14. ASSUME NEW k \in Ids, task'[k].at # "none"
       PROVE  p[k][1] = task'[k].root
  <2>1. CASE k = i
    BY <1>4, <1>10, <2>1
  <2>2. CASE k # i
    <3>1. Busy(k) /\ task'[k] = task[k] /\ k \in 1 .. given
      BY <1>0, <1>4, <1>14, <2>2 DEF Busy, AllFormed, Formed, Ids
    <3> QED BY <1>10, <3>1 DEF Placed, Root
  <2> QED BY <2>1, <2>2
<1>15. ASSUME NEW k \in Ids, task'[k].at # "none", NEW j \in 1 .. i, p[j][1] = k
       PROVE  p[j][2] <= task'[k].count
  <2>1. CASE j = i
    BY <1>4, <1>10, <1>15, <2>1
  <2>2. CASE j # i
    <3>1. j \in 1 .. given /\ place[j][1] = k /\ k # i
      BY <1>6, <1>7, <1>10, <1>15, <2>2
    <3>2. Busy(k) /\ task'[k] = task[k]
      BY <1>4, <1>15, <3>1 DEF Busy
    <3> QED BY <1>10, <3>1, <3>2 DEF Placed
  <2> QED BY <2>1, <2>2
<1>16. PICK q : q = p
  OBVIOUS
<1>17. Placed(q)'
  BY <1>3, <1>9, <1>11, <1>12, <1>13, <1>14, <1>15, <1>16 DEF Placed, Busy, Root
<1>18. Cardinality(Executions') <= MaxAttempts
  <2>1. Cardinality(Executions') = Cardinality(Executions) + 1
    BY <1>5, ExecutionsFinite, FS_AddElement
  <2>2. Cardinality(Executions) < MaxAttempts
    BY DEF Begin, Executions
  <2> QED BY <2>1, <2>2, ExecutionsFinite, DelegationAssumption
<1> QED BY <1>17, <1>18 DEF HasPlaces

LEMMA AsksPlaces ==
  ASSUME TypeOK, AllFormed, AllKin, HasPlaces, NEW place, Placed(place), run' = run,
         NEW i \in Ids, task[i].at = "parses", NEW n, NEW s, Asks(i, n, s)
  PROVE  HasPlaces'
<1> DEFINE r == Root(i)
           c == task[r].count
           p == [k \in 1 .. given + n |-> IF k \in 1 .. given THEN place[k]
                                          ELSE <<r, c + (k - given)>>]
<1>0. given \in Nat /\ task \in [Ids -> Task]
  BY DEF TypeOK
<1>1. /\ n \in Nat /\ given' = given + n
      /\ \A j \in Ids : j \in given + 1 .. given + n => task'[j].root = r
      /\ \A j \in Ids : j \notin given + 1 .. given + n =>
           /\ task'[j].at = IF j = i THEN "waits" ELSE task[j].at
           /\ task'[j].root = task[j].root
           /\ task'[j].count = IF j = r THEN c + n ELSE task[j].count
      /\ r \in Ids /\ c + n <= MaxMessages
  BY AsksCounted
<1>2. c \in Nat
  BY <1>0, <1>1 DEF Task
<1>3. Busy(i) /\ Busy(r) /\ \A j \in Ids : Busy(j) => j \in 1 .. given
  BY <1>0, <1>1 DEF Busy, AllKin, Kin, AllFormed, Formed, Ids
<1>4. r \in Executions
  BY <1>3 DEF Placed
<1> HIDE DEF r, c
<1>5. \A k \in 1 .. given + n :
        \/ k \in 1 .. given
        \/ k \in given + 1 .. given + n /\ k - given \in 1 .. n /\ k \notin 1 .. given
  BY <1>0, <1>1
<1>6. \A k \in 1 .. given : /\ k \in 1 .. given + n /\ k \notin given + 1 .. given + n
                            /\ place[k] \in Executions \X (1 .. MaxMessages)
                            /\ place[k][1] \in Executions /\ place[k][2] \in Nat
  BY <1>0, <1>1 DEF Placed
<1>7. \A k \in given + 1 .. given + n :
        k \in 1 .. given + n /\ k \notin 1 .. given /\ k - given \in 1 .. n
  BY <1>0, <1>1
<1>8. p \in [1 .. given + n -> Executions \X (1 .. MaxMessages)]
  <2>1. ASSUME NEW k \in 1 .. given + n, k \notin 1 .. given
        PROVE  <<r, c + (k - given)>> \in Executions \X (1 .. MaxMessages)
    <3>1. c + (k - given) \in 1 .. MaxMessages
      BY <1>1, <1>2, <1>5, <2>1, DelegationAssumption
    <3> QED BY <1>4, <3>1
  <2> QED BY <1>6, <2>1
<1>9. /\ \A k \in 1 .. given : p[k] = place[k]
      /\ \A k \in given + 1 .. given + n : p[k] = <<r, c + (k - given)>>
  BY <1>6, <1>7
<1> HIDE DEF p
<1>10. \A k \in 1 .. given : place[k][1] = r => place[k][2] <= c
  BY <1>1, <1>3 DEF Placed, c
<1>11. ASSUME NEW j \in 1 .. given + n, NEW k \in 1 .. given + n, p[j] = p[k]
       PROVE  j = k
  <2>1. CASE j \in 1 .. given /\ k \in 1 .. given
    BY <1>9, <1>11, <2>1 DEF Placed
  <2>2. CASE j \notin 1 .. given /\ k \notin 1 .. given
    BY <1>0, <1>2, <1>5, <1>9, <1>11, <2>2
  <2>3. ASSUME NEW old \in 1 .. given, NEW new \in given + 1 .. given + n
        PROVE  p[old] # p[new]
    <3>1. p[new][1] = r /\ p[new][2] = c + (new - given) /\ new - given \in 1 .. n
      BY <1>7, <1>9
    <3>2. p[old] = place[old] /\ place[old][2] \in Nat
      BY <1>6, <1>9
    <3> QED BY <1>2, <1>10, <3>1, <3>2
  <2> QED BY <1>5, <1>11, <2>1, <2>2, <2>3
<1>12. \A k \in Ids : run[k].status # "absent" =>
         k \in 1 .. given + n /\ run[k].message = run[p[k][1]].message
  BY <1>6, <1>9 DEF Placed
<1>13. \A k \in Executions : k \in 1 .. given /\ p[k][1] = k
  BY <1>9 DEF Placed, Executions, TopLevel
<1>14. ASSUME NEW k \in Ids, task'[k].at # "none"
       PROVE  p[k][1] = task'[k].root
  <2>1. CASE k \in given + 1 .. given + n
    BY <1>1, <1>9, <2>1
  <2>2. CASE k \notin given + 1 .. given + n
    <3>1. Busy(k) /\ task'[k].root = task[k].root
      BY <1>1, <1>3, <1>14, <2>2 DEF Busy
    <3> QED BY <1>3, <1>9, <3>1 DEF Placed, Root
  <2> QED BY <2>1, <2>2
<1>15. ASSUME NEW k \in Ids, task'[k].at # "none", NEW j \in 1 .. given + n, p[j][1] = k
       PROVE  p[j][2] <= task'[k].count
  <2>1. k \in Executions
    BY <1>5, <1>4, <1>6, <1>9, <1>15
  <2>2. k \notin given + 1 .. given + n
    BY <1>6, <1>13, <2>1
  <2>3. Busy(k) /\ task'[k].count = IF k = r THEN c + n ELSE task[k].count
    BY <1>1, <1>3, <1>15, <2>2 DEF Busy
  <2>4. CASE j \in 1 .. given
    <3>1. p[j][2] <= task[k].count /\ p[j][2] \in Nat
      BY <1>6, <1>9, <1>15, <2>3, <2>4 DEF Placed
    <3>2. task[k].count <= task'[k].count /\ task[k].count \in Nat /\ task'[k].count \in Nat
      <4>1. task[k].count \in Nat
        BY <1>0 DEF Task
      <4> QED BY <1>1, <1>2, <2>3, <4>1 DEF c
    <3> QED BY <3>1, <3>2
  <2>5. CASE j \in given + 1 .. given + n
    <3>1. k = r /\ p[j][2] = c + (j - given) /\ j - given \in 1 .. n
      BY <1>7, <1>9, <1>15, <2>5
    <3> QED BY <1>1, <1>2, <2>3, <3>1
  <2> QED BY <1>5, <2>4, <2>5
<1>16. Executions' = Executions
  BY DEF Executions, TopLevel
<1>17. PICK q : q = p
  OBVIOUS
<1>18. Placed(q)'
  BY <1>1, <1>8, <1>11, <1>12, <1>13, <1>14, <1>15, <1>16, <1>17 DEF Placed, Busy, Root
<1> QED BY <1>16, <1>18 DEF HasPlaces

LEMMA PlacesStay ==
  ASSUME TypeOK, AllFormed, CallersWait, AllKin, HasPlaces, Next
  PROVE  HasPlaces'
<1>1. PICK place : Placed(place)
  BY DEF HasPlaces
<1>2. ASSUME NEW m \in Messages, Begin(m)
      PROVE  HasPlaces'
  BY <1>1, <1>2, BeginPlaces
<1>3. ASSUME NEW i \in Ids, Delegates(i), task[i].at = "parses", NEW n, NEW s, Asks(i, n, s)
      PROVE  HasPlaces'
  <2>1. run' = run
    BY <1>3 DEF Delegates
  <2> QED BY <1>1, <1>3, <2>1, AsksPlaces
<1>4. CASE GoOn /\ (SameRuns(run, run') \/ \E i \in Ids : Starts(i))
  BY <1>1, <1>4, PlacesKept DEF HasPlaces
<1> QED BY <1>2, <1>3, <1>4, TaskSteps, RunSteps

\* Runs are at most as many as the places of the executions of their message.
LEMMA PlacesKeepBudget ==
  ASSUME TypeOK, HasPlaces
  PROVE  BudgetHolds
<1>1. PICK place : Placed(place)
  BY DEF HasPlaces
<1> SUFFICES ASSUME NEW m \in Messages
             PROVE  LET runs == {i \in Ids : run[i].status # "absent" /\ run[i].message = m}
                        executions == {i \in runs : TopLevel(run, i)}
                    IN  Cardinality(runs) <= MaxMessages * Cardinality(executions)
  BY DEF BudgetHolds
<1> DEFINE runs == {i \in Ids : run[i].status # "absent" /\ run[i].message = m}
           executions == {i \in runs : TopLevel(run, i)}
           f == [i \in runs |-> place[i]]
<1>2. IsFiniteSet(executions)
  <2>1. executions \in SUBSET Ids
    OBVIOUS
  <2> QED BY <2>1, ExecutionsFinite, FS_Subset
<1>3. ASSUME NEW i \in runs
      PROVE  i \in 1 .. given /\ place[i] \in executions \X (1 .. MaxMessages)
  <2>1. i \in 1 .. given /\ run[place[i][1]].message = m
    BY <1>1 DEF Placed
  <2>2. place[i] \in Executions \X (1 .. MaxMessages)
    BY <1>1, <2>1 DEF Placed
  <2>3. place[i][1] \in executions
    BY <2>1, <2>2 DEF Executions, TopLevel
  <2> QED BY <2>1, <2>2, <2>3
<1>4. \A i, j \in runs : place[i] = place[j] => i = j
  BY <1>1, <1>3 DEF Placed
<1> HIDE DEF runs, executions
<1>5. f \in Injection(runs, executions \X (1 .. MaxMessages))
  BY <1>3, <1>4 DEF Injection, IsInjective
<1>6. Cardinality(runs) <= MaxMessages * Cardinality(executions)
  BY <1>2, <1>5, PlacesBound, DelegationAssumption
<1> QED BY <1>6 DEF runs, executions

DelegationInv ==
  TypeOK /\ AllFormed /\ CallersWait /\ Reported(run, torn) /\ AllKin /\ HasPlaces

LEMMA DelegationInvHolds == Spec => []DelegationInv
<1>1. Init => DelegationInv
  <2> SUFFICES ASSUME Init
               PROVE  DelegationInv
    OBVIOUS
  <2>1. TypeOK
    BY RunsAreTyped, NoTaskTyped, DelegationAssumption DEF Init, TypeOK
  <2>2. AllFormed /\ CallersWait
    BY DEF Init, NoTask, AllFormed, Formed, CallersWait
  <2>3. Reported(run, torn)
    BY DEF Init, RunInit, NoRun, Reported, Replaces, TopLevel
  <2>4. AllKin
    BY DEF Init, NoTask, AllKin, Kin, Busy
  <2>5. HasPlaces
    <3> DEFINE p == [k \in 1 .. 0 |-> <<1, 1>>]
    <3>1. 1 .. given = 1 .. 0 /\ Executions = {}
      BY DEF Init, RunInit, NoRun, Executions, TopLevel
    <3>2. p \in [1 .. given -> Executions \X (1 .. MaxMessages)]
      BY <3>1
    <3> HIDE DEF p
    <3>3. Placed(p)
      BY <3>1, <3>2 DEF Init, RunInit, NoRun, NoTask, Placed, Busy
    <3>4. Cardinality(Executions) <= MaxAttempts
      BY <3>1, FS_EmptySet, DelegationAssumption
    <3> QED BY <3>3, <3>4 DEF HasPlaces
  <2> QED BY <2>1, <2>2, <2>3, <2>4, <2>5 DEF DelegationInv
<1>2. DelegationInv /\ [Next]_vars => DelegationInv'
  <2> SUFFICES ASSUME DelegationInv, [Next]_vars
               PROVE  DelegationInv'
    OBVIOUS
  <2>0. TypeOK /\ AllFormed /\ CallersWait /\ Reported(run, torn) /\ AllKin /\ HasPlaces
    BY DEF DelegationInv
  <2>1. CASE Next
    <3>1. RunTypeOK' /\ Reported(run, torn)'
      BY <2>0, <2>1, RunsStayTyped, ReportsStay
    <3>2. TaskOK' /\ AllFormed' /\ CallersWait'
      BY <2>0, <2>1, TasksStay DEF TasksInv
    <3>3. RestOK'
      BY <2>0, <2>1, RestStays
    <3>4. TypeOK'
      BY <3>1, <3>2, <3>3 DEF TypeOK, TaskOK, RestOK
    <3>5. AllKin' /\ HasPlaces'
      BY <2>0, <2>1, KinStays, PlacesStay
    <3> QED BY <3>1, <3>2, <3>4, <3>5 DEF DelegationInv
  <2>2. CASE UNCHANGED vars
    <3>1. (TypeOK /\ AllFormed /\ CallersWait /\ Reported(run, torn))'
      BY <2>0, <2>2 DEF vars, TypeOK, RunTypeOK, AllFormed, Formed, IsRoot, Root,
                        CallersWait, Reported, Replaces, TopLevel
    <3>2. AllKin' /\ HasPlaces'
      BY <2>0, <2>2 DEF vars, AllKin, Kin, Busy, IsRoot, Root,
                        HasPlaces, Placed, Executions, TopLevel
    <3> QED BY <3>1, <3>2 DEF DelegationInv
  <2> QED BY <2>1, <2>2
<1> QED BY <1>1, <1>2, PTL DEF Spec

-----------------------------------------------------------------------------
(* Theorems                                                                *)

\* Tasks, runs and entries are always what the store and the executor take
\* them to be, however deep and however wide agents delegate: no count passes
\* ACTOR_MAX_MESSAGES and no depth ACTOR_MAX_DEPTH.
THEOREM TypesHold == Spec => []TypeOK
<1>1. DelegationInv => TypeOK
  BY DEF DelegationInv
<1> QED BY <1>1, DelegationInvHolds, PTL

\* Whoever asked an agent waits until the agent's task is over, though an
\* invocation that was given up may outlive its task.
THEOREM CallersAlwaysWait == Spec => []CallersWait
<1>1. DelegationInv => CallersWait
  BY DEF DelegationInv
<1> QED BY <1>1, DelegationInvHolds, PTL

\* A run that was left behind is not reported as failed beside a later one of
\* its message that completed.
THEOREM ReplacedAreNotFailed == Spec => []ReplacedIsNotFailed
<1>1. DelegationInv => ReplacedIsNotFailed
  BY DEF DelegationInv, Reported, ReplacedIsNotFailed
<1> QED BY <1>1, DelegationInvHolds, PTL

\* An execution never has more runs than ACTOR_MAX_MESSAGES, its own included,
\* however many agents share its count, over however many turns and levels.
THEOREM BudgetsHold == Spec => []BudgetHolds
<1>1. DelegationInv => BudgetHolds
  BY PlacesKeepBudget DEF DelegationInv
<1> QED BY <1>1, DelegationInvHolds, PTL

IdsSuffice == given <= MaxRuns

\* The bound on runs never cuts a delegation short: no more ids are given than
\* the table has rows, with what the budget of every execution lets it start.
THEOREM IdsAlwaysSuffice == Spec => []IdsSuffice
<1>1. DelegationInv => IdsSuffice
  <2> SUFFICES ASSUME DelegationInv
               PROVE  given <= MaxRuns
    BY DEF IdsSuffice
  <2>1. TypeOK /\ Cardinality(Executions) <= MaxAttempts
    BY DEF DelegationInv, HasPlaces
  <2>2. given <= MaxMessages * Cardinality(Executions)
    BY GivenFit DEF DelegationInv, HasPlaces
  <2>3. MaxMessages * Cardinality(Executions) <= MaxMessages * MaxAttempts
    BY <2>1, ExecutionsFinite, DelegationAssumption
  <2>4. MaxMessages * MaxAttempts = MaxAttempts * MaxMessages
        /\ MaxMessages * MaxAttempts \in Nat
        /\ MaxMessages * Cardinality(Executions) \in Nat
    BY ExecutionsFinite, DelegationAssumption
  <2>5. given \in Nat
    BY <2>1 DEF TypeOK
  <2> QED BY <2>2, <2>3, <2>4, <2>5, DelegationAssumption, RunsAssumption
<1> QED BY <1>1, DelegationInvHolds, PTL

\* Whoever is busy is busy for an execution that is, which itself waits.
ExecutionsAttend ==
  \A i \in Ids : Busy(i) =>
    /\ IsRoot(Root(i)) /\ Busy(Root(i))
    /\ ~IsRoot(i) => task[Root(i)].at = "waits"

\* An execution neither answers, fails nor asks its user while a task it delegated
\* is open at any depth: it is busy, and waits.
THEOREM ExecutionsAlwaysAttend == Spec => []ExecutionsAttend
<1>1. DelegationInv => ExecutionsAttend
  BY ExecutionsWait DEF DelegationInv, ExecutionsAttend, AllKin, Kin
<1> QED BY <1>1, DelegationInvHolds, PTL
=============================================================================
