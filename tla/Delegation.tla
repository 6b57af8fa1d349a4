----------------------------- MODULE Delegation -----------------------------
(***************************************************************************)
(* How the executions of messages delegate work: the turns of              *)
(* src/src/queue/delegation.ts and delegation-executor.ts, the runs that   *)
(* record them, and the sweeps and restarts that meet them.                *)
(*                                                                         *)
(* An agent's response may mention agents; they are asked in parallel,     *)
(* each may mention others in turn, and the first agent is asked again     *)
(* with what they answered.  An invocation that outlives its timeout is    *)
(* given up and not stopped: it goes on reporting its progress.            *)
(*                                                                         *)
(* A task is one execution of a message or one of its delegations, and has *)
(* the id of its run.  An action is the code between two awaits.           *)
(***************************************************************************)
EXTENDS RunStore, Sequences

CONSTANTS
  Agents,       \* whom a response may mention
  Remotes,      \* those of another instance: they have no run here
  Mentions,     \* what a response may mention, in order
  MaxDepth,     \* ACTOR_MAX_DEPTH
  MaxMessages,  \* ACTOR_MAX_MESSAGES, the first one included
  MaxTurns,     \* ORCHESTRATOR_MAX_TURNS
  MaxPerAgent,  \* MAX_CONCURRENT_DELEGATIONS_PER_AGENT
  MaxAttempts,  \* executions of messages (bound)
  MaxCrashes    \* times the process is lost (bound)

ASSUME DelegationAssumption ==
  /\ Remotes \subseteq Agents
  /\ \A s \in Mentions : s \in Seq(Agents)
  /\ MaxDepth \in Nat /\ MaxMessages \in Nat \ {0} /\ MaxTurns \in Nat \ {0}
  /\ MaxPerAgent \in Nat /\ MaxAttempts \in Nat /\ MaxCrashes \in Nat
  /\ MaxRuns >= MaxAttempts * MaxMessages

VARIABLES
  task,     \* what the process knows of each of its executions
  given,    \* how many ids have been given
  active,   \* the keys of activeDelegations
  fate,     \* what became of each message in the queue
  torn,     \* messages whose completeRun was cut in two (history)
  crashes

vars == <<run, task, given, active, fate, torn, crashes>>

\* Where a task is: "asked" before the knowledge is searched, "held" before
\* its run is created, "works" while an agent is invoked, "parses" with a
\* response, "waits" for those it asked, "answers" before its message does.
Stages == {"none", "asked", "held", "works", "parses", "waits", "answers"}

\* count is messageCount and belongs to the execution's first task; turns is
\* what the re-entry loop has left; late says that an invocation which was
\* given up is still going on.
Task == [at : Stages, root : Ids \cup {None}, parent : Ids \cup {None},
         agent : Agents \cup {None}, depth : 0 .. MaxDepth, turns : 0 .. MaxTurns,
         count : 0 .. MaxMessages, late : BOOLEAN]

NoTask == [at |-> "none", root |-> None, parent |-> None, agent |-> None,
           depth |-> 0, turns |-> 0, count |-> 0, late |-> FALSE]

TypeOK ==
  /\ RunTypeOK
  /\ task \in [Ids -> Task]
  /\ given \in Nat
  /\ active \subseteq Messages \X Agents
  /\ fate \in [Messages -> {"open", "answered", "dead"}]
  /\ torn \subseteq Messages
  /\ crashes \in 0 .. MaxCrashes

Init ==
  /\ RunInit
  /\ task = [i \in Ids |-> NoTask] /\ given = 0
  /\ active = {} /\ torn = {} /\ crashes = 0
  /\ fate = [m \in Messages |-> "open"]

Root(i) == task[i].root
IsRoot(i) == Root(i) = i
MessageOf(i) == run[Root(i)].message
Key(i) == <<MessageOf(i), task[i].agent>>
IsRemote(i) == task[i].agent \in Remotes

At(i, stage) == [task EXCEPT ![i].at = stage]

\* What is left of a task whose invocation was given up: its callback.
Zombie(i) == [NoTask EXCEPT !.late = TRUE, !.root = Root(i)]

Gone(i) == [task EXCEPT ![i] = IF task[i].late THEN Zombie(i) ELSE NoTask]

NewTask(parent, agent) ==
  [at |-> "asked", root |-> Root(parent), parent |-> parent, agent |-> agent,
   depth |-> task[parent].depth + 1, turns |-> 1, count |-> 0, late |-> FALSE]

NewExecution(i, turns) ==
  [at |-> "works", root |-> i, parent |-> None, agent |-> None,
   depth |-> 0, turns |-> turns, count |-> 1, late |-> FALSE]

\* Mutant: what an asked agent asks in turn is not waited for.
ChildrenInvoked(i) ==
  {c \in Ids : task[c].parent = i /\ task[c].at \in {"asked", "held", "works", "parses"}}

\* Those a task asked and that are not over.
Children(i) == {c \in Ids : task[c].parent = i /\ task[c].at # "none"}

----------------------------------------------------------------------------
(* An execution of a message.  The queue may begin one while an earlier one  *)
(* of the same message is still busy (QueueProcessor says when).             *)

Begin(m) ==
  LET i == given + 1 IN
  /\ fate[m] = "open"
  /\ Cardinality({j \in Ids : TopLevel(run, j)}) < MaxAttempts
  /\ run' = Created(run, i, m, None)
  /\ \E turns \in {1, MaxTurns} :
       task' = [task EXCEPT ![i] = NewExecution(i, turns)]
  /\ given' = given + 1
  /\ UNCHANGED <<active, fate, torn, crashes>>

\* onProgress of a delegated agent, which calls the one of the execution;
\* neither asks whether what it reports of is over.
Progress(i) ==
  /\ task[i].at = "works" \/ task[i].late
  /\ ~IsRemote(i)
  /\ run' = Progressed(Progressed(run, i), Root(i))
  /\ UNCHANGED <<task, given, active, fate, torn, crashes>>

LateEnds(i) ==
  /\ task[i].late
  /\ task' = [task EXCEPT ![i] = IF task[i].at = "none" THEN NoTask
                                 ELSE [@ EXCEPT !.late = FALSE]]
  /\ UNCHANGED <<run, given, active, fate, torn, crashes>>

\* The invocation has a result.  A continuation of a delegated one may have been
\* given up, which leaves the result as it is.
Returns(i) ==
  /\ task[i].at = "works" /\ ~IsRemote(i)
  /\ \/ /\ IsRoot(i)
        /\ task' = At(i, "parses")
        /\ UNCHANGED run
     \/ /\ ~IsRoot(i)
        /\ \E late \in {task[i].late, TRUE} :
             task' = [task EXCEPT ![i].at = "parses", ![i].late = late]
        /\ run' = Completed(run, i)
  /\ UNCHANGED <<given, active, fate, torn, crashes>>

\* A remote agent answers, fails, or is given up.
RemoteReturns(i) ==
  /\ task[i].at = "works" /\ IsRemote(i)
  /\ task' = Gone(i)
  /\ active' = active \ {Key(i)}
  /\ UNCHANGED <<run, given, fate, torn, crashes>>

\* No more to delegate: the execution answers, a delegated agent's turn is over.
Concludes(i) ==
  IF IsRoot(i)
    THEN task' = At(i, "answers") /\ UNCHANGED active
    ELSE task' = Gone(i) /\ active' = active \ {Key(i)}

\* Mutant: a level too many.
RoomTooDeep(i) ==
  IF task[i].depth > MaxDepth THEN 0 ELSE MaxMessages - task[Root(i)].count

\* How many mentions the depth guard and the budget let through.
Room(i) ==
  IF task[i].depth >= MaxDepth THEN 0 ELSE MaxMessages - task[Root(i)].count

\* Mutant: the count is passed by value, so that each agent has its own.
CountedByValue(i, n) ==
  [task EXCEPT ![i].at = "waits", ![i].count = task[i].count + n]

\* messageCount.value += trimmedMentions.length, before the first await.
Counted(i, n) ==
  [task EXCEPT ![i].at = "waits", ![Root(i)].count = task[Root(i)].count + n]

\* executeDelegationTurn up to its search of the knowledge.
Delegates(i) ==
  /\ task[i].at = "parses"
  /\ \E s \in Mentions :
       LET n == IF Len(s) < Room(i) THEN Len(s) ELSE Room(i)
           New == given + 1 .. given + n
       IN  \/ n = 0 /\ Concludes(i) /\ UNCHANGED given
           \/ /\ n > 0
              /\ task' = [j \in Ids |-> IF j \in New THEN NewTask(i, s[j - given])
                                        ELSE Counted(i, n)[j]]
              /\ given' = given + n
              /\ UNCHANGED active
  /\ UNCHANGED <<run, fate, torn, crashes>>

Asked(i) == {c \in Ids : task[c].parent = i /\ task[c].at = "asked"}

\* The flood cap, as the sibling meets it: an earlier one that asks the same
\* agent has set the entry they share.
Accepted(i, c) ==
  LET before == {b \in Asked(i) : b < c /\ task[b].agent = task[c].agent}
      entries == IF before = {} THEN active ELSE active \cup {Key(c)}
  IN  Cardinality({e \in entries : e[2] = task[c].agent}) < MaxPerAgent

\* All the siblings, up to the first await of each.  Some may throw after they
\* have set their entry, which nothing takes back.
Spawns(i) ==
  /\ Asked(i) # {}
  /\ LET taken == {c \in Asked(i) : Accepted(i, c)} IN
     \E thrown \in SUBSET taken :
       /\ task' = [c \in Ids |->
                     IF c \in Asked(i) \ taken \/ c \in thrown THEN NoTask
                     ELSE IF c \in taken
                       THEN [task[c] EXCEPT !.at = IF IsRemote(c) THEN "works" ELSE "held"]
                     ELSE task[c]]
       /\ active' = active \cup {Key(c) : c \in taken}
  /\ UNCHANGED <<run, given, fate, torn, crashes>>

\* createRun, and the invocation.
Starts(i) ==
  /\ task[i].at = "held"
  /\ run' = Created(run, i, MessageOf(i), task[i].parent)
  /\ task' = At(i, "works")
  /\ UNCHANGED <<given, active, fate, torn, crashes>>

\* What a failure leaves: the run's status, taking a delegated agent's success
\* back, and the message's fate or the entry.
RecordsFailure(i) ==
  /\ run' = Written(run, i, "failed")
  /\ \/ /\ IsRoot(i)
        /\ \/ UNCHANGED fate
           \/ fate[MessageOf(i)] = "open" /\ fate' = [fate EXCEPT ![MessageOf(i)] = "dead"]
        /\ UNCHANGED active
     \/ /\ ~IsRoot(i)
        /\ active' = active \ {Key(i)}
        /\ UNCHANGED fate
  /\ UNCHANGED <<given, torn, crashes>>

\* An error, or a timeout that leaves the invocation to itself; what is done
\* with a result may fail too.
Fails(i) ==
  /\ task[i].at \in {"held", "works", "parses", "answers"} /\ ~IsRemote(i)
  /\ \E late \in {FALSE, task[i].at = "works"} :
       task' = [task EXCEPT ![i] = IF late THEN Zombie(i) ELSE Gone(i)[i]]
  /\ RecordsFailure(i)

\* The search of the knowledge throws: those that were counted, of whom none has
\* begun, are never asked.
FailsSearching(i) ==
  /\ task[i].at = "waits" /\ Asked(i) # {} /\ Asked(i) = Children(i)
  /\ task' = [j \in Ids |-> IF j \in Asked(i) THEN NoTask ELSE Gone(i)[j]]
  /\ RecordsFailure(i)

\* Promise.allSettled; an orchestrator is asked again with what it has got.
Settles(i) ==
  /\ task[i].at = "waits" /\ Children(i) = {}
  /\ IF IsRoot(i) /\ task[i].turns > 1
       THEN /\ task' = [task EXCEPT ![i].at = "works", ![i].turns = task[i].turns - 1]
            /\ run' = Progressed(run, i)
            /\ UNCHANGED active
       ELSE Concludes(i) /\ UNCHANGED run
  /\ UNCHANGED <<given, fate, torn, crashes>>

\* The agent asks its user: the run is left as it is until the user replies.
AsksUser(i) ==
  /\ task[i].at = "parses" /\ IsRoot(i) /\ task[i].count = 1
  /\ run' = Progressed(run, i)
  /\ task' = Gone(i)
  /\ UNCHANGED <<given, active, fate, torn, crashes>>

\* completeMessage and completeRun.
Delivers(i) ==
  /\ task[i].at = "answers"
  /\ fate' = [fate EXCEPT ![MessageOf(i)] = "answered"]
  /\ run' = Completed(run, i)
  /\ task' = Gone(i)
  /\ UNCHANGED <<given, active, torn, crashes>>

----------------------------------------------------------------------------
(* The processor around them.                                                *)

Ages(i) ==
  /\ run[i].status = "running" /\ ~run[i].quiet
  /\ run' = Aged(run, {i})
  /\ UNCHANGED <<task, given, active, fate, torn, crashes>>

\* The entries of old are past their two hours.
Cleanup(old) ==
  /\ active' = active \ old
  /\ run' = ResetOrphans(run)
  /\ UNCHANGED <<task, given, fate, torn, crashes>>

\* The user starts a new conversation while agents are busy with the old one.
ClearConversation(m) ==
  /\ active' = {e \in active : e[1] # m}
  /\ UNCHANGED <<run, task, given, fate, torn, crashes>>

Lost ==
  /\ crashes < MaxCrashes /\ crashes' = crashes + 1
  /\ task' = [i \in Ids |-> NoTask] /\ active' = {}

\* The process is lost; the next one comes at once, or late enough for the
\* store to give up what is running.
Crash ==
  /\ Lost
  /\ \E S \in {{}, Ids} : run' = ResetOrphans(Aged(run, S))
  /\ UNCHANGED <<given, fate, torn>>

\* It is lost after completeRun's first statement.
CrashInCompletion(i) ==
  /\ task[i].at = "answers"
  /\ Lost
  /\ fate' = [fate EXCEPT ![MessageOf(i)] = "answered"]
  /\ torn' = torn \cup {MessageOf(i)}
  /\ run' = Written(run, i, "completed")
  /\ UNCHANGED given

Advances(i) ==
  Returns(i) \/ RemoteReturns(i) \/ Delegates(i) \/ Spawns(i) \/ Starts(i)
  \/ Fails(i) \/ FailsSearching(i) \/ Settles(i) \/ AsksUser(i) \/ Delivers(i)

Next ==
  \/ \E m \in Messages : Begin(m) \/ ClearConversation(m)
  \/ \E i \in Ids : Advances(i) \/ Progress(i) \/ LateEnds(i) \/ Ages(i)
  \/ \E old \in SUBSET active : Cleanup(old)
  \/ Crash
  \/ \E i \in Ids : CrashInCompletion(i)

Spec == Init /\ [][Next]_vars

\* Promises resolve, invocations end or time out, time passes, and the
\* processor cleans up.  Progress and the queue are not asked to go on.
Fairness ==
  /\ \A i \in Ids : WF_vars(Advances(i)) /\ WF_vars(LateEnds(i)) /\ WF_vars(Ages(i))
  /\ WF_vars(Cleanup({}))

FairSpec == Spec /\ Fairness

----------------------------------------------------------------------------
(* Properties.                                                               *)

\* An execution never has more than ACTOR_MAX_MESSAGES runs, its own included,
\* however the agents that share the count interleave over turns and levels.
BudgetHolds ==
  \A m \in Messages :
    LET runs == {i \in Ids : run[i].status # "absent" /\ run[i].message = m}
        executions == {i \in runs : TopLevel(run, i)}
    IN  Cardinality(runs) <= MaxMessages * Cardinality(executions)

\* A message's run is not reported as failed, because it was left behind, beside
\* a later one of the message that completed: whichever of the completion, the
\* sweep, a restart and a late report comes first.
ReplacedIsNotFailed ==
  \A i, j \in Ids :
    Replaces(run, j, i) /\ run[i].message \notin torn => run[i].status # "orphaned"

\* No run stays 'running' for ever: late reports end and the sweep has the last
\* word, whatever happened to the execution.
RunsSettle == \A i \in Ids : <>[](run[i].status # "running")

\* Whoever asked waits: as long as the task of a delegated agent is not over, the
\* one that asked neither answers nor fails, up to the execution, so that no
\* message is answered while a result is still expected for it.  A task that was
\* given up is over, although its invocation may go on.
CallersWait ==
  \A i \in Ids :
    task[i].at # "none" /\ ~IsRoot(i) => task[task[i].parent].at = "waits"

\* What resetOrphans says it does (store.ts): no failure is reported for work
\* that completed.
SuccessIsReported ==
  \A i \in Ids :
    TopLevel(run, i) /\ fate[run[i].message] = "answered" => run[i].status # "orphaned"
=============================================================================
