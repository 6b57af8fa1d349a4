--------------------------- MODULE QueueProcessor ---------------------------
(***************************************************************************)
(* The message processor of src/src/queue/processor.ts over the queue of   *)
(* QueueDB: one serial promise chain per agent, a bounded pool of thread   *)
(* executions, immediate executions called by the HTTP and chat layers,    *)
(* suspension for a user's reply, the orphan sweep, graceful drain, and    *)
(* crash and restart of the process.                                       *)
(*                                                                         *)
(* JavaScript runs a handler without interruption up to its next await, so *)
(* one action is one such stretch.  A crash can still fall between two     *)
(* database commits of a stretch: the Crash* actions run a prefix of the   *)
(* commits and then lose the process.                                      *)
(***************************************************************************)
EXTENDS QueueDB

CONSTANTS
  MsgKind,       \* how each message arrives and what its text is
  MaxThreads,    \* maxConcurrentThreads
  Silent,        \* messages whose executions may go a tick without reporting
  Rereply,       \* messages that may be replied to when no question is open
  MaxLinks,      \* bound: chain links of one agent that have not begun
  MaxImmediate,  \* bound: immediate executions of one message at once
  MaxCrashes     \* bound: times the process goes down

ASSUME ProcessorAssumption ==
  /\ MsgKind \in [Messages -> {"queued", "command", "immediate", "team"}]
  /\ MaxThreads \in Nat \ {0} /\ MaxLinks \in Nat \ {0}
  /\ MaxImmediate \in Nat \ {0} /\ MaxCrashes \in Nat
  /\ Silent \subseteq Messages /\ Rereply \subseteq Messages

VARIABLES
  phase,          \* "down", "running", "draining", "drained" or "timed_out"
  agentChains,    \* agents that have an entry in the agentChains map
  links,          \* per agent, queued chain links that have not begun
  slot,           \* what an agent's chain, or a thread's pool entry, executes
  activeThreads,  \* activeThreadCount
  immediate,      \* per message, immediate executions under way
  replying,       \* per message, replies found suspended but not applied yet
  crashes         \* times the process went down

procVars == <<phase, agentChains, links, slot, activeThreads, immediate, replying, crashes>>
vars == <<dbVars, procVars>>

Slots == Agents \cup Threads

Live(m) == immediate[m] > 0 \/ \E s \in Slots : slot[s] = m

TypeOK ==
  /\ DbTypeOK
  /\ phase \in {"down", "running", "draining", "drained", "timed_out"}
  /\ agentChains \subseteq Agents
  /\ links \in [Agents -> 0..MaxLinks]
  /\ slot \in [Slots -> Messages \cup {Nothing}]
  /\ activeThreads \in Int
  /\ immediate \in [Messages -> 0..MaxImmediate]
  /\ replying \in [Messages -> 0..1]
  /\ crashes \in Nat

Init ==
  /\ DbInit
  /\ phase = "down"
  /\ agentChains = {}
  /\ links = [a \in Agents |-> 0]
  /\ slot = [s \in Slots |-> Nothing]
  /\ activeThreads = 0
  /\ immediate = [m \in Messages |-> 0]
  /\ replying = [m \in Messages |-> 0]
  /\ crashes = 0

-----------------------------------------------------------------------------
(* processNext.  It runs on every poll, and inside every enqueue, because  *)
(* the "message-enqueued" listener calls it synchronously.                 *)

\* threadPool.keys(): the threads the pool is executing.
ActiveThreadIds == {t \in Threads : slot[t] # Nothing}

\* A link is appended for every agent with a pending message, however many
\* it has waiting already; MaxLinks bounds them.
AppendLinks(rows) ==
  LET busy == {a \in Agents : ClaimableBy(rows, a) # {}} IN
  /\ agentChains' = agentChains \cup busy
  /\ links' = [a \in Agents |->
                IF a \in busy /\ links[a] < MaxLinks THEN links[a] + 1 ELSE links[a]]

\* Mutant: the pool admits one execution too many.
ProcessNextOneMore(rows) ==
  LET claimable == IF activeThreads <= MaxThreads
                     THEN ClaimableThread(rows, ActiveThreadIds) ELSE {}
  IN /\ AppendLinks(rows)
     /\ \/ claimable = {} /\ row' = rows /\ UNCHANGED <<slot, activeThreads>>
        \/ \E m \in First(rows, claimable) :
             /\ row' = Claimed(rows, m)
             /\ slot' = [slot EXCEPT ![MsgThread[m]] = m]
             /\ activeThreads' = activeThreads + 1

\* Claims at most one thread message, then extends the chains; rows is the
\* messages table as the caller has just left it.
ProcessNext(rows) ==
  LET claimable == IF activeThreads < MaxThreads
                     THEN ClaimableThread(rows, ActiveThreadIds) ELSE {}
  IN /\ AppendLinks(rows)
     /\ \/ /\ claimable = {}
           /\ row' = rows
           /\ UNCHANGED <<slot, activeThreads>>
        \/ \E m \in First(rows, claimable) :
             /\ row' = Claimed(rows, m)
             /\ slot' = [slot EXCEPT ![MsgThread[m]] = m]
             /\ activeThreads' = activeThreads + 1

\* Mutant: the listener does not check running.
OnEnqueuedAlways(rows) == ProcessNext(rows)

\* The listener on "message-enqueued": it checks running.
OnEnqueued(rows) ==
  \/ phase = "running" /\ ProcessNext(rows)
  \/ /\ phase # "running"
     /\ row' = rows
     /\ UNCHANGED <<agentChains, links, slot, activeThreads>>

Poll ==
  /\ phase = "running"
  /\ ProcessNext(row)
  /\ UNCHANGED <<asked, askedAge, resp, phase, immediate, replying, crashes>>

\* enqueueMessage from a channel, a route, a scheduler or a delegation.
Enqueue(m) ==
  /\ phase # "down" /\ row[m].status = "absent"
  /\ MsgKind[m] \in {"queued", "command"}
  /\ OnEnqueued(Inserted(row, m, "pending"))
  /\ UNCHANGED <<asked, askedAge, resp, phase, immediate, replying, crashes>>

\* processImmediate and processTeamImmediate insert the row 'processing', once
\* the text is screened and routed and the knowledge search has answered.
EnqueueImmediate(m) ==
  /\ phase # "down" /\ row[m].status = "absent"
  /\ MsgKind[m] \in {"immediate", "team"}
  /\ immediate' = [immediate EXCEPT ![m] = 1]
  /\ OnEnqueued(Inserted(row, m, "processing"))
  /\ UNCHANGED <<asked, askedAge, resp, phase, replying, crashes>>

\* The head link of an agent's chain begins: claimMessage, or nothing to do.
\* It does not ask whether the processor is still running.
StartLink(a) ==
  /\ phase # "down" /\ links[a] > 0 /\ slot[a] = Nothing
  /\ links' = [links EXCEPT ![a] = @ - 1]
  /\ \/ /\ ClaimableBy(row, a) = {}
        /\ UNCHANGED <<row, slot>>
     \/ \E m \in First(row, ClaimableBy(row, a)) :
          /\ row' = Claimed(row, m)
          /\ slot' = [slot EXCEPT ![a] = m]
  /\ UNCHANGED <<asked, askedAge, resp, phase, agentChains, activeThreads,
                 immediate, replying, crashes>>

-----------------------------------------------------------------------------
(* How an execution of m ends.  k is how many of its commits, in the       *)
(* code's order, have reached the database.                                *)

Clear(m) ==
  /\ asked' = [asked EXCEPT ![m] = "none"]
  /\ askedAge' = [askedAge EXCEPT ![m] = 0]

Keep == UNCHANGED <<asked, askedAge>>

\* Mutant: the row is completed before the answer is stored.
AnswerCompletesFirst(m, k) ==
  /\ row' = IF k >= 1 THEN [row EXCEPT ![m] = Moved(@, "completed")] ELSE row
  /\ resp' = IF k >= 2 THEN Stored(resp, m, "answer") ELSE resp
  /\ IF k >= 3 THEN Clear(m) ELSE Keep

\* processForAgent: enqueueResponse, clearSuspendedMessage, completeMessage.
Answer(m, k) ==
  /\ resp' = IF k >= 1 THEN Stored(resp, m, "answer") ELSE resp
  /\ IF k >= 2 THEN Clear(m) ELSE Keep
  /\ row' = IF k >= 3 THEN [row EXCEPT ![m] = Moved(@, "completed")] ELSE row

\* processImmediate: clearSuspendedMessage, completeMessage, enqueueResponse.
AnswerImmediate(m, k) ==
  /\ IF k >= 1 THEN Clear(m) ELSE Keep
  /\ row' = IF k >= 2 THEN [row EXCEPT ![m] = Moved(@, "completed")] ELSE row
  /\ resp' = IF k >= 3 THEN Stored(resp, m, "answer") ELSE resp

\* suspendMessageRun (one transaction), then enqueueResponse of the question.
\* A row that was deleted would violate the foreign key.
Ask(m, k) ==
  /\ row[m].status # "deleted"
  /\ row' = [row EXCEPT ![m] = Moved(@, "suspended")]
  /\ asked' = [asked EXCEPT ![m] = "waiting"]
  /\ askedAge' = [askedAge EXCEPT ![m] = 0]
  /\ resp' = IF k >= 2 THEN Stored(resp, m, "interim") ELSE resp

\* The catch block: clearSuspendedMessage, the two UPDATEs of failMessage,
\* enqueueResponse.
Fail(m, maxRetries, k) ==
  /\ IF k >= 1 THEN Clear(m) ELSE Keep
  /\ row' = IF k >= 3 THEN [row EXCEPT ![m] = Failed(@, maxRetries)]
            ELSE IF k = 2 THEN [row EXCEPT ![m] = FailedUndeferred(@, maxRetries)]
            ELSE row
  /\ resp' = IF k >= 4 THEN Stored(resp, m, "interim") ELSE resp

\* A handled command stores its response and returns; the row is not touched.
HandleCommand(m) ==
  /\ MsgKind[m] = "command"
  /\ resp' \in {resp, Stored(resp, m, "interim")}
  /\ UNCHANGED <<row, asked, askedAge>>

\* processThreadMessage: the message names an agent that is not configured.
RejectUnknownAgent(m) ==
  /\ row' = [row EXCEPT ![m] = Failed(@, Attempts)]
  /\ UNCHANGED <<asked, askedAge, resp>>

KnownAgent(m) == MsgAgent[m] \in Agents \cup {Nothing}

-----------------------------------------------------------------------------
(* Executions of a chain or of the thread pool.                            *)

\* From the claim to its end an execution gathers context, builds the prompt and
\* waits for the agent; of the state modelled here it touches updated_at only
\* (Tick), until one of the stretches below ends it.
Executing(s) == phase # "down" /\ slot[s] # Nothing

\* The promise settles: the next link may begin, or the finally handler
\* gives the pool entry back.
Leave(s) ==
  /\ slot' = [slot EXCEPT ![s] = Nothing]
  /\ activeThreads' = IF s \in Threads THEN activeThreads - 1 ELSE activeThreads
  /\ UNCHANGED <<phase, agentChains, links, immediate, replying, crashes>>

SlotAnswers(s) ==
  Executing(s) /\ KnownAgent(slot[s]) /\ Answer(slot[s], 3) /\ Leave(s)

SlotAsks(s) ==
  Executing(s) /\ KnownAgent(slot[s]) /\ Ask(slot[s], 2) /\ Leave(s)

\* isTransientError decides between three attempts and none.
SlotFails(s) ==
  /\ Executing(s) /\ KnownAgent(slot[s])
  /\ \E maxRetries \in {0, Attempts} : Fail(slot[s], maxRetries, 4)
  /\ Leave(s)

SlotHandlesCommand(s) ==
  Executing(s) /\ KnownAgent(slot[s]) /\ HandleCommand(slot[s]) /\ Leave(s)

SlotRejects(s) ==
  Executing(s) /\ ~KnownAgent(slot[s]) /\ RejectUnknownAgent(slot[s]) /\ Leave(s)

FinishSlot(s) ==
  SlotAnswers(s) \/ SlotAsks(s) \/ SlotFails(s) \/ SlotHandlesCommand(s) \/ SlotRejects(s)

-----------------------------------------------------------------------------
(* Immediate executions.                                                   *)

LeaveImmediate(m) ==
  /\ immediate' = [immediate EXCEPT ![m] = @ - 1]
  /\ UNCHANGED <<phase, agentChains, links, slot, activeThreads, replying, crashes>>

\* As Executing, for a call that waits for its answer.
ExecutingImmediate(m) == phase # "down" /\ immediate[m] > 0

\* processTeamImmediate executes it; what a reply resumes is no team's any more.
ByTeam(m) == MsgKind[m] = "team" /\ asked[m] # "answered"

ImmediateAnswers(m) ==
  /\ ExecutingImmediate(m) /\ ~ByTeam(m)
  /\ AnswerImmediate(m, 3) /\ LeaveImmediate(m)

ImmediateAsks(m) ==
  /\ ExecutingImmediate(m) /\ ~ByTeam(m)
  /\ Ask(m, 2) /\ LeaveImmediate(m)

\* Two attempts for a transient error, so a first failure goes to the poll loop.
ImmediateFails(m) ==
  /\ ExecutingImmediate(m) /\ ~ByTeam(m)
  /\ \E maxRetries \in {0, 2} : Fail(m, maxRetries, 4)
  /\ LeaveImmediate(m)

\* processTeamImmediate completes the row; the caller gets the answer.
TeamCompletes(m) ==
  /\ ExecutingImmediate(m) /\ ByTeam(m)
  /\ row' = [row EXCEPT ![m] = Moved(@, "completed")]
  /\ UNCHANGED <<asked, askedAge, resp>>
  /\ LeaveImmediate(m)

\* An exception outside the try: a team member's, or one thrown between a
\* reply's resume and the try.  Nothing resets the row.
ImmediateThrows(m) ==
  /\ ExecutingImmediate(m) /\ (ByTeam(m) \/ asked[m] = "answered")
  /\ UNCHANGED dbVars /\ LeaveImmediate(m)

FinishImmediate(m) ==
  \/ ImmediateAnswers(m) \/ ImmediateAsks(m) \/ ImmediateFails(m)
  \/ TeamCompletes(m) \/ ImmediateThrows(m)

-----------------------------------------------------------------------------
(* Replies to a question.                                                  *)

\* QueueDB.resumeSuspendedMessage looks at suspended_runs, not at the status.
Resumed(m) ==
  /\ asked' = [asked EXCEPT ![m] = "answered"]
  /\ UNCHANGED <<askedAge, resp>>
  /\ row[m].status # "deleted"

\* A reply that names the message: any message with a suspended_runs row will
\* do.  The users of the messages outside Rereply reply once.
MayReply(m) ==
  /\ phase # "down" /\ asked[m] # "none"
  /\ m \in Rereply \/ (row[m].status = "suspended" /\ replying[m] = 0)

\* POST /:id/reply with async: back to 'pending', which wakes the processor.
ReplyAsync(m) ==
  /\ MayReply(m)
  /\ Resumed(m)
  /\ OnEnqueued([row EXCEPT ![m] = Moved(@, "pending")])
  /\ UNCHANGED <<phase, immediate, replying, crashes>>

\* The synchronous reply looks the message up here ...
ReplySync(m) ==
  /\ MayReply(m) /\ replying[m] = 0
  /\ replying' = [replying EXCEPT ![m] = 1]
  /\ UNCHANGED <<dbVars, phase, agentChains, links, slot, activeThreads, immediate, crashes>>

\* ... and applies the reply after it has awaited the knowledge search.
ApplyReply(m) ==
  /\ phase # "down" /\ replying[m] = 1 /\ asked[m] # "none"
  /\ immediate[m] < MaxImmediate
  /\ Resumed(m)
  /\ row' = [row EXCEPT ![m] = Moved(@, "processing")]
  /\ immediate' = [immediate EXCEPT ![m] = @ + 1]
  /\ replying' = [replying EXCEPT ![m] = 0]
  /\ UNCHANGED <<phase, agentChains, links, slot, activeThreads, crashes>>

\* The reply is a blocked text, a command, a proposal verdict or a team
\* message, or its suspended_runs row has gone: it is never applied.
DropReply(m) ==
  /\ phase # "down" /\ replying[m] = 1
  /\ replying' = [replying EXCEPT ![m] = 0]
  /\ UNCHANGED <<dbVars, phase, agentChains, links, slot, activeThreads, immediate, crashes>>

\* The user's next chat message in the conversation is taken for the reply,
\* unless the question has timed out.  The resume comes before the text is
\* screened, so a text handled as a command starts no execution.
ReplyInConversation(m) ==
  /\ phase # "down" /\ row[m].status = "suspended" /\ asked[m] # "none"
  /\ askedAge[m] < InputTimeout
  /\ m \in Rereply \/ replying[m] = 0
  /\ Resumed(m)
  /\ row' = [row EXCEPT ![m] = Moved(@, "processing")]
  /\ \/ /\ immediate[m] < MaxImmediate
        /\ immediate' = [immediate EXCEPT ![m] = @ + 1]
     \/ UNCHANGED immediate
  /\ UNCHANGED <<phase, agentChains, links, slot, activeThreads, replying, crashes>>

-----------------------------------------------------------------------------
(* cleanExpiredState: expire questions, then sweep orphans.                *)

Expired(rows) ==
  [m \in Messages |->
     IF m \in TimedOut(rows, askedAge) THEN Moved(rows[m], "failed") ELSE rows[m]]

\* "Timed out waiting for your reply", enqueued for each message in S.
Notified(S) ==
  [m \in Messages |-> IF m \in S /\ resp[m] = "none" THEN "interim" ELSE resp[m]]

\* Mutant: the sweep's minimum age is dropped.
CleanupNoMinAge ==
  /\ phase = "running"
  /\ row' = ResetOrphans(Expired(row), SweepAge, 0)
  /\ UNCHANGED <<asked, askedAge, resp, procVars>>

\* Mutant: the sweep also purges suspended_runs that have been answered.
CleanupPurgesReplies ==
  /\ phase = "running"
  /\ row' = ResetOrphans(Expired(row), SweepAge, MinAge)
  /\ asked' = [m \in Messages |-> IF asked[m] = "answered" THEN "none" ELSE asked[m]]
  /\ UNCHANGED <<askedAge, resp, procVars>>

\* Mutant: questions do not expire.
CleanupNoExpiry ==
  /\ phase = "running"
  /\ row' = ResetOrphans(row, SweepAge, MinAge)
  /\ UNCHANGED <<asked, askedAge, resp, procVars>>

\* Mutant: orphans are reset at startup only.
CleanupNoSweep ==
  /\ phase = "running"
  /\ row' = Expired(row)
  /\ UNCHANGED <<asked, askedAge, resp, procVars>>

Cleanup ==
  /\ phase = "running"
  /\ row' = ResetOrphans(Expired(row), SweepAge, MinAge)
  /\ resp' = Notified(TimedOut(row, askedAge))
  /\ UNCHANGED <<asked, askedAge, procVars>>

-----------------------------------------------------------------------------
(* Time, crash, restart, drain.                                            *)

\* onProgress refreshes updated_at when there is news, so that an execution that
\* reports during a tick leaves its row no older than before.  One whose agent
\* says nothing new, or is called through the SDK, reports nothing at all.
Older(age, max) == IF age < max THEN age + 1 ELSE age

\* Only columns some later query reads are aged.
Aged(r, reported) ==
  IF r.status \in {"pending", "processing", "suspended", "failed"}
    THEN [r EXCEPT
            !.created = Older(@, WallAge + 1),
            !.updated = IF reported THEN 0
                        ELSE IF r.status = "processing" THEN Older(@, SweepAge + 1)
                        ELSE @]
    ELSE r

Tick ==
  /\ \E reported \in SUBSET {m \in Messages : Live(m)} :
       /\ \A m \in Messages \ Silent : Live(m) => m \in reported
       /\ row' = [m \in Messages |-> Aged(row[m], m \in reported)]
  /\ askedAge' = [m \in Messages |->
       IF row[m].status = "suspended" THEN Older(askedAge[m], InputTimeout) ELSE askedAge[m]]
  /\ <<row, askedAge>>' # <<row, askedAge>>
  /\ UNCHANGED <<asked, resp, procVars>>

\* Everything the process held in memory is gone.
LoseProcess ==
  /\ phase' = "down"
  /\ agentChains' = {}
  /\ links' = [a \in Agents |-> 0]
  /\ slot' = [s \in Slots |-> Nothing]
  /\ activeThreads' = 0
  /\ immediate' = [m \in Messages |-> 0]
  /\ replying' = [m \in Messages |-> 0]
  /\ crashes' = crashes + 1

Crash ==
  /\ phase # "down" /\ crashes < MaxCrashes
  /\ UNCHANGED dbVars /\ LoseProcess

\* A crash between two commits of an execution's last stretch.
CrashInSlot(s) ==
  /\ Executing(s) /\ KnownAgent(slot[s]) /\ crashes < MaxCrashes
  /\ \/ \E k \in 1..2 : Answer(slot[s], k)
     \/ Ask(slot[s], 1)
     \/ \E maxRetries \in {0, Attempts}, k \in 1..3 : Fail(slot[s], maxRetries, k)
  /\ LoseProcess

CrashInImmediate(m) ==
  /\ ExecutingImmediate(m) /\ ~ByTeam(m) /\ crashes < MaxCrashes
  /\ \/ \E k \in 1..2 : AnswerImmediate(m, k)
     \/ Ask(m, 1)
     \/ \E maxRetries \in {0, 2}, k \in 1..3 : Fail(m, maxRetries, k)
  /\ LoseProcess

\* A crash after the questions expired and before all their users were told.
CrashInCleanup ==
  /\ phase = "running" /\ crashes < MaxCrashes /\ TimedOut(row, askedAge) # {}
  /\ row' = Expired(row)
  /\ \E told \in SUBSET TimedOut(row, askedAge) : resp' = Notified(told)
  /\ UNCHANGED <<asked, askedAge>>
  /\ LoseProcess

\* start(): every 'processing' row is an orphan; the loop's first processNext
\* follows in the same stretch.
Start ==
  /\ phase = "down"
  /\ phase' = "running"
  /\ ProcessNext(ResetOrphans(row, MinAge, 0))
  /\ UNCHANGED <<asked, askedAge, resp, immediate, replying, crashes>>

\* drain(): clear running, then wait for the chains and the pool.
Drain ==
  /\ phase = "running" /\ crashes < MaxCrashes
  /\ phase' = "draining"
  /\ UNCHANGED <<dbVars, agentChains, links, slot, activeThreads, immediate, replying, crashes>>

DrainCompletes ==
  /\ phase = "draining"
  /\ \A a \in Agents : links[a] = 0
  /\ \A s \in Slots : slot[s] = Nothing
  /\ phase' = "drained"
  /\ UNCHANGED <<dbVars, agentChains, links, slot, activeThreads, immediate, replying, crashes>>

DrainTimesOut ==
  /\ phase = "draining"
  /\ phase' = "timed_out"
  /\ UNCHANGED <<dbVars, agentChains, links, slot, activeThreads, immediate, replying, crashes>>

\* The shutdown sequence ends in process.exit.
Exit ==
  /\ phase \in {"drained", "timed_out"}
  /\ UNCHANGED dbVars /\ LoseProcess

\* A REST route on the queue.
ClearRows ==
  /\ phase # "down"
  /\ \E S \in SUBSET Messages : ClearDeadLetters(S) \/ ClearFailed(S)
  /\ UNCHANGED procVars

-----------------------------------------------------------------------------
MessageStep(m) ==
  \/ Enqueue(m) \/ EnqueueImmediate(m) \/ FinishImmediate(m)
  \/ ReplyAsync(m) \/ ReplySync(m) \/ ApplyReply(m) \/ DropReply(m)
  \/ ReplyInConversation(m) \/ CrashInImmediate(m)

Next ==
  \/ Poll \/ Cleanup \/ Tick \/ Crash \/ CrashInCleanup \/ Start
  \/ Drain \/ DrainCompletes \/ DrainTimesOut \/ Exit \/ ClearRows
  \/ \E a \in Agents : StartLink(a)
  \/ \E s \in Slots : FinishSlot(s) \/ CrashInSlot(s)
  \/ \E m \in Messages : MessageStep(m)

Spec == Init /\ [][Next]_vars

\* The event loop keeps polling and sweeping, queued microtasks run, every
\* invocation races a timeout, the clock advances, and a process that went
\* down is started again.  Users, drains and crashes owe nothing.
Fairness ==
  /\ WF_vars(Start) /\ WF_vars(Poll) /\ WF_vars(Cleanup) /\ WF_vars(Tick)
  /\ WF_vars(DrainTimesOut) /\ WF_vars(Exit)
  /\ \A a \in Agents : WF_vars(StartLink(a))
  /\ \A s \in Slots : WF_vars(FinishSlot(s))
  /\ \A m \in Messages : WF_vars(FinishImmediate(m))

FairSpec == Spec /\ Fairness

-----------------------------------------------------------------------------
(* Properties.                                                             *)

\* Nothing executes while the process is down.
DownIsDead ==
  phase = "down" => \A m \in Messages : ~Live(m) /\ replying[m] = 0

\* activeThreadCount is the number of pool entries and never passes the
\* limit, however executions end.
PoolAccounting ==
  /\ activeThreads = Cardinality(ActiveThreadIds)
  /\ activeThreads <= MaxThreads

\* Once drain() has reported success no chain and no pool entry starts work
\* again, whatever is still enqueued while the process shuts down.
DrainedStaysIdle ==
  phase = "drained" => /\ \A s \in Slots : slot[s] = Nothing
                       /\ \A a \in Agents : links[a] = 0

\* A user's reply is taken away only by an execution that was there to read it:
\* restarts, sweeps, expiries and further replies keep it for the next attempt.
ReplySurvives ==
  [][\A m \in Messages :
       asked[m] = "answered" /\ asked'[m] # "answered" => Live(m)]_vars

\* What the comment at the sweep says: a message that is actively being processed
\* is not put back to 'pending' for another execution.
SweepSparesLive ==
  [][\A m \in Messages :
       Live(m) /\ row[m].status = "processing" /\ row'[m].status = "pending"
         => ~Live(m)']_vars

\* Some configured executor claims the message: an unclaimed name in the agent
\* column of a message without a thread would leave it 'pending' for good.
Servable(m) == MsgThread[m] # Nothing \/ \E a \in Agents :
                 MsgAgent[m] = a \/ (a \in Leads /\ MsgAgent[m] = Nothing)

Unsettled(m) == row[m].status \in {"pending", "processing"}

\* A reply is applied, to an open question or otherwise.
Replies(m) == ReplyAsync(m) \/ ApplyReply(m) \/ ReplyInConversation(m)

\* From some moment on users reply no more.  (A repeated reply that finds its
\* message 'pending' does what a poll does, or a sweep, and may look like one.)
RepliesCease ==
  <>[][\A m \in Messages : Replies(m) => Poll \/ Cleanup]_vars

\* Every accepted message ends or waits for its user, across crashes, retries,
\* sweeps and rows nobody is working on any more.  A user who answers question
\* after question can keep a full pool from a message for ever: a place that is
\* given back is not offered before the next poll, and the reply may come first.
EverythingSettles ==
  RepliesCease => \A m \in Messages : Servable(m) => (Unsettled(m) ~> ~Unsettled(m))
=============================================================================
