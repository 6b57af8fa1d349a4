# A TLA+ model of NyxHive's message queue and what works around it

NyxHive (`src/`) is an agent runtime: people and other programs send messages,
the messages wait in a SQLite queue, and a processor runs an agent on each of
them, possibly stopping to ask the user a question. Around the queue, users
steer agents that are at work, agents ask other agents, agents propose changes
that are reviewed, approved and executed, and a scheduler starts tasks. This
project models these parts, checks the models with TLC, and proves the main
safety properties with TLAPS.

Paths are relative to the repository. `db.ts`, `processor.ts`, `steers.ts`,
`delegation.ts` and `delegation-executor.ts` are in `src/src/queue/`;
`messages.ts` is `src/src/server/routes/messages.ts`; `store.ts` and
`executor.ts` are in `src/src/proposals/`; `index.ts` is
`src/src/scheduler/index.ts`; the runs' store is `src/src/runs/store.ts`.

## 1. Inventory

| Component | State it keeps | Operations | Talks to | Hard behaviour | What makes it correct |
| --- | --- | --- | --- | --- | --- |
| Queue database (`db.ts`) | tables `messages`, `suspended_runs`, `responses` | enqueue, claim, claim thread, complete, fail, suspend, resume, expire, reset orphans, store response, clear | called by the processor, routes, channels, scheduler; emits `message-enqueued` | outlives crashes; several writers of `status`; retries, ages, backoff | a message is taken once, ends for good, and is never stranded |
| Processor (`processor.ts`) | `running`, `agentChains`, `threadPool`, `activeThreadCount`, caches | `pollLoop`, `processNext`, `processForAgent`, `processThreadMessage`, `processImmediate`, `processTeamImmediate`, `resumeSuspendedMessage`, `cleanExpiredState`, `start`, `stop`, `drain` | database, agents, steers, runs, delegation | three ways to execute, awaits between reading and acting, timeouts, sweep of live work, drain | one execution per message, replies kept, pool bounded, drain honest |
| Message routes (`messages.ts`) | open requests and their timers | post and wait, post async, ask for the status, reply | processor, database | a request that times out while its message may or may not have begun | every client is told something; nothing runs twice |
| Steers (`steers.ts`) | table `steers` | enqueue, deliver a batch, expire | processor | a steer may arrive before, while or after the agent answers | told once, delivered or refused, never left behind |
| Proposals (`src/src/proposals/`) | table `proposals`, the executor's `activeCount` | propose, review, approve, reject, execute, bundle, merge, retry, recover, tidy | processor commands, routes, scheduler, git | late review against approval, several executors, recovery of half-done work | nothing is executed unapproved, or twice; what is approved is executed |
| Delegation (`delegation.ts`, `delegation-executor.ts`) | `activeDelegations`, the tree of asked agents | delegate, spawn, join, ask again, time out | processor, runs, other instances | shared budget, siblings in parallel, callbacks of what was given up | the budget holds, whoever asked waits |
| Runs (`src/src/runs/store.ts`) | table `delegation_runs` | create, progress, complete, supersede, reset orphans | processor, delegation, interfaces | updates without a look at the status, crashes, sweeps | no run stays open, no failure is reported beside a success |
| Scheduler (`index.ts`) | table `scheduled_tasks`, `runningTasks` | tick, execute, trigger, chain, repair, edit, start, stop | agents, processor, proposals | ticks that overlap and act on old snapshots, restarts | no occurrence dropped or run twice |
| Tasks, relay, notification batcher, pairing, artifact queue, registry, threads, memory, channels, servers, interfaces, command line | see `PROJECT.json` | | | | not modelled, section 5 |

How a message travels. A channel, route, scheduler or delegation calls
`enqueueMessage`; the insert emits `message-enqueued`, whose listener runs
`processNext` synchronously if the processor is running. `processNext` claims at
most one message that has a thread and starts it in the pool, and appends one link
to the promise chain of every agent with a pending message; the link claims when
it begins. Chat channels and HTTP calls that wait for the answer use
`processImmediate`, which inserts the row as `processing` and executes it outside
both. While it executes, the agent's response may delegate to other agents, and users
may steer it. An execution ends by answering, failing, or suspending the message with
a question. The reply comes by the reply route (synchronous or async) or as the
user's next chat message. Every five minutes `cleanExpiredState` expires
questions and steers and sweeps rows and runs that look abandoned; `start()` treats
every `processing` row as abandoned.

The hazards this leads to are listed with their lines in `PROJECT.json`
("hazards"); the properties below were chosen from that list.

## 2. Modules

| Module | What it is |
| --- | --- |
| `QueueDB` | the queue's three tables and what each query of `db.ts` does to them |
| `QueueProcessor` | the processor over `QueueDB`: actions, fairness, properties |
| `QueueOwnership` | who owns a message, over `QueueProcessor`: the history of contested messages, properties, refinement mapping |
| `MessageLease` | the abstract promise for each message |
| `MessageRoute` | clients of the routes, over `QueueOwnership` |
| `Steering` | steers, over `QueueOwnership` |
| `ProposalStore` | the proposals' table and what each update does to a row |
| `ProposalExecutor` | everything that works on proposals, over `ProposalStore` |
| `ProposalLifecycle` | the abstract promise for each proposal |
| `RunStore` | the runs' table and its updates |
| `Delegation` | executions and the agents they ask, over `RunStore` |
| `Scheduler` | the scheduler's table, ticks, executions and users |
| `MCQueue`, `MCRoute`, `MCSteering`, `MCProposal`, `MCDelegation`, `MCScheduler` | instances for TLC |
| `*_proof` | theorems, checked by tlapm |

In all of them an action is one stretch of JavaScript between two awaits. Inside a
stretch nothing interleaves; where it makes several commits, separate actions lose
the process between them. What an invocation of an agent may do is external: it
answers, asks, delegates, fails, throws, or is lost. A definition whose comment begins
with "Mutant" is a plausible bug of the definition after it and belongs to no
specification.

### QueueDB and QueueProcessor

`row[m]` is the row of message `m`: `status`, `retry` (`retry_count`, saturated at
the largest `maxRetries`), and the ages in ticks of `created_at` and
`updated_at`. An age saturates just above the largest threshold it is compared with;
`created = -1` stands for a `created_at` that the backoff pushed into the future.
`absent` is a message not yet sent and `deleted` a removed row. `asked[m]` is
the `suspended_runs` row: none, waiting for a reply, or with a reply. `resp[m]` is the
`responses` row under `INSERT OR IGNORE`. Agent, thread and priority of a message never
change after the insert and are constants. Columns no query branches on
(`last_error`, progress text, `claimed_by`, relay fields, file lists) are left out.

| In the model | In the code |
| --- | --- |
| `phase` | `running` plus where shutdown stands; `down` is no process |
| `agentChains`, `links[a]` | entries of the map; queued links that have not begun |
| `slot[a]`, `slot[t]` | what agent `a`'s chain, or thread `t`'s pool entry, executes |
| `activeThreads` | `activeThreadCount` |
| `immediate[m]` | calls of `processImmediate` executing `m` |
| `replying[m]` | synchronous replies between the look-up and the resume |
| `Poll`, `ProcessNext`, `OnEnqueued` | the poll loop, `processNext`, the event listener |
| `Enqueue`, `EnqueueImmediate`, `StartLink` | inserts and claims |
| `SlotAnswers`, `SlotAsks`, `SlotFails`, `SlotHandlesCommand`, `SlotRejects` | how `processForAgent` and `processThreadMessage` end |
| `ImmediateAnswers`, `ImmediateAsks`, `ImmediateFails`, `TeamCompletes`, `ImmediateThrows` | how `processImmediate` and `processTeamImmediate` end |
| `ReplyAsync`, `ReplySync`, `ApplyReply`, `DropReply`, `ReplyInConversation` | the three ways a reply arrives |
| `Cleanup`, `Start`, `Drain`, `DrainCompletes`, `DrainTimesOut`, `Exit` | cleanup, start-up and shutdown |
| `Crash`, `CrashInSlot`, `CrashInImmediate`, `CrashInCleanup` | loss of the process, also between two commits of one handler |
| `ClearRows` | the routes that clear dead letters and failed messages |

The operators `Answer`, `AnswerImmediate`, `Ask` and `Fail` take the number `k` of commits
that reached the database, in the code's order. Two constants say what invocations and users may do; nothing is
assumed of them. `Silent` are the messages whose executions may let a tick pass without news:
only a changed activity or text refreshes `updated_at` (`processor.ts:2611`), the SDK mode reports
nothing, and the watchdog of an invocation tolerates twenty minutes of silence
(`src/src/agents/stall-timeout.ts:1`). `Rereply` are those whose user may reply when the question
has been replied to (`db.ts:710` does not look at the status).

Abstractions: the conversation cache (`pendingClarifications`) is left out, so that a chat
message may reach any suspended message, as the look-up by sender in the database allows.
Database writes and bookkeeping calls do not throw (the foreign key that rejects a
question on a deleted row is kept). A crash inside `resetOrphans` leaves all or none of
its UPDATEs done. In `processImmediate` the screening, routing and command checks that
return before a row exists are not actions; for a reply they are `DropReply` or the branch of
`ReplyInConversation` that starts no execution. Whether an error is transient
(`analyzeError`) is a free choice.

### QueueOwnership and MessageLease

Nothing tells an execution that its row was given away. Two things do give it away: the sweep, when the
execution was silent for `MinAge` (`SweptAlive`), and a reply to a question that has had one (`RepliedAgain`).
`contested` is history, read by no action: the messages to which one of the two has ever happened. The
properties say what holds for each message until that moment, next to others to which it has happened.

`MessageLease` says what the queue promises of one message: submitted once, held by one
worker at a time and by a worker that holds nothing else, parked only by its holder,
orphaned when the holder vanishes, closed for good, unless it is disputed. `ImplementsLease`
maps a message to `held` when an execution is alive and otherwise by the status of its
row, and a contested one to `disputed`; the holder is the chain, the pool entry or the caller. A crash orphans
all held messages and a sweep recovers all orphans in one step, so a lease step moves any
number of messages, each along one of its arcs.

### MessageRoute

`client[m]` is where the client of message `m` stands: its request is open, it asks for
the status, it was told something, or it has left for the message its request was
enqueued as (`Copy[m]`). `Posts`, `Begins`, `Responds` and `TimesOut` are the synchronous
post; `AsksStatus` is the status route, whose answer `Shown` joins the row with the stored
response; `OtherSteps` are the processor's. A message posted async behaves as a
request whose copy is enqueued at once.

The window of `findRecentDuplicate` is as long as the timeout of a web request (300 s): the
row is found only if it was inserted later than the timer was late. `Tight` says that the
window is that tight, so that the copy may be enqueued while the first row exists. The relay's
window of 115 s is longer than its timeout and finds every row.

### Steering

`steer[s]` is the status of a steer's row ("late" is `pending` past its TTL), `target[s]`
its message, `told[s]` how often it is in the conversation's history, `stopped` the
executions aborted for an urgent steer, `follows` those that called the agent again.
`SteerArrives` is `handleSteer` and the resolution of its target; `Delivers` puts the
pending steers into the history, marks them and calls the agent once more;
`Answers`, `Fails` and `EndsOtherwise` end an execution as `QueueProcessor` says and
expire what is pending where the code does; `Cleans` is the cleanup with `expirePastTtl`.

### ProposalStore, ProposalExecutor, ProposalLifecycle

`row[p]` has the status, the review's verdict while somebody may read it, `autonomy`, what
`classifyAutonomy` would say now (`railed`), whether there is a pull request, and who
approved. `older[p]` keeps the order of `approved_at`. `run[r]` is an execution in flight:
by the executor (`single`), of a bundle (`batch`), by the scheduler's task (`cron`), or by the
proposing agent itself (`direct`); `stage` is the await it is at, `todo` and `done` the rest of a
bundle or batch. `review[p]` are the reviews in flight, with the autopilot or without. `active` is
`activeCount`.

`Overrides[p]` says what may be done to a row under those who work on it: decide during a
review, execute a proposal that needs no approval directly, complete it by hand while it is
executing, reset a review that lasts over an hour, create it without `classifyAutonomy`. The
updates of `store.ts` that finish work look at no status, so each of the first four alone
breaks `OneExecution` or `ExecutingIsHeld` for that proposal (with all of them
`OwnerConsents` fails too). The properties and the refinement therefore speak of the
proposals to which none of the four happens (`Untouched`), next to others to which they do.

`ProposalLifecycle` is the promise: nothing is worked on before it is authorised, at most one
worker works on it, what was merged or thrown away stays so, a worker that dies gives its
proposal back. A step moves any number of proposals, each along one arc.

### RunStore and Delegation

A task has the id of its run and is an execution of a message or one of its delegations.
`task[i].at` is the await it is at; `count` is `messageCount`, shared by all tasks of one
execution and kept at its first; `turns` what the re-entry loop has left; `late` that an
invocation which was given up still runs and reports. `Delegates` is `executeDelegationTurn`
up to its first await (budget and depth), `Spawns` starts the siblings up to the first await of
each (flood cap), `Starts`, `Returns`, `RemoteReturns`, `Fails` and `Settles` are the delegated
calls and their join, `Delivers` is `completeMessage` and `completeRun`. The search that precedes the spawn may throw (`FailsSearching`, lines 571-573): then nobody is asked, and what was counted stays counted. `Progress` is the callback
that neither asks whether its task is over. `torn` is history: messages whose `completeRun` lost the process
between its UPDATE and the supersession of earlier runs.

The queue decides when a message is executed; here two executions of one message may
overlap, which is more than `QueueProcessor` allows. A live run may be quiet (the SDK mode reports
no progress), so the sweep may reset it. Prompts, follow-ups, the review gate, side queries and cost
ceilings are abstracted into what an agent may answer.

### Scheduler

`row[t]` is the task's row; `loop[i]` what a busy tick has read and not yet looked at,
with the `next_run_at` and the failure count it read; `exec[t]` the entry of `runningTasks`. `TickBegins`
repairs late schedules, reads what is due and turns to the first task; `TickGoesOn` takes the
next when the last has ended, whether or not `stop()` was called. `Started` is `executeTask` up to
its first await: the guards, the deferral by budget or load, the preflight. `Answers`, `Fails`,
`Apologised` and `Delivered` are the rest of it, by class of task, with the chain it triggers.
The clock counts tick intervals.

## 3. Runs

| Run | Instance | Checks |
| --- | --- | --- |
| `paths` | `q1` for a chain, whose executions may be silent, `i1` immediate; one crash or drain | `TypeOK`, `OwnershipInv`, `CompletedIsFinal`, `ReplySurvives` |
| `settles` | `e1`, a team's message of a thread, silent and replied to at any time, and `g1` of a thread for an unknown agent; one place | `OwnershipInv`, `PoolAccounting`, `DrainedStaysIdle`, `EverythingSettles`, `ImplementsLease` |
| `route` | a request for a team and the message it is enqueued as | `RouteTypeOK`, `OneExecution`, `CompletedHasResponse`, `ClientsAreTold` |
| `steers` | two steers, one urgent, for a command of a chain | `SteerTypeOK`, `ToldOnce`, `DeliveredIsTold`, `InTimeIsHeard`, `NoneIsLeftBehind`, `SteersAreSettled`, `OneExecution`, `EverythingSettles`, `QuestionsResolve` |
| `proposals` | two proposals, one slot, two runs; one that its own agent may execute | `TypeOK`, `OneExecution`, `ReviewingIsHeld`, `OwnerConsents`, `SlotsAreAccounted`, `ImplementsLifecycle` |
| `ends` | two untouched proposals, one slot, two runs | `ApprovedIsTakenUp`, `WorkEnds` |
| `scheduler` | an agent's task that runs once and chains a periodic one; two ticks at a time, four intervals | `TypeOK`, `NoneIsDropped`, `TicksStartWhatIsDue`, `SuccessIsFinal`, `OneShotIsServed` |
| `turns` | three agents, one remote; two turns, two levels, four messages; a flood cap of one | `TypeOK`, `BudgetHolds`, `CallersWait` |
| `runs` | two executions of a message with a delegation each; one crash | `ReplacedIsNotFailed`, `RunsSettle` |

The properties in words:

* Queue. `OwnershipInv` is the conjunction of `TypeOK`, `DownIsDead` and, for the uncontested messages,
  `OneExecution` (one execution per message over all paths), `LiveIsOwned` (a live execution has its `processing` row,
  unless the wall-clock rule dead-lettered it), `QuestionIsOpen` (a message has an unanswered record exactly while it
  is suspended or has lapsed) and `NothingToReplyTo`. A completed message stays so (`CompletedIsFinal`). Of all
  messages, contested or not: a reply is dropped only by an execution that had it (`ReplySurvives`); the pool's
  counter equals its entries and respects the limit (`PoolAccounting`); a successful drain is not undone
  (`DrainedStaysIdle`); every accepted message ends or waits for its user (`EverythingSettles`). Every question of an
  uncontested message is resolved (`QuestionsResolve`).
* Routes. What a chain or the pool completes has a response, for every crash between the commits
  (`CompletedHasResponse`); every client is told something in the end (`ClientsAreTold`).
* Steers. Without a crash in a delivery no steer is told twice; one marked delivered was told, whatever
  commit the process was lost at; an answer refuses only steers that came during the second call; an execution that
  ends or gives its message back leaves no steer pending; every steer is delivered or refused.
* Proposals. `OneExecution` over executor, bundles, cron and agents; `ReviewingIsHeld`: a review that
  ends overwrites no decision; `OwnerConsents`: what requires an approval is approved by its owner, again
  after each requeueing; `SlotsAreAccounted`: no slot lost or given back twice, also by the proposals that
  others change; what is approved is taken up, and what is executing or being reviewed ends.
* Scheduler. A tick starts only what the table says is due, however old its snapshot; nothing that runs once runs
  again after it succeeded; a periodic task misses only the times that pass while it is running; a task that is to
  run once runs, unless it is disabled or deleted.
* Delegation. An execution has at most `ACTOR_MAX_MESSAGES` runs; whoever asked an agent waits until that agent's task is over
  (a task given up by its timeout is over, while its invocation may go on and report: `late`); a
  run replaced by a later completed one is not reported as failed; no run stays `running`.

Three runs are expected to fail: each states what the documentation says and finds that
the code does otherwise.

| Run | Statement | What the code does |
| --- | --- | --- |
| `doc_interrupt` | `src/docs/superpowers/specs/2026-03-15-btw-and-steering-design.md:188`: an interrupt aborts the agent and calls it again with the steer | where the abort comes back as an error (codex, the native drivers, claude without partial output), it fails the message, and the failure expires the steer (`processor.ts:2599`, 3149). Where claude exits on SIGTERM with partial output, which counts as success (`src/src/agents/invoke-cli.ts:1298`), the steer is delivered as documented. The model has both |
| `doc_sweep` | `processor.ts:1941`: the minimum age of five minutes prevents the sweep from resetting messages that are being processed | an execution without news for five minutes is reset while it goes on, and its message may be executed a second time (`processor.ts:1943`) |
| `doc_success` | `src/src/runs/store.ts:603`: a completed message's run is not reported as failed | a late report writes `running` over `completed`, and the sweep then fails the run (`delegation-executor.ts:848`) |

### Other disagreements and facts, without a run

Queue and processor:

* `agentChains` entries are deleted only when a chain rejects, so `getInflightCount`
  (`processor.ts:1079`, "Number of in-flight agent invocations") stays positive after an agent's
  first message, and `index.ts:722` then holds back every heartbeat and sentinel task.
* `processor.ts:4570` "don't retry via poll loop": a transient failure of an immediate message is
  retried by the poll loop, after the caller was told of it (4573).
* `db.ts:862` "the poll loop skips it until ready": no claim compares `created_at` with the present (882).
* `processor.ts:1722` "no new messages are dequeued": a chain link queued earlier claims after `stop()`.
* `processor.ts:1730` "resolves when all active work finishes": immediate executions are not waited for.
* The wall-clock rule of the sweep dead-letters a retried message while it reports progress (`db.ts:930`).
* `INSERT OR IGNORE` (`db.ts:1234`) keeps the first response of a message, so that after a question or an
  error report the final answer is not what the status route shows (`messages.ts:119`).
* `activeProcesses` is keyed by conversation: cancelling a message may abort another one of its conversation, and a
  queued execution cannot be cancelled (`processor.ts:3448`).

Routes: the copy of a timed-out request may be enqueued while the first message is executing (`messages.ts:470`);
a team's request that outlives its timeout is shown `completed` with no response; a client whose dead letter
is cleared before it asks is shown `queued` for ever (excepted in `ClientsAreTold`); the immediate path completes
the row before it stores the response.

Steers: an immediate execution never looks at steers, which stay pending until their TTL of 300 s; the comment
"Max 2 steer re-invocations" (`processor.ts:2932`) has no loop, so steers that arrive during the second call
expire; the documented `on_expire` "requeue" does not exist; a message whose agent column is empty cannot be steered.

Proposals: the rails of `autonomy.ts:46` ("never bypassed") are consulted when an agent proposes, not when a
review advances a proposal (`review-autopilot.ts:18`) whose files its corrections have changed, nor for
proposals made over the API.

Scheduler: the breaker disables only agents' tasks (`index.ts:743-790`), against
`src/Areas/Scheduler.md:103`. `repairPersistedSchedules` drops a retry that the backoff put before its own threshold, an
occurrence that budget or load deferred, and one that fell due while its task was running (hence the
exceptions in `NoneIsDropped`). A task that runs once and is put off by its preflight never runs,
though it stays enabled; after a crash a failed one runs again. A task that was started early by a trigger and failed
may be run by an older snapshot with its old failure count. Loops in flight go on after `stop()`.

Delegation: the flood cap counts keys `conversation:agent` (`delegation-executor.ts:702`), so that several delegations of one
conversation to one agent count as one, against the comment at its lines 6-10; a throw between
`activeDelegations.set` and the `try` leaves the entry until the prune after two hours; an error after
completion turns a completed child run into a failed one; a crash between `completeMessage` and
`completeRun` leaves the run to the sweep, which fails it.

### Bounds

* Messages: one or two per run. Messages interact through the claim order, a chain, a
  place in the pool and the sweep; each of these needs two.
* `MinAge`, `WallAge`, `SweepAge`: ages 1 in most runs, so that one tick makes an orphan
  old enough and two make it stale; larger ones, in the order of 5, 30 and 35 minutes, only put ticks between.
  `InputTimeout` 1. `Attempts` 2; the code passes 0, 2 and 3. The proofs have arbitrary thresholds.
* `Silent` and `Rereply`: `{q1}` and none in `paths`, so that one message is swept alive beside another that is
  not, through all reply routes; both `{e1}` in `settles`, so that one message meets both, beside `g1`; none in
  `route` and `steers`, whose states with a silent execution TLC does not exhaust in five minutes. For these two
  the theorems `RoutesExecuteOnce`, `SteeredOnce` and those on steers say what holds with any silence; their
  liveness (`ClientsAreTold`, `SteersAreSettled`, `QuestionsResolve`) is checked for executions that report only.
* `MaxThreads` 1, so that the limit is reached. `MaxLinks` bounds queued links of one agent: a link that
  finds nothing to claim does nothing, so more of them add no behaviour. `MaxImmediate` 2 leaves room for the
  double execution that `OneExecution` forbids. `MaxCrashes` bounds crashes and drains together.
* Steers: two, so that one may wait while another is delivered. With liveness, `q1` and `i1` together are too large. The steered message is a command
  (the model lets it also answer, ask or fail like another message), so that the row which a handled command leaves `processing` is swept too.
* Proposals: two, for one slot of capacity one (as `create-hive` builds it), two runs, so that an executor
  competes with a bundle, the cron or an agent; `MaxRetries` 1; `CronBatch` 2. Three proposals, or
  more overrides for the second one, are too large; the proofs have no such bound.
* Scheduler: `Horizon` 4 with a period of 2 and delays of 2 and 4; two ticks at once, the number that can
  disagree about one task. The clock stops at the horizon and ticks go on, so that nothing due is left unserved by the bound alone.
* Delegation: `MaxRuns` holds all runs the attempts can make (`DelegationAssumption`); `turns` has depth 2 and a
  flood cap of one so that siblings meet it; `runs` has two executions so that one can replace the other.

The proofs below have none of these bounds except `MaxLinks`, `MaxImmediate`, `MaxCrashes`, `Runs`,
`MaxRuns` and `Horizon`, which are arbitrary constants there.

### Fairness

Weak fairness is assumed of what the runtime itself drives, and of nothing that users,
arrivals or crashes do:

* `QueueProcessor`: `Poll` and `Cleanup` (a timer loop that a thrown error does not leave), `Tick` (time
  passes), `Start` (the service manager restarts the process), `StartLink` (a queued microtask runs), `FinishSlot` and
  `FinishImmediate` (each invocation races a timeout of thirty minutes; a command handler and a team
  member are assumed to return), `DrainTimesOut` and `Exit` (timers of the shutdown).
* `MessageRoute`: also that request timers fire and clients keep asking. `Steering`: as `QueueProcessor`, with the
  steps it refines, and TTLs run out.
* `ProposalExecutor`: each agent call, review and verification ends by its timeout at the latest
  (`Works(r)`, `ReviewEnds(p)`), and the scheduler triggers the task that executes approved proposals.
* `Scheduler`: the interval timer, resolved promises, executions that end by their timeout, time, exit and restart.
* `Delegation`: each task goes on (`Advances`), late invocations end, time passes, the processor cleans up.

`EverythingSettles` and `ClientsAreTold` are stated for behaviours in which users stop answering questions at some
time: without that, a place in the pool that is given back may always be taken by the next reply before the poll offers
it to another thread. They concern messages that some executor may claim (`Servable`). The
proposals' and the scheduler's liveness is stated for behaviours in which the process is lost
finitely often.

## 4. Proofs

Eight modules, for all constants that satisfy the named assumptions of the modules they extend.

| Module | Theorems | Assumed |
| --- | --- | --- |
| `QueueProcessor_proof` | `TypeCorrect`, `OwnershipInvariant`, `NoDoubleExecution`, `QuestionsAnswerable`, `CompletedStays`, `RepliesSurvive`, `PoolIsAccounted`, `DrainedIdle`, `ProcessorImplementsLease`, `ClosedForGood` | |
| `MessageLease_proof` | `LeaseHolds`, `ClosedStays` | |
| `MessageRoute_proof` | `ClientsAreSomewhere`, `RoutesExecuteOnce`, `CompletedIsAnswered` | |
| `Steering_proof` | `SteerTypesHold`, `TellsOnce`, `DeliveriesAreTold`, `SteeredOnce`, `AnswersHear` | |
| | `NoSteerIsLeft` | every message names a configured agent |
| `ProposalExecutor_proof` | `TypesHold`, `SlotsHold`, `PipelineHolds`, `ExecutesOnce`, `ReviewsAreExclusive`, `ConsentHolds` | |
| `ProposalLifecycle_proof` | `LifecycleHolds` | |
| `Scheduler_proof` | `TypesHold`, `TicksHold`, `SuccessHolds`, `LatenessIsBounded` | |
| | `NothingIsDropped` | `Cardinality(Tasks) <= Stale + 1` |
| `Delegation_proof` | `TypesHold`, `CallersAlwaysWait`, `ReplacedAreNotFailed`, `BudgetsHold`, `IdsAlwaysSuffice`, `ExecutionsAlwaysAttend` | |

No theorem on the queue assumes anything of silence or of repeated replies: `Silent` and `Rereply` are arbitrary sets.
What is said of single execution is said of each message until it is contested, whatever is done to the
others, and that is as far as the code goes: a silent execution is swept and runs twice (run `doc_sweep`), and a
repeated reply moves an executing message back to `pending`.

The assumptions in the table are needed. A message whose agent is not configured is failed before anybody looks at its
steers (`processor.ts:3203`). With three tasks and a threshold of one interval TLC finds an occurrence that a restart
drops; the code's threshold is `Math.max(tickMs * 2, 5 * 60_000)` (`index.ts:1277`), whatever the number of tasks.
What is said of proposals is said of the `Untouched`; each override breaks it for its own proposal, and the theorems
say that it breaks it for no other.

The arguments:

* Processor. `OneExecution` is not inductive: a claim could take the row of a live
  execution if the row were `pending`. `LiveIsOwned` excludes that; the sweep keeps it, because a row it resets under
  an execution was silent for `MinAge`, which makes the message contested in the same step. A reply would start a
  second execution if its message had been resumed meanwhile: with `QuestionIsOpen` a reply to an uncontested message
  finds it suspended, lapsed, or replied to already, and the last makes it contested; `NothingToReplyTo` keeps a reply from
  reviving one that is completed. `start()` resets all rows: `DownIsDead` says nobody executes then. The
  conjunction, `OwnershipInv`, is inductive. Its proof goes message by message: lemmas say what each handler does to one
  message and that it leaves the others alone, which is why a contested message cannot harm an uncontested one, and
  one step per action puts them together. `RepliesSurvive` needs only that a message
  which is suspended or has lapsed has had no reply, which holds of all messages. `PoolAccounting` needs the invariant
  that a pool entry holds a message of its own thread, and facts on cardinality from `FiniteSetTheorems`.
* The lease. Each message goes its own way through `MessageLease`, so a step is taken apart by message: an execution
  of it starts (`Started`) or ends (`Ended`), its row moves while nobody executes it (`Shifted`: a sweep, a reply, a
  restart), it is contested, or it is `Kept`. One lemma per handler says which; `OwnershipInv` makes the holder that the mapping
  chooses the only one, and excludes that a row moves to `pending` under its holder. `ClosedForGood` is the
  lease's own promise, read through the mapping.
* Routes and steers. Every step of the composition is a step of `QueueProcessor` or leaves its
  variables alone, and adds to `contested` what such a step adds, so its invariants carry over; what the composition adds has invariants of its own.
  How a slot is left is one lemma (`SlotEnds`): by an answer, a failure, another end or a loss; `AnswersHear` and
  `NoSteerIsLeft` look at what each of them does to the steers of its message.
* Proposals. The inductive invariant is `Fit(row, run, review)`: types, the shape of runs, no proposal held
  twice, `executing` exactly while held, `reviewing` exactly while one review is at work, and consent. All but types and
  shape are said of the untouched proposals; that a bundle or the cron may hold touched ones beside them is why the pieces are stated for any
  item and what its end writes is asked only of an untouched one. Each conjunct
  needs the others: the unconditional updates at the end of a run or review are harmless only because the row
  is still theirs. `Fit` is a predicate of three values, so that a step may be taken apart into updates that
  each keep it. `SlotsHold` counts the runs that hold a slot before and after each start and `finally`, and needs nothing about
  the rows. For the refinement, `Moved` says which changes of status a step allows and that nobody joins a
  proposal that is executing or deleted; with `Fit` before and after the step, each proposal moves
  along one arc of its life.
* Scheduler. What a tick has read may be old; the guard of `executeTask` compares it with the table, and the
  invariant says that no snapshot's time lies in the future. For tasks that run once, a completed
  one has its next time beyond the clock for ever, whoever enables it again. For the lateness, `LateInv` says, as an
  existential, that every interval in which a waiting task was found due has a tick of its own that still has it to look at.
  Each of these ticks is stopped at another task, which it executes, and no two at the same one; so the task
  has waited no more intervals than there are other tasks, which `NothingIsDropped` compares with the threshold.
* Delegation. The invariant ties each task to its caller: the same execution, one level deeper, and a
  caller that waits as long as a task it asked is not over. For the runs, a run that a later completed one replaces is
  not `orphaned`, which the completion, the sweep, the restart and a late report must each keep. For the budget,
  nothing in the state says which run was counted when. The invariant says that the runs can be placed (`HasPlaces`): each has
  one of the `ACTOR_MAX_MESSAGES` places of its execution, alone, and none beyond what a busy execution has
  counted. Each step that begins a run extends the placing, and the places bound the cardinality.

Only model-checked: liveness (`EverythingSettles`, `QuestionsResolve`, `ClientsAreTold`,
`SteersAreSettled`, `ApprovedIsTakenUp`, `WorkEnds`, `OneShotIsServed`, `RunsSettle`), which the prover does not
support with fairness. Every invariant and every action property of the passing runs is the subject of a theorem.

## 5. Not modelled

* Queue: acknowledging and purging responses, rate limiting, cancellation, stream mode, nonces and
  cross-channel duplicates, the caches of the processor, idle discovery.
* Steers: the wording of a batch, side queries (BTW), a steer for an idle agent, which is an ordinary message.
* Proposals: the execution trigger, the mergeable flag and the nudge mark, which no transition reads; git and
  GitHub, whose outcome is an input of the executor.
* Runs and delegation: scratchpads, blocked paths, inbound artifacts, management actions, the continuation and cost
  ceilings, the text of prompts and results.
* Scheduler: adaptive intervals, presence, notification texts, extension registration, changes of a cron
  expression while its task runs, a machine that sleeps (`NoneIsDropped` assumes that timers fire).
* Tasks, pairing, the artifact queue and the registry make their changes in single synchronous calls; the
  notification batcher decides nothing about messages (its `flushAll` at shutdown may clear items queued while it
  waits); the relay is modelled by how delegation meets a remote agent.
* User interfaces, channel adapters, prompt assembly, model drivers, memory and ranking, configuration: text
  handling and input and output without a protocol of their own. They are most of the repository's lines.

## 6. Running the checks

    tlc -workers 2 -config MCQueue_paths.cfg MCQueue.tla
    tlapm QueueProcessor_proof.tla

The configurations are named after their modules and runs (`MCProposal_shared.cfg` is run `proposals`). Every passing run
finishes in under five minutes on two cores.
