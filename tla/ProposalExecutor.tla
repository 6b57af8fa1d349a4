-------------------------- MODULE ProposalExecutor --------------------------
(***************************************************************************)
(* Everything that works on proposals: the executor (executor.ts) with its *)
(* slots, bundles and review gate, the scheduler's task that executes what *)
(* is approved, the agent that executes its own proposal, the reviews with *)
(* and without autopilot, and the decisions of the chats and the gateway.  *)
(*                                                                         *)
(* All of it runs on one thread: an action is the code between two awaits. *)
(* What is in flight, at an await, is a record of run or a member of       *)
(* review; a crash loses both and the capacity counter, and the next start *)
(* recovers the rows.                                                      *)
(***************************************************************************)
EXTENDS ProposalStore

CONSTANTS
  Runs,           \* executions that may be in flight at once (bound)
  Nothing,
  MaxConcurrent,  \* the executor's capacity: one, as create-hive builds it
  CronBatch,      \* max_concurrent_executions of the scheduler's task
  MaxRetries,     \* retries the review gate grants
  Gate,           \* whether a review gate is configured
  Rails,          \* what proposals and corrections may be: railed or not (bound)
  Overrides       \* what may change each row under those who work on it

(***************************************************************************)
(* "midReview"     the owner decides on a proposal that is being reviewed  *)
(* "direct"        agents make proposals that need no approval             *)
(* "complete"      somebody marks an executing proposal completed          *)
(* "stale"         a review lasts longer than an hour                      *)
(* "unclassified"  the API creates proposals without classifyAutonomy      *)
(***************************************************************************)
ASSUME ExecutorAssumption ==
  /\ IsFiniteSet(Runs) /\ Nothing \notin Proposals
  /\ MaxConcurrent \in Nat \ {0} /\ CronBatch \in Nat \ {0} /\ MaxRetries \in Nat
  /\ Gate \in BOOLEAN /\ Rails \subseteq BOOLEAN

VARIABLES
  run,     \* the executions in flight
  review,  \* the reviews in flight
  active   \* activeCount

vars == <<row, older, run, review, active>>

Kinds == {"single", "batch", "cron", "direct"}
Stages == {"agent", "gate", "retry", "regate", "verify"}
ReviewKinds == {"autopilot", "plain"}

Idle == [kind |-> "idle", item |-> Nothing, todo |-> {}, done |-> {}, stage |-> "agent"]

Begin(kind, p) == [Idle EXCEPT !.kind = kind, !.item = p]

Run == [kind : Kinds \cup {"idle"}, item : Proposals \cup {Nothing},
        todo : SUBSET Proposals, done : SUBSET Proposals, stage : Stages]

TypeOK ==
  /\ StoreTypeOK
  /\ run \in [Runs -> Run]
  /\ review \in [Proposals -> SUBSET ReviewKinds]
  /\ active \in Int

Init ==
  /\ StoreInit
  /\ run = [r \in Runs |-> Idle]
  /\ review = [p \in Proposals |-> {}]
  /\ active = 0

Update(p, r) == [row EXCEPT ![p] = r]

UpdateAll(S, Op(_)) == [p \in Proposals |-> IF p \in S THEN Op(row[p]) ELSE row[p]]

\* The runs that hold a slot of the executor.
Slotted == {r \in Runs : run[r].kind \in {"single", "batch"}}

HasCapacity(n) == n < MaxConcurrent

-----------------------------------------------------------------------------
(* Starting work                                                           *)

\* executeProposal up to its first await: check, claim, take a slot.
ExecuteProposal(rows, p) ==
  /\ \E r \in Runs : run[r] = Idle /\ run' = [run EXCEPT ![r] = Begin("single", p)]
  /\ row' = [rows EXCEPT ![p] = MarkExecuting(@)]
  /\ active' = active + 1

\* onApproved: without capacity the proposal waits as 'approved'.
OnApproved(rows, p) ==
  \/ HasCapacity(active) /\ p \in Approved(rows) /\ ExecuteProposal(rows, p)
  \/ /\ ~HasCapacity(active) \/ p \notin Approved(rows)
     /\ row' = rows /\ UNCHANGED <<run, active>>

\* Mutant: the finally forgets the slot when there is nothing to pick up.
PickupNextLeaky(rows, r) ==
  \/ /\ HasCapacity(active - 1)
     /\ \E p \in Oldest(rows) :
          /\ row' = [rows EXCEPT ![p] = MarkExecuting(@)]
          /\ run' = [run EXCEPT ![r] = Begin("single", p)]
     /\ active' = active
  \/ /\ ~HasCapacity(active - 1) \/ Approved(rows) = {}
     /\ row' = rows /\ run' = [run EXCEPT ![r] = Idle]
     /\ active' = active

\* The finally of an execution: give the slot back, take the next proposal.
PickupNext(rows, r) ==
  \/ /\ HasCapacity(active - 1)
     /\ \E p \in Oldest(rows) :
          /\ row' = [rows EXCEPT ![p] = MarkExecuting(@)]
          /\ run' = [run EXCEPT ![r] = Begin("single", p)]
     /\ active' = active
  \/ /\ ~HasCapacity(active - 1) \/ Approved(rows) = {}
     /\ row' = rows /\ run' = [run EXCEPT ![r] = Idle]
     /\ active' = active - 1

\* executeAll(false): onApproved for each approved proposal in turn.  With a
\* capacity of one the first takes it and the others wait.
ExecuteEach ==
  /\ HasCapacity(active)
  /\ \E p \in Oldest(row) : ExecuteProposal(row, p)
  /\ UNCHANGED <<older, review>>

\* executeAll(true): one run claims every approved proposal, whatever the
\* capacity, and works through them in one worktree.
ExecuteBatch ==
  /\ \E r \in Runs, p \in Oldest(row) :
       /\ run[r] = Idle
       /\ run' = [run EXCEPT ![r] =
                    [Begin("batch", p) EXCEPT !.todo = Approved(row) \ {p}]]
  /\ row' = UpdateAll(Approved(row), MarkExecuting)
  /\ active' = active + 1
  /\ UNCHANGED <<older, review>>

\* Mutant: the task waits for a full batch.
CronBeginFull ==
  /\ \A r \in Runs : run[r].kind # "cron"
  /\ \E S \in SUBSET Approved(row), r \in Runs : \E p \in S :
       /\ Cardinality(S) = CronBatch
       /\ run[r] = Idle
       /\ run' = [run EXCEPT ![r] = [Begin("cron", p) EXCEPT !.todo = S \ {p}]]
       /\ row' = Update(p, MarkExecuting(row[p]))
  /\ UNCHANGED <<older, review, active>>

\* executeApprovedProposals: the task takes the first few by priority, which
\* may be any, and claims each when its turn comes.  A task runs once at a time.
CronBegin ==
  /\ \A r \in Runs : run[r].kind # "cron"
  /\ \E S \in SUBSET Approved(row), r \in Runs : \E p \in S :
       /\ Cardinality(S) = CronBatch \/ (S = Approved(row) /\ Cardinality(S) < CronBatch)
       /\ run[r] = Idle
       /\ run' = [run EXCEPT ![r] = [Begin("cron", p) EXCEPT !.todo = S \ {p}]]
       /\ row' = Update(p, MarkExecuting(row[p]))
  /\ UNCHANGED <<older, review, active>>

-----------------------------------------------------------------------------
(* Working                                                                 *)

\* The cron run goes on with a proposal that is still approved, and skips those
\* it finds taken.
CronNext(rows, r) ==
  LET free == {p \in run[r].todo : Claimable(rows[p])} IN
  \/ \E p \in free, skipped \in SUBSET (run[r].todo \ free) :
       /\ run' = [run EXCEPT ![r] =
                    [Begin("cron", p) EXCEPT !.todo = run[r].todo \ ({p} \cup skipped)]]
       /\ row' = [rows EXCEPT ![p] = MarkExecuting(@)]
  \/ /\ free = {}
     /\ run' = [run EXCEPT ![r] = Idle] /\ row' = rows

\* The bundle goes on with the next one, or pushes the branch: the pull request,
\* when it can be made, is recorded for all that completed.
BatchNext(rows, r, ok) ==
  LET done == run[r].done \cup (IF ok THEN {run[r].item} ELSE {}) IN
  \/ /\ \E p \in run[r].todo :
          /\ older[p] \cap run[r].todo = {}
          /\ run' = [run EXCEPT ![r] =
               [Begin("batch", p) EXCEPT !.todo = run[r].todo \ {p}, !.done = done]]
     /\ row' = rows /\ UNCHANGED active
  \/ /\ run[r].todo = {}
     /\ \E made \in BOOLEAN :
          PickupNext([p \in Proposals |->
                        IF made /\ p \in done THEN SetPrUrl(rows[p]) ELSE rows[p]], r)

\* The execution of the item ends with its row written.
ItemEnds(r, written, ok) ==
  LET rows == Update(run[r].item, written) IN
  \/ run[r].kind = "single" /\ PickupNext(rows, r)
  \/ run[r].kind = "batch" /\ BatchNext(rows, r, ok)
  \/ run[r].kind = "cron" /\ CronNext(rows, r) /\ UNCHANGED active
  \/ /\ run[r].kind = "direct"
     /\ row' = rows /\ run' = [run EXCEPT ![r] = Idle] /\ UNCHANGED active

\* markCompleted turns an answer that reads like a failure into one.
Finish(r) ==
  \/ \E pr \in BOOLEAN :
       /\ run[r].kind = "batch" => ~pr
       /\ ItemEnds(r, MarkCompleted(row[run[r].item], pr), TRUE)
  \/ ItemEnds(r, MarkFailed(row[run[r].item]), TRUE)

Fail(r) == ItemEnds(r, MarkFailed(row[run[r].item]), FALSE)

GoTo(r, stage) ==
  run' = [run EXCEPT ![r].stage = stage] /\ UNCHANGED <<row, active>>

\* Bundles and direct executions take the agent's word; the scheduler's task
\* verifies; the executor asks the review gate first, if there is one.
AgentAnswers(r) ==
  /\ run[r].kind \in Kinds /\ run[r].stage \in {"agent", "retry"}
  /\ \/ run[r].kind \in {"batch", "direct"} /\ Finish(r)
     \/ run[r].kind = "cron" /\ GoTo(r, "verify")
     \/ run[r].kind = "single" /\ ~Gate /\ GoTo(r, "verify")
     \/ run[r].kind = "single" /\ Gate /\ run[r].stage = "agent" /\ GoTo(r, "gate")
     \/ run[r].kind = "single" /\ Gate /\ run[r].stage = "retry" /\ GoTo(r, "regate")
  /\ UNCHANGED <<older, review>>

\* With no retry to grant, a failing verdict is not acted upon.
GateJudges(r) ==
  /\ \/ run[r].stage = "gate" /\ GoTo(r, "verify")
     \/ run[r].stage = "gate" /\ MaxRetries > 0 /\ GoTo(r, "retry")
     \/ run[r].stage = "regate" /\ GoTo(r, "verify")
     \/ run[r].stage = "regate" /\ Fail(r)
  /\ UNCHANGED <<older, review>>

\* Verification and, for the executor, the evidence the category asks for.
Verified(r) ==
  /\ run[r].stage = "verify" /\ (Finish(r) \/ Fail(r))
  /\ UNCHANGED <<older, review>>

\* Any await may throw: the catch marks the item failed.
RunThrows(r) ==
  /\ run[r].kind \in Kinds /\ Fail(r)
  /\ UNCHANGED <<older, review>>

-----------------------------------------------------------------------------
(* Proposing and reviewing                                                 *)

\* The API's proposals name their autonomy themselves.
Create(p, autonomy, railed) ==
  /\ row[p].status = "absent"
  /\ "unclassified" \in Overrides[p] \/ ~(autonomy = "auto" /\ railed)
  /\ row' = Update(p, NewRow("proposed", autonomy, railed))
  /\ UNCHANGED <<older, run, review, active>>

\* An agent's proposal that needs an approval goes straight to a review.
Propose(p, railed) ==
  /\ row[p].status = "absent"
  /\ row' = Update(p, MarkReviewing(NewRow("proposed", "requires_approval", railed)))
  /\ review' = [review EXCEPT ![p] = @ \cup {"plain"}]
  /\ UNCHANGED <<older, run, active>>

\* One that needs none is executed by its own agent at once.  The claim finds
\* it 'proposed', changes nothing, and its result is not looked at.
ProposeDirect(p) ==
  /\ "direct" \in Overrides[p] /\ row[p].status = "absent"
  /\ row' = Update(p, MarkExecuting(NewRow("proposed", "auto", FALSE)))
  /\ \E r \in Runs : run[r] = Idle /\ run' = [run EXCEPT ![r] = Begin("direct", p)]
  /\ UNCHANGED <<older, review, active>>

\* A review asked for over the API checks the row first; one that waited in the
\* queue of the gateway, or in the list the scheduler made, only claims it.
StartReview(p, kind, queued) ==
  /\ IF queued THEN row[p].status \in {"proposed", "reviewed"} ELSE Reviewable(row[p])
  /\ kind \notin review[p]
  /\ row' = Update(p, MarkReviewing(row[p]))
  /\ review' = [review EXCEPT ![p] = @ \cup {kind}]
  /\ UNCHANGED <<older, run, active>>

\* Only the reviews of the API and of the scheduler advance a proposal.
FinishReview(p, kind, verdict, railed) ==
  LET saved == SaveReview(row[p], verdict, railed)
      advances == kind = "autopilot" /\ CanAutoAdvance(saved) IN
  /\ kind \in review[p]
  /\ review' = [review EXCEPT ![p] = @ \ {kind}]
  /\ IF advances
       THEN ApprovedNow({p}) /\ OnApproved(Update(p, Approve(saved, "reviewer")), p)
       ELSE row' = Update(p, saved) /\ UNCHANGED <<older, run, active>>

ReviewFails(p, kind) ==
  /\ kind \in review[p]
  /\ review' = [review EXCEPT ![p] = @ \ {kind}]
  /\ row' = Update(p, SaveReview(row[p], "unclear", row[p].railed))
  /\ UNCHANGED <<older, run, active>>

-----------------------------------------------------------------------------
(* Deciding                                                                *)

MidReview(p) == row[p].status = "reviewing" => "midReview" \in Overrides[p]

ApproveAndRun(p) ==
  /\ IF row[p].status \in Undecided THEN ApprovedNow({p}) ELSE UNCHANGED older
  /\ OnApproved(Update(p, Approve(row[p], "owner")), p)

\* A chat command wants the proposal untouched.
ChatApproves(p) ==
  /\ row[p].status = "proposed" /\ ApproveAndRun(p) /\ UNCHANGED review

InlineApproves(p) ==
  /\ row[p].status \in Undecided /\ MidReview(p)
  /\ ApproveAndRun(p) /\ UNCHANGED review

\* Slack's button starts the execution whether or not its update found the row.
SlackApproves(p) ==
  /\ Exists(row[p]) /\ MidReview(p)
  /\ ApproveAndRun(p) /\ UNCHANGED review

\* The API, MCP and the gateway approve without telling the executor.
GatewayApproves(p) ==
  /\ row[p].status \in Undecided /\ MidReview(p)
  /\ ApprovedNow({p})
  /\ row' = Update(p, Approve(row[p], "owner"))
  /\ UNCHANGED <<run, review, active>>

BatchApproves(S) ==
  /\ \A p \in S : row[p].status = "proposed"
  /\ ApprovedNow(S)
  /\ row' = [p \in Proposals |-> IF p \in S THEN Approve(row[p], "owner") ELSE row[p]]
  /\ UNCHANGED <<run, review, active>>

Rejects(p) ==
  /\ row[p].status \in Undecided /\ MidReview(p)
  /\ row' = Update(p, Reject(row[p]))
  /\ UNCHANGED <<older, run, review, active>>

BatchRejects(S) ==
  /\ \A p \in S : row[p].status = "proposed"
  /\ row' = UpdateAll(S, Reject)
  /\ UNCHANGED <<older, run, review, active>>

-----------------------------------------------------------------------------
(* Afterwards                                                              *)

\* Only the row changes.
Writes(r, p) == row' = Update(p, r) /\ UNCHANGED <<older, run, review, active>>

Retries(p) == row[p].status \in {"completed", "failed"} /\ Writes(ResetToApproved(row[p]), p)

Requeues(p) == row[p].status \in {"completed", "failed"} /\ Writes(ResetToProposed(row[p]), p)

\* Completing by hand: the route and the MCP tool.
CompletesByHand(p, pr) ==
  /\ \/ row[p].status = "approved"
     \/ row[p].status = "executing" /\ "complete" \in Overrides[p]
  /\ Writes(MarkCompleted(row[p], pr), p)

\* The members of a bundle get the pull request of any of them.
CreatesPr(S) ==
  /\ \A p \in S : row[p].status = "completed"
  /\ \E p \in S : ~row[p].pr
  /\ row' = UpdateAll(S, SetPrUrl)
  /\ UNCHANGED <<older, run, review, active>>

Merges(p) == row[p].status = "completed" /\ row[p].pr /\ Writes(MarkMerged(row[p]), p)

\* The sync finds the pull request closed.
FindsClosed(p) == row[p].status = "completed" /\ row[p].pr /\ Writes(MarkFailed(row[p]), p)

\* The maintenance of a tick, on the rows whose time has come.
Expires(S) ==
  /\ \A p \in S : row[p].status = "proposed"
  /\ row' = UpdateAll(S, ExpireStale)
  /\ UNCHANGED <<older, run, review, active>>

Archives(S) ==
  /\ \A p \in S : row[p].status \in {"completed", "failed"}
  /\ row' = UpdateAll(S, ArchiveStale)
  /\ UNCHANGED <<older, run, review, active>>

ResetsStale(S) ==
  /\ \A p \in S : row[p].status = "reviewing" /\ "stale" \in Overrides[p]
  /\ row' = UpdateAll(S, ResetStaleReviewing)
  /\ UNCHANGED <<older, run, review, active>>

DeletesTerminal ==
  /\ row' = UpdateAll(Proposals, DeleteTerminal)
  /\ UNCHANGED <<older, run, review, active>>

Deletes(p) == Exists(row[p]) /\ Writes(Delete(row[p]), p)

\* The process dies and starts again.
Restart ==
  /\ row' = UpdateAll(Proposals, Recovered)
  /\ run' = [r \in Runs |-> Idle]
  /\ review' = [p \in Proposals |-> {}]
  /\ active' = 0
  /\ UNCHANGED older

-----------------------------------------------------------------------------
Starts == ExecuteEach \/ ExecuteBatch \/ CronBegin

Works(r) == AgentAnswers(r) \/ GateJudges(r) \/ Verified(r) \/ RunThrows(r)

Reviews(p) ==
  \/ \E autonomy \in {"auto", "requires_approval"}, railed \in Rails :
       Create(p, autonomy, railed)
  \/ \E railed \in Rails : Propose(p, railed)
  \/ ProposeDirect(p)
  \/ \E kind \in ReviewKinds, queued \in BOOLEAN : StartReview(p, kind, queued)

ReviewEnds(p) ==
  \E kind \in ReviewKinds :
    \/ \E verdict \in Verdicts \ {"none"}, railed \in Rails :
         FinishReview(p, kind, verdict, railed)
    \/ ReviewFails(p, kind)

Decides(p) ==
  \/ ChatApproves(p) \/ InlineApproves(p) \/ SlackApproves(p) \/ GatewayApproves(p)
  \/ Rejects(p)

DecidesMany(S) == S # {} /\ (BatchApproves(S) \/ BatchRejects(S))

Afterwards(p) ==
  \/ Retries(p) \/ Requeues(p) \/ Merges(p) \/ FindsClosed(p) \/ Deletes(p)
  \/ \E pr \in BOOLEAN : CompletesByHand(p, pr)

Tidies(S) == S # {} /\ (CreatesPr(S) \/ Expires(S) \/ Archives(S) \/ ResetsStale(S))

Next ==
  \/ Starts
  \/ \E r \in Runs : Works(r)
  \/ \E p \in Proposals : Reviews(p) \/ ReviewEnds(p) \/ Decides(p) \/ Afterwards(p)
  \/ \E S \in SUBSET Proposals : DecidesMany(S) \/ Tidies(S)
  \/ DeletesTerminal
  \/ Restart

Spec == Init /\ [][Next]_vars

\* Every agent call, review and verification ends, by its own timeout at the
\* latest, and the scheduler triggers its task again and again.
FairSpec ==
  /\ Spec
  /\ \A r \in Runs : WF_vars(Works(r))
  /\ \A p \in Proposals : WF_vars(ReviewEnds(p))
  /\ WF_vars(CronBegin)

-----------------------------------------------------------------------------
(* Properties                                                              *)

\* The proposals whose rows nobody changes under those who work on them.
Untouched ==
  {p \in Proposals : Overrides[p] \cap {"midReview", "direct", "complete", "stale"} = {}}

\* r has claimed p: it executes it, or has it in its bundle.
Holds(r, p) ==
  \/ run[r].kind # "idle" /\ run[r].item = p
  \/ run[r].kind = "batch" /\ p \in run[r].todo

\* No untouched proposal is executed twice at the same time, by the executor, a bundle
\* and the scheduler's task together, whatever happens to the others.
OneExecution ==
  \A p \in Untouched, r, s \in Runs : Holds(r, p) /\ Holds(s, p) => r = s

\* A proposal is 'executing' exactly while somebody executes it; one that is
\* deleted meanwhile stays deleted.
ExecutingIsHeld ==
  \A p \in Untouched :
    /\ row[p].status = "executing" => \E r \in Runs : Holds(r, p)
    /\ \A r \in Runs : Holds(r, p) => row[p].status \in {"executing", "deleted"}

\* A review in flight is the only one of its proposal, and finds it 'reviewing'
\* when it ends: its verdict overwrites no decision and no execution.
ReviewingIsHeld ==
  \A p \in Untouched :
    /\ row[p].status = "reviewing" => review[p] # {}
    /\ review[p] # {} => row[p].status \in {"reviewing", "deleted"}
    /\ \A k, l \in review[p] : k = l

\* activeCount is the number of executions that took a slot, so that no slot is
\* lost or given back twice, whatever happens to the rows.
SlotsAreAccounted == active = Cardinality(Slotted)

\* A proposal that requires an approval is executed only with its owner's, again
\* after every retry; putting it back to 'proposed' takes the approval back.
OwnerConsents ==
  \A p \in Untouched :
    /\ row[p].status \in {"approved", "executing", "completed", "failed", "merged"}
    /\ row[p].autonomy = "requires_approval"
    => row[p].approver = "owner"

\* What a run in flight looks like.
RunShape ==
  \A r \in Runs :
    /\ run[r].kind = "idle" => run[r] = Idle
    /\ run[r].kind # "idle" => run[r].item \in Proposals
    /\ run[r].stage = "verify" => run[r].kind \in {"single", "cron"}
    /\ run[r].stage \in {"gate", "retry", "regate"} => run[r].kind = "single"
    /\ run[r].item \notin run[r].todo

\* The inductive invariant.
PipelineInv ==
  /\ TypeOK /\ RunShape /\ OneExecution /\ ExecutingIsHeld /\ ReviewingIsHeld
  /\ OwnerConsents

RestartsCease == <>[][~Restart]_vars

\* Every approved proposal is taken up, whoever approved it and whatever the
\* executor was told.
ApprovedIsTakenUp ==
  RestartsCease =>
    \A p \in Proposals : row[p].status = "approved" ~> row[p].status # "approved"

\* Nothing stays 'executing' or 'reviewing'.
WorkEnds ==
  RestartsCease =>
    \A p \in Proposals :
      row[p].status \in {"executing", "reviewing"}
        ~> row[p].status \notin {"executing", "reviewing"}

-----------------------------------------------------------------------------
(* The life each proposal is promised.                                     *)

LifeOf(p) ==
  CASE row[p].status = "absent"                  -> "absent"
    [] row[p].status \in Undecided               -> "open"
    [] row[p].status = "approved"                -> "authorised"
    [] row[p].status = "executing"               -> "running"
    [] row[p].status \in {"completed", "failed"} -> "settled"
    [] row[p].status = "deleted"                 -> "gone"
    [] OTHER                                     -> "closed"

Lifecycle == INSTANCE ProposalLifecycle WITH
  Proposals <- Untouched,
  Workers <- Runs,
  life <- [p \in Untouched |-> LifeOf(p)],
  workers <- [p \in Untouched |-> {r \in Runs : Holds(r, p)}]

\* All the parts together keep the promise made of each untouched proposal.
ImplementsLifecycle == Lifecycle!LifeSpec
=============================================================================
