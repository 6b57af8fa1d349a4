----------------------- MODULE ProposalLifecycle_proof -----------------------
(***************************************************************************)
(* ProposalExecutor implements ProposalLifecycle, for every set of         *)
(* proposals and runs, every capacity, batch size and number of retries.   *)
(*                                                                         *)
(* The workers of a proposal follow from the pipeline's invariant, so what *)
(* is left to show of a step is how it moves each status, and that nobody  *)
(* joins the work on a proposal that somebody executes.  As the steps      *)
(* compose, this is stated of any rows and runs that a part of a step      *)
(* makes of row and run.  The promise is made of the untouched proposals,  *)
(* so it is stated of those; the others may be anywhere.                   *)
(***************************************************************************)
EXTENDS ProposalExecutor_proof

\* Where a status may go in one step.
Allowed(s, t) ==
  \/ t = s
  \/ s # "absent" /\ t = "deleted"
  \/ s = "absent" /\ t \in Undecided
  \/ s \in Undecided /\ t \in Undecided \cup {"approved", "executing", "rejected", "expired"}
  \/ s = "approved" /\ t \in {"executing", "completed"}
  \/ s = "executing" /\ t \in {"approved", "completed", "failed"}
  \/ /\ s \in {"completed", "failed"}
     /\ t \in {"completed", "failed", "approved", "proposed", "merged", "expired"}

Joins(r, p, rn) == HoldsIn(rn, r, p) /\ ~HoldsIn(run, r, p)

Moved(rows, rn) ==
  \A p \in Untouched :
    /\ Allowed(row[p].status, rows[p].status)
    /\ \A r \in Runs :
         Joins(r, p, rn) =>
           row[p].status \notin {"executing", "deleted"} /\ rows[p].status = "executing"

-----------------------------------------------------------------------------
(* Parts of steps                                                          *)

LEMMA NothingMoves == Moved(row, run)
BY DEF Moved, Allowed, Joins

\* Where the updates of the store take a status.
LEMMA OpsAllowed ==
  ASSUME NEW r \in Row
  PROVE  /\ \A who \in {"owner", "reviewer"} : Allowed(r.status, Approve(r, who).status)
         /\ Allowed(r.status, Reject(r).status)
         /\ Allowed(r.status, MarkReviewing(r).status)
         /\ r.status \in {"approved", "executing", "deleted"} =>
              \A b \in BOOLEAN : Allowed(r.status, MarkCompleted(r, b).status)
         /\ r.status \in {"completed", "executing", "deleted"} =>
              Allowed(r.status, MarkFailed(r).status)
         /\ SetPrUrl(r).status = r.status
         /\ Allowed(r.status, MarkMerged(r).status)
         /\ Allowed(r.status, ResetToApproved(r).status)
         /\ Allowed(r.status, ResetToProposed(r).status)
         /\ Allowed(r.status, ExpireStale(r).status)
         /\ Allowed(r.status, ArchiveStale(r).status)
         /\ Allowed(r.status, DeleteTerminal(r).status)
         /\ Allowed(r.status, Delete(r).status)
         /\ Allowed(r.status, Recovered(r).status)
<1> USE DEF Allowed, Undecided, To, When, Row
<1>1. \A who \in {"owner", "reviewer"} : Allowed(r.status, Approve(r, who).status)
  BY DEF Approve
<1>2. Allowed(r.status, Reject(r).status) /\ Allowed(r.status, MarkReviewing(r).status)
  BY DEF Reject, MarkReviewing
<1>3. r.status \in {"approved", "executing", "deleted"} =>
        \A b \in BOOLEAN : Allowed(r.status, MarkCompleted(r, b).status)
  BY DEF MarkCompleted, Exists
<1>4. r.status \in {"completed", "executing", "deleted"} =>
        Allowed(r.status, MarkFailed(r).status)
  BY DEF MarkFailed, Exists
<1>5. SetPrUrl(r).status = r.status /\ Allowed(r.status, MarkMerged(r).status)
  BY DEF SetPrUrl, MarkMerged
<1>6. /\ Allowed(r.status, ResetToApproved(r).status)
      /\ Allowed(r.status, ResetToProposed(r).status)
  BY DEF ResetToApproved, ResetToProposed
<1>7. Allowed(r.status, ExpireStale(r).status) /\ Allowed(r.status, ArchiveStale(r).status)
  BY DEF ExpireStale, ArchiveStale
<1>8. Allowed(r.status, DeleteTerminal(r).status) /\ Allowed(r.status, Delete(r).status)
  BY DEF DeleteTerminal, Delete, Terminal, Exists
<1>9. Allowed(r.status, Recovered(r).status)
  BY DEF Recovered
<1> HIDE DEF Allowed, Undecided
<1> QED BY <1>1, <1>2, <1>3, <1>4, <1>5, <1>6, <1>7, <1>8, <1>9

\* A claim of a proposal that was approved, before the step or by it.
LEMMA ClaimMoves ==
  ASSUME NEW rows \in [Proposals -> Row], NEW rn \in [Runs -> Run], Moved(rows, rn),
         NEW q \in Proposals, rows[q].status = "approved",
         q \in Untouched => row[q].status \in Undecided \cup {"approved"},
         NEW r \in Runs, NEW b \in Run, b.kind \in {"single", "cron"}, b.item = q
  PROVE  Moved([rows EXCEPT ![q] = MarkExecuting(@)], [rn EXCEPT ![r] = b])
<1> DEFINE rows2 == [rows EXCEPT ![q] = MarkExecuting(@)]
           rn2 == [rn EXCEPT ![r] = b]
<1>1. rows2[q].status = "executing" /\ \A p \in Proposals \ {q} : rows2[p] = rows[p]
  BY DEF MarkExecuting, Claimable, To, Row
<1>2. rn2[r] = b /\ \A s \in Runs \ {r} : rn2[s] = rn[s]
  OBVIOUS
<1> HIDE DEF rows2, rn2
<1>3. \A p \in Proposals, s \in Runs : HoldsIn(rn2, s, p) => p = q \/ HoldsIn(rn, s, p)
  BY <1>2 DEF HoldsIn
<1>4. ASSUME NEW p \in Untouched
      PROVE  /\ Allowed(row[p].status, rows2[p].status)
             /\ \A s \in Runs : Joins(s, p, rn2) =>
                  row[p].status \notin {"executing", "deleted"} /\ rows2[p].status = "executing"
  <2>1. CASE p = q
    BY <1>1, <2>1 DEF Allowed, Undecided
  <2>2. CASE p # q
    BY <1>1, <1>3, <2>2, UntouchedOnes DEF Moved, Joins
  <2> QED BY <2>1, <2>2
<1>5. Moved(rows2, rn2)
  BY <1>4 DEF Moved
<1> QED BY <1>5 DEF rows2, rn2

\* The item of a run ends, and the run goes on with another of its bundle or not
\* at all.
LEMMA ItemMoves ==
  ASSUME Fit(row, run, review), NEW r \in Runs, run[r].kind # "idle",
         NEW w, run[r].item \in Untouched => Ends(row[run[r].item], w), NEW b,
         \/ b = Idle
         \/ /\ run[r].kind = "batch" /\ b.kind = "batch"
            /\ b.item \in run[r].todo /\ b.todo \subseteq run[r].todo
  PROVE  /\ Moved([row EXCEPT ![run[r].item] = w], [run EXCEPT ![r] = b])
         /\ run[r].item \in Proposals
         /\ run[r].item \in Untouched => w.status # "approved"
<1> DEFINE p0 == run[r].item
           rows == [row EXCEPT ![p0] = w]
           rn == [run EXCEPT ![r] = b]
<1>1. /\ row \in [Proposals -> Row] /\ run \in [Runs -> Run] /\ p0 \in Proposals
      /\ p0 \in Untouched => row[p0].status \in {"executing", "deleted"}
  BY DEF Fit, FitTypes, FitShape, FitHeld, HoldsIn
<1>2. p0 \in Untouched => /\ w.status \in {"completed", "failed", "deleted"}
                          /\ Allowed(row[p0].status, w.status)
  BY <1>1 DEF Ends, Allowed
<1>3. rows[p0] = w /\ \A p \in Proposals \ {p0} : rows[p] = row[p]
  BY <1>1
<1>4. rn[r] = b /\ \A s \in Runs \ {r} : rn[s] = run[s]
  BY <1>1
<1> HIDE DEF p0, rows, rn
<1>5. \A s \in Runs, p \in Proposals : HoldsIn(rn, s, p) => HoldsIn(run, s, p)
  <2>1. CASE b = Idle
    BY <1>4, <2>1 DEF HoldsIn, Idle
  <2>2. CASE /\ run[r].kind = "batch" /\ b.kind = "batch"
             /\ b.item \in run[r].todo /\ b.todo \subseteq run[r].todo
    BY <1>4, <2>2 DEF HoldsIn
  <2> QED BY <2>1, <2>2
<1>6. \A p \in Untouched : Allowed(row[p].status, rows[p].status)
  <2> SUFFICES ASSUME NEW p \in Untouched PROVE Allowed(row[p].status, rows[p].status)
    OBVIOUS
  <2>1. CASE p = p0
    BY <1>2, <1>3, <2>1
  <2>2. CASE p # p0
    BY <1>3, <2>2, UntouchedOnes DEF Allowed
  <2> QED BY <2>1, <2>2
<1>7. Moved(rows, rn)
  BY <1>5, <1>6, UntouchedOnes DEF Moved, Joins
<1> QED BY <1>1, <1>2, <1>7 DEF rows, rn, p0

\* Moves depend on the statuses alone.
LEMMA StatusMoves ==
  ASSUME NEW rows, NEW rows2, NEW rn, Moved(rows, rn),
         \A p \in Untouched : rows2[p].status = rows[p].status
  PROVE  Moved(rows2, rn)
BY DEF Moved

LEMMA OnApprovedMoves ==
  ASSUME Fit(row, run, review), NEW rows \in [Proposals -> Row], Moved(rows, run),
         NEW p \in Proposals, OnApproved(rows, p),
         p \in Untouched /\ rows[p].status = "approved"
           => row[p].status \in Undecided \cup {"approved"}
  PROVE  Moved(row', run')
<1>1. CASE row' = rows /\ UNCHANGED <<run, active>>
  BY <1>1
<1>2. CASE p \in Approved(rows) /\ ExecuteProposal(rows, p)
  <2>1. PICK r \in Runs : run' = [run EXCEPT ![r] = Begin("single", p)]
    BY <1>2 DEF ExecuteProposal
  <2>2. /\ rows[p].status = "approved" /\ row' = [rows EXCEPT ![p] = MarkExecuting(@)]
        /\ Begin("single", p).kind = "single" /\ Begin("single", p).item = p
    BY <1>2 DEF Approved, ExecuteProposal, Begin, Idle
  <2>3. run \in [Runs -> Run]
    BY DEF Fit, FitTypes
  <2> DEFINE b == Begin("single", p)
  <2>0. b \in Run
    BY RunTypes DEF Kinds
  <2>4. b.kind \in {"single", "cron"} /\ b.item = p /\ run' = [run EXCEPT ![r] = b]
    BY <2>1, <2>2
  <2> HIDE DEF b
  <2>5. Moved([rows EXCEPT ![p] = MarkExecuting(@)], [run EXCEPT ![r] = b])
    BY <2>0, <2>2, <2>3, <2>4, ClaimMoves
  <2> QED BY <2>2, <2>4, <2>5
<1> QED BY <1>1, <1>2 DEF OnApproved

LEMMA PickupMoves ==
  ASSUME Fit(row, run, review), NEW rows \in [Proposals -> Row], NEW r \in Runs,
         Moved(rows, [run EXCEPT ![r] = Idle]), PickupNext(rows, r),
         \A q \in Untouched : rows[q].status = "approved" => row[q].status = "approved"
  PROVE  Moved(row', run')
<1> DEFINE rn == [run EXCEPT ![r] = Idle]
<1>1. CASE row' = rows /\ run' = rn
  BY <1>1
<1>2. ASSUME NEW p \in Oldest(rows),
             row' = [rows EXCEPT ![p] = MarkExecuting(@)],
             run' = [run EXCEPT ![r] = Begin("single", p)]
      PROVE  Moved(row', run')
  <2>1. /\ p \in Proposals /\ rows[p].status = "approved"
        /\ p \in Untouched => row[p].status = "approved"
    BY DEF Oldest, Approved
  <2>2. Begin("single", p).kind = "single" /\ Begin("single", p).item = p
    BY DEF Begin, Idle
  <2>3. rn \in [Runs -> Run] /\ run' = [rn EXCEPT ![r] = Begin("single", p)]
    BY <1>2, RunTypes DEF Fit, FitTypes
  <2> DEFINE b == Begin("single", p)
  <2>0. b \in Run
    BY <2>1, RunTypes DEF Kinds
  <2>4. /\ b.kind \in {"single", "cron"} /\ b.item = p /\ run' = [rn EXCEPT ![r] = b]
        /\ row' = [rows EXCEPT ![p] = MarkExecuting(@)]
    BY <1>2, <2>2, <2>3
  <2> HIDE DEF rn, b
  <2>5. Moved(rows, rn)
    BY DEF rn
  <2>6. /\ p \in Untouched => row[p].status \in Undecided \cup {"approved"}
        /\ rn \in [Runs -> Run]
    BY <2>1, <2>3
  <2>7. Moved([rows EXCEPT ![p] = MarkExecuting(@)], [rn EXCEPT ![r] = b])
    BY <2>0, <2>1, <2>4, <2>5, <2>6, ClaimMoves
  <2> QED BY <2>4, <2>7
<1> QED BY <1>1, <1>2 DEF PickupNext

LEMMA ItemEndsMoves ==
  ASSUME Fit(row, run, review), NEW r \in Runs, run[r].kind \in Kinds,
         NEW w \in Row, run[r].item \in Untouched => Ends(row[run[r].item], w), NEW ok \in BOOLEAN,
         ItemEnds(r, w, ok)
  PROVE  Moved(row', run')
<1> DEFINE rows == Update(run[r].item, w)
           rn == [run EXCEPT ![r] = Idle]
<1>1. /\ run \in [Runs -> Run] /\ row \in [Proposals -> Row] /\ run[r].kind # "idle"
      /\ run[r].todo \in SUBSET Proposals
  BY DEF Fit, FitTypes, Kinds, Run
<1>2. /\ Moved(rows, rn) /\ run[r].item \in Proposals
      /\ run[r].item \in Untouched => w.status # "approved"
  BY <1>1, ItemMoves DEF Update
<1>3. rows \in [Proposals -> Row] /\ rn \in [Runs -> Run]
  BY <1>1, RunTypes DEF Update
<1>4. \A q \in Untouched : rows[q].status = "approved" => row[q].status = "approved"
  BY <1>1, <1>2, UntouchedOnes DEF Update
<1> HIDE DEF rows
<1>5. CASE PickupNext(rows, r)
  BY <1>2, <1>3, <1>4, <1>5, PickupMoves
<1>6. CASE run[r].kind = "cron" /\ CronNext(rows, r)
  <2> DEFINE free == {x \in run[r].todo : Claimable(rows[x])}
  <2>1. CASE run' = rn /\ row' = rows
    BY <1>2, <2>1
  <2>2. CASE \E q \in free, skipped \in SUBSET (run[r].todo \ free) :
               /\ run' = [run EXCEPT ![r] =
                    [Begin("cron", q) EXCEPT !.todo = run[r].todo \ ({q} \cup skipped)]]
               /\ row' = [rows EXCEPT ![q] = MarkExecuting(@)]
    <3>1. PICK q \in free, skipped \in SUBSET (run[r].todo \ free) :
               /\ run' = [run EXCEPT ![r] =
                    [Begin("cron", q) EXCEPT !.todo = run[r].todo \ ({q} \cup skipped)]]
               /\ row' = [rows EXCEPT ![q] = MarkExecuting(@)]
      BY <2>2
    <3> DEFINE b == [Begin("cron", q) EXCEPT !.todo = run[r].todo \ ({q} \cup skipped)]
    <3>2. /\ q \in Proposals /\ rows[q].status = "approved"
          /\ q \in Untouched => row[q].status = "approved"
      BY <1>1, <1>4 DEF Claimable
    <3>3. b \in Run /\ b.kind \in {"single", "cron"} /\ b.item = q
      BY <1>1, <3>2 DEF Begin, Idle, Run, Kinds, Stages
    <3>4. run' = [rn EXCEPT ![r] = b] /\ row' = [rows EXCEPT ![q] = MarkExecuting(@)]
      BY <3>1
    <3> HIDE DEF b, rn
    <3>5. Moved([rows EXCEPT ![q] = MarkExecuting(@)], [rn EXCEPT ![r] = b])
      BY <1>2, <1>3, <3>2, <3>3, ClaimMoves
    <3> QED BY <3>4, <3>5
  <2> QED BY <1>6, <2>1, <2>2 DEF CronNext
<1>7. CASE run[r].kind = "batch" /\ BatchNext(rows, r, ok)
  <2> DEFINE done == run[r].done \cup (IF ok THEN {run[r].item} ELSE {})
  <2>1. ASSUME NEW q \in run[r].todo, row' = rows,
               run' = [run EXCEPT ![r] =
                 [Begin("batch", q) EXCEPT !.todo = run[r].todo \ {q}, !.done = done]]
        PROVE  Moved(row', run')
    <3> DEFINE b == [Begin("batch", q) EXCEPT !.todo = run[r].todo \ {q}, !.done = done]
    <3>1. b.kind = "batch" /\ b.item \in run[r].todo /\ b.todo \subseteq run[r].todo
      BY DEF Begin, Idle
    <3>2. run' = [run EXCEPT ![r] = b] /\ row' = [row EXCEPT ![run[r].item] = w]
      BY <2>1 DEF Update, rows
    <3> HIDE DEF b
    <3> QED BY <1>1, <1>7, <3>1, <3>2, ItemMoves
  <2>2. ASSUME NEW made \in BOOLEAN,
               PickupNext([q \in Proposals |->
                        IF made /\ q \in done THEN SetPrUrl(rows[q]) ELSE rows[q]], r)
        PROVE  Moved(row', run')
    <3> DEFINE rows2 == [q \in Proposals |->
                          IF made /\ q \in done THEN SetPrUrl(rows[q]) ELSE rows[q]]
    <3>1. \A a \in Row : SetPrUrl(a) \in Row /\ SetPrUrl(a).status = a.status
      BY RowOps, OpsAllowed
    <3>2. rows2 \in [Proposals -> Row] /\ \A q \in Proposals : rows2[q].status = rows[q].status
      BY <1>3, <3>1
    <3>3. PickupNext(rows2, r)
      BY <2>2
    <3> HIDE DEF rows2, rn
    <3>4. Moved(rows2, rn)
      BY <1>2, <3>2, UntouchedOnes, StatusMoves
    <3>5. \A q \in Untouched : rows2[q].status = "approved" => row[q].status = "approved"
      BY <1>4, <3>2, UntouchedOnes
    <3> QED BY <3>2, <3>3, <3>4, <3>5, PickupMoves DEF rn
  <2> QED BY <1>7, <2>1, <2>2 DEF BatchNext
<1>8. CASE row' = rows /\ run' = rn
  BY <1>2, <1>8
<1> QED BY <1>5, <1>6, <1>7, <1>8 DEF ItemEnds, rows

LEMMA FinishMoves ==
  ASSUME Fit(row, run, review), NEW r \in Runs, run[r].kind \in Kinds,
         Finish(r) \/ Fail(r)
  PROVE  Moved(row', run')
<1>1. run[r].item \in Proposals /\ row[run[r].item] \in Row
  BY DEF Fit, FitTypes, FitShape, Kinds
<1>2. run[r].item \in Untouched => row[run[r].item].status \in {"executing", "deleted"}
  BY <1>1 DEF Fit, FitHeld, HoldsIn, Kinds
<1>3. /\ MarkFailed(row[run[r].item]) \in Row
      /\ \A b \in BOOLEAN : MarkCompleted(row[run[r].item], b) \in Row
      /\ run[r].item \in Untouched =>
           /\ Ends(row[run[r].item], MarkFailed(row[run[r].item]))
           /\ \A b \in BOOLEAN : Ends(row[run[r].item], MarkCompleted(row[run[r].item], b))
  BY <1>1, <1>2, RowOps, EndOps
<1>4. CASE Fail(r) \/ ItemEnds(r, MarkFailed(row[run[r].item]), TRUE)
  BY <1>3, <1>4, ItemEndsMoves DEF Fail
<1>5. ASSUME NEW b \in BOOLEAN, ItemEnds(r, MarkCompleted(row[run[r].item], b), TRUE)
      PROVE  Moved(row', run')
  BY <1>3, <1>5, ItemEndsMoves
<1> QED BY <1>4, <1>5 DEF Finish

LEMMA GoToMoves ==
  ASSUME Fit(row, run, review), NEW r \in Runs, NEW stage, GoTo(r, stage)
  PROVE  Moved(row', run')
<1>1. /\ row' = row /\ \A s \in Runs \ {r} : run'[s] = run[s]
      /\ run'[r].kind = run[r].kind /\ run'[r].item = run[r].item
      /\ run'[r].todo = run[r].todo
  BY DEF Fit, FitTypes, GoTo, Run
<1>2. \A s \in Runs, p \in Proposals : HoldsIn(run', s, p) <=> HoldsIn(run, s, p)
  BY <1>1 DEF HoldsIn
<1> QED BY <1>1, <1>2, UntouchedOnes DEF Moved, Allowed, Joins

-----------------------------------------------------------------------------
(* Steps                                                                   *)

LEMMA WorksMove ==
  ASSUME Fit(row, run, review), NEW r \in Runs, Works(r)
  PROVE  Moved(row', run')
<1>1. /\ run[r].stage = "verify" => run[r].kind \in {"single", "cron"}
      /\ run[r].stage \in {"gate", "retry", "regate"} => run[r].kind = "single"
  BY DEF Fit, FitShape
<1>2. CASE run[r].kind \in Kinds /\ (Finish(r) \/ Fail(r))
  BY <1>2, FinishMoves
<1>3. CASE \E stage \in Stages : GoTo(r, stage)
  BY <1>3, GoToMoves
<1> QED BY <1>1, <1>2, <1>3
        DEF Works, AgentAnswers, GateJudges, Verified, RunThrows, Kinds, Stages

LEMMA StartsMove ==
  ASSUME Fit(row, run, review), Starts
  PROVE  Moved(row', run')
<1>1. run \in [Runs -> Run] /\ row \in [Proposals -> Row]
  BY DEF Fit, FitTypes
<1>2. CASE ExecuteEach
  <2>1. PICK p \in Oldest(row) : ExecuteProposal(row, p) /\ HasCapacity(active)
    BY <1>2 DEF ExecuteEach
  <2>2. p \in Proposals /\ OnApproved(row, p)
    BY <2>1 DEF Oldest, Approved, OnApproved
  <2>3. row[p].status = "approved"
    BY DEF Oldest, Approved
  <2> QED BY <1>1, <2>2, <2>3, NothingMoves, OnApprovedMoves
<1>3. CASE CronBegin
  <2>1. PICK S \in SUBSET Approved(row), r \in Runs : \E p \in S :
          /\ run' = [run EXCEPT ![r] = [Begin("cron", p) EXCEPT !.todo = S \ {p}]]
          /\ row' = Update(p, MarkExecuting(row[p]))
    BY <1>3 DEF CronBegin
  <2>2. PICK p \in S :
          /\ run' = [run EXCEPT ![r] = [Begin("cron", p) EXCEPT !.todo = S \ {p}]]
          /\ row' = Update(p, MarkExecuting(row[p]))
    BY <2>1
  <2> DEFINE b == [Begin("cron", p) EXCEPT !.todo = S \ {p}]
  <2>3. p \in Proposals /\ S \ {p} \in SUBSET Proposals /\ row[p].status = "approved"
    BY DEF Approved
  <2>4. b \in Run /\ b.kind \in {"single", "cron"} /\ b.item = p
    BY <2>3 DEF Begin, Idle, Run, Kinds, Stages
  <2>5. run' = [run EXCEPT ![r] = b] /\ row' = [row EXCEPT ![p] = MarkExecuting(@)]
    BY <2>2 DEF Update
  <2> HIDE DEF b
  <2>6. Moved([row EXCEPT ![p] = MarkExecuting(@)], [run EXCEPT ![r] = b])
    BY <1>1, <2>3, <2>4, NothingMoves, ClaimMoves
  <2> QED BY <2>5, <2>6
<1>4. CASE ExecuteBatch
  <2>1. PICK r \in Runs, p \in Oldest(row) :
          run' = [run EXCEPT ![r] = [Begin("batch", p) EXCEPT !.todo = Approved(row) \ {p}]]
    BY <1>4 DEF ExecuteBatch
  <2>2. \A s \in Runs, q \in Proposals : Joins(s, q, run') => q \in Approved(row)
    BY <1>1, <2>1 DEF Joins, HoldsIn, Begin, Idle, Oldest
  <2>3. \A q \in Proposals :
          /\ q \in Approved(row) => row[q].status = "approved" /\ row'[q].status = "executing"
          /\ q \notin Approved(row) => row'[q] = row[q]
    <3>1. row' = [q \in Proposals |->
                    IF q \in Approved(row) THEN MarkExecuting(row[q]) ELSE row[q]]
      BY <1>4 DEF ExecuteBatch, UpdateAll
    <3>2. \A a \in Row : a.status = "approved" => MarkExecuting(a).status = "executing"
      BY DEF MarkExecuting, Claimable, To, Row
    <3>3. \A q \in Approved(row) : row[q].status = "approved"
      BY DEF Approved
    <3> QED BY <1>1, <3>1, <3>2, <3>3
  <2> QED BY <2>2, <2>3, UntouchedOnes DEF Moved, Allowed
<1> QED BY <1>2, <1>3, <1>4 DEF Starts

\* A step that only writes rows.
LEMMA RowsMove ==
  ASSUME run' = run, \A p \in Untouched : Allowed(row[p].status, row'[p].status)
  PROVE  Moved(row', run')
BY DEF Moved, Joins

LEMMA RowMoves ==
  ASSUME row \in [Proposals -> Row], NEW p \in Proposals, NEW a,
         p \in Untouched => Allowed(row[p].status, a.status)
  PROVE  /\ Moved(Update(p, a), run)
         /\ row' = Update(p, a) /\ run' = run => Moved(row', run')
<1> DEFINE rows == Update(p, a)
<1>1. rows[p] = a /\ \A q \in Proposals \ {p} : rows[q] = row[q]
  BY DEF Update
<1> HIDE DEF rows
<1>2. Moved(rows, run)
  BY <1>1, UntouchedOnes DEF Moved, Joins, Allowed
<1> QED BY <1>2 DEF rows

LEMMA ReviewsMove ==
  ASSUME Fit(row, run, review), NEW p \in Proposals, Reviews(p)
  PROVE  Moved(row', run')
<1>1. row \in [Proposals -> Row] /\ row[p] \in Row
  BY DEF Fit, FitTypes
<1>2. ASSUME NEW a \in {"auto", "requires_approval"}, NEW railed \in Rails,
             Create(p, a, railed)
      PROVE  Moved(row', run')
  <2>1. Allowed(row[p].status, NewRow("proposed", a, railed).status)
    BY <1>2 DEF Create, NewRow, Allowed, Undecided
  <2> QED BY <1>1, <1>2, <2>1, RowMoves DEF Create
<1>3. ASSUME NEW railed \in Rails, Propose(p, railed)
      PROVE  Moved(row', run')
  <2> DEFINE n == MarkReviewing(NewRow("proposed", "requires_approval", railed))
  <2>1. n.status = "reviewing"
    BY DEF MarkReviewing, NewRow, When, To
  <2>2. Allowed(row[p].status, n.status)
    BY <1>3, <2>1 DEF Propose, Allowed, Undecided
  <2> QED BY <1>1, <1>3, <2>2, RowMoves DEF Propose
<1>4. ASSUME NEW kind \in ReviewKinds, NEW queued \in BOOLEAN, StartReview(p, kind, queued)
      PROVE  Moved(row', run')
  BY <1>1, <1>4, OpsAllowed, RowMoves DEF StartReview
<1>5. CASE ProposeDirect(p)
  <2>1. /\ run \in [Runs -> Run] /\ p \notin Untouched
        /\ \A q \in Untouched : row'[q] = row[q]
    BY <1>1, <1>5, UntouchedOnes DEF Fit, FitTypes, ProposeDirect, Update, Untouched
  <2>2. PICK r \in Runs : run[r] = Idle /\ run' = [run EXCEPT ![r] = Begin("direct", p)]
    BY <1>5 DEF ProposeDirect
  <2>3. \A s \in Runs, q \in Untouched : HoldsIn(run', s, q) => HoldsIn(run, s, q)
    BY <2>1, <2>2 DEF HoldsIn, Begin, Idle
  <2> QED BY <2>1, <2>3 DEF Moved, Allowed, Joins
<1> QED BY <1>2, <1>3, <1>4, <1>5 DEF Reviews

LEMMA ReviewEndsMove ==
  ASSUME Fit(row, run, review), NEW p \in Proposals, ReviewEnds(p)
  PROVE  Moved(row', run')
<1>1. row \in [Proposals -> Row] /\ row[p] \in Row
  BY DEF Fit, FitTypes
<1>2. p \in Untouched => \A kind \in review[p] : row[p].status \in {"reviewing", "deleted"}
  BY DEF Fit, FitReviewed
<1>3. ASSUME NEW verdict \in Verdicts, NEW railed \in BOOLEAN
      PROVE  LET saved == SaveReview(row[p], verdict, railed) IN
             /\ saved \in Row
             /\ row[p].status \in {"reviewing", "deleted"} =>
                  \/ row[p].status = "reviewing" /\ saved.status = "reviewed"
                  \/ row[p].status = "deleted" /\ saved = row[p]
  <2>1. SaveReview(row[p], verdict, railed) \in Row
    BY <1>1, RowOps
  <2> QED BY <1>1, <2>1 DEF SaveReview, Exists, Row
<1>4. ASSUME NEW kind \in ReviewKinds, NEW verdict \in Verdicts, NEW railed \in Rails,
             FinishReview(p, kind, verdict, railed)
      PROVE  Moved(row', run')
  <2> DEFINE saved == SaveReview(row[p], verdict, railed)
             advanced == Approve(saved, "reviewer")
  <2>1. /\ saved \in Row
        /\ p \in Untouched => \/ row[p].status = "reviewing" /\ saved.status = "reviewed"
                              \/ row[p].status = "deleted" /\ saved = row[p]
    BY <1>2, <1>3, <1>4, ExecutorAssumption DEF FinishReview
  <2>2. CASE row' = Update(p, saved) /\ run' = run
    <3> HIDE DEF saved
    <3>1. p \in Untouched => Allowed(row[p].status, saved.status)
      BY <2>1 DEF Allowed, Undecided
    <3> QED BY <1>1, <2>2, <3>1, RowMoves
  <2>3. CASE CanAutoAdvance(saved) /\ OnApproved(Update(p, advanced), p)
    <3> HIDE DEF saved
    <3>1. /\ saved.status = "reviewed"
          /\ p \in Untouched => row[p].status = "reviewing"
      BY <2>1, <2>3 DEF CanAutoAdvance
    <3>2. advanced \in Row /\ advanced.status = "approved"
      BY <2>1, <3>1, RowOps DEF Approve, Undecided, To, Row
    <3> HIDE DEF advanced
    <3>3. p \in Untouched => Allowed(row[p].status, advanced.status)
      BY <3>1, <3>2 DEF Allowed, Undecided
    <3> DEFINE rows == Update(p, advanced)
    <3>4. Moved(rows, run) /\ rows \in [Proposals -> Row]
      BY <1>1, <3>2, <3>3, RowMoves DEF Update
    <3> HIDE DEF rows
    <3>5. p \in Untouched => row[p].status \in Undecided
      BY <3>1 DEF Undecided
    <3> QED BY <2>3, <3>4, <3>5, OnApprovedMoves DEF rows
  <2> QED BY <1>4, <2>2, <2>3 DEF FinishReview
<1>5. ASSUME NEW kind \in ReviewKinds, ReviewFails(p, kind)
      PROVE  Moved(row', run')
  <2> DEFINE saved == SaveReview(row[p], "unclear", row[p].railed)
  <2>1. row[p].railed \in BOOLEAN /\ "unclear" \in Verdicts /\ kind \in review[p]
    BY <1>1, <1>5 DEF ReviewFails, Row, Verdicts
  <2>2. p \in Untouched => \/ row[p].status = "reviewing" /\ saved.status = "reviewed"
                           \/ row[p].status = "deleted" /\ saved = row[p]
    BY <1>2, <1>3, <2>1
  <2> HIDE DEF saved
  <2>3. p \in Untouched => Allowed(row[p].status, saved.status)
    BY <2>2 DEF Allowed, Undecided
  <2> QED BY <1>1, <1>5, <2>3, RowMoves DEF ReviewFails, saved
<1> QED BY <1>4, <1>5 DEF ReviewEnds

LEMMA DecidesMove ==
  ASSUME Fit(row, run, review), NEW p \in Proposals, Decides(p)
  PROVE  Moved(row', run')
<1> DEFINE a == Approve(row[p], "owner")
           rows == Update(p, a)
<1>1. row \in [Proposals -> Row] /\ row[p] \in Row
  BY DEF Fit, FitTypes
<1>2. a \in Row /\ Allowed(row[p].status, a.status) /\ Allowed(row[p].status, Reject(row[p]).status)
  BY <1>1, RowOps, OpsAllowed
<1>3. a.status = "approved" => row[p].status \in Undecided \cup {"approved"}
  BY <1>1 DEF Approve
<1> HIDE DEF a
<1>4. /\ rows \in [Proposals -> Row] /\ rows[p] = a
      /\ Moved(rows, run)
  BY <1>1, <1>2, RowMoves DEF Update
<1>5. CASE ApproveAndRun(p)
  <2>1. OnApproved(rows, p)
    BY <1>5 DEF ApproveAndRun, a
  <2> HIDE DEF rows
  <2> QED BY <1>3, <1>4, <2>1, OnApprovedMoves
<1>6. CASE GatewayApproves(p)
  BY <1>4, <1>6 DEF GatewayApproves, a
<1>7. CASE Rejects(p)
  BY <1>1, <1>2, <1>7, RowMoves DEF Rejects
<1> QED BY <1>5, <1>6, <1>7 DEF Decides, ChatApproves, InlineApproves, SlackApproves

LEMMA AfterwardsMove ==
  ASSUME Fit(row, run, review), NEW p \in Proposals, Afterwards(p)
  PROVE  Moved(row', run')
<1>1. row \in [Proposals -> Row] /\ row[p] \in Row
  BY DEF Fit, FitTypes
<1>2. \A a : Writes(a, p) /\ Allowed(row[p].status, a.status) => Moved(row', run')
  BY <1>1, RowMoves DEF Writes
<1>3. /\ Allowed(row[p].status, ResetToApproved(row[p]).status)
      /\ Allowed(row[p].status, ResetToProposed(row[p]).status)
      /\ Allowed(row[p].status, MarkMerged(row[p]).status)
      /\ Allowed(row[p].status, Delete(row[p]).status)
      /\ row[p].status = "completed" => Allowed(row[p].status, MarkFailed(row[p]).status)
      /\ row[p].status \in {"approved", "executing"} =>
           \A pr \in BOOLEAN : Allowed(row[p].status, MarkCompleted(row[p], pr).status)
  BY <1>1, OpsAllowed
<1> QED BY <1>2, <1>3
        DEF Afterwards, Retries, Requeues, Merges, FindsClosed, Deletes, CompletesByHand

\* A step that writes several rows.
LEMMA ManyRowsMove ==
  ASSUME NEW S \in SUBSET Proposals, NEW f, run' = run,
         row' = [p \in Proposals |-> IF p \in S THEN f[p] ELSE row[p]],
         \A p \in S \cap Untouched : Allowed(row[p].status, f[p].status)
  PROVE  Moved(row', run')
<1>1. ASSUME NEW p \in Untouched PROVE Allowed(row[p].status, row'[p].status)
  <2>1. CASE p \in S
    BY <2>1, UntouchedOnes
  <2>2. CASE p \notin S
    BY <2>2, UntouchedOnes DEF Allowed
  <2> QED BY <2>1, <2>2
<1> QED BY <1>1, RowsMove

LEMMA ManyMove ==
  ASSUME Fit(row, run, review),
         NEW S \in SUBSET Proposals, DecidesMany(S) \/ Tidies(S) \/ DeletesTerminal
  PROVE  Moved(row', run')
<1>1. \A p \in Proposals : row[p] \in Row
  BY DEF Fit, FitTypes
<1>2. \A p \in Proposals :
        /\ Allowed(row[p].status, Approve(row[p], "owner").status)
        /\ Allowed(row[p].status, Reject(row[p]).status)
        /\ Allowed(row[p].status, ExpireStale(row[p]).status)
        /\ Allowed(row[p].status, ArchiveStale(row[p]).status)
        /\ Allowed(row[p].status, DeleteTerminal(row[p]).status)
        /\ Allowed(row[p].status, SetPrUrl(row[p]).status)
  <2> SUFFICES ASSUME NEW p \in Proposals
               PROVE  /\ Allowed(row[p].status, Approve(row[p], "owner").status)
                      /\ Allowed(row[p].status, Reject(row[p]).status)
                      /\ Allowed(row[p].status, ExpireStale(row[p]).status)
                      /\ Allowed(row[p].status, ArchiveStale(row[p]).status)
                      /\ Allowed(row[p].status, DeleteTerminal(row[p]).status)
                      /\ Allowed(row[p].status, SetPrUrl(row[p]).status)
    OBVIOUS
  <2>1. row[p] \in Row /\ Allowed(row[p].status, row[p].status)
    BY <1>1 DEF Allowed
  <2> QED BY <2>1, OpsAllowed
<1>3. CASE BatchApproves(S)
  <2> DEFINE f == [p \in S |-> Approve(row[p], "owner")]
  <2>1. row' = [p \in Proposals |-> IF p \in S THEN f[p] ELSE row[p]] /\ run' = run
    BY <1>3 DEF BatchApproves
  <2>2. \A p \in S : Allowed(row[p].status, f[p].status)
    BY <1>2
  <2> HIDE DEF f
  <2> QED BY <2>1, <2>2, ManyRowsMove
<1>4. CASE BatchRejects(S)
  <2> DEFINE f == [p \in S |-> Reject(row[p])]
  <2>1. row' = [p \in Proposals |-> IF p \in S THEN f[p] ELSE row[p]] /\ run' = run
    BY <1>4 DEF BatchRejects, UpdateAll
  <2>2. \A p \in S : Allowed(row[p].status, f[p].status)
    BY <1>2
  <2> HIDE DEF f
  <2> QED BY <2>1, <2>2, ManyRowsMove
<1>5. CASE CreatesPr(S)
  <2> DEFINE f == [p \in S |-> SetPrUrl(row[p])]
  <2>1. row' = [p \in Proposals |-> IF p \in S THEN f[p] ELSE row[p]] /\ run' = run
    BY <1>5 DEF CreatesPr, UpdateAll
  <2>2. \A p \in S : Allowed(row[p].status, f[p].status)
    BY <1>2
  <2> HIDE DEF f
  <2> QED BY <2>1, <2>2, ManyRowsMove
<1>6. CASE Expires(S)
  <2> DEFINE f == [p \in S |-> ExpireStale(row[p])]
  <2>1. row' = [p \in Proposals |-> IF p \in S THEN f[p] ELSE row[p]] /\ run' = run
    BY <1>6 DEF Expires, UpdateAll
  <2>2. \A p \in S : Allowed(row[p].status, f[p].status)
    BY <1>2
  <2> HIDE DEF f
  <2> QED BY <2>1, <2>2, ManyRowsMove
<1>7. CASE Archives(S)
  <2> DEFINE f == [p \in S |-> ArchiveStale(row[p])]
  <2>1. row' = [p \in Proposals |-> IF p \in S THEN f[p] ELSE row[p]] /\ run' = run
    BY <1>7 DEF Archives, UpdateAll
  <2>2. \A p \in S : Allowed(row[p].status, f[p].status)
    BY <1>2
  <2> HIDE DEF f
  <2> QED BY <2>1, <2>2, ManyRowsMove
<1>8. CASE ResetsStale(S)
  <2>1. run' = run /\ \A p \in Untouched : p \notin S /\ row'[p] = row[p]
    BY <1>8, UntouchedOnes DEF ResetsStale, UpdateAll, Untouched
  <2> QED BY <2>1, RowsMove DEF Allowed
<1>9. CASE DeletesTerminal
  <2> DEFINE f == [p \in Proposals |-> DeleteTerminal(row[p])]
  <2>1. row' = [p \in Proposals |-> IF p \in Proposals THEN f[p] ELSE row[p]] /\ run' = run
    BY <1>9 DEF DeletesTerminal, UpdateAll
  <2>2. \A p \in Proposals : Allowed(row[p].status, f[p].status)
    BY <1>2
  <2> HIDE DEF f
  <2> QED BY <2>1, <2>2, ManyRowsMove
<1> QED BY <1>3, <1>4, <1>5, <1>6, <1>7, <1>8, <1>9 DEF DecidesMany, Tidies

LEMMA RestartMoves ==
  ASSUME Fit(row, run, review), Restart
  PROVE  Moved(row', run')
<1>1. \A s \in Runs, q \in Proposals : ~HoldsIn(run', s, q)
  BY DEF Restart, HoldsIn, Idle
<1>2. ASSUME NEW p \in Untouched PROVE Allowed(row[p].status, row'[p].status)
  <2>1. row[p] \in Row /\ row'[p] = Recovered(row[p])
    BY UntouchedOnes DEF Fit, FitTypes, Restart, UpdateAll
  <2> QED BY <2>1, OpsAllowed
<1> QED BY <1>1, <1>2, UntouchedOnes DEF Moved, Joins

LEMMA StepMoves ==
  ASSUME Fit(row, run, review), [Next]_vars
  PROVE  Moved(row', run')
<1>1. CASE UNCHANGED vars
  BY <1>1, NothingMoves DEF vars
<1>2. CASE DeletesTerminal
  BY <1>2, ManyMove
<1> QED BY <1>1, <1>2, StartsMove, WorksMove, ReviewsMove, ReviewEndsMove, DecidesMove,
           AfterwardsMove, ManyMove, RestartMoves DEF Next

-----------------------------------------------------------------------------
(* The refinement                                                          *)

\* The phase of a life, by the status.
Phase(s) ==
  CASE s = "absent"                  -> "absent"
    [] s \in Undecided               -> "open"
    [] s = "approved"                -> "authorised"
    [] s = "executing"               -> "running"
    [] s \in {"completed", "failed"} -> "settled"
    [] s = "deleted"                 -> "gone"
    [] OTHER                         -> "closed"

LEMMA Phases ==
  /\ \A s \in Statuses : Phase(s) =
       IF s = "absent" THEN "absent" ELSE IF s \in Undecided THEN "open" ELSE
       IF s = "approved" THEN "authorised" ELSE IF s = "executing" THEN "running" ELSE
       IF s \in {"completed", "failed"} THEN "settled" ELSE
       IF s = "deleted" THEN "gone" ELSE "closed"
BY DEF Phase, Statuses, Undecided

Held(rn, p) == {r \in Runs : HoldsIn(rn, r, p)}

\* What LifeNext allows of one proposal.
LifeMove(l, h, l2, h2) ==
  \/ l2 = l /\ h2 = h
  \/ l = "absent" /\ l2 = "open" /\ h2 = {}
  \/ l = "open" /\ l2 \in {"authorised", "closed"} /\ h2 = {}
  \/ l \in {"open", "authorised"} /\ l2 = "running" /\ \E r \in Runs : h2 = {r}
  \/ l = "authorised" /\ l2 = "settled" /\ h2 = {}
  \/ l = "running" /\ l2 \in {"settled", "authorised"} /\ h2 = {}
  \/ l = "settled" /\ l2 \in {"authorised", "open", "closed"} /\ h2 = {}
  \/ l # "absent" /\ l2 = "gone" /\ h2 \subseteq h

\* Who works on a proposal, by its status.
LEMMA HeldByStatus ==
  ASSUME NEW rows, NEW rn, NEW rv, Fit(rows, rn, rv), NEW p \in Untouched
  PROVE  /\ rows[p].status \in Statuses
         /\ rows[p].status \notin {"executing", "deleted"} => Held(rn, p) = {}
         /\ rows[p].status = "executing" => \E r \in Runs : Held(rn, p) = {r}
<1>1. rows[p].status \in Statuses
  BY UntouchedOnes DEF Fit, FitTypes, Row
<1>2. rows[p].status \notin {"executing", "deleted"} => Held(rn, p) = {}
  BY DEF Fit, FitHeld, Held
<1>3. ASSUME rows[p].status = "executing" PROVE \E r \in Runs : Held(rn, p) = {r}
  <2>1. PICK r \in Runs : HoldsIn(rn, r, p)
    BY <1>3 DEF Fit, FitHeld
  <2>2. \A s \in Runs : HoldsIn(rn, s, p) => s = r
    BY <2>1 DEF Fit, FitSole
  <2> QED BY <2>1, <2>2 DEF Held
<1> QED BY <1>1, <1>2, <1>3

LEMMA MovesAreLife ==
  ASSUME Fit(row, run, review), Fit(row', run', review'), Moved(row', run'),
         NEW p \in Untouched
  PROVE  LifeMove(Phase(row[p].status), Held(run, p), Phase(row'[p].status), Held(run', p))
<1> DEFINE s == row[p].status
           t == row'[p].status
           h == Held(run, p)
           h2 == Held(run', p)
<1>1. /\ s \in Statuses /\ (s \notin {"executing", "deleted"} => h = {})
      /\ s = "executing" => \E r \in Runs : h = {r}
  BY HeldByStatus
<1>2. /\ t \in Statuses /\ (t \notin {"executing", "deleted"} => h2 = {})
      /\ t = "executing" => \E r \in Runs : h2 = {r}
  BY HeldByStatus
<1>3. Allowed(s, t)
  BY DEF Moved
<1>4. s \in {"executing", "deleted"} \/ t # "executing" => h2 \subseteq h
  BY DEF Moved, Joins, Held, HoldsIn
<1> SUFFICES LifeMove(Phase(s), h, Phase(t), h2)
  OBVIOUS
<1> HIDE DEF s, t, h, h2
<1>5. CASE t = s
  <2>1. CASE s = "executing"
    <3>1. h2 = h
      BY <1>1, <1>2, <1>4, <1>5, <2>1
    <3> QED BY <1>5, <3>1 DEF LifeMove
  <2>2. CASE s = "deleted"
    <3>1. Phase(s) = "gone" /\ h2 \subseteq h
      BY <1>1, <1>4, <2>2, Phases DEF Undecided
    <3> QED BY <1>5, <3>1 DEF LifeMove
  <2>3. CASE s \notin {"executing", "deleted"}
    BY <1>1, <1>2, <1>5, <2>3 DEF LifeMove
  <2> QED BY <2>1, <2>2, <2>3
<1>6. CASE s # "absent" /\ t = "deleted"
  <2>1. Phase(s) # "absent" /\ Phase(t) = "gone" /\ h2 \subseteq h
    BY <1>1, <1>2, <1>4, <1>6, Phases DEF Undecided
  <2> QED BY <2>1 DEF LifeMove
<1>7. CASE s = "absent" /\ t \in Undecided
  <2>1. Phase(s) = "absent" /\ Phase(t) = "open" /\ h2 = {}
    BY <1>1, <1>2, <1>7, Phases DEF Undecided
  <2> QED BY <2>1 DEF LifeMove
<1>8. CASE s \in Undecided /\ t \in Undecided
  <2>1. Phase(s) = "open" /\ Phase(t) = "open" /\ h2 = {} /\ h = {}
    BY <1>1, <1>2, <1>8, Phases DEF Undecided
  <2> QED BY <2>1 DEF LifeMove
<1>9. CASE s \in Undecided /\ t \in {"approved", "rejected", "expired"}
  <2>1. Phase(s) = "open" /\ Phase(t) \in {"authorised", "closed"} /\ h2 = {}
    BY <1>1, <1>2, <1>9, Phases DEF Undecided
  <2> QED BY <2>1 DEF LifeMove
<1>10. CASE s \in Undecided \cup {"approved"} /\ t = "executing"
  <2>1. Phase(s) \in {"open", "authorised"} /\ Phase(t) = "running" /\ \E r \in Runs : h2 = {r}
    BY <1>1, <1>2, <1>10, Phases DEF Undecided
  <2> QED BY <2>1 DEF LifeMove
<1>11. CASE s = "approved" /\ t = "completed"
  <2>1. Phase(s) = "authorised" /\ Phase(t) = "settled" /\ h2 = {}
    BY <1>1, <1>2, <1>11, Phases DEF Undecided
  <2> QED BY <2>1 DEF LifeMove
<1>12. CASE s = "executing" /\ t \in {"approved", "completed", "failed"}
  <2>1. Phase(s) = "running" /\ Phase(t) \in {"settled", "authorised"} /\ h2 = {}
    BY <1>1, <1>2, <1>12, Phases DEF Undecided
  <2> QED BY <2>1 DEF LifeMove
<1>13. CASE s \in {"completed", "failed"} /\ t \in {"completed", "failed"}
  <2>1. Phase(s) = "settled" /\ Phase(t) = "settled" /\ h2 = {} /\ h = {}
    BY <1>1, <1>2, <1>13, Phases DEF Undecided
  <2> QED BY <2>1 DEF LifeMove
<1>14. CASE s \in {"completed", "failed"} /\ t \in {"approved", "proposed", "merged", "expired"}
  <2>1. /\ Phase(s) = "settled" /\ Phase(t) \in {"authorised", "open", "closed"}
        /\ h2 = {}
    BY <1>1, <1>2, <1>14, Phases DEF Undecided
  <2> QED BY <2>1 DEF LifeMove
<1> QED BY <1>3, <1>5, <1>6, <1>7, <1>8, <1>9, <1>10, <1>11, <1>12, <1>13, <1>14 DEF Allowed

LEMMA LifeStep ==
  ASSUME Fit(row, run, review), Fit(row', run', review'), Moved(row', run')
  PROVE  Lifecycle!LifeNext
<1>1. \A p \in Proposals :
        /\ LifeOf(p) = Phase(row[p].status) /\ LifeOf(p)' = Phase(row'[p].status)
        /\ {r \in Runs : Holds(r, p)} = Held(run, p)
        /\ {r \in Runs : Holds(r, p)}' = Held(run', p)
  BY DEF LifeOf, Phase, Holds, HoldsIn, Held
<1>2. SUFFICES ASSUME NEW p \in Untouched
               PROVE  \/ Lifecycle!Stay(p) \/ Lifecycle!Open(p) \/ Lifecycle!Decide(p)
                      \/ Lifecycle!Work(p) \/ Lifecycle!End(p) \/ Lifecycle!After(p)
                      \/ Lifecycle!Drop(p)
  BY DEF Lifecycle!LifeNext
<1> p \in Proposals
  BY DEF Untouched
<1>3. LifeMove(LifeOf(p), {r \in Runs : Holds(r, p)}, LifeOf(p)', {r \in Runs : Holds(r, p)}')
  BY <1>1, MovesAreLife
<1> QED BY <1>3 DEF LifeMove, Lifecycle!Stay, Lifecycle!Open, Lifecycle!Decide,
     Lifecycle!Work, Lifecycle!End, Lifecycle!After, Lifecycle!Drop, Lifecycle!Idly,
     Lifecycle!Run

LEMMA LifeStarts == Init => Lifecycle!LifeInit
<1> SUFFICES ASSUME Init PROVE Lifecycle!LifeInit
  OBVIOUS
<1>1. \A p \in Proposals : row[p].status = "absent"
  BY DEF Init, StoreInit, NewRow
<1>2. \A p \in Proposals : LifeOf(p) = Phase(row[p].status) /\ Phase("absent") = "absent"
  BY Phases DEF LifeOf, Phase, Statuses
<1>3. \A p \in Proposals : {r \in Runs : Holds(r, p)} = {}
  BY DEF Init, Holds, Idle
<1> QED BY <1>1, <1>2, <1>3 DEF Lifecycle!LifeInit, Untouched

\* Everything that works on the proposals together keeps the promise of
\* ProposalLifecycle to each whose row nobody changes under those who work on it:
\* every step, whoever takes it and whatever is done to the others, moves it along
\* its life or leaves it alone.
THEOREM LifecycleHolds == Spec => ImplementsLifecycle
<1>1. Init => Fit(row, run, review)
  BY InitFits
<1>2. Fit(row, run, review) /\ [Next]_vars => Fit(row, run, review)'
  BY StepFits
<1>3. Fit(row, run, review) /\ Fit(row, run, review)' /\ [Next]_vars => Lifecycle!LifeNext
  BY StepMoves, LifeStep
<1>4. Spec => []Fit(row, run, review)
  BY <1>1, <1>2, PTL DEF Spec
<1> QED BY <1>2, <1>3, <1>4, LifeStarts, PTL DEF Spec, ImplementsLifecycle, Lifecycle!LifeSpec
=============================================================================
