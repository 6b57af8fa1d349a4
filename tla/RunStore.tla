------------------------------ MODULE RunStore ------------------------------
(***************************************************************************)
(* The delegation_runs table of src/src/runs/store.ts: one row for each    *)
(* execution of a message (a top-level run) and for each task an agent     *)
(* delegates on its behalf (a run with a parent).  It outlives the         *)
(* process.  Ids are given in the order of created_at.                     *)
(*                                                                         *)
(* Each update is a statement of its own, and none of those that the       *)
(* executions make asks what the status was.                               *)
(***************************************************************************)
EXTENDS Integers, FiniteSets

CONSTANTS
  Messages,
  MaxRuns    \* rows of the table (bound)

ASSUME RunsAssumption == MaxRuns \in Nat /\ Messages # {}

VARIABLE run

Ids == 1 .. MaxRuns

\* parent_run_id IS NULL.
None == 0

\* "orphaned" is 'failed' with one of the ORPHAN_REASONS as its result;
\* 'killed' is written as "failed".
RunStatuses == {"absent", "running", "completed", "failed", "orphaned", "superseded"}

\* quiet says that updated_at is older than the sweep allows.
RunRow == [message : Messages, parent : Ids \cup {None}, status : RunStatuses,
           quiet : BOOLEAN]

RunTypeOK == run \in [Ids -> RunRow]

NoRun == [message |-> CHOOSE m \in Messages : TRUE, parent |-> None,
          status |-> "absent", quiet |-> FALSE]

RunInit == run = [i \in Ids |-> NoRun]

TopLevel(rows, i) == rows[i].status # "absent" /\ rows[i].parent = None

\* createRun.
Created(rows, i, m, p) ==
  [rows EXCEPT ![i] = [message |-> m, parent |-> p, status |-> "running", quiet |-> FALSE]]

\* updateProgress; every caller passes the status 'running'.
Progressed(rows, i) ==
  IF rows[i].status = "absent" THEN rows
  ELSE [rows EXCEPT ![i].status = "running", ![i].quiet = FALSE]

\* The first statement of completeRun.
Written(rows, i, status) ==
  IF rows[i].status = "absent" THEN rows
  ELSE [rows EXCEPT ![i].status = status, ![i].quiet = FALSE]

\* j came later, for the same message, and is completed.
Replaces(rows, j, i) ==
  /\ TopLevel(rows, i) /\ TopLevel(rows, j)
  /\ rows[j].message = rows[i].message
  /\ i < j /\ rows[j].status = "completed"

\* supersedePriorOrphanedRuns: what else completeRun does for 'completed'.
Superseded(rows, i) ==
  [j \in Ids |->
     IF Replaces(rows, i, j) /\ rows[j].status \in {"running", "orphaned"}
       THEN [rows[j] EXCEPT !.status = "superseded", !.quiet = FALSE]
       ELSE rows[j]]

\* Mutant: the runs it replaces are left alone.
CompletedAlone(rows, i) == Written(rows, i, "completed")

Completed(rows, i) == Superseded(Written(rows, i, "completed"), i)

\* Mutant: the runs of delegated agents are left to their callers.
ResetTopLevel(rows) ==
  [i \in Ids |->
     IF TopLevel(rows, i) /\ rows[i].status = "running" /\ rows[i].quiet
       THEN [rows[i] EXCEPT !.quiet = FALSE, !.status = "orphaned"]
       ELSE rows[i]]

\* resetOrphans.
ResetOrphans(rows) ==
  [i \in Ids |->
     IF rows[i].status = "running" /\ rows[i].quiet
       THEN [rows[i] EXCEPT !.quiet = FALSE,
               !.status = IF \E j \in Ids : Replaces(rows, j, i) THEN "superseded"
                                                                 ELSE "orphaned"]
       ELSE rows[i]]

\* Time passes and nobody writes to the rows of S.
Aged(rows, S) ==
  [i \in Ids |-> IF i \in S /\ rows[i].status = "running"
                   THEN [rows[i] EXCEPT !.quiet = TRUE] ELSE rows[i]]
=============================================================================
