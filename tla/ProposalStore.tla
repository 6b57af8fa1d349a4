--------------------------- MODULE ProposalStore ---------------------------
(***************************************************************************)
(* The proposals table of src/src/proposals/store.ts and what each update  *)
(* of ProposalStore does to a row.  The table outlives the process.        *)
(*                                                                         *)
(* An update whose WHERE clause misses the row leaves it as it is; most    *)
(* updates that finish a piece of work have no such clause.  approved_at   *)
(* is kept as the order it puts the proposals in.                          *)
(***************************************************************************)
EXTENDS Integers, FiniteSets

CONSTANTS Proposals

ASSUME ProposalsAssumption == IsFiniteSet(Proposals)

VARIABLES
  row,    \* one row per proposal id
  older   \* for each proposal, those that were approved before it

storeVars == <<row, older>>

Statuses == {"absent", "proposed", "reviewing", "reviewed", "approved", "rejected",
             "executing", "completed", "merged", "failed", "expired", "deleted"}

\* MERGE, REJECT and SKIP decide nothing by themselves: they are "other".
Verdicts == {"none", "approve", "other", "unclear"}

\* railed says that category, effort and files of the row are ones for which
\* classifyAutonomy asks for an approval; pr, that pr_url is set.
Row == [status : Statuses, verdict : Verdicts,
        autonomy : {"auto", "requires_approval"}, railed : BOOLEAN,
        pr : BOOLEAN, approver : {"nobody", "owner", "reviewer"}]

StoreTypeOK ==
  /\ row \in [Proposals -> Row]
  /\ older \in [Proposals -> SUBSET Proposals]

\* Mutant: create() leaves autonomy to a default the table does not have.
NewRowNoDefault(status, autonomy, railed) ==
  [status |-> status, verdict |-> "none", autonomy |-> "null", railed |-> railed,
   pr |-> FALSE, approver |-> "nobody"]

NewRow(status, autonomy, railed) ==
  [status |-> status, verdict |-> "none", autonomy |-> autonomy, railed |-> railed,
   pr |-> FALSE, approver |-> "nobody"]

StoreInit ==
  /\ row = [p \in Proposals |-> NewRow("absent", "requires_approval", FALSE)]
  /\ older = [p \in Proposals |-> {}]

Undecided == {"proposed", "reviewing", "reviewed"}
Terminal == {"merged", "rejected", "failed", "expired"}

\* An UPDATE finds no row to change when there is none.
Exists(r) == r.status \notin {"absent", "deleted"}

\* The verdict is read only while the status is 'reviewed', and kept so long.
To(r, status) == [r EXCEPT !.status = status, !.verdict = "none"]

When(r, statuses, status) == IF r.status \in statuses THEN To(r, status) ELSE r

\* Mutant: approve() without its list of statuses.
ApproveAny(r, who) == [To(r, "approved") EXCEPT !.approver = who]

Approve(r, who) ==
  IF r.status \in Undecided THEN [To(r, "approved") EXCEPT !.approver = who] ELSE r

Reject(r) == When(r, Undecided, "rejected")

MarkReviewing(r) == When(r, {"proposed", "reviewed"}, "reviewing")

\* saveReview: whatever the status is; the corrections it finds in the text
\* may move the row across the rails, and never touch its autonomy.
SaveReview(r, verdict, railed) ==
  IF Exists(r)
    THEN [r EXCEPT !.status = "reviewed", !.verdict = verdict, !.railed = railed]
    ELSE r

\* Mutant: the claim does not ask whether somebody claimed the row before.
ClaimableTwice(r) == r.status \in {"approved", "executing"}

\* The WHERE clause of markExecuting, which is what its result tells.
Claimable(r) == r.status = "approved"

MarkExecuting(r) == IF Claimable(r) THEN To(r, "executing") ELSE r

\* markCompleted and markFailed: whatever the status is.
MarkCompleted(r, pr) ==
  IF Exists(r) THEN [To(r, "completed") EXCEPT !.pr = pr] ELSE r

MarkFailed(r) == IF Exists(r) THEN To(r, "failed") ELSE r

SetPrUrl(r) == IF r.status = "completed" THEN [r EXCEPT !.pr = TRUE] ELSE r

MarkMerged(r) == When(r, {"completed", "merged"}, "merged")

ResetToApproved(r) ==
  IF r.status \in {"completed", "failed"}
    THEN [To(r, "approved") EXCEPT !.pr = FALSE] ELSE r

ResetToProposed(r) ==
  IF r.status \in {"completed", "failed"}
    THEN [To(r, "proposed") EXCEPT !.pr = FALSE, !.approver = "nobody"] ELSE r

ExpireStale(r) == When(r, {"proposed"}, "expired")

ResetStaleReviewing(r) == When(r, {"reviewing"}, "proposed")

ArchiveStale(r) == When(r, {"completed", "failed"}, "expired")

DeleteTerminal(r) == When(r, Terminal, "deleted")

Delete(r) == IF Exists(r) THEN To(r, "deleted") ELSE r

\* Mutant: startup leaves an interrupted execution as it is.
RecoveredReviewsOnly(r) == When(r, {"reviewing"}, "proposed")

\* The constructor: what the last process was doing is to be done again.
Recovered(r) == When(When(r, {"executing"}, "approved"), {"reviewing"}, "proposed")

\* approved_at = now for the proposals of S.
ApprovedNow(S) ==
  older' = [p \in Proposals |-> IF p \in S THEN Proposals \ S ELSE older[p] \ S]

Approved(rows) == {p \in Proposals : rows[p].status = "approved"}

\* listApproved()[0]: any of those approved in the same millisecond.
Oldest(rows) == {p \in Approved(rows) : older[p] \cap Approved(rows) = {}}

\* Mutant: a review may be started while another one is running.
ReviewableAgain(r) ==
  r.status \in {"proposed", "reviewing"} \/ (r.status = "reviewed" /\ r.verdict = "unclear")

\* getProposalReviewEligibility.
Reviewable(r) ==
  r.status = "proposed" \/ (r.status = "reviewed" /\ r.verdict \in {"none", "unclear"})

\* Mutant: a proposal that wants the owner's approval advances too.
CanAutoAdvanceAny(r) == r.status = "reviewed" /\ r.verdict = "approve"

CanAutoAdvance(r) ==
  r.status = "reviewed" /\ r.verdict = "approve" /\ r.autonomy = "auto"
=============================================================================
