------------------------ MODULE ProposalExecutor_proof ------------------------
(***************************************************************************)
(* Proofs about ProposalExecutor, for every set of proposals and runs,     *)
(* every capacity, batch size and number of retries.                       *)
(*                                                                         *)
(* The steps compose: a row is written, a run ends, and the same step      *)
(* claims the next proposal.  So the invariant is stated of any rows, runs *)
(* and reviews, as Fit, and each piece of a step has a lemma saying that   *)
(* it keeps what it is given fit.                                          *)
(***************************************************************************)
EXTENDS ProposalExecutor, FiniteSetTheorems, TLAPS

HoldsIn(rn, r, p) ==
  \/ rn[r].kind # "idle" /\ rn[r].item = p
  \/ rn[r].kind = "batch" /\ p \in rn[r].todo

FitTypes(rows, rn, rv) ==
  /\ rows \in [Proposals -> Row]
  /\ rn \in [Runs -> Run]
  /\ rv \in [Proposals -> SUBSET ReviewKinds]

FitShape(rn) ==
  \A r \in Runs :
    /\ rn[r].kind = "idle" => rn[r] = Idle
    /\ rn[r].kind # "idle" => rn[r].item \in Proposals
    /\ rn[r].stage = "verify" => rn[r].kind \in {"single", "cron"}
    /\ rn[r].stage \in {"gate", "retry", "regate"} => rn[r].kind = "single"
    /\ rn[r].item \notin rn[r].todo

\* What follows is promised of the proposals whose rows nobody changes under those
\* who work on them, whatever happens to the others.
FitSole(rn) ==
  \A p \in Untouched, r, s \in Runs : HoldsIn(rn, r, p) /\ HoldsIn(rn, s, p) => r = s

FitHeld(rows, rn) ==
  \A p \in Untouched :
    /\ rows[p].status = "executing" => \E r \in Runs : HoldsIn(rn, r, p)
    /\ \A r \in Runs : HoldsIn(rn, r, p) => rows[p].status \in {"executing", "deleted"}

FitReviewed(rows, rv) ==
  \A p \in Untouched :
    /\ rows[p].status = "reviewing" => rv[p] # {}
    /\ rv[p] # {} => rows[p].status \in {"reviewing", "deleted"}
    /\ \A k, l \in rv[p] : k = l

Sanctioned == {"approved", "executing", "completed", "failed", "merged"}

Consented(r) ==
  r.status \in Sanctioned /\ r.autonomy = "requires_approval" => r.approver = "owner"

FitConsent(rows) == \A p \in Untouched : Consented(rows[p])

Fit(rows, rn, rv) ==
  /\ FitTypes(rows, rn, rv) /\ FitShape(rn) /\ FitSole(rn) /\ FitHeld(rows, rn)
  /\ FitReviewed(rows, rv) /\ FitConsent(rows)

LEMMA UntouchedOnes == Untouched \subseteq Proposals
BY DEF Untouched

\* Fitness, and the types of the other two variables, give the invariant.
LEMMA InvIsFit ==
  Fit(row, run, review) /\ older \in [Proposals -> SUBSET Proposals] /\ active \in Int
    => PipelineInv
BY DEF PipelineInv, TypeOK, StoreTypeOK, RunShape, OneExecution, ExecutingIsHeld,
       ReviewingIsHeld, OwnerConsents, Holds, Fit, FitTypes, FitShape, FitSole, FitHeld,
       FitReviewed, FitConsent, Consented, Sanctioned, HoldsIn

-----------------------------------------------------------------------------
(* Rows                                                                    *)

LEMMA RowOps ==
  ASSUME NEW r \in Row
  PROVE  /\ \A who \in {"owner", "reviewer"} : Approve(r, who) \in Row
         /\ Reject(r) \in Row /\ MarkReviewing(r) \in Row /\ MarkExecuting(r) \in Row
         /\ \A v \in Verdicts, b \in BOOLEAN : SaveReview(r, v, b) \in Row
         /\ \A b \in BOOLEAN : MarkCompleted(r, b) \in Row
         /\ MarkFailed(r) \in Row /\ SetPrUrl(r) \in Row /\ MarkMerged(r) \in Row
         /\ ResetToApproved(r) \in Row /\ ResetToProposed(r) \in Row
         /\ ExpireStale(r) \in Row /\ ResetStaleReviewing(r) \in Row
         /\ ArchiveStale(r) \in Row /\ DeleteTerminal(r) \in Row /\ Delete(r) \in Row
         /\ Recovered(r) \in Row
<1>1. \A t \in Row, s \in Statuses : To(t, s) \in Row
  BY DEF Row, To, Verdicts
<1>3. \A t \in Row, who \in {"owner", "reviewer", "nobody"}, b \in BOOLEAN :
        /\ [t EXCEPT !.approver = who] \in Row /\ [t EXCEPT !.pr = b] \in Row
        /\ [t EXCEPT !.pr = b, !.approver = who] \in Row
  BY DEF Row
<1>4. {"approved", "rejected", "reviewing", "executing", "completed", "failed", "merged",
       "proposed", "expired", "deleted"} \subseteq Statuses
  BY DEF Statuses
<1>5. Reject(r) \in Row /\ MarkReviewing(r) \in Row /\ MarkMerged(r) \in Row
  BY <1>1, <1>4 DEF Reject, MarkReviewing, MarkMerged, When
<1>6. ExpireStale(r) \in Row /\ ResetStaleReviewing(r) \in Row /\ ArchiveStale(r) \in Row
  BY <1>1, <1>4 DEF ExpireStale, ResetStaleReviewing, ArchiveStale, When
<1>7. DeleteTerminal(r) \in Row /\ Recovered(r) \in Row
  BY <1>1, <1>4 DEF DeleteTerminal, Recovered, When
<1>8. MarkExecuting(r) \in Row /\ MarkFailed(r) \in Row /\ Delete(r) \in Row
  BY <1>1, <1>4 DEF MarkExecuting, MarkFailed, Delete
<1>9. \A who \in {"owner", "reviewer"} : Approve(r, who) \in Row
  BY <1>1, <1>3, <1>4 DEF Approve
<1>10. \A b \in BOOLEAN : MarkCompleted(r, b) \in Row
  BY <1>1, <1>3, <1>4 DEF MarkCompleted
<1>11. SetPrUrl(r) \in Row
  BY <1>3 DEF SetPrUrl
<1>12. ResetToApproved(r) \in Row
  BY <1>1, <1>3, <1>4 DEF ResetToApproved
<1>13. ResetToProposed(r) \in Row
  BY <1>1, <1>3, <1>4 DEF ResetToProposed
<1>14. \A v \in Verdicts, b \in BOOLEAN : SaveReview(r, v, b) \in Row
  BY DEF SaveReview, Row, Statuses
<1> QED BY <1>5, <1>6, <1>7, <1>8, <1>9, <1>10, <1>11, <1>12, <1>13, <1>14

LEMMA NewRowType ==
  ASSUME NEW a \in {"auto", "requires_approval"}, NEW b \in BOOLEAN
  PROVE  NewRow("absent", a, b) \in Row /\ NewRow("proposed", a, b) \in Row
BY DEF NewRow, Row, Statuses, Verdicts

LEMMA RunTypes ==
  /\ Idle \in Run
  /\ \A k \in Kinds, p \in Proposals : Begin(k, p) \in Run
  /\ \A k \in Kinds, p \in Proposals, T, D \in SUBSET Proposals :
       /\ [Begin(k, p) EXCEPT !.todo = T] \in Run
       /\ [Begin(k, p) EXCEPT !.todo = T, !.done = D] \in Run
BY DEF Idle, Begin, Run, Kinds, Stages

\* A change of a row that disturbs no execution and no review.
Calm(a, b) ==
  \/ b.status = a.status /\ (Consented(a) => Consented(b))
  \/ b.status = "deleted"
  \/ /\ a.status \notin {"executing", "reviewing", "deleted"}
     /\ b.status \notin {"executing", "reviewing"}
     /\ Consented(a) => Consented(b)

LEMMA CalmFits ==
  ASSUME NEW rows, NEW rn, NEW rv, Fit(rows, rn, rv),
         NEW rows2 \in [Proposals -> Row],
         \A p \in Untouched : Calm(rows[p], rows2[p])
  PROVE  Fit(rows2, rn, rv)
<1>1. FitConsent(rows2)
  <2> SUFFICES ASSUME NEW p \in Untouched PROVE Consented(rows2[p])
    BY DEF FitConsent
  <2>1. Consented(rows[p]) /\ Calm(rows[p], rows2[p])
    BY DEF Fit, FitConsent
  <2> QED BY <2>1 DEF Calm, Consented, Sanctioned
<1>2. FitHeld(rows2, rn)
  BY DEF Fit, FitHeld, Calm
<1>3. FitReviewed(rows2, rv)
  BY DEF Fit, FitReviewed, Calm
<1> QED BY <1>1, <1>2, <1>3 DEF Fit, FitTypes

\* What each update does to a row, as far as executions and reviews go.
LEMMA CalmOps ==
  ASSUME NEW r \in Row, NEW s \in Row,
         \/ s = r
         \/ r.status \in Undecided \ {"reviewing"} /\ s = Approve(r, "owner")
         \/ r.status \in Undecided \ {"reviewing"} /\ s = Reject(r)
         \/ \E b \in BOOLEAN : r.status = "approved" /\ s = MarkCompleted(r, b)
         \/ r.status = "completed" /\ s = MarkFailed(r)
         \/ s = SetPrUrl(r) \/ s = MarkMerged(r) \/ s = ResetToApproved(r)
         \/ s = ResetToProposed(r) \/ s = ExpireStale(r) \/ s = ArchiveStale(r)
         \/ s = DeleteTerminal(r) \/ s = Delete(r)
         \/ r.status = "absent" /\ \E a \in {"auto", "requires_approval"}, b \in BOOLEAN :
              s = NewRow("proposed", a, b)
  PROVE  Calm(r, s)
<1> USE DEF Calm, Consented, Sanctioned, To, When
<1>1. CASE s = r
  BY <1>1
<1>2. CASE r.status \in Undecided \ {"reviewing"} /\ s = Approve(r, "owner")
  BY <1>2 DEF Row, Approve, Undecided
<1>3. CASE r.status \in Undecided \ {"reviewing"} /\ s = Reject(r)
  BY <1>3 DEF Row, Reject, Undecided
<1>4. CASE \E b \in BOOLEAN : r.status = "approved" /\ s = MarkCompleted(r, b)
  BY <1>4 DEF Row, MarkCompleted, Exists
<1>5. CASE r.status = "completed" /\ s = MarkFailed(r)
  BY <1>5 DEF Row, MarkFailed, Exists
<1>6. CASE s = SetPrUrl(r)
  BY <1>6 DEF Row, SetPrUrl
<1>7. CASE s = MarkMerged(r)
  BY <1>7 DEF Row, MarkMerged
<1>8. CASE s = ResetToApproved(r)
  BY <1>8 DEF Row, ResetToApproved
<1>9. CASE s = ResetToProposed(r)
  BY <1>9 DEF Row, ResetToProposed
<1>10. CASE s = ExpireStale(r) \/ s = ArchiveStale(r)
  BY <1>10 DEF Row, ExpireStale, ArchiveStale
<1>11. CASE s = DeleteTerminal(r) \/ s = Delete(r)
  BY <1>11 DEF Row, DeleteTerminal, Delete, Terminal
<1>12. CASE r.status = "absent" /\ \E a \in {"auto", "requires_approval"}, b \in BOOLEAN :
              s = NewRow("proposed", a, b)
  BY <1>12 DEF Row, NewRow
<1> QED BY <1>1, <1>2, <1>3, <1>4, <1>5, <1>6, <1>7, <1>8, <1>9, <1>10, <1>11, <1>12

-----------------------------------------------------------------------------
(* Runs                                                                    *)

\* An idle run claims an approved proposal.
LEMMA ClaimFits ==
  ASSUME NEW rows, NEW rn, NEW rv, Fit(rows, rn, rv),
         NEW r \in Runs, rn[r] = Idle,
         NEW p \in Proposals, rows[p].status = "approved",
         NEW b \in Run, b.kind \in {"single", "cron"}, b.item = p, b.stage = "agent",
         p \notin b.todo
  PROVE  Fit([rows EXCEPT ![p] = MarkExecuting(@)], [rn EXCEPT ![r] = b], rv)
<1> DEFINE rows2 == [rows EXCEPT ![p] = MarkExecuting(@)]
           rn2 == [rn EXCEPT ![r] = b]
<1> USE DEF Fit
<1>1. rows \in [Proposals -> Row] /\ rn \in [Runs -> Run]
  BY DEF FitTypes
<1>2. /\ rows2 \in [Proposals -> Row] /\ rn2 \in [Runs -> Run]
      /\ rows2[p].status = "executing" /\ \A q \in Proposals \ {p} : rows2[q] = rows[q]
      /\ rows2[p].autonomy = rows[p].autonomy /\ rows2[p].approver = rows[p].approver
      /\ rn2[r] = b /\ \A s \in Runs \ {r} : rn2[s] = rn[s]
  <2>1. rows[p] \in Row /\ MarkExecuting(rows[p]) \in Row
    BY <1>1, RowOps
  <2>2. /\ MarkExecuting(rows[p]).status = "executing"
        /\ MarkExecuting(rows[p]).autonomy = rows[p].autonomy
        /\ MarkExecuting(rows[p]).approver = rows[p].approver
    BY <2>1 DEF MarkExecuting, Claimable, To, Row
  <2> QED BY <1>1, <2>1, <2>2
<1>3. \A q \in Proposals : ~HoldsIn(rn, r, q)
  BY DEF HoldsIn, Idle
<1>4. p \in Untouched => \A s \in Runs : ~HoldsIn(rn, s, p)
  BY DEF FitHeld
<1>5. \A q \in Proposals, s \in Runs :
        HoldsIn(rn2, s, q) <=> (s = r /\ q = p) \/ HoldsIn(rn, s, q)
  BY <1>2, <1>3 DEF HoldsIn
<1> HIDE DEF rows2, rn2
<1>6. FitTypes(rows2, rn2, rv)
  BY <1>2 DEF FitTypes
<1>7. FitShape(rn2)
  BY <1>2 DEF FitShape
<1>8. FitSole(rn2)
  BY <1>4, <1>5, UntouchedOnes DEF FitSole
<1>9. FitHeld(rows2, rn2)
  BY <1>2, <1>4, <1>5, UntouchedOnes DEF FitHeld
<1>10. FitReviewed(rows2, rv)
  BY <1>2, UntouchedOnes DEF FitReviewed
<1>11. FitConsent(rows2)
  BY <1>2, UntouchedOnes DEF FitConsent, Consented, Sanctioned
<1>12. Fit(rows2, rn2, rv)
  BY <1>6, <1>7, <1>8, <1>9, <1>10, <1>11
<1> QED BY <1>12 DEF rows2, rn2

\* What the end of an execution writes to the row of a proposal.
Ends(a, b) ==
  /\ a.status = "deleted" => b = a
  /\ a.status # "deleted" =>
       /\ b.status \in {"completed", "failed"}
       /\ b.autonomy = a.autonomy /\ b.approver = a.approver

LEMMA EndOps ==
  ASSUME NEW a \in Row, a.status \in {"executing", "deleted"}
  PROVE  Ends(a, MarkFailed(a)) /\ \A b \in BOOLEAN : Ends(a, MarkCompleted(a, b))
BY DEF Ends, MarkFailed, MarkCompleted, Exists, To, Row

\* The item of a run ends, and the run goes on with another of its bundle or not
\* at all.
LEMMA ItemFits ==
  ASSUME NEW rows, NEW rn, NEW rv, Fit(rows, rn, rv),
         NEW r \in Runs, rn[r].kind # "idle",
         NEW w \in Row, rn[r].item \in Untouched => Ends(rows[rn[r].item], w),
         NEW b \in Run,
         \/ b = Idle /\ (rn[r].kind = "batch" => rn[r].todo = {})
         \/ /\ rn[r].kind = "batch" /\ b.kind = "batch" /\ b.stage = "agent"
            /\ b.item \in rn[r].todo /\ b.todo = rn[r].todo \ {b.item}
  PROVE  Fit([rows EXCEPT ![rn[r].item] = w], [rn EXCEPT ![r] = b], rv)
<1> DEFINE p == rn[r].item
           rows2 == [rows EXCEPT ![p] = w]
           rn2 == [rn EXCEPT ![r] = b]
<1> USE DEF Fit
<1>1. rows \in [Proposals -> Row] /\ rn \in [Runs -> Run] /\ p \in Proposals
  BY DEF FitTypes, FitShape
<1>2. /\ rows2 \in [Proposals -> Row] /\ rn2 \in [Runs -> Run]
      /\ rows2[p] = w /\ \A q \in Proposals \ {p} : rows2[q] = rows[q]
      /\ rn2[r] = b /\ \A s \in Runs \ {r} : rn2[s] = rn[s]
  BY <1>1
<1>3. /\ HoldsIn(rn, r, p) /\ p \notin rn[r].todo
      /\ p \in Untouched => rows[p].status \in {"executing", "deleted"}
  BY <1>1 DEF HoldsIn, FitShape, FitHeld
<1>4. \A q \in Proposals : HoldsIn(rn2, r, q) <=> q # p /\ HoldsIn(rn, r, q)
  <2>1. CASE b = Idle /\ (rn[r].kind = "batch" => rn[r].todo = {})
    BY <1>2, <1>3, <2>1 DEF HoldsIn, Idle
  <2>2. CASE /\ rn[r].kind = "batch" /\ b.kind = "batch"
             /\ b.item \in rn[r].todo /\ b.todo = rn[r].todo \ {b.item}
    BY <1>2, <1>3, <2>2 DEF HoldsIn
  <2> QED BY <2>1, <2>2
<1>5. \A s \in Runs \ {r}, q \in Proposals : HoldsIn(rn2, s, q) <=> HoldsIn(rn, s, q)
  BY <1>2 DEF HoldsIn
<1>6. p \in Untouched => \A s \in Runs : HoldsIn(rn, s, p) => s = r
  BY <1>1, <1>3 DEF FitSole
<1>7. p \in Untouched => w.status \in {"completed", "failed", "deleted"}
  BY <1>3 DEF Ends
<1>8. FitShape(rn2)
  <2>1. b.item \notin b.todo
    BY DEF Idle
  <2>2. b.kind # "idle" => b.item \in Proposals
    BY <1>1 DEF Idle, Run
  <2>3. b.stage = "agent" /\ (b.kind = "idle" => b = Idle)
    BY DEF Idle
  <2> SUFFICES ASSUME NEW s \in Runs
               PROVE  /\ rn2[s].kind = "idle" => rn2[s] = Idle
                      /\ rn2[s].kind # "idle" => rn2[s].item \in Proposals
                      /\ rn2[s].stage = "verify" => rn2[s].kind \in {"single", "cron"}
                      /\ rn2[s].stage \in {"gate", "retry", "regate"} => rn2[s].kind = "single"
                      /\ rn2[s].item \notin rn2[s].todo
    BY DEF FitShape
  <2>4. CASE s = r
    BY <1>2, <2>1, <2>2, <2>3, <2>4
  <2>5. CASE s # r
    BY <1>2, <2>5 DEF FitShape
  <2> QED BY <2>4, <2>5
<1> HIDE DEF rows2, rn2, p
<1>9. FitTypes(rows2, rn2, rv)
  BY <1>2 DEF FitTypes
<1>10. FitSole(rn2)
  BY <1>4, <1>5, UntouchedOnes DEF FitSole
<1>11. FitHeld(rows2, rn2)
  <2> SUFFICES ASSUME NEW q \in Untouched
               PROVE  /\ rows2[q].status = "executing" => \E s \in Runs : HoldsIn(rn2, s, q)
                      /\ \A s \in Runs : HoldsIn(rn2, s, q) =>
                            rows2[q].status \in {"executing", "deleted"}
    BY DEF FitHeld
  <2>1. CASE q = p
    BY <1>2, <1>4, <1>5, <1>6, <1>7, <2>1, UntouchedOnes
  <2>2. CASE q # p
    BY <1>2, <1>4, <1>5, <2>2, UntouchedOnes DEF FitHeld
  <2> QED BY <2>1, <2>2
<1>12. FitReviewed(rows2, rv)
  BY <1>2, <1>3, UntouchedOnes DEF FitReviewed, Ends, p
<1>13. FitConsent(rows2)
  BY <1>1, <1>2, <1>3, UntouchedOnes DEF FitConsent, Consented, Sanctioned, Ends, p
<1>14. Fit(rows2, rn2, rv)
  BY <1>8, <1>9, <1>10, <1>11, <1>12, <1>13
<1> QED BY <1>14 DEF rows2, rn2, p

LEMMA OnApprovedFits ==
  ASSUME NEW rows, NEW rv, Fit(rows, run, rv), NEW p \in Proposals, OnApproved(rows, p)
  PROVE  Fit(row', run', rv)
<1>1. CASE row' = rows /\ UNCHANGED <<run, active>>
  BY <1>1
<1>2. CASE p \in Approved(rows) /\ ExecuteProposal(rows, p)
  <2>1. PICK r \in Runs : run[r] = Idle /\ run' = [run EXCEPT ![r] = Begin("single", p)]
    BY <1>2 DEF ExecuteProposal
  <2>2. Begin("single", p) \in Run /\ rows[p].status = "approved"
    BY <1>2, RunTypes DEF Approved, Kinds
  <2>3. row' = [rows EXCEPT ![p] = MarkExecuting(@)]
    BY <1>2 DEF ExecuteProposal
  <2> QED BY <2>1, <2>2, <2>3, ClaimFits DEF Begin, Idle
<1> QED BY <1>1, <1>2 DEF OnApproved

LEMMA PickupFits ==
  ASSUME NEW rows, NEW rv, NEW r \in Runs, run \in [Runs -> Run],
         Fit(rows, [run EXCEPT ![r] = Idle], rv), PickupNext(rows, r)
  PROVE  Fit(row', run', rv)
<1>1. CASE row' = rows /\ run' = [run EXCEPT ![r] = Idle]
  BY <1>1
<1>2. ASSUME NEW p \in Oldest(rows),
             row' = [rows EXCEPT ![p] = MarkExecuting(@)],
             run' = [run EXCEPT ![r] = Begin("single", p)]
      PROVE  Fit(row', run', rv)
  <2>1. p \in Proposals /\ rows[p].status = "approved"
    BY DEF Oldest, Approved
  <2>2. Begin("single", p) \in Run
    BY <2>1, RunTypes DEF Kinds
  <2> DEFINE rn == [run EXCEPT ![r] = Idle]
  <2>3. rn[r] = Idle /\ run' = [rn EXCEPT ![r] = Begin("single", p)]
    BY <1>2
  <2> HIDE DEF rn
  <2>4. Fit(rows, rn, rv)
    BY DEF rn
  <2>5. Fit([rows EXCEPT ![p] = MarkExecuting(@)], [rn EXCEPT ![r] = Begin("single", p)], rv)
    BY <2>1, <2>2, <2>3, <2>4, ClaimFits DEF Begin, Idle
  <2> QED BY <1>2, <2>3, <2>5
<1> QED BY <1>1, <1>2 DEF PickupNext

\* A run ends its item: the row is written, and what the kind of run does next
\* is done.
LEMMA ItemEndsFits ==
  ASSUME Fit(row, run, review), NEW r \in Runs, run[r].kind \in Kinds,
         NEW w \in Row, run[r].item \in Untouched => Ends(row[run[r].item], w), NEW ok \in BOOLEAN,
         ItemEnds(r, w, ok)
  PROVE  Fit(row', run', review)
<1> DEFINE p == run[r].item
           rows == Update(p, w)
           rn == [run EXCEPT ![r] = Idle]
<1>1. /\ run \in [Runs -> Run] /\ row \in [Proposals -> Row] /\ p \in Proposals
      /\ run[r].kind # "idle"
  BY DEF Fit, FitTypes, FitShape, Kinds
<1>2. rows \in [Proposals -> Row]
  BY <1>1 DEF Update
<1>3. ASSUME run[r].kind = "batch" => run[r].todo = {}
      PROVE  Fit(rows, rn, review)
  BY <1>1, <1>3, ItemFits, RunTypes DEF Update
<1>4. CASE run[r].kind = "single" /\ PickupNext(rows, r)
  <2> HIDE DEF rows
  <2>1. Fit(rows, [run EXCEPT ![r] = Idle], review)
    BY <1>3, <1>4
  <2> QED BY <1>1, <1>4, <2>1, PickupFits
<1>5. CASE run[r].kind = "cron" /\ CronNext(rows, r)
  <2>1. Fit(rows, rn, review) /\ rn[r] = Idle
    BY <1>1, <1>3, <1>5
  <2> HIDE DEF rows
  <2>2. CASE run' = rn /\ row' = rows
    BY <2>1, <2>2
  <2>3. ASSUME NEW q \in {x \in run[r].todo : Claimable(rows[x])},
               NEW skipped \in SUBSET run[r].todo,
               run' = [run EXCEPT ![r] =
                         [Begin("cron", q) EXCEPT !.todo = run[r].todo \ ({q} \cup skipped)]],
               row' = [rows EXCEPT ![q] = MarkExecuting(@)]
        PROVE  Fit(row', run', review)
    <3> DEFINE b == [Begin("cron", q) EXCEPT !.todo = run[r].todo \ ({q} \cup skipped)]
    <3>1. q \in Proposals /\ run[r].todo \in SUBSET Proposals /\ rows[q].status = "approved"
      BY <1>1 DEF Run, Claimable
    <3>2. b \in Run /\ b.kind = "cron" /\ b.item = q /\ b.stage = "agent" /\ q \notin b.todo
      BY <3>1 DEF Begin, Idle, Run, Kinds, Stages
    <3>3. run' = [rn EXCEPT ![r] = b]
      BY <2>3
    <3> HIDE DEF b, rn
    <3>4. rn[r] = Idle /\ Fit(rows, rn, review)
      BY <2>1
    <3>5. Fit([rows EXCEPT ![q] = MarkExecuting(@)], [rn EXCEPT ![r] = b], review)
      BY <3>1, <3>2, <3>4, ClaimFits
    <3> QED BY <2>3, <3>3, <3>5
  <2> HIDE DEF rn
  <2> DEFINE free == {x \in run[r].todo : Claimable(rows[x])}
  <2>4. CASE \E q \in free, skipped \in SUBSET (run[r].todo \ free) :
               /\ run' = [run EXCEPT ![r] =
                    [Begin("cron", q) EXCEPT !.todo = run[r].todo \ ({q} \cup skipped)]]
               /\ row' = [rows EXCEPT ![q] = MarkExecuting(@)]
    <3>1. PICK q \in free, skipped \in SUBSET (run[r].todo \ free) :
               /\ run' = [run EXCEPT ![r] =
                    [Begin("cron", q) EXCEPT !.todo = run[r].todo \ ({q} \cup skipped)]]
               /\ row' = [rows EXCEPT ![q] = MarkExecuting(@)]
      BY <2>4
    <3>2. skipped \in SUBSET run[r].todo
      OBVIOUS
    <3> QED BY <2>3, <3>1, <3>2
  <2> QED BY <1>5, <2>2, <2>4 DEF CronNext, rn
<1>6. CASE run[r].kind = "batch" /\ BatchNext(rows, r, ok)
  <2> DEFINE done == run[r].done \cup (IF ok THEN {run[r].item} ELSE {})
  <2>1. run[r].todo \in SUBSET Proposals /\ done \in SUBSET Proposals
    BY <1>1 DEF Run
  <2>2. ASSUME NEW q \in run[r].todo,
               run' = [run EXCEPT ![r] =
                 [Begin("batch", q) EXCEPT !.todo = run[r].todo \ {q}, !.done = done]],
               row' = rows
        PROVE  Fit(row', run', review)
    <3> DEFINE b == [Begin("batch", q) EXCEPT !.todo = run[r].todo \ {q}, !.done = done]
    <3>1. /\ b \in Run /\ b.kind = "batch" /\ b.item = q /\ b.stage = "agent"
          /\ b.todo = run[r].todo \ {q}
      BY <2>1 DEF Begin, Idle, Run, Kinds, Stages
    <3>2. run' = [run EXCEPT ![r] = b] /\ row' = [row EXCEPT ![run[r].item] = w]
      BY <2>2 DEF Update
    <3> HIDE DEF b
    <3> QED BY <1>1, <1>6, <3>1, <3>2, ItemFits
  <2>3. ASSUME run[r].todo = {}, NEW made \in BOOLEAN,
               PickupNext([q \in Proposals |->
                        IF made /\ q \in done THEN SetPrUrl(rows[q]) ELSE rows[q]], r)
        PROVE  Fit(row', run', review)
    <3> DEFINE rows2 == [q \in Proposals |->
                          IF made /\ q \in done THEN SetPrUrl(rows[q]) ELSE rows[q]]
    <3>1. Fit(rows, rn, review)
      BY <1>3, <2>3
    <3> HIDE DEF rows
    <3>2. rows2 \in [Proposals -> Row] /\ \A q \in Untouched : Calm(rows[q], rows2[q])
      BY <1>2, RowOps, CalmOps, UntouchedOnes
    <3>3. PickupNext(rows2, r)
      BY <2>3
    <3> HIDE DEF rows2, rn, done
    <3>4. Fit(rows2, rn, review)
      BY <3>1, <3>2, CalmFits
    <3> QED BY <1>1, <3>3, <3>4, PickupFits DEF rn
  <2> QED BY <1>6, <2>2, <2>3 DEF BatchNext
<1>7. CASE run[r].kind = "direct" /\ row' = rows /\ run' = rn
  BY <1>3, <1>7
<1> QED BY <1>4, <1>5, <1>6, <1>7 DEF ItemEnds

LEMMA FinishFits ==
  ASSUME Fit(row, run, review), NEW r \in Runs, run[r].kind \in Kinds,
         Finish(r) \/ Fail(r)
  PROVE  Fit(row', run', review)
<1>1. run[r].item \in Proposals /\ row[run[r].item] \in Row
  BY DEF Fit, FitTypes, FitShape, Kinds
<1>2. run[r].item \in Untouched => row[run[r].item].status \in {"executing", "deleted"}
  BY <1>1 DEF Fit, FitHeld, HoldsIn, Kinds
<1>3. /\ MarkFailed(row[run[r].item]) \in Row
      /\ \A b \in BOOLEAN : MarkCompleted(row[run[r].item], b) \in Row
      /\ run[r].item \in Untouched =>
           /\ Ends(row[run[r].item], MarkFailed(row[run[r].item]))
           /\ \A b \in BOOLEAN : Ends(row[run[r].item], MarkCompleted(row[run[r].item], b))
  BY <1>1, <1>2, RowOps, EndOps
<1>4. CASE Fail(r) \/ ItemEnds(r, MarkFailed(row[run[r].item]), TRUE)
  BY <1>3, <1>4, ItemEndsFits DEF Fail
<1>5. ASSUME NEW b \in BOOLEAN, ItemEnds(r, MarkCompleted(row[run[r].item], b), TRUE)
      PROVE  Fit(row', run', review)
  BY <1>3, <1>5, ItemEndsFits
<1> QED BY <1>4, <1>5 DEF Finish

LEMMA GoToFits ==
  ASSUME Fit(row, run, review), NEW r \in Runs, NEW stage \in Stages,
         run[r].kind = "single" \/ (run[r].kind = "cron" /\ stage = "verify"),
         GoTo(r, stage)
  PROVE  Fit(row', run', review)
<1>1. /\ run \in [Runs -> Run] /\ run' \in [Runs -> Run] /\ row' = row
      /\ \A s \in Runs \ {r} : run'[s] = run[s]
      /\ run'[r].kind = run[r].kind /\ run'[r].item = run[r].item
      /\ run'[r].todo = run[r].todo /\ run'[r].stage = stage
  BY DEF Fit, FitTypes, GoTo, Run
<1>2. \A s \in Runs, p \in Proposals : HoldsIn(run', s, p) <=> HoldsIn(run, s, p)
  BY <1>1 DEF HoldsIn
<1>3. FitShape(run')
  BY <1>1 DEF Fit, FitShape
<1>4. FitSole(run') /\ FitHeld(row', run')
  BY <1>1, <1>2, UntouchedOnes DEF Fit, FitSole, FitHeld
<1> QED BY <1>1, <1>3, <1>4 DEF Fit, FitTypes
-----------------------------------------------------------------------------
(* Steps                                                                   *)

\* A step that changes only the row, calmly.
LEMMA CalmStep ==
  ASSUME Fit(row, run, review), row' \in [Proposals -> Row],
         \A p \in Untouched : Calm(row[p], row'[p]), UNCHANGED <<run, review>>
  PROVE  Fit(row', run', review')
BY CalmFits

LEMMA StartsFit ==
  ASSUME Fit(row, run, review), Starts
  PROVE  Fit(row', run', review')
<1> USE DEF Fit
<1>1. run \in [Runs -> Run] /\ row \in [Proposals -> Row]
  BY DEF FitTypes
<1>2. CASE ExecuteEach
  <2>1. PICK p \in Oldest(row) : ExecuteProposal(row, p) /\ HasCapacity(active)
    BY <1>2 DEF ExecuteEach
  <2>2. p \in Proposals /\ OnApproved(row, p) /\ review' = review
    BY <1>2, <2>1 DEF Oldest, Approved, OnApproved, ExecuteEach
  <2> QED BY <2>2, OnApprovedFits
<1>3. CASE CronBegin
  <2>1. PICK S \in SUBSET Approved(row), r \in Runs : \E p \in S :
          /\ run[r] = Idle
          /\ run' = [run EXCEPT ![r] = [Begin("cron", p) EXCEPT !.todo = S \ {p}]]
          /\ row' = Update(p, MarkExecuting(row[p]))
    BY <1>3 DEF CronBegin
  <2>2. PICK p \in S :
          /\ run[r] = Idle
          /\ run' = [run EXCEPT ![r] = [Begin("cron", p) EXCEPT !.todo = S \ {p}]]
          /\ row' = Update(p, MarkExecuting(row[p]))
    BY <2>1
  <2> DEFINE b == [Begin("cron", p) EXCEPT !.todo = S \ {p}]
  <2>3. p \in Proposals /\ S \ {p} \in SUBSET Proposals /\ row[p].status = "approved"
    BY DEF Approved
  <2>4. b \in Run /\ b.kind = "cron" /\ b.item = p /\ b.stage = "agent" /\ p \notin b.todo
    BY <2>3 DEF Begin, Idle, Run, Kinds, Stages
  <2>5. /\ run' = [run EXCEPT ![r] = b] /\ row' = [row EXCEPT ![p] = MarkExecuting(@)]
        /\ review' = review
    BY <1>3, <2>2 DEF Update, CronBegin
  <2> HIDE DEF b
  <2>6. Fit([row EXCEPT ![p] = MarkExecuting(@)], [run EXCEPT ![r] = b], review)
    BY <2>2, <2>3, <2>4, ClaimFits
  <2> QED BY <2>5, <2>6
<1>4. CASE ExecuteBatch
  <2>1. PICK r \in Runs, p \in Oldest(row) :
          /\ run[r] = Idle
          /\ run' = [run EXCEPT ![r] =
                       [Begin("batch", p) EXCEPT !.todo = Approved(row) \ {p}]]
    BY <1>4 DEF ExecuteBatch
  <2> DEFINE S == Approved(row)
             b == [Begin("batch", p) EXCEPT !.todo = S \ {p}]
  <2>2. p \in S /\ S \in SUBSET Proposals /\ p \in Proposals
    BY DEF Oldest, Approved
  <2>3. /\ b \in Run /\ b.kind = "batch" /\ b.item = p /\ b.stage = "agent"
        /\ b.todo = S \ {p}
    BY <2>2 DEF Begin, Idle, Run, Kinds, Stages
  <2>4. /\ row' \in [Proposals -> Row]
        /\ \A q \in S : /\ row'[q].status = "executing" /\ row[q].status = "approved"
                        /\ row'[q].autonomy = row[q].autonomy
                        /\ row'[q].approver = row[q].approver
        /\ \A q \in Proposals \ S : row'[q] = row[q]
    <3>1. row' = [q \in Proposals |-> IF q \in S THEN MarkExecuting(row[q]) ELSE row[q]]
      BY <1>4 DEF ExecuteBatch, UpdateAll
    <3>2. \A q \in Proposals : row[q] \in Row /\ MarkExecuting(row[q]) \in Row
      BY <1>1, RowOps
    <3>3. \A q \in S : /\ MarkExecuting(row[q]).status = "executing"
                       /\ MarkExecuting(row[q]).autonomy = row[q].autonomy
                       /\ MarkExecuting(row[q]).approver = row[q].approver
      <4> SUFFICES ASSUME NEW q \in S
                   PROVE  /\ MarkExecuting(row[q]).status = "executing"
                          /\ MarkExecuting(row[q]).autonomy = row[q].autonomy
                          /\ MarkExecuting(row[q]).approver = row[q].approver
        OBVIOUS
      <4>1. row[q] \in Row /\ row[q].status = "approved"
        BY <3>2 DEF Approved
      <4> QED BY <4>1 DEF MarkExecuting, Claimable, To, Row
    <3>4. \A q \in S : row[q].status = "approved"
      BY DEF Approved
    <3> QED BY <2>2, <3>1, <3>2, <3>3, <3>4
  <2>5. run' = [run EXCEPT ![r] = b] /\ review' = review
    BY <1>4, <2>1 DEF ExecuteBatch
  <2> HIDE DEF b
  <2>6. run' \in [Runs -> Run] /\ run'[r] = b /\ \A s \in Runs \ {r} : run'[s] = run[s]
    BY <1>1, <2>3, <2>5
  <2>7. \A q \in Proposals : HoldsIn(run', r, q) <=> q \in S
    BY <2>2, <2>3, <2>6 DEF HoldsIn
  <2>8. \A q \in Proposals, s \in Runs : s # r => (HoldsIn(run', s, q) <=> HoldsIn(run, s, q))
    BY <2>6 DEF HoldsIn
  <2>9. \A q \in Proposals : ~HoldsIn(run, r, q)
    BY <2>1 DEF HoldsIn, Idle
  <2>10. \A q \in S \cap Untouched, s \in Runs : ~HoldsIn(run, s, q)
    BY <2>2, <2>4 DEF FitHeld
  <2> HIDE DEF S
  <2>11. FitShape(run')
    BY <2>2, <2>3, <2>6 DEF FitShape
  <2>12. FitSole(run')
    BY <2>7, <2>8, <2>9, <2>10, UntouchedOnes DEF FitSole
  <2>13. FitHeld(row', run')
    <3> SUFFICES ASSUME NEW q \in Untouched
                 PROVE  /\ row'[q].status = "executing" => \E s \in Runs : HoldsIn(run', s, q)
                        /\ \A s \in Runs : HoldsIn(run', s, q) =>
                             row'[q].status \in {"executing", "deleted"}
      BY DEF FitHeld
    <3>1. CASE q \in S
      BY <2>4, <2>7, <3>1, UntouchedOnes
    <3>2. CASE q \notin S
      BY <2>4, <2>7, <2>8, <2>9, <3>2, UntouchedOnes DEF FitHeld
    <3> QED BY <3>1, <3>2
  <2>14. FitReviewed(row', review')
    BY <2>4, <2>5, UntouchedOnes DEF FitReviewed
  <2>15. FitConsent(row')
    BY <2>4, UntouchedOnes DEF FitConsent, Consented, Sanctioned
  <2> QED BY <2>4, <2>5, <2>6, <2>11, <2>12, <2>13, <2>14, <2>15 DEF FitTypes
<1> QED BY <1>2, <1>3, <1>4 DEF Starts

LEMMA WorksFit ==
  ASSUME Fit(row, run, review), NEW r \in Runs, Works(r)
  PROVE  Fit(row', run', review')
<1>1. review' = review
  BY DEF Works, AgentAnswers, GateJudges, Verified, RunThrows
<1>2. /\ run[r].stage = "verify" => run[r].kind \in {"single", "cron"}
      /\ run[r].stage \in {"gate", "retry", "regate"} => run[r].kind = "single"
  BY DEF Fit, FitShape
<1>3. CASE AgentAnswers(r)
  <2>1. CASE Finish(r)
    BY <1>1, <1>3, <2>1, FinishFits DEF AgentAnswers
  <2>2. CASE run[r].kind \in {"single", "cron"} /\ GoTo(r, "verify")
    BY <1>1, <2>2, GoToFits DEF Stages
  <2>3. CASE run[r].kind = "single" /\ (GoTo(r, "gate") \/ GoTo(r, "regate"))
    BY <1>1, <2>3, GoToFits DEF Stages
  <2> QED BY <1>3, <2>1, <2>2, <2>3 DEF AgentAnswers
<1>4. CASE GateJudges(r)
  <2>1. run[r].kind = "single"
    BY <1>2, <1>4 DEF GateJudges
  <2>2. CASE GoTo(r, "verify") \/ GoTo(r, "retry")
    BY <1>1, <2>1, <2>2, GoToFits DEF Stages
  <2>3. CASE Fail(r)
    BY <1>1, <2>1, <2>3, FinishFits DEF Kinds
  <2> QED BY <1>4, <2>2, <2>3 DEF GateJudges
<1>5. CASE Verified(r)
  BY <1>1, <1>2, <1>5, FinishFits DEF Verified, Kinds
<1>6. CASE RunThrows(r)
  BY <1>1, <1>6, FinishFits DEF RunThrows
<1> QED BY <1>3, <1>4, <1>5, <1>6 DEF Works

\* An agent starts on its own proposal, which is none of the untouched.
LEMMA DirectFits ==
  ASSUME Fit(row, run, review), NEW p \in Proposals, ProposeDirect(p)
  PROVE  Fit(row', run', review')
<1> DEFINE a == MarkExecuting(NewRow("proposed", "auto", FALSE))
           b == Begin("direct", p)
<1>1. /\ row \in [Proposals -> Row] /\ run \in [Runs -> Run]
      /\ p \notin Untouched /\ review' = review
  BY DEF Fit, FitTypes, ProposeDirect, Untouched
<1>2. a \in Row /\ b \in Run
  BY NewRowType, RowOps, RunTypes DEF Kinds
<1>3. PICK r \in Runs : run[r] = Idle /\ run' = [run EXCEPT ![r] = b]
  BY DEF ProposeDirect
<1>4. b.kind = "direct" /\ b.item = p /\ b.stage = "agent" /\ b.todo = {}
  BY DEF Begin, Idle
<1>5. row' = [row EXCEPT ![p] = a]
  BY DEF ProposeDirect, Update
<1> HIDE DEF a, b
<1>6. row' \in [Proposals -> Row] /\ \A q \in Untouched : row'[q] = row[q]
  BY <1>1, <1>2, <1>5, UntouchedOnes
<1>7. run' \in [Runs -> Run] /\ run'[r] = b /\ \A s \in Runs \ {r} : run'[s] = run[s]
  BY <1>1, <1>2, <1>3
<1>8. \A s \in Runs, q \in Untouched : HoldsIn(run', s, q) <=> HoldsIn(run, s, q)
  BY <1>1, <1>3, <1>4, <1>7 DEF HoldsIn, Idle
<1>9. FitShape(run')
  BY <1>4, <1>7 DEF Fit, FitShape
<1>10. FitSole(run') /\ FitHeld(row', run')
  BY <1>6, <1>8 DEF Fit, FitSole, FitHeld
<1>11. FitReviewed(row', review') /\ FitConsent(row')
  BY <1>1, <1>6 DEF Fit, FitReviewed, FitConsent
<1> QED BY <1>1, <1>6, <1>7, <1>9, <1>10, <1>11 DEF Fit, FitTypes

LEMMA ReviewsFit ==
  ASSUME Fit(row, run, review), NEW p \in Proposals, Reviews(p)
  PROVE  Fit(row', run', review')
<1>1. /\ row \in [Proposals -> Row] /\ review \in [Proposals -> SUBSET ReviewKinds]
      /\ row[p] \in Row
  BY DEF Fit, FitTypes
<1>2. ASSUME NEW a \in {"auto", "requires_approval"}, NEW railed \in Rails,
             Create(p, a, railed)
      PROVE  Fit(row', run', review')
  <2>1. row[p].status = "absent" /\ row' = [row EXCEPT ![p] = NewRow("proposed", a, railed)]
    BY <1>2 DEF Create, Update
  <2>2. railed \in BOOLEAN /\ NewRow("proposed", a, railed) \in Row
    BY NewRowType, ExecutorAssumption
  <2>3. Calm(row[p], NewRow("proposed", a, railed))
    BY <1>1, <2>1, <2>2, CalmOps
  <2>4. \A q \in Untouched : Calm(row[q], row'[q])
    BY <1>1, <2>1, <2>3, UntouchedOnes DEF Calm
  <2> QED BY <1>1, <1>2, <2>1, <2>2, <2>4, CalmStep DEF Create
\* A proposal that nobody reviews and nobody executes becomes 'reviewing'.
<1>3. ASSUME NEW a \in Row, NEW kind \in ReviewKinds, a.status = "reviewing",
             row[p].status \in {"absent", "proposed", "reviewed"},
             row' = Update(p, a), run' = run,
             review' = [review EXCEPT ![p] = @ \cup {kind}]
      PROVE  Fit(row', run', review')
  <2>1. /\ row' \in [Proposals -> Row] /\ row'[p] = a
        /\ \A q \in Proposals \ {p} : row'[q] = row[q]
    BY <1>1, <1>3 DEF Update
  <2>2. /\ review' \in [Proposals -> SUBSET ReviewKinds] /\ review'[p] = review[p] \cup {kind}
        /\ \A q \in Proposals \ {p} : review'[q] = review[q]
    BY <1>1, <1>3
  <2>3. p \in Untouched => review[p] = {}
    BY <1>3 DEF Fit, FitReviewed
  <2>4. FitReviewed(row', review')
    BY <1>3, <2>1, <2>2, <2>3, UntouchedOnes DEF Fit, FitReviewed
  <2>5. FitHeld(row', run')
    BY <1>3, <2>1, UntouchedOnes DEF Fit, FitHeld
  <2>6. FitConsent(row')
    BY <1>3, <2>1, UntouchedOnes DEF Fit, FitConsent, Consented, Sanctioned
  <2> QED BY <1>3, <2>1, <2>2, <2>4, <2>5, <2>6 DEF Fit, FitTypes
<1>4. ASSUME NEW railed \in Rails, Propose(p, railed)
      PROVE  Fit(row', run', review')
  <2> DEFINE n == NewRow("proposed", "requires_approval", railed)
  <2>1. n \in Row /\ n.status = "proposed"
    BY NewRowType, ExecutorAssumption DEF NewRow
  <2>2. MarkReviewing(n) \in Row /\ MarkReviewing(n).status = "reviewing"
    BY <2>1, RowOps DEF MarkReviewing, When, To, Row
  <2> QED BY <1>3, <1>4, <2>2 DEF Propose, ReviewKinds
<1>5. ASSUME NEW kind \in ReviewKinds, NEW queued \in BOOLEAN, StartReview(p, kind, queued)
      PROVE  Fit(row', run', review')
  <2>1. row[p].status \in {"proposed", "reviewed"}
    BY <1>5 DEF StartReview, Reviewable
  <2>2. MarkReviewing(row[p]) \in Row /\ MarkReviewing(row[p]).status = "reviewing"
    BY <1>1, <2>1, RowOps DEF MarkReviewing, When, To, Row
  <2> QED BY <1>3, <1>5, <2>1, <2>2 DEF StartReview
<1>6. CASE ProposeDirect(p)
  BY <1>6, DirectFits
<1> QED BY <1>2, <1>4, <1>5, <1>6 DEF Reviews

LEMMA ReviewEndsFit ==
  ASSUME Fit(row, run, review), NEW p \in Proposals, ReviewEnds(p)
  PROVE  Fit(row', run', review')
<1>1. /\ row \in [Proposals -> Row] /\ review \in [Proposals -> SUBSET ReviewKinds]
      /\ row[p] \in Row
  BY DEF Fit, FitTypes
\* The only review of the proposal ends, and its row is 'reviewed' or deleted.
<1>2. ASSUME NEW kind \in review[p], NEW verdict \in Verdicts, NEW railed \in BOOLEAN
      PROVE  /\ Fit(Update(p, SaveReview(row[p], verdict, railed)), run,
                    [review EXCEPT ![p] = @ \ {kind}])
             /\ SaveReview(row[p], verdict, railed) \in Row
  <2> DEFINE a == SaveReview(row[p], verdict, railed)
             rows == Update(p, a)
             rv == [review EXCEPT ![p] = @ \ {kind}]
  <2>1. p \in Untouched => /\ row[p].status \in {"reviewing", "deleted"}
                           /\ review[p] \subseteq {kind}
    BY DEF Fit, FitReviewed
  <2>2. a \in Row
    BY <1>1, RowOps
  <2>3. p \in Untouched => \/ row[p].status = "deleted" /\ a = row[p]
                           \/ row[p].status = "reviewing" /\ a.status = "reviewed"
    BY <1>1, <2>1 DEF SaveReview, Exists, Row
  <2>4. /\ rows \in [Proposals -> Row] /\ rows[p] = a
        /\ \A q \in Proposals \ {p} : rows[q] = row[q]
    BY <1>1, <2>2 DEF Update
  <2>5. /\ rv \in [Proposals -> SUBSET ReviewKinds]
        /\ p \in Untouched => rv[p] = {}
        /\ \A q \in Proposals \ {p} : rv[q] = review[q]
    BY <1>1, <2>1
  <2> HIDE DEF a, rows, rv
  <2>6. FitReviewed(rows, rv)
    BY <2>3, <2>4, <2>5, UntouchedOnes DEF Fit, FitReviewed
  <2>7. FitHeld(rows, run)
    BY <2>1, <2>3, <2>4, UntouchedOnes DEF Fit, FitHeld
  <2>8. FitConsent(rows)
    BY <2>3, <2>4, UntouchedOnes DEF Fit, FitConsent, Consented, Sanctioned
  <2>9. Fit(rows, run, rv)
    BY <2>4, <2>5, <2>6, <2>7, <2>8 DEF Fit, FitTypes
  <2> QED BY <2>2, <2>9 DEF a, rows, rv
<1>3. ASSUME NEW kind \in ReviewKinds, NEW verdict \in Verdicts, NEW railed \in Rails,
             FinishReview(p, kind, verdict, railed)
      PROVE  Fit(row', run', review')
  <2> DEFINE saved == SaveReview(row[p], verdict, railed)
             rv == [review EXCEPT ![p] = @ \ {kind}]
             rows == Update(p, saved)
             rows2 == Update(p, Approve(saved, "reviewer"))
  <2>1. Fit(rows, run, rv) /\ saved \in Row
    BY <1>2, <1>3, ExecutorAssumption DEF FinishReview
  <2>2. review' = rv
    BY <1>3 DEF FinishReview
  <2>3. CASE row' = rows /\ run' = run
    BY <2>1, <2>2, <2>3
  <2>4. CASE CanAutoAdvance(saved) /\ OnApproved(rows2, p)
    <3> HIDE DEF saved
    <3>1. /\ rows \in [Proposals -> Row] /\ rows[p] = saved
          /\ \A q \in Proposals \ {p} : rows[q] = row[q]
      BY <1>1, <2>1 DEF Update
    <3>2. Approve(saved, "reviewer") \in Row
      BY <2>1, RowOps
    <3>3. /\ rows2 \in [Proposals -> Row] /\ rows2[p] = Approve(saved, "reviewer")
          /\ \A q \in Proposals \ {p} : rows2[q] = row[q]
      BY <1>1, <3>2 DEF Update
    <3>4. Calm(saved, Approve(saved, "reviewer"))
      BY <2>1, <2>4 DEF CanAutoAdvance, Approve, Calm, Consented, Undecided, To, Row
    <3> HIDE DEF rows, rows2
    <3>5. \A q \in Untouched : Calm(rows[q], rows2[q])
      BY <3>1, <3>3, <3>4, UntouchedOnes DEF Calm
    <3>6. Fit(rows2, run, rv)
      BY <2>1, <3>3, <3>5, CalmFits
    <3> QED BY <2>2, <2>4, <3>6, OnApprovedFits
  <2> QED BY <1>3, <2>3, <2>4 DEF FinishReview
<1>4. ASSUME NEW kind \in ReviewKinds, ReviewFails(p, kind)
      PROVE  Fit(row', run', review')
  <2>1. row[p].railed \in BOOLEAN /\ "unclear" \in Verdicts /\ kind \in review[p]
    BY <1>1, <1>4 DEF ReviewFails, Row, Verdicts
  <2>2. Fit(Update(p, SaveReview(row[p], "unclear", row[p].railed)), run,
            [review EXCEPT ![p] = @ \ {kind}])
    BY <1>2, <2>1
  <2> QED BY <1>4, <2>2 DEF ReviewFails
<1> QED BY <1>3, <1>4 DEF ReviewEnds

LEMMA DecidesFit ==
  ASSUME Fit(row, run, review), NEW p \in Proposals, Decides(p)
  PROVE  Fit(row', run', review')
<1>1. row \in [Proposals -> Row] /\ row[p] \in Row
  BY DEF Fit, FitTypes
<1>2. MidReview(p) /\ p \in Untouched => row[p].status # "reviewing"
  BY DEF MidReview, Untouched
<1>3. ASSUME NEW a \in Row, p \in Untouched => Calm(row[p], a)
      PROVE  Update(p, a) \in [Proposals -> Row] /\ Fit(Update(p, a), run, review)
  <2>1. Update(p, a) \in [Proposals -> Row]
    BY <1>1 DEF Update
  <2>2. \A q \in Untouched : Calm(row[q], Update(p, a)[q])
    BY <1>1, <1>3, UntouchedOnes DEF Update, Calm
  <2> QED BY <2>1, <2>2, CalmFits
<1>4. Approve(row[p], "owner") \in Row /\ Reject(row[p]) \in Row
  BY <1>1, RowOps
<1>5. row[p].status # "reviewing" => Calm(row[p], Approve(row[p], "owner"))
  <2>1. CASE row[p].status \in Undecided \ {"reviewing"}
    BY <1>1, <1>4, <2>1, CalmOps
  <2>2. CASE row[p].status \notin Undecided
    BY <1>1, <1>4, <2>2, CalmOps DEF Approve
  <2> QED BY <2>1, <2>2
<1>6. ASSUME ApproveAndRun(p), p \in Untouched => row[p].status # "reviewing",
             review' = review
      PROVE  Fit(row', run', review')
  <2>1. Fit(Update(p, Approve(row[p], "owner")), run, review)
    BY <1>3, <1>4, <1>5, <1>6
  <2> QED BY <1>6, <2>1, OnApprovedFits DEF ApproveAndRun
<1>7. CASE ChatApproves(p) \/ InlineApproves(p) \/ SlackApproves(p)
  BY <1>2, <1>6, <1>7 DEF ChatApproves, InlineApproves, SlackApproves
<1>8. CASE GatewayApproves(p)
  BY <1>2, <1>3, <1>4, <1>5, <1>8 DEF GatewayApproves
<1>9. CASE Rejects(p)
  <2>1. p \in Untouched => Calm(row[p], Reject(row[p]))
    BY <1>1, <1>2, <1>4, <1>9, CalmOps DEF Rejects
  <2> QED BY <1>3, <1>4, <1>9, <2>1 DEF Rejects
<1> QED BY <1>7, <1>8, <1>9 DEF Decides

\* One step changes the rows of S, each calmly.
LEMMA CalmRows ==
  ASSUME Fit(row, run, review), UNCHANGED <<run, review>>,
         NEW S \in SUBSET Proposals, NEW f,
         row' = [p \in Proposals |-> IF p \in S THEN f[p] ELSE row[p]],
         \A p \in S : f[p] \in Row /\ (p \in Untouched => Calm(row[p], f[p]))
  PROVE  Fit(row', run', review')
<1>1. row \in [Proposals -> Row]
  BY DEF Fit, FitTypes
<1>2. row' \in [Proposals -> Row]
  BY <1>1
<1>3. \A p \in Untouched : Calm(row[p], row'[p])
  <2> SUFFICES ASSUME NEW p \in Untouched PROVE Calm(row[p], row'[p])
    OBVIOUS
  <2>1. CASE p \in S
    BY <2>1, UntouchedOnes
  <2>2. CASE p \notin S
    BY <2>2, UntouchedOnes DEF Calm
  <2> QED BY <2>1, <2>2
<1> QED BY <1>2, <1>3, CalmStep

LEMMA AfterwardsFit ==
  ASSUME Fit(row, run, review), NEW p \in Proposals, Afterwards(p)
  PROVE  Fit(row', run', review')
<1>1. row \in [Proposals -> Row] /\ row[p] \in Row
  BY DEF Fit, FitTypes
<1>2. ASSUME NEW a \in Row, p \in Untouched => Calm(row[p], a), Writes(a, p)
      PROVE  Fit(row', run', review')
  <2>1. row' \in [Proposals -> Row]
    BY <1>1, <1>2 DEF Writes, Update
  <2>2. \A q \in Untouched : Calm(row[q], row'[q])
    BY <1>1, <1>2, UntouchedOnes DEF Writes, Update, Calm
  <2> QED BY <1>2, <2>1, <2>2, CalmStep DEF Writes
<1>3. CASE Retries(p)
  <2>1. ResetToApproved(row[p]) \in Row
    BY <1>1, RowOps
  <2>2. Calm(row[p], ResetToApproved(row[p]))
    BY <1>1, <2>1, CalmOps
  <2> QED BY <1>2, <1>3, <2>1, <2>2 DEF Retries
<1>4. CASE Requeues(p)
  <2>1. ResetToProposed(row[p]) \in Row
    BY <1>1, RowOps
  <2>2. Calm(row[p], ResetToProposed(row[p]))
    BY <1>1, <2>1, CalmOps
  <2> QED BY <1>2, <1>4, <2>1, <2>2 DEF Requeues
<1>5. CASE Merges(p)
  <2>1. MarkMerged(row[p]) \in Row
    BY <1>1, RowOps
  <2>2. Calm(row[p], MarkMerged(row[p]))
    BY <1>1, <2>1, CalmOps
  <2> QED BY <1>2, <1>5, <2>1, <2>2 DEF Merges
<1>6. CASE FindsClosed(p)
  <2>1. MarkFailed(row[p]) \in Row
    BY <1>1, RowOps
  <2>2. Calm(row[p], MarkFailed(row[p]))
    BY <1>1, <1>6, <2>1, CalmOps DEF FindsClosed
  <2> QED BY <1>2, <1>6, <2>1, <2>2 DEF FindsClosed
<1>7. CASE Deletes(p)
  <2>1. Delete(row[p]) \in Row
    BY <1>1, RowOps
  <2>2. Calm(row[p], Delete(row[p]))
    BY <1>1, <2>1, CalmOps
  <2> QED BY <1>2, <1>7, <2>1, <2>2 DEF Deletes
<1>8. ASSUME NEW pr \in BOOLEAN, CompletesByHand(p, pr)
      PROVE  Fit(row', run', review')
  <2>1. MarkCompleted(row[p], pr) \in Row /\ (p \in Untouched => row[p].status = "approved")
    BY <1>1, <1>8, RowOps DEF CompletesByHand, Untouched
  <2>2. p \in Untouched => Calm(row[p], MarkCompleted(row[p], pr))
    BY <1>1, <2>1, CalmOps
  <2> QED BY <1>2, <1>8, <2>1, <2>2 DEF CompletesByHand
<1> QED BY <1>3, <1>4, <1>5, <1>6, <1>7, <1>8 DEF Afterwards

LEMMA ManyFit ==
  ASSUME Fit(row, run, review),
         NEW S \in SUBSET Proposals, DecidesMany(S) \/ Tidies(S)
  PROVE  Fit(row', run', review')
<1>1. \A p \in Proposals : row[p] \in Row
  BY DEF Fit, FitTypes
<1>2. CASE BatchApproves(S)
  <2> DEFINE f == [p \in S |-> Approve(row[p], "owner")]
  <2>1. \A p \in S : f[p] \in Row /\ Calm(row[p], f[p])
    BY <1>1, <1>2, RowOps, CalmOps DEF BatchApproves, Undecided
  <2>2. row' = [p \in Proposals |-> IF p \in S THEN f[p] ELSE row[p]]
    BY <1>2 DEF BatchApproves
  <2> HIDE DEF f
  <2> QED BY <1>2, <2>1, <2>2, CalmRows DEF BatchApproves
<1>3. CASE BatchRejects(S)
  <2> DEFINE f == [p \in S |-> Reject(row[p])]
  <2>1. \A p \in S : f[p] \in Row /\ Calm(row[p], f[p])
    BY <1>1, <1>3, RowOps, CalmOps DEF BatchRejects, Undecided
  <2>2. row' = [p \in Proposals |-> IF p \in S THEN f[p] ELSE row[p]]
    BY <1>3 DEF BatchRejects, UpdateAll
  <2> HIDE DEF f
  <2> QED BY <1>3, <2>1, <2>2, CalmRows DEF BatchRejects
<1>4. CASE CreatesPr(S)
  <2> DEFINE f == [p \in S |-> SetPrUrl(row[p])]
  <2>1. \A p \in S : f[p] \in Row /\ Calm(row[p], f[p])
    BY <1>1, RowOps, CalmOps
  <2>2. row' = [p \in Proposals |-> IF p \in S THEN f[p] ELSE row[p]]
    BY <1>4 DEF CreatesPr, UpdateAll
  <2> HIDE DEF f
  <2> QED BY <1>4, <2>1, <2>2, CalmRows DEF CreatesPr
<1>5. CASE Expires(S)
  <2> DEFINE f == [p \in S |-> ExpireStale(row[p])]
  <2>1. \A p \in S : f[p] \in Row /\ Calm(row[p], f[p])
    BY <1>1, RowOps, CalmOps
  <2>2. row' = [p \in Proposals |-> IF p \in S THEN f[p] ELSE row[p]]
    BY <1>5 DEF Expires, UpdateAll
  <2> HIDE DEF f
  <2> QED BY <1>5, <2>1, <2>2, CalmRows DEF Expires
<1>6. CASE Archives(S)
  <2> DEFINE f == [p \in S |-> ArchiveStale(row[p])]
  <2>1. \A p \in S : f[p] \in Row /\ Calm(row[p], f[p])
    BY <1>1, RowOps, CalmOps
  <2>2. row' = [p \in Proposals |-> IF p \in S THEN f[p] ELSE row[p]]
    BY <1>6 DEF Archives, UpdateAll
  <2> HIDE DEF f
  <2> QED BY <1>6, <2>1, <2>2, CalmRows DEF Archives
<1>7. CASE ResetsStale(S)
  <2> DEFINE f == [p \in S |-> ResetStaleReviewing(row[p])]
  <2>1. \A p \in S : f[p] \in Row /\ p \notin Untouched
    BY <1>1, <1>7, RowOps DEF ResetsStale, Untouched
  <2>2. row' = [p \in Proposals |-> IF p \in S THEN f[p] ELSE row[p]]
    BY <1>7 DEF ResetsStale, UpdateAll
  <2> HIDE DEF f
  <2> QED BY <1>7, <2>1, <2>2, CalmRows DEF ResetsStale
<1> QED BY <1>2, <1>3, <1>4, <1>5, <1>6, <1>7 DEF DecidesMany, Tidies

LEMMA DeletesTerminalFits ==
  ASSUME Fit(row, run, review), DeletesTerminal
  PROVE  Fit(row', run', review')
<1> DEFINE f == [p \in Proposals |-> DeleteTerminal(row[p])]
<1>1. \A p \in Proposals : f[p] \in Row /\ Calm(row[p], f[p])
  BY RowOps, CalmOps DEF Fit, FitTypes
<1>2. row' = [p \in Proposals |-> IF p \in Proposals THEN f[p] ELSE row[p]]
  BY DEF DeletesTerminal, UpdateAll
<1> HIDE DEF f
<1> QED BY <1>1, <1>2, CalmRows DEF DeletesTerminal

\* A crash leaves nobody working, and no row that says somebody is.
LEMMA RestartFits ==
  ASSUME Fit(row, run, review), Restart
  PROVE  Fit(row', run', review')
<1>1. /\ row' = [p \in Proposals |-> IF p \in Proposals THEN Recovered(row[p]) ELSE row[p]]
      /\ run' = [r \in Runs |-> Idle] /\ review' = [p \in Proposals |-> {}]
  BY DEF Restart, UpdateAll
<1>2. \A p \in Proposals :
        /\ Recovered(row[p]) \in Row
        /\ Recovered(row[p]).status \notin {"executing", "reviewing"}
        /\ Consented(row[p]) => Consented(Recovered(row[p]))
  <2> SUFFICES ASSUME NEW p \in Proposals
               PROVE  /\ Recovered(row[p]) \in Row
                      /\ Recovered(row[p]).status \notin {"executing", "reviewing"}
                      /\ Consented(row[p]) => Consented(Recovered(row[p]))
    OBVIOUS
  <2>1. row[p] \in Row
    BY DEF Fit, FitTypes
  <2>2. Recovered(row[p]) \in Row
    BY <2>1, RowOps
  <2>3. CASE row[p].status = "executing"
    BY <2>1, <2>2, <2>3 DEF Recovered, When, To, Consented, Sanctioned, Row
  <2>4. CASE row[p].status = "reviewing"
    BY <2>1, <2>2, <2>4 DEF Recovered, When, To, Consented, Sanctioned, Row
  <2>5. CASE row[p].status \notin {"executing", "reviewing"}
    BY <2>1, <2>2, <2>5 DEF Recovered, When
  <2> QED BY <2>3, <2>4, <2>5
<1>3. FitTypes(row', run', review')
  BY <1>1, <1>2, RunTypes DEF FitTypes
<1>4. \A r \in Runs, p \in Proposals : ~HoldsIn(run', r, p)
  BY <1>1 DEF HoldsIn, Idle
<1>5. FitShape(run')
  BY <1>1 DEF FitShape, Idle
<1>6. FitSole(run') /\ FitHeld(row', run')
  BY <1>1, <1>2, <1>4, UntouchedOnes DEF FitSole, FitHeld
<1>7. FitReviewed(row', review')
  BY <1>1, <1>2, UntouchedOnes DEF FitReviewed
<1>8. FitConsent(row')
  BY <1>1, <1>2, UntouchedOnes DEF Fit, FitConsent
<1> QED BY <1>3, <1>5, <1>6, <1>7, <1>8 DEF Fit

LEMMA InitFits ==
  Init => Fit(row, run, review)
<1> SUFFICES ASSUME Init PROVE Fit(row, run, review)
  OBVIOUS
<1>1. \A p \in Proposals : row[p] \in Row /\ row[p].status = "absent"
  BY NewRowType DEF Init, StoreInit, NewRow
<1>2. FitTypes(row, run, review)
  BY <1>1, RunTypes DEF FitTypes, Init, StoreInit
<1>3. FitShape(run) /\ FitSole(run)
  BY DEF Init, Idle, FitShape, FitSole, HoldsIn
<1>4. FitHeld(row, run) /\ FitReviewed(row, review) /\ FitConsent(row)
  BY <1>1, UntouchedOnes
     DEF Init, Idle, FitHeld, FitReviewed, FitConsent, Consented, Sanctioned, HoldsIn
<1> QED BY <1>2, <1>3, <1>4 DEF Fit

LEMMA StepFits ==
  ASSUME Fit(row, run, review), [Next]_vars
  PROVE  Fit(row', run', review')
<1>1. CASE UNCHANGED vars
  BY <1>1 DEF vars
<1>2. CASE Next
  BY <1>2, StartsFit, WorksFit, ReviewsFit, ReviewEndsFit, DecidesFit, AfterwardsFit, ManyFit,
     DeletesTerminalFits, RestartFits DEF Next
<1> QED BY <1>1, <1>2
-----------------------------------------------------------------------------
(* Types and slots: these hold whatever disturbs a row.                    *)

InSlot(x) == x.kind \in {"single", "batch"}

SlotsOf(rn) == {r \in Runs : InSlot(rn[r])}

\* What a step leaves in a run it starts or ends.
Fresh(b) ==
  b \in Run /\ b.stage = "agent" /\ (b = Idle \/ (b.item \in Proposals /\ b.kind # "idle"))
  /\ b.item \notin b.todo

Sound(rows, rn, n) ==
  /\ rows \in [Proposals -> Row] /\ rn \in [Runs -> Run] /\ FitShape(rn)
  /\ n = Cardinality(SlotsOf(rn))

LEMMA FreshIdle == Fresh(Idle) /\ ~InSlot(Idle)
BY RunTypes DEF Fresh, InSlot, Idle

LEMMA FreshRun ==
  ASSUME NEW k \in Kinds, NEW p \in Proposals
  PROVE  Fresh(Begin(k, p)) /\ Begin(k, p).kind = k
<1>1. Begin(k, p) \in Run
  BY RunTypes
<1> QED BY <1>1 DEF Fresh, Begin, Idle, Kinds

LEMMA FreshTodo ==
  ASSUME NEW k \in Kinds, NEW p \in Proposals, NEW T \in SUBSET Proposals, p \notin T
  PROVE  /\ Fresh([Begin(k, p) EXCEPT !.todo = T])
         /\ [Begin(k, p) EXCEPT !.todo = T].kind = k
<1>1. [Begin(k, p) EXCEPT !.todo = T] \in Run
  BY RunTypes
<1> QED BY <1>1 DEF Fresh, Begin, Idle, Kinds

\* One run changes: its slot is counted or no longer counted.
LEMMA ChangeSound ==
  ASSUME NEW rows, NEW rn, NEW n, Sound(rows, rn, n), NEW rows2 \in [Proposals -> Row],
         NEW r \in Runs, NEW b, Fresh(b)
  PROVE  /\ (InSlot(b) <=> InSlot(rn[r])) => Sound(rows2, [rn EXCEPT ![r] = b], n)
         /\ InSlot(b) /\ ~InSlot(rn[r]) => Sound(rows2, [rn EXCEPT ![r] = b], n + 1)
         /\ ~InSlot(b) /\ InSlot(rn[r]) => Sound(rows2, [rn EXCEPT ![r] = b], n - 1)
<1> DEFINE rn2 == [rn EXCEPT ![r] = b]
<1>1. /\ rn2 \in [Runs -> Run] /\ rn2[r] = b /\ \A s \in Runs \ {r} : rn2[s] = rn[s]
  BY DEF Sound, Fresh
<1>2. IsFiniteSet(SlotsOf(rn))
  BY ExecutorAssumption, FS_Subset DEF SlotsOf
<1> HIDE DEF rn2
<1>3. FitShape(rn2)
  <2> SUFFICES ASSUME NEW s \in Runs
               PROVE  /\ rn2[s].kind = "idle" => rn2[s] = Idle
                      /\ rn2[s].kind # "idle" => rn2[s].item \in Proposals
                      /\ rn2[s].stage = "verify" => rn2[s].kind \in {"single", "cron"}
                      /\ rn2[s].stage \in {"gate", "retry", "regate"} => rn2[s].kind = "single"
                      /\ rn2[s].item \notin rn2[s].todo
    BY DEF FitShape
  <2>1. CASE s = r
    BY <1>1, <2>1 DEF Fresh, Idle
  <2>2. CASE s # r
    BY <1>1, <2>2 DEF Sound, FitShape
  <2> QED BY <2>1, <2>2
<1>4. InSlot(b) <=> InSlot(rn[r]) => SlotsOf(rn2) = SlotsOf(rn)
  BY <1>1 DEF SlotsOf
<1>5. InSlot(b) /\ ~InSlot(rn[r]) => Cardinality(SlotsOf(rn2)) = Cardinality(SlotsOf(rn)) + 1
  <2> SUFFICES ASSUME InSlot(b), ~InSlot(rn[r])
               PROVE  Cardinality(SlotsOf(rn2)) = Cardinality(SlotsOf(rn)) + 1
    OBVIOUS
  <2>1. SlotsOf(rn2) = SlotsOf(rn) \cup {r} /\ r \notin SlotsOf(rn)
    BY <1>1 DEF SlotsOf
  <2> QED BY <1>2, <2>1, FS_AddElement
<1>6. ~InSlot(b) /\ InSlot(rn[r]) => Cardinality(SlotsOf(rn2)) = Cardinality(SlotsOf(rn)) - 1
  <2> SUFFICES ASSUME ~InSlot(b), InSlot(rn[r])
               PROVE  Cardinality(SlotsOf(rn2)) = Cardinality(SlotsOf(rn)) - 1
    OBVIOUS
  <2>1. SlotsOf(rn2) = SlotsOf(rn) \ {r} /\ r \in SlotsOf(rn)
    BY <1>1 DEF SlotsOf
  <2> QED BY <1>2, <2>1, FS_RemoveElement
<1> QED BY <1>1, <1>3, <1>4, <1>5, <1>6 DEF Sound, rn2

\* The invariant that a step finds, and the one it must leave.
SoundNow == Sound(row, run, active) /\ active \in Int

SoundNext == Sound(row', run', active')

LEMMA PickupSound ==
  ASSUME SoundNow, NEW rows \in [Proposals -> Row], NEW r \in Runs, InSlot(run[r]),
         PickupNext(rows, r)
  PROVE  SoundNext
<1>1. CASE row' = rows /\ run' = [run EXCEPT ![r] = Idle] /\ active' = active - 1
  BY <1>1, FreshIdle, ChangeSound DEF SoundNow, SoundNext
<1>2. ASSUME NEW p \in Oldest(rows), row' = [rows EXCEPT ![p] = MarkExecuting(@)],
             run' = [run EXCEPT ![r] = Begin("single", p)], active' = active
      PROVE  SoundNext
  <2>1. p \in Proposals
    BY DEF Oldest, Approved
  <2>2. row' \in [Proposals -> Row]
    BY <1>2, <2>1, RowOps
  <2>3. Fresh(Begin("single", p)) /\ Begin("single", p).kind = "single"
    BY <2>1, FreshRun DEF Kinds
  <2>4. InSlot(Begin("single", p))
    BY <2>3 DEF InSlot
  <2> QED BY <1>2, <2>2, <2>3, <2>4, ChangeSound DEF SoundNow, SoundNext
<1> QED BY <1>1, <1>2 DEF PickupNext

LEMMA ItemEndsSound ==
  ASSUME SoundNow, NEW r \in Runs, run[r].kind \in Kinds, NEW w \in Row,
         NEW ok \in BOOLEAN, ItemEnds(r, w, ok)
  PROVE  SoundNext
<1> DEFINE rows == Update(run[r].item, w)
<1>1. /\ row \in [Proposals -> Row] /\ run \in [Runs -> Run]
      /\ run[r].item \in Proposals /\ run[r].todo \in SUBSET Proposals
      /\ run[r].done \in SUBSET Proposals
  BY DEF SoundNow, Sound, FitShape, Kinds, Run
<1>2. rows \in [Proposals -> Row]
  BY <1>1 DEF Update
<1> HIDE DEF rows
<1>3. CASE run[r].kind = "single" /\ PickupNext(rows, r)
  BY <1>2, <1>3, PickupSound DEF InSlot
<1>4. CASE run[r].kind = "cron" /\ CronNext(rows, r) /\ UNCHANGED active
  <2>1. CASE run' = [run EXCEPT ![r] = Idle] /\ row' = rows
    BY <1>2, <1>4, <2>1, FreshIdle, ChangeSound DEF SoundNow, SoundNext, InSlot
  <2>2. ASSUME NEW p \in run[r].todo, NEW T \in SUBSET Proposals, p \notin T,
               run' = [run EXCEPT ![r] = [Begin("cron", p) EXCEPT !.todo = T]],
               row' = [rows EXCEPT ![p] = MarkExecuting(@)]
        PROVE  SoundNext
    <3>1. row' \in [Proposals -> Row]
      BY <1>1, <1>2, <2>2, RowOps
    <3> DEFINE b == [Begin("cron", p) EXCEPT !.todo = T]
    <3>2. Fresh(b) /\ b.kind = "cron"
      BY <1>1, <2>2, FreshTodo DEF Kinds
    <3>3. run' = [run EXCEPT ![r] = b] /\ active' = active /\ ~InSlot(run[r])
      BY <1>4, <2>2 DEF InSlot
    <3> HIDE DEF b
    <3>4. ~InSlot(b)
      BY <3>2 DEF InSlot
    <3> QED BY <3>1, <3>2, <3>3, <3>4, ChangeSound DEF SoundNow, SoundNext
  <2>3. CASE \E p \in {x \in run[r].todo : Claimable(rows[x])} :
             \E skipped \in SUBSET (run[r].todo \ {x \in run[r].todo : Claimable(rows[x])}) :
               /\ run' = [run EXCEPT ![r] =
                    [Begin("cron", p) EXCEPT !.todo = run[r].todo \ ({p} \cup skipped)]]
               /\ row' = [rows EXCEPT ![p] = MarkExecuting(@)]
    <3>1. PICK p \in run[r].todo,
               skipped \in SUBSET (run[r].todo \ {x \in run[r].todo : Claimable(rows[x])}) :
               /\ run' = [run EXCEPT ![r] =
                    [Begin("cron", p) EXCEPT !.todo = run[r].todo \ ({p} \cup skipped)]]
               /\ row' = [rows EXCEPT ![p] = MarkExecuting(@)]
      BY <2>3
    <3>2. /\ run[r].todo \ ({p} \cup skipped) \in SUBSET Proposals
          /\ p \notin run[r].todo \ ({p} \cup skipped)
      BY <1>1
    <3> QED BY <2>2, <3>1, <3>2
  <2> QED BY <1>4, <2>1, <2>3 DEF CronNext
<1>5. CASE run[r].kind = "direct" /\ row' = rows /\ run' = [run EXCEPT ![r] = Idle]
           /\ UNCHANGED active
  BY <1>2, <1>5, FreshIdle, ChangeSound DEF SoundNow, SoundNext, InSlot
<1>6. CASE run[r].kind = "batch" /\ BatchNext(rows, r, ok)
  <2> DEFINE D == run[r].done \cup (IF ok THEN {run[r].item} ELSE {})
  <2>1. D \in SUBSET Proposals
    BY <1>1
  <2>2. ASSUME NEW p \in run[r].todo,
               run' = [run EXCEPT ![r] =
                 [Begin("batch", p) EXCEPT !.todo = run[r].todo \ {p}, !.done = D]],
               row' = rows, active' = active
        PROVE  SoundNext
    <3> DEFINE T == run[r].todo \ {p}
               b == [Begin("batch", p) EXCEPT !.todo = T, !.done = D]
    <3>1. T \in SUBSET Proposals /\ p \in Proposals /\ p \notin T /\ "batch" \in Kinds
      BY <1>1 DEF Kinds
    <3> HIDE DEF D, T
    <3>2. Fresh(b) /\ b.kind = "batch"
      <4>1. b \in Run /\ b.kind = "batch" /\ b.item = p /\ b.stage = "agent" /\ b.todo = T
        BY <2>1, <3>1 DEF Begin, Idle, Run, Kinds, Stages
      <4> HIDE DEF b
      <4> QED BY <3>1, <4>1 DEF Fresh
    <3>3. run' = [run EXCEPT ![r] = b] /\ InSlot(run[r])
      BY <1>6, <2>2 DEF InSlot, T
    <3> HIDE DEF b
    <3>4. InSlot(b)
      BY <3>2 DEF InSlot
    <3>5. Sound(rows, [run EXCEPT ![r] = b], active)
      BY <1>2, <3>2, <3>3, <3>4, ChangeSound DEF SoundNow
    <3> QED BY <2>2, <3>3, <3>5 DEF SoundNext
  <2>3. ASSUME NEW made \in BOOLEAN,
               PickupNext([p \in Proposals |->
                        IF made /\ p \in D THEN SetPrUrl(rows[p]) ELSE rows[p]], r)
        PROVE  SoundNext
    <3> DEFINE rows2 == [p \in Proposals |->
                          IF made /\ p \in D THEN SetPrUrl(rows[p]) ELSE rows[p]]
    <3>1. rows2 \in [Proposals -> Row]
      BY <1>2, RowOps
    <3>2. PickupNext(rows2, r)
      BY <2>3
    <3> HIDE DEF rows2
    <3> QED BY <1>6, <3>1, <3>2, PickupSound DEF InSlot
  <2> QED BY <1>6, <2>2, <2>3 DEF BatchNext
<1> QED BY <1>3, <1>4, <1>5, <1>6 DEF ItemEnds, rows

\* No run changes.
LEMMA RowSound ==
  ASSUME SoundNow, row' \in [Proposals -> Row], UNCHANGED <<run, active>>
  PROVE  SoundNext
BY DEF SoundNow, SoundNext, Sound

\* One run starts, and counts a slot if it takes one.
LEMMA StartSound ==
  ASSUME SoundNow, NEW rows \in [Proposals -> Row], NEW r \in Runs, run[r] = Idle,
         NEW b, Fresh(b), run' = [run EXCEPT ![r] = b], row' = rows,
         active' = IF InSlot(b) THEN active + 1 ELSE active
  PROVE  SoundNext
<1>1. ~InSlot(run[r])
  BY FreshIdle
<1>2. CASE InSlot(b)
  <2>1. Sound(rows, [run EXCEPT ![r] = b], active + 1)
    BY <1>1, <1>2, ChangeSound DEF SoundNow
  <2> QED BY <1>2, <2>1 DEF SoundNext
<1>3. CASE ~InSlot(b)
  <2>1. Sound(rows, [run EXCEPT ![r] = b], active)
    BY <1>1, <1>3, ChangeSound DEF SoundNow
  <2> QED BY <1>3, <2>1 DEF SoundNext
<1> QED BY <1>2, <1>3

LEMMA OnApprovedSound ==
  ASSUME SoundNow, NEW rows \in [Proposals -> Row], NEW p \in Proposals,
         OnApproved(rows, p) \/ ExecuteProposal(rows, p)
  PROVE  SoundNext
<1>1. CASE row' = rows /\ UNCHANGED <<run, active>>
  BY <1>1, RowSound
<1>2. CASE ExecuteProposal(rows, p)
  <2>1. PICK r \in Runs : run[r] = Idle /\ run' = [run EXCEPT ![r] = Begin("single", p)]
    BY <1>2 DEF ExecuteProposal
  <2>2. Fresh(Begin("single", p)) /\ InSlot(Begin("single", p))
    BY FreshRun DEF InSlot, Kinds
  <2>3. [rows EXCEPT ![p] = MarkExecuting(@)] \in [Proposals -> Row]
    BY RowOps
  <2>4. active' = active + 1 /\ row' = [rows EXCEPT ![p] = MarkExecuting(@)]
    BY <1>2 DEF ExecuteProposal
  <2> QED BY <2>1, <2>2, <2>3, <2>4, StartSound
<1> QED BY <1>1, <1>2 DEF OnApproved

LEMMA StartsSound ==
  ASSUME SoundNow, Starts
  PROVE  SoundNext
<1>1. row \in [Proposals -> Row] /\ \A p \in Proposals : MarkExecuting(row[p]) \in Row
  BY RowOps DEF SoundNow, Sound
<1>2. CASE ExecuteEach
  <2>1. PICK p \in Oldest(row) : ExecuteProposal(row, p)
    BY <1>2 DEF ExecuteEach
  <2>2. p \in Proposals
    BY DEF Oldest, Approved
  <2> QED BY <1>1, <2>1, <2>2, OnApprovedSound
<1>3. CASE ExecuteBatch
  <2>1. PICK r \in Runs, p \in Oldest(row) :
          /\ run[r] = Idle
          /\ run' = [run EXCEPT ![r] =
                       [Begin("batch", p) EXCEPT !.todo = Approved(row) \ {p}]]
    BY <1>3 DEF ExecuteBatch
  <2> DEFINE T == Approved(row) \ {p}
             b == [Begin("batch", p) EXCEPT !.todo = T]
  <2>2. p \in Proposals /\ T \in SUBSET Proposals /\ p \notin T /\ "batch" \in Kinds
    BY DEF Oldest, Approved, Kinds
  <2>3. run' = [run EXCEPT ![r] = b]
    BY <2>1
  <2> HIDE DEF T
  <2>4. Fresh(b) /\ b.kind = "batch"
    BY <2>2, FreshTodo
  <2> HIDE DEF b
  <2>5. InSlot(b)
    BY <2>4 DEF InSlot
  <2>6. row' \in [Proposals -> Row] /\ active' = active + 1
    BY <1>1, <1>3 DEF ExecuteBatch, UpdateAll
  <2> QED BY <2>1, <2>3, <2>4, <2>5, <2>6, StartSound
<1>4. CASE CronBegin
  <2>1. PICK S \in SUBSET Approved(row), r \in Runs : \E p \in S :
          /\ run[r] = Idle
          /\ run' = [run EXCEPT ![r] = [Begin("cron", p) EXCEPT !.todo = S \ {p}]]
          /\ row' = Update(p, MarkExecuting(row[p]))
    BY <1>4 DEF CronBegin
  <2>2. PICK p \in S :
          /\ run[r] = Idle
          /\ run' = [run EXCEPT ![r] = [Begin("cron", p) EXCEPT !.todo = S \ {p}]]
          /\ row' = Update(p, MarkExecuting(row[p]))
    BY <2>1
  <2> DEFINE T == S \ {p}
             b == [Begin("cron", p) EXCEPT !.todo = T]
  <2>3. p \in Proposals /\ T \in SUBSET Proposals /\ p \notin T /\ "cron" \in Kinds
    BY DEF Approved, Kinds
  <2>4. run' = [run EXCEPT ![r] = b]
    BY <2>2
  <2> HIDE DEF T
  <2>5. Fresh(b) /\ b.kind = "cron"
    BY <2>3, FreshTodo
  <2> HIDE DEF b
  <2>6. ~InSlot(b)
    BY <2>5 DEF InSlot
  <2>7. row' \in [Proposals -> Row] /\ active' = active
    BY <1>1, <1>4, <2>2 DEF CronBegin, Update
  <2> QED BY <2>2, <2>4, <2>5, <2>6, <2>7, StartSound
<1> QED BY <1>2, <1>3, <1>4 DEF Starts

LEMMA WorksSound ==
  ASSUME SoundNow, NEW r \in Runs, Works(r)
  PROVE  SoundNext
<1>1. /\ row \in [Proposals -> Row] /\ run \in [Runs -> Run]
      /\ run[r].kind \in Kinds => run[r].item \in Proposals
      /\ run[r].stage = "verify" => run[r].kind \in {"single", "cron"}
      /\ run[r].stage \in {"gate", "retry", "regate"} => run[r].kind = "single"
  BY DEF SoundNow, Sound, FitShape, Kinds
<1>2. ASSUME run[r].kind \in Kinds, Finish(r) \/ Fail(r)
      PROVE  SoundNext
  <2>1. /\ MarkFailed(row[run[r].item]) \in Row
        /\ \A pr \in BOOLEAN : MarkCompleted(row[run[r].item], pr) \in Row
    BY <1>1, <1>2, RowOps
  <2> QED BY <1>2, <2>1, ItemEndsSound DEF Finish, Fail
<1>3. ASSUME NEW stage \in Stages, GoTo(r, stage),
             run[r].kind = "single" \/ (run[r].kind = "cron" /\ stage = "verify")
      PROVE  SoundNext
  <2>1. /\ run' \in [Runs -> Run] /\ row' = row /\ active' = active
        /\ \A s \in Runs \ {r} : run'[s] = run[s]
        /\ run'[r].kind = run[r].kind /\ run'[r].item = run[r].item
        /\ run'[r].todo = run[r].todo /\ run'[r].stage = stage
    BY <1>1, <1>3 DEF GoTo, Run
  <2>2. FitShape(run')
    BY <1>3, <2>1 DEF SoundNow, Sound, FitShape
  <2>3. SlotsOf(run') = SlotsOf(run)
    BY <2>1 DEF SlotsOf, InSlot
  <2> QED BY <1>1, <2>1, <2>2, <2>3 DEF SoundNow, SoundNext, Sound
<1>4. CASE AgentAnswers(r)
  <2>1. CASE Finish(r)
    BY <1>2, <1>4, <2>1 DEF AgentAnswers
  <2>2. CASE run[r].kind \in {"single", "cron"} /\ GoTo(r, "verify")
    BY <1>3, <2>2 DEF Stages
  <2>3. CASE run[r].kind = "single" /\ (GoTo(r, "gate") \/ GoTo(r, "regate"))
    BY <1>3, <2>3 DEF Stages
  <2> QED BY <1>4, <2>1, <2>2, <2>3 DEF AgentAnswers
<1>5. CASE GateJudges(r)
  <2>1. run[r].kind = "single"
    BY <1>1, <1>5 DEF GateJudges
  <2>2. CASE GoTo(r, "verify") \/ GoTo(r, "retry")
    BY <1>3, <2>1, <2>2 DEF Stages
  <2>3. CASE Fail(r)
    BY <1>2, <2>1, <2>3 DEF Kinds
  <2> QED BY <1>5, <2>2, <2>3 DEF GateJudges
<1>6. CASE Verified(r)
  BY <1>1, <1>2, <1>6 DEF Verified, Kinds
<1>7. CASE RunThrows(r)
  BY <1>2, <1>7 DEF RunThrows
<1> QED BY <1>4, <1>5, <1>6, <1>7 DEF Works

LEMMA ReviewsSound ==
  ASSUME SoundNow, NEW p \in Proposals, Reviews(p) \/ ReviewEnds(p)
  PROVE  SoundNext
<1>1. row \in [Proposals -> Row] /\ row[p] \in Row
  BY DEF SoundNow, Sound
<1>2. \A a \in Row : Update(p, a) \in [Proposals -> Row]
  BY <1>1 DEF Update
<1>3. \A railed \in Rails : railed \in BOOLEAN
  BY ExecutorAssumption
<1>4. ASSUME NEW a \in {"auto", "requires_approval"}, NEW railed \in Rails,
             Create(p, a, railed)
      PROVE  SoundNext
  BY <1>2, <1>3, <1>4, NewRowType, RowSound DEF Create
<1>5. ASSUME NEW railed \in Rails, Propose(p, railed)
      PROVE  SoundNext
  <2>1. MarkReviewing(NewRow("proposed", "requires_approval", railed)) \in Row
    BY <1>3, NewRowType, RowOps
  <2> QED BY <1>2, <1>5, <2>1, RowSound DEF Propose
<1>6. CASE ProposeDirect(p)
  <2> DEFINE b == Begin("direct", p)
             a == MarkExecuting(NewRow("proposed", "auto", FALSE))
  <2>1. PICK r \in Runs : run[r] = Idle /\ run' = [run EXCEPT ![r] = b]
    BY <1>6 DEF ProposeDirect
  <2>2. Fresh(b) /\ b.kind = "direct"
    BY FreshRun DEF Kinds
  <2>3. a \in Row
    BY NewRowType, RowOps
  <2>4. row' = Update(p, a) /\ active' = active
    BY <1>6 DEF ProposeDirect
  <2> HIDE DEF a, b
  <2>5. ~InSlot(b) /\ Update(p, a) \in [Proposals -> Row]
    BY <1>2, <2>2, <2>3 DEF InSlot
  <2> QED BY <2>1, <2>2, <2>4, <2>5, StartSound
<1>7. ASSUME NEW kind \in ReviewKinds, NEW queued \in BOOLEAN, StartReview(p, kind, queued)
      PROVE  SoundNext
  <2>1. MarkReviewing(row[p]) \in Row
    BY <1>1, RowOps
  <2> QED BY <1>2, <1>7, <2>1, RowSound DEF StartReview
<1>8. ASSUME NEW kind \in ReviewKinds, NEW verdict \in Verdicts, NEW railed \in Rails,
             FinishReview(p, kind, verdict, railed)
      PROVE  SoundNext
  <2> DEFINE saved == SaveReview(row[p], verdict, railed)
  <2>1. saved \in Row
    BY <1>1, <1>3, RowOps
  <2> HIDE DEF saved
  <2>2. Approve(saved, "reviewer") \in Row
    BY <2>1, RowOps
  <2>3. Update(p, saved) \in [Proposals -> Row] /\
        Update(p, Approve(saved, "reviewer")) \in [Proposals -> Row]
    BY <1>2, <2>1, <2>2
  <2>4. CASE row' = Update(p, saved) /\ UNCHANGED <<run, active>>
    BY <2>3, <2>4, RowSound
  <2>5. CASE OnApproved(Update(p, Approve(saved, "reviewer")), p)
    BY <2>3, <2>5, OnApprovedSound
  <2> QED BY <1>8, <2>4, <2>5 DEF FinishReview, saved
<1>9. ASSUME NEW kind \in ReviewKinds, ReviewFails(p, kind)
      PROVE  SoundNext
  <2>1. row[p].railed \in BOOLEAN /\ "unclear" \in Verdicts
    BY <1>1 DEF Row, Verdicts
  <2>2. SaveReview(row[p], "unclear", row[p].railed) \in Row
    BY <1>1, <2>1, RowOps
  <2> QED BY <1>2, <1>9, <2>2, RowSound DEF ReviewFails
<1> QED BY <1>4, <1>5, <1>6, <1>7, <1>8, <1>9 DEF Reviews, ReviewEnds

LEMMA DecidesSound ==
  ASSUME SoundNow, NEW p \in Proposals, Decides(p) \/ Afterwards(p)
  PROVE  SoundNext
<1>1. row \in [Proposals -> Row] /\ row[p] \in Row
  BY DEF SoundNow, Sound
<1>2. \A a \in Row : Update(p, a) \in [Proposals -> Row]
  BY <1>1 DEF Update
<1>3. Approve(row[p], "owner") \in Row /\ Reject(row[p]) \in Row
  BY <1>1, RowOps
<1>4. ApproveAndRun(p) => SoundNext
  BY <1>2, <1>3, OnApprovedSound DEF ApproveAndRun
<1>5. CASE Decides(p)
  BY <1>2, <1>3, <1>4, <1>5, RowSound
     DEF Decides, ChatApproves, InlineApproves, SlackApproves, GatewayApproves, Rejects
<1>6. \A a \in Row : Writes(a, p) => SoundNext
  BY <1>2, RowSound DEF Writes
<1>7. /\ ResetToApproved(row[p]) \in Row /\ ResetToProposed(row[p]) \in Row
      /\ MarkMerged(row[p]) \in Row /\ MarkFailed(row[p]) \in Row /\ Delete(row[p]) \in Row
      /\ \A pr \in BOOLEAN : MarkCompleted(row[p], pr) \in Row
  BY <1>1, RowOps
<1>8. CASE Afterwards(p)
  BY <1>6, <1>7, <1>8
     DEF Afterwards, Retries, Requeues, Merges, FindsClosed, Deletes, CompletesByHand
<1> QED BY <1>5, <1>8

LEMMA ManySound ==
  ASSUME SoundNow, NEW S \in SUBSET Proposals, DecidesMany(S) \/ Tidies(S) \/ DeletesTerminal
  PROVE  SoundNext
<1>1. \A p \in Proposals :
        /\ row[p] \in Row /\ Approve(row[p], "owner") \in Row /\ Reject(row[p]) \in Row
        /\ SetPrUrl(row[p]) \in Row /\ ExpireStale(row[p]) \in Row
        /\ ArchiveStale(row[p]) \in Row /\ ResetStaleReviewing(row[p]) \in Row
        /\ DeleteTerminal(row[p]) \in Row
  BY RowOps DEF SoundNow, Sound
<1>2. CASE BatchApproves(S)
  <2>1. row' \in [Proposals -> Row]
    BY <1>1, <1>2 DEF BatchApproves
  <2> QED BY <1>2, <2>1, RowSound DEF BatchApproves
<1>3. CASE BatchRejects(S)
  <2>1. row' \in [Proposals -> Row]
    BY <1>1, <1>3 DEF BatchRejects, UpdateAll
  <2> QED BY <1>3, <2>1, RowSound DEF BatchRejects
<1>4. CASE CreatesPr(S)
  <2>1. row' \in [Proposals -> Row]
    BY <1>1, <1>4 DEF CreatesPr, UpdateAll
  <2> QED BY <1>4, <2>1, RowSound DEF CreatesPr
<1>5. CASE Expires(S)
  <2>1. row' \in [Proposals -> Row]
    BY <1>1, <1>5 DEF Expires, UpdateAll
  <2> QED BY <1>5, <2>1, RowSound DEF Expires
<1>6. CASE Archives(S)
  <2>1. row' \in [Proposals -> Row]
    BY <1>1, <1>6 DEF Archives, UpdateAll
  <2> QED BY <1>6, <2>1, RowSound DEF Archives
<1>7. CASE ResetsStale(S)
  <2>1. row' \in [Proposals -> Row]
    BY <1>1, <1>7 DEF ResetsStale, UpdateAll
  <2> QED BY <1>7, <2>1, RowSound DEF ResetsStale
<1>8. CASE DeletesTerminal
  <2>1. row' \in [Proposals -> Row]
    BY <1>1, <1>8 DEF DeletesTerminal, UpdateAll
  <2> QED BY <1>8, <2>1, RowSound DEF DeletesTerminal
<1> QED BY <1>2, <1>3, <1>4, <1>5, <1>6, <1>7, <1>8 DEF DecidesMany, Tidies

\* Nobody works when the process starts.
LEMMA NobodySound ==
  ASSUME NEW rn, rn = [r \in Runs |-> Idle], NEW rows \in [Proposals -> Row]
  PROVE  Sound(rows, rn, 0)
<1>1. rn \in [Runs -> Run] /\ FitShape(rn)
  BY RunTypes DEF FitShape, Idle
<1>2. SlotsOf(rn) = {}
  BY FreshIdle DEF SlotsOf
<1> QED BY <1>1, <1>2, FS_EmptySet DEF Sound

LEMMA StepSound ==
  ASSUME SoundNow, [Next]_vars
  PROVE  SoundNext
<1>1. CASE UNCHANGED vars
  BY <1>1 DEF vars, SoundNow, SoundNext
<1>2. CASE Restart
  <2>1. row' \in [Proposals -> Row] /\ run' = [r \in Runs |-> Idle] /\ active' = 0
    BY <1>2, RowOps DEF Restart, UpdateAll, SoundNow, Sound
  <2> QED BY <2>1, NobodySound DEF SoundNext
<1>3. CASE DeletesTerminal
  BY <1>3, ManySound
<1>4. CASE Next /\ ~Restart /\ ~DeletesTerminal
  BY <1>4, StartsSound, WorksSound, ReviewsSound, DecidesSound, ManySound DEF Next
<1> QED BY <1>1, <1>2, <1>3, <1>4
-----------------------------------------------------------------------------
(* Theorems                                                                *)

OlderOK == older \in [Proposals -> SUBSET Proposals]
ReviewOK == review \in [Proposals -> SUBSET ReviewKinds]

LEMMA OlderStep ==
  ASSUME OlderOK, [Next]_vars
  PROVE  OlderOK'
<1>1. CASE UNCHANGED older
  BY <1>1 DEF OlderOK
<1>2. ASSUME NEW S \in SUBSET Proposals, ApprovedNow(S)
      PROVE  OlderOK'
  BY <1>2 DEF OlderOK, ApprovedNow
<1>3. CASE Starts
  BY <1>1, <1>3 DEF Starts, ExecuteEach, ExecuteBatch, CronBegin
<1>4. ASSUME NEW r \in Runs, Works(r) PROVE OlderOK'
  BY <1>1, <1>4 DEF Works, AgentAnswers, GateJudges, Verified, RunThrows
<1>5. ASSUME NEW p \in Proposals, Reviews(p) PROVE OlderOK'
  BY <1>1, <1>5 DEF Reviews, Create, Propose, ProposeDirect, StartReview
<1>6. ASSUME NEW p \in Proposals, ReviewEnds(p) PROVE OlderOK'
  BY <1>1, <1>2, <1>6 DEF ReviewEnds, FinishReview, ReviewFails
<1>7. ASSUME NEW p \in Proposals, Decides(p) PROVE OlderOK'
  BY <1>1, <1>2, <1>7 DEF Decides, ChatApproves, InlineApproves, SlackApproves, ApproveAndRun,
     GatewayApproves, Rejects
<1>8. ASSUME NEW p \in Proposals, Afterwards(p) PROVE OlderOK'
  BY <1>1, <1>8 DEF Afterwards, Retries, Requeues, Merges, FindsClosed, Deletes,
     CompletesByHand, Writes
<1>9. ASSUME NEW S \in SUBSET Proposals, DecidesMany(S) \/ Tidies(S) PROVE OlderOK'
  BY <1>1, <1>2, <1>9 DEF DecidesMany, BatchApproves, BatchRejects, Tidies, CreatesPr, Expires,
     Archives, ResetsStale
<1>10. CASE DeletesTerminal \/ Restart \/ UNCHANGED vars
  BY <1>1, <1>10 DEF DeletesTerminal, Restart, vars
<1> QED BY <1>3, <1>4, <1>5, <1>6, <1>7, <1>8, <1>9, <1>10 DEF Next

LEMMA ReviewStep ==
  ASSUME ReviewOK, [Next]_vars
  PROVE  ReviewOK'
<1>1. CASE UNCHANGED review
  BY <1>1 DEF ReviewOK
<1>2. ASSUME NEW p \in Proposals, NEW kind \in ReviewKinds,
             \/ review' = [review EXCEPT ![p] = @ \cup {kind}]
             \/ review' = [review EXCEPT ![p] = @ \ {kind}]
      PROVE  ReviewOK'
  BY <1>2 DEF ReviewOK
<1>3. CASE Starts
  BY <1>1, <1>3 DEF Starts, ExecuteEach, ExecuteBatch, CronBegin
<1>4. ASSUME NEW r \in Runs, Works(r) PROVE ReviewOK'
  BY <1>1, <1>4 DEF Works, AgentAnswers, GateJudges, Verified, RunThrows
<1>5. ASSUME NEW p \in Proposals, Reviews(p) PROVE ReviewOK'
  <2>1. "plain" \in ReviewKinds
    BY DEF ReviewKinds
  <2>2. CASE \E railed \in Rails : Propose(p, railed)
    BY <1>2, <2>1, <2>2 DEF Propose
  <2>3. CASE \E kind \in ReviewKinds, queued \in BOOLEAN : StartReview(p, kind, queued)
    BY <1>2, <2>3 DEF StartReview
  <2>4. CASE UNCHANGED review
    BY <1>1, <2>4
  <2> QED BY <1>5, <2>2, <2>3, <2>4 DEF Reviews, Create, ProposeDirect
<1>6. ASSUME NEW p \in Proposals, ReviewEnds(p) PROVE ReviewOK'
  <2>1. PICK kind \in ReviewKinds : review' = [review EXCEPT ![p] = @ \ {kind}]
    BY <1>6 DEF ReviewEnds, FinishReview, ReviewFails
  <2> QED BY <1>2, <2>1
<1>7. ASSUME NEW p \in Proposals, Decides(p) PROVE ReviewOK'
  BY <1>1, <1>7 DEF Decides, ChatApproves, InlineApproves, SlackApproves, GatewayApproves,
     Rejects
<1>8. ASSUME NEW p \in Proposals, Afterwards(p) PROVE ReviewOK'
  BY <1>1, <1>8 DEF Afterwards, Retries, Requeues, Merges, FindsClosed, Deletes,
     CompletesByHand, Writes
<1>9. ASSUME NEW S \in SUBSET Proposals, DecidesMany(S) \/ Tidies(S) PROVE ReviewOK'
  BY <1>1, <1>9 DEF DecidesMany, BatchApproves, BatchRejects, Tidies, CreatesPr, Expires,
     Archives, ResetsStale
<1>10. CASE DeletesTerminal \/ UNCHANGED vars
  BY <1>1, <1>10 DEF DeletesTerminal, vars
<1>11. CASE Restart
  BY <1>11 DEF Restart, ReviewOK
<1> QED BY <1>3, <1>4, <1>5, <1>6, <1>7, <1>8, <1>9, <1>10, <1>11 DEF Next

\* The invariant that holds whatever disturbs a row.
Safe == Sound(row, run, active) /\ OlderOK /\ ReviewOK

LEMMA SafeTypes == Safe => TypeOK /\ SlotsAreAccounted /\ SoundNow
<1> SUFFICES ASSUME Safe PROVE TypeOK /\ SlotsAreAccounted /\ SoundNow
  OBVIOUS
<1>1. IsFiniteSet(SlotsOf(run))
  BY ExecutorAssumption, FS_Subset DEF SlotsOf
<1>2. active \in Int
  BY <1>1, FS_CardinalityType DEF Safe, Sound
<1>3. TypeOK
  BY <1>2 DEF Safe, Sound, OlderOK, ReviewOK, TypeOK, StoreTypeOK
<1>4. SlotsAreAccounted
  BY DEF Safe, Sound, SlotsOf, InSlot, SlotsAreAccounted, Slotted
<1> QED BY <1>2, <1>3, <1>4 DEF Safe, SoundNow

LEMMA SafeAlways == Spec => []Safe
<1>1. Init => Safe
  <2> SUFFICES ASSUME Init PROVE Safe
    OBVIOUS
  <2>1. row \in [Proposals -> Row] /\ run = [r \in Runs |-> Idle] /\ active = 0
    BY NewRowType DEF Init, StoreInit
  <2>2. Sound(row, run, active)
    BY <2>1, NobodySound
  <2> QED BY <2>2 DEF Init, StoreInit, Safe, OlderOK, ReviewOK
<1>2. Safe /\ [Next]_vars => Safe'
  BY SafeTypes, StepSound, OlderStep, ReviewStep DEF Safe, SoundNext
<1> QED BY <1>1, <1>2, PTL DEF Spec

\* The variables keep their types, whatever changes a row under those who work on
\* it (store.ts has no constraint but the one on status).
THEOREM TypesHold == Spec => []TypeOK
BY SafeAlways, SafeTypes, PTL

\* activeCount counts the executions that took a slot: whatever happens to their
\* rows, no slot is lost or given back twice (the increments and the finally
\* blocks of executor.ts).
THEOREM SlotsHold == Spec => []SlotsAreAccounted
BY SafeAlways, SafeTypes, PTL

\* The executor, its bundles, the scheduler's task, the reviews and the chats keep
\* the pipeline's invariant of every proposal whose row nobody changes under those
\* who work on it, whatever is done to the others.
THEOREM PipelineHolds == Spec => []PipelineInv
<1>1. Init => Fit(row, run, review)
  BY InitFits
<1>2. Fit(row, run, review) /\ [Next]_vars => Fit(row, run, review)'
  BY StepFits
<1>3. TypeOK /\ Fit(row, run, review) => PipelineInv
  BY InvIsFit DEF TypeOK, StoreTypeOK
<1> QED BY <1>1, <1>2, <1>3, TypesHold, PTL DEF Spec

\* No untouched proposal is executed twice at the same time (the claim of markExecuting).
THEOREM ExecutesOnce == Spec => []OneExecution
<1>1. PipelineInv => OneExecution
  BY DEF PipelineInv
<1> QED BY <1>1, PipelineHolds, PTL

\* A verdict overwrites no decision on an untouched proposal, and no execution of it
\* (saveReview looks at no status).
THEOREM ReviewsAreExclusive == Spec => []ReviewingIsHeld
<1>1. PipelineInv => ReviewingIsHeld
  BY DEF PipelineInv
<1> QED BY <1>1, PipelineHolds, PTL

\* An untouched proposal that requires an approval is executed only with its owner's
\* (approve, the autopilot and the resets).
THEOREM ConsentHolds == Spec => []OwnerConsents
<1>1. PipelineInv => OwnerConsents
  BY DEF PipelineInv
<1> QED BY <1>1, PipelineHolds, PTL
=============================================================================
