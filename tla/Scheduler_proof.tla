-------------------------- MODULE Scheduler_proof --------------------------
(* Theorems about Scheduler, for all tasks, schedules, delays and bounds: what *)
(* a tick may start, and how late it may be.                                   *)
EXTENDS Scheduler, FiniteSetTheorems, TLAPS

\* The first multiple of p after a.
LEMMA NextMultiple ==
  ASSUME NEW a \in Nat, NEW p \in Nat, p > 0
  PROVE  (a \div p + 1) * p > a /\ (a \div p + 1) * p \in Nat
<1>1. a \div p \in Nat
  OBVIOUS
<1>2. (a \div p + 1) * p > a
  OBVIOUS
<1>3. (a \div p + 1) * p \in Int
  BY <1>1
<1> QED BY <1>2, <1>3

\* computeNextRun gives a time to come.
LEMMA NextRunIsLater ==
  ASSUME NEW t \in Tasks, NEW after \in 0 .. Horizon
  PROVE  NextRun(t, after) \in Nat /\ NextRun(t, after) > after
<1>1. CASE OneShot(t)
  BY <1>1, SchedulerAssumption DEF NextRun, Never
<1>2. CASE ~OneShot(t)
  <2>1. Period[t] \in Nat /\ Period[t] > 0 /\ after \in Nat
    BY <1>2, SchedulerAssumption DEF OneShot
  <2>2. NextRun(t, after) = (after \div Period[t] + 1) * Period[t]
    BY <1>2 DEF NextRun
  <2> QED BY <2>1, <2>2, NextMultiple
<1> QED BY <1>1, <1>2

-----------------------------------------------------------------------------
(* What the updates of the table keep.                                     *)

LEMMA WritesKeepRows ==
  ASSUME clock \in 0 .. Horizon, NEW t \in Tasks, NEW r \in Row, NEW e \in Exec
  PROVE  /\ Succeeded(r, t) \in Row /\ Failed(r, t, e) \in Row
         /\ FailedQuietly(r, t) \in Row /\ Deferred(r, t) \in Row /\ Spent(r, t) \in Row
<1>1. NextRun(t, clock) \in Nat
  BY NextRunIsLater
<1>2. /\ More(e.failures) \in 1 .. MaxFailures /\ More(e.failures) \in 0 .. MaxFailures
      /\ More(r.failures) \in 0 .. MaxFailures /\ 0 \in 0 .. MaxFailures
  BY SchedulerAssumption DEF More, Exec, Row
<1>3. e.start + Backoff[More(e.failures)] \in Nat
  BY <1>2, SchedulerAssumption DEF Exec
<1>4. \A s \in Statuses, n \in Nat : [r EXCEPT !.status = s, !.next = n] \in Row
  BY DEF Row
<1>5. r.enabled \in BOOLEAN /\ [r EXCEPT !.enabled = FALSE] \in Row
  BY DEF Row
<1>6. {"completed", "failed", "deferred"} \subseteq Statuses
  BY DEF Statuses
<1>7. Failed(r, t, e) \in Row
  <2>1. (r.enabled /\ More(e.failures) < MaxFailures) \in BOOLEAN
    OBVIOUS
  <2> DEFINE F == More(e.failures)
             N == e.start + Backoff[More(e.failures)]
             B == r.enabled /\ More(e.failures) < MaxFailures
  <2>2. F \in 0 .. MaxFailures /\ N \in Nat /\ B \in BOOLEAN
    BY <1>2, <1>3, <2>1
  <2>3. Failed(r, t, e)
          = [r EXCEPT !.status = "failed", !.failures = F, !.next = N, !.enabled = B]
    BY Zenon DEF Failed
  <2> HIDE DEF F, N, B
  <2> QED BY <1>6, <2>2, <2>3 DEF Row
<1>8. Succeeded(r, t) \in Row
  <2> DEFINE N == NextRun(t, clock)
  <2>1. Succeeded(r, t) = [r EXCEPT !.status = "completed", !.failures = 0, !.next = N]
    BY Zenon DEF Succeeded
  <2>2. N \in Nat
    BY <1>1
  <2> HIDE DEF N
  <2> QED BY <1>2, <1>6, <2>1, <2>2 DEF Row
<1>9. FailedQuietly(r, t) \in Row
  <2> DEFINE N == NextRun(t, clock)
             F == More(r.failures)
  <2>1. FailedQuietly(r, t) = [r EXCEPT !.status = "failed", !.failures = F, !.next = N]
    BY Zenon DEF FailedQuietly
  <2>2. N \in Nat /\ F \in 0 .. MaxFailures
    BY <1>1, <1>2
  <2> HIDE DEF N, F
  <2> QED BY <1>6, <2>1, <2>2 DEF Row
<1>10. Deferred(r, t) \in Row
  <2> DEFINE N == NextRun(t, clock)
  <2>1. Deferred(r, t) = [r EXCEPT !.status = "deferred", !.next = N]
    BY Zenon DEF Deferred
  <2>2. N \in Nat
    BY <1>1
  <2> HIDE DEF N
  <2> QED BY <1>4, <1>6, <2>1, <2>2
<1>11. Spent(r, t) \in Row
  BY <1>5 DEF Spent
<1> QED BY <1>7, <1>8, <1>9, <1>10, <1>11

\* executeTask, up to its first await, begins the task or writes a deferral or
\* nothing at all.
Marked(execs, t, i, f) == [execs EXCEPT ![t] = Begun(i, f)]
PutOff(rows, t) == [rows EXCEPT ![t] = Deferred(@, t)]

LEMMA StartedCases ==
  ASSUME NEW rows, NEW execs, NEW t \in Tasks, NEW snap, NEW i,
         NEW s \in Started(rows, execs, t, snap, i)
  PROVE  \/ s.rows = rows /\ s.execs = execs
         \/ /\ ~Blocked(rows[t], t, snap.next)
            /\ s.rows = rows /\ s.execs = Marked(execs, t, i, snap.failures)
         \/ /\ ~Blocked(rows[t], t, snap.next)
            /\ s.rows = PutOff(rows, t) /\ s.execs = execs
  BY DEF Started, Marked, PutOff

-----------------------------------------------------------------------------
(* The inductive invariant, stated of any table, executions and snapshots. *)

RowsOK(rows) ==
  /\ rows \in [Tasks -> Row]
  /\ \A t \in Tasks : OneShot(t) /\ rows[t].status = "completed" => rows[t].next = Never

ExecsOK(execs) ==
  /\ execs \in [Tasks -> Exec]
  /\ \A t \in Tasks : execs[t].stage = "idle" => execs[t] = Idle

ReadOK(read, now) ==
  /\ DOMAIN read \subseteq Tasks /\ read \in [DOMAIN read -> Snapshot]
  /\ \A t \in DOMAIN read : read[t].next <= now

LoopsOK(lp, now) ==
  /\ lp = [i \in Loops |-> lp[i]]
  /\ \A i \in Loops : ReadOK(lp[i], now)

IInv ==
  /\ clock \in 0 .. Horizon /\ ticked \in BOOLEAN /\ phase \in Phases
  /\ RowsOK(row) /\ ExecsOK(exec) /\ LoopsOK(loop, clock)

LEMMA InvTypes == IInv => TypeOK
BY DEF IInv, TypeOK, RowsOK, ExecsOK, LoopsOK, ReadOK

LEMMA IdleIsExec == Idle \in Exec /\ Idle.stage = "idle" /\ Idle.by = Nothing
BY SchedulerAssumption DEF Idle, Exec, Stages

\* An execution that has begun in a step, and what begun means.
Begins(execs, execs2, u) == execs[u].stage = "idle" /\ execs2[u].stage # "idle"

LEMMA StartedKeeps ==
  ASSUME clock \in 0 .. Horizon, NEW rows, NEW execs, RowsOK(rows), ExecsOK(execs),
         NEW t \in Tasks, NEW snap \in Snapshot, NEW i \in Loops \cup {Nothing},
         NEW s \in Started(rows, execs, t, snap, i)
  PROVE  /\ RowsOK(s.rows) /\ ExecsOK(s.execs)
         /\ \A u \in Tasks : Begins(execs, s.execs, u) =>
              u = t /\ ~Blocked(rows[t], t, snap.next) /\ s.execs[u].by = i
<1>1. Begun(i, snap.failures) \in Exec /\ Begun(i, snap.failures).stage = "works"
        /\ Begun(i, snap.failures).by = i
  BY SchedulerAssumption DEF Begun, Exec, Snapshot, Stages
<1>2. rows[t] \in Row
  BY DEF RowsOK
<1>3. Deferred(rows[t], t) \in Row /\ Deferred(rows[t], t).status = "deferred"
  <2>1. Deferred(rows[t], t) \in Row
    BY <1>2, IdleIsExec, WritesKeepRows
  <2>2. Deferred(rows[t], t).status = "deferred"
    BY <1>2 DEF Deferred, Row
  <2> QED BY <2>1, <2>2
<1>4. CASE s.rows = rows /\ s.execs = execs
  BY <1>4 DEF Begins
<1>5. CASE /\ ~Blocked(rows[t], t, snap.next)
           /\ s.rows = rows /\ s.execs = Marked(execs, t, i, snap.failures)
  BY <1>5, <1>1 DEF ExecsOK, Marked, Begins
<1>6. CASE /\ s.rows = PutOff(rows, t) /\ s.execs = execs
  BY <1>6, <1>3 DEF RowsOK, PutOff, Begins
<1> QED BY <1>4, <1>5, <1>6, StartedCases

LEMMA PutKeeps ==
  ASSUME NEW rows, RowsOK(rows), NEW t \in Tasks, NEW r \in Row,
         OneShot(t) /\ r.status = "completed" => r.next = Never
  PROVE  RowsOK(Put(rows, t, r)) /\ RowsOK([rows EXCEPT ![t] = r])
BY DEF RowsOK, Put
-----------------------------------------------------------------------------
(* Ticks                                                                   *)

LEMMA EmptyIsRead == \A now : ReadOK(Empty, now)
BY DEF ReadOK, Empty

LEMMA LoopReplaced ==
  ASSUME NEW lp, NEW now, LoopsOK(lp, now), NEW i \in Loops, NEW read, ReadOK(read, now)
  PROVE  LoopsOK([lp EXCEPT ![i] = read], now)
<1>1. [lp EXCEPT ![i] = read] = [j \in Loops |-> [lp EXCEPT ![i] = read][j]]
  BY DEF LoopsOK
<1>2. ASSUME NEW j \in Loops PROVE ReadOK([lp EXCEPT ![i] = read][j], now)
  <2>1. [lp EXCEPT ![i] = read][j] = read \/ [lp EXCEPT ![i] = read][j] = lp[j]
    BY DEF LoopsOK
  <2>2. ReadOK(lp[j], now)
    BY DEF LoopsOK
  <2> QED BY <2>1, <2>2
<1> QED BY <1>1, <1>2 DEF LoopsOK

LEMMA TurnKeeps ==
  ASSUME clock \in 0 .. Horizon, ExecsOK(exec), LoopsOK(loop, clock),
         NEW rows, RowsOK(rows), NEW i \in Loops, NEW read, ReadOK(read, clock),
         Turn(rows, i, read)
  PROVE  /\ RowsOK(row') /\ ExecsOK(exec') /\ LoopsOK(loop', clock)
         /\ \A u \in Tasks : Begins(exec, exec', u) =>
              rows[u].stored /\ rows[u].next <= clock
<1>1. CASE /\ read = Empty
           /\ loop' = [loop EXCEPT ![i] = Empty] /\ row' = rows /\ exec' = exec
  BY <1>1, EmptyIsRead, LoopReplaced DEF Begins
<1>2. ASSUME NEW t \in DOMAIN read,
             loop' = [loop EXCEPT ![i] = [u \in DOMAIN read \ {t} |-> read[u]]],
             NEW s \in Started(rows, exec, t, read[t], i),
             row' = s.rows, exec' = s.execs
      PROVE  /\ RowsOK(row') /\ ExecsOK(exec') /\ LoopsOK(loop', clock)
             /\ \A u \in Tasks : Begins(exec, exec', u) =>
                  rows[u].stored /\ rows[u].next <= clock
  <2>1. ReadOK([u \in DOMAIN read \ {t} |-> read[u]], clock)
    BY DEF ReadOK
  <2>2. LoopsOK(loop', clock)
    BY <1>2, <2>1, LoopReplaced
  <2>3. t \in Tasks /\ read[t] \in Snapshot /\ read[t].next \in Nat /\ read[t].next <= clock
    BY DEF ReadOK, Snapshot
  <2>4. /\ RowsOK(s.rows) /\ ExecsOK(s.execs)
        /\ \A u \in Tasks : Begins(exec, s.execs, u) =>
             u = t /\ ~Blocked(rows[t], t, read[t].next) /\ s.execs[u].by = i
    BY <2>3, StartedKeeps
  <2>5. ~Blocked(rows[t], t, read[t].next) => rows[t].stored /\ rows[t].next <= clock
    <3>1. rows[t].next \in Nat
      BY <2>3 DEF RowsOK, Row
    <3> QED BY <2>3, <3>1 DEF Blocked
  <2> QED BY <1>2, <2>2, <2>4, <2>5
<1> QED BY <1>1, <1>2 DEF Turn

\* repairPersistedSchedules moves cron tasks only, and only to times to come.
LEMMA RepairKeeps ==
  ASSUME IInv
  PROVE  /\ RowsOK(Repaired)
         /\ \A t \in Tasks : Repaired[t].next <= clock => row[t].next <= clock
         /\ \A t \in Tasks : Repaired[t] = row[t] \/ ~OneShot(t)
         /\ ReadOK([t \in Due(Repaired) |-> Snap(Repaired[t])], clock)
<1> DEFINE N(t) == NextRun(t, clock)
<1>1. clock \in 0 .. Horizon /\ RowsOK(row) /\ row \in [Tasks -> Row]
  BY DEF IInv, RowsOK
<1>2. ASSUME NEW t \in Tasks
      PROVE  N(t) \in Nat /\ N(t) > clock
  BY <1>1, NextRunIsLater
<1>3. ASSUME NEW t \in Tasks
      PROVE  /\ Repaired[t] \in Row
             /\ Repaired[t] = row[t] \/ (~OneShot(t) /\ Late(row[t], t) /\ Repaired[t].next > clock)
  <2>1. Repaired[t] = IF Late(row[t], t) THEN [row[t] EXCEPT !.next = N(t)] ELSE row[t]
    BY Zenon DEF Repaired
  <2>2. Late(row[t], t) => ~OneShot(t)
    BY DEF Late
  <2> HIDE DEF N
  <2>3. row[t] \in Row
    BY <1>1
  <2> QED BY <2>1, <2>2, <2>3, <1>2 DEF Row
<1>4. RowsOK(Repaired)
  <2>1. Repaired = [t \in Tasks |-> Repaired[t]]
    BY DEF Repaired
  <2> QED BY <2>1, <1>1, <1>3 DEF RowsOK
<1>5. \A t \in Tasks : Repaired[t].next <= clock => row[t].next <= clock
  BY <1>1, <1>3 DEF Row
<1>6. ReadOK([t \in Due(Repaired) |-> Snap(Repaired[t])], clock)
  <2>1. \A t \in Due(Repaired) : t \in Tasks /\ Repaired[t].next <= clock
    BY DEF Due
  <2>2. \A t \in Tasks : Snap(Repaired[t]) \in Snapshot /\ Snap(Repaired[t]).next = Repaired[t].next
    BY <1>3 DEF Snap, Snapshot, Row
  <2> QED BY <2>1, <2>2 DEF ReadOK
<1> QED BY <1>3, <1>4, <1>5, <1>6

LEMMA TickSteps ==
  ASSUME IInv, NEW i \in Loops, TickBegins(i) \/ TickGoesOn(i)
  PROVE  /\ IInv'
         /\ \A u \in Tasks : Begins(exec, exec', u) => row[u].next <= clock
<1>1. /\ clock \in 0 .. Horizon /\ ticked \in BOOLEAN /\ phase \in Phases
      /\ RowsOK(row) /\ ExecsOK(exec) /\ LoopsOK(loop, clock)
  BY DEF IInv
<1>2. CASE TickBegins(i)
  <2>1. /\ RowsOK(row') /\ ExecsOK(exec') /\ LoopsOK(loop', clock)
        /\ \A u \in Tasks : Begins(exec, exec', u) =>
             Repaired[u].stored /\ Repaired[u].next <= clock
    BY <1>1, <1>2, RepairKeeps, TurnKeeps DEF TickBegins
  <2>2. clock' = clock /\ phase' = phase /\ ticked' \in BOOLEAN
    BY <1>2 DEF TickBegins
  <2> QED BY <1>1, <2>1, <2>2, RepairKeeps DEF IInv
<1>3. CASE TickGoesOn(i)
  <2>1. ReadOK(loop[i], clock)
    BY <1>1 DEF LoopsOK
  <2>2. /\ RowsOK(row') /\ ExecsOK(exec') /\ LoopsOK(loop', clock)
        /\ \A u \in Tasks : Begins(exec, exec', u) => row[u].stored /\ row[u].next <= clock
    BY <1>1, <1>3, <2>1, TurnKeeps DEF TickGoesOn
  <2>3. clock' = clock /\ phase' = phase /\ ticked' = ticked
    BY <1>3 DEF TickGoesOn
  <2> QED BY <1>1, <2>2, <2>3 DEF IInv
<1> QED BY <1>2, <1>3
-----------------------------------------------------------------------------
(* Executions, users, time                                                 *)

\* A step that starts nothing by a tick.
LEMMA StartSteps ==
  ASSUME IInv, NEW t \in Tasks, NEW snap \in Snapshot,
         NEW s \in Started(row, exec, t, snap, Nothing)
  PROVE  /\ RowsOK(s.rows) /\ ExecsOK(s.execs)
         /\ \A u \in Tasks : Begins(exec, s.execs, u) => s.execs[u].by = Nothing
BY StartedKeeps DEF IInv

LEMMA SnapType ==
  ASSUME NEW r \in Row PROVE Snap(r) \in Snapshot
BY DEF Snap, Snapshot, Row

LEMMA WriteSteps ==
  ASSUME IInv, NEW t \in Tasks, NEW r \in Row, NEW e \in Exec,
         OneShot(t) /\ r.status = "completed" => r.next = Never,
         e.stage = "idle" => e = Idle, exec[t].stage # "idle", Writes(t, r, e)
  PROVE  IInv' /\ \A u \in Tasks : ~Begins(exec, exec', u)
<1>1. /\ row' = Put(row, t, r) /\ exec' = [exec EXCEPT ![t] = e]
      /\ clock' = clock /\ ticked' = ticked /\ phase' = phase /\ loop' = loop
  BY DEF Writes
<1>2. RowsOK(row')
  BY <1>1, PutKeeps DEF IInv
<1>3. ExecsOK(exec') /\ \A u \in Tasks : ~Begins(exec, exec', u)
  BY <1>1 DEF IInv, ExecsOK, Begins
<1> QED BY <1>1, <1>2, <1>3 DEF IInv

\* What the updates write for a task that runs once.
LEMMA WritesAreOnce ==
  ASSUME NEW t \in Tasks, NEW r \in Row, NEW e \in Exec
  PROVE  /\ OneShot(t) => Succeeded(r, t).next = Never
         /\ Failed(r, t, e).status # "completed" /\ FailedQuietly(r, t).status # "completed"
         /\ Spent(r, t).status = r.status /\ Spent(r, t).next = r.next
<1>1. OneShot(t) => Succeeded(r, t).next = Never
  BY DEF Succeeded, NextRun, Row
<1> DEFINE F == More(e.failures)
           N == e.start + Backoff[More(e.failures)]
           B == r.enabled /\ More(e.failures) < MaxFailures
           G == More(r.failures)
           M == NextRun(t, clock)
<1>2. Failed(r, t, e)
        = [r EXCEPT !.status = "failed", !.failures = F, !.next = N, !.enabled = B]
  BY Zenon DEF Failed
<1>3. FailedQuietly(r, t) = [r EXCEPT !.status = "failed", !.failures = G, !.next = M]
  BY Zenon DEF FailedQuietly
<1> HIDE DEF F, N, B, G, M
<1>4. Failed(r, t, e).status # "completed" /\ FailedQuietly(r, t).status # "completed"
  BY <1>2, <1>3 DEF Row
<1>5. Spent(r, t).status = r.status /\ Spent(r, t).next = r.next
  BY DEF Spent, Row
<1> QED BY <1>1, <1>4, <1>5

LEMMA ExecuteSteps ==
  ASSUME IInv, NEW t \in Tasks, Executes(t)
  PROVE  IInv' /\ \A u \in Tasks : Begins(exec, exec', u) => exec'[u].by = Nothing
<1>1. /\ clock \in 0 .. Horizon /\ row[t] \in Row /\ exec[t] \in Exec
      /\ OneShot(t) /\ row[t].status = "completed" => row[t].next = Never
  BY DEF IInv, RowsOK, ExecsOK
<1>2. /\ Succeeded(row[t], t) \in Row /\ Failed(row[t], t, exec[t]) \in Row
      /\ FailedQuietly(row[t], t) \in Row /\ Spent(row[t], t) \in Row
      /\ Spent(Succeeded(row[t], t), t) \in Row /\ Spent(FailedQuietly(row[t], t), t) \in Row
  <2>1. Succeeded(row[t], t) \in Row /\ FailedQuietly(row[t], t) \in Row
    BY <1>1, WritesKeepRows
  <2> QED BY <1>1, <2>1, WritesKeepRows
<1>3. /\ OneShot(t) => Succeeded(row[t], t).next = Never
      /\ OneShot(t) => Spent(Succeeded(row[t], t), t).next = Never
      /\ Failed(row[t], t, exec[t]).status # "completed"
      /\ Spent(FailedQuietly(row[t], t), t).status # "completed"
      /\ Spent(row[t], t).status = row[t].status /\ Spent(row[t], t).next = row[t].next
  <2>1. Succeeded(row[t], t) \in Row /\ FailedQuietly(row[t], t) \in Row
    BY <1>2
  <2>2. /\ Spent(Succeeded(row[t], t), t).next = Succeeded(row[t], t).next
        /\ Spent(FailedQuietly(row[t], t), t).status = FailedQuietly(row[t], t).status
    BY <1>1, <2>1, WritesAreOnce
  <2> QED BY <1>1, <2>2, WritesAreOnce
<1>4. /\ [exec[t] EXCEPT !.stage = "delivers"] \in Exec
      /\ [exec[t] EXCEPT !.stage = "apologises"] \in Exec
      /\ [exec[t] EXCEPT !.stage = "delivers"].stage # "idle"
      /\ [exec[t] EXCEPT !.stage = "apologises"].stage # "idle"
  BY <1>1 DEF Exec, Stages
<1>5. CASE Answers(t)
  BY <1>2, <1>3, <1>4, <1>5, IdleIsExec, WriteSteps DEF Answers
<1>6. CASE Fails(t)
  BY <1>2, <1>3, <1>4, <1>6, IdleIsExec, WriteSteps DEF Fails
<1>7. CASE Apologised(t)
  BY <1>1, <1>2, <1>3, <1>7, IdleIsExec, WriteSteps DEF Apologised
<1>8. CASE Delivered(t)
  <2>1. PICK s \in Chained(t) : /\ row' = Put(s.rows, t, Spent(s.rows[t], t))
                                /\ exec' = [s.execs EXCEPT ![t] = Idle]
    BY <1>8 DEF Delivered
  <2>2. /\ RowsOK(s.rows) /\ ExecsOK(s.execs)
        /\ \A u \in Tasks : Begins(exec, s.execs, u) => s.execs[u].by = Nothing
    <3>1. CASE s = [rows |-> row, execs |-> exec]
      BY <3>1 DEF IInv, Begins
    <3>2. CASE s # [rows |-> row, execs |-> exec]
      <4>1. Chain[t] \in Tasks
        BY <3>2, SchedulerAssumption DEF Chained
      <4>2. Snap(row[Chain[t]]) \in Snapshot
        BY <4>1, SnapType DEF IInv, RowsOK
      <4>3. s \in Started(row, exec, Chain[t], Snap(row[Chain[t]]), Nothing)
        BY <3>2 DEF Chained
      <4> QED BY <4>1, <4>2, <4>3, StartSteps
    <3> QED BY <3>1, <3>2
  <2>3. s.rows[t] \in Row /\ (OneShot(t) /\ s.rows[t].status = "completed" => s.rows[t].next = Never)
    BY <2>2 DEF RowsOK
  <2>4. /\ Spent(s.rows[t], t) \in Row
        /\ Spent(s.rows[t], t).status = s.rows[t].status
        /\ Spent(s.rows[t], t).next = s.rows[t].next
    BY <1>1, <2>3, WritesKeepRows, WritesAreOnce
  <2>5. RowsOK(row')
    BY <2>1, <2>2, <2>3, <2>4, PutKeeps
  <2>6. ExecsOK(exec') /\ \A u \in Tasks : Begins(exec, exec', u) => exec'[u].by = Nothing
    BY <2>1, <2>2, IdleIsExec DEF ExecsOK, Begins
  <2>7. clock' = clock /\ ticked' = ticked /\ phase' = phase /\ loop' = loop
    BY <1>8 DEF Delivered
  <2> QED BY <2>5, <2>6, <2>7 DEF IInv
<1> QED BY <1>5, <1>6, <1>7, <1>8 DEF Executes

LEMMA EditSteps ==
  ASSUME IInv, NEW t \in Tasks, NEW r \in Row,
         OneShot(t) /\ r.status = "completed" => r.next = Never, Edits(t, r)
  PROVE  IInv' /\ \A u \in Tasks : ~Begins(exec, exec', u)
<1>1. /\ row' = [row EXCEPT ![t] = r] /\ exec' = exec
      /\ clock' = clock /\ ticked' = ticked /\ phase' = phase /\ loop' = loop
  BY DEF Edits
<1>2. RowsOK(row')
  BY <1>1, PutKeeps DEF IInv
<1> QED BY <1>1, <1>2 DEF IInv, Begins

LEMMA UserSteps ==
  ASSUME IInv, NEW t \in Tasks, Users(t)
  PROVE  IInv' /\ \A u \in Tasks : Begins(exec, exec', u) => exec'[u].by = Nothing
<1>1. /\ clock \in 0 .. Horizon /\ row[t] \in Row
      /\ OneShot(t) /\ row[t].status = "completed" => row[t].next = Never
  BY DEF IInv, RowsOK
<1>2. NextRun(t, clock) \in Nat /\ 0 \in 0 .. MaxFailures
  BY <1>1, NextRunIsLater, SchedulerAssumption
<1>3. NoRow \in Row /\ NoRow.status = "none"
  BY <1>2 DEF NoRow, Row, Statuses
<1>4. CASE Trigger(t)
  <2>1. PICK s \in Started(row, exec, t, Snap(row[t]), Nothing) :
          row' = s.rows /\ exec' = s.execs
    BY <1>4 DEF Trigger
  <2>2. Snap(row[t]) \in Snapshot
    BY <1>1, SnapType
  <2>3. clock' = clock /\ ticked' = ticked /\ phase' = phase /\ loop' = loop
    BY <1>4 DEF Trigger
  <2> QED BY <2>1, <2>2, <2>3, StartSteps DEF IInv
<1>5. CASE Add(t)
  <2>1. PICK at \in IF OneShot(t) THEN clock .. Horizon ELSE {NextRun(t, clock)} :
          Edits(t, [NoRow EXCEPT !.stored = TRUE, !.enabled = TRUE, !.next = at])
    BY <1>5 DEF Add
  <2>2. at \in Nat
    BY <1>1, <1>2
  <2>3. /\ [NoRow EXCEPT !.stored = TRUE, !.enabled = TRUE, !.next = at] \in Row
        /\ [NoRow EXCEPT !.stored = TRUE, !.enabled = TRUE, !.next = at].status = "none"
    BY <1>3, <2>2 DEF Row
  <2> QED BY <2>1, <2>3, EditSteps
<1>6. CASE Reschedule(t)
  <2>1. [row[t] EXCEPT !.next = NextRun(t, clock)] \in Row /\ ~OneShot(t)
    BY <1>1, <1>2, <1>6 DEF Row, Reschedule
  <2> QED BY <1>6, <2>1, EditSteps DEF Reschedule
<1>7. CASE DeleteTask(t)
  <2>1. /\ [NoRow EXCEPT !.status = "deleted"] \in Row
        /\ [NoRow EXCEPT !.status = "deleted"].status # "completed"
    BY <1>3 DEF Row, Statuses
  <2> QED BY <1>7, <2>1, EditSteps DEF DeleteTask
<1>8. ASSUME NEW on \in BOOLEAN, Enable(t, on)
      PROVE  IInv' /\ \A u \in Tasks : Begins(exec, exec', u) => exec'[u].by = Nothing
  <2>1. /\ [row[t] EXCEPT !.enabled = on] \in Row
        /\ [row[t] EXCEPT !.enabled = on].status = row[t].status
        /\ [row[t] EXCEPT !.enabled = on].next = row[t].next
    BY <1>1 DEF Row
  <2> QED BY <1>1, <1>8, <2>1, EditSteps DEF Enable
<1> QED BY <1>4, <1>5, <1>6, <1>7, <1>8 DEF Users

LEMMA ProcessSteps ==
  ASSUME IInv, Passes \/ Stop \/ Dies \/ Start
  PROVE  IInv' /\ \A u \in Tasks : ~Begins(exec, exec', u)
<1>1. /\ clock \in 0 .. Horizon /\ ticked \in BOOLEAN /\ phase \in Phases
      /\ RowsOK(row) /\ ExecsOK(exec) /\ LoopsOK(loop, clock) /\ Horizon \in Nat
  BY SchedulerAssumption DEF IInv
<1>2. CASE Passes
  <2>1. clock' = clock + 1 /\ clock' \in 0 .. Horizon
    BY <1>1, <1>2 DEF Passes
  <2>2. LoopsOK(loop', clock')
    <3>1. \A n \in Nat : n <= clock => n <= clock'
      BY <1>1, <2>1
    <3>2. ASSUME NEW i \in Loops PROVE ReadOK(loop[i], clock')
      <4>1. ReadOK(loop[i], clock)
        BY <1>1 DEF LoopsOK
      <4> QED BY <4>1, <3>1 DEF ReadOK, Snapshot
    <3> QED BY <1>1, <1>2, <3>2 DEF LoopsOK, Passes
  <2>3. /\ ticked' \in BOOLEAN /\ phase' \in Phases /\ RowsOK(row') /\ ExecsOK(exec')
        /\ \A u \in Tasks : ~Begins(exec, exec', u)
    BY <1>1, <1>2 DEF Passes, Begins
  <2> QED BY <2>1, <2>2, <2>3 DEF IInv
<1>3. CASE Stop
  BY <1>1, <1>3 DEF Stop, IInv, Begins, Phases
<1>4. CASE Dies
  <2>1. LoopsOK(loop', clock)
    BY <1>4, EmptyIsRead DEF Dies, LoopsOK
  <2>2. ExecsOK(exec') /\ \A u \in Tasks : ~Begins(exec, exec', u)
    BY <1>4, IdleIsExec DEF Dies, ExecsOK, Begins
  <2>3. clock' = clock /\ ticked' = ticked /\ row' = row /\ phase' \in Phases
    BY <1>4 DEF Dies, Phases
  <2> QED BY <1>1, <2>1, <2>2, <2>3 DEF IInv
<1>5. CASE Start
  <2>1. ASSUME NEW t \in Tasks
        PROVE  /\ Restored(t) \in Row
               /\ OneShot(t) /\ Restored(t).status = "completed" => Restored(t).next = Never
    <3> DEFINE r == IF t \in Configured /\ row[t].stored THEN [row[t] EXCEPT !.enabled = TRUE]
                    ELSE row[t]
               N == NextRun(t, clock)
    <3>1. /\ row[t] \in Row
          /\ OneShot(t) /\ row[t].status = "completed" => row[t].next = Never
      BY <1>1 DEF RowsOK
    <3>2. r \in Row /\ r.status = row[t].status /\ r.next = row[t].next
      BY <3>1 DEF Row
    <3>3. N \in Nat
      BY <1>1, NextRunIsLater
    <3>4. Restored(t) = IF r.enabled /\ ~OneShot(t) THEN [r EXCEPT !.next = N] ELSE r
      BY Zenon DEF Restored
    <3> HIDE DEF r, N
    <3>5. [r EXCEPT !.next = N] \in Row
      BY <3>2, <3>3 DEF Row
    <3> QED BY <3>1, <3>2, <3>4, <3>5
  <2>2. RowsOK(row')
    BY <1>5, <2>1 DEF Start, RowsOK
  <2>3. /\ clock' = clock /\ ticked' \in BOOLEAN /\ phase' \in Phases
        /\ loop' = loop /\ exec' = exec
    BY <1>5 DEF Start, Phases
  <2> QED BY <1>1, <2>2, <2>3 DEF IInv, Begins
<1> QED BY <1>2, <1>3, <1>4, <1>5

LEMMA InitIsGood == Init => IInv
<1> SUFFICES ASSUME Init PROVE IInv
  OBVIOUS
<1>1. NoRow \in Row /\ NoRow.status = "none"
  BY SchedulerAssumption DEF NoRow, Row, Statuses
<1>2. RowsOK(row) /\ ExecsOK(exec)
  BY <1>1, IdleIsExec DEF Init, RowsOK, ExecsOK
<1>3. LoopsOK(loop, clock)
  BY EmptyIsRead DEF Init, LoopsOK
<1>4. clock \in 0 .. Horizon
  BY SchedulerAssumption DEF Init
<1>5. ticked \in BOOLEAN /\ phase \in Phases
  BY DEF Init, Phases
<1> QED BY <1>2, <1>3, <1>4, <1>5 DEF IInv

LEMMA Steps ==
  ASSUME IInv, [Next]_vars
  PROVE  /\ IInv'
         /\ \A u \in Tasks : Begins(exec, exec', u) =>
              row[u].next <= clock \/ exec'[u].by = Nothing
<1>1. CASE \E i \in Loops : TickBegins(i) \/ TickGoesOn(i)
  BY <1>1, TickSteps
<1>2. CASE \E t \in Tasks : Executes(t) \/ Users(t)
  BY <1>2, ExecuteSteps, UserSteps
<1>3. CASE Passes \/ Stop \/ Dies \/ Start
  BY <1>3, ProcessSteps
<1>4. CASE UNCHANGED vars
  BY <1>4 DEF vars, IInv, Begins
<1> QED BY <1>1, <1>2, <1>3, <1>4 DEF Next

LEMMA InvHolds == Spec => []IInv
<1>1. Init => IInv
  BY InitIsGood
<1>2. IInv /\ [Next]_vars => IInv'
  BY Steps
<1> QED BY <1>1, <1>2, PTL DEF Spec

-----------------------------------------------------------------------------
(* How late a task can be.                                                 *)

\* The tasks of extensions that run again and again, which nobody triggers by
\* hand and nothing holds back.
Steady == {t \in Tasks \ (Tended \cup Deferrable) : Class[t] = "extension" /\ ~OneShot(t)}

\* The task is due and nobody has started it.
Waits(t) ==
  phase = "up" /\ row[t].stored /\ row[t].enabled /\ row[t].next <= clock /\ ~Running(t)

\* The units in which a tick found it due.
Found(t) == row[t].next .. IF ticked THEN clock ELSE clock - 1

\* Each of these ticks still has it to look at, and has read the time at which
\* it is still due.
HasRead(i, t) == t \in DOMAIN loop[i] /\ loop[i][t].next = row[t].next

HeldBy(t, tick) ==
  /\ tick \in [Found(t) -> Loops]
  /\ \A c, d \in Found(t) : tick[c] = tick[d] => c = d
  /\ \A c \in Found(t) : HasRead(tick[c], t)

\* It is no later than there are other tasks.
Lateness(t) == clock - row[t].next <= Cardinality(Tasks) - 1

HeldUp(t) == (\E tick : HeldBy(t, tick)) /\ Lateness(t)

LateInv ==
  \A t \in Steady : exec[t].stage \in {"idle", "works"} /\ (Waits(t) => HeldUp(t))

\* What holds of a task up to a step holds after it, when the step leaves the
\* task and the time as they are and no tick that counts looks at it.
LEMMA StaysHeldUp ==
  ASSUME NEW t \in Steady, HeldUp(t),
         row'[t] = row[t], clock' = clock, ticked' = ticked,
         \A i \in Loops : HasRead(i, t) => HasRead(i, t)'
  PROVE  HeldUp(t)'
<1>1. PICK tick : HeldBy(t, tick)
  BY DEF HeldUp
<1>2. Found(t)' = Found(t)
  BY DEF Found
<1>3. HeldBy(t, tick)'
  BY <1>1, <1>2 DEF HeldBy
<1>4. Lateness(t)'
  BY DEF HeldUp, Lateness
<1> QED BY <1>3, <1>4 DEF HeldUp

\* executeTask for a task that nothing holds back.
LEMMA SteadyStarts ==
  ASSUME clock \in 0 .. Horizon, NEW t \in Steady, NEW rows, NEW execs, RowsOK(rows), ExecsOK(execs),
         NEW snap, NEW i, NEW s \in Started(rows, execs, t, snap, i)
  PROVE  \/ s.rows = rows /\ s.execs = execs /\ Blocked(rows[t], t, snap.next)
         \/ s.rows = rows /\ s.execs[t].stage = "works"
         \/ s.execs = execs /\ s.rows[t].next > clock
<1>1. t \in Tasks /\ t \notin Deferrable /\ rows[t] \in Row
  BY DEF Steady, RowsOK
<1>2. CASE Blocked(rows[t], t, snap.next)
  BY <1>2 DEF Started
<1>3. CASE ~Blocked(rows[t], t, snap.next)
  <2>1. \/ s.rows = rows /\ s.execs = Marked(execs, t, i, snap.failures)
        \/ s.rows = PutOff(rows, t) /\ s.execs = execs
    BY <1>1, <1>3 DEF Started, Marked, PutOff
  <2>2. Marked(execs, t, i, snap.failures)[t].stage = "works"
    BY <1>1 DEF Marked, Begun, ExecsOK
  <2>3. PutOff(rows, t)[t].next > clock
    <3> DEFINE N == NextRun(t, clock)
    <3>1. Deferred(rows[t], t) = [rows[t] EXCEPT !.status = "deferred", !.next = N]
      BY Zenon DEF Deferred
    <3>2. N > clock
      BY <1>1, NextRunIsLater
    <3> HIDE DEF N
    <3>3. Deferred(rows[t], t).next = N
      BY <1>1, <3>1 DEF Row
    <3> QED BY <1>1, <3>2, <3>3 DEF PutOff, RowsOK
  <2> QED BY <2>1, <2>2, <2>3
<1> QED BY <1>2, <1>3

\* And for the others.
LEMMA OthersStart ==
  ASSUME NEW t, NEW u \in Tasks \ {t}, t \in Tasks, NEW rows, NEW execs, RowsOK(rows), ExecsOK(execs),
         NEW snap, NEW i, NEW s \in Started(rows, execs, u, snap, i)
  PROVE  s.rows[t] = rows[t] /\ s.execs[t] = execs[t]
<1>1. \A r : [rows EXCEPT ![u] = r][t] = rows[t]
  BY DEF RowsOK
<1>2. \A e : [execs EXCEPT ![u] = e][t] = execs[t]
  BY DEF ExecsOK
<1>3. \/ s.rows = rows /\ s.execs = execs
      \/ s.rows = rows /\ s.execs = Marked(execs, u, i, snap.failures)
      \/ s.rows = PutOff(rows, u) /\ s.execs = execs
  BY StartedCases
<1> QED BY <1>1, <1>2, <1>3 DEF Marked, PutOff

\* A turn of a tick leaves the task as it is, starts it, or puts it off; it does
\* not pass over a task that is due.
LEMMA SteadyTurn ==
  ASSUME clock \in 0 .. Horizon, NEW t \in Steady, NEW rows, RowsOK(rows), ExecsOK(exec),
         LoopsOK(loop, clock), NEW i \in Loops, NEW read, ReadOK(read, clock), read # Empty,
         Turn(rows, i, read)
  PROVE  \/ /\ row'[t] = rows[t] /\ exec'[t] = exec[t]
            /\ t \in DOMAIN read =>
                 \/ t \in DOMAIN loop'[i] /\ loop'[i][t] = read[t]
                 \/ Blocked(rows[t], t, read[t].next)
         \/ exec'[t].stage = "works"
         \/ row'[t].next > clock /\ exec'[t] = exec[t]
<1>1. PICK u \in DOMAIN read :
        /\ loop' = [loop EXCEPT ![i] = [v \in DOMAIN read \ {u} |-> read[v]]]
        /\ \E s \in Started(rows, exec, u, read[u], i) : row' = s.rows /\ exec' = s.execs
  BY DEF Turn
<1>2. PICK s \in Started(rows, exec, u, read[u], i) : row' = s.rows /\ exec' = s.execs
  BY <1>1
<1>3. u \in Tasks /\ t \in Tasks
  BY DEF ReadOK, Steady
<1>4. CASE u = t
  BY <1>2, <1>4, SteadyStarts
<1>5. CASE u # t
  <2>1. row'[t] = rows[t] /\ exec'[t] = exec[t]
    BY <1>2, <1>3, <1>5, OthersStart
  <2>2. t \in DOMAIN read => t \in DOMAIN loop'[i] /\ loop'[i][t] = read[t]
    <3>1. loop'[i] = [v \in DOMAIN read \ {u} |-> read[v]]
      BY <1>1 DEF LoopsOK
    <3> QED BY <1>5, <3>1
  <2> QED BY <2>1, <2>2
<1> QED BY <1>4, <1>5


\* A tick begins: unless it starts or puts off the task, it has read it.
LEMMA BeginningHoldsUp ==
  ASSUME IInv, NEW t \in Steady, Waits(t) => HeldUp(t), NEW i \in Loops, TickBegins(i), Waits(t)'
  PROVE  HeldUp(t)'
<1>0. /\ clock \in 0 .. Horizon /\ RowsOK(row) /\ ExecsOK(exec) /\ LoopsOK(loop, clock)
      /\ clock \in Nat /\ t \in Tasks /\ row[t] \in Row
  BY DEF IInv, RowsOK, Steady
<1> DEFINE read == [u \in Due(Repaired) |-> Snap(Repaired[u])]
<1>1. /\ phase = "up" /\ ~ticked /\ loop[i] = Empty
      /\ ticked' = (clock < Horizon) /\ Turn(Repaired, i, read)
      /\ clock' = clock /\ phase' = phase
  BY DEF TickBegins, Idler, Free
<1>2. /\ RowsOK(Repaired) /\ ReadOK(read, clock)
  BY RepairKeeps
<1>3. Repaired[t] = row[t] \/ Repaired[t].next > clock
  <2> DEFINE N == NextRun(t, clock)
  <2>1. Repaired[t] = IF Late(row[t], t) THEN [row[t] EXCEPT !.next = N] ELSE row[t]
    BY <1>0, Zenon DEF Repaired
  <2>2. N > clock
    BY <1>0, NextRunIsLater
  <2> HIDE DEF N
  <2> QED BY <1>0, <2>1, <2>2 DEF Row
<1>4. Waits(t)' => /\ row'[t].stored /\ row'[t].enabled /\ row'[t].next <= clock
                   /\ exec'[t].stage = "idle"
  BY <1>1 DEF Waits, Running
<1>5. ASSUME row'[t] = Repaired[t], exec'[t] = exec[t]
      PROVE  row'[t] = row[t] /\ Waits(t) /\ t \in Due(Repaired) /\ read[t].next = row[t].next
  <2>1. row'[t] = row[t]
    BY <1>0, <1>2, <1>3, <1>4, <1>5 DEF RowsOK, Row
  <2>2. Waits(t) /\ t \in Due(Repaired)
    BY <1>0, <1>1, <1>4, <1>5, <2>1 DEF Waits, Running, Due
  <2> QED BY <1>5, <2>1, <2>2 DEF Snap
<1> HIDE DEF read
<1>6. CASE read = Empty
  <2>1. row' = Repaired /\ exec' = exec
    BY <1>1, <1>6 DEF Turn, Empty
  <2>2. t \in Due(Repaired) /\ DOMAIN read = Due(Repaired)
    BY <1>5, <2>1 DEF read
  <2> QED BY <1>6, <2>2 DEF Empty
<1>7. CASE read # Empty
  <2>1. \/ /\ row'[t] = Repaired[t] /\ exec'[t] = exec[t]
           /\ t \in DOMAIN read =>
                \/ t \in DOMAIN loop'[i] /\ loop'[i][t] = read[t]
                \/ Blocked(Repaired[t], t, read[t].next)
        \/ exec'[t].stage = "works"
        \/ row'[t].next > clock /\ exec'[t] = exec[t]
    BY <1>0, <1>1, <1>2, <1>7, SteadyTurn
  <2>2. row'[t].next <= clock /\ row'[t].next \in Int
    <3>1. RowsOK(row')
      BY TickSteps DEF IInv
    <3> QED BY <1>0, <1>4, <3>1 DEF RowsOK, Row
  <2>3. /\ row'[t] = Repaired[t] /\ exec'[t] = exec[t]
        /\ t \in DOMAIN read =>
             \/ t \in DOMAIN loop'[i] /\ loop'[i][t] = read[t]
             \/ Blocked(Repaired[t], t, read[t].next)
    BY <1>0, <1>4, <2>1, <2>2
  <2>4. row'[t] = row[t] /\ Waits(t) /\ t \in DOMAIN read /\ read[t].next = row[t].next
    BY <1>5, <2>3 DEF read
  <2>5. ~Blocked(Repaired[t], t, read[t].next)
    BY <1>0, <1>4, <2>3, <2>4 DEF Blocked, Waits, Row
  <2>6. HasRead(i, t)'
    BY <2>3, <2>4, <2>5 DEF HasRead
  <2>7. HeldUp(t) /\ Found(t) = row[t].next .. clock - 1
    BY <1>1, <2>4 DEF Found
  <2>8. \A j \in Loops \ {i} : loop'[j] = loop[j]
    BY <1>0, <1>1, <1>7 DEF Turn, LoopsOK
  <2>9. \A j \in Loops : HasRead(j, t) => j # i /\ HasRead(j, t)'
    BY <1>1, <2>4, <2>8 DEF HasRead, Empty
  <2>10. CASE ~ticked'
    <3>1. ticked \in BOOLEAN /\ ticked' \in BOOLEAN
      BY <1>1 DEF IInv
    <3>2. ticked' = ticked
      BY <1>1, <2>10, <3>1
    <3> QED BY <1>1, <2>4, <2>7, <2>9, <3>2, StaysHeldUp
  <2>11. CASE ticked'
    <3>1. PICK tick : HeldBy(t, tick)
      BY <2>7 DEF HeldUp
    <3>2. Found(t)' = row[t].next .. clock
      BY <1>1, <2>4, <2>11 DEF Found
    <3>3. PICK later : later = [c \in row[t].next .. clock |-> IF c = clock THEN i ELSE tick[c]]
      OBVIOUS
    <3>4. \A c \in row[t].next .. clock : c = clock \/ c \in row[t].next .. clock - 1
      BY <1>0 DEF Row
    <3>5. \A c \in Found(t) : tick[c] \in Loops /\ tick[c] # i /\ HasRead(tick[c], t)'
      BY <2>9, <3>1 DEF HeldBy
    <3>6. HeldBy(t, later)'
      <4>1. later \in [row[t].next .. clock -> Loops]
        BY <2>7, <3>3, <3>4, <3>5
      <4>2. \A c, d \in row[t].next .. clock : later[c] = later[d] => c = d
        BY <2>7, <3>1, <3>3, <3>4, <3>5 DEF HeldBy
      <4>3. \A c \in row[t].next .. clock : HasRead(later[c], t)'
        BY <2>6, <2>7, <3>3, <3>4, <3>5
      <4> QED BY <3>2, <4>1, <4>2, <4>3 DEF HeldBy
    <3>7. Lateness(t)'
      BY <1>1, <2>4, <2>7 DEF HeldUp, Lateness
    <3> QED BY <3>6, <3>7 DEF HeldUp
  <2> QED BY <2>10, <2>11
<1> QED BY <1>6, <1>7

\* A tick goes on: the task is still to be looked at by those that have read it.
LEMMA GoingOnHoldsUp ==
  ASSUME IInv, NEW t \in Steady, Waits(t) => HeldUp(t), NEW i \in Loops, TickGoesOn(i), Waits(t)'
  PROVE  HeldUp(t)'
<1>0. /\ clock \in 0 .. Horizon /\ RowsOK(row) /\ ExecsOK(exec) /\ LoopsOK(loop, clock)
      /\ clock \in Nat /\ t \in Tasks /\ row[t] \in Row
  BY DEF IInv, RowsOK, Steady
<1>1. /\ loop[i] # Empty /\ Turn(row, i, loop[i])
      /\ clock' = clock /\ phase' = phase /\ ticked' = ticked /\ ReadOK(loop[i], clock)
  BY <1>0 DEF TickGoesOn, Ready, LoopsOK
<1>2. /\ row'[t].stored /\ row'[t].enabled /\ row'[t].next <= clock /\ row'[t].next \in Int
      /\ exec'[t].stage = "idle"
  <2>1. RowsOK(row')
    BY TickSteps DEF IInv
  <2> QED BY <1>0, <1>1, <2>1 DEF Waits, Running, RowsOK, Row
<1>3. /\ row'[t] = row[t] /\ exec'[t] = exec[t]
      /\ t \in DOMAIN loop[i] =>
           \/ t \in DOMAIN loop'[i] /\ loop'[i][t] = loop[i][t]
           \/ Blocked(row[t], t, loop[i][t].next)
  BY <1>0, <1>1, <1>2, SteadyTurn
<1>4. Waits(t)
  BY <1>1, <1>2, <1>3 DEF Waits, Running
<1>5. \A j \in Loops \ {i} : loop'[j] = loop[j]
  BY <1>0, <1>1 DEF Turn, LoopsOK
<1>6. HasRead(i, t) => HasRead(i, t)'
  BY <1>0, <1>3, <1>4 DEF HasRead, Blocked, Waits, Row
<1>7. \A j \in Loops : HasRead(j, t) => HasRead(j, t)'
  BY <1>3, <1>5, <1>6 DEF HasRead
<1> QED BY <1>1, <1>3, <1>4, <1>7, StaysHeldUp


LEMMA TicksHoldUp ==
  ASSUME IInv, LateInv, NEW i \in Loops, TickBegins(i) \/ TickGoesOn(i)
  PROVE  LateInv'
<1>0. /\ clock \in 0 .. Horizon /\ RowsOK(row) /\ ExecsOK(exec) /\ LoopsOK(loop, clock)
  BY DEF IInv
<1>1. ASSUME NEW t \in Steady
      PROVE  exec'[t].stage \in {"idle", "works"}
  <2>1. exec[t].stage \in {"idle", "works"}
    BY DEF LateInv
  <2>2. ASSUME NEW rows, RowsOK(rows), NEW read, ReadOK(read, clock), Turn(rows, i, read)
        PROVE  exec'[t].stage \in {"idle", "works"}
    <3>1. CASE exec' = exec
      BY <2>1, <3>1
    <3>2. CASE read # Empty
      BY <1>0, <2>1, <2>2, <3>2, SteadyTurn
    <3> QED BY <2>2, <3>1, <3>2 DEF Turn, Empty
  <2>3. CASE TickBegins(i)
    BY <2>2, <2>3, RepairKeeps DEF TickBegins
  <2>4. CASE TickGoesOn(i)
    <3>1. ReadOK(loop[i], clock)
      BY <1>0 DEF LoopsOK
    <3> QED BY <1>0, <2>2, <2>4, <3>1 DEF TickGoesOn
  <2> QED BY <2>3, <2>4
<1>2. ASSUME NEW t \in Steady, Waits(t)'
      PROVE  HeldUp(t)'
  <2>1. Waits(t) => HeldUp(t)
    BY DEF LateInv
  <2> QED BY <1>2, <2>1, BeginningHoldsUp, GoingOnHoldsUp
<1> QED BY <1>1, <1>2 DEF LateInv

-----------------------------------------------------------------------------
(* The other steps.                                                        *)

\* An execution begins, ends, or is edited, and no tick looks at anything.
LEMMA TablesHoldUp ==
  ASSUME LateInv, NEW t \in Steady,
         clock' = clock, ticked' = ticked, phase' = phase, loop' = loop,
         row'[t].stored /\ row'[t].enabled /\ row'[t].next <= clock /\ exec'[t].stage = "idle"
           => row'[t] = row[t] /\ exec[t].stage = "idle",
         Waits(t)'
  PROVE  HeldUp(t)'
<1>1. row'[t] = row[t] /\ Waits(t)
  BY DEF Waits, Running
<1>2. \A i \in Loops : HasRead(i, t) => HasRead(i, t)'
  BY <1>1 DEF HasRead
<1> QED BY <1>1, <1>2, StaysHeldUp DEF LateInv

\* What a step that is not a tick's does to a task that nothing holds back.
KeepsOrMoves(t) ==
  /\ exec'[t].stage \in {"idle", "works"}
  /\ row'[t].stored /\ row'[t].enabled /\ row'[t].next <= clock /\ exec'[t].stage = "idle"
       => row'[t] = row[t] /\ exec[t].stage = "idle"

LEMMA NextOnes ==
  ASSUME clock \in 0 .. Horizon, NEW t \in Steady, NEW r \in Row
  PROVE  /\ ~(Succeeded(r, t).next <= clock) /\ ~(FailedQuietly(r, t).next <= clock)
         /\ Spent(r, t) = r
         /\ ~(NextRun(t, clock) <= clock) /\ NextRun(t, clock) \in Nat
<1> DEFINE N == NextRun(t, clock)
           G == More(r.failures)
<1>1. t \in Tasks /\ ~OneShot(t) /\ Class[t] = "extension"
  BY DEF Steady
<1>2. N \in Nat /\ N > clock /\ clock \in Nat
  BY <1>1, NextRunIsLater
<1>3. Succeeded(r, t) = [r EXCEPT !.status = "completed", !.failures = 0, !.next = N]
  BY Zenon DEF Succeeded
<1>4. FailedQuietly(r, t) = [r EXCEPT !.status = "failed", !.failures = G, !.next = N]
  BY Zenon DEF FailedQuietly
<1> HIDE DEF N, G
<1>5. Succeeded(r, t).next = N /\ FailedQuietly(r, t).next = N
  BY <1>3, <1>4 DEF Row
<1>6. Spent(r, t) = r
  BY <1>1 DEF Spent
<1> QED BY <1>2, <1>5, <1>6 DEF N

LEMMA ExecutionsHoldUp ==
  ASSUME IInv, LateInv, NEW t \in Steady, NEW u \in Tasks, Executes(u)
  PROVE  KeepsOrMoves(t)
<1>0. /\ clock \in 0 .. Horizon /\ RowsOK(row) /\ ExecsOK(exec) /\ row[t] \in Row /\ t \in Tasks
      /\ row \in [Tasks -> Row] /\ exec \in [Tasks -> Exec]
      /\ exec[t].stage \in {"idle", "works"} /\ Class[t] = "extension"
  BY DEF IInv, RowsOK, ExecsOK, LateInv, Steady
<1>1. CASE u = t
  <2>1. /\ exec[t].stage = "works"
        /\ \/ row' = Put(row, t, Spent(Succeeded(row[t], t), t))
           \/ row' = Put(row, t, Spent(FailedQuietly(row[t], t), t))
        /\ exec' = [exec EXCEPT ![t] = Idle]
    BY <1>0, <1>1 DEF Executes, Answers, Fails, Apologised, Delivered, Writes
  <2>2. exec'[t].stage = "idle"
    BY <1>0, <2>1, IdleIsExec
  <2>3. Succeeded(row[t], t) \in Row /\ FailedQuietly(row[t], t) \in Row
    BY <1>0, IdleIsExec, WritesKeepRows
  <2>4. ~row'[t].stored \/ ~(row'[t].next <= clock)
    BY <1>0, <2>1, <2>3, NextOnes DEF Put
  <2> QED BY <2>2, <2>4 DEF KeepsOrMoves
<1>2. CASE u # t
  <2>1. ASSUME NEW r, NEW e, Writes(u, r, e)
        PROVE  KeepsOrMoves(t)
    BY <1>0, <1>2, <2>1 DEF Writes, Put, KeepsOrMoves
  <2>2. CASE Answers(u) \/ Fails(u) \/ Apologised(u)
    BY <2>1, <2>2 DEF Answers, Fails, Apologised
  <2>3. CASE Delivered(u)
    <3>1. PICK s \in Chained(u) : /\ row' = Put(s.rows, u, Spent(s.rows[u], u))
                                  /\ exec' = [s.execs EXCEPT ![u] = Idle]
      BY <2>3 DEF Delivered
    <3>2. /\ RowsOK(s.rows) /\ ExecsOK(s.execs)
          /\ \/ s.rows[t] = row[t] /\ s.execs[t] = exec[t]
             \/ s.rows[t] = row[t] /\ s.execs[t].stage = "works"
             \/ s.execs[t] = exec[t] /\ s.rows[t].next > clock
      <4>1. CASE s = [rows |-> row, execs |-> exec]
        BY <1>0, <4>1
      <4>2. CASE s # [rows |-> row, execs |-> exec]
        <5>1. Chain[u] \in Tasks
          BY <4>2, SchedulerAssumption DEF Chained
        <5>2. Snap(row[Chain[u]]) \in Snapshot
          BY <5>1, SnapType DEF IInv, RowsOK
        <5>3. s \in Started(row, exec, Chain[u], Snap(row[Chain[u]]), Nothing)
          BY <4>2 DEF Chained
        <5>4. RowsOK(s.rows) /\ ExecsOK(s.execs)
          BY <5>1, <5>2, <5>3, StartSteps
        <5>5. CASE Chain[u] = t
          BY <1>0, <5>3, <5>4, <5>5, SteadyStarts
        <5>6. CASE Chain[u] # t
          BY <1>0, <5>1, <5>3, <5>4, <5>6, OthersStart
        <5> QED BY <5>4, <5>5, <5>6
      <4> QED BY <4>1, <4>2
    <3>3. row'[t] = s.rows[t] /\ exec'[t] = s.execs[t]
      BY <1>0, <1>2, <3>1, <3>2 DEF Put, RowsOK, ExecsOK
    <3>4. s.rows[t] \in Row
      BY <1>0, <3>2 DEF RowsOK
    <3> QED BY <1>0, <3>2, <3>3, <3>4 DEF KeepsOrMoves, Row
  <2> QED BY <2>2, <2>3 DEF Executes
<1> QED BY <1>1, <1>2

LEMMA UsersHoldUp ==
  ASSUME IInv, LateInv, NEW t \in Steady, NEW u \in Tasks, Users(u)
  PROVE  KeepsOrMoves(t)
<1>0. /\ clock \in 0 .. Horizon /\ RowsOK(row) /\ ExecsOK(exec) /\ row[t] \in Row /\ t \in Tasks
      /\ row \in [Tasks -> Row] /\ exec \in [Tasks -> Exec]
      /\ exec[t].stage \in {"idle", "works"} /\ t \notin Tended /\ ~OneShot(t)
  BY DEF IInv, RowsOK, ExecsOK, LateInv, Steady
<1>1. ASSUME NEW r, Edits(u, r), u # t \/ ~(r.next <= clock)
      PROVE  KeepsOrMoves(t)
  BY <1>0, <1>1 DEF Edits, KeepsOrMoves
<1>2. CASE Trigger(u)
  <2>1. u # t
    BY <1>0, <1>2 DEF Trigger
  <2>2. PICK s \in Started(row, exec, u, Snap(row[u]), Nothing) : row' = s.rows /\ exec' = s.execs
    BY <1>2 DEF Trigger
  <2>3. row'[t] = row[t] /\ exec'[t] = exec[t]
    BY <1>0, <2>1, <2>2, OthersStart
  <2> QED BY <1>0, <2>3 DEF KeepsOrMoves
<1>3. CASE Add(u)
  <2>1. PICK at \in IF OneShot(u) THEN clock .. Horizon ELSE {NextRun(u, clock)} :
          Edits(u, [NoRow EXCEPT !.stored = TRUE, !.enabled = TRUE, !.next = at])
    BY <1>3 DEF Add
  <2>2. [NoRow EXCEPT !.stored = TRUE, !.enabled = TRUE, !.next = at].next = at
    BY DEF NoRow
  <2>3. u = t => ~(at <= clock)
    BY <1>0, <2>1, NextOnes
  <2> QED BY <1>1, <2>1, <2>2, <2>3
<1>4. CASE Reschedule(u)
  <2> DEFINE N == NextRun(u, clock)
  <2>1. Edits(u, [row[u] EXCEPT !.next = N])
    BY <1>4 DEF Reschedule
  <2>2. u = t => ~(N <= clock)
    BY <1>0, NextOnes
  <2> HIDE DEF N
  <2>3. row[u] \in Row
    BY <1>0
  <2>4. [row[u] EXCEPT !.next = N].next = N
    BY <2>3 DEF Row
  <2> QED BY <1>1, <2>1, <2>2, <2>4
<1>5. CASE DeleteTask(u) \/ \E on \in BOOLEAN : Enable(u, on)
  BY <1>0, <1>1, <1>5 DEF DeleteTask, Enable
<1> QED BY <1>2, <1>3, <1>4, <1>5 DEF Users

\* The time passes when every tick has come to an execution: those that found the
\* task due are at as many others.
LEMMA TimeHoldsUp ==
  ASSUME IInv, LateInv, NEW t \in Steady, Passes, Waits(t)'
  PROVE  HeldUp(t)'
<1>0. /\ clock \in Nat /\ row[t] \in Row /\ t \in Tasks /\ ExecsOK(exec) /\ ticked \in BOOLEAN
      /\ IsFiniteSet(Tasks)
  BY SchedulerAssumption DEF IInv, RowsOK, Steady
<1>1. /\ Settled /\ clock' = clock + 1 /\ ticked' = FALSE
      /\ phase' = phase /\ row' = row /\ loop' = loop /\ exec' = exec
      /\ phase = "up" => ticked
  BY DEF Passes
<1>2. /\ phase = "up" /\ row[t].stored /\ row[t].enabled /\ row[t].next <= clock + 1
      /\ exec[t].stage = "idle" /\ row[t].next \in Nat
  BY <1>0, <1>1 DEF Waits, Running, Row
<1>3. Found(t)' = row[t].next .. clock
  BY <1>0, <1>1, <1>2 DEF Found
<1>4. Cardinality(Tasks \ {t}) = Cardinality(Tasks) - 1 /\ IsFiniteSet(Tasks \ {t})
      /\ Cardinality(Tasks \ {t}) \in Nat
  BY <1>0, FS_RemoveElement, FS_CardinalityType
<1>5. CASE row[t].next = clock + 1
  <2>1. Found(t)' = {}
    BY <1>0, <1>2, <1>3, <1>5
  <2>2. PICK tick : tick = [c \in {} |-> Nothing]
    OBVIOUS
  <2>3. HeldBy(t, tick)'
    BY <2>1, <2>2 DEF HeldBy
  <2>4. Lateness(t)'
    BY <1>0, <1>1, <1>2, <1>4, <1>5 DEF Lateness
  <2> QED BY <2>3, <2>4 DEF HeldUp
<1>6. CASE row[t].next # clock + 1
  <2>1. Waits(t)
    BY <1>0, <1>2, <1>6 DEF Waits, Running
  <2>2. PICK tick : HeldBy(t, tick)
    BY <2>1 DEF LateInv, HeldUp
  <2>3. Found(t) = row[t].next .. clock
    BY <1>1, <1>2 DEF Found
  <2>4. HeldBy(t, tick)'
    BY <1>1, <1>3, <2>2, <2>3 DEF HeldBy, HasRead
  <2>5. ASSUME NEW c \in row[t].next .. clock
        PROVE  \E u \in Tasks \ {t} : exec[u].by = tick[c]
    <3>1. tick[c] \in Loops /\ loop[tick[c]] # Empty
      BY <2>2, <2>3 DEF HeldBy, HasRead, Empty
    <3>2. PICK u \in Tasks : exec[u].by = tick[c]
      BY <1>1, <3>1 DEF Settled, Ready
    <3>3. exec[t].by = Nothing
      BY <1>0, <1>2, IdleIsExec DEF ExecsOK
    <3> QED BY <3>1, <3>2, <3>3, SchedulerAssumption
  <2> DEFINE D == row[t].next .. clock
             g == [c \in D |-> CHOOSE u \in Tasks \ {t} : exec[u].by = tick[c]]
  <2>6. \A c \in D : g[c] \in Tasks \ {t} /\ exec[g[c]].by = tick[c]
    BY <2>5
  <2>7. g \in [D -> Tasks \ {t}]
    BY <2>6
  <2> HIDE DEF g
  <2>8. \A c, d \in D : g[c] = g[d] => c = d
    BY <2>2, <2>3, <2>6 DEF HeldBy
  <2>9. g \in Injection(D, Tasks \ {t})
    BY <2>7, <2>8 DEF Injection, IsInjective
  <2>10. Cardinality(D) <= Cardinality(Tasks) - 1
    BY <1>4, <2>9, FS_Injection
  <2>11. Cardinality(D) = clock - row[t].next + 1
    <3>1. row[t].next \in Int /\ clock \in Int /\ ~(row[t].next > clock)
      BY <1>0, <1>2, <1>6
    <3> HIDE DEF D
    <3>2. \A a, b \in Int : Cardinality(a .. b) = IF a > b THEN 0 ELSE b - a + 1
      BY FS_Interval
    <3>3. Cardinality(row[t].next .. clock) = clock - row[t].next + 1
      BY <3>1, <3>2
    <3> QED BY <3>3 DEF D
  <2>12. (clock + 1) - row[t].next <= Cardinality(Tasks) - 1
    <3> HIDE DEF D
    <3> QED BY <1>0, <1>2, <2>10, <2>11
  <2>13. Lateness(t)'
    <3>1. clock' = clock + 1 /\ row' = row
      BY <1>1
    <3>2. clock' - row'[t].next <= Cardinality(Tasks) - 1
      BY <3>1, <2>12
    <3> QED BY <3>2 DEF Lateness
  <2> QED BY <2>4, <2>13 DEF HeldUp
<1> QED BY <1>5, <1>6

LEMMA ProcessHoldsUp ==
  ASSUME IInv, LateInv, Passes \/ Stop \/ Dies \/ Start
  PROVE  LateInv'
<1>1. ASSUME NEW t \in Steady
      PROVE  exec'[t].stage \in {"idle", "works"}
  <2>1. exec[t].stage \in {"idle", "works"} /\ t \in Tasks
    BY DEF LateInv, Steady
  <2> QED BY <2>1, IdleIsExec DEF Passes, Stop, Dies, Start
<1>2. ASSUME NEW t \in Steady, Waits(t)'
      PROVE  HeldUp(t)'
  <2>1. CASE Passes
    BY <1>2, <2>1, TimeHoldsUp
  <2>2. CASE Stop \/ Dies
    BY <1>2, <2>2 DEF Stop, Dies, Waits
  <2>3. CASE Start
    <3> DEFINE r == IF t \in Configured /\ row[t].stored THEN [row[t] EXCEPT !.enabled = TRUE]
                    ELSE row[t]
               N == NextRun(t, clock)
    <3>1. row[t] \in Row /\ ~OneShot(t) /\ clock \in 0 .. Horizon /\ t \in Tasks
      BY DEF IInv, RowsOK, Steady
    <3>2. r \in Row
      BY <3>1 DEF Row
    <3>3. ~(N <= clock)
      BY <3>1, <3>2, NextOnes
    <3>4. row'[t] = IF r.enabled THEN [r EXCEPT !.next = N] ELSE r
      BY <2>3, <3>1, Zenon DEF Start, Restored
    <3>5. clock' = clock
      BY <2>3 DEF Start
    <3> HIDE DEF r, N
    <3>6. ~row'[t].enabled \/ row'[t].next = N
      BY <3>2, <3>4 DEF Row
    <3> QED BY <1>2, <3>3, <3>5, <3>6 DEF Waits
  <2> QED BY <2>1, <2>2, <2>3
<1> QED BY <1>1, <1>2 DEF LateInv

LEMMA LateInvHolds == Spec => [](IInv /\ LateInv)
<1>1. Init => IInv /\ LateInv
  <2>1. Init => LateInv
    BY IdleIsExec DEF Init, LateInv, Waits, NoRow, Steady
  <2> QED BY <2>1, InitIsGood
<1>2. IInv /\ LateInv /\ [Next]_vars => (IInv /\ LateInv)'
  <2> SUFFICES ASSUME IInv, LateInv, [Next]_vars
               PROVE  LateInv'
    BY Steps
  <2>1. CASE \E i \in Loops : TickBegins(i) \/ TickGoesOn(i)
    BY <2>1, TicksHoldUp
  <2>2. ASSUME clock' = clock, ticked' = ticked, phase' = phase, loop' = loop,
               \A t \in Steady : KeepsOrMoves(t)
        PROVE  LateInv'
    BY <2>2, TablesHoldUp DEF KeepsOrMoves, LateInv
  <2>3. ASSUME NEW u \in Tasks, Executes(u)
        PROVE  LateInv'
    <3>1. clock' = clock /\ ticked' = ticked /\ phase' = phase /\ loop' = loop
      BY <2>3 DEF Executes, Answers, Fails, Apologised, Delivered, Writes
    <3>2. \A t \in Steady : KeepsOrMoves(t)
      BY <2>3, ExecutionsHoldUp
    <3> QED BY <2>2, <3>1, <3>2
  <2>4. ASSUME NEW u \in Tasks, Users(u)
        PROVE  LateInv'
    <3>1. clock' = clock /\ ticked' = ticked /\ phase' = phase /\ loop' = loop
      BY <2>4 DEF Users, Trigger, Add, Reschedule, DeleteTask, Enable, Edits
    <3>2. \A t \in Steady : KeepsOrMoves(t)
      BY <2>4, UsersHoldUp
    <3> QED BY <2>2, <3>1, <3>2
  <2>5. CASE Passes \/ Stop \/ Dies \/ Start
    BY <2>5, ProcessHoldsUp
  <2>6. CASE UNCHANGED vars
    <3>1. \A t \in Steady : KeepsOrMoves(t)
      BY <2>6 DEF vars, KeepsOrMoves, LateInv
    <3> QED BY <2>2, <2>6, <3>1 DEF vars
  <2> QED BY <2>1, <2>3, <2>4, <2>5, <2>6 DEF Next
<1> QED BY <1>1, <1>2, PTL DEF Spec

-----------------------------------------------------------------------------
(* Theorems                                                                *)

\* The table, the snapshots and the executions keep their types.
THEOREM TypesHold == Spec => []TypeOK
<1>1. IInv => TypeOK
  BY InvTypes
<1> QED BY <1>1, InvHolds, PTL

\* A tick starts a task only when the table says it is due.
THEOREM TicksHold == Spec => TicksStartWhatIsDue
<1>1. IInv /\ [Next]_vars =>
        [\A t \in Tasks : ~Running(t) /\ Running(t)' /\ exec'[t].by \in Loops
           => row[t].next <= clock]_vars
  <2> SUFFICES ASSUME IInv, [Next]_vars, NEW t \in Tasks,
                      ~Running(t), Running(t)', exec'[t].by \in Loops
               PROVE  row[t].next <= clock
    OBVIOUS
  <2>1. Begins(exec, exec', t) /\ exec'[t].by # Nothing
    BY SchedulerAssumption DEF Begins, Running
  <2> QED BY <2>1, Steps
<1> QED BY <1>1, InvHolds, PTL DEF Spec, TicksStartWhatIsDue

\* A tick does not start a task that is to run once and has succeeded.
THEOREM SuccessHolds == Spec => SuccessIsFinal
<1>1. IInv /\ [Next]_vars =>
        [\A t \in Tasks : ~Running(t) /\ Running(t)' /\ exec'[t].by \in Loops
           => ~(OneShot(t) /\ row[t].status = "completed")]_vars
  <2> SUFFICES ASSUME IInv, [Next]_vars, NEW t \in Tasks,
                      ~Running(t), Running(t)', exec'[t].by \in Loops
               PROVE  ~(OneShot(t) /\ row[t].status = "completed")
    OBVIOUS
  <2>1. Begins(exec, exec', t) /\ exec'[t].by # Nothing
    BY SchedulerAssumption DEF Begins, Running
  <2>2. row[t].next <= clock
    BY <2>1, Steps
  <2>3. Never > clock /\ clock \in Nat
    BY SchedulerAssumption DEF IInv, Never
  <2>4. OneShot(t) /\ row[t].status = "completed" => row[t].next = Never
    BY DEF IInv, RowsOK
  <2> QED BY <2>2, <2>3, <2>4, SchedulerAssumption DEF Never
<1> QED BY <1>1, InvHolds, PTL DEF Spec, SuccessIsFinal

\* A task of a cron expression is started before more intervals have passed than
\* there are other tasks: each interval's tick has the tasks in the order of their
\* times, and is stopped before this one only by a task that executes, which stops
\* no other tick.
THEOREM LatenessIsBounded ==
  Spec => [](\A t \in Steady : Waits(t) => clock - row[t].next <= Cardinality(Tasks) - 1)
<1>1. LateInv => \A t \in Steady : Waits(t) => clock - row[t].next <= Cardinality(Tasks) - 1
  BY DEF LateInv, HeldUp, Lateness
<1> QED BY <1>1, LateInvHolds, PTL

\* So repairPersistedSchedules moves none, when the threshold has as many intervals
\* as there are other tasks.
THEOREM NothingIsDropped ==
  ASSUME Cardinality(Tasks) <= Stale + 1
  PROVE  Spec => []NoneIsDropped
<1>1. IInv /\ LateInv => NoneIsDropped
  <2> SUFFICES ASSUME IInv, LateInv,
                      NEW t \in Tasks \ (Tended \cup Deferrable), Class[t] = "extension",
                      phase = "up", Late(row[t], t), ~Running(t)
               PROVE  FALSE
    BY DEF NoneIsDropped
  <2>1. t \in Steady /\ row[t].next < clock - Stale
    BY DEF Steady, Late
  <2>2. clock \in Nat /\ row[t].next \in Nat /\ Stale \in Nat /\ Cardinality(Tasks) \in Nat
    BY SchedulerAssumption, FS_CardinalityType DEF IInv, RowsOK, Row
  <2>3. row[t].next <= clock
    BY <2>1, <2>2
  <2>4. Waits(t)
    BY <2>3 DEF Waits, Late
  <2>5. clock - row[t].next <= Cardinality(Tasks) - 1
    BY <2>1, <2>4 DEF LateInv, HeldUp, Lateness
  <2> QED BY <2>1, <2>2, <2>5
<1> QED BY <1>1, LateInvHolds, PTL
=============================================================================
