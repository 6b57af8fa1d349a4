----------------------------- MODULE Scheduler -----------------------------
(***************************************************************************)
(* The scheduler of src/src/scheduler/index.ts: its table of tasks, the    *)
(* ticks, the tasks that are executing, triggers, chains, edits, and the   *)
(* start and loss of the process.                                          *)
(*                                                                         *)
(* Every interval a tick reads the tasks that are due and executes them    *)
(* one after the other.  Nobody waits for a tick, so that the next one may *)
(* begin while it is busy: what a tick has read and not yet looked at is a *)
(* snapshot that others make old.  An action is the code between two       *)
(* awaits.                                                                 *)
(***************************************************************************)
EXTENDS Integers, FiniteSets

CONSTANTS
  Tasks,        \* ids of scheduled_tasks
  Loops,        \* ticks that may be busy at once (bound)
  Horizon,      \* the clock stops there; ticks go on (bound)
  Period,       \* of each task's cron expression; 0 for one that runs once
  Class,        \* which branch of executeTask each task takes
  Chain,        \* the task that each one's success triggers
  Nothing,
  Stale,        \* a cron task that is later than this is moved, not run
  MaxFailures,  \* failures in a row after which a task is disabled
  Backoff,      \* the delay after so many failures
  Deferrable,   \* tasks that the budget or a busy processor may hold back
  Preflighted,  \* tasks that a dirty repository puts off
  Configured,   \* tasks of config.toml, enabled again at each start
  Tended        \* tasks that users trigger, enable, disable or delete

Classes == {"agent", "system", "extension"}

ASSUME SchedulerAssumption ==
  /\ IsFiniteSet(Tasks) /\ Nothing \notin Tasks /\ Nothing \notin Loops
  /\ Horizon \in Nat /\ Stale \in Nat
  /\ Period \in [Tasks -> Nat]
  /\ Class \in [Tasks -> Classes]
  /\ Chain \in [Tasks -> Tasks \cup {Nothing}]
  /\ MaxFailures \in Nat \ {0}
  /\ Backoff \in [1 .. MaxFailures -> Nat \ {0}]

VARIABLES
  clock,   \* Date.now(), in units of the tick interval
  ticked,  \* whether the tick of this unit has begun
  phase,   \* whether the scheduler is up, stopped or not there at all
  row,     \* the table
  loop,    \* for each busy tick, what it has read and not yet looked at
  exec     \* runningTasks, with what executeTask knows at its awaits

vars == <<clock, ticked, phase, row, loop, exec>>

Phases == {"up", "stopped", "down"}
Statuses == {"none", "completed", "failed", "deferred", "deleted"}
Stages == {"idle", "works", "delivers", "apologises"}

\* Number.MAX_SAFE_INTEGER: the clock does not get there.
Never == Horizon + 1

OneShot(t) == Period[t] = 0

\* Mutant: a task that runs once is due again at the next tick.
NextRunAgain(t, after) ==
  IF OneShot(t) THEN after + 1 ELSE (after \div Period[t] + 1) * Period[t]

\* computeNextRun: the first occurrence after the time given.
NextRun(t, after) ==
  IF OneShot(t) THEN Never ELSE (after \div Period[t] + 1) * Period[t]

Row == [stored : BOOLEAN, enabled : BOOLEAN, next : Nat,
        failures : 0 .. MaxFailures, status : Statuses]

Snapshot == [next : Nat, failures : 0 .. MaxFailures]

Exec == [stage : Stages, by : Loops \cup {Nothing}, start : Nat,
         failures : 0 .. MaxFailures]

NoRow == [stored |-> FALSE, enabled |-> FALSE, next |-> 0, failures |-> 0,
          status |-> "none"]

Idle == [stage |-> "idle", by |-> Nothing, start |-> 0, failures |-> 0]

Empty == [t \in {} |-> Idle]

TypeOK ==
  /\ clock \in 0 .. Horizon /\ ticked \in BOOLEAN /\ phase \in Phases
  /\ row \in [Tasks -> Row]
  /\ loop = [i \in Loops |-> loop[i]]
  /\ \A i \in Loops : DOMAIN loop[i] \subseteq Tasks /\ loop[i] \in [DOMAIN loop[i] -> Snapshot]
  /\ exec \in [Tasks -> Exec]
  /\ \A t \in Tasks : exec[t].stage = "idle" => exec[t] = Idle

Init ==
  /\ clock = 0 /\ ticked = FALSE /\ phase = "up"
  /\ row = [t \in Tasks |-> NoRow]
  /\ loop = [i \in Loops |-> Empty]
  /\ exec = [t \in Tasks |-> Idle]

Running(t) == exec[t].stage # "idle"

\* The tick waits for no execution and has nothing left to look at.
Free(i) == loop[i] = Empty /\ \A t \in Tasks : exec[t].by # i

\* The ids of ticks are alike: a tick takes the same one of those that are free.
Idler(i) == Free(i) /\ i = CHOOSE j \in Loops : Free(j)

Ready(i) == loop[i] # Empty /\ \A t \in Tasks : exec[t].by # i

\* Promises resolve before timers fire and requests are read.
Settled == \A i \in Loops : ~Ready(i)

-----------------------------------------------------------------------------
(* What executeTask writes.  An UPDATE of a deleted task changes nothing.  *)

Put(rows, t, r) == [rows EXCEPT ![t] = IF @.stored THEN r ELSE @]

More(n) == IF n < MaxFailures THEN n + 1 ELSE n

Succeeded(r, t) ==
  [r EXCEPT !.status = "completed", !.failures = 0, !.next = NextRun(t, clock)]

\* An agent's task: the count is the one executeTask was called with, and the
\* delay counts from the start.
Failed(r, t, e) ==
  [r EXCEPT !.status = "failed", !.failures = More(e.failures),
            !.next = e.start + Backoff[More(e.failures)],
            !.enabled = @ /\ More(e.failures) < MaxFailures]

\* A system or extension task: the next occurrence, and no breaker.
FailedQuietly(r, t) ==
  [r EXCEPT !.status = "failed", !.failures = More(@), !.next = NextRun(t, clock)]

Deferred(r, t) == [r EXCEPT !.status = "deferred", !.next = NextRun(t, clock)]

\* A task that runs once is disabled after its execution.
Spent(r, t) == IF OneShot(t) THEN [r EXCEPT !.enabled = FALSE] ELSE r

-----------------------------------------------------------------------------
(* Starting an execution                                                   *)

\* Mutant: the time the tick has read is not compared with the table's.
BlockedIfOff(r, t, next) == Running(t) \/ ~r.stored \/ ~r.enabled

\* The checks that make executeTask return at once.
Blocked(r, t, next) == Running(t) \/ ~r.stored \/ ~r.enabled \/ r.next > next

\* Mutant: the task is not entered into runningTasks.
BegunUnmarked(i, failures) ==
  [stage |-> "idle", by |-> i, start |-> clock, failures |-> failures]

Begun(i, failures) ==
  [stage |-> "works", by |-> i, start |-> clock, failures |-> failures]

\* executeTask up to its first await: the tables it may leave.
Started(rows, execs, t, snap, i) ==
  LET now == [rows |-> rows, execs |-> execs] IN
  IF Blocked(rows[t], t, snap.next) THEN {now}
  ELSE {[now EXCEPT !.execs[t] = Begun(i, snap.failures)]}
       \cup (IF t \in Deferrable THEN {now} ELSE {})
       \cup (IF t \in Preflighted THEN {[now EXCEPT !.rows[t] = Deferred(@, t)]} ELSE {})

Snap(r) == [next |-> r.next, failures |-> r.failures]

\* A tick turns to the first of the tasks it has read.
Turn(rows, i, read) ==
  \/ /\ read = Empty
     /\ loop' = [loop EXCEPT ![i] = Empty] /\ row' = rows /\ exec' = exec
  \/ \E t \in DOMAIN read :
       /\ \A u \in DOMAIN read : read[t].next <= read[u].next
       /\ loop' = [loop EXCEPT ![i] = [u \in DOMAIN read \ {t} |-> read[u]]]
       /\ \E s \in Started(rows, exec, t, read[t], i) : row' = s.rows /\ exec' = s.execs

\* Mutant: a task that runs once is moved away as well.
LateAny(r, t) == r.stored /\ r.enabled /\ r.next < clock - Stale

\* repairPersistedSchedules: a cron task that is too late waits for its next time.
Late(r, t) == r.stored /\ r.enabled /\ ~OneShot(t) /\ r.next < clock - Stale

Repaired ==
  [t \in Tasks |->
     IF Late(row[t], t) THEN [row[t] EXCEPT !.next = NextRun(t, clock)] ELSE row[t]]

Due(rows) ==
  {t \in Tasks : rows[t].stored /\ rows[t].enabled /\ rows[t].next <= clock}

\* Mutant: a tick that finds the last one busy does nothing.
TickBeginsAlone(i) ==
  /\ phase = "up" /\ ~ticked /\ Idler(i) /\ Settled
  /\ ticked' = (clock < Horizon)
  /\ IF \A j \in Loops : Free(j)
       THEN Turn(Repaired, i, [t \in Due(Repaired) |-> Snap(Repaired[t])])
       ELSE row' = Repaired /\ UNCHANGED <<loop, exec>>
  /\ UNCHANGED <<clock, phase>>

\* tick: the timer fires once in an interval, whatever the last tick is doing.
TickBegins(i) ==
  /\ phase = "up" /\ ~ticked /\ Idler(i) /\ Settled
  /\ ticked' = (clock < Horizon)
  /\ Turn(Repaired, i, [t \in Due(Repaired) |-> Snap(Repaired[t])])
  /\ UNCHANGED <<clock, phase>>

\* The tick goes on when its execution has ended; stop() does not reach it.
TickGoesOn(i) ==
  /\ Ready(i)
  /\ Turn(row, i, loop[i])
  /\ UNCHANGED <<clock, ticked, phase>>

\* The API, the gateway and the MCP server trigger a task; none of them forces it.
Trigger(t) ==
  /\ phase # "down" /\ Settled /\ t \in Tended /\ row[t].stored
  /\ \E s \in Started(row, exec, t, Snap(row[t]), Nothing) :
       row' = s.rows /\ exec' = s.execs
  /\ UNCHANGED <<clock, ticked, phase, loop>>

-----------------------------------------------------------------------------
(* Executing                                                               *)

Writes(t, r, e) ==
  /\ row' = Put(row, t, r) /\ exec' = [exec EXCEPT ![t] = e]
  /\ UNCHANGED <<clock, ticked, phase, loop>>

\* The result is written before it is delivered; an extension's is not delivered.
Answers(t) ==
  /\ exec[t].stage = "works"
  /\ IF Class[t] = "extension"
       THEN Writes(t, Spent(Succeeded(row[t], t), t), Idle)
       ELSE Writes(t, Succeeded(row[t], t), [exec[t] EXCEPT !.stage = "delivers"])

\* An agent whose call or whose delivery throws also sends an apology.
Fails(t) ==
  /\ exec[t].stage \in {"works", "delivers"}
  /\ IF Class[t] = "agent"
       THEN Writes(t, Failed(row[t], t, exec[t]), [exec[t] EXCEPT !.stage = "apologises"])
       ELSE Writes(t, Spent(FailedQuietly(row[t], t), t), Idle)

Apologised(t) == exec[t].stage = "apologises" /\ Writes(t, Spent(row[t], t), Idle)

\* triggerChain, inside the execution of its source: the condition may not hold.
Chained(t) ==
  LET u == Chain[t] IN
  {[rows |-> row, execs |-> exec]}
    \cup (IF Class[t] = "agent" /\ u # Nothing /\ row[u].stored
            THEN Started(row, exec, u, Snap(row[u]), Nothing) ELSE {})

Delivered(t) ==
  /\ exec[t].stage = "delivers"
  /\ \E s \in Chained(t) :
       /\ row' = Put(s.rows, t, Spent(s.rows[t], t))
       /\ exec' = [s.execs EXCEPT ![t] = Idle]
  /\ UNCHANGED <<clock, ticked, phase, loop>>

-----------------------------------------------------------------------------
(* The table's users                                                       *)

Edits(t, r) ==
  row' = [row EXCEPT ![t] = r] /\ UNCHANGED <<clock, ticked, phase, loop, exec>>

\* addTask, for a time to come if it is to run once.
Add(t) ==
  /\ phase # "down" /\ Settled /\ row[t] = NoRow
  /\ \E at \in IF OneShot(t) THEN clock .. Horizon ELSE {NextRun(t, clock)} :
       Edits(t, [NoRow EXCEPT !.stored = TRUE, !.enabled = TRUE, !.next = at])

Enable(t, on) ==
  /\ phase # "down" /\ Settled /\ t \in Tended /\ row[t].stored /\ row[t].enabled # on
  /\ Edits(t, [row[t] EXCEPT !.enabled = on])

\* updateTask with a cron expression.
Reschedule(t) ==
  /\ phase # "down" /\ Settled /\ row[t].stored /\ ~OneShot(t)
  /\ Edits(t, [row[t] EXCEPT !.next = NextRun(t, clock)])

DeleteTask(t) ==
  /\ phase # "down" /\ Settled /\ t \in Tended /\ row[t].stored
  /\ Edits(t, [NoRow EXCEPT !.status = "deleted"])

-----------------------------------------------------------------------------
(* Time and the process                                                    *)

Passes ==
  /\ clock < Horizon /\ Settled
  /\ phase = "up" => ticked
  /\ clock' = clock + 1 /\ ticked' = FALSE
  /\ UNCHANGED <<phase, row, loop, exec>>

Stop ==
  /\ phase = "up" /\ Settled /\ phase' = "stopped"
  /\ UNCHANGED <<clock, ticked, row, loop, exec>>

Dies ==
  /\ phase # "down" /\ phase' = "down"
  /\ loop' = [i \in Loops |-> Empty] /\ exec' = [t \in Tasks |-> Idle]
  /\ UNCHANGED <<clock, ticked, row>>

\* loadConfigTasks and recalculateNextRuns: what is in the configuration is
\* enabled, and every enabled cron task waits for its next time.
Restored(t) ==
  LET r == IF t \in Configured /\ row[t].stored THEN [row[t] EXCEPT !.enabled = TRUE]
           ELSE row[t]
  IN IF r.enabled /\ ~OneShot(t) THEN [r EXCEPT !.next = NextRun(t, clock)] ELSE r

Start ==
  /\ phase = "down" /\ phase' = "up"
  /\ row' = [t \in Tasks |-> Restored(t)] /\ ticked' = FALSE
  /\ UNCHANGED <<clock, loop, exec>>

-----------------------------------------------------------------------------
Executes(t) == Answers(t) \/ Fails(t) \/ Apologised(t) \/ Delivered(t)

Users(t) ==
  \/ Trigger(t) \/ Add(t) \/ Reschedule(t) \/ DeleteTask(t)
  \/ \E on \in BOOLEAN : Enable(t, on)

Next ==
  \/ \E i \in Loops : TickBegins(i) \/ TickGoesOn(i)
  \/ \E t \in Tasks : Executes(t) \/ Users(t)
  \/ Passes \/ Stop \/ Dies \/ Start

Spec == Init /\ [][Next]_vars

\* The timer fires, promises resolve, every execution ends by its timeout at the
\* latest, time passes, a stopped process exits, and the service manager restarts it.
FairSpec ==
  /\ Spec
  /\ WF_vars(\E i \in Loops : TickBegins(i))
  /\ \A i \in Loops : WF_vars(TickGoesOn(i))
  /\ \A t \in Tasks : WF_vars(Executes(t))
  /\ WF_vars(Passes) /\ WF_vars(phase = "stopped" /\ Dies) /\ WF_vars(Start)

-----------------------------------------------------------------------------
(* Properties                                                              *)

\* However old what a tick has read, it starts a task only when the task is due
\* by the table: a task that ran meanwhile, by another tick, a trigger or a
\* chain, is not run again for the same time (index.ts:694).
TicksStartWhatIsDue ==
  [][\A t \in Tasks : ~Running(t) /\ Running(t)' /\ exec'[t].by \in Loops
        => row[t].next <= clock]_vars

\* A task that is to run once is not started by a tick after it has succeeded,
\* even when the process was lost before it was disabled, or it was enabled again.
SuccessIsFinal ==
  [][\A t \in Tasks : ~Running(t) /\ Running(t)' /\ exec'[t].by \in Loops
        => ~(OneShot(t) /\ row[t].status = "completed")]_vars

\* However long other tasks take, a task of a cron expression misses no time but
\* those that pass while it is running itself: repairPersistedSchedules finds
\* nothing to move.  It depends on there being no more other tasks than intervals
\* in the threshold: each may stop a tick that has not come to this one.  (An
\* agent's task may miss one more, when its failure took longer than the delay,
\* or its delivery longer than the threshold.)
NoneIsDropped ==
  \A t \in Tasks \ (Tended \cup Deferrable) :
    Class[t] = "extension" /\ phase = "up" /\ Late(row[t], t) => Running(t)

DeathsCease == <>[][~Dies]_vars

\* A task that is to run once is executed, or put off by its preflight, unless it
\* is disabled or deleted before: no crash, no stop and no repair loses it.
OneShotIsServed ==
  DeathsCease =>
    \A t \in {u \in Tasks \ Deferrable : OneShot(u)} :
      row[t].enabled /\ row[t].status = "none"
        ~> ~row[t].enabled \/ row[t].status # "none"
=============================================================================
