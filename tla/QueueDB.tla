------------------------------ MODULE QueueDB ------------------------------
(***************************************************************************)
(* The durable message queue of src/src/queue/db.ts: the SQLite tables     *)
(* messages, suspended_runs and responses, and what each query of QueueDB  *)
(* does to them.  The database outlives the process: everything here       *)
(* survives a crash.                                                       *)
(*                                                                         *)
(* Only the columns a query branches on are kept.  A timestamp column is   *)
(* the age it has now, in ticks, saturated just above the largest          *)
(* threshold it is compared with; a created_at pushed into the future by   *)
(* the retry backoff is the age -1.                                        *)
(***************************************************************************)
EXTENDS Integers, FiniteSets

CONSTANTS
  Messages,      \* message ids that may ever be enqueued
  AgentNames,    \* values the agent column takes
  Agents,        \* the configured agents
  Leads,         \* the agents that also claim untagged messages
  Threads,       \* thread ids
  Nothing,       \* SQL NULL
  MsgAgent,      \* agent column of each message
  MsgThread,     \* thread_id column of each message
  MsgPriority,   \* priority column of each message
  MinAge,        \* five minutes, in ticks
  WallAge,       \* AGENT_TIMEOUT_MS, thirty minutes
  SweepAge,      \* AGENT_TIMEOUT_MS plus five minutes of grace
  InputTimeout,  \* how long a question waits for its reply
  Attempts       \* largest maxRetries any caller passes: three

ASSUME AttributeAssumption ==
  /\ Agents \subseteq AgentNames /\ Leads \subseteq Agents
  /\ MsgAgent \in [Messages -> AgentNames \cup {Nothing}]
  /\ MsgThread \in [Messages -> Threads \cup {Nothing}]
  /\ MsgPriority \in [Messages -> 0..2]

ASSUME NothingAssumption ==
  /\ Nothing \notin Messages /\ Nothing \notin AgentNames /\ Nothing \notin Threads
  /\ AgentNames \cap Threads = {}
  /\ IsFiniteSet(Threads)

ASSUME ThresholdAssumption ==
  /\ MinAge \in Nat /\ WallAge \in Nat /\ SweepAge \in Nat
  /\ 0 < MinAge /\ MinAge <= WallAge /\ WallAge <= SweepAge
  /\ InputTimeout \in Nat \ {0}
  /\ Attempts \in Nat /\ Attempts >= 2

VARIABLES
  row,        \* messages: one row per message id
  asked,      \* suspended_runs: "none" (no row), "waiting", or "answered"
  askedAge,   \* age of suspended_runs.suspended_at
  resp        \* responses: what the row for the message's channel holds

dbVars == <<row, asked, askedAge, resp>>

Statuses == {"absent", "pending", "processing", "suspended", "completed",
             "failed", "dead_letter", "dead_letter_cleared", "deleted"}

\* retry_count is only compared with maxRetries, so it saturates at Attempts.
Row == [status : Statuses, retry : 0..Attempts,
        created : -1..(WallAge + 1), updated : 0..(SweepAge + 1)]

\* "interim" is any text but the agent's answer: its question, an error report,
\* a command's output or the notice that the question timed out.
ResponseKinds == {"none", "interim", "answer"}

DbTypeOK ==
  /\ row \in [Messages -> Row]
  /\ asked \in [Messages -> {"none", "waiting", "answered"}]
  /\ askedAge \in [Messages -> 0..InputTimeout]
  /\ resp \in [Messages -> ResponseKinds]

\* Mutant: retry_count starts one too low.
NewRowMutant(status) == [status |-> status, retry |-> -1, created |-> 0, updated |-> 0]

NewRow(status) == [status |-> status, retry |-> 0, created |-> 0, updated |-> 0]

DbInit ==
  /\ row = [m \in Messages |-> NewRow("absent")]
  /\ asked = [m \in Messages |-> "none"]
  /\ askedAge = [m \in Messages |-> 0]
  /\ resp = [m \in Messages |-> "none"]

-----------------------------------------------------------------------------
(* Rows.  updated_at is only ever read of a row that is 'processing', so   *)
(* the age is kept at 0 in every other status.  An UPDATE of a row that    *)
(* was deleted changes nothing.                                            *)

Moved(r, status) ==
  IF r.status = "deleted" THEN r ELSE [r EXCEPT !.status = status, !.updated = 0]

\* enqueueMessage: the one INSERT.
Inserted(rows, m, status) == [rows EXCEPT ![m] = NewRow(status)]

Retried(r) == IF r.retry < Attempts THEN r.retry + 1 ELSE Attempts

\* failMessage: maxRetries 0 dead-letters at once; a row that may be retried
\* has its created_at pushed past the present.
Failed(r, maxRetries) ==
  IF r.status = "deleted" THEN r
  ELSE IF r.retry + 1 >= maxRetries
    THEN [Moved(r, "dead_letter") EXCEPT !.retry = Retried(r)]
    ELSE [Moved(r, "pending") EXCEPT !.retry = Retried(r), !.created = -1]

\* The row between failMessage's two UPDATEs: created_at is not pushed yet.
FailedUndeferred(r, maxRetries) == [Failed(r, maxRetries) EXCEPT !.created = r.created]

\* Mutant: the last UPDATE does not ask for status = 'processing'.
OrphanedAnyStatus(r, maxAge, minAge) ==
  IF r.status \in {"absent", "deleted"} THEN r
  ELSE IF r.status = "processing" /\ r.updated > maxAge THEN Moved(r, "dead_letter")
  ELSE IF r.updated >= minAge THEN [Moved(r, "pending") EXCEPT !.retry = Retried(r)]
  ELSE r

\* Mutant: no wall-clock rule.
OrphanedNoWall(r, maxAge, minAge) ==
  IF r.status # "processing" THEN r
  ELSE IF r.updated > maxAge THEN Moved(r, "dead_letter")
  ELSE IF r.updated >= minAge THEN [Moved(r, "pending") EXCEPT !.retry = Retried(r)]
  ELSE r

\* The three UPDATEs of resetOrphans, in their order.
Orphaned(r, maxAge, minAge) ==
  IF r.status # "processing" THEN r
  ELSE IF (r.retry > 0 /\ r.created > WallAge) \/ r.updated > maxAge
    THEN Moved(r, "dead_letter")
  ELSE IF r.updated >= minAge
    THEN [Moved(r, "pending") EXCEPT !.retry = Retried(r)]
  ELSE r

ResetOrphans(rows, maxAge, minAge) ==
  [m \in Messages |-> Orphaned(rows[m], maxAge, minAge)]

-----------------------------------------------------------------------------
(* Claims.  ORDER BY priority DESC, created_at ASC LIMIT 1: rows that tie   *)
(* may come back in either order.                                          *)

Pending(rows) == {m \in Messages : rows[m].status = "pending"}

First(rows, S) ==
  {m \in S : \A n \in S :
      \/ MsgPriority[n] < MsgPriority[m]
      \/ MsgPriority[n] = MsgPriority[m] /\ rows[n].created <= rows[m].created}

\* Rows claimMessage selects from (and getPendingCount counts) for agent a.
ClaimableBy(rows, a) ==
  {m \in Pending(rows) :
      /\ MsgThread[m] = Nothing
      /\ MsgAgent[m] = a \/ (a \in Leads /\ MsgAgent[m] = Nothing)}

\* Rows claimThreadMessage selects from, given the threads in flight.
ClaimableThread(rows, active) ==
  {m \in Pending(rows) : MsgThread[m] # Nothing /\ MsgThread[m] \notin active}

\* Mutant: the claim reads the row and does not mark it.
ClaimedUnmarked(rows, m) == rows

Claimed(rows, m) == [rows EXCEPT ![m] = Moved(@, "processing")]

-----------------------------------------------------------------------------
(* Suspended runs and responses.                                           *)

\* Mutant: the query does not join on status = 'suspended'.
TimedOutAnyStatus(rows, ages) ==
  {m \in Messages : /\ rows[m].status # "deleted"
                    /\ asked[m] # "none"
                    /\ ages[m] >= InputTimeout}

\* Messages whose question has waited out its timeout_at.
TimedOut(rows, ages) ==
  {m \in Messages : /\ rows[m].status = "suspended"
                    /\ asked[m] # "none"
                    /\ ages[m] >= InputTimeout}

\* enqueueResponse: INSERT OR IGNORE under UNIQUE(message_id, channel).
Stored(responses, m, kind) ==
  [responses EXCEPT ![m] = IF @ = "none" THEN kind ELSE @]

-----------------------------------------------------------------------------
(* Operations the REST routes call on the queue with no processor between. *)

\* clearDeadLetters and clearDeadLetter: S is what the request names.
ClearDeadLetters(S) ==
  /\ S # {} /\ \A m \in S : row[m].status = "dead_letter"
  /\ row' = [m \in Messages |->
               IF m \in S THEN Moved(row[m], "dead_letter_cleared") ELSE row[m]]
  /\ UNCHANGED <<asked, askedAge, resp>>

\* clearFailedMessages and clearFailedMessage: DELETE, cascading to suspended_runs.
ClearFailed(S) ==
  /\ S # {} /\ \A m \in S : row[m].status = "failed"
  /\ row' = [m \in Messages |->
               IF m \in S THEN Moved(row[m], "deleted") ELSE row[m]]
  /\ asked' = [m \in Messages |-> IF m \in S THEN "none" ELSE asked[m]]
  /\ askedAge' = [m \in Messages |-> IF m \in S THEN 0 ELSE askedAge[m]]
  /\ UNCHANGED resp
=============================================================================
