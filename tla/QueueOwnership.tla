--------------------------- MODULE QueueOwnership ---------------------------
(***************************************************************************)
(* Who owns a message that is being executed.  An execution owns the row   *)
(* it took, and nothing in the code tells it that the row was given to     *)
(* somebody else.  Two things give it away under an execution:             *)
(*   - the sweep, when the execution has reported nothing for MinAge;      *)
(*   - a reply that arrives when the question has had its reply.           *)
(*                                                                         *)
(* The history variable contested holds the messages to which one of these *)
(* has happened.  No step reads it.  The properties say what the processor *)
(* guarantees to every other message, whatever happened to these.          *)
(***************************************************************************)
EXTENDS QueueProcessor

VARIABLE contested

ownVars == <<vars, contested>>

\* The row goes back to 'pending' under an execution that was silent for MinAge.
SweptAlive(m) ==
  /\ Live(m) /\ Live(m)'
  /\ row[m].status = "processing" /\ row[m].updated >= MinAge
  /\ row'[m].status = "pending"

\* A reply is applied although the question has had one.
RepliedAgain(m) ==
  /\ asked[m] = "answered" /\ Replies(m)
  /\ <<row, slot, immediate>>' # <<row, slot, immediate>>

Records ==
  contested' = contested \cup {m \in Messages : SweptAlive(m) \/ RepliedAgain(m)}

OwnershipInit == Init /\ contested = {}

OwnershipSpec == OwnershipInit /\ [][Next /\ Records]_ownVars

FairOwnershipSpec == OwnershipSpec /\ Fairness

-----------------------------------------------------------------------------
(* Properties.                                                             *)

Uncontested == Messages \ contested

\* A message has at most one execution at any time, whichever of the three
\* paths started it, across retries, sweeps, replies, crashes and restarts.
OneExecution ==
  \A m \in Uncontested :
    /\ immediate[m] <= 1
    /\ \A s, t \in Slots : slot[s] = m /\ slot[t] = m => s = t
    /\ immediate[m] > 0 => \A s \in Slots : slot[s] # m

\* A live execution has its row: nobody else may claim it, and at worst the
\* sweep has dead-lettered it.
LiveIsOwned ==
  \A m \in Uncontested :
    Live(m) => row[m].status \in {"processing", "dead_letter", "dead_letter_cleared"}

\* A question is on record, without a reply, exactly as long as its message
\* waits for one or has lapsed: without the record neither a reply nor the
\* timeout could reach the message, and a record left behind would let a reply
\* revive one that is over.
QuestionIsOpen ==
  \A m \in Uncontested :
    asked[m] = "waiting" <=> row[m].status \in {"suspended", "failed"}

\* A message that is not known, or done, has no record to reply to.
NothingToReplyTo ==
  \A m \in Uncontested : row[m].status \in {"absent", "completed"} => asked[m] = "none"

\* The inductive invariant: what OneExecution rests on.
OwnershipInv ==
  /\ TypeOK /\ DownIsDead /\ contested \subseteq Messages
  /\ OneExecution /\ LiveIsOwned /\ QuestionIsOpen /\ NothingToReplyTo

\* A completed message is never executed, failed or suspended again.  No reply
\* can change that: one that is late finds nothing to reply to.
CompletedIsFinal ==
  [][\A m \in Uncontested :
       row[m].status = "completed" => row'[m].status = "completed"]_ownVars

\* Every question is resolved: a reply takes the message on, or it expires.
QuestionsResolve ==
  \A m \in Messages :
    row[m].status = "suspended" /\ m \notin contested
      ~> row[m].status # "suspended" \/ m \in contested

-----------------------------------------------------------------------------
(* The lease each message is under.                                        *)

LeaseState(m) ==
  IF m \in contested THEN "disputed" ELSE
  IF Live(m) THEN "held" ELSE
  CASE row[m].status = "absent"     -> "new"
    [] row[m].status = "pending"    -> "waiting"
    [] row[m].status = "processing" -> "orphaned"
    [] row[m].status = "suspended"  -> "parked"
    [] row[m].status = "failed"     -> "lapsed"
    [] row[m].status = "completed"  -> "done"
    [] OTHER                        -> "dead"

LeaseHolder(m) ==
  IF m \in contested THEN Nothing
  ELSE IF immediate[m] > 0 THEN "caller"
  ELSE IF \E s \in Slots : slot[s] = m THEN CHOOSE s \in Slots : slot[s] = m
  ELSE Nothing

Lease == INSTANCE MessageLease WITH
  Workers <- Slots, Caller <- "caller", Nobody <- Nothing,
  state <- [m \in Messages |-> LeaseState(m)],
  holder <- [m \in Messages |-> LeaseHolder(m)]

\* The processor, over the queue it shares with the routes and with its own
\* past lives, keeps the promise made to each message.
ImplementsLease == Lease!LeaseSpec
=============================================================================
