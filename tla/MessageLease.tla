---------------------------- MODULE MessageLease ----------------------------
(***************************************************************************)
(* What the queue promises of one message, whatever runs it: a message is  *)
(* submitted once, is held by at most one worker at a time, is parked only *)
(* by its holder, and is done or dead for good.  A worker that disappears  *)
(* leaves an orphan, which goes back to waiting or is given up.            *)
(*                                                                         *)
(* The promise ends when the message is disputed: its holder gave no sign  *)
(* of life for too long, or a reply came that no question was open for.    *)
(* What becomes of a disputed message is left open; the others keep the    *)
(* promise whatever becomes of it.                                         *)
(*                                                                         *)
(* A step may move several messages at once: a crash orphans everything    *)
(* that is held, and a sweep moves every orphan.                           *)
(***************************************************************************)
CONSTANTS
  Messages,
  Workers,   \* each holds one message at a time
  Caller,    \* stands for the callers that run a message themselves
  Nobody

\* What the theorems of MessageLease_proof assume of the constants.
LeaseAssumption == Caller \notin Workers /\ Nobody \notin Workers \cup {Caller}

VARIABLES
  state,     \* where the message is in its life
  holder     \* who executes it

leaseVars == <<state, holder>>

States == {"new", "waiting", "held", "orphaned", "parked", "lapsed", "done",
           "dead", "disputed"}

LeaseInit ==
  /\ state = [m \in Messages |-> "new"]
  /\ holder = [m \in Messages |-> Nobody]

Becomes(m, s) == state'[m] = s /\ holder'[m] = Nobody

\* A worker takes a message only while it holds none.
Take(m) ==
  /\ state'[m] = "held"
  /\ \/ holder'[m] = Caller
     \/ /\ holder'[m] \in Workers
        /\ \A n \in Messages : n # m => holder'[n] # holder'[m]
        /\ \A n \in Messages : holder[n] # holder'[m]

Stay(m) == state'[m] = state[m] /\ holder'[m] = holder[m]

Submit(m) == state[m] = "new" /\ (Becomes(m, "waiting") \/ Take(m))

Begin(m) == state[m] = "waiting" /\ Take(m)

\* The holder answers, fails, asks its user, or vanishes.
End(m) ==
  state[m] = "held" /\ \E s \in {"done", "dead", "waiting", "parked", "orphaned"} : Becomes(m, s)

Recover(m) ==
  state[m] = "orphaned" /\ (Becomes(m, "waiting") \/ Becomes(m, "dead") \/ Take(m))

\* A parked message goes on with the user's reply, whoever then runs it, or
\* the reply is late and the message lapses; a reply under way revives it.
Reply(m) ==
  /\ state[m] \in {"parked", "lapsed"}
  /\ Becomes(m, "waiting") \/ Becomes(m, "orphaned") \/ Take(m)

Lapse(m) == state[m] = "parked" /\ Becomes(m, "lapsed")

Drop(m) == state[m] = "lapsed" /\ Becomes(m, "dead")

\* Not while it waits for its user, and never when it is done.
Dispute(m) ==
  state[m] \in {"waiting", "held", "orphaned", "dead"} /\ Becomes(m, "disputed")

LeaseNext ==
  /\ state' \in [Messages -> States]
  /\ holder' \in [Messages -> Workers \cup {Caller, Nobody}]
  /\ \A m \in Messages :
       \/ Stay(m) \/ Submit(m) \/ Begin(m) \/ End(m) \/ Recover(m)
       \/ Reply(m) \/ Lapse(m) \/ Drop(m) \/ Dispute(m)

LeaseSpec == LeaseInit /\ [][LeaseNext]_leaseVars

LeaseTypeOK ==
  /\ state \in [Messages -> States]
  /\ holder \in [Messages -> Workers \cup {Caller, Nobody}]

\* A message is held exactly when somebody holds it, and a worker never holds
\* two messages: a chain or a pool entry runs one message at a time.
LeaseExclusive ==
  /\ \A m \in Messages : state[m] = "held" <=> holder[m] # Nobody
  /\ \A m, n \in Messages :
       m # n /\ holder[m] \in Workers => holder[m] # holder[n]

StaysClosed ==
  \A m \in Messages :
    /\ state[m] = "done" => state'[m] = "done"
    /\ state[m] = "dead" => state'[m] \in {"dead", "disputed"}

\* A message that is done is never worked on again, nor is one that was given
\* up, unless a late reply disputes that.
ClosedIsFinal == [][StaysClosed]_leaseVars
=============================================================================
