-------------------------- MODULE ProposalLifecycle --------------------------
(***************************************************************************)
(* What is promised to whoever proposes or approves a change: nothing is   *)
(* worked on before it is authorised, at most one worker works on it, a    *)
(* decision against it is final, and what was merged or thrown away stays  *)
(* so.  A worker that dies gives its proposal back.                        *)
(***************************************************************************)
CONSTANTS Proposals, Workers

VARIABLES
  life,    \* where each proposal is
  workers  \* who works on it

lifeVars == <<life, workers>>

Lives == {"absent", "open", "authorised", "running", "settled", "closed", "gone"}

LifeInit ==
  /\ life = [p \in Proposals |-> "absent"]
  /\ workers = [p \in Proposals |-> {}]

Idly(p, s) == life'[p] = s /\ workers'[p] = {}

Run(p) == life'[p] = "running" /\ \E w \in Workers : workers'[p] = {w}

Stay(p) == life'[p] = life[p] /\ workers'[p] = workers[p]

Open(p) == life[p] = "absent" /\ Idly(p, "open")

\* The owner, or a review of a proposal that needs no owner, decides.
Decide(p) == life[p] = "open" /\ (Idly(p, "authorised") \/ Idly(p, "closed") \/ Run(p))

Work(p) == life[p] = "authorised" /\ (Run(p) \/ Idly(p, "settled"))

\* The worker ends, or dies.
End(p) == life[p] = "running" /\ (Idly(p, "settled") \/ Idly(p, "authorised"))

After(p) ==
  life[p] = "settled" /\ \E s \in {"authorised", "open", "closed"} : Idly(p, s)

\* A deleted proposal is never worked on again: a worker it still has ends.
Drop(p) == life[p] # "absent" /\ life'[p] = "gone" /\ workers'[p] \subseteq workers[p]

LifeNext ==
  \A p \in Proposals :
    Stay(p) \/ Open(p) \/ Decide(p) \/ Work(p) \/ End(p) \/ After(p) \/ Drop(p)

LifeSpec == LifeInit /\ [][LifeNext]_lifeVars
=============================================================================
