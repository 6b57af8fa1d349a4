------------------------------ MODULE Steering ------------------------------
(***************************************************************************)
(* Steers: texts that users send to an agent while it is at work           *)
(* (src/src/queue/steers.ts), composed with the processor that delivers    *)
(* them.  An execution of a chain or of the pool looks for steers when the *)
(* agent has answered, and calls the agent once more if there are any; an  *)
(* immediate execution never looks.                                        *)
(***************************************************************************)
EXTENDS QueueOwnership

CONSTANTS
  Steers,   \* ids of steers
  Urgent    \* those of priority "interrupt"

ASSUME SteeringAssumption == Urgent \subseteq Steers

VARIABLES
  steer,    \* the status of each steer's row; "late" is 'pending' past its TTL
  target,   \* the message each is for
  told,     \* times each is in the conversation's history, up to 2
  stopped,  \* slots whose agent was aborted for an urgent steer
  follows   \* slots whose agent has been called again

steerVars == <<steer, target, told, stopped, follows>>
allVars == <<vars, steerVars>>   \* what the steps change
historyVars == <<allVars, contested>>

SteerTypeOK ==
  /\ steer \in [Steers -> {"none", "pending", "late", "delivered", "expired"}]
  /\ target \in [Steers -> Messages \cup {Nothing}]
  /\ told \in [Steers -> 0 .. 2]
  /\ follows \subseteq Slots /\ stopped \subseteq Slots
  /\ \A s \in Steers : steer[s] # "none" => target[s] \in Messages

SteeringInit ==
  /\ OwnershipInit
  /\ steer = [s \in Steers |-> "none"]
  /\ target = [s \in Steers |-> Nothing]
  /\ told = [s \in Steers |-> 0]
  /\ stopped = {} /\ follows = {}

\* Mutant: a steer that was delivered or has expired is found again.
PendingForAny(m) == {s \in Steers : target[s] = m /\ steer[s] # "none"}

\* getPending: a steer past its TTL is pending until the cleanup expires it.
PendingFor(m) == {s \in Steers : target[s] = m /\ steer[s] \in {"pending", "late"}}

\* What remains of the slots' part: slots that are left are forgotten.
SlotsLeft ==
  /\ stopped' = {x \in stopped : slot'[x] = slot[x]}
  /\ follows' = {x \in follows : slot'[x] = slot[x]}

-----------------------------------------------------------------------------
(* Users                                                                   *)

\* Mutant: the steer is stored without the message resolved for it.
SteerArrivesUnaddressed(s) ==
  /\ phase # "down" /\ steer[s] = "none"
  /\ \E m \in Messages : row[m].status = "processing" /\ MsgAgent[m] # Nothing
  /\ steer' = [steer EXCEPT ![s] = "pending"]
  /\ UNCHANGED <<vars, target, told, stopped, follows>>

\* resolveActiveTaskTarget and handleSteer: the target is a message that is
\* 'processing' under an agent's name, on whatever path.
SteerArrives(s) ==
  /\ phase # "down" /\ steer[s] = "none"
  /\ \E m \in Messages :
       /\ row[m].status = "processing" /\ MsgAgent[m] # Nothing
       /\ steer' = [steer EXCEPT ![s] = "pending"]
       /\ target' = [target EXCEPT ![s] = m]
  /\ UNCHANGED <<vars, told, stopped, follows>>

\* The TTL runs out.
SteerAges(s) ==
  /\ steer[s] = "pending" /\ steer' = [steer EXCEPT ![s] = "late"]
  /\ UNCHANGED <<vars, target, told, stopped, follows>>

-----------------------------------------------------------------------------
(* Executions of a chain or of the pool                                    *)

\* onProgress finds an urgent steer and aborts the agent.  The second call of
\* the agent has a signal of its own, which nobody aborts.
Interrupts(x) ==
  /\ Executing(x) /\ x \notin follows /\ x \notin stopped
  /\ \E s \in Urgent : s \in PendingFor(slot[x])
  /\ stopped' = stopped \cup {x}
  /\ UNCHANGED <<vars, steer, target, told, follows>>

Retold(S) == [s \in Steers |-> IF s \in S /\ told[s] < 2 THEN told[s] + 1 ELSE told[s]]

Marked(S, status) == [s \in Steers |-> IF s \in S THEN status ELSE steer[s]]

\* The agent has answered and steers are waiting: the batch is put into the
\* history, each is marked, and the agent is called again.
Delivers(x) ==
  /\ Executing(x) /\ KnownAgent(slot[x]) /\ x \notin follows
  /\ PendingFor(slot[x]) # {}
  /\ told' = Retold(PendingFor(slot[x]))
  /\ steer' = Marked(PendingFor(slot[x]), "delivered")
  /\ follows' = follows \cup {x}
  /\ UNCHANGED <<vars, target, stopped>>

\* Mutant: the steers are marked before the batch is in the history.
CrashInDeliveryMarked(x) ==
  /\ Executing(x) /\ KnownAgent(slot[x]) /\ x \notin follows /\ crashes < MaxCrashes
  /\ \E S \in SUBSET PendingFor(slot[x]) : S # {} /\ steer' = Marked(S, "delivered")
  /\ UNCHANGED <<dbVars, target, told>>
  /\ LoseProcess /\ SlotsLeft

\* A crash between the commits of a delivery.
CrashInDelivery(x) ==
  /\ Executing(x) /\ KnownAgent(slot[x]) /\ x \notin follows /\ crashes < MaxCrashes
  /\ PendingFor(slot[x]) # {}
  /\ told' = Retold(PendingFor(slot[x]))
  /\ \E S \in SUBSET PendingFor(slot[x]) : steer' = Marked(S, "delivered")
  /\ UNCHANGED <<dbVars, target>>
  /\ LoseProcess /\ SlotsLeft

\* expireForMessage, when the execution has ended.
ExpireFor(m) == steer' = Marked(PendingFor(m), "expired") /\ UNCHANGED <<target, told>>

\* Mutant: the answer is stored without a look at the steers.
AnswersDeaf(x) == SlotAnswers(x) /\ ExpireFor(slot[x]) /\ SlotsLeft

\* The answer is stored when no steer is waiting, or after the second call.
Answers(x) ==
  /\ PendingFor(slot[x]) = {} \/ x \in follows
  /\ SlotAnswers(x) /\ ExpireFor(slot[x]) /\ SlotsLeft

\* Mutant: a failure forgets the steers.
FailsSilently(x) == SlotFails(x) /\ UNCHANGED <<steer, target, told>> /\ SlotsLeft

\* Either call throws, or its timeout does; an aborted agent's may.
Fails(x) == SlotFails(x) /\ ExpireFor(slot[x]) /\ SlotsLeft

\* A question, a command and an unknown agent end it without a look at the steers.
EndsOtherwise(x) ==
  /\ x \notin follows
  /\ SlotAsks(x) \/ SlotHandlesCommand(x) \/ SlotRejects(x)
  /\ UNCHANGED <<steer, target, told>> /\ SlotsLeft

-----------------------------------------------------------------------------
(* The processor's other steps                                             *)

\* Mutant: the cleanup leaves the steers alone.
CleansQueueOnly == Cleanup /\ UNCHANGED steerVars

\* cleanExpiredState also runs expirePastTtl.
Cleans ==
  /\ Cleanup
  /\ steer' = Marked({s \in Steers : steer[s] = "late"}, "expired")
  /\ UNCHANGED <<target, told, stopped, follows>>

OtherSteps ==
  /\ \/ Poll \/ Tick \/ Crash \/ CrashInCleanup \/ Start
     \/ Drain \/ DrainCompletes \/ DrainTimesOut \/ Exit \/ ClearRows
     \/ \E a \in Agents : StartLink(a)
     \/ \E x \in Slots : CrashInSlot(x)
     \/ \E m \in Messages : MessageStep(m)
  /\ UNCHANGED <<steer, target, told>> /\ SlotsLeft

SteeredSlot(x) ==
  Delivers(x) \/ Answers(x) \/ Fails(x) \/ EndsOtherwise(x)

SteeringNext ==
  \/ \E s \in Steers : SteerArrives(s) \/ SteerAges(s)
  \/ \E x \in Slots : SteeredSlot(x) \/ Interrupts(x) \/ CrashInDelivery(x)
  \/ Cleans \/ OtherSteps

SteeringSpec ==
  SteeringInit /\ [][SteeringNext /\ Records]_historyVars

\* As in QueueProcessor; time passes for the steers too.
FairSteeringSpec ==
  /\ SteeringSpec
  /\ WF_allVars(Start /\ OtherSteps) /\ WF_allVars(Cleans)
  /\ WF_allVars((DrainTimesOut \/ Exit) /\ OtherSteps)
  /\ WF_allVars(Poll /\ OtherSteps) /\ WF_allVars(Tick /\ OtherSteps)
  /\ \A a \in Agents : WF_allVars(StartLink(a) /\ OtherSteps)
  /\ \A x \in Slots : WF_allVars(SteeredSlot(x))
  /\ \A m \in Messages : WF_allVars(FinishImmediate(m) /\ OtherSteps)
  /\ \A s \in Steers : WF_allVars(SteerAges(s))

-----------------------------------------------------------------------------
(* Properties                                                              *)

\* An agent is told of a steer once, whatever fails and is tried again; only a
\* crash during the delivery can repeat it.
ToldOnce == \A s \in Steers : told[s] > 1 => crashes > 0

\* A steer that is reported delivered is in the history the next call of the
\* agent reads, even when the process is lost during the delivery.
DeliveredIsTold == \A s \in Steers : steer[s] = "delivered" => told[s] > 0

\* An answer refuses only those steers that came while the agent was already
\* answering earlier ones.
InTimeIsHeard ==
  [][\A x \in Slots, s \in Steers :
       /\ slot[x] # Nothing /\ slot'[x] = Nothing /\ row'[slot[x]].status = "completed"
       /\ s \in PendingFor(slot[x]) /\ steer'[s] = "expired"
       => x \in follows]_allVars

\* An execution that ends a message, or gives it back to be tried again, leaves
\* no steer behind for an attempt its sender knows nothing of.  (A message whose
\* agent is not configured is failed without a look at them; no run has one.)
NoneIsLeftBehind ==
  [][\A x \in Slots :
       /\ slot[x] # Nothing /\ slot'[x] = Nothing /\ phase' # "down"
       /\ row[slot[x]].status = "processing"
       /\ row'[slot[x]].status \in {"completed", "pending", "dead_letter"}
       => \A s \in PendingFor(slot[x]) : steer'[s] \notin {"pending", "late"}]_allVars

\* Every steer is delivered or refused in the end, on whatever path its message
\* is executed and whatever becomes of the process.
SteersAreSettled ==
  \A s \in Steers : steer[s] = "pending" ~> steer[s] \in {"delivered", "expired"}

\* The design: an interrupt stops the agent, which is called again at once with
\* the steer in its history.
InterruptIsHeard ==
  [][\A x \in stopped \ follows, s \in Urgent :
       s \in PendingFor(slot[x]) /\ slot'[x] = Nothing => steer'[s] # "expired"]_allVars
=============================================================================
