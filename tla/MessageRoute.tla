---------------------------- MODULE MessageRoute ----------------------------
(***************************************************************************)
(* Clients of the message routes (src/src/server/routes/messages.ts) over  *)
(* the processor.  A client posts a message and waits for the answer, or   *)
(* posts it async and asks for its status again and again.  A request that *)
(* waits too long is turned into a message for the poll loop, unless the   *)
(* message it began with is found, and its client asks on.                 *)
(***************************************************************************)
EXTENDS QueueOwnership

CONSTANTS
  Copy,   \* the message a timed-out request of each message is enqueued as
  Tight   \* is the window of the duplicate check no longer than the timeout?

ASSUME RouteAssumption ==
  /\ Copy \in [Messages -> Messages \cup {Nothing}] /\ Tight \in BOOLEAN

\* Where the client of each message is: its request is open, it asks for the
\* status, it was told something, or ("left") it asks for the copy.
VARIABLE client

routeVars == <<vars, client>>   \* what the steps change
historyVars == <<routeVars, contested>>

RouteTypeOK == client \in [Messages -> {"none", "open", "left", "polling", "told"}]

RouteInit == OwnershipInit /\ client = [m \in Messages |-> "none"]

-----------------------------------------------------------------------------
(* What a client is told.                                                  *)

\* Mutant: 'dead_letter' is not among the statuses shown as they are.
ShownNoDeadLetter(m) ==
  IF row[m].status \in {"absent", "deleted"} THEN "unknown"
  ELSE IF row[m].status \in {"failed", "suspended"} THEN row[m].status
  ELSE IF resp[m] # "none" THEN "completed"
  ELSE IF row[m].status \in {"processing", "completed"} THEN row[m].status
  ELSE "queued"

\* getMessageStatus: a stored response makes any other message "completed".
Shown(m) ==
  IF row[m].status \in {"absent", "deleted"} THEN "unknown"
  ELSE IF row[m].status \in {"failed", "dead_letter", "suspended"} THEN row[m].status
  ELSE IF resp[m] # "none" THEN "completed"
  ELSE IF row[m].status \in {"processing", "completed"} THEN row[m].status
  ELSE "queued"

\* Mutant: the client goes on with the status as it is shown.
AsksStatusRaw(m) ==
  /\ phase # "down" /\ client[m] = "polling"
  /\ Shown(m) \in {"completed", "failed", "dead_letter", "unknown"}
  /\ client' = [client EXCEPT ![m] = Shown(m)]
  /\ UNCHANGED vars

\* GET /:id, by a client that stops at the statuses the dispatcher stops at.
AsksStatus(m) ==
  /\ phase # "down" /\ client[m] = "polling"
  /\ Shown(m) \in {"completed", "failed", "dead_letter", "unknown"}
  /\ client' = [client EXCEPT ![m] = "told"]
  /\ UNCHANGED vars

-----------------------------------------------------------------------------
(* Requests.                                                               *)

\* POST /: the timer is set, then processImmediate is called.
Posts(m) ==
  /\ phase # "down" /\ client[m] = "none" /\ MsgKind[m] \in {"immediate", "team"}
  /\ client' = [client EXCEPT ![m] = "open"]
  /\ UNCHANGED vars

\* The call gets to its row, perhaps after its request has timed out.
Begins(m) ==
  /\ client[m] \in {"open", "left"} /\ EnqueueImmediate(m) /\ UNCHANGED client

\* The execution ends and the request, if it is still open, is answered.
Responds(m) ==
  /\ FinishImmediate(m)
  /\ client' = [client EXCEPT ![m] = IF @ = "open" THEN "told" ELSE @]

\* AGENT_TIMEOUT and findRecentDuplicate: the row was inserted after the timer
\* was set, by less than the timer is late when it fires or by more.  A message
\* posted async is enqueued at once, like the copy of one that never begins.
TimesOut(m) ==
  /\ phase # "down" /\ client[m] = "open"
  /\ \/ /\ row[m].status \notin {"absent", "deleted"}
        /\ client' = [client EXCEPT ![m] = "polling"]
        /\ UNCHANGED vars
     \/ /\ Tight \/ row[m].status \in {"absent", "deleted"}
        /\ Copy[m] # Nothing /\ Enqueue(Copy[m])
        /\ client' = [client EXCEPT ![m] = "left", ![Copy[m]] = "polling"]

\* The other steps; with the process go the requests that are open.
OtherSteps ==
  /\ \/ Poll \/ Cleanup \/ Tick \/ Crash \/ CrashInCleanup \/ Start
     \/ Drain \/ DrainCompletes \/ DrainTimesOut \/ Exit \/ ClearRows
     \/ \E a \in Agents : StartLink(a)
     \/ \E s \in Slots : FinishSlot(s) \/ CrashInSlot(s)
     \/ \E m \in Messages :
          \/ ReplyAsync(m) \/ ReplySync(m) \/ ApplyReply(m) \/ DropReply(m)
          \/ ReplyInConversation(m) \/ CrashInImmediate(m)
  /\ client' = [m \in Messages |->
       IF client[m] \in {"open", "left"} /\ phase' = "down" THEN "told" ELSE client[m]]

RouteNext ==
  \/ \E m \in Messages :
       Posts(m) \/ Begins(m) \/ Responds(m) \/ TimesOut(m) \/ AsksStatus(m)
  \/ OtherSteps

RouteSpec == RouteInit /\ [][RouteNext /\ Records]_historyVars

\* As in QueueProcessor; request timers fire and clients keep asking.
FairRouteSpec ==
  /\ RouteSpec /\ Fairness
  /\ \A m \in Messages : WF_routeVars(TimesOut(m)) /\ WF_routeVars(AsksStatus(m))

-----------------------------------------------------------------------------
(* Properties                                                              *)

\* Whatever the chains and the pool complete has a response: a crash between
\* the commits of an answer leaves an answered message to be done again, never
\* a completed one with nothing to show.
CompletedHasResponse ==
  [][\A s \in Slots :
       /\ slot[s] # Nothing /\ immediate[slot[s]] = 0
       /\ row[slot[s]].status # "completed" /\ row'[slot[s]].status = "completed"
       => resp'[slot[s]] # "none"]_vars

\* Every client is told something in the end, whether its request waits or it
\* asks, across timeouts, retries, questions that lapse and crashes.  Not told is
\* one whose dead letter was cleared before it asked, which is shown "queued" for
\* ever, or one whose message is contested: its question may have no record.
ClientsAreTold ==
  RepliesCease =>
    \A m \in Messages :
      Servable(m) /\ client[m] \in {"open", "polling"} ~>
        \/ client[m] \in {"told", "left"}
        \/ row[m].status = "dead_letter_cleared" \/ m \in contested
=============================================================================
