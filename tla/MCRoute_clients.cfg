SPECIFICATION FairRouteSpec
CONSTANTS
  e1 = e1  q1 = q1  a = a
  Nothing = Nothing
  Messages = {e1, q1}
  AgentNames = {a}
  Agents = {a}
  Leads = {a}
  Threads = {}
  MsgAgent <- AgentOf
  MsgThread <- ThreadOf
  MsgPriority <- PriorityOf
  MsgKind <- KindOf
  MinAge = 1
  WallAge = 1
  SweepAge = 1
  InputTimeout = 1
  Attempts = 2
  MaxThreads = 1
  MaxLinks = 1
  MaxImmediate = 2
  MaxCrashes = 1
  Silent = {}
  Rereply = {}
  Copy <- CopyOf
  Tight = TRUE
INVARIANT RouteTypeOK
INVARIANT OneExecution
PROPERTY CompletedHasResponse
PROPERTY ClientsAreTold
