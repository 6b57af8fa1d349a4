SPECIFICATION OwnershipSpec
CONSTANTS
  q1 = q1  c1 = c1  g1 = g1  i1 = i1  e1 = e1
  a = a  b = b  ghost = ghost  x = x  y = y
  Nothing = Nothing
  Messages = {q1}
  AgentNames = {a, b, ghost}
  Agents = {a}
  Leads = {a}
  Threads = {}
  MsgAgent <- AgentOf
  MsgThread <- ThreadOf
  MsgPriority <- PriorityOf
  MsgKind <- KindOf
  MinAge = 1
  WallAge = 1
  SweepAge = 1
  InputTimeout = 1
  Attempts = 2
  MaxThreads = 1
  MaxLinks = 1
  MaxImmediate = 2
  MaxCrashes = 1
  Silent = {q1}
  Rereply = {}
PROPERTY SweepSparesLive
