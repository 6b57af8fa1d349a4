SPECIFICATION FairSteeringSpec
CONSTANTS
  q1 = q1  i1 = i1  a = a  s1 = s1  s2 = s2
  Nothing = Nothing
  Messages = {q1}
  AgentNames = {a}
  Agents = {a}
  Leads = {a}
  Threads = {}
  MsgAgent <- AgentOf
  MsgThread <- ThreadOf
  MsgPriority <- PriorityOf
  MsgKind <- KindOf
  MinAge = 1
  WallAge = 1
  SweepAge = 1
  InputTimeout = 1
  Attempts = 2
  MaxThreads = 1
  MaxLinks = 1
  MaxImmediate = 2
  MaxCrashes = 1
  Silent = {}
  Rereply = {}
  Steers = {s1, s2}
  Urgent = {s2}
INVARIANT SteerTypeOK
INVARIANT ToldOnce
INVARIANT DeliveredIsTold
PROPERTY InTimeIsHeard
PROPERTY NoneIsLeftBehind
PROPERTY SteersAreSettled
PROPERTY EverythingSettles
INVARIANT OneExecution
PROPERTY QuestionsResolve
