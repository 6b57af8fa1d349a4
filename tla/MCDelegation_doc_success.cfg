SPECIFICATION Spec
CONSTANTS
  a = a  b = b  r = r  m1 = m1
  Messages = {m1}
  Agents = {a}
  Remotes = {}
  Mentions <- MCOne
  MaxRuns = 4
  MaxDepth = 1
  MaxMessages = 2
  MaxTurns = 1
  MaxPerAgent = 1
  MaxAttempts = 1
  MaxCrashes = 0
INVARIANT SuccessIsReported
