SPECIFICATION Spec
CONSTANTS
  a = a  b = b  r = r  m1 = m1
  Messages = {m1}
  Agents = {a, b, r}
  Remotes = {r}
  Mentions <- MCMany
  MaxRuns = 5
  MaxDepth = 2
  MaxMessages = 4
  MaxTurns = 2
  MaxPerAgent = 1
  MaxAttempts = 1
  MaxCrashes = 0
INVARIANT TypeOK
INVARIANT BudgetHolds
INVARIANT CallersWait
