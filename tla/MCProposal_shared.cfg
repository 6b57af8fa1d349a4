SPECIFICATION FairSpec
CONSTANTS
  p1 = p1  p2 = p2
  r1 = r1  r2 = r2
  Nothing = Nothing
  Proposals = {p1, p2}
  Runs = {r1, r2}
  MaxConcurrent = 1
  CronBatch = 2
  MaxRetries = 1
  Gate = TRUE
  Rails = {FALSE}
  Overrides <- MCOverrides
  MCOverridden = {"direct"}
INVARIANT TypeOK
INVARIANT OneExecution
INVARIANT ReviewingIsHeld
INVARIANT OwnerConsents
INVARIANT SlotsAreAccounted
PROPERTY ImplementsLifecycle
