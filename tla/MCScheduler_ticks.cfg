SPECIFICATION FairSpec
CONSTANTS
  once = once cron = cron i1 = i1 i2 = i2
  Nothing = Nothing
  Tasks = {once, cron}
  Loops = {i1, i2}
  Horizon = 4
  Period <- MCPeriod
  Class <- MCClass
  Chain <- MCChain
  Stale = 1
  MaxFailures = 2
  Backoff <- MCBackoff
  Deferrable = {}
  Preflighted = {once}
  Configured = {once}
  Tended = {once}
INVARIANT TypeOK
INVARIANT NoneIsDropped
PROPERTY TicksStartWhatIsDue
PROPERTY SuccessIsFinal
PROPERTY OneShotIsServed
