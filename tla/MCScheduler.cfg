SPECIFICATION FairSpec
CONSTANTS
  once = once
  cron = cron
  s1 = s1
  Tasks = {once, cron}
  Cron = {cron}
  Sessions = {s1}
  SessionOf <- MCSessionOf
  MaxAttempts = 2
  Limits = {1, 2}
  Interactive = interactive
  MaxTurns = 1
  MaxHalts = 2
INVARIANTS
  TypeOK
  StoreAgrees
  RunningIsWatched
  OneExecutorPerSession
  AttemptsExact
  SlotsExact
PROPERTIES
  RowsLiveAsPromised
  TaskEventuallyEnds
