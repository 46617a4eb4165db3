SPECIFICATION FairRunnerSpec
CONSTANTS
  MaxJobs = 2
  Workers <- MCWorkers
  NoWorker = 0
  Keys = {}
  NoKey = NoKey
  Types = {"agent.message"}
  HandledTypes = {"agent.message"}
  Priorities = {0, 1}
  MaxAttemptsOptions = {2}
  Delays = {0}
  ProgressValues = {}
  Checkpoints = {}
  NoCheckpoint = NoCheckpoint
  LeaseMs = 3
  MaxOverdue = 1
  AttemptBound = 9
  RetryBound = 1
  MaxConcurrent = 2
  MaxExecs = 3
  MaxBoots = 1
INVARIANT
  BoundedConcurrency
CHECK_DEADLOCK FALSE
