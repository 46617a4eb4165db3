SPECIFICATION FairRunnerSpec
CONSTANTS
  MaxJobs = 2
  Workers <- MCWorkers
  NoWorker = 0
  Keys = {k1}
  NoKey = NoKey
  Types = {"agent.message"}
  HandledTypes = {"agent.message"}
  Priorities = {0}
  MaxAttemptsOptions = {2}
  Delays = {1}
  ProgressValues = {}
  Checkpoints = {}
  NoCheckpoint = NoCheckpoint
  LeaseMs = 1
  MaxOverdue = 1
  AttemptBound = 9
  RetryBound = 1
  MaxConcurrent = 1
  MaxExecs = 2
  MaxBoots = 1
INVARIANT
  UniqueActiveKey
CHECK_DEADLOCK FALSE
