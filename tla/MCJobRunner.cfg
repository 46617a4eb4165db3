SPECIFICATION FairRunnerSpec
CONSTANTS
  MaxJobs = 2
  Workers <- MCWorkers
  NoWorker = 0
  Keys = {}
  NoKey = NoKey
  Types = {"agent.message", "unknown"}
  HandledTypes = {"agent.message"}
  Priorities = {0, 1}
  MaxAttemptsOptions = {2}
  Delays = {1}
  ProgressValues = {}
  Checkpoints = {}
  NoCheckpoint = NoCheckpoint
  LeaseMs = 1
  MaxOverdue = 1
  AttemptBound = 9
  RetryBound = 1
  MaxConcurrent = 1
  MaxExecs = 2
  MaxBoots = 2
INVARIANTS
  RunnerTypeOK
  NoOrphanLease
  ControllersInFlight
  OneHandlerAtATime
PROPERTIES
  QueuedEventuallyLeaves
  StopEventuallyDrains
  OrphanEventuallyReclaimed
CHECK_DEADLOCK FALSE
