SPECIFICATION Spec
CONSTANTS
  MaxJobs = 2
  Workers = {w1, w2}
  NoWorker = NoWorker
  Keys = {k1}
  NoKey = NoKey
  Types = {agent}
  Priorities = {0}
  MaxAttemptsOptions <- MCMaxAttempts
  Delays = {1}
  ProgressValues = {101}
  Checkpoints = {c1}
  NoCheckpoint = NoCheckpoint
  LeaseMs = 1
  MaxOverdue = 1
  AttemptBound = 2
  RetryBound = 1
INVARIANTS
  TypeOK
  LeaseOnlyWhileRunning
  LeaseWithinDuration
  DeadLetterExhausted
PROPERTIES
  NoLeaseTheft
SYMMETRY MCSymmetry
