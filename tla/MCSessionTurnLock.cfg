SPECIFICATION FairLockSpec
CONSTANTS
  Callers = {c1, c2, c3, c4}
  Sessions = {s1, s2}
  NoSession = NoSession
INVARIANTS
  LockTypeOK
  TurnMutex
  LockedIffHeld
  QueueListsWaiters
PROPERTIES
  FirstComeFirstServed
  WaiterEventuallyRuns
