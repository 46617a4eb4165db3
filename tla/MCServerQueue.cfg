SPECIFICATION FairSpec
CONSTANTS
  r1 = r1
  r2 = r2
  r3 = r3
  s1 = s1
  Tasks = {r1, r2, r3}
  Reads = {r3}
  Slots = {s1}
  IdSlot <- MCIdSlot
  AnySlot = AnySlot
  NoTask = NoTask
  Leavers = {r1}
  MaxNaps = 2
INVARIANTS
  TypeOK
  PlacedOnce
  YieldExclusive
  NoSleepWhileBusy
  NoLostWakeup
PROPERTIES
  OrderKept
  StopsWhenTold
  QueuedIsHandled
CHECK_DEADLOCK FALSE
