SPECIFICATION FairSpec
CONSTANTS
  r1 = r1
  r2 = r2
  r3 = r3
  s1 = s1
  Tasks = {r1, r2, r3}
  Reads = {}
  Slots = {s1}
  IdSlot <- MCIdSlot
  AnySlot = AnySlot
  NoTask = NoTask
  Leavers = {}
  MaxNaps = 0
PROPERTIES
  DeferredUntilSlotAvailable
CHECK_DEADLOCK FALSE
