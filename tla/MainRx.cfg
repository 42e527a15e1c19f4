SPECIFICATION Spec
CONSTANTS
  User = user
  User485 = user485
  BufSize = 3
  FrameMax = 2
  MaxBytes = 2
  MaxCount = 1
  None = None
INVARIANTS TypeOK NoByteForgotten
PROPERTIES RingDropsOnlyOldest EveryPortIsRead PolledPortIsRead
