SPECIFICATION ServicesSpec
CONSTANTS
  r = r
  w = w
  worker = worker
  c1 = c1
  c2 = c2
  d1 = d1
  d2 = d2
  d3 = d3
  RingSize = 2
  Users <- MCUsers
  PipePrio <- MCPipePrio
  Modes <- MCModes
  Impatient = {w}
  MaxBlock = 2
  LastByte = 2
  Works = {w1, w2}
  NoWork = NoWork
  Clients <- MCClients
  Worker = worker
  WorkPrio <- MCWorkPrio
  Writers <- MCWriters
  DmaPrio <- MCDmaPrio
  QSize = 2
  IndexMod = 8
  LowMark = 1
  LastBlock = 4
  MaxQueued = 3
  RxSize = 3
  Inputs <- MCInputs
  LampMax = 3
INVARIANTS ServicesTypeOK RingIsFifo ReaderNeverSleepsInVain WorkInOnePlace FindsWorkUnlessResumedLate SentInTurnUnlessDisturbed DmaReadsInOrder ConfigStaysUsable
PROPERTIES PipeIsChannel ReadReturns CancelSyncWaits QueueServes BlockedPushReturns AnswerTellsTheTruth ButtonIsShown
CHECK_DEADLOCK FALSE
