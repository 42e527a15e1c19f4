SPECIFICATION PipeSpec
CONSTANTS
  RingSize = 2
  r = r
  w = w
  Users <- MCUsers
  PipePrio <- MCPipePrio
  Modes <- MCModes
  Impatient = {}
  MaxBlock = 2
  LastByte = 2
INVARIANT WriterWaitsOnFullPipe
CHECK_DEADLOCK FALSE
