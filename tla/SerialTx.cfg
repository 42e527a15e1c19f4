SPECIFICATION Spec
CONSTANTS
  main = main
  send = send
  Writers <- TwoWriters
  Pollers = {main}
  Prio <- MCPrio
  MaxBytes = 3
INVARIANTS TypeOK BytesInOrder WakeUpOnItsWay
PROPERTIES OverrunTakesTwoWriters WriteReturns
