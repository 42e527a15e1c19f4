SPECIFICATION Spec
CONSTANTS
  main = main
  send = send
  Writers <- TwoWriters
  Pollers = {main}
  Prio <- MCPrio
  MaxBytes = 3
INVARIANT OneThreadSuspends
