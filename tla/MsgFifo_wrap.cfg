SPECIFICATION Spec
CONSTANTS
  QSize = 3
  IndexMod = 4
  main = main
  key = key
  send = send
  Producers <- MCProducers
  Sender = send
  Prio <- MCPrio
  Msg = {m1, m2}
  NoMsg = NoMsg
INVARIANT KeepsItsLength
