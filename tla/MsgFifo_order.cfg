SPECIFICATION Spec
CONSTANTS
  QSize = 2
  IndexMod = 4
  main = main
  key = key
  send = send
  Producers <- MCProducers
  Sender = send
  Prio <- MCPrio
  Msg = {m1, m2}
  NoMsg = NoMsg
SYMMETRY MsgSymmetry
INVARIANTS TypeOK UnitOwnedOnce HoldsIffBusy NoLostWakeup
PROPERTIES EvictOnlyWhenNoneFree RefusedOnlyWhenAllInHand DeliversInOrder
