------------------------------ MODULE MCSerialTx ------------------------------
(* Two writing threads, with the priorities of the main and sender threads. *)
EXTENDS SerialTx, TLC

CONSTANTS main, send

TwoWriters == {main, send}
MCPrio == [w \in Writers |-> IF w = main THEN 2 ELSE 3]
=============================================================================
