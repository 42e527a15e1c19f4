------------------------------ MODULE MCMsgFifo ------------------------------
(* The three threads of the firmware with the priorities main.c gives them. *)
EXTENDS MsgFifo, TLC

CONSTANTS main, key, send

MCProducers == {main, key}
MCPrio == main :> 2 @@ key :> 1 @@ send :> 3

MsgSymmetry == Permutations(Msg)
=============================================================================
