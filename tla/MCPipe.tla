-------------------------------- MODULE MCPipe --------------------------------
(* The pipe with one reader, more urgent, and one writer. *)
EXTENDS Pipe, TLC

CONSTANTS r, w

MCUsers    == {r, w}
MCPipePrio == (r :> 1) @@ (w :> 2)
MCModes    == (r :> {"rd"}) @@ (w :> {"wr"})
=============================================================================
