------------------------------ MODULE MCServices ------------------------------
(***************************************************************************)
(* A small instance of each of the services.                               *)
(***************************************************************************)
EXTENDS Services, TLC

CONSTANTS r, w,             \* reader and writer of the pipe
          worker, c1, c2,   \* work thread and clients of the work queue
          d1, d2, d3        \* writers to the UART with DMA

MCUsers    == {r, w}
MCPipePrio == (r :> 1) @@ (w :> 2)
MCModes    == (r :> {"rd"}) @@ (w :> {"wr"})
MCClients  == {c1, c2}
MCWorkPrio == (worker :> 0) @@ (c1 :> 1) @@ (c2 :> 2)
MCWriters  == {d1, d2, d3}
MCDmaPrio  == (d1 :> 1) @@ (d2 :> 2) @@ (d3 :> 3)

(* Lines: settings accepted, refused for their range, cut short and wrapped
   into a byte; queries; a command with something after its name; a line that
   is no command; and the beginning of one without its end. *)
Line(cmd, form, args) == [cmd |-> cmd, form |-> form, args |-> args,
                          ended |-> TRUE, full |-> FALSE]
Cut(typed)  == [typed EXCEPT !.ended = FALSE]
MCInputs ==
  {Line("AT+RS232", "set", a) :
     a \in {<<9600, 257, 2>>, <<9600, 1>>, <<1200, 1, 0>>, <<9600, 3, 0>>}}
  \cup {Line("AT+IPPORT", "set", a) : a \in {<<8, 53>>, <<256, 53>>, <<8, 65536>>}}
  \cup {Line("AT+MSGS", "set", <<n>>) : n \in {-1, 0, 1, 6}}
  \cup {Line("AT+SEMO", "set", <<n>>) : n \in {1, 2}}
  \cup {Line("AT+WDT", "set", a) : a \in {<<>>, <<1>>, <<2>>}}
  \cup {Line(cmd, "query", <<>>) :
             cmd \in {"AT+VER", "AT+IMEIBD", "AT+CSQ", "AT+MSGS", "AT+SAVE"}}
  \cup {Line(cmd, "other", <<>>) :
             cmd \in {"AT+VER", "AT+IMEIBD", "AT+CSQ", "AT+MSGS", "AT+DELO", ""}}
  \cup {Cut(Line("AT+MSGS", "set", <<1>>)), Cut(Line("AT+MSGS", "query", <<>>)),
        [Cut(Line("", "other", <<>>)) EXCEPT !.full = TRUE]}
=============================================================================
