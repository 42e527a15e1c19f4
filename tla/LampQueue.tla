------------------------------ MODULE LampQueue ------------------------------
(***************************************************************************)
(* The orders to the middle lamp (main.c: midLight_action, midLight_entry) *)
(* and the message queue of ten between the threads that give them and the *)
(* lamp thread.  The message queue is RT-Thread's (external): rt_mq_send   *)
(* appends, rt_mq_urgent puts in front, both fail when it is full.         *)
(*                                                                         *)
(* An order is named for its occasion: "config" (the modem is configured,  *)
(* urgent, once), "message" (taken over from a user port), "sent" (to the  *)
(* network) and "button" (the default configuration is stored, urgent).    *)
(***************************************************************************)
EXTENDS Integers, Sequences

CONSTANT LampMax   \* messages of l_mq_midLight: 10

ASSUME LampAssumption == LampMax \in Nat \ {0}

VARIABLES lampq,    \* l_mq_midLight, first to last
          shown,    \* the order the lamp thread carries out, or "none"
          lpc,      \* where each thread is inside midLight_action
          started,  \* main_entry has configured the modem, the sender runs
          polling   \* the main thread runs USERCOM_direct_BC95COM

lampVars == <<lampq, shown, lpc, started, polling>>

Givers == {"key", "main", "sender"}
Orders == {"config", "message", "sent", "button"}

LampPrio == [t \in Givers |-> CASE t = "key" -> 1 [] t = "main" -> 2
                                [] t = "sender" -> 3]

LampTypeOK ==
  /\ lampq \in Seq(Orders) /\ Len(lampq) <= LampMax
  /\ shown \in Orders \cup {"none"}
  /\ lpc \in [Givers -> {"idle", "room", "again"}]
  /\ started \in BOOLEAN /\ polling \in BOOLEAN

LampInit ==
  /\ lampq = <<>> /\ shown = "none"
  /\ lpc = [t \in Givers |-> "idle"]
  /\ started = FALSE /\ polling = FALSE

LampTurn(t) == \A u \in Givers : LampPrio[u] < LampPrio[t] => lpc[u] = "idle"

UrgentOrder(t) == IF t = "key" THEN "button" ELSE "config"

-----------------------------------------------------------------------------
(* midLight_action with urgent = 0: a full queue drops the order, and no
   caller looks at the result. *)
OrderLamp(t, order) ==
  /\ LampTurn(t) /\ lpc[t] = "idle" /\ started /\ (t = "main" => ~polling)
  /\ lampq' = IF Len(lampq) < LampMax THEN Append(lampq, order) ELSE lampq
  /\ UNCHANGED <<shown, lpc, started, polling>>

(* midLight_action with urgent = 1 goes to the front; when the queue is full
   it takes the first order out and tries once more. *)
OrderUrgently(t) ==
  /\ LampTurn(t) /\ lpc[t] = "idle" /\ (t = "main" => ~started)
  /\ IF Len(lampq) < LampMax
     THEN lampq' = <<UrgentOrder(t)>> \o lampq /\ UNCHANGED lpc
     ELSE lpc' = [lpc EXCEPT ![t] = "room"] /\ UNCHANGED lampq
  /\ started' = (started \/ (t = "main" /\ Len(lampq) < LampMax))
  /\ UNCHANGED <<shown, polling>>

(* config_bc95 has failed: the status lamp shows it instead. *)
StartWithoutModem ==
  /\ LampTurn("main") /\ lpc["main"] = "idle" /\ ~started
  /\ started' = TRUE
  /\ UNCHANGED <<lampq, shown, lpc, polling>>

(* start_mode has read the name of the debug mode: the main thread gives no
   more orders, and polls the ports without ever waiting for a byte. *)
StartPolling ==
  /\ LampTurn("main") /\ lpc["main"] = "idle" /\ started
  /\ polling' = TRUE
  /\ UNCHANGED <<lampq, shown, lpc, started>>

MakeRoom(t) ==
  /\ LampTurn(t) /\ lpc[t] = "room"
  /\ lampq' = IF lampq = <<>> THEN lampq ELSE Tail(lampq)
  /\ lpc' = [lpc EXCEPT ![t] = "again"]
  /\ UNCHANGED <<shown, started, polling>>

(* Faulty variant: the order that made room for itself is forgotten. *)
OrderNoMore(t) ==
  /\ LampTurn(t) /\ lpc[t] = "again"
  /\ lpc' = [lpc EXCEPT ![t] = "idle"]
  /\ started' = (started \/ t = "main")
  /\ UNCHANGED <<lampq, shown, polling>>

OrderAgain(t) ==
  /\ LampTurn(t) /\ lpc[t] = "again"
  /\ lampq' = IF Len(lampq) < LampMax THEN <<UrgentOrder(t)>> \o lampq ELSE lampq
  /\ lpc' = [lpc EXCEPT ![t] = "idle"]
  /\ started' = (started \/ t = "main")
  /\ UNCHANGED <<shown, polling>>

(* midLight_entry, the least urgent thread: it takes an order and is busy
   with it for a while, through delays in which the others run. *)
LampIdle == \A t \in Givers : lpc[t] = "idle"

TakeOrder ==
  /\ LampIdle /\ shown = "none" /\ lampq # <<>>
  /\ shown' = Head(lampq)
  /\ lampq' = Tail(lampq)
  /\ UNCHANGED <<lpc, started, polling>>

EndOrder ==
  /\ LampIdle /\ shown # "none"
  /\ shown' = "none"
  /\ UNCHANGED <<lampq, lpc, started, polling>>

-----------------------------------------------------------------------------
UrgentStep(t) == MakeRoom(t) \/ OrderAgain(t)

LampNext == \/ \E t \in {"key", "main"} : OrderUrgently(t) \/ UrgentStep(t)
            \/ StartWithoutModem \/ StartPolling
            \/ OrderLamp("main", "message") \/ OrderLamp("sender", "sent")
            \/ TakeOrder \/ EndOrder

(* Orders are rare, a press of the button takes five seconds: again and again
   every more urgent thread waits, and a thread that can go on then does.  A
   main thread that polls waits only when a write to a UART makes it, and
   nothing says that it will write again: the lamp thread may run then, or
   never. *)
LampTakes == TakeOrder /\ ~polling
LampEnds  == EndOrder /\ ~polling

LampFairness == /\ \A t \in {"key", "main"} : SF_lampVars(UrgentStep(t))
                /\ SF_lampVars(LampTakes) /\ SF_lampVars(LampEnds)

LampSpec == LampInit /\ [][LampNext]_lampVars /\ LampFairness

-----------------------------------------------------------------------------
(* The button's order gets through whatever fills the queue: once it is given
   or has found the queue full, the lamp shows it.  The debug mode is excluded:
   there the main thread need not let the lamp thread run (main.c:661). *)
ButtonIsShown ==
  (lpc["key"] # "idle" \/ \E i \in 1 .. Len(lampq) : lampq[i] = "button")
    ~> shown = "button" \/ polling
=============================================================================
