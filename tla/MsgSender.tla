------------------------------- MODULE MsgSender -------------------------------
(***************************************************************************)
(* thread_msgSend and the NB-IoT modem it drives over a UART (main.c): a   *)
(* message is sent until the modem answers OK, and between series of       *)
(* failures the thread looks at the modem's network state and reconfigures *)
(* it.  Commands and answers carry no number and the receive buffer is not *)
(* flushed, so an answer belongs to whichever command is waiting when it   *)
(* is read.                                                                *)
(*                                                                         *)
(* Waiting times are not modelled: a wait ends with an answer or without   *)
(* one.  Late bounds how many unanswered commands a wait may leave behind  *)
(* (0: every answer comes in time).  MaxFaults bounds what goes wrong in   *)
(* the modem and the network, an attachment that takes longer than the     *)
(* sender waits for it included; MaxMsgs bounds the messages.              *)
(***************************************************************************)
EXTENDS Naturals, Sequences

CONSTANTS MaxMsgs, Late, MaxFaults

ASSUME SenderAssumption == {MaxMsgs, Late, MaxFaults} \subseteq Nat

VARIABLES pc,           \* where thread_msgSend is
          exch,         \* the exchange it is in: why it sends a command
          try,          \* its attempts so far in that exchange
          loop,         \* i in BC95_statusManage
          bc95ReConfig, \* there
          status,       \* there, and devStatus in thread_msgSend
          msg,          \* the message being sent, 0 if none
          reported,     \* messages whose success the lamp has shown
          l_devStatus   \* what the status lamp shows

VARIABLES hostBaud,     \* baud rate of BC95COM: "boot" (9600) or "cfg"
          modemBaud,    \* the modem's
          alive,        \* the modem runs
          configured,   \* it has its socket, or its server's address
          attached,     \* it is attached to the network
          cmdQ,         \* commands it has received and not yet answered
          rx,           \* its answers in the host's receive buffer
          accepted,     \* messages it has taken
          faults        \* what may still go wrong

host  == <<pc, exch, try, loop, bc95ReConfig, status, msg, reported, l_devStatus>>
modem == <<modemBaud, alive, configured, attached>>
vars  == <<host, modem, hostBaud, cmdQ, rx, accepted, faults>>

Msgs == 1 .. MaxMsgs
Exchanges == {"send", "query", "attach", "poll"}
DeviceStatus == {"DEVICEOK", "BC95DONTWORK", "CGATTTGETFAIL", "CGATTTIMEOUT"}
Command == [kind : Exchanges, msg : 0 .. MaxMsgs]
Answer == {"OK", "ERROR", "CGATT:1", "CGATT:0"}

TypeOK == /\ pc \in {"idle", "write", "read", "manage", "managed", "sleep"}
          /\ exch \in Exchanges
          /\ try \in 0 .. 3
          /\ loop \in 0 .. 3
          /\ bc95ReConfig \in BOOLEAN
          /\ status \in DeviceStatus /\ l_devStatus \in DeviceStatus
          /\ msg \in 0 .. MaxMsgs
          /\ reported \subseteq Msgs /\ accepted \subseteq Msgs
          /\ hostBaud \in {"boot", "cfg"} /\ modemBaud \in {"boot", "cfg"}
          /\ alive \in BOOLEAN /\ configured \in BOOLEAN /\ attached \in BOOLEAN
          /\ cmdQ \in Seq(Command) /\ rx \in Seq(Answer)
          /\ faults \in 0 .. MaxFaults

(* config_bc95: pull the reset pin, change the baud rate on both sides, read
   the IMEI and band, open the socket or set the server.  If some step gets no
   answer in time it fails, and leaves the two baud rates and the modem's
   configuration as they are by then. *)
ConfiguredOk ==
  /\ hostBaud' = "cfg" /\ modemBaud' = "cfg"
  /\ configured' = TRUE
  /\ UNCHANGED faults

ConfigFailed ==
  /\ faults > 0
  /\ faults' = faults - 1
  /\ hostBaud' \in {"boot", "cfg"} /\ modemBaud' \in {"boot", "cfg"}
  /\ configured' \in {FALSE, {hostBaud', modemBaud'} = {"cfg"}}

ResetModem == /\ alive' = TRUE
              /\ attached' = FALSE
              /\ cmdQ' = <<>> /\ rx' = <<>>

(* main_entry has configured the modem, or failed to, before it starts the
   thread. *)
Init == /\ pc = "idle" /\ exch = "send" /\ try = 0
        /\ loop = 0 /\ bc95ReConfig = FALSE /\ status = "DEVICEOK"
        /\ msg = 0 /\ reported = {} /\ accepted = {}
        /\ alive = TRUE /\ attached = FALSE
        /\ cmdQ = <<>> /\ rx = <<>>
        /\ \/ /\ hostBaud = "cfg" /\ modemBaud = "cfg" /\ configured = TRUE
              /\ faults = MaxFaults /\ l_devStatus = "DEVICEOK"
           \/ /\ MaxFaults > 0
              /\ hostBaud \in {"boot", "cfg"} /\ modemBaud \in {"boot", "cfg"}
              /\ configured \in {FALSE, {hostBaud, modemBaud} = {"cfg"}}
              /\ faults = MaxFaults - 1 /\ l_devStatus = "BC95DONTWORK"

-----------------------------------------------------------------------------
(* An exchange: write a command and read the answer, up to three times. *)
StartExchange(e) == pc' = "write" /\ exch' = e /\ try' = 1

Linked == alive /\ hostBaud = modemBaud

(* usart_write: a modem that listens at this baud rate gets the command. *)
WriteCommand ==
  /\ pc = "write"
  /\ pc' = "read"
  /\ cmdQ' = IF Linked THEN Append(cmdQ, [kind |-> exch, msg |-> msg]) ELSE cmdQ
  /\ UNCHANGED <<exch, try, loop, bc95ReConfig, status, msg, reported, l_devStatus,
                 modem, hostBaud, rx, accepted, faults>>

(* Faulty variant: any answer will do. *)
SaysAnything == rx # <<>>

(* wait_OK and wait_OK_timeout look for "OK" anywhere in what they read, and
   an answer to AT+CGATT? ends with OK too; get_CGATT looks for its own. *)
SaysOK == \E i \in DOMAIN rx : rx[i] # "ERROR"
Cgatt  == {"CGATT:0", "CGATT:1"}
SaysFirst(a) ==
  \E i \in DOMAIN rx : rx[i] = a /\ \A j \in 1 .. i - 1 : rx[j] \notin Cgatt

(* Faulty variants: the reconfiguration is never asked for; one round too
   many. *)
NextRoundNoReset(st, again) ==
  /\ again \in BOOLEAN
  /\ status' = st
  /\ bc95ReConfig' = FALSE
  /\ loop' = loop + 1
  /\ pc' = IF loop < 2 THEN "manage" ELSE "managed"
  /\ UNCHANGED <<exch, try>>

NextRoundOffByOne(st, again) ==
  /\ status' = st
  /\ bc95ReConfig' = again
  /\ loop' = loop + 1
  /\ pc' = IF loop <= 2 THEN "manage" ELSE "managed"
  /\ UNCHANGED <<exch, try>>

(* BC95_statusManage goes to its next round, or returns: the flag raised in
   the last round is dropped. *)
NextRound(st, again) ==
  /\ status' = st
  /\ bc95ReConfig' = again
  /\ loop' = loop + 1
  /\ pc' = IF loop < 2 THEN "manage" ELSE "managed"
  /\ UNCHANGED <<exch, try>>

(* What follows an exchange that succeeded. *)
Success ==
  CASE exch = "send" ->
         /\ pc' = "idle"
         /\ reported' = reported \cup {msg}
         /\ msg' = 0
         /\ UNCHANGED <<exch, try, loop, bc95ReConfig, status>>
    [] exch = "query" /\ SaysFirst("CGATT:1") ->
         /\ status' = "DEVICEOK"
         /\ pc' = "managed"
         /\ UNCHANGED <<exch, try, loop, bc95ReConfig, msg, reported>>
    [] exch = "query" /\ SaysFirst("CGATT:0") ->
         /\ status' = "CGATTTIMEOUT"
         /\ StartExchange("attach")
         /\ UNCHANGED <<loop, bc95ReConfig, msg, reported>>
    [] exch = "attach" ->
         /\ StartExchange("poll")
         /\ UNCHANGED <<loop, bc95ReConfig, status, msg, reported>>
    [] exch = "poll" /\ SaysFirst("CGATT:1") ->
         /\ NextRound("DEVICEOK", FALSE)
         /\ UNCHANGED <<msg, reported>>
    [] exch = "poll" /\ SaysFirst("CGATT:0") ->
         /\ UNCHANGED <<loop, bc95ReConfig, status, msg, reported>>
         /\ StartExchange("poll")

(* The modem has not attached in the one or two minutes it is given. *)
AttachTimeout ==
  /\ exch = "poll" /\ SaysFirst("CGATT:0")
  /\ faults > 0
  /\ faults' = faults - 1
  /\ NextRound("CGATTTIMEOUT", TRUE)
  /\ UNCHANGED <<msg, reported>>

(* What follows one that failed three times. *)
Failure ==
  CASE exch = "send" ->
         /\ pc' = "manage" /\ loop' = 0 /\ bc95ReConfig' = FALSE
         /\ status' = "DEVICEOK"
         /\ UNCHANGED <<exch, try>>
    [] exch = "query" -> NextRound("CGATTTGETFAIL", TRUE)
    [] exch = "attach" ->
         StartExchange("poll") /\ UNCHANGED <<loop, bc95ReConfig, status>>
    [] exch = "poll" -> NextRound("BC95DONTWORK", TRUE)

Retry == /\ pc' = "write" /\ try' = try + 1
         /\ UNCHANGED <<exch, loop, bc95ReConfig, status>>

NoSuccess == /\ IF try < 3 THEN Retry ELSE Failure
             /\ UNCHANGED <<msg, reported>>

GivesSuccess == IF exch \in {"send", "attach"} THEN SaysOK
                                              ELSE \E a \in Cgatt : SaysFirst(a)

(* usart_read takes everything that has arrived. *)
ReadAnswer ==
  /\ pc = "read"
  /\ rx # <<>>
  /\ rx' = <<>>
  /\ \/ GivesSuccess /\ Success /\ UNCHANGED faults
     \/ GivesSuccess /\ AttachTimeout
     \/ ~GivesSuccess /\ NoSuccess /\ UNCHANGED faults
  /\ UNCHANGED <<l_devStatus, modem, hostBaud, cmdQ, accepted>>

(* The wait ends with nothing to read. *)
ReadNothing ==
  /\ pc = "read"
  /\ rx = <<>>
  /\ Len(cmdQ) <= Late
  /\ NoSuccess
  /\ UNCHANGED <<l_devStatus, modem, hostBaud, cmdQ, rx, accepted, faults>>

-----------------------------------------------------------------------------
(* msg_pop returns a message. *)
PopMessage ==
  /\ pc = "idle"
  /\ \E m \in Msgs \ reported : \A n \in Msgs \ reported : m <= n /\ msg' = m
  /\ StartExchange("send")
  /\ UNCHANGED <<loop, bc95ReConfig, status, reported, l_devStatus,
                 modem, hostBaud, cmdQ, rx, accepted, faults>>

(* msg_pop times out and the last check is an hour ago. *)
HourlyCheck ==
  /\ pc = "idle"
  /\ pc' = "manage"
  /\ loop' = 0 /\ bc95ReConfig' = FALSE /\ status' = "DEVICEOK"
  /\ UNCHANGED <<exch, try, msg, reported, l_devStatus,
                 modem, hostBaud, cmdQ, rx, accepted, faults>>

(* A round of BC95_statusManage: reconfigure the modem if the last round
   asked for it, then ask for the network state. *)
ManageRound ==
  /\ pc = "manage"
  /\ bc95ReConfig' = FALSE
  /\ \/ /\ ~bc95ReConfig
        /\ StartExchange("query")
        /\ UNCHANGED <<status, modem, hostBaud, cmdQ, rx, faults>>
     \/ /\ bc95ReConfig
        /\ ResetModem
        /\ \/ ConfiguredOk /\ StartExchange("query") /\ UNCHANGED status
           \/ /\ ConfigFailed
              /\ status' = "BC95DONTWORK"
              /\ pc' = "managed"
              /\ UNCHANGED <<exch, try>>
  /\ UNCHANGED <<loop, msg, reported, l_devStatus, accepted>>

(* Faulty variant: the lamp is set only when something is wrong. *)
ManagedShowsFailures ==
  /\ pc = "managed"
  /\ l_devStatus' = IF status = "DEVICEOK" THEN l_devStatus ELSE status
  /\ \/ msg = 0 /\ pc' = "idle" /\ UNCHANGED <<exch, try>>
     \/ msg # 0 /\ StartExchange("send")
  /\ UNCHANGED <<loop, bc95ReConfig, status, msg, reported,
                 modem, hostBaud, cmdQ, rx, accepted, faults>>

(* BC95_statusManage has returned: setDevicStatus; a message in hand is
   tried again, after 2^failTimes minutes if the modem is not well. *)
Managed ==
  /\ pc = "managed"
  /\ l_devStatus' = status
  /\ \/ msg = 0 /\ pc' = "idle" /\ UNCHANGED <<exch, try>>
     \/ msg # 0 /\ status = "DEVICEOK" /\ StartExchange("send")
     \/ msg # 0 /\ status # "DEVICEOK" /\ pc' = "sleep" /\ UNCHANGED <<exch, try>>
  /\ UNCHANGED <<loop, bc95ReConfig, status, msg, reported,
                 modem, hostBaud, cmdQ, rx, accepted, faults>>

WakeUp ==
  /\ pc = "sleep"
  /\ StartExchange("send")
  /\ UNCHANGED <<loop, bc95ReConfig, status, msg, reported, l_devStatus,
                 modem, hostBaud, cmdQ, rx, accepted, faults>>

-----------------------------------------------------------------------------
(* The modem answers its commands in order.  It takes a message when it is
   configured and attached, and refuses it otherwise. *)
AnswerTo(c) ==
  CASE c.kind = "send" -> IF configured /\ attached THEN "OK" ELSE "ERROR"
    [] c.kind = "attach" -> "OK"
    [] c.kind \in {"query", "poll"} -> IF attached THEN "CGATT:1" ELSE "CGATT:0"

ModemAnswers ==
  /\ cmdQ # <<>>
  /\ cmdQ' = Tail(cmdQ)
  /\ rx' = Append(rx, AnswerTo(Head(cmdQ)))
  /\ accepted' = IF Head(cmdQ).kind = "send" /\ configured /\ attached
                 THEN accepted \cup {Head(cmdQ).msg} ELSE accepted
  /\ UNCHANGED <<host, modem, hostBaud, faults>>

ModemAttaches ==
  /\ alive /\ ~attached
  /\ attached' = TRUE
  /\ UNCHANGED <<host, modemBaud, alive, configured, hostBaud, cmdQ, rx, accepted, faults>>

(* It loses the network, restarts by itself, or hangs until it is reset. *)
ModemFault ==
  /\ faults > 0 /\ alive
  /\ faults' = faults - 1
  /\ attached' = FALSE
  /\ \/ UNCHANGED <<modemBaud, alive, configured, cmdQ>>
     \/ /\ modemBaud' = "boot" /\ configured' = FALSE /\ cmdQ' = <<>>
        /\ alive' \in BOOLEAN
  /\ UNCHANGED <<host, hostBaud, rx, accepted>>

-----------------------------------------------------------------------------
HostStep == WriteCommand \/ ReadAnswer \/ ReadNothing \/ PopMessage
            \/ ManageRound \/ Managed \/ WakeUp

Next == HostStep \/ HourlyCheck \/ ModemAnswers \/ ModemAttaches \/ ModemFault

(* The thread runs, an hour passes, the modem answers what it has received
   and finds the network again. *)
Fairness == /\ WF_vars(HostStep) /\ WF_vars(HourlyCheck)
            /\ WF_vars(ModemAnswers) /\ WF_vars(ModemAttaches)

Spec == Init /\ [][Next]_vars /\ Fairness

-----------------------------------------------------------------------------
(* A message reported as sent (the lamp at main.c:1273) was taken by the
   modem. *)
ReportedWasAccepted == reported \subseteq accepted

(* "Send failure enters the state check and recovery" (main.c:1254): once
   nothing goes wrong any more, the message in hand is sent. *)
EveryMessageIsSent == \A m \in Msgs : (msg = m) ~> (m \in reported)

(* The one state the recovery does not leave: the modem runs, answers at the
   host's baud rate and is attached, so that BC95_statusManage finds nothing
   to repair, but has no socket or server address. *)
Unconfigured == Linked /\ attached /\ ~configured

(* The message in hand is sent, or the recovery ends in that state; it never
   gives up, and never waits for ever, in any other one. *)
SentUnlessUnconfigured ==
  \A m \in Msgs : (msg = m) ~> (m \in reported \/ Unconfigured)

(* Once nothing goes wrong any more, the status lamp ends up saying so,
   whatever it showed at the end of the last failure: l_devStatus is only
   set after a failure and by the hourly check (main.c:1259, 1284). *)
LampRecovers == <>[](l_devStatus = "DEVICEOK")
=============================================================================
