---------------------------- MODULE MsgSenderProofs ----------------------------
(***************************************************************************)
(* Every answer in time, a message reported as sent was taken by the       *)
(* modem: for any number of messages and of faults.  Everything but the    *)
(* answers' punctuality is proved for late ones too.                       *)
(***************************************************************************)
EXTENDS MsgSender, SequenceTheorems, TLAPS

(* An exchange has one to three attempts, BC95_statusManage three rounds, and
   the exchange that sends has a message to send. *)
Placed ==
  /\ pc \in {"write", "read"} => try \in 1 .. 3
  /\ pc = "manage" \/ (pc \in {"write", "read"} /\ exch # "send") => loop <= 2
  /\ pc = "sleep" \/ (pc \in {"write", "read"} /\ exch = "send") => msg # 0

(* A command that sends a message names one. *)
SendsNameMessage == \A i \in DOMAIN cmdQ : cmdQ[i].kind = "send" => cmdQ[i].msg # 0

(* One command at a time is on its way, and only while its answer is awaited. *)
OneAtATime ==
  /\ pc # "read" => cmdQ = <<>> /\ rx = <<>>
  /\ cmdQ = <<>> \/ (cmdQ = <<[kind |-> exch, msg |-> msg]>> /\ rx = <<>>)
  /\ rx = <<>> \/ Len(rx) = 1

(* An answer other than ERROR to the command that sends a message says that
   the message has been taken. *)
AnswerIsForMessage == rx # <<>> /\ exch = "send" /\ SaysOK => msg \in accepted

SenderInv == TypeOK /\ Placed /\ SendsNameMessage
InTime == OneAtATime /\ AnswerIsForMessage /\ ReportedWasAccepted

-----------------------------------------------------------------------------
(* A constant bounds; the numbers that occur. *)
LEMMA Bounds == MaxMsgs \in Nat /\ Late \in Nat /\ MaxFaults \in Nat
  BY SenderAssumption

(* The thread begins idle, with nothing on its way. *)
LEMMA SenderInit == Init => SenderInv /\ InTime
<1> SUFFICES ASSUME Init PROVE SenderInv /\ InTime
  OBVIOUS
<1>1. <<>> \in Seq(Command) /\ <<>> \in Seq(Answer)
  OBVIOUS
<1>2. faults \in 0 .. MaxFaults
  <2>1. faults = MaxFaults \/ (MaxFaults > 0 /\ faults = MaxFaults - 1)
    BY Zenon DEF Init
  <2> QED
    BY <2>1, Bounds
<1>3. configured \in BOOLEAN
  <2>1. \/ configured = TRUE
        \/ configured \in {FALSE, {hostBaud, modemBaud} = {"cfg"}}
    BY DEF Init
  <2> QED
    BY <2>1, Zenon
<1>4. hostBaud \in {"boot", "cfg"} /\ modemBaud \in {"boot", "cfg"}
      /\ status \in DeviceStatus /\ l_devStatus \in DeviceStatus
  BY DEF Init, DeviceStatus
<1>5. alive \in BOOLEAN /\ attached \in BOOLEAN
  BY DEF Init
<1>6. /\ pc = "idle" /\ exch = "send" /\ try = 0 /\ loop = 0 /\ bc95ReConfig = FALSE
      /\ msg = 0 /\ reported = {} /\ accepted = {} /\ cmdQ = <<>> /\ rx = <<>>
  BY Zenon DEF Init
<1>7. TypeOK
  <2>1. try \in 0 .. 3 /\ loop \in 0 .. 3 /\ msg \in 0 .. MaxMsgs
    BY <1>6, Bounds
  <2>2. bc95ReConfig \in BOOLEAN /\ reported \subseteq Msgs /\ accepted \subseteq Msgs
    BY <1>6
  <2>3. pc \in {"idle", "write", "read", "manage", "managed", "sleep"} /\ exch \in Exchanges
    BY <1>6 DEF Exchanges
  <2>4. cmdQ \in Seq(Command) /\ rx \in Seq(Answer)
    BY <1>1, <1>6
  <2> QED
    BY <1>2, <1>3, <1>4, <1>5, <2>1, <2>2, <2>3, <2>4 DEF TypeOK
<1> QED
  BY <1>6, <1>7 DEF SenderInv, Placed, SendsNameMessage, InTime, OneAtATime,
              AnswerIsForMessage, ReportedWasAccepted

(* What config_bc95 and the modem's reset leave behind. *)
LEMMA ConfigType ==
  ASSUME SenderInv, (ConfiguredOk /\ ResetModem) \/ (ConfigFailed /\ ResetModem)
  PROVE  /\ hostBaud' \in {"boot", "cfg"} /\ modemBaud' \in {"boot", "cfg"}
         /\ alive' \in BOOLEAN /\ configured' \in BOOLEAN /\ attached' \in BOOLEAN
         /\ faults' \in 0 .. MaxFaults
         /\ cmdQ' = <<>> /\ rx' = <<>>
<1>1. faults' \in 0 .. MaxFaults
  <2>1. faults \in 0 .. MaxFaults
    BY DEF SenderInv, TypeOK
  <2>2. faults' = faults \/ (faults > 0 /\ faults' = faults - 1)
    BY Zenon DEF ConfiguredOk, ConfigFailed
  <2> QED
    BY <2>1, <2>2, Bounds
<1>2. configured' \in BOOLEAN
  <2>1. \/ configured' = TRUE
        \/ configured' \in {FALSE, {hostBaud', modemBaud'} = {"cfg"}}
    BY DEF ConfiguredOk, ConfigFailed
  <2> QED
    BY <2>1, Zenon
<1>3. hostBaud' \in {"boot", "cfg"} /\ modemBaud' \in {"boot", "cfg"}
  BY DEF ConfiguredOk, ConfigFailed
<1>4. alive' \in BOOLEAN /\ attached' \in BOOLEAN /\ cmdQ' = <<>> /\ rx' = <<>>
  BY DEF ResetModem
<1> QED
  BY <1>1, <1>2, <1>3, <1>4

(* The next round, from one of at most three. *)
LEMMA NextRoundType ==
  ASSUME SenderInv, loop <= 2, NEW st \in DeviceStatus, NEW again \in BOOLEAN,
         NextRound(st, again)
  PROVE  /\ pc' \in {"manage", "managed"} /\ exch' = exch /\ try' = try
         /\ loop' \in 0 .. 3 /\ (pc' = "manage" => loop' <= 2)
         /\ bc95ReConfig' \in BOOLEAN /\ status' \in DeviceStatus
<1>1. loop \in 0 .. 3
  BY DEF SenderInv, TypeOK
<1> QED
  BY <1>1 DEF NextRound

(* What the thread does after an exchange, whether it gave an answer or not:
   only a message that was sent is reported. *)
AfterExchange ==
  /\ pc' \in {"idle", "write", "manage", "managed"}
  /\ exch' \in Exchanges /\ try' \in 0 .. 3 /\ loop' \in 0 .. 3
  /\ bc95ReConfig' \in BOOLEAN /\ status' \in DeviceStatus
  /\ pc' = "write" => try' \in 1 .. 3
  /\ pc' = "manage" \/ (pc' = "write" /\ exch' # "send") => loop' <= 2
  /\ pc' = "write" /\ exch' = "send" => msg' # 0
  /\ \/ msg' = msg /\ reported' = reported
     \/ exch = "send" /\ msg' = 0 /\ reported' = reported \cup {msg}

(* A next round is one of these. *)
LEMMA AfterNextRound ==
  ASSUME SenderInv, pc = "read", exch # "send", NEW st \in DeviceStatus, NEW again \in BOOLEAN,
         NextRound(st, again), UNCHANGED <<msg, reported>>
  PROVE  AfterExchange
<1>1. loop <= 2 /\ exch \in Exchanges /\ try \in 0 .. 3
  BY DEF SenderInv, TypeOK, Placed
<1>2. /\ pc' \in {"manage", "managed"} /\ exch' = exch /\ try' = try
      /\ loop' \in 0 .. 3 /\ (pc' = "manage" => loop' <= 2)
      /\ bc95ReConfig' \in BOOLEAN /\ status' \in DeviceStatus
  BY <1>1, NextRoundType
<1> QED
  BY <1>1, <1>2 DEF AfterExchange

(* An answer that decides the exchange. *)
LEMMA SuccessType ==
  ASSUME SenderInv, pc = "read", GivesSuccess, Success
  PROVE  AfterExchange
<1>1. /\ loop \in 0 .. 3 /\ try \in 1 .. 3 /\ bc95ReConfig \in BOOLEAN /\ status \in DeviceStatus
      /\ exch \in {"send", "query", "attach", "poll"}
      /\ exch # "send" => loop <= 2
  BY DEF SenderInv, TypeOK, Placed, Exchanges
<1>2. CASE exch = "send"
  BY <1>1, <1>2 DEF Success, AfterExchange, Exchanges
<1>3. CASE exch = "attach"
  BY <1>1, <1>3 DEF Success, AfterExchange, Exchanges, StartExchange
<1>4. CASE exch = "query"
  <2>1. SaysFirst("CGATT:1") \/ SaysFirst("CGATT:0")
    BY <1>4 DEF GivesSuccess, Cgatt
  <2>2. \/ /\ status' = "DEVICEOK" /\ pc' = "managed"
           /\ UNCHANGED <<exch, try, loop, bc95ReConfig, msg, reported>>
        \/ /\ status' = "CGATTTIMEOUT" /\ StartExchange("attach")
           /\ UNCHANGED <<loop, bc95ReConfig, msg, reported>>
    BY <1>4, <2>1 DEF Success
  <2>3. "DEVICEOK" \in DeviceStatus /\ "CGATTTIMEOUT" \in DeviceStatus
        /\ "attach" \in Exchanges /\ "query" \in Exchanges
    BY DEF DeviceStatus, Exchanges
  <2> QED
    BY <1>1, <1>4, <2>2, <2>3 DEF AfterExchange, StartExchange
<1>5. CASE exch = "poll"
  <2>1. SaysFirst("CGATT:1") \/ SaysFirst("CGATT:0")
    BY <1>5 DEF GivesSuccess, Cgatt
  <2>2. CASE NextRound("DEVICEOK", FALSE) /\ UNCHANGED <<msg, reported>>
    <3>1. "DEVICEOK" \in DeviceStatus /\ exch # "send"
      BY <1>5 DEF DeviceStatus
    <3> QED
      BY <2>2, <3>1, AfterNextRound
  <2>3. CASE UNCHANGED <<loop, bc95ReConfig, status, msg, reported>> /\ StartExchange("poll")
    BY <1>1, <1>5, <2>3 DEF AfterExchange, Exchanges, StartExchange
  <2> QED
    BY <1>5, <2>1, <2>2, <2>3 DEF Success
<1> QED
  BY <1>1, <1>2, <1>3, <1>4, <1>5

(* No answer, or none that decides. *)
LEMMA NoSuccessType ==
  ASSUME SenderInv, pc = "read", NoSuccess
  PROVE  AfterExchange /\ UNCHANGED <<msg, reported>>
<1>1. /\ loop \in 0 .. 3 /\ try \in 1 .. 3 /\ bc95ReConfig \in BOOLEAN /\ status \in DeviceStatus
      /\ exch \in {"send", "query", "attach", "poll"}
      /\ exch # "send" => loop <= 2
      /\ exch = "send" => msg # 0
  BY DEF SenderInv, TypeOK, Placed, Exchanges
<1>2. UNCHANGED <<msg, reported>>
  BY DEF NoSuccess
<1>3. CASE try < 3
  BY <1>1, <1>2, <1>3 DEF NoSuccess, Retry, AfterExchange, Exchanges
<1>4. CASE ~(try < 3)
  <2>1. Failure
    BY <1>4 DEF NoSuccess
  <2>2. CASE exch = "send"
    <3>1. /\ pc' = "manage" /\ loop' = 0 /\ bc95ReConfig' = FALSE /\ status' = "DEVICEOK"
          /\ exch' = exch /\ try' = try
      BY <2>1, <2>2 DEF Failure
    <3>2. bc95ReConfig' \in BOOLEAN /\ status' \in DeviceStatus /\ exch' \in Exchanges
      BY <2>2, <3>1 DEF DeviceStatus, Exchanges
    <3> QED
      BY <1>1, <1>2, <3>1, <3>2 DEF AfterExchange
  <2>3. CASE exch = "query"
    <3>1. NextRound("CGATTTGETFAIL", TRUE)
      BY <2>1, <2>3 DEF Failure
    <3>2. "CGATTTGETFAIL" \in DeviceStatus /\ exch # "send"
      BY <2>3 DEF DeviceStatus
    <3> QED
      BY <1>2, <3>1, <3>2, AfterNextRound
  <2>4. CASE exch = "attach"
    BY <1>1, <1>2, <2>1, <2>4 DEF Failure, AfterExchange, Exchanges, StartExchange
  <2>5. CASE exch = "poll"
    <3>1. NextRound("BC95DONTWORK", TRUE)
      BY <2>1, <2>5 DEF Failure
    <3>2. "BC95DONTWORK" \in DeviceStatus /\ exch # "send"
      BY <2>5 DEF DeviceStatus
    <3> QED
      BY <1>2, <3>1, <3>2, AfterNextRound
  <2> QED
    BY <1>1, <2>2, <2>3, <2>4, <2>5
<1> QED
  BY <1>2, <1>3, <1>4

-----------------------------------------------------------------------------
(* The steps of the sender and of the modem keep the types, and every
   exchange its place. *)
LEMMA HostType ==
  ASSUME SenderInv, ReadAnswer \/ ReadNothing
  PROVE  TypeOK' /\ Placed'
<1>1. /\ pc = "read" /\ UNCHANGED <<l_devStatus, modemBaud, alive, configured, attached,
                                  hostBaud, cmdQ, accepted>>
      /\ rx' \in {rx, <<>>}
  BY DEF ReadAnswer, ReadNothing, modem
<1>2. AfterExchange /\ faults' \in 0 .. MaxFaults
  <2>1. faults \in 0 .. MaxFaults
    BY DEF SenderInv, TypeOK
  <2>2. CASE GivesSuccess /\ Success /\ UNCHANGED faults
    BY <1>1, <2>1, <2>2, SuccessType
  <2>3. CASE GivesSuccess /\ AttachTimeout
    <3>1. /\ exch = "poll" /\ faults > 0 /\ faults' = faults - 1
          /\ NextRound("CGATTTIMEOUT", TRUE) /\ UNCHANGED <<msg, reported>>
      BY <2>3 DEF AttachTimeout
    <3>2. "CGATTTIMEOUT" \in DeviceStatus /\ exch # "send"
      BY <3>1 DEF DeviceStatus
    <3>3. AfterExchange
      BY <1>1, <3>1, <3>2, AfterNextRound
    <3> QED
      BY <2>1, <3>1, <3>3, Bounds
  <2>4. CASE NoSuccess /\ UNCHANGED faults
    BY <1>1, <2>1, <2>4, NoSuccessType
  <2> QED
    BY <2>2, <2>3, <2>4 DEF ReadAnswer, ReadNothing
<1>3. msg \in 0 .. MaxMsgs /\ reported \subseteq Msgs
      /\ (exch = "send" => msg # 0)
  BY <1>1 DEF SenderInv, TypeOK, Placed
<1>4. msg' \in 0 .. MaxMsgs /\ reported' \subseteq Msgs
  <2>1. CASE msg' = msg /\ reported' = reported
    BY <1>3, <2>1
  <2>2. CASE exch = "send" /\ msg' = 0 /\ reported' = reported \cup {msg}
    <3>1. msg \in Msgs
      BY <1>3, <2>2, Bounds DEF Msgs
    <3> QED
      BY <1>3, <2>2, <3>1, Bounds
  <2> QED
    BY <1>2, <2>1, <2>2 DEF AfterExchange
<1>5. rx' \in Seq(Answer)
  <2>1. rx \in Seq(Answer) /\ <<>> \in Seq(Answer)
    BY DEF SenderInv, TypeOK
  <2> QED
    BY <1>1, <2>1
<1>6. TypeOK'
  <2>1. /\ pc' \in {"idle", "write", "read", "manage", "managed", "sleep"}
        /\ exch' \in Exchanges /\ try' \in 0 .. 3 /\ loop' \in 0 .. 3
        /\ bc95ReConfig' \in BOOLEAN /\ status' \in DeviceStatus
    BY <1>2 DEF AfterExchange
  <2> QED
    BY <1>1, <1>2, <1>4, <1>5, <2>1 DEF SenderInv, TypeOK
<1>7. Placed'
  BY <1>2 DEF AfterExchange, Placed
<1> QED
  BY <1>6, <1>7 DEF SenderInv

(* The other steps of the sender. *)
LEMMA OtherHostType ==
  ASSUME SenderInv,
         WriteCommand \/ PopMessage \/ HourlyCheck \/ ManageRound \/ Managed \/ WakeUp
  PROVE  TypeOK' /\ Placed'
<1>1. CASE WriteCommand
  <2>1. /\ pc = "write" /\ pc' = "read"
        /\ UNCHANGED <<exch, try, loop, bc95ReConfig, status, msg, reported, l_devStatus,
                       modemBaud, alive, configured, attached, hostBaud, rx, accepted, faults>>
    BY <1>1 DEF WriteCommand, modem
  <2>2. cmdQ' \in Seq(Command)
    <3> DEFINE c == [kind |-> exch, msg |-> msg]
    <3>1. c \in Command /\ cmdQ \in Seq(Command)
      BY DEF SenderInv, TypeOK, Command
    <3> HIDE DEF c
    <3>2. cmdQ' = Append(cmdQ, c) \/ cmdQ' = cmdQ
      BY <1>1 DEF WriteCommand, c
    <3> QED
      BY <3>1, <3>2, AppendProperties
  <2>3. TypeOK'
    BY <2>1, <2>2 DEF SenderInv, TypeOK
  <2> QED
    BY <2>1, <2>3 DEF SenderInv, Placed
<1>2. CASE PopMessage
  <2>1. /\ pc' = "write" /\ exch' = "send" /\ try' = 1 /\ msg' \in Msgs
        /\ UNCHANGED <<loop, bc95ReConfig, status, reported, l_devStatus, modemBaud, alive,
                       configured, attached, hostBaud, cmdQ, rx, accepted, faults>>
    BY <1>2 DEF PopMessage, StartExchange, modem
  <2>2. msg' \in 0 .. MaxMsgs /\ msg' # 0 /\ try' \in 1 .. 3 /\ try' \in 0 .. 3
        /\ exch' \in Exchanges
    BY <2>1, Bounds DEF Msgs, Exchanges
  <2>3. TypeOK'
    BY <2>1, <2>2 DEF SenderInv, TypeOK
  <2> QED
    BY <2>1, <2>2, <2>3 DEF SenderInv, Placed
<1>3. CASE HourlyCheck
  <2>1. /\ pc' = "manage" /\ loop' = 0 /\ bc95ReConfig' = FALSE /\ status' = "DEVICEOK"
        /\ UNCHANGED <<exch, try, msg, reported, l_devStatus, modemBaud, alive,
                       configured, attached, hostBaud, cmdQ, rx, accepted, faults>>
    BY <1>3 DEF HourlyCheck, modem
  <2>2. loop' \in 0 .. 3 /\ loop' <= 2 /\ status' \in DeviceStatus /\ bc95ReConfig' \in BOOLEAN
    <3>1. loop' \in 0 .. 3 /\ loop' <= 2
      BY <2>1
    <3>2. status' \in DeviceStatus
      BY <2>1 DEF DeviceStatus
    <3> QED
      BY <2>1, <3>1, <3>2, Zenon
  <2>3. TypeOK'
    BY <2>1, <2>2 DEF SenderInv, TypeOK
  <2> QED
    BY <2>1, <2>2, <2>3 DEF SenderInv, Placed
<1>4. CASE ManageRound
  <2>1. /\ pc = "manage" /\ bc95ReConfig' = FALSE
        /\ UNCHANGED <<loop, msg, reported, l_devStatus, accepted>>
    BY <1>4 DEF ManageRound
  <2>2. loop <= 2 /\ loop \in 0 .. 3
    BY <2>1 DEF SenderInv, Placed, TypeOK
  <2>3. \/ pc' = "write" /\ exch' = "query" /\ try' = 1 /\ UNCHANGED status
        \/ pc' = "managed" /\ status' = "BC95DONTWORK" /\ UNCHANGED <<exch, try>>
    BY <1>4, Zenon DEF ManageRound, StartExchange
  <2>4. /\ status' \in DeviceStatus /\ bc95ReConfig' \in BOOLEAN
        /\ exch' \in Exchanges /\ try' \in 0 .. 3
        /\ pc' \in {"idle", "write", "read", "manage", "managed", "sleep"}
    <3>1. status \in DeviceStatus /\ exch \in Exchanges /\ try \in 0 .. 3
      BY DEF SenderInv, TypeOK
    <3>2. "BC95DONTWORK" \in DeviceStatus /\ "query" \in Exchanges /\ 1 \in 0 .. 3
      BY DEF DeviceStatus, Exchanges
    <3>3. bc95ReConfig' \in BOOLEAN
      BY <2>1, Zenon
    <3> QED
      BY <2>3, <3>1, <3>2, <3>3
  <2>5. /\ hostBaud' \in {"boot", "cfg"} /\ modemBaud' \in {"boot", "cfg"}
        /\ alive' \in BOOLEAN /\ configured' \in BOOLEAN /\ attached' \in BOOLEAN
        /\ faults' \in 0 .. MaxFaults
        /\ cmdQ' \in Seq(Command) /\ rx' \in Seq(Answer)
    <3>1. CASE UNCHANGED <<modemBaud, alive, configured, attached, hostBaud, cmdQ, rx, faults>>
      BY <3>1 DEF SenderInv, TypeOK
    <3>2. CASE (ConfiguredOk /\ ResetModem) \/ (ConfigFailed /\ ResetModem)
      <4>1. <<>> \in Seq(Command) /\ <<>> \in Seq(Answer)
        OBVIOUS
      <4> QED
        BY <3>2, <4>1, ConfigType
    <3> QED
      BY <1>4, <3>1, <3>2, Zenon DEF ManageRound, modem
  <2>6. TypeOK'
    BY <2>1, <2>4, <2>5 DEF SenderInv, TypeOK
  <2>7. Placed'
    BY <2>1, <2>2, <2>3 DEF Placed
  <2> QED
    BY <2>6, <2>7 DEF SenderInv
<1>5. CASE Managed \/ WakeUp
  <2>1. UNCHANGED <<loop, bc95ReConfig, status, msg, reported, modemBaud, alive,
                    configured, attached, hostBaud, cmdQ, rx, accepted, faults>>
    BY <1>5 DEF Managed, WakeUp, modem
  <2>2. l_devStatus' \in DeviceStatus
    BY <1>5 DEF Managed, WakeUp, SenderInv, TypeOK
  <2>3. \/ pc' = "idle" /\ UNCHANGED <<exch, try>>
        \/ pc' = "write" /\ exch' = "send" /\ try' = 1 /\ msg # 0
        \/ pc' = "sleep" /\ UNCHANGED <<exch, try>> /\ msg # 0
    BY <1>5 DEF Managed, WakeUp, StartExchange, SenderInv, Placed
  <2>4. exch' \in Exchanges /\ try' \in 0 .. 3
        /\ pc' \in {"idle", "write", "read", "manage", "managed", "sleep"}
    BY <2>3 DEF SenderInv, TypeOK, Exchanges
  <2>5. TypeOK'
    BY <2>1, <2>2, <2>4 DEF SenderInv, TypeOK
  <2> QED
    BY <2>1, <2>3, <2>5 DEF SenderInv, Placed
<1> QED
  BY <1>1, <1>2, <1>3, <1>4, <1>5

(* The steps of the modem. *)
LEMMA ModemType ==
  ASSUME SenderInv, ModemAnswers \/ ModemAttaches \/ ModemFault
  PROVE  TypeOK' /\ Placed'
<1>1. UNCHANGED <<pc, exch, try, loop, bc95ReConfig, status, msg, reported, l_devStatus, hostBaud>>
  BY DEF ModemAnswers, ModemAttaches, ModemFault, host
<1>2. CASE ModemAnswers
  <2>1. /\ cmdQ # <<>> /\ cmdQ' = Tail(cmdQ) /\ rx' = Append(rx, AnswerTo(Head(cmdQ)))
        /\ UNCHANGED <<modemBaud, alive, configured, attached, faults>>
    BY <1>2 DEF ModemAnswers, modem
  <2>2. cmdQ \in Seq(Command) /\ rx \in Seq(Answer)
    BY DEF SenderInv, TypeOK
  <2>3. Head(cmdQ) \in Command /\ cmdQ' \in Seq(Command)
    BY <2>1, <2>2, HeadTailProperties
  <2>4. Head(cmdQ).kind \in Exchanges /\ Head(cmdQ).msg \in 0 .. MaxMsgs
    BY <2>3 DEF Command
  <2>5. AnswerTo(Head(cmdQ)) \in Answer
    BY <2>4 DEF AnswerTo, Answer, Exchanges
  <2>6. rx' \in Seq(Answer)
    BY <2>1, <2>2, <2>5, AppendProperties
  <2>7. accepted' \subseteq Msgs
    <3>1. accepted \subseteq Msgs
      BY DEF SenderInv, TypeOK
    <3>2. \/ Head(cmdQ).kind = "send" /\ accepted' = accepted \cup {Head(cmdQ).msg}
          \/ accepted' = accepted
      BY <1>2 DEF ModemAnswers
    <3>3. Head(cmdQ).kind = "send" => Head(cmdQ).msg # 0
      <4>1. 1 \in DOMAIN cmdQ /\ Head(cmdQ) = cmdQ[1]
        BY <2>1, <2>2
      <4> QED
        BY <4>1 DEF SenderInv, SendsNameMessage
    <3>4. Head(cmdQ).kind = "send" => Head(cmdQ).msg \in Msgs
      BY <2>4, <3>3, Bounds DEF Msgs
    <3> QED
      BY <3>1, <3>2, <3>4
  <2>8. TypeOK'
    BY <1>1, <2>1, <2>3, <2>6, <2>7 DEF SenderInv, TypeOK
  <2> QED
    BY <1>1, <2>8 DEF SenderInv, Placed
<1>3. CASE ModemAttaches
  <2>1. attached' = TRUE /\ UNCHANGED <<modemBaud, alive, configured, cmdQ, rx, accepted, faults>>
    BY <1>3 DEF ModemAttaches
  <2>2. attached' \in BOOLEAN
    BY <2>1, Zenon
  <2>3. TypeOK'
    BY <1>1, <2>1, <2>2 DEF SenderInv, TypeOK
  <2> QED
    BY <1>1, <2>3 DEF SenderInv, Placed
<1>4. CASE ModemFault
  <2>1. faults > 0 /\ faults' = faults - 1 /\ UNCHANGED <<rx, accepted>>
    BY <1>4 DEF ModemFault
  <2>2. faults' \in 0 .. MaxFaults
    BY <2>1, Bounds DEF SenderInv, TypeOK
  <2>3. attached' \in BOOLEAN
    BY <1>4, Zenon DEF ModemFault
  <2>4. /\ modemBaud' \in {"boot", "cfg"} /\ alive' \in BOOLEAN /\ configured' \in BOOLEAN
        /\ cmdQ' \in Seq(Command)
    <3>1. CASE UNCHANGED <<modemBaud, alive, configured, cmdQ>>
      BY <3>1 DEF SenderInv, TypeOK
    <3>2. CASE modemBaud' = "boot" /\ configured' = FALSE /\ cmdQ' = <<>> /\ alive' \in BOOLEAN
      <4>1. configured' \in BOOLEAN
        BY <3>2, Zenon
      <4>2. cmdQ' \in Seq(Command)
        BY <3>2
      <4> QED
        BY <3>2, <4>1, <4>2
    <3> QED
      BY <1>4, <3>1, <3>2, Zenon DEF ModemFault
  <2>5. TypeOK'
    BY <1>1, <2>1, <2>2, <2>3, <2>4 DEF SenderInv, TypeOK
  <2> QED
    BY <1>1, <2>5 DEF SenderInv, Placed
<1> QED
  BY <1>2, <1>3, <1>4

(* No step lets a command that sends nothing into the queue. *)
LEMMA SendsKept == SenderInv /\ [Next]_vars => SendsNameMessage'
<1> SUFFICES ASSUME SenderInv, [Next]_vars
             PROVE  SendsNameMessage'
  OBVIOUS
<1>1. cmdQ \in Seq(Command) /\ SendsNameMessage
  BY DEF SenderInv, TypeOK
<1>2. CASE WriteCommand
  <2> DEFINE c == [kind |-> exch, msg |-> msg]
  <2>1. cmdQ' = Append(cmdQ, c) \/ cmdQ' = cmdQ
    BY <1>2 DEF WriteCommand
  <2>2. c.kind = "send" => c.msg # 0
    BY <1>2 DEF WriteCommand, SenderInv, Placed
  <2> HIDE DEF c
  <2> QED
    BY <1>1, <2>1, <2>2 DEF SendsNameMessage
<1>3. CASE ModemAnswers
  <2>1. cmdQ # <<>> /\ cmdQ' = Tail(cmdQ)
    BY <1>3 DEF ModemAnswers
  <2>2. \A i \in DOMAIN cmdQ' : i + 1 \in DOMAIN cmdQ /\ cmdQ'[i] = cmdQ[i + 1]
    BY <1>1, <2>1
  <2> QED
    BY <1>1, <2>2 DEF SendsNameMessage
<1>4. CASE ~WriteCommand /\ ~ModemAnswers
  <2>1. cmdQ' = cmdQ \/ cmdQ' = <<>>
    <3>1. CASE ManageRound
      BY <3>1, Zenon DEF ManageRound, ResetModem
    <3>2. CASE ModemFault
      BY <3>2, Zenon DEF ModemFault
    <3>3. CASE ~ManageRound /\ ~ModemFault
      BY <1>4, <3>3 DEF Next, HostStep, ReadAnswer, ReadNothing, PopMessage, Managed, WakeUp,
                        HourlyCheck, ModemAttaches, vars
    <3> QED
      BY <3>1, <3>2, <3>3
  <2> QED
    BY <1>1, <2>1 DEF SendsNameMessage
<1> QED
  BY <1>2, <1>3, <1>4

(* So every step preserves the invariant. *)
LEMMA SenderStep == SenderInv /\ [Next]_vars => SenderInv'
<1>1. SenderInv /\ UNCHANGED vars => TypeOK' /\ Placed'
  BY DEF vars, host, modem, SenderInv, TypeOK, Placed
<1>2. SenderInv /\ [Next]_vars => TypeOK' /\ Placed'
  BY <1>1, HostType, OtherHostType, ModemType DEF Next, HostStep
<1> QED
  BY <1>2, SendsKept DEF SenderInv

-----------------------------------------------------------------------------
(* Answers in time: nothing on its way changes while no answer is awaited. *)
LEMMA NothingOnItsWay ==
  ASSUME cmdQ' = <<>>, rx' = <<>>, reported' \subseteq accepted'
  PROVE  InTime'
  BY DEF InTime, OneAtATime, AnswerIsForMessage, ReportedWasAccepted

(* The thread has written a command, its first and only one on its way. *)
LEMMA InTimeWrite ==
  ASSUME SenderInv, InTime, WriteCommand
  PROVE  InTime'
<1> DEFINE c == [kind |-> exch, msg |-> msg]
<1>1. cmdQ = <<>> /\ rx = <<>>
  BY DEF WriteCommand, InTime, OneAtATime
<1>2. /\ pc' = "read" /\ UNCHANGED <<exch, msg, rx, reported, accepted>>
      /\ cmdQ' = Append(cmdQ, c) \/ cmdQ' = cmdQ
  BY DEF WriteCommand
<1>3. cmdQ' = <<>> \/ cmdQ' = <<c>>
  <2> HIDE DEF c
  <2> QED
    BY <1>1, <1>2
<1>4. OneAtATime'
  BY <1>1, <1>2, <1>3 DEF OneAtATime
<1> QED
  BY <1>1, <1>2, <1>4 DEF InTime, AnswerIsForMessage, ReportedWasAccepted

(* The modem's answer to it. *)
LEMMA InTimeAnswer ==
  ASSUME SenderInv, InTime, ModemAnswers
  PROVE  InTime'
<1> DEFINE c == [kind |-> exch, msg |-> msg]
           a == AnswerTo(c)
<1>1. cmdQ # <<>> /\ cmdQ = <<c>> /\ rx = <<>> /\ pc = "read"
  BY DEF ModemAnswers, InTime, OneAtATime
<1>2. Head(cmdQ) = c /\ Tail(cmdQ) = <<>>
  <2> HIDE DEF c
  <2> QED
    BY <1>1
<1>3. c.kind = exch /\ c.msg = msg
  OBVIOUS
<1> HIDE DEF c
<1>4. /\ cmdQ' = <<>> /\ rx' = Append(<<>>, a) /\ UNCHANGED <<pc, exch, msg, reported>>
      /\ accepted' = IF c.kind = "send" /\ configured /\ attached
                     THEN accepted \cup {c.msg} ELSE accepted
  BY <1>1, <1>2 DEF ModemAnswers, host
<1>5. exch = "send" => a = (IF configured /\ attached THEN "OK" ELSE "ERROR")
  BY <1>3 DEF AnswerTo
<1> HIDE DEF a
<1>6. rx' = <<a>> /\ Len(rx') = 1 /\ DOMAIN rx' = {1} /\ rx'[1] = a
  BY <1>4
<1>7. OneAtATime'
  BY <1>1, <1>4, <1>6 DEF OneAtATime
<1>8. AnswerIsForMessage'
  BY <1>3, <1>4, <1>5, <1>6 DEF AnswerIsForMessage, SaysOK
<1>9. ReportedWasAccepted'
  BY <1>4 DEF InTime, ReportedWasAccepted
<1> QED
  BY <1>7, <1>8, <1>9 DEF InTime

(* The thread reads it, or, in time, finds that there is none to come. *)
LEMMA InTimeRead ==
  ASSUME SenderInv, InTime, Late = 0, ReadAnswer \/ ReadNothing
  PROVE  InTime'
<1>1. /\ pc = "read" /\ accepted' = accepted /\ reported \subseteq accepted
      /\ cmdQ' = cmdQ
  BY DEF ReadAnswer, ReadNothing, InTime, ReportedWasAccepted
<1>2. CASE ReadAnswer
  <2>1. rx # <<>> /\ rx' = <<>>
    BY <1>2 DEF ReadAnswer
  <2>2. cmdQ = <<>>
    BY <2>1 DEF InTime, OneAtATime
  <2>3. reported' \subseteq accepted
    <3>1. CASE GivesSuccess /\ Success
      <4>1. AfterExchange
        BY <1>1, <3>1, SuccessType
      <4>2. exch = "send" => msg \in accepted
        BY <2>1, <3>1 DEF GivesSuccess, InTime, AnswerIsForMessage
      <4> QED
        BY <1>1, <4>1, <4>2 DEF AfterExchange
    <3>2. CASE AttachTimeout \/ NoSuccess
      BY <1>1, <3>2 DEF AttachTimeout, NoSuccess
    <3> QED
      BY <1>2, <3>1, <3>2 DEF ReadAnswer
  <2> QED
    BY <1>1, <2>1, <2>2, <2>3, NothingOnItsWay
<1>3. CASE ReadNothing
  <2>1. rx = <<>> /\ rx' = <<>> /\ Len(cmdQ) <= 0 /\ reported' = reported
    BY <1>3 DEF ReadNothing, NoSuccess
  <2>2. cmdQ = <<>>
    BY <2>1 DEF SenderInv, TypeOK
  <2> QED
    BY <1>1, <2>1, <2>2, NothingOnItsWay
<1> QED
  BY <1>2, <1>3

(* All other steps. *)
LEMMA InTimeOther ==
  ASSUME SenderInv, InTime,
         \/ PopMessage \/ HourlyCheck \/ ManageRound \/ Managed \/ WakeUp
         \/ ModemAttaches \/ ModemFault \/ UNCHANGED vars
  PROVE  InTime'
<1>1. reported' = reported /\ accepted' = accepted /\ reported \subseteq accepted
  BY DEF PopMessage, HourlyCheck, ManageRound, Managed, WakeUp, ModemAttaches, ModemFault,
         vars, host, InTime, ReportedWasAccepted
<1>2. CASE PopMessage \/ HourlyCheck \/ Managed \/ WakeUp
  <2>1. pc # "read" /\ UNCHANGED <<cmdQ, rx>>
    BY <1>2 DEF PopMessage, HourlyCheck, Managed, WakeUp
  <2>2. cmdQ = <<>> /\ rx = <<>>
    BY <2>1 DEF InTime, OneAtATime
  <2> QED
    BY <1>1, <2>1, <2>2, NothingOnItsWay
<1>3. CASE ManageRound
  <2>1. cmdQ = <<>> /\ rx = <<>>
    BY <1>3 DEF ManageRound, InTime, OneAtATime
  <2>2. cmdQ' = <<>> /\ rx' = <<>>
    BY <1>3, <2>1, Zenon DEF ManageRound, ResetModem
  <2> QED
    BY <1>1, <2>2, NothingOnItsWay
<1>4. CASE ModemAttaches \/ ModemFault \/ UNCHANGED vars
  <2>1. UNCHANGED <<pc, exch, msg, rx, reported, accepted>> /\ cmdQ' \in {cmdQ, <<>>}
    BY <1>4 DEF ModemAttaches, ModemFault, vars, host
  <2>2. OneAtATime'
    BY <2>1 DEF InTime, OneAtATime
  <2>3. AnswerIsForMessage' /\ ReportedWasAccepted'
    BY <2>1 DEF InTime, AnswerIsForMessage, SaysOK, ReportedWasAccepted
  <2> QED
    BY <2>2, <2>3 DEF InTime
<1> QED
  BY <1>2, <1>3, <1>4

-----------------------------------------------------------------------------
(* The sender and the modem keep the types of their variables: no exchange
   has a fourth attempt, BC95_statusManage no fourth round. *)
THEOREM SenderTypeCorrect == Spec => []TypeOK
<1>1. Init => SenderInv
  BY SenderInit
<1>2. SenderInv => TypeOK
  BY DEF SenderInv
<1> QED
  BY <1>1, <1>2, SenderStep, PTL DEF Spec

(* With answers in time, the lamp reports no message (main.c:1273) that the
   modem has not taken, whatever goes wrong in the modem and the network. *)
THEOREM ReportsOnlyAccepted == Late = 0 => (Spec => []ReportedWasAccepted)
<1> SUFFICES ASSUME Late = 0
             PROVE  Spec => []ReportedWasAccepted
  OBVIOUS
<1>1. Init => SenderInv /\ InTime
  BY SenderInit
<1>2. SenderInv /\ InTime /\ [Next]_vars => (SenderInv /\ InTime)'
  BY SenderStep, InTimeWrite, InTimeAnswer, InTimeRead, InTimeOther DEF Next, HostStep
<1>3. InTime => ReportedWasAccepted
  BY DEF InTime
<1> QED
  BY <1>1, <1>2, <1>3, PTL DEF Spec
=============================================================================
