------------------------------- MODULE AtConsole -------------------------------
(***************************************************************************)
(* The configuration console (main.c: ghConfig and its table of commands;  *)
(* utils.c: the checks of their arguments).  In each round the main thread *)
(* reads both user ports into one buffer, first the one and then the       *)
(* other, looks for the end of a line and calls the handler of the command *)
(* the buffer begins with, on the bytes up to that end.                    *)
(*                                                                         *)
(* A port's bytes of a round are a record: the command they begin with     *)
(* ("" for anything else), whether it is a query, a setting or has other   *)
(* bytes after its name, the integers sscanf finds behind the "=", and     *)
(* whether there is an end of line.  What comes after the first end of     *)
(* line is dropped by the code and is not represented.                     *)
(***************************************************************************)
EXTENDS Integers, Sequences

CONSTANT Inputs    \* what a port may deliver in a round, besides nothing

Queries  == {"AT+VER", "AT+IMEIBD"}
ToModem  == {"AT+CIMI", "AT+CSQ", "AT+NUESTATS", "AT+CGATT"}
Settings == {"AT+RS232", "AT+IPPORT", "AT+MSGS", "AT+SEMO", "AT+WDT"}
cmdExe   == Queries \cup ToModem \cup Settings \cup {"AT+SAVE", "AT+DELO"}

Delivery == [cmd : cmdExe \cup {""}, form : {"query", "set", "other"},
             args : Seq(Int), ended : BOOLEAN, full : BOOLEAN]

ASSUME InputsAssumption == Inputs \subseteq Delivery

VARIABLES modu,     \* l_nbModuConfig
          buf,      \* the buffer of ghConfig, or NoInput
          answer,   \* what the last round wrote to both ports
          before    \* l_nbModuConfig at the beginning of that round

consoleVars == <<modu, buf, answer, before>>

NoInput == [cmd |-> "", form |-> "other", args |-> <<>>, ended |-> FALSE,
            full |-> FALSE]

(* l_default_nbMCFG; the four bytes of an address are one here. *)
DefaultModu == [ip |-> 117, port |-> 5683, sendMode |-> 0, baudrate |-> 115200,
                stopbit |-> 1, parity |-> 0, watchdog |-> 0, msgSave |-> 5]

Baudrates   == {4800, 9600, 57600, 115200}
IpBytes     == 0 .. 255
PortNumbers == 0 .. 65535

(* What the boot can use: usart_configure, msg_init, thread_msgSend. *)
Usable(c) == /\ c.ip \in IpBytes /\ c.port \in PortNumbers
             /\ c.baudrate \in Baudrates
             /\ c.stopbit \in {1, 2} /\ c.parity \in {0, 1, 2}
             /\ c.msgSave \in 1 .. 5
             /\ c.sendMode \in {0, 1} /\ c.watchdog \in {0, 1}

Answers == {"", "OK", "ERROR", "UNDEFINED CMD", "value", "modem"}

Config == [ip : Int, port : Int, sendMode : Int, baudrate : Int, stopbit : Int,
           parity : Int, watchdog : Int, msgSave : Int]

ConsoleTypeOK == /\ modu \in Config /\ before \in Config
                 /\ buf \in Delivery
                 /\ answer \in Answers

ConsoleInit == /\ modu = DefaultModu /\ before = DefaultModu
               /\ buf = NoInput /\ answer = ""

-----------------------------------------------------------------------------
(* The bytes of the second port follow those of the first: they are dropped
   after an end of line, and otherwise lengthen the line. *)
Joined(a, b) ==
  IF a = NoInput THEN b
  ELSE IF a.ended \/ b = NoInput THEN a
  ELSE [cmd |-> a.cmd, args |-> a.args,
        form |-> IF a.form = "set" THEN "set" ELSE "other",
        ended |-> b.ended, full |-> a.full \/ b.full]

(* checkConfigRS232: the stop bits and the parity are checked as the bytes
   they are stored in. *)
SerialArgs(a) == [baudrate |-> a[1], stopbit |-> a[2] % 256, parity |-> a[3] % 256]
checkConfigRS232(a) ==
  /\ Len(a) >= 3
  /\ SerialArgs(a).baudrate \in Baudrates
  /\ SerialArgs(a).stopbit \in {1, 2} /\ SerialArgs(a).parity \in {0, 1, 2}

checkConfigIPORT(a) == Len(a) >= 2 /\ a[1] \in IpBytes /\ a[2] \in PortNumbers

(* Faulty variant: the lower bound of AT+MSGS is one too low. *)
InRangeOffByOne(cmd, n) ==
  IF cmd = "AT+MSGS" THEN n >= 0 /\ n <= 5 ELSE n >= 0 /\ n <= 1

InRange(cmd, n) ==
  IF cmd = "AT+MSGS" THEN n >= 1 /\ n <= 5 ELSE n >= 0 /\ n <= 1

(* Does a setting's handler take its arguments, and what does it store? *)
Accepted(cmd, a) ==
  CASE cmd = "AT+RS232"  -> checkConfigRS232(a)
    [] cmd = "AT+IPPORT" -> checkConfigIPORT(a)
    [] OTHER             -> Len(a) >= 1 /\ InRange(cmd, a[1])

Changed(c, cmd, a) ==
  CASE cmd = "AT+RS232"  -> [c EXCEPT !.baudrate = SerialArgs(a).baudrate,
                                      !.stopbit = SerialArgs(a).stopbit,
                                      !.parity = SerialArgs(a).parity]
    [] cmd = "AT+IPPORT" -> [c EXCEPT !.ip = a[1], !.port = a[2]]
    [] cmd = "AT+MSGS"   -> [c EXCEPT !.msgSave = a[1]]
    [] cmd = "AT+SEMO"   -> [c EXCEPT !.sendMode = a[1]]
    [] cmd = "AT+WDT"    -> [c EXCEPT !.watchdog = a[1]]

-----------------------------------------------------------------------------
(* ghConfig: a round in which one port at least has delivered something. *)
ConsoleRead(a, b) ==
  /\ buf = NoInput /\ Joined(a, b) # NoInput
  /\ buf' = Joined(a, b)
  /\ before' = modu /\ answer' = ""
  /\ UNCHANGED modu

Answer(text) == answer' = text /\ buf' = NoInput /\ UNCHANGED before

(* No end of line: only a full buffer is answered, and the next round starts
   with an empty one in any case. *)
NoEndOfLine == /\ buf # NoInput /\ ~buf.ended
               /\ Answer(IF buf.full THEN "ERROR" ELSE "")
               /\ UNCHANGED modu

UndefinedCmd == /\ buf.ended /\ buf.cmd = ""
                /\ Answer("UNDEFINED CMD") /\ UNCHANGED modu

(* A handler gets the line, and compares the whole of it with its name: the
   line is a query, a setting, or an error. *)
Calls(cmd) == buf.ended /\ buf.cmd = cmd
Value(cmd) == Calls(cmd) /\ buf.form = "query" /\ Answer("value") /\ UNCHANGED modu
Refuse(cmd) == Calls(cmd) /\ Answer("ERROR") /\ UNCHANGED modu

ATVER_cmd == \/ Value("AT+VER")
             \/ buf.form # "query" /\ Refuse("AT+VER")

ATIMEIBD_cmd == \/ Value("AT+IMEIBD")
                \/ buf.form # "query" /\ Refuse("AT+IMEIBD")

(* ATCIMI_cmd, ATCSQ_cmd, ATNUESTATS_cmd, ATCGATT_cmd: whatever the modem's
   port delivers in the next moment, or nothing, is the answer. *)
AskModem(cmd) ==
  \/ /\ Calls(cmd) /\ buf.form = "query"
     /\ Answer("modem") \/ Answer("")
     /\ UNCHANGED modu
  \/ buf.form # "query" /\ Refuse(cmd)

(* Faulty variant: AT+MSGS stores its value and then checks it. *)
StoreFirst(cmd) ==
  /\ Calls(cmd) /\ buf.form = "set"
  /\ modu' = IF Accepted(cmd, buf.args) \/ (cmd = "AT+MSGS" /\ Len(buf.args) = 1)
             THEN Changed(modu, cmd, buf.args) ELSE modu
  /\ Answer(IF Accepted(cmd, buf.args) THEN "OK" ELSE "ERROR")

Store(cmd) ==
  /\ Calls(cmd) /\ buf.form = "set"
  /\ IF Accepted(cmd, buf.args)
     THEN modu' = Changed(modu, cmd, buf.args) /\ Answer("OK")
     ELSE UNCHANGED modu /\ Answer("ERROR")

Setting(cmd) == \/ Value(cmd)
                \/ Store(cmd)
                \/ buf.form = "other" /\ Refuse(cmd)

ATRS232_cmd  == Setting("AT+RS232")
ATIPPORT_cmd == Setting("AT+IPPORT")
ATMSGS_cmd   == Setting("AT+MSGS")
ATSEMO_cmd   == Setting("AT+SEMO")
ATWDT_cmd    == Setting("AT+WDT")

(* These two do what they do whatever follows their names; whether the EEPROM
   takes the configuration is ConfigStore's affair. *)
ATSAVE_cmd == /\ Calls("AT+SAVE")
              /\ Answer("OK") \/ Answer("ERROR")
              /\ UNCHANGED modu

ATDELO_cmd == /\ Calls("AT+DELO")
              /\ modu' = DefaultModu
              /\ Answer("OK") \/ Answer("ERROR")

(* What the second port may add: nothing that matters after an end of line. *)
MayFollow(a) == IF a.ended THEN {NoInput} ELSE Inputs \cup {NoInput}

ConsoleNext ==
  \/ \E a \in Inputs \cup {NoInput} : \E b \in MayFollow(a) : ConsoleRead(a, b)
  \/ NoEndOfLine \/ UndefinedCmd
  \/ ATVER_cmd \/ ATIMEIBD_cmd \/ \E cmd \in ToModem : AskModem(cmd)
  \/ ATRS232_cmd \/ ATIPPORT_cmd \/ ATMSGS_cmd \/ ATSEMO_cmd \/ ATWDT_cmd
  \/ ATSAVE_cmd \/ ATDELO_cmd

ConsoleSpec == ConsoleInit /\ [][ConsoleNext]_consoleVars

-----------------------------------------------------------------------------
(* Whatever is typed, on whichever port and however it is cut, the next boot
   finds a configuration it can use. *)
ConfigStaysUsable == Usable(modu)

(* The configuration changes only in a round that asked for it and answers
   it, and then to what an accepted setting says; an ERROR, except that of a
   failed AT+DELO, and silence mean that nothing has changed. *)
AnswerTellsTheTruth ==
  [][\/ modu' = modu
     \/ answer' \in {"OK", "ERROR"} /\ buf.cmd = "AT+DELO" /\ modu' = DefaultModu
     \/ /\ answer' = "OK" /\ buf.form = "set"
        /\ modu' = Changed(before, buf.cmd, buf.args)
        /\ Usable(modu')]_consoleVars
=============================================================================
