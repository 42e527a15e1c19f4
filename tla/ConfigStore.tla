------------------------------ MODULE ConfigStore ------------------------------
(***************************************************************************)
(* The configuration in RAM and in the EEPROM (config_utils.c, SEE_i2c.c   *)
(* and their callers in main.c).  A save writes the image of a             *)
(* configuration, its bytes and then its CRC, one byte per I2C transaction *)
(* and without a lock.  The console (AT+SAVE, AT+DELO in the main thread)  *)
(* and the reset button (key thread, more urgent) both save; the power may *)
(* fail at any time.                                                       *)
(*                                                                         *)
(* The CRC is taken to be collision-free: it stands for the configuration  *)
(* it was computed from.  A thread that preempts another busy-waits in     *)
(* every loop, so it runs to the end of its save.                          *)
(***************************************************************************)
EXTENDS Naturals

CONSTANTS Main, Key,  \* the two threads that save
          Config,     \* configurations: functions from 1 .. Size to bytes
          Size,       \* sizeof(config)
          CrcSize,    \* sizeof(crc32)
          Default,    \* l_default_nbMCFG
          Junk,       \* content of a byte never written, or torn
          None

ASSUME ConfigAssumption ==
  /\ Main # Key /\ {Main, Key} \cap {"free", "stuck"} = {}
  /\ Size \in Nat \ {0} /\ CrcSize \in Nat \ {0}
  /\ \A c \in Config : c = [a \in 1 .. Size |-> c[a]]
  /\ \A c \in Config : Junk # <<"crc", c>>
  /\ Default \in Config
  /\ None \notin Config

Threads == {Main, Key}

VARIABLES power,   \* the module runs
          ram,     \* l_nbModuConfig
          eeprom,  \* its content, a byte per address
          pc,      \* where each thread is: "idle" or in save_config
          img,     \* img[t]: the configuration t is saving
          addr,    \* addr[t]: the next byte t writes
          tries,   \* tries[t]: attempts t has left, this one included
          bus,     \* the thread whose transaction holds the bus, "free", "stuck"
          alone,   \* alone[t]: no other thread wrote during t's attempt
          answer,  \* last answer to the user: what was saved, and whether alone
                    \* (NoAnswer after an ERROR or a save cut short)
          known     \* what was stored at first or has been saved since

save == <<pc, img, addr, tries, alone>>
vars == <<power, ram, eeprom, save, bus, answer, known>>

Addr == 1 .. Size + CrcSize

(* struct confSaveUnit as save_config lays it out. *)
Image(c) == [a \in Addr |-> IF a <= Size THEN c[a] ELSE <<"crc", c>>]

(* Faulty variant: read_config does not compare the CRC. *)
CrcIgnored(c) == c \in Config

(* What read_config accepts. *)
CrcMatches(c) == \A a \in Size + 1 .. Size + CrcSize : eeprom[a] = <<"crc", c>>
Bytes         == [a \in 1 .. Size |-> eeprom[a]]
Readable      == Bytes \in Config /\ CrcMatches(Bytes)

Stored == IF Readable THEN Bytes ELSE None

NoAnswer == [saved |-> None, alone |-> TRUE]

TypeOK == /\ power \in BOOLEAN
          /\ ram \in Config
          /\ DOMAIN eeprom = Addr
          /\ pc \in [Threads -> {"idle", "next", "byte"}]
          /\ img \in [Threads -> Config]
          /\ addr \in [Threads -> Addr]
          /\ tries \in [Threads -> 0 .. 3]
          /\ bus \in Threads \cup {"free", "stuck"}
          /\ alone \in [Threads -> BOOLEAN]
          /\ known \subseteq Config
          /\ answer \in [saved : Config \cup {None}, alone : BOOLEAN]

(* Off, with an EEPROM that is blank or holds some configuration. *)
Init == /\ power = FALSE
        /\ ram = Default
        /\ eeprom \in {[a \in Addr |-> Junk]} \cup {Image(c) : c \in Config}
        /\ pc = [t \in Threads |-> "idle"]
        /\ img = [t \in Threads |-> Default]
        /\ addr = [t \in Threads |-> 1]
        /\ tries = [t \in Threads |-> 0]
        /\ bus = "free"
        /\ alone = [t \in Threads |-> TRUE]
        /\ answer = NoAnswer
        /\ known = {Stored} \ {None}

CanRun(t) == power /\ (t = Main => pc[Key] = "idle")
Other(t)  == IF t = Main THEN Key ELSE Main

-----------------------------------------------------------------------------
(* load_config, before any thread runs: an I2C error or a bad CRC selects
   the default configuration. *)
Boot ==
  /\ ~power
  /\ power' = TRUE
  /\ ram' \in {IF Readable THEN Bytes ELSE Default, Default}
  /\ UNCHANGED <<eeprom, save, bus, answer, known>>

(* The AT commands that set a field of l_nbModuConfig. *)
SetConfig(c) ==
  /\ CanRun(Main) /\ pc[Main] = "idle"
  /\ ram' = c
  /\ UNCHANGED <<power, eeprom, save, bus, answer, known>>

(* A call of save_config, with the attempts its caller makes. *)
SaveStart(t, c, n) ==
  /\ CanRun(t) /\ pc[t] = "idle"
  /\ pc' = [pc EXCEPT ![t] = "next"]
  /\ img' = [img EXCEPT ![t] = c]
  /\ addr' = [addr EXCEPT ![t] = 1]
  /\ tries' = [tries EXCEPT ![t] = n]
  /\ alone' = [alone EXCEPT ![t] = TRUE]
  /\ known' = known \cup {c}
  /\ UNCHANGED <<power, eeprom, bus, answer>>

AtSave   == SaveStart(Main, ram, 3) /\ UNCHANGED ram
AtDelo   == SaveStart(Main, Default, 3) /\ ram' = Default
KeyReset == SaveStart(Key, Default, 1) /\ UNCHANGED ram

(* SEE_i2c_write waits for the bus and starts its transaction. *)
ByteStart(t) ==
  /\ CanRun(t) /\ pc[t] = "next"
  /\ bus = "free"
  /\ bus' = t
  /\ pc' = [pc EXCEPT ![t] = "byte"]
  /\ UNCHANGED <<power, ram, eeprom, img, addr, tries, alone, answer, known>>

(* Faulty variant: save_config writes one byte too many. *)
ByteDoneOffByOne(t) ==
  /\ CanRun(t) /\ pc[t] = "byte"
  /\ eeprom' = [eeprom EXCEPT ![addr[t]] = Image(img[t])[addr[t]]]
  /\ bus' = "free"
  /\ pc' = [pc EXCEPT ![t] = "next"]
  /\ addr' = [addr EXCEPT ![t] = @ + 1]
  /\ UNCHANGED <<power, ram, img, tries, alone, answer, known>>

(* STOP: the byte is written.  After the last one save_config returns 0,
   which the caller reports. *)
ByteDone(t) ==
  /\ CanRun(t) /\ pc[t] = "byte"
  /\ eeprom' = [eeprom EXCEPT ![addr[t]] = Image(img[t])[addr[t]]]
  /\ bus' = "free"
  /\ alone' = [alone EXCEPT ![Other(t)] = FALSE]
  /\ IF addr[t] < Size + CrcSize
     THEN /\ pc' = [pc EXCEPT ![t] = "next"]
          /\ addr' = [addr EXCEPT ![t] = @ + 1]
          /\ UNCHANGED answer
     ELSE /\ pc' = [pc EXCEPT ![t] = "idle"]
          /\ addr' = [addr EXCEPT ![t] = 1]
          /\ answer' = [saved |-> img[t], alone |-> alone[t]]
  /\ UNCHANGED <<power, ram, img, tries, known>>

(* Faulty variants: save_config goes on with the next byte after a failed
   one; the caller retries for ever. *)
ByteFailSkips(t) ==
  /\ CanRun(t) /\ pc[t] = "byte"
  /\ addr[t] < Size + CrcSize
  /\ addr' = [addr EXCEPT ![t] = @ + 1]
  /\ pc' = [pc EXCEPT ![t] = "next"]
  /\ bus' = "free"
  /\ UNCHANGED <<power, ram, eeprom, img, tries, alone, answer, known>>

ByteFailForEver(t) ==
  /\ CanRun(t) /\ pc[t] = "next"
  /\ addr' = [addr EXCEPT ![t] = 1]
  /\ UNCHANGED <<power, ram, eeprom, pc, img, tries, alone, bus, answer, known>>

(* A wait loop of SEE_i2c_write runs out and save_config returns non-zero.
   It happens whenever the bus is not free, and may happen at any
   transaction; a transaction given up sends no STOP, which may leave the
   bus busy for good.  The caller starts over, or answers ERROR. *)
ByteFail(t) ==
  /\ CanRun(t)
  /\ \/ pc[t] = "next" /\ UNCHANGED bus
     \/ pc[t] = "byte" /\ bus' \in {"free", "stuck"}
  /\ addr' = [addr EXCEPT ![t] = 1]
  /\ tries' = [tries EXCEPT ![t] = @ - 1]
  /\ alone' = [alone EXCEPT ![t] = TRUE]
  /\ \/ /\ tries[t] > 1
        /\ pc' = [pc EXCEPT ![t] = "next"]
        /\ UNCHANGED answer
     \/ /\ tries[t] = 1
        /\ pc' = [pc EXCEPT ![t] = "idle"]
        /\ answer' = NoAnswer
  /\ UNCHANGED <<power, ram, eeprom, img, known>>

(* Power failure or watchdog reset.  A byte being programmed may be lost. *)
Crash ==
  /\ power
  /\ power' = FALSE
  /\ \/ UNCHANGED eeprom
     \/ \E t \in Threads : /\ bus = t
                           /\ eeprom' = [eeprom EXCEPT ![addr[t]] = Junk]
  /\ bus' = "free"
  /\ pc' = [t \in Threads |-> "idle"]
  /\ addr' = [t \in Threads |-> 1]
  /\ tries' = [t \in Threads |-> 0]
  /\ answer' = IF \A t \in Threads : pc[t] = "idle" THEN answer ELSE NoAnswer
  /\ UNCHANGED <<ram, img, alone, known>>

-----------------------------------------------------------------------------
SaveStep(t) == ByteStart(t) \/ ByteDone(t) \/ ByteFail(t)

Next == \/ Boot \/ Crash
        \/ \E c \in Config : SetConfig(c)
        \/ AtSave \/ AtDelo \/ KeyReset
        \/ \E t \in Threads : SaveStep(t)

(* A save in progress goes on; the key thread, which preempts the console,
   returns to waiting for the button after every save. *)
Fairness == WF_vars(SaveStep(Key)) /\ SF_vars(SaveStep(Main))

Spec == Init /\ [][Next]_vars /\ Fairness

-----------------------------------------------------------------------------
Quiet == \A t \in Threads : pc[t] = "idle"

(* What read_config accepts is a configuration that was saved as a whole:
   neither a save cut short, nor a failed one, nor two of them writing the
   same bytes leave a mixture with a matching CRC. *)
StoresOnlyWhatWasSaved == Stored \in known \cup {None}

(* A save that was answered OK and that no other save wrote into is what
   the next boot reads, whatever failed before it, and whoever tried in
   vain to save at the same time. *)
UndisturbedSaveIsStored ==
  Quiet /\ answer.saved # None /\ answer.alone => Stored = answer.saved

(* Every save comes to an end, even when the bus stays busy for good: the
   callers retry a bounded number of times (main.c:463, 490, 1450). *)
SaveEnds == \A t \in Threads : (pc[t] # "idle") ~> (pc[t] = "idle")

(* A save that was answered OK is what the next boot reads: the manual's
   promise for AT+SAVE.  It fails when the button's save runs inside the
   console's. *)
AnsweredSaveIsStored ==
  Quiet /\ answer.saved # None => Stored = answer.saved
=============================================================================
