--------------------------- MODULE ConfigStoreProofs ---------------------------
(***************************************************************************)
(* What the EEPROM holds is a configuration that was saved as a whole, and *)
(* a save that nobody wrote into is the one that is read at the next boot: *)
(* for any sizes of configuration and CRC, any configurations, failures of *)
(* the bus and of the power at any byte.                                   *)
(***************************************************************************)
EXTENDS ConfigStore, TLAPS

CrcAddr == Size + 1 .. Size + CrcSize

(* A byte of a CRC comes from a configuration that was saved. *)
CrcIsOfKnown == \A a \in CrcAddr, c \in Config :
                  eeprom[a] = <<"crc", c>> => c \in known

(* What is being saved counts as saved: a part of it may stay behind. *)
SavingIsKnown == \A t \in Threads : pc[t] # "idle" => img[t] \in known

(* The bus is in the hands of the thread whose transaction it is. *)
BusHeld == \A t \in Threads : bus = t <=> pc[t] = "byte"

(* As long as no other thread wrote during an attempt, what it has written
   is still there. *)
WrittenSoFar == \A t \in Threads :
                  pc[t] # "idle" /\ alone[t] =>
                    \A a \in Addr : a < addr[t] => eeprom[a] = Image(img[t])[a]

(* Between saves the answer given last, if nobody disturbed it, describes
   every byte. *)
AnswerIsImage == Quiet /\ answer.saved # None /\ answer.alone =>
                   \A a \in Addr : eeprom[a] = Image(answer.saved)[a]

IInv == TypeOK /\ CrcIsOfKnown /\ SavingIsKnown /\ BusHeld /\ WrittenSoFar
        /\ AnswerIsImage

-----------------------------------------------------------------------------
(* The addresses of the image, and of its CRC. *)
LEMMA Addresses ==
  /\ 1 \in Addr /\ CrcAddr \subseteq Addr /\ Size + CrcSize \in Addr
  /\ Addr \subseteq Nat
  /\ \A a \in Addr : a < Size + CrcSize => a + 1 \in Addr
  /\ \A a \in Addr : ~(a < Size + CrcSize) => a = Size + CrcSize
  /\ \A a, b \in Addr : a < b + 1 => a = b \/ a < b
  BY ConfigAssumption DEF Addr, CrcAddr

(* The answer before any save, and after a failed one. *)
LEMMA NoAnswerTyped == /\ NoAnswer \in [saved : Config \cup {None}, alone : BOOLEAN]
                       /\ NoAnswer.saved = None
  BY DEF NoAnswer

(* The cells of an image. *)
LEMMA ImageCells ==
  ASSUME NEW c \in Config
  PROVE  /\ DOMAIN Image(c) = Addr
         /\ \A a \in Addr : Image(c)[a] = IF a <= Size THEN c[a] ELSE <<"crc", c>>
         /\ \A a \in CrcAddr : a \in Addr /\ Image(c)[a] = <<"crc", c>>
  BY ConfigAssumption DEF Image, CrcAddr, Addr

(* An EEPROM that holds an image is read as its configuration. *)
LEMMA ImageIsRead ==
  ASSUME NEW c \in Config, \A a \in Addr : eeprom[a] = Image(c)[a]
  PROVE  Stored = c
<1>1. \A a \in 1 .. Size : a \in Addr /\ a <= Size
  BY ConfigAssumption DEF Addr
<1>2. Bytes = [a \in 1 .. Size |-> c[a]]
  BY <1>1, ImageCells DEF Bytes
<1>3. Bytes = c
  BY <1>2, ConfigAssumption
<1>4. CrcMatches(c)
  BY ImageCells DEF CrcMatches, CrcAddr
<1>5. QED
  BY <1>3, <1>4 DEF Stored, Readable

(* read_config accepts only what has a CRC of its own. *)
LEMMA ReadIsKnown == TypeOK /\ CrcIsOfKnown => StoresOnlyWhatWasSaved
<1> SUFFICES ASSUME CrcIsOfKnown, Readable PROVE Bytes \in known
  BY DEF StoresOnlyWhatWasSaved, Stored
<1>1. Size + 1 \in CrcAddr
  BY ConfigAssumption DEF CrcAddr
<1>2. Bytes \in Config /\ eeprom[Size + 1] = <<"crc", Bytes>>
  BY <1>1 DEF Readable, CrcMatches, CrcAddr
<1>3. QED
  BY <1>1, <1>2 DEF CrcIsOfKnown

LEMMA InitIInv == Init => IInv
<1> SUFFICES ASSUME Init PROVE IInv
  OBVIOUS
<1>1. /\ pc = [t \in Threads |-> "idle"] /\ bus = "free" /\ answer = NoAnswer
      /\ known = {Stored} \ {None}
  BY DEF Init
<1>2. Stored \in Config \cup {None}
  BY DEF Stored, Readable
<1>0. /\ power \in BOOLEAN /\ ram \in Config
      /\ pc \in [Threads -> {"idle", "next", "byte"}] /\ img \in [Threads -> Config]
      /\ addr \in [Threads -> Addr] /\ tries \in [Threads -> 0 .. 3]
      /\ bus \in Threads \cup {"free", "stuck"} /\ alone \in [Threads -> BOOLEAN]
      /\ known \subseteq Config /\ answer \in [saved : Config \cup {None}, alone : BOOLEAN]
  <2>1. power \in BOOLEAN /\ ram \in Config /\ img \in [Threads -> Config]
        /\ alone \in [Threads -> BOOLEAN]
    BY ConfigAssumption DEF Init
  <2>2. addr \in [Threads -> Addr]
    BY Addresses DEF Init
  <2>3. 0 \in 0 .. 3
    OBVIOUS
  <2>4. tries \in [Threads -> 0 .. 3] /\ pc \in [Threads -> {"idle", "next", "byte"}]
    BY <2>3 DEF Init
  <2>5. bus \in Threads \cup {"free", "stuck"} /\ known \subseteq Config
    BY <1>1, <1>2
  <2>6. answer \in [saved : Config \cup {None}, alone : BOOLEAN]
    BY <1>1, NoAnswerTyped
  <2>7. QED
    BY <2>1, <2>2, <2>4, <2>5, <2>6
<1>3. CASE eeprom = [a \in Addr |-> Junk]
  <2>1. TypeOK
    BY <1>0, <1>3 DEF TypeOK
  <2>2. CrcIsOfKnown
    <3>1. \A a \in CrcAddr : eeprom[a] = Junk
      BY <1>3, Addresses
    <3>2. QED
      BY <3>1, ConfigAssumption DEF CrcIsOfKnown
  <2>3. QED
    BY <1>1, <2>1, <2>2, ConfigAssumption
       DEF IInv, SavingIsKnown, BusHeld, WrittenSoFar, AnswerIsImage, NoAnswer, Threads
<1>4. ASSUME NEW c \in Config, eeprom = Image(c)
      PROVE  IInv
  <2>1. Stored = c
    BY <1>4, ImageIsRead
  <2>2. known = {c}
    BY <1>1, <2>1, ConfigAssumption
  <2>3. TypeOK
    BY <1>0, <1>4, ImageCells DEF TypeOK
  <2>4. CrcIsOfKnown
    <3>1. \A a \in CrcAddr : eeprom[a] = <<"crc", c>>
      BY <1>4, ImageCells
    <3>2. QED
      BY <2>2, <3>1 DEF CrcIsOfKnown
  <2>5. QED
    BY <1>1, <2>3, <2>4, ConfigAssumption
       DEF IInv, SavingIsKnown, BusHeld, WrittenSoFar, AnswerIsImage, NoAnswer, Threads
<1>5. QED
  BY <1>3, <1>4 DEF Init

-----------------------------------------------------------------------------
(* A save begins with the bytes as they are. *)
LEMMA SaveStartOK ==
  ASSUME IInv, NEW t \in Threads, NEW c \in Config, NEW n \in 1 .. 3,
         SaveStart(t, c, n), ram' \in Config
  PROVE  IInv'
<1> USE DEF IInv
<1>1. TypeOK'
  BY ConfigAssumption DEF TypeOK, SaveStart, Addr
<1>2. CrcIsOfKnown'
  BY DEF CrcIsOfKnown, SaveStart
<1>3. SavingIsKnown'
  BY DEF SavingIsKnown, SaveStart, TypeOK
<1>4. BusHeld'
  BY DEF BusHeld, SaveStart, TypeOK
<1>5. WrittenSoFar'
  <2> SUFFICES ASSUME NEW u \in Threads, pc'[u] # "idle", alone'[u],
                      NEW a \in Addr, a < addr'[u]
               PROVE  eeprom'[a] = Image(img'[u])[a]
    BY DEF WrittenSoFar, Image, Addr
  <2>1. CASE u = t
    BY <2>1, ConfigAssumption DEF SaveStart, TypeOK, Addr
  <2>2. CASE u # t
    BY <2>2 DEF SaveStart, TypeOK, WrittenSoFar
  <2>3. QED
    BY <2>1, <2>2
<1>6. AnswerIsImage'
  BY DEF AnswerIsImage, SaveStart, Quiet, TypeOK
<1>7. QED
  BY <1>1, <1>2, <1>3, <1>4, <1>5, <1>6

(* A byte written belongs to a configuration that counts as saved, follows
   the bytes before it, and disturbs the other thread's attempt; after the last
   one the answer describes the whole image. *)
LEMMA ByteDoneOK ==
  ASSUME IInv, NEW t \in Threads, ByteDone(t)
  PROVE  IInv'
<1> USE DEF IInv
<1> DEFINE u == Other(t)
           final == ~(addr[t] < Size + CrcSize)
<1>1. /\ pc[t] = "byte" /\ bus' = "free"
      /\ eeprom' = [eeprom EXCEPT ![addr[t]] = Image(img[t])[addr[t]]]
      /\ alone' = [alone EXCEPT ![u] = FALSE]
      /\ UNCHANGED <<power, ram, img, tries, known>>
  BY DEF ByteDone
<1>2. ~final => /\ pc' = [pc EXCEPT ![t] = "next"]
                /\ addr' = [addr EXCEPT ![t] = @ + 1]
                /\ answer' = answer
  BY DEF ByteDone
<1>3. final => /\ pc' = [pc EXCEPT ![t] = "idle"]
               /\ addr' = [addr EXCEPT ![t] = 1]
               /\ answer' = [saved |-> img[t], alone |-> alone[t]]
  BY DEF ByteDone
<1>4. /\ u \in Threads /\ u # t /\ Threads = {t, u}
      /\ addr[t] \in Addr /\ img[t] \in Config /\ alone[t] \in BOOLEAN
      /\ img[t] \in known
  BY <1>1, ConfigAssumption DEF Other, Threads, TypeOK, SavingIsKnown
<1> HIDE DEF u
<1>5. \A a \in Addr : eeprom'[a] = IF a = addr[t] THEN Image(img[t])[a] ELSE eeprom[a]
  BY <1>1 DEF TypeOK
<1>6. TypeOK'
  <2>1. CASE final
    BY <1>1, <1>3, <1>4, <2>1, Addresses DEF TypeOK
  <2>2. CASE ~final
    <3>1. addr[t] + 1 \in Addr
      BY <1>4, <2>2, Addresses
    <3>2. QED
      BY <1>1, <1>2, <1>4, <2>2, <3>1 DEF TypeOK
  <2>3. QED
    BY <2>1, <2>2
<1>7. CrcIsOfKnown'
  <2> SUFFICES ASSUME NEW a \in CrcAddr, NEW c \in Config, eeprom'[a] = <<"crc", c>>
               PROVE  c \in known
    BY <1>1 DEF CrcIsOfKnown
  <2>1. CASE a = addr[t]
    <3>1. eeprom'[a] = <<"crc", img[t]>>
      BY <1>4, <1>5, <2>1, ImageCells
    <3>2. QED
      BY <1>4, <3>1
  <2>2. CASE a # addr[t]
    BY <1>5, <2>2, Addresses DEF CrcIsOfKnown
  <2>3. QED
    BY <2>1, <2>2
<1>8. SavingIsKnown'
  BY <1>1, <1>2, <1>3, <1>4 DEF SavingIsKnown, TypeOK
<1>9. BusHeld'
  <2>1. bus = t /\ pc[u] # "byte"
    BY <1>1, <1>4 DEF BusHeld
  <2>2. pc'[t] # "byte" /\ pc'[u] = pc[u]
    BY <1>2, <1>3, <1>4 DEF TypeOK
  <2>3. \A v \in Threads : v # "free"
    BY ConfigAssumption DEF Threads
  <2>4. QED
    BY <1>1, <1>4, <2>1, <2>2, <2>3 DEF BusHeld
<1>10. WrittenSoFar'
  <2> SUFFICES ASSUME NEW v \in Threads, pc'[v] # "idle", alone'[v],
                      NEW a \in Addr, a < addr'[v]
               PROVE  eeprom'[a] = Image(img[v])[a]
    BY <1>1 DEF WrittenSoFar, Image, Addr
  <2>1. v = t
    BY <1>1, <1>4 DEF TypeOK
  <2>2. ~final /\ addr'[t] = addr[t] + 1
    BY <1>2, <1>3, <1>4, <2>1 DEF TypeOK
  <2>3. alone[t]
    BY <1>1, <1>4, <2>1 DEF TypeOK
  <2>4. a = addr[t] \/ a < addr[t]
    BY <1>4, <2>1, <2>2, Addresses
  <2>5. a < addr[t] => eeprom[a] = Image(img[t])[a]
    BY <1>1, <2>3 DEF WrittenSoFar
  <2>6. QED
    BY <1>5, <2>1, <2>4, <2>5
<1>11. AnswerIsImage'
  <2> SUFFICES ASSUME Quiet', answer'.saved # None, answer'.alone, NEW a \in Addr
               PROVE  eeprom'[a] = Image(answer'.saved)[a]
    BY DEF AnswerIsImage, Image, Addr
  <2>1. final
    BY <1>2, <1>4 DEF Quiet, TypeOK
  <2>2. answer'.saved = img[t] /\ alone[t]
    BY <1>3, <2>1
  <2>3. addr[t] = Size + CrcSize
    BY <1>4, <2>1, Addresses
  <2>4. a = addr[t] \/ a < addr[t]
    BY <2>3, ConfigAssumption DEF Addr
  <2>5. a < addr[t] => eeprom[a] = Image(img[t])[a]
    BY <1>1, <2>2 DEF WrittenSoFar
  <2>6. QED
    BY <1>5, <2>2, <2>4, <2>5
<1>12. QED
  BY <1>6, <1>7, <1>8, <1>9, <1>10, <1>11

LEMMA ByteStartOK ==
  ASSUME IInv, NEW t \in Threads, ByteStart(t)
  PROVE  IInv'
<1> USE DEF IInv
<1>1. /\ pc[t] = "next" /\ bus = "free" /\ bus' = t
      /\ pc' = [pc EXCEPT ![t] = "byte"]
      /\ UNCHANGED <<power, ram, eeprom, img, addr, tries, alone, answer, known>>
  BY DEF ByteStart
<1>2. TypeOK' /\ CrcIsOfKnown' /\ SavingIsKnown'
  BY <1>1 DEF TypeOK, CrcIsOfKnown, SavingIsKnown
<1>3. BusHeld'
  <2>1. \A v \in Threads : v # "free"
    BY ConfigAssumption DEF Threads
  <2>2. \A v \in Threads : pc[v] # "byte"
    BY <1>1, <2>1 DEF BusHeld
  <2>3. QED
    BY <1>1, <2>2 DEF BusHeld, TypeOK
<1>4. WrittenSoFar'
  BY <1>1 DEF WrittenSoFar, TypeOK, Image, Addr
<1>5. ~Quiet'
  BY <1>1 DEF Quiet, TypeOK
<1>6. QED
  BY <1>2, <1>3, <1>4, <1>5 DEF AnswerIsImage

(* A failure writes nothing, and takes back what was to be answered. *)
LEMMA ByteFailOK ==
  ASSUME IInv, NEW t \in Threads, ByteFail(t)
  PROVE  IInv'
<1> USE DEF IInv
<1>1. /\ pc[t] # "idle" /\ tries[t] \in 1 .. 3
      /\ addr' = [addr EXCEPT ![t] = 1]
      /\ tries' = [tries EXCEPT ![t] = @ - 1]
      /\ alone' = [alone EXCEPT ![t] = TRUE]
      /\ UNCHANGED <<power, ram, eeprom, img, known>>
  BY DEF ByteFail, TypeOK
<1>2. \/ pc' = [pc EXCEPT ![t] = "next"] /\ answer' = answer
      \/ pc' = [pc EXCEPT ![t] = "idle"] /\ answer' = NoAnswer
  BY DEF ByteFail
<1>3. \/ pc[t] = "next" /\ bus' = bus
      \/ pc[t] = "byte" /\ bus' \in {"free", "stuck"}
  BY DEF ByteFail
<1>4. /\ pc' \in [Threads -> {"idle", "next", "byte"}] /\ pc'[t] \in {"idle", "next"}
      /\ \A v \in Threads \ {t} : pc'[v] = pc[v]
      /\ answer' \in [saved : Config \cup {None}, alone : BOOLEAN]
  <2>1. CASE pc' = [pc EXCEPT ![t] = "next"] /\ answer' = answer
    BY <2>1 DEF TypeOK
  <2>2. CASE pc' = [pc EXCEPT ![t] = "idle"] /\ answer' = NoAnswer
    BY <2>2, NoAnswerTyped DEF TypeOK
  <2>3. QED
    BY <1>2, <2>1, <2>2
<1>5. TypeOK'
  <2>1. tries[t] - 1 \in 0 .. 3
    BY <1>1
  <2>2. tries' \in [Threads -> 0 .. 3]
    BY <1>1, <2>1 DEF TypeOK
  <2>3. addr' \in [Threads -> Addr] /\ alone' \in [Threads -> BOOLEAN]
    BY <1>1, Addresses DEF TypeOK
  <2>4. bus' \in Threads \cup {"free", "stuck"}
    BY <1>3 DEF TypeOK
  <2>5. QED
    BY <1>1, <1>4, <2>2, <2>3, <2>4 DEF TypeOK
<1>6. CrcIsOfKnown' /\ SavingIsKnown'
  BY <1>1, <1>4 DEF CrcIsOfKnown, SavingIsKnown
<1>7. BusHeld'
  <2>1. \A v \in Threads : v \notin {"free", "stuck"}
    BY ConfigAssumption DEF Threads
  <2>2. QED
    BY <1>3, <1>4, <2>1 DEF BusHeld
<1>8. WrittenSoFar'
  <2> SUFFICES ASSUME NEW v \in Threads, pc'[v] # "idle", alone'[v],
                      NEW a \in Addr, a < addr'[v]
               PROVE  eeprom[a] = Image(img[v])[a]
    BY <1>1 DEF WrittenSoFar, Image, Addr
  <2>1. CASE v = t
    <3>1. addr'[v] = 1 /\ a \in Nat /\ a # 0
      BY <1>1, <2>1, ConfigAssumption DEF TypeOK, Addr
    <3>2. QED
      BY <3>1
  <2>2. CASE v # t
    BY <1>1, <1>4, <2>2 DEF WrittenSoFar, TypeOK
  <2>3. QED
    BY <2>1, <2>2
<1>9. AnswerIsImage'
  <2>1. Quiet' => answer' = NoAnswer
    BY <1>1, <1>2 DEF Quiet, TypeOK
  <2>2. QED
    BY <2>1 DEF AnswerIsImage, NoAnswer
<1>10. QED
  BY <1>5, <1>6, <1>7, <1>8, <1>9

(* A power failure may spoil the byte on the bus; nothing on the bus means
   nothing to spoil, and an answer given between saves stays true. *)
LEMMA CrashOK ==
  ASSUME IInv, Crash
  PROVE  IInv'
<1> USE DEF IInv
<1>1. /\ power' = FALSE /\ bus' = "free"
      /\ pc' = [t \in Threads |-> "idle"]
      /\ addr' = [t \in Threads |-> 1] /\ tries' = [t \in Threads |-> 0]
      /\ answer' = IF Quiet THEN answer ELSE NoAnswer
      /\ UNCHANGED <<ram, img, alone, known>>
  BY DEF Crash, Quiet
<1>2. \/ eeprom' = eeprom
      \/ \E t \in Threads : bus = t /\ eeprom' = [eeprom EXCEPT ![addr[t]] = Junk]
  BY DEF Crash
<1>3. DOMAIN eeprom' = Addr
      /\ \A a \in Addr : eeprom'[a] = eeprom[a] \/ eeprom'[a] = Junk
  BY <1>2 DEF TypeOK
<1>4. Quiet => eeprom' = eeprom
  BY <1>2 DEF Quiet, BusHeld
<1>5. TypeOK'
  <2>1. 0 \in 0 .. 3 /\ 1 \in Addr
    BY Addresses
  <2>2. /\ tries' \in [Threads -> 0 .. 3] /\ addr' \in [Threads -> Addr]
        /\ pc' \in [Threads -> {"idle", "next", "byte"}]
    BY <1>1, <2>1
  <2>3. answer' \in [saved : Config \cup {None}, alone : BOOLEAN]
    BY <1>1, NoAnswerTyped DEF TypeOK
  <2>4. QED
    BY <1>1, <1>3, <2>2, <2>3 DEF TypeOK
<1>6. CrcIsOfKnown'
  BY <1>1, <1>3, Addresses, ConfigAssumption DEF CrcIsOfKnown
<1>7. BusHeld'
  BY <1>1, ConfigAssumption DEF BusHeld, Threads
<1>8. SavingIsKnown' /\ WrittenSoFar'
  BY <1>1 DEF SavingIsKnown, WrittenSoFar
<1>9. AnswerIsImage'
  BY <1>1, <1>4 DEF AnswerIsImage, NoAnswer, Image, Addr
<1>10. QED
  BY <1>5, <1>6, <1>7, <1>8, <1>9

(* Every step keeps the invariant. *)
LEMMA StepIInv == IInv /\ [Next]_vars => IInv'
<1> SUFFICES ASSUME IInv, [Next]_vars PROVE IInv'
  OBVIOUS
<1>1. ASSUME \/ Boot
             \/ \E c \in Config : SetConfig(c)
             \/ UNCHANGED vars
      PROVE  IInv'
  <2>1. UNCHANGED <<eeprom, save, bus, answer, known>>
    BY <1>1 DEF Boot, SetConfig, vars
  <2>2. power' \in BOOLEAN /\ ram' \in Config
    <3>1. CASE Boot
      <4>1. ram' \in {IF Readable THEN Bytes ELSE Default, Default} /\ power' = TRUE
        BY <3>1 DEF Boot
      <4>2. Readable => Bytes \in Config
        BY DEF Readable
      <4>3. QED
        BY <4>1, <4>2, ConfigAssumption
    <3>2. CASE \E c \in Config : SetConfig(c)
      BY <3>2 DEF SetConfig, IInv, TypeOK
    <3>3. CASE UNCHANGED vars
      BY <3>3 DEF vars, IInv, TypeOK
    <3>4. QED
      BY <1>1, <3>1, <3>2, <3>3
  <2>3. QED
    BY <2>1, <2>2 DEF IInv, save, TypeOK, CrcIsOfKnown, SavingIsKnown, BusHeld,
                      WrittenSoFar, AnswerIsImage, Quiet, Image, Addr
<1>2. CASE Crash
  BY <1>2, CrashOK
<1>3. CASE AtSave \/ AtDelo \/ KeyReset
  <2>1. /\ 1 \in 1 .. 3 /\ 3 \in 1 .. 3 /\ Main \in Threads /\ Key \in Threads
        /\ ram \in Config /\ Default \in Config
    BY ConfigAssumption DEF Threads, IInv, TypeOK
  <2>2. CASE AtSave
    BY <2>1, <2>2, SaveStartOK DEF AtSave
  <2>3. CASE AtDelo
    BY <2>1, <2>3, SaveStartOK DEF AtDelo
  <2>4. CASE KeyReset
    BY <2>1, <2>4, SaveStartOK DEF KeyReset
  <2>5. QED
    BY <1>3, <2>2, <2>3, <2>4
<1>4. ASSUME NEW t \in Threads, SaveStep(t)
      PROVE  IInv'
  BY <1>4, ByteStartOK, ByteDoneOK, ByteFailOK DEF SaveStep
<1>5. QED
  BY <1>1, <1>2, <1>3, <1>4 DEF Next

(* The invariant of configuration store, bus and answers. *)
THEOREM ConfigInvHolds == Spec => []IInv
<1>1. Init => IInv
  BY InitIInv
<1>2. IInv /\ [Next]_vars => IInv'
  BY StepIInv
<1>3. QED
  BY <1>1, <1>2, PTL DEF Spec

(* The types of the configuration store. *)
THEOREM TypeCorrect == Spec => []TypeOK
<1>1. IInv => TypeOK
  BY DEF IInv
<1>2. QED
  BY <1>1, ConfigInvHolds, PTL

(* Whatever fails, and however the saves of console and button write into each
   other, read_config accepts only a configuration that was saved. *)
THEOREM OnlySavedIsRead == Spec => []StoresOnlyWhatWasSaved
<1>1. IInv => StoresOnlyWhatWasSaved
  BY ReadIsKnown DEF IInv
<1>2. QED
  BY <1>1, ConfigInvHolds, PTL

(* The configuration of a save that was answered OK and not disturbed is what
   read_config accepts from then on, across power failures too. *)
THEOREM UndisturbedSaveIsRead == Spec => []UndisturbedSaveIsStored
<1>1. IInv => UndisturbedSaveIsStored
  <2> SUFFICES ASSUME IInv, Quiet, answer.saved # None, answer.alone
               PROVE  Stored = answer.saved
    BY DEF UndisturbedSaveIsStored
  <2>1. answer.saved \in Config
    BY DEF IInv, TypeOK
  <2>2. \A a \in Addr : eeprom[a] = Image(answer.saved)[a]
    BY DEF IInv, AnswerIsImage
  <2>3. QED
    BY <2>1, <2>2, ImageIsRead
<1>2. QED
  BY <1>1, ConfigInvHolds, PTL
================================================================================
