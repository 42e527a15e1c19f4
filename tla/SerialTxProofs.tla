---------------------------- MODULE SerialTxProofs ----------------------------
(***************************************************************************)
(* Transmission for any number of writing threads, any number of bytes and *)
(* any interleaving: the proofs make no use of the priorities.             *)
(***************************************************************************)
EXTENDS SerialTx, SequenceTheorems, FiniteSetTheorems, TLAPS

(* Inside the loop of _serial_int_tx there is a byte left to write. *)
RoomToWrite == \A w \in Writers : pc[w] \notin {"idle", "enable"} => accepted[w] < MaxBytes

(* Those asleep, each once, are those in the suspended list. *)
AsleepWait ==
  /\ \A w \in Writers : pc[w] = "asleep" <=> \E i \in DOMAIN waiters : waiters[i] = w
  /\ \A i, j \in DOMAIN waiters : waiters[i] = waiters[j] => i = j

(* Some writer is at one of these places. *)
Some(places) == \E w \in Writers : pc[w] \in places

(* While others are suspended, a flag left set was set with the wake-up of a
   writer that is going to clear it. *)
FlagHasItsWriter == flag /\ waiters # <<>> => Some({"woken"})

(* A writer that waits, or is about to, does so for something: there is a
   transmission to end, or the flag of one that has ended, or another writer
   that will start one. *)
SomethingToWaitFor ==
  Some({"arm", "wait", "asleep"}) =>
    \/ tc \/ tsr # <<>> \/ tdr # <<>>
    \/ flag /\ Some({"arm", "wait"})
    \/ Some({"woken", "test", "put"})

(* and the end of it raises an interrupt. *)
InterruptIsEnabled ==
  Some({"wait", "asleep"}) =>
    tcie \/ (flag /\ Some({"wait"})) \/ Some({"woken", "test", "put", "enable", "arm"})

(* No byte leaves, or waits to, that its writer has not written. *)
OutIsAccepted == \A i \in DOMAIN Out : Out[i][2] <= accepted[Out[i][1]]

(* A writer that found the data register empty finds no byte of its own in it. *)
NoByteOfItsOwn == \A w \in Writers : pc[w] = "put" => tdr = <<>> \/ tdr[1][1] # w

WakeInv == AsleepWait /\ FlagHasItsWriter /\ SomethingToWaitFor /\ InterruptIsEnabled
OutInv  == BytesInOrder /\ OutIsAccepted /\ NoByteOfItsOwn
TxInv   == TypeOK /\ RoomToWrite /\ WakeInv /\ OutInv

-----------------------------------------------------------------------------
(* Nobody is inside at first, and nothing has been written. *)
LEMMA TxInit == Init => TxInv
<1> SUFFICES ASSUME Init PROVE TxInv
  OBVIOUS
<1>1. TypeOK
  <2>1. <<>> \in Seq(Byte) /\ <<>> \in Seq(Writers) /\ 0 \in 0 .. MaxBytes
    BY TxAssumption
  <2>2. {tc, tcie, flag} \subseteq BOOLEAN
    BY DEF Init
  <2> QED
    BY <2>1, <2>2 DEF Init, TypeOK, PcValues
<1>2. Out = <<>>
  BY ConcatEmptySeq, EmptySeq DEF Init, Out
<1>3. OutInv
  BY <1>2 DEF Init, OutInv, BytesInOrder, OutIsAccepted, NoByteOfItsOwn
<1>4. WakeInv
  BY DEF Init, WakeInv, AsleepWait, FlagHasItsWriter, SomethingToWaitFor,
         InterruptIsEnabled, Some
<1> QED
  BY <1>1, <1>3, <1>4 DEF TxInv, Init, RoomToWrite

(* Only the writer that goes somewhere moves. *)
LEMMA Went ==
  ASSUME TypeOK, NEW w \in Writers, NEW label, Goto(w, label)
  PROVE  pc'[w] = label /\ \A v \in Writers \ {w} : pc'[v] = pc[v]
  BY DEF TypeOK, Goto

(* The first in the suspended list is asleep; without it, the rest still are
   those asleep. *)
LEMMA FirstWoken ==
  ASSUME TypeOK, AsleepWait, waiters # <<>>,
         Goto(Head(waiters), "woken"), waiters' = Tail(waiters)
  PROVE  /\ Head(waiters) \in Writers /\ pc[Head(waiters)] = "asleep"
         /\ waiters' \in Seq(Writers)
         /\ AsleepWait'
<1> DEFINE h == Head(waiters)
           n == Len(waiters)
<1>1. waiters \in Seq(Writers) /\ n \in Nat /\ n > 0 /\ DOMAIN waiters = 1 .. n
      /\ h = waiters[1]
  BY DEF TypeOK
<1>2. /\ h \in Writers /\ waiters' \in Seq(Writers) /\ Len(waiters') = n - 1
      /\ \A i \in 1 .. n - 1 : waiters'[i] = waiters[i + 1]
  BY <1>1, HeadTailProperties
<1>3. DOMAIN waiters' = 1 .. n - 1
  BY <1>2
<1> HIDE DEF h, n
<1>4. 1 \in DOMAIN waiters /\ pc[h] = "asleep"
  BY <1>1, <1>2 DEF AsleepWait
<1>5. pc'[h] = "woken" /\ \A v \in Writers \ {h} : pc'[v] = pc[v]
  BY <1>2, Went DEF h
<1>6. \A i, j \in DOMAIN waiters' : waiters'[i] = waiters'[j] => i = j
  <2> SUFFICES ASSUME NEW i \in 1 .. n - 1, NEW j \in 1 .. n - 1, waiters'[i] = waiters'[j]
               PROVE  i = j
    BY <1>3
  <2>1. i + 1 \in 1 .. n /\ j + 1 \in 1 .. n /\ waiters[i + 1] = waiters[j + 1]
    BY <1>1, <1>2
  <2>2. i + 1 = j + 1
    BY <1>1, <2>1 DEF AsleepWait
  <2> QED
    BY <2>2
<1>7. ASSUME NEW w \in Writers
      PROVE  pc'[w] = "asleep" <=> \E i \in DOMAIN waiters' : waiters'[i] = w
  <2>1. ASSUME pc'[w] = "asleep"
        PROVE  \E i \in DOMAIN waiters' : waiters'[i] = w
    <3>1. w # h /\ pc[w] = "asleep"
      BY <1>5, <2>1
    <3>2. PICK i \in 1 .. n : waiters[i] = w
      BY <1>1, <3>1 DEF AsleepWait
    <3>3. i - 1 \in 1 .. n - 1 /\ (i - 1) + 1 = i
      BY <1>1, <3>1, <3>2
    <3> QED
      BY <1>2, <1>3, <3>2, <3>3
  <2>2. ASSUME NEW i \in 1 .. n - 1, waiters'[i] = w
        PROVE  pc'[w] = "asleep"
    <3>1. i + 1 \in 1 .. n /\ i + 1 # 1 /\ waiters[i + 1] = w
      BY <1>1, <1>2, <2>2
    <3>2. w # h
      BY <1>1, <3>1 DEF AsleepWait
    <3>3. pc[w] = "asleep"
      BY <1>1, <3>1 DEF AsleepWait
    <3> QED
      BY <1>5, <3>2, <3>3
  <2> QED
    BY <1>3, <2>1, <2>2
<1> QED
  BY <1>2, <1>4, <1>6, <1>7 DEF AsleepWait, h

(* A writer that suspends joins those asleep at the end of the list. *)
LEMMA OneMoreAsleep ==
  ASSUME TypeOK, AsleepWait, NEW w \in Writers, pc[w] = "wait",
         Goto(w, "asleep"), waiters' = Append(waiters, w)
  PROVE  waiters' \in Seq(Writers) /\ AsleepWait'
<1> DEFINE n == Len(waiters)
<1>1. waiters \in Seq(Writers) /\ n \in Nat /\ DOMAIN waiters = 1 .. n
  BY DEF TypeOK
<1>2. /\ waiters' \in Seq(Writers) /\ Len(waiters') = n + 1
      /\ \A i \in 1 .. n : waiters'[i] = waiters[i]
      /\ waiters'[n + 1] = w
  BY <1>1, AppendProperties
<1>3. DOMAIN waiters' = 1 .. n + 1
  BY <1>2
<1> HIDE DEF n
<1>4. pc'[w] = "asleep" /\ \A v \in Writers \ {w} : pc'[v] = pc[v]
  BY Went
<1>5. \A i \in 1 .. n : waiters[i] # w
  BY <1>1 DEF AsleepWait
<1>6. \A i \in 1 .. n + 1 : i \in 1 .. n \/ i = n + 1
  BY <1>1
<1>7. n + 1 \in 1 .. n + 1 /\ 1 .. n \subseteq 1 .. n + 1
  BY <1>1
<1>8. \A i, j \in DOMAIN waiters' : waiters'[i] = waiters'[j] => i = j
  BY <1>1, <1>2, <1>3, <1>5, <1>6 DEF AsleepWait
<1>9. ASSUME NEW v \in Writers
      PROVE  pc'[v] = "asleep" <=> \E i \in DOMAIN waiters' : waiters'[i] = v
  <2>1. CASE v = w
    BY <1>2, <1>3, <1>4, <1>7, <2>1
  <2>2. CASE v # w
    BY <1>1, <1>2, <1>3, <1>4, <1>6, <1>7, <2>2 DEF AsleepWait
  <2> QED
    BY <2>1, <2>2
<1> QED
  BY <1>2, <1>8, <1>9 DEF AsleepWait

-----------------------------------------------------------------------------
(* A register holds a sequence of at most one byte. *)
LEMMA OneByte ==
  /\ <<>> \in Seq(Byte) /\ Len(<<>>) = 0
  /\ \A b \in Byte : <<b>> \in Seq(Byte) /\ Len(<<b>>) = 1 /\ <<b>>[1] = b
  OBVIOUS

(* The two outcomes of rt_completion_done. *)
LEMMA DoneSteps ==
  ASSUME CompletionDone
  PROVE  \/ (flag \/ waiters = <<>>) /\ flag' = TRUE /\ UNCHANGED <<pc, waiters>>
         \/ /\ ~flag /\ waiters # <<>> /\ flag' = TRUE
            /\ Goto(Head(waiters), "woken") /\ waiters' = Tail(waiters)
  BY DEF CompletionDone

(* Every variable keeps its type, and every writer in the loop its byte. *)
LEMMA StepType ==
  ASSUME TypeOK, RoomToWrite, AsleepWait, [Next]_vars
  PROVE  TypeOK' /\ RoomToWrite'
<1> USE TxAssumption
<1>1. CASE UNCHANGED vars
  BY <1>1 DEF vars, thread, hw, compl, TypeOK, RoomToWrite
<1>2. ASSUME NEW w \in Writers, WriteStart(w) \/ TestTxe(w)
      PROVE  TypeOK' /\ RoomToWrite'
  <2>1. pc' \in [Writers -> PcValues]
    BY <1>2 DEF WriteStart, TestTxe, At, Goto, TypeOK, PcValues
  <2>2. UNCHANGED <<accepted, polling, hw, compl>>
    BY <1>2 DEF WriteStart, TestTxe
  <2>3. RoomToWrite'
    BY <1>2, <2>2 DEF WriteStart, TestTxe, At, Goto, TypeOK, RoomToWrite
  <2> QED
    BY <2>1, <2>2, <2>3 DEF TypeOK, hw, compl
<1>3. ASSUME NEW w \in Writers, PutByte(w)
      PROVE  TypeOK' /\ RoomToWrite'
  <2>1. /\ pc[w] = "put" /\ accepted' = [accepted EXCEPT ![w] = accepted[w] + 1]
        /\ tdr' = <<<<w, accepted'[w]>>>> /\ tc' = FALSE /\ Goto(w, "enable")
        /\ UNCHANGED <<polling, tsr, tcie, wire, flag, waiters>>
    BY <1>3 DEF PutByte, At, compl
  <2>2. accepted[w] + 1 \in 1 .. MaxBytes
    <3>1. accepted[w] < MaxBytes /\ accepted[w] \in 0 .. MaxBytes
      BY <2>1 DEF TypeOK, RoomToWrite
    <3> QED
      BY <3>1
  <2>3. /\ accepted' \in [Writers -> 0 .. MaxBytes] /\ accepted'[w] = accepted[w] + 1
        /\ \A v \in Writers \ {w} : accepted'[v] = accepted[v]
    BY <2>1, <2>2 DEF TypeOK
  <2>4. <<w, accepted'[w]>> \in Byte
    BY <2>2, <2>3 DEF Byte
  <2>5. pc' \in [Writers -> PcValues]
    BY <2>1 DEF Goto, TypeOK, PcValues
  <2>6. {tc, tcie, flag}' \subseteq BOOLEAN
    BY <2>1 DEF TypeOK
  <2>7. RoomToWrite'
    BY <2>1, <2>3, Went DEF RoomToWrite
  <2> QED
    BY <2>1, <2>3, <2>4, <2>5, <2>6, <2>7 DEF TypeOK
<1>4. ASSUME NEW w \in Writers, EnableTc(w) \/ ArmTc(w)
      PROVE  TypeOK' /\ RoomToWrite'
  <2>1. /\ pc' \in [Writers -> PcValues] /\ tcie' = TRUE
        /\ UNCHANGED <<accepted, polling, tdr, tsr, tc, wire, flag, waiters>>
    BY <1>4 DEF EnableTc, ArmTc, At, Goto, TypeOK, PcValues, compl
  <2>2. RoomToWrite'
    BY <1>4, <2>1 DEF EnableTc, ArmTc, At, Goto, TypeOK, RoomToWrite
  <2>3. {tc, tcie, flag}' \subseteq BOOLEAN
    BY <2>1 DEF TypeOK
  <2> QED
    BY <2>1, <2>2, <2>3 DEF TypeOK
<1>5. ASSUME NEW w \in Writers, CompletionWait(w) \/ CompletionWoken(w)
      PROVE  TypeOK' /\ RoomToWrite'
  <2>1. /\ pc' \in [Writers -> PcValues] /\ flag' \in BOOLEAN
        /\ UNCHANGED <<accepted, polling, tdr, tsr, tc, tcie, wire>>
    BY <1>5 DEF CompletionWait, CompletionWoken, At, Goto, TypeOK, PcValues, hw
  <2>2. RoomToWrite'
    BY <1>5, <2>1 DEF CompletionWait, CompletionWoken, At, Goto, TypeOK, RoomToWrite
  <2>3. {tc, tcie, flag}' \subseteq BOOLEAN
    BY <2>1 DEF TypeOK
  <2>4. waiters' \in Seq(Writers)
    <3>1. CASE waiters' = waiters
      BY <3>1 DEF TypeOK
    <3>2. CASE pc[w] = "wait" /\ Goto(w, "asleep") /\ waiters' = Append(waiters, w)
      BY <3>2, OneMoreAsleep
    <3> QED
      BY <1>5, <3>1, <3>2 DEF CompletionWait, CompletionWoken, At
  <2> QED
    BY <2>1, <2>2, <2>3, <2>4 DEF TypeOK
<1>6. CASE TcIsr
  <2>1. /\ CompletionDone /\ tcie' = FALSE /\ tc' = FALSE /\ flag' = TRUE
        /\ UNCHANGED <<accepted, polling, tdr, tsr, wire>>
    BY <1>6 DEF TcIsr, CompletionDone
  <2>2. {tc, tcie, flag}' \subseteq BOOLEAN
    BY <2>1
  <2>3. CASE UNCHANGED <<pc, waiters>>
    BY <2>1, <2>2, <2>3 DEF TypeOK, RoomToWrite
  <2>4. CASE ~flag /\ waiters # <<>> /\ Goto(Head(waiters), "woken") /\ waiters' = Tail(waiters)
    <3>1. /\ Head(waiters) \in Writers /\ pc[Head(waiters)] = "asleep"
          /\ waiters' \in Seq(Writers)
      BY <2>4, FirstWoken
    <3>2. pc' \in [Writers -> PcValues]
      BY <2>4 DEF Goto, TypeOK, PcValues
    <3>3. RoomToWrite'
      BY <2>1, <2>4, <3>1, Went DEF RoomToWrite
    <3> QED
      BY <2>1, <2>2, <3>1, <3>2, <3>3 DEF TypeOK
  <2> QED
    BY <2>1, <2>3, <2>4, DoneSteps
<1>7. CASE LoadShift
  <2>1. tsr' = tdr /\ tdr' = <<>> /\ UNCHANGED <<tc, tcie, wire, thread, flag, waiters>>
    BY <1>7 DEF LoadShift, thread, compl
  <2> QED
    BY <2>1 DEF TypeOK, RoomToWrite, thread
<1>8. CASE SendFrame
  <2>1. /\ wire' = wire \o tsr /\ tsr' = <<>> /\ tc' = (tc \/ tdr = <<>>)
        /\ UNCHANGED <<tdr, tcie, thread, flag, waiters>>
    BY <1>8 DEF SendFrame, thread, compl
  <2>2. tsr \in Seq(Byte)
    BY OneByte DEF TypeOK
  <2>3. wire' \in Seq(Byte)
    BY <2>1, <2>2, ConcatProperties DEF TypeOK
  <2>4. {tc, tcie, flag}' \subseteq BOOLEAN
    BY <2>1 DEF TypeOK
  <2> QED
    BY <2>1, <2>3, <2>4 DEF TypeOK, RoomToWrite, thread
<1>9. ASSUME NEW w \in Writers, StartPolling(w)
      PROVE  TypeOK' /\ RoomToWrite'
  <2>1. polling' \subseteq Pollers /\ UNCHANGED <<pc, accepted, hw, compl>>
    BY <1>9 DEF StartPolling, TypeOK
  <2> QED
    BY <2>1 DEF TypeOK, RoomToWrite, hw, compl
<1> QED
  BY <1>1, <1>2, <1>3, <1>4, <1>5, <1>6, <1>7, <1>8, <1>9 DEF Next, WriteStep, Finished

(* Nobody who waits is forgotten by any step. *)
LEMMA StepWake ==
  ASSUME TypeOK, WakeInv, [Next]_vars
  PROVE  WakeInv'
<1> USE DEF WakeInv
<1>1. CASE UNCHANGED <<pc, waiters, flag, tc, tcie, tsr, tdr>>
  BY <1>1 DEF AsleepWait, FlagHasItsWriter, SomethingToWaitFor, InterruptIsEnabled, Some
<1>2. ASSUME NEW w \in Writers, NEW label, Goto(w, label),
             pc[w] # "asleep", label # "asleep", UNCHANGED waiters
      PROVE  AsleepWait'
  BY <1>2, Went DEF AsleepWait
<1>3. ASSUME NEW w \in Writers, NEW label, label \in {"put", "test", "enable", "arm", "wait", "woken"},
             pc'[w] = label
      PROVE  /\ label = "woken" => Some({"woken"})'
             /\ label \in {"test", "put"} => SomethingToWaitFor'
             /\ label \in {"test", "put", "arm", "enable"} => InterruptIsEnabled'
  BY <1>3 DEF SomethingToWaitFor, InterruptIsEnabled, Some
<1>4. ASSUME NEW w \in Writers, WriteStart(w)
      PROVE  WakeInv'
  <2>1. pc[w] = "idle" /\ Goto(w, "test")
        /\ UNCHANGED <<flag, waiters, tc, tcie, tsr, tdr>>
    BY <1>4 DEF WriteStart, At, hw, compl
  <2>2. pc'[w] = "test" /\ \A v \in Writers \ {w} : pc'[v] = pc[v]
    BY <2>1, Went
  <2>3. FlagHasItsWriter'
    BY <2>1, <2>2 DEF FlagHasItsWriter, Some
  <2> QED
    BY <1>2, <1>3, <2>1, <2>2, <2>3
<1>5. ASSUME NEW w \in Writers, TestTxe(w)
      PROVE  WakeInv'
  <2>1. pc[w] = "test" /\ Goto(w, IF tdr = <<>> THEN "put" ELSE "arm")
        /\ UNCHANGED <<flag, waiters, tc, tcie, tsr, tdr>>
    BY <1>5 DEF TestTxe, At, hw, compl
  <2>2. pc'[w] = (IF tdr = <<>> THEN "put" ELSE "arm") /\ \A v \in Writers \ {w} : pc'[v] = pc[v]
    BY <2>1, Went
  <2>3. FlagHasItsWriter'
    BY <2>1, <2>2 DEF FlagHasItsWriter, Some
  <2>4. CASE tdr = <<>>
    BY <1>2, <1>3, <2>1, <2>2, <2>3, <2>4
  <2>5. CASE tdr # <<>>
    <3>1. SomethingToWaitFor'
      BY <2>1, <2>5 DEF SomethingToWaitFor
    <3> QED
      BY <1>2, <1>3, <2>1, <2>2, <2>3, <2>5, <3>1
  <2> QED
    BY <2>4, <2>5
<1>6. ASSUME NEW w \in Writers, PutByte(w)
      PROVE  WakeInv'
  <2>1. pc[w] = "put" /\ Goto(w, "enable") /\ tdr' # <<>> /\ UNCHANGED <<flag, waiters>>
    BY <1>6, OneByte DEF PutByte, At, compl
  <2>2. pc'[w] = "enable" /\ \A v \in Writers \ {w} : pc'[v] = pc[v]
    BY <2>1, Went
  <2>3. FlagHasItsWriter'
    BY <2>1, <2>2 DEF FlagHasItsWriter, Some
  <2>4. SomethingToWaitFor'
    BY <2>1 DEF SomethingToWaitFor
  <2> QED
    BY <1>2, <1>3, <2>1, <2>2, <2>3, <2>4
<1>7. ASSUME NEW w \in Writers, EnableTc(w)
      PROVE  WakeInv'
  <2>1. pc[w] = "enable" /\ tcie' = TRUE /\ UNCHANGED <<flag, waiters, tc, tsr, tdr>>
        /\ (Goto(w, "test") \/ Goto(w, "idle"))
    BY <1>7 DEF EnableTc, At, compl
  <2>2. pc'[w] \in {"test", "idle"} /\ \A v \in Writers \ {w} : pc'[v] = pc[v]
    BY <2>1, Went
  <2>3. FlagHasItsWriter' /\ InterruptIsEnabled'
    BY <2>1, <2>2 DEF FlagHasItsWriter, InterruptIsEnabled, Some
  <2>4. SomethingToWaitFor'
    BY <2>1, <2>2 DEF SomethingToWaitFor, Some
  <2> QED
    BY <1>2, <2>1, <2>3, <2>4
<1>8. ASSUME NEW w \in Writers, ArmTc(w)
      PROVE  WakeInv'
  <2>1. pc[w] = "arm" /\ tcie' = TRUE /\ UNCHANGED <<flag, waiters, tc, tsr, tdr>>
        /\ Goto(w, "wait")
    BY <1>8 DEF ArmTc, At, compl
  <2>2. pc'[w] = "wait" /\ \A v \in Writers \ {w} : pc'[v] = pc[v]
    BY <2>1, Went
  <2>3. FlagHasItsWriter' /\ InterruptIsEnabled'
    BY <2>1, <2>2 DEF FlagHasItsWriter, InterruptIsEnabled, Some
  <2>4. SomethingToWaitFor'
    BY <2>1, <2>2 DEF SomethingToWaitFor, Some
  <2> QED
    BY <1>2, <2>1, <2>3, <2>4
<1>9. ASSUME NEW w \in Writers, CompletionWait(w)
      PROVE  WakeInv'
  <2>1. pc[w] = "wait" /\ UNCHANGED <<tc, tcie, tsr, tdr>>
    BY <1>9 DEF CompletionWait, At, hw
  <2>2. CASE flag /\ flag' = FALSE /\ Goto(w, "test") /\ UNCHANGED waiters
    <3>1. pc'[w] = "test"
      BY <2>2, Went
    <3>2. FlagHasItsWriter'
      BY <2>2 DEF FlagHasItsWriter
    <3> QED
      BY <1>2, <1>3, <2>1, <2>2, <3>1, <3>2
  <2>3. CASE ~flag /\ waiters' = Append(waiters, w) /\ Goto(w, "asleep") /\ UNCHANGED flag
    <3>1. pc'[w] = "asleep" /\ \A v \in Writers \ {w} : pc'[v] = pc[v]
      BY <2>3, Went
    <3>2. AsleepWait'
      BY <2>1, <2>3, OneMoreAsleep
    <3>3. FlagHasItsWriter'
      BY <2>3 DEF FlagHasItsWriter
    <3>4. SomethingToWaitFor'
      BY <2>1, <2>3, <3>1 DEF SomethingToWaitFor, Some
    <3>5. InterruptIsEnabled'
      BY <2>1, <2>3, <3>1 DEF InterruptIsEnabled, Some
    <3> QED
      BY <3>2, <3>3, <3>4, <3>5
  <2> QED
    BY <1>9, <2>2, <2>3 DEF CompletionWait
<1>10. ASSUME NEW w \in Writers, CompletionWoken(w)
       PROVE  WakeInv'
  <2>1. pc[w] = "woken" /\ flag' = FALSE /\ Goto(w, "test") /\ UNCHANGED waiters
    BY <1>10 DEF CompletionWoken, At
  <2>2. pc'[w] = "test"
    BY <2>1, Went
  <2>3. FlagHasItsWriter'
    BY <2>1 DEF FlagHasItsWriter
  <2> QED
    BY <1>2, <1>3, <2>1, <2>2, <2>3
<1>11. CASE TcIsr
  <2>1. CompletionDone
    BY <1>11 DEF TcIsr
  <2>2. CASE (flag \/ waiters = <<>>) /\ flag' = TRUE /\ UNCHANGED <<pc, waiters>>
    <3>1. AsleepWait' /\ FlagHasItsWriter'
      BY <2>2 DEF AsleepWait, FlagHasItsWriter, Some
    <3>2. CASE waiters = <<>>
      <4>1. \A w \in Writers : pc[w] # "asleep"
        BY <3>2 DEF AsleepWait
      <4>2. SomethingToWaitFor' /\ InterruptIsEnabled'
        BY <2>2, <4>1 DEF SomethingToWaitFor, InterruptIsEnabled, Some
      <4> QED
        BY <3>1, <4>2
    <3>3. CASE flag /\ waiters # <<>>
      <4>1. Some({"woken"})
        BY <3>3 DEF FlagHasItsWriter
      <4>2. SomethingToWaitFor' /\ InterruptIsEnabled'
        BY <2>2, <4>1 DEF SomethingToWaitFor, InterruptIsEnabled, Some
      <4> QED
        BY <3>1, <4>2
    <3> QED
      BY <2>2, <3>2, <3>3
  <2>3. CASE /\ ~flag /\ waiters # <<>> /\ flag' = TRUE
             /\ Goto(Head(waiters), "woken") /\ waiters' = Tail(waiters)
    <3>1. Head(waiters) \in Writers /\ AsleepWait'
      BY <2>3, FirstWoken
    <3>2. pc'[Head(waiters)] = "woken"
      BY <2>3, <3>1, Went
    <3>3. FlagHasItsWriter' /\ SomethingToWaitFor' /\ InterruptIsEnabled'
      BY <3>1, <3>2 DEF FlagHasItsWriter, SomethingToWaitFor, InterruptIsEnabled, Some
    <3> QED
      BY <3>1, <3>3
  <2> QED
    BY <2>1, <2>2, <2>3, DoneSteps
<1>12. CASE LoadShift \/ SendFrame
  <2>1. /\ UNCHANGED <<pc, waiters, flag, tcie>>
        /\ tc' \/ tsr' # <<>> \/ tdr' # <<>>
    BY <1>12 DEF LoadShift, SendFrame, thread, compl
  <2> QED
    BY <2>1 DEF AsleepWait, FlagHasItsWriter, SomethingToWaitFor, InterruptIsEnabled, Some
<1> QED
  BY <1>1, <1>4, <1>5, <1>6, <1>7, <1>8, <1>9, <1>10, <1>11, <1>12
  DEF Next, StartPolling, WriteStep, Finished, vars, thread, hw, compl

-----------------------------------------------------------------------------
(* What is out of the data register: the byte in it, if any, comes last. *)
Sent == wire \o tsr

(* Out is what has been sent, or that and the byte in the data register. *)
LEMMA OutFacts ==
  ASSUME TypeOK
  PROVE  /\ Sent \in Seq(Byte) /\ Out \in Seq(Byte)
         /\ tdr = <<>> => Out = Sent
         /\ \A b \in Byte : tdr = <<b>> => Out = Append(Sent, b)
<1>1. wire \in Seq(Byte) /\ tsr \in Seq(Byte) /\ tdr \in Seq(Byte)
  BY OneByte DEF TypeOK
<1>2. Sent \in Seq(Byte)
  BY <1>1, ConcatProperties DEF Sent
<1>3. Out = Sent \o tdr
  BY DEF Out, Sent
<1> QED
  BY <1>1, <1>2, <1>3, ConcatProperties, ConcatEmptySeq, AppendIsConcat

(* The shift register changes nothing of it. *)
LEMMA HardwareKeepsOut ==
  ASSUME TypeOK, LoadShift \/ SendFrame
  PROVE  Out' = Out
<1>1. wire \in Seq(Byte) /\ tsr \in Seq(Byte) /\ tdr \in Seq(Byte)
  BY OneByte DEF TypeOK
<1>2. CASE LoadShift
  <2>1. wire' = wire /\ tsr = <<>> /\ tsr' = tdr /\ tdr' = <<>>
    BY <1>2 DEF LoadShift
  <2>2. Out = wire \o tdr
    BY <1>1, <2>1, ConcatEmptySeq DEF Out
  <2>3. Out' = (wire \o tdr) \o <<>>
    BY <2>1 DEF Out
  <2>4. wire \o tdr \in Seq(Byte)
    BY <1>1, ConcatProperties
  <2> QED
    BY <2>2, <2>3, <2>4, ConcatEmptySeq
<1>3. CASE SendFrame
  <2>1. wire' = wire \o tsr /\ tsr' = <<>> /\ tdr' = tdr
    BY <1>3 DEF SendFrame
  <2>2. Sent \in Seq(Byte)
    BY OutFacts
  <2>3. Sent \o <<>> = Sent
    BY <2>2, ConcatEmptySeq
  <2> QED
    BY <2>1, <2>3 DEF Out, Sent
<1> QED
  BY <1>2, <1>3

(* stm32_putc puts the next byte of w behind all that has been sent; what the
   data register held is gone, and was not of w. *)
LEMMA OutPut ==
  ASSUME TypeOK, RoomToWrite, NoByteOfItsOwn, NEW w \in Writers, PutByte(w), TypeOK'
  PROVE  /\ accepted[w] \in Nat /\ accepted'[w] = accepted[w] + 1
         /\ \A v \in Writers \ {w} : accepted'[v] = accepted[v]
         /\ Len(Sent) \in Nat
         /\ Out' \in Seq(Byte) /\ Len(Out') = Len(Sent) + 1
         /\ Out'[Len(Sent) + 1] = <<w, accepted[w] + 1>>
         /\ Out \in Seq(Byte) /\ Len(Out) \in {Len(Sent), Len(Sent) + 1}
         /\ \A i \in 1 .. Len(Sent) : Out'[i] = Out[i]
         /\ Len(Out) = Len(Sent) + 1 => Out[Len(Sent) + 1][1] # w
<1> DEFINE n == Len(Sent)
           b == <<w, accepted'[w]>>
<1>1. /\ pc[w] = "put" /\ accepted' = [accepted EXCEPT ![w] = accepted[w] + 1]
      /\ tdr' = <<b>> /\ UNCHANGED <<wire, tsr>>
  BY DEF PutByte, At
<1>2. /\ accepted[w] \in Nat /\ accepted[w] < MaxBytes /\ accepted'[w] = accepted[w] + 1
      /\ \A v \in Writers \ {w} : accepted'[v] = accepted[v]
  <2>1. accepted \in [Writers -> 0 .. MaxBytes]
    BY DEF TypeOK
  <2>2. accepted[w] < MaxBytes
    BY <1>1 DEF RoomToWrite
  <2> HIDE DEF b
  <2> QED
    BY <1>1, <2>1, <2>2
<1>3. accepted'[w] \in 1 .. MaxBytes
  BY <1>2, TxAssumption
<1>4. b \in Byte
  BY <1>3 DEF Byte
<1>5. Sent \in Seq(Byte) /\ Out \in Seq(Byte) /\ n \in Nat
  BY OutFacts
<1>6. Out' = Append(Sent, b)
  <2>1. Out' = Sent \o <<b>>
    BY <1>1 DEF Out, Sent
  <2> HIDE DEF b
  <2> QED
    BY <1>4, <1>5, <2>1, AppendIsConcat
<1> HIDE DEF n, b
<1>7. /\ Out' \in Seq(Byte) /\ Len(Out') = n + 1 /\ Out'[n + 1] = b
      /\ \A i \in 1 .. n : Out'[i] = Sent[i]
  BY <1>4, <1>5, <1>6, AppendProperties DEF n
<1>8. CASE tdr = <<>>
  <2>1. Out = Sent
    BY <1>8, OutFacts
  <2>2. Len(Out) = n /\ n # n + 1
    BY <1>5, <2>1 DEF n
  <2> QED
    BY <1>2, <1>5, <1>7, <2>1, <2>2 DEF n, b
<1>9. ASSUME NEW c \in Byte, tdr = <<c>>
      PROVE  /\ Len(Out) = n + 1 /\ Out[n + 1] = c /\ c[1] # w
             /\ \A i \in 1 .. n : Out[i] = Sent[i]
  <2>1. Out = Append(Sent, c)
    BY <1>9, OutFacts
  <2>2. tdr # <<>> /\ tdr[1] = c
    BY <1>9, OneByte
  <2>3. c[1] # w
    BY <1>1, <2>2 DEF NoByteOfItsOwn
  <2> QED
    BY <1>5, <1>9, <2>1, <2>3, AppendProperties DEF n
<1>10. tdr = <<>> \/ \E c \in Byte : tdr = <<c>>
  BY DEF TypeOK
<1>11. CASE \E c \in Byte : tdr = <<c>>
  BY <1>2, <1>5, <1>7, <1>9, <1>11 DEF n, b
<1> QED
  BY <1>8, <1>10, <1>11

(* Only stm32_putc changes what is out, or counts a byte. *)
LEMMA OtherSteps ==
  ASSUME TypeOK, [Next]_vars, \A w \in Writers : ~PutByte(w)
  PROVE  Out' = Out /\ accepted' = accepted
<1>1. CASE LoadShift \/ SendFrame
  BY <1>1, HardwareKeepsOut DEF LoadShift, SendFrame, thread
<1>2. CASE UNCHANGED <<wire, tsr, tdr, accepted>>
  BY <1>2 DEF Out
<1>3. ASSUME NEW w \in Writers, StartPolling(w) \/ WriteStart(w) \/ WriteStep(w), ~PutByte(w)
      PROVE  UNCHANGED <<wire, tsr, tdr, accepted>>
  BY <1>3 DEF StartPolling, WriteStart, WriteStep, TestTxe, EnableTc, ArmTc, CompletionWait,
              CompletionWoken, hw
<1>4. TcIsr => UNCHANGED <<wire, tsr, tdr, accepted>>
  BY DEF TcIsr
<1>5. UNCHANGED vars => UNCHANGED <<wire, tsr, tdr, accepted>>
  BY DEF vars, hw, thread
<1> QED
  BY <1>1, <1>2, <1>3, <1>4, <1>5 DEF Next, Finished

(* A data register that a writer found empty gets no byte of its own before
   it puts one there. *)
LEMMA StepOwn ==
  ASSUME TypeOK, NoByteOfItsOwn, [Next]_vars
  PROVE  NoByteOfItsOwn'
<1>1. CASE UNCHANGED <<pc, tdr>>
  BY <1>1 DEF NoByteOfItsOwn
<1>2. ASSUME NEW w \in Writers, NEW label, Goto(w, label), label # "put" \/ tdr = <<>>,
             UNCHANGED tdr
      PROVE  NoByteOfItsOwn'
  <2>1. pc'[w] = label /\ \A v \in Writers \ {w} : pc'[v] = pc[v]
    BY <1>2, Went
  <2> QED
    BY <1>2, <2>1 DEF NoByteOfItsOwn
<1>3. ASSUME NEW w \in Writers, WriteStart(w)
      PROVE  NoByteOfItsOwn'
  BY <1>2, <1>3 DEF WriteStart, hw
<1>4. ASSUME NEW w \in Writers, TestTxe(w)
      PROVE  NoByteOfItsOwn'
  <2>1. CASE tdr = <<>>
    BY <1>2, <1>4, <2>1 DEF TestTxe, hw
  <2>2. CASE tdr # <<>>
    BY <1>2, <1>4, <2>2 DEF TestTxe, hw
  <2> QED
    BY <2>1, <2>2
<1>5. ASSUME NEW w \in Writers, PutByte(w)
      PROVE  NoByteOfItsOwn'
  <2>1. Goto(w, "enable") /\ tdr'[1][1] = w
    BY <1>5 DEF PutByte
  <2>2. pc'[w] = "enable"
    BY <2>1, Went
  <2> QED
    BY <2>1, <2>2 DEF NoByteOfItsOwn
<1>6. ASSUME NEW w \in Writers,
             EnableTc(w) \/ ArmTc(w) \/ CompletionWait(w) \/ CompletionWoken(w)
      PROVE  NoByteOfItsOwn'
  BY <1>2, <1>6 DEF EnableTc, ArmTc, CompletionWait, CompletionWoken, hw
<1>7. CASE TcIsr
  <2>1. tdr' = tdr /\ CompletionDone
    BY <1>7 DEF TcIsr
  <2>2. \A w \in Writers : pc'[w] = "put" => pc[w] = "put"
    BY <2>1 DEF CompletionDone, Goto, TypeOK
  <2> QED
    BY <2>1, <2>2 DEF NoByteOfItsOwn
<1>8. CASE LoadShift
  BY <1>8 DEF LoadShift, NoByteOfItsOwn
<1>9. CASE SendFrame
  BY <1>1, <1>9 DEF SendFrame, thread
<1> QED
  BY <1>1, <1>3, <1>4, <1>5, <1>6, <1>7, <1>8, <1>9
  DEF Next, StartPolling, WriteStep, Finished, vars, thread, hw

(* The order of the bytes, from step to step. *)
LEMMA StepOut ==
  ASSUME TypeOK, RoomToWrite, OutInv, [Next]_vars, TypeOK'
  PROVE  OutInv'
<1> USE DEF OutInv
<1>1. NoByteOfItsOwn'
  BY StepOwn
<1>2. CASE \A w \in Writers : ~PutByte(w)
  BY <1>1, <1>2, OtherSteps DEF BytesInOrder, OutIsAccepted
<1>3. ASSUME NEW w \in Writers, PutByte(w)
      PROVE  BytesInOrder' /\ OutIsAccepted'
  <2> DEFINE n == Len(Sent)
  <2>1. /\ accepted[w] \in Nat /\ accepted'[w] = accepted[w] + 1
        /\ \A v \in Writers \ {w} : accepted'[v] = accepted[v]
        /\ n \in Nat
        /\ Out' \in Seq(Byte) /\ Len(Out') = n + 1
        /\ Out'[n + 1] = <<w, accepted[w] + 1>>
        /\ Out \in Seq(Byte) /\ Len(Out) \in {n, n + 1}
        /\ \A i \in 1 .. n : Out'[i] = Out[i]
    BY <1>3, OutPut
  <2> HIDE DEF n
  <2>2. /\ DOMAIN Out' = 1 .. n + 1 /\ 1 .. n \subseteq DOMAIN Out
        /\ \A i \in 1 .. n + 1 : i \in 1 .. n \/ i = n + 1
    BY <2>1
  <2>3. \A i \in 1 .. n : /\ Out[i][1] \in Writers /\ Out[i][2] \in Nat
                          /\ Out[i][2] <= accepted[Out[i][1]]
                          /\ accepted[Out[i][1]] \in Nat
    <3> SUFFICES ASSUME NEW i \in 1 .. n
                 PROVE  /\ Out[i][1] \in Writers /\ Out[i][2] \in Nat
                        /\ Out[i][2] <= accepted[Out[i][1]]
                        /\ accepted[Out[i][1]] \in Nat
      OBVIOUS
    <3>1. i \in DOMAIN Out
      BY <2>2
    <3>2. Out[i] \in Byte
      BY <2>1, <3>1
    <3>3. Out[i][1] \in Writers /\ Out[i][2] \in 1 .. MaxBytes
      BY <3>2 DEF Byte
    <3> QED
      BY <3>1, <3>3 DEF OutIsAccepted, TypeOK
  <2>4. OutIsAccepted'
    <3> SUFFICES ASSUME NEW i \in 1 .. n + 1
                 PROVE  Out'[i][2] <= accepted'[Out'[i][1]]
      BY <2>2 DEF OutIsAccepted
    <3>1. CASE i \in 1 .. n
      <4>1. Out'[i] = Out[i]
        BY <2>1, <3>1
      <4>2. /\ Out[i][1] \in Writers /\ Out[i][2] \in Nat
            /\ Out[i][2] <= accepted[Out[i][1]] /\ accepted[Out[i][1]] \in Nat
        BY <2>3, <3>1
      <4>3. CASE Out[i][1] = w
        BY <2>1, <4>1, <4>2, <4>3
      <4>4. CASE Out[i][1] # w
        BY <2>1, <4>1, <4>2, <4>4
      <4> QED
        BY <4>3, <4>4
    <3>2. CASE i = n + 1
      BY <2>1, <3>2
    <3> QED
      BY <2>2, <3>1, <3>2
  <2>5. BytesInOrder'
    <3> SUFFICES ASSUME NEW i \in 1 .. n + 1, NEW j \in 1 .. n + 1,
                        i < j, Out'[i][1] = Out'[j][1]
                 PROVE  Out'[i][2] < Out'[j][2]
      BY <2>2 DEF BytesInOrder
    <3>1. i \in 1 .. n
      BY <2>1
    <3>2. CASE j \in 1 .. n
      BY <2>1, <2>2, <3>1, <3>2 DEF BytesInOrder
    <3>3. CASE j = n + 1
      <4>1. Out'[j] = <<w, accepted[w] + 1>> /\ Out'[i] = Out[i]
        BY <2>1, <3>1, <3>3
      <4>2. Out[i][1] = w /\ Out[i][2] \in Nat /\ Out[i][2] <= accepted[w]
        BY <2>3, <3>1, <4>1
      <4> QED
        BY <2>1, <4>1, <4>2
    <3> QED
      BY <2>2, <3>2, <3>3
  <2> QED
    BY <2>4, <2>5
<1> QED
  BY <1>1, <1>2, <1>3

(* How many bytes of a writer are lost is a number. *)
LEMMA CountOfOut ==
  ASSUME TypeOK, NEW w
  PROVE  LET S == {i \in DOMAIN Out : Out[i][1] = w}
         IN  IsFiniteSet(S) /\ Cardinality(S) \in Nat
<1> DEFINE n == Len(Out)
           S == {i \in DOMAIN Out : Out[i][1] = w}
<1>1. n \in Nat /\ DOMAIN Out = 1 .. n
  BY OutFacts
<1>2. IsFiniteSet(1 .. n) /\ S \in SUBSET (1 .. n)
  BY <1>1, FS_Interval
<1> HIDE DEF S, n
<1>3. IsFiniteSet(S)
  BY <1>2, FS_Subset
<1>4. Cardinality(S) \in Nat
  BY <1>3, FS_CardinalityType
<1> QED
  BY <1>3, <1>4 DEF S

(* A byte put by w costs w none: only other writers lose by it. *)
LEMMA PutLosesNoneOfItsOwn ==
  ASSUME TypeOK, RoomToWrite, NoByteOfItsOwn, NEW w \in Writers, PutByte(w), TypeOK'
  PROVE  Lost(w)' = Lost(w) /\ Lost(w) \in Int
<1> DEFINE n == Len(Sent)
           S == {i \in DOMAIN Out : Out[i][1] = w}
           T == {i \in DOMAIN Out' : Out'[i][1] = w}
<1>1. /\ accepted[w] \in Nat /\ accepted'[w] = accepted[w] + 1
      /\ n \in Nat
      /\ Out' \in Seq(Byte) /\ Len(Out') = n + 1
      /\ Out'[n + 1] = <<w, accepted[w] + 1>>
      /\ Out \in Seq(Byte) /\ Len(Out) \in {n, n + 1}
      /\ \A i \in 1 .. n : Out'[i] = Out[i]
      /\ Len(Out) = n + 1 => Out[n + 1][1] # w
  BY OutPut
<1>2. IsFiniteSet(S) /\ Cardinality(S) \in Nat
  BY CountOfOut
<1> HIDE DEF n
<1>3. /\ DOMAIN Out' = 1 .. n + 1 /\ 1 .. n \subseteq DOMAIN Out
      /\ \A i \in DOMAIN Out : i \in 1 .. n \/ (i = n + 1 /\ Len(Out) = n + 1)
      /\ \A i \in 1 .. n + 1 : i \in 1 .. n \/ i = n + 1
      /\ 1 .. n \subseteq 1 .. n + 1 /\ n + 1 \in 1 .. n + 1 /\ n + 1 \notin 1 .. n
  BY <1>1
<1>4. n + 1 \notin S
  BY <1>1, <1>3
<1>5. T = S \cup {n + 1}
  BY <1>1, <1>3
<1>6. Lost(w) = accepted[w] - Cardinality(S) /\ Lost(w)' = accepted'[w] - Cardinality(T)
  BY DEF Lost
<1> HIDE DEF S, T
<1>7. Cardinality(T) = Cardinality(S) + 1
  BY <1>2, <1>4, <1>5, FS_AddElement
<1> QED
  BY <1>1, <1>2, <1>6, <1>7

-----------------------------------------------------------------------------
(* The invariant of the transmission. *)
LEMMA TxInvHolds == Spec => []TxInv
<1>1. Init => TxInv
  BY TxInit
<1>2. TxInv /\ [Next]_vars => TxInv'
  <2> SUFFICES ASSUME TxInv, [Next]_vars
               PROVE  TxInv'
    OBVIOUS
  <2>1. TypeOK' /\ RoomToWrite'
    BY StepType DEF TxInv, WakeInv
  <2>2. WakeInv'
    BY StepWake DEF TxInv
  <2>3. OutInv'
    BY <2>1, StepOut DEF TxInv
  <2> QED
    BY <2>1, <2>2, <2>3 DEF TxInv
<1> QED
  BY <1>1, <1>2, PTL DEF Spec

(* Every variable of the transmission keeps its type: usart_write counts no
   byte it was not given. *)
THEOREM TxTypeCorrect == Spec => []TypeOK
<1>1. TxInv => TypeOK
  BY DEF TxInv
<1> QED
  BY <1>1, TxInvHolds, PTL

(* Whatever writers interrupt each other, the bytes of each leave in the
   order it wrote them, none of them twice. *)
THEOREM EachWriterInOrder == Spec => []BytesInOrder
<1>1. TxInv => BytesInOrder
  BY DEF TxInv, OutInv
<1> QED
  BY <1>1, TxInvHolds, PTL

(* No wake-up is lost: a writer suspended on the completion of serial.c has
   an interrupt coming, or another writer that will bring one about. *)
THEOREM NoWakeUpIsLost == Spec => []WakeUpOnItsWay
<1>1. TxInv => WakeUpOnItsWay
  <2> SUFFICES ASSUME TxInv, waiters # <<>>, ~Some({"woken", "test", "put", "enable", "arm", "wait"})
               PROVE  tcie /\ (tc \/ tsr # <<>> \/ tdr # <<>>)
    BY DEF WakeUpOnItsWay, Some
  <2>1. 1 \in DOMAIN waiters /\ waiters[1] \in Writers
    BY DEF TxInv, TypeOK
  <2>2. pc[waiters[1]] = "asleep"
    BY <2>1 DEF TxInv, WakeInv, AsleepWait
  <2>3. Some({"arm", "wait", "asleep"}) /\ Some({"wait", "asleep"})
    BY <2>1, <2>2 DEF Some
  <2> QED
    BY <2>3 DEF TxInv, WakeInv, SomethingToWaitFor, InterruptIsEnabled, Some
<1> QED
  BY <1>1, TxInvHolds, PTL

(* A byte is overwritten in the data register only by another writer that is
   inside usart_write at that moment: a single one loses nothing. *)
THEOREM OnlyOthersOverrun == Spec => OverrunTakesTwoWriters
<1>1. TxInv /\ TxInv' /\ [Next]_vars =>
        [\A w \in Writers : Lost(w)' > Lost(w) => \E v \in Writers \ {w} : pc[v] # "idle"]_vars
  <2> SUFFICES ASSUME TxInv, TxInv', [Next]_vars, NEW w \in Writers, Lost(w)' > Lost(w)
               PROVE  \E v \in Writers \ {w} : pc[v] # "idle"
    OBVIOUS
  <2>1. TypeOK /\ RoomToWrite /\ NoByteOfItsOwn /\ TypeOK'
    BY DEF TxInv, OutInv
  <2>2. Lost(w) \in Int
    <3>1. accepted[w] \in Nat
      BY <2>1 DEF TypeOK
    <3> QED
      BY <2>1, <3>1, CountOfOut DEF Lost
  <2>3. PICK v \in Writers : PutByte(v)
    <3> SUFFICES ASSUME \A v \in Writers : ~PutByte(v)
                 PROVE  FALSE
      OBVIOUS
    <3>1. Out' = Out /\ accepted' = accepted
      BY <2>1, OtherSteps
    <3>2. Lost(w)' = Lost(w)
      BY <3>1 DEF Lost
    <3> QED
      BY <2>2, <3>2
  <2>4. v # w
    <3> SUFFICES ASSUME v = w
                 PROVE  FALSE
      OBVIOUS
    <3>1. Lost(w)' = Lost(w)
      BY <2>1, <2>3, PutLosesNoneOfItsOwn
    <3> QED
      BY <2>2, <3>1
  <2>5. pc[v] # "idle"
    BY <2>3 DEF PutByte, At
  <2> QED
    BY <2>4, <2>5
<1> QED
  BY <1>1, TxInvHolds, PTL DEF Spec, OverrunTakesTwoWriters
=============================================================================
