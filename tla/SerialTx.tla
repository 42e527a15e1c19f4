------------------------------- MODULE SerialTx -------------------------------
(***************************************************************************)
(* Interrupt-driven transmission on one UART: usart_write down to the data *)
(* register and back up through the transmission-complete interrupt and    *)
(* the completion it signals (usart_utils.c, serial.c, usart.c,            *)
(* completion.c).  No lock is taken on the way, so the interleavings of    *)
(* several writing threads, the interrupt and the shift register are those *)
(* of single register accesses and of the completion's critical sections.  *)
(*                                                                         *)
(* The n-th byte thread w writes is <<w, n>>.  MaxBytes bounds how many    *)
(* bytes a thread writes in all.                                           *)
(***************************************************************************)
EXTENDS Integers, Sequences, FiniteSets

CONSTANTS Writers,  \* threads that write to this UART
          Pollers,  \* those that may come to run USERCOM_direct_BC95COM
          Prio,     \* RT-Thread priorities: the smaller, the more urgent
          MaxBytes

ASSUME TxAssumption == /\ Prio \in [Writers -> Nat] /\ Pollers \subseteq Writers
                       /\ MaxBytes \in Nat

VARIABLES pc,        \* where each thread is inside _serial_int_tx
          accepted,  \* accepted[w]: bytes of w written to the data register
          polling,   \* those that run USERCOM_direct_BC95COM
          tdr,       \* transmit data register: <<>> (TXE set) or <<byte>>
          tsr,       \* shift register: <<>> or <<byte>>
          tc,        \* SR.TC, transmission complete
          tcie,      \* CR1.TCIE, its interrupt is enabled
          flag,      \* completion->flag = RT_COMPLETED
          waiters,   \* completion->suspended_list
          wire       \* the bytes that have left the UART

thread == <<pc, accepted, polling>>
hw     == <<tdr, tsr, tc, tcie, wire>>
compl  == <<flag, waiters>>
vars   == <<thread, hw, compl>>

Byte == Writers \X (1 .. MaxBytes)

PcValues == {"idle", "test", "put", "enable", "arm", "wait", "asleep", "woken"}

TypeOK == /\ pc \in [Writers -> PcValues]
          /\ accepted \in [Writers -> 0 .. MaxBytes]
          /\ polling \subseteq Pollers
          /\ tdr \in {<<>>} \cup {<<b>> : b \in Byte}
          /\ tsr \in {<<>>} \cup {<<b>> : b \in Byte}
          /\ {tc, tcie, flag} \subseteq BOOLEAN
          /\ waiters \in Seq(Writers)
          /\ wire \in Seq(Byte)

(* After reset and rt_serial_open: TXE and TC set, interrupt disabled,
   completion initialised. *)
Init == /\ pc = [w \in Writers |-> "idle"]
        /\ accepted = [w \in Writers |-> 0] /\ polling = {}
        /\ tdr = <<>> /\ tsr = <<>> /\ tc = TRUE /\ tcie = FALSE
        /\ flag = FALSE /\ waiters = <<>>
        /\ wire = <<>>

(* Strict priorities: a thread may run while every more urgent one is outside
   usart_write, where it may wait for something else, or is suspended. *)
CanRun(w) == \A v \in Writers : Prio[v] < Prio[w] => pc[v] \in {"idle", "asleep"}

At(w, label) == CanRun(w) /\ pc[w] = label
Goto(w, label) == pc' = [pc EXCEPT ![w] = label]

-----------------------------------------------------------------------------
(* Debug mode: from now on the thread reads its ports without ever waiting
   for a byte, and writes what it reads. *)
StartPolling(w) ==
  /\ At(w, "idle")
  /\ w \in Pollers \ polling
  /\ polling' = polling \cup {w}
  /\ UNCHANGED <<pc, accepted, hw, compl>>

(* usart_write with at least one byte. *)
WriteStart(w) ==
  /\ At(w, "idle")
  /\ accepted[w] < MaxBytes
  /\ Goto(w, "test")
  /\ UNCHANGED <<accepted, polling, hw, compl>>

(* Faulty variant: stm32_putc does not test TXE. *)
TestNothing(w) ==
  /\ At(w, "test")
  /\ Goto(w, "put")
  /\ UNCHANGED <<accepted, polling, hw, compl>>

(* stm32_putc: read SR. *)
TestTxe(w) ==
  /\ At(w, "test")
  /\ Goto(w, IF tdr = <<>> THEN "put" ELSE "arm")
  /\ UNCHANGED <<accepted, polling, hw, compl>>

(* Faulty variant: _serial_int_tx does not step to the next byte. *)
PutByteAgain(w) ==
  /\ At(w, "put")
  /\ accepted' = [accepted EXCEPT ![w] = IF @ = 0 THEN 1 ELSE @]
  /\ tdr' = <<<<w, accepted'[w]>>>>
  /\ tc' = FALSE
  /\ Goto(w, "enable")
  /\ UNCHANGED <<polling, tsr, tcie, wire, compl>>

(* stm32_putc: write DR.  The register takes the byte whatever it held, and
   the write that follows the read of SR clears TC. *)
PutByte(w) ==
  /\ At(w, "put")
  /\ accepted' = [accepted EXCEPT ![w] = @ + 1]
  /\ tdr' = <<<<w, accepted'[w]>>>>
  /\ tc' = FALSE
  /\ Goto(w, "enable")
  /\ UNCHANGED <<polling, tsr, tcie, wire, compl>>

(* Faulty variant: the loop runs once too often. *)
EnableTcOffByOne(w) ==
  /\ At(w, "enable")
  /\ tcie' = TRUE
  /\ Goto(w, IF accepted[w] <= MaxBytes THEN "test" ELSE "idle")
  /\ UNCHANGED <<accepted, polling, tdr, tsr, tc, wire, compl>>

(* stm32_putc: enable the interrupt, return 1.  _serial_int_tx goes on with
   the next byte or is done. *)
EnableTc(w) ==
  /\ At(w, "enable")
  /\ tcie' = TRUE
  /\ \/ accepted[w] < MaxBytes /\ Goto(w, "test")
     \/ Goto(w, "idle")
  /\ UNCHANGED <<accepted, polling, tdr, tsr, tc, wire, compl>>

(* stm32_putc when the register is full: enable the interrupt, return -1. *)
ArmTc(w) ==
  /\ At(w, "arm")
  /\ tcie' = TRUE
  /\ Goto(w, "wait")
  /\ UNCHANGED <<accepted, polling, tdr, tsr, tc, wire, compl>>

(* Faulty variant: suspend without looking at the flag. *)
CompletionWaitBlindly(w) ==
  /\ At(w, "wait")
  /\ waiters' = Append(waiters, w)
  /\ Goto(w, "asleep")
  /\ UNCHANGED <<flag, accepted, polling, hw>>

(* rt_completion_wait, a critical section: consume the flag or suspend. *)
CompletionWait(w) ==
  /\ At(w, "wait")
  /\ \/ /\ flag
        /\ flag' = FALSE
        /\ Goto(w, "test")
        /\ UNCHANGED waiters
     \/ /\ ~flag
        /\ waiters' = Append(waiters, w)
        /\ Goto(w, "asleep")
        /\ UNCHANGED flag
  /\ UNCHANGED <<accepted, polling, hw>>

(* rt_completion_wait after the wake-up: clear the flag. *)
CompletionWoken(w) ==
  /\ At(w, "woken")
  /\ flag' = FALSE
  /\ Goto(w, "test")
  /\ UNCHANGED <<accepted, polling, hw, waiters>>

-----------------------------------------------------------------------------
(* rt_completion_done: a flag still set means nothing to do; otherwise set
   it and resume the first thread suspended. *)
CompletionDone ==
  /\ flag' = TRUE
  /\ IF flag \/ waiters = <<>>
     THEN UNCHANGED <<pc, waiters>>
     ELSE /\ Goto(Head(waiters), "woken")
          /\ waiters' = Tail(waiters)

(* Faulty variant: the interrupt does not signal the completion. *)
TcIsrSilent ==
  /\ tc /\ tcie
  /\ tcie' = FALSE
  /\ tc' = FALSE
  /\ UNCHANGED <<tdr, tsr, wire, thread, compl>>

(* uart_isr on TC: signal the completion, disable the interrupt, clear TC. *)
TcIsr ==
  /\ tc /\ tcie
  /\ CompletionDone
  /\ tcie' = FALSE
  /\ tc' = FALSE
  /\ UNCHANGED <<accepted, polling, tdr, tsr, wire>>

(* The shift register loads the next byte, and sends it; TC is set at the
   end of a frame with no byte behind it. *)
LoadShift ==
  /\ tsr = <<>> /\ tdr # <<>>
  /\ tsr' = tdr
  /\ tdr' = <<>>
  /\ UNCHANGED <<tc, tcie, wire, thread, compl>>

SendFrame ==
  /\ tsr # <<>>
  /\ wire' = wire \o tsr
  /\ tsr' = <<>>
  /\ tc' = (tc \/ tdr = <<>>)
  /\ UNCHANGED <<tdr, tcie, thread, compl>>

-----------------------------------------------------------------------------
WriteStep(w) == TestTxe(w) \/ PutByte(w) \/ EnableTc(w) \/ ArmTc(w)
                \/ CompletionWait(w) \/ CompletionWoken(w)

(* Everything has been written and sent, and no thread is inside. *)
Finished == /\ \A w \in Writers : pc[w] = "idle" /\ accepted[w] = MaxBytes
            /\ tdr = <<>> /\ tsr = <<>> /\ ~(tc /\ tcie)
            /\ UNCHANGED vars

Next == \/ \E w \in Writers : StartPolling(w) \/ WriteStart(w) \/ WriteStep(w)
        \/ TcIsr \/ LoadShift \/ SendFrame
        \/ Finished

(* The hardware runs by itself, and an enabled interrupt is taken.  A thread
   that may run does, unless a more urgent one is polling: outside usart_write
   that one waits only when a write to another UART makes it, and nothing says
   that it will write there again. *)
MoreUrgentPollers(w) == {v \in polling : Prio[v] < Prio[w]}
Starved(w) == \E v \in MoreUrgentPollers(w) : pc[v] = "idle"

Fairness == /\ \A w \in Writers : WF_vars(WriteStep(w) /\ ~Starved(w))
            /\ WF_vars(TcIsr) /\ WF_vars(LoadShift) /\ WF_vars(SendFrame)

Spec == Init /\ [][Next]_vars /\ Fairness

-----------------------------------------------------------------------------
(* The bytes that have left, and those that have not, in their order. *)
Out == wire \o tsr \o tdr

(* Nothing leaves twice or before what its writer wrote earlier. *)
BytesInOrder ==
  \A i, j \in DOMAIN Out :
    i < j /\ Out[i][1] = Out[j][1] => Out[i][2] < Out[j][2]

(* A byte its writer believes sent is lost, overwritten in the data register
   between the test of TXE and the write (usart.c:154, 159), only when two
   threads are inside usart_write at once: with a single writer every byte
   leaves, interrupts and wake-ups notwithstanding. *)
Lost(w) == accepted[w] - Cardinality({i \in DOMAIN Out : Out[i][1] = w})
OverrunTakesTwoWriters ==
  [][\A w \in Writers :
       Lost(w)' > Lost(w) => \E v \in Writers \ {w} : pc[v] # "idle"]_vars

(* "only one thread can suspend on complete" (completion.c:58). *)
OneThreadSuspends == Len(waiters) <= 1

(* A thread asleep on the completion will be woken: the UART is still
   sending, or its interrupt is pending, or a wake-up is on its way.  The
   interrupt is disabled after the completion is signalled (usart.c:266,
   268), and a stale flag may have been consumed before. *)
WakeUpOnItsWay ==
  waiters # <<>> =>
    \/ tcie /\ (tc \/ tsr # <<>> \/ tdr # <<>>)
    \/ \E w \in Writers : pc[w] \in {"woken", "test", "put", "enable", "arm", "wait"}

(* usart_write returns, whoever else writes and however the wake-ups of
   several writers fall, but for a thread less urgent than one that polls: in
   debug mode (main.c:661) the sender may never get out of it. *)
WriteReturns ==
  \A w \in Writers : pc[w] # "idle" ~> pc[w] = "idle" \/ MoreUrgentPollers(w) # {}
=============================================================================
