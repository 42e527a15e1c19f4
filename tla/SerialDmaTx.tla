----------------------------- MODULE SerialDmaTx -----------------------------
(***************************************************************************)
(* Transmission by DMA (rt_ext/serial.c; no UART of this firmware has it)  *)
(* over a data queue with blocking pushes (rt_ext/dataqueue.c).  A writer  *)
(* pushes its block in one critical section and, in another one, starts    *)
(* the DMA if it is idle; the interrupt of a finished block takes it off   *)
(* the queue and starts the next one.  Blocks are numbered as they are     *)
(* queued, 1 .. LastBlock in turn; 0 stands for none.                      *)
(***************************************************************************)
EXTENDS DataQueue, Sequences

CONSTANTS Writers,
          DmaPrio,    \* RT-Thread priorities: the smaller, the more urgent
          LowMark,    \* queue->lwm: 4 of 8
          LastBlock,  \* bound
          MaxQueued   \* bound: blocks in the queue, when it is not seen full

ASSUME DmaTxAssumption == /\ DmaPrio \in [Writers -> Nat]
                          /\ LowMark \in Nat /\ LastBlock \in Nat \ {0}
                          /\ MaxQueued \in QSize .. IndexMod - 1

VARIABLES txq,        \* tx_dma->data_queue
          pushers,    \* its suspended_push_list
          activated,  \* tx_dma->activated
          line,       \* the block the DMA is sending, or NoItem
          own,        \* own[w]: the block of w's call, once it is queued
          dpc,        \* where each writer is inside rt_serial_write
          newest,     \* number of the block queued last
          disturbed   \* since the line was last idle, another push came
                      \* between a push and its look at activated, or the
                      \* interrupt of the pushed block itself did, or a full
                      \* queue was not seen to be full

txVars == <<txq, pushers, activated, line, own, dpc, newest, disturbed>>

TxBlock == 1 .. LastBlock

TxTypeOK ==
  /\ txq \in Queue(TxBlock)
  /\ pushers \in Seq(Writers)
  /\ activated \in BOOLEAN
  /\ line \in TxBlock \cup {NoItem}
  /\ own \in [Writers -> TxBlock \cup {NoItem}]
  /\ dpc \in [Writers -> {"idle", "blocked", "retry", "failed", "activate"}]
  /\ newest \in TxBlock /\ disturbed \in BOOLEAN

(* rt_serial_open with RT_DEVICE_FLAG_DMA_TX. *)
TxInit ==
  /\ txq = EmptyQueue /\ pushers = <<>>
  /\ activated = FALSE /\ line = NoItem
  /\ own = [w \in Writers |-> NoItem]
  /\ dpc = [w \in Writers |-> "idle"]
  /\ newest = LastBlock /\ disturbed = FALSE

(* Strict priorities: a writer runs while the more urgent ones are suspended
   or elsewhere. *)
TxTurn(w) == \A u \in Writers :
               DmaPrio[u] < DmaPrio[w] => dpc[u] \in {"idle", "blocked"}

Activating == {w \in Writers : dpc[w] = "activate"}

-----------------------------------------------------------------------------
(* rt_data_queue_push: a full queue suspends the caller, who looks again when
   it is woken; otherwise the block is queued.  The difference of the 16-bit
   indices is the queue's size only until put_index wraps. *)
DmaPush(w) ==
  /\ TxTurn(w) /\ dpc[w] \in {"idle", "retry"}
  /\ \/ /\ IsFull(txq)
        /\ dpc' = [dpc EXCEPT ![w] = "blocked"]
        /\ pushers' = Append(pushers, w)
        /\ UNCHANGED <<txq, own, newest, disturbed>>
     \/ /\ ~IsFull(txq) /\ Occupancy(txq) < MaxQueued
        /\ newest' = 1 + (newest % LastBlock)
        /\ txq' = Enqueue(txq, newest')
        /\ own' = [own EXCEPT ![w] = newest']
        /\ dpc' = [dpc EXCEPT ![w] = "activate"]
        /\ disturbed' = \/ disturbed
                        \/ ~activated /\ Activating # {}
                        \/ Occupancy(txq) >= QSize
        /\ UNCHANGED pushers
  /\ UNCHANGED <<activated, line>>

(* The rest of _serial_dma_tx: an idle DMA sends the caller's own block. *)
DmaActivate(w) ==
  /\ TxTurn(w) /\ dpc[w] = "activate"
  /\ dpc' = [dpc EXCEPT ![w] = "idle"]
  /\ IF activated THEN UNCHANGED <<activated, line>>
                  ELSE activated' = TRUE /\ line' = own[w]
  /\ own' = [own EXCEPT ![w] = NoItem]
  /\ UNCHANGED <<txq, pushers, newest, disturbed>>

(* A push ended by rt_data_queue_reset: rt_serial_write returns 0. *)
DmaPushFailed(w) ==
  /\ TxTurn(w) /\ dpc[w] = "failed"
  /\ dpc' = [dpc EXCEPT ![w] = "idle"]
  /\ UNCHANGED <<txq, pushers, activated, line, own, newest, disturbed>>

-----------------------------------------------------------------------------
(* rt_data_queue_pop by the interrupt: nothing of an empty queue; and at the
   low-water mark the first suspended pusher is resumed. *)
Popped == IF IsEmpty(txq) THEN txq ELSE Dequeue(txq)

ResumesPusher ==
  ~IsEmpty(txq) /\ Popped.put - Popped.get <= LowMark /\ pushers # <<>>

(* Faulty variant: the pusher suspended last is resumed. *)
TxResumeNewest ==
  IF ResumesPusher
  THEN /\ dpc' = [dpc EXCEPT ![pushers[Len(pushers)]] = "retry"]
       /\ pushers' = SubSeq(pushers, 1, Len(pushers) - 1)
  ELSE UNCHANGED <<dpc, pushers>>

TxResume ==
  IF ResumesPusher
  THEN /\ dpc' = [dpc EXCEPT ![Head(pushers)] = "retry"]
       /\ pushers' = Tail(pushers)
  ELSE UNCHANGED <<dpc, pushers>>

(* rt_data_queue_peak, and the DMA goes on with what it finds. *)
TxContinue(q) ==
  IF IsEmpty(q)
  THEN activated' = FALSE /\ line' = NoItem
  ELSE activated' = TRUE /\ line' = Front(q)

(* Faulty variant: the front is looked at before it is popped. *)
TxDmaDonePeaksFirst ==
  /\ line # NoItem
  /\ txq' = Popped
  /\ TxResume
  /\ TxContinue(txq)
  /\ disturbed' = IF IsEmpty(Popped) THEN Activating # {} ELSE disturbed
  /\ UNCHANGED <<own, newest>>

(* rt_hw_serial_isr, RT_SERIAL_EVENT_TX_DMADONE.  That the line is idle and
   nobody is about to start it ends what a disturbed writer began. *)
TxDmaDone ==
  /\ line # NoItem
  /\ txq' = Popped
  /\ TxResume
  /\ TxContinue(Popped)
  /\ disturbed' = IF IsEmpty(Popped) THEN Activating # {} ELSE disturbed
  /\ UNCHANGED <<own, newest>>

(* rt_data_queue_reset, which nothing here calls: every suspended pusher is
   woken with an error, and the blocks stay. *)
DmaQueueReset ==
  /\ pushers # <<>>
  /\ dpc' = [w \in Writers |-> IF dpc[w] = "blocked" THEN "failed" ELSE dpc[w]]
  /\ pushers' = <<>>
  /\ UNCHANGED <<txq, activated, line, own, newest, disturbed>>

-----------------------------------------------------------------------------
WriterStep(w) == \/ dpc[w] = "retry" /\ DmaPush(w)
                 \/ DmaActivate(w) \/ DmaPushFailed(w)

TxNext == \/ \E w \in Writers : \/ dpc[w] = "idle" /\ DmaPush(w)
                                \/ WriterStep(w)
          \/ TxDmaDone
          \/ DmaQueueReset

(* The DMA finishes its block, and a writer that can run does. *)
TxFairness == WF_txVars(TxDmaDone) /\ WF_txVars(\E w \in Writers : WriterStep(w))

TxSpec == TxInit /\ [][TxNext]_txVars /\ TxFairness

-----------------------------------------------------------------------------
(* The line is busy exactly while the DMA is marked active; it sends the
   oldest block of the queue, and it is idle only while the queue is empty or
   a writer is about to start it - unless, since it was last idle, a writer or
   its own block's interrupt overtook another between the push and the look
   at activated, or a full queue went unnoticed across the wrap. *)
SentInTurnUnlessDisturbed ==
  /\ activated = (line # NoItem)
  /\ ~disturbed =>
       /\ activated => ~IsEmpty(txq) /\ line = Front(txq)
       /\ ~activated /\ ~IsEmpty(txq) => Activating # {}

(* The most urgent writer is not left on the push list: the queue drains to
   its low-water mark, and the place it is woken for is still free. *)
BlockedPushReturns ==
  \A w \in Writers :
    (\A u \in Writers \ {w} : DmaPrio[w] < DmaPrio[u]) =>
      (dpc[w] = "blocked" ~> dpc[w] \in {"activate", "failed"})
=============================================================================
