------------------------------- MODULE MsgFifo -------------------------------
(***************************************************************************)
(* The message FIFO of src/msg_fifo.c, as its three users share it: the    *)
(* main thread and the key thread push, the sender thread pops.  A fixed   *)
(* pool of message units circulates between push_queue (units free to be   *)
(* filled) and pop_queue (units holding a message); whoever pops a unit    *)
(* from a queue fills or reads it outside any critical section, so the     *)
(* FIFO is correct only as long as a unit is in one place at a time.       *)
(*                                                                         *)
(* One action per data-queue operation (interrupts off, atomic) and one    *)
(* per unprotected access to a unit.  The threads run under RT-Thread's    *)
(* strict priorities on one core: a thread moves only while every thread   *)
(* of higher priority is blocked or outside the FIFO.                      *)
(***************************************************************************)
EXTENDS DataQueue, Sequences

CONSTANTS Producers,  \* the threads that call msg_push
          Sender,     \* the thread that calls msg_pop
          Prio,       \* RT-Thread priorities: the smaller, the more urgent
          Msg,        \* message contents
          NoMsg       \* msgSize = 0

Threads == Producers \cup {Sender}

ASSUME FifoAssumption == /\ Sender \notin Producers
                         /\ Prio \in [Threads -> Nat]
                         /\ NoMsg \notin Msg

VARIABLES freeQ,  \* handle->push_queue
          msgQ,   \* handle->pop_queue
          data,   \* data[u]: what unit u holds (msgData and msgSize)
          pc,     \* where each thread is inside msg_push or msg_pop
          mu,     \* the unit a thread took out of a queue
          buf     \* the caller's buffer: being pushed, or received last

vars == <<freeQ, msgQ, data, pc, mu, buf>>

Unit == 1 .. QSize

ProducerPc == {"idle", "steal", "fill", "queue"}
SenderPc   == {"idle", "test", "wait", "copy", "return"}

TypeOK == /\ freeQ \in Queue(Unit)
          /\ msgQ \in Queue(Unit)
          /\ data \in [Unit -> Msg \cup {NoMsg}]
          /\ pc \in [Threads -> ProducerPc \cup SenderPc]
          /\ \A p \in Producers : pc[p] \in ProducerPc
          /\ pc[Sender] \in SenderPc
          /\ mu \in [Threads -> Unit \cup {NoItem}]
          /\ buf \in [Threads -> Msg \cup {NoMsg}]

(* The state msg_init leaves: every unit, empty, pushed on push_queue. *)
Init == /\ freeQ = [EmptyQueue EXCEPT !.put = QSize,
                                      !.slot = [s \in Slot |-> s + 1]]
        /\ msgQ = EmptyQueue
        /\ data = [u \in Unit |-> NoMsg]
        /\ pc = [t \in Threads |-> "idle"]
        /\ mu = [t \in Threads |-> NoItem]
        /\ buf = [t \in Threads |-> NoMsg]

(* Strict priorities: t has the processor only if no more urgent thread
   wants it.  A thread that is "idle" here may become busy at any time. *)
(* Faulty variant: threads of equal rank, sliced at any point. *)
CanRunAnyTime(t) == t \in Threads

CanRun(t) == \A u \in Threads : Prio[u] < Prio[t] => pc[u] \in {"idle", "wait"}

-----------------------------------------------------------------------------
(* msg_push, from the call to the first rt_data_queue_pop: take a free
   unit, or find that there is none. *)
PushStart(p, m) ==
  /\ CanRun(p)
  /\ pc[p] = "idle"
  /\ buf' = [buf EXCEPT ![p] = m]
  /\ \/ /\ ~IsEmpty(freeQ)
        /\ mu' = [mu EXCEPT ![p] = Front(freeQ)]
        /\ freeQ' = Dequeue(freeQ)
        /\ pc' = [pc EXCEPT ![p] = "fill"]
     \/ /\ IsEmpty(freeQ)
        /\ pc' = [pc EXCEPT ![p] = "steal"]
        /\ UNCHANGED <<mu, freeQ>>
  /\ UNCHANGED <<msgQ, data>>

(* Faulty variants: rt_data_queue_peak for rt_data_queue_pop, so that the
   unit stays in the queue; discard the newest message. *)
PushStealPeeks(p) ==
  /\ CanRun(p) /\ pc[p] = "steal" /\ ~IsEmpty(msgQ)
  /\ mu' = [mu EXCEPT ![p] = Front(msgQ)]
  /\ pc' = [pc EXCEPT ![p] = "fill"]
  /\ UNCHANGED <<msgQ, freeQ, data, buf>>

PushStealNewest(p) ==
  /\ CanRun(p) /\ pc[p] = "steal" /\ ~IsEmpty(msgQ)
  /\ mu' = [mu EXCEPT ![p] = ItemAt(msgQ, Occupancy(msgQ) - 1)]
  /\ msgQ' = [msgQ EXCEPT !.put = (@ - 1) % IndexMod]
  /\ pc' = [pc EXCEPT ![p] = "fill"]
  /\ UNCHANGED <<freeQ, data, buf>>

(* The second rt_data_queue_pop: discard the oldest message and reuse its
   unit. *)
PushSteal(p) ==
  /\ CanRun(p)
  /\ pc[p] = "steal"
  /\ ~IsEmpty(msgQ)
  /\ mu' = [mu EXCEPT ![p] = Front(msgQ)]
  /\ msgQ' = Dequeue(msgQ)
  /\ pc' = [pc EXCEPT ![p] = "fill"]
  /\ UNCHANGED <<freeQ, data, buf>>

(* Faulty variant: msg_push does not return when the second pop fails. *)
PushRefusedGoesOn(p) ==
  /\ CanRun(p) /\ pc[p] = "steal" /\ IsEmpty(msgQ)
  /\ pc' = [pc EXCEPT ![p] = "fill"]
  /\ UNCHANGED <<freeQ, msgQ, data, mu, buf>>

(* Both queues are empty: msg_push returns -4 and the message is lost. *)
PushRefused(p) ==
  /\ CanRun(p)
  /\ pc[p] = "steal"
  /\ IsEmpty(msgQ)
  /\ pc' = [pc EXCEPT ![p] = "idle"]
  /\ buf' = [buf EXCEPT ![p] = NoMsg]
  /\ UNCHANGED <<freeQ, msgQ, data, mu>>

(* memcpy into the unit. *)
PushFill(p) ==
  /\ CanRun(p)
  /\ pc[p] = "fill"
  /\ data' = [data EXCEPT ![mu[p]] = buf[p]]
  /\ pc' = [pc EXCEPT ![p] = "queue"]
  /\ UNCHANGED <<freeQ, msgQ, mu, buf>>

(* Faulty variant: the push does not look for a suspended thread. *)
PushQueueResumesNone(p) ==
  /\ CanRun(p) /\ pc[p] = "queue"
  /\ msgQ' = IF IsFull(msgQ) THEN msgQ ELSE Enqueue(msgQ, mu[p])
  /\ pc' = [pc EXCEPT ![p] = "idle"]
  /\ mu' = [mu EXCEPT ![p] = NoItem]
  /\ buf' = [buf EXCEPT ![p] = NoMsg]
  /\ UNCHANGED <<freeQ, data>>

(* rt_data_queue_push on pop_queue.  msg_push ignores its result, so a
   unit that does not fit is lost.  A push resumes the thread suspended on
   the queue. *)
PushQueue(p) ==
  /\ CanRun(p)
  /\ pc[p] = "queue"
  /\ IF IsFull(msgQ)
     THEN pc' = [pc EXCEPT ![p] = "idle"] /\ UNCHANGED msgQ
     ELSE /\ msgQ' = Enqueue(msgQ, mu[p])
          /\ pc' = [pc EXCEPT ![p] = "idle",
                              ![Sender] = IF @ = "wait" THEN "test" ELSE @]
  /\ mu' = [mu EXCEPT ![p] = NoItem]
  /\ buf' = [buf EXCEPT ![p] = NoMsg]
  /\ UNCHANGED <<freeQ, data>>

-----------------------------------------------------------------------------
(* msg_pop, the loop of rt_data_queue_pop on pop_queue: entered by the call
   ("idle") and again after a wake-up ("test"), it takes the oldest unit or
   suspends the thread with its timer running. *)
PopTest ==
  /\ CanRun(Sender)
  /\ pc[Sender] \in {"idle", "test"}
  /\ \/ /\ ~IsEmpty(msgQ)
        /\ mu' = [mu EXCEPT ![Sender] = Front(msgQ)]
        /\ msgQ' = Dequeue(msgQ)
        /\ pc' = [pc EXCEPT ![Sender] = "copy"]
     \/ /\ IsEmpty(msgQ)
        /\ pc' = [pc EXCEPT ![Sender] = "wait"]
        /\ UNCHANGED <<mu, msgQ>>
  /\ UNCHANGED <<freeQ, data, buf>>

(* The thread timer runs out: msg_pop returns -RT_ETIMEOUT. *)
PopTimeout ==
  /\ pc[Sender] = "wait"
  /\ pc' = [pc EXCEPT ![Sender] = "idle"]
  /\ UNCHANGED <<freeQ, msgQ, data, mu, buf>>

(* memcpy out of the unit, which is then marked empty. *)
PopCopy ==
  /\ CanRun(Sender)
  /\ pc[Sender] = "copy"
  /\ buf' = [buf EXCEPT ![Sender] = data[mu[Sender]]]
  /\ data' = [data EXCEPT ![mu[Sender]] = NoMsg]
  /\ pc' = [pc EXCEPT ![Sender] = "return"]
  /\ UNCHANGED <<freeQ, msgQ, mu>>

(* Faulty variant: the unit is not given back. *)
PopReturnKeepsUnit ==
  /\ CanRun(Sender) /\ pc[Sender] = "return"
  /\ mu' = [mu EXCEPT ![Sender] = NoItem]
  /\ pc' = [pc EXCEPT ![Sender] = "idle"]
  /\ UNCHANGED <<freeQ, msgQ, data, buf>>

(* rt_data_queue_push on push_queue, result ignored. *)
PopReturn ==
  /\ CanRun(Sender)
  /\ pc[Sender] = "return"
  /\ freeQ' = IF IsFull(freeQ) THEN freeQ ELSE Enqueue(freeQ, mu[Sender])
  /\ mu' = [mu EXCEPT ![Sender] = NoItem]
  /\ pc' = [pc EXCEPT ![Sender] = "idle"]
  /\ UNCHANGED <<msgQ, data, buf>>

-----------------------------------------------------------------------------
Push(p) == \/ \E m \in Msg : PushStart(p, m)
           \/ PushSteal(p)
           \/ PushRefused(p)
           \/ PushFill(p)
           \/ PushQueue(p)

Pop == PopTest \/ PopTimeout \/ PopCopy \/ PopReturn

Next == (\E p \in Producers : Push(p)) \/ Pop

Spec == Init /\ [][Next]_vars

-----------------------------------------------------------------------------
(* A unit has exactly one owner: a position of one of the two queues, or a
   thread.  Two owners mean that a producer fills a unit the sender is
   reading (msg_fifo.c:140, 175); no owner means that the unit is lost. *)
InQueue(u, q)    == {k \in 0 .. Occupancy(q) - 1 : ItemAt(q, k) = u}
Holders(u)       == {t \in Threads : mu[t] = u}
Owners(u) == (InQueue(u, freeQ) \X {"free"}) \cup
             (InQueue(u, msgQ) \X {"queued"}) \cup (Holders(u) \X {"held"})

UnitOwnedOnce == \A u \in Unit : \E o \in Owners(u) : Owners(u) = {o}

(* A thread is between taking a unit and giving it back exactly when it
   holds one. *)
HoldsIffBusy ==
  \A t \in Threads : mu[t] # NoItem <=> pc[t] \in {"fill", "queue", "copy", "return"}

(* The sender is never left suspended on a queue that has a message: the
   push that makes the queue non-empty resumes it (dataqueue.c:126). *)
NoLostWakeup == pc[Sender] = "wait" => IsEmpty(msgQ)

(* A message is discarded only when no unit is free at that moment, not
   merely when none was free at the earlier test: msg_push makes the two
   tests in separate critical sections (msg_fifo.c:125, 130). *)
EvictOnlyWhenNoneFree ==
  [][\A p \in Producers : pc[p] = "steal" /\ pc'[p] = "fill" => IsEmpty(freeQ)]_vars

(* The newest message is refused only when every unit is in the hands of the
   other threads at that moment (msg_fifo.c:130, 137): a unit that lies in
   either queue between the two tests of msg_push would have taken it. *)
InOtherHands(p, u) == \E t \in Threads \ {p} : mu[t] = u
RefusedOnlyWhenAllInHand ==
  [][\A p \in Producers : pc[p] = "steal" /\ pc'[p] = "idle" =>
                             \A u \in Unit : InOtherHands(p, u)]_vars

(* With at least as many units as threads the newest message is always
   accepted. *)
NewestNeverRefused ==
  [][\A p \in Producers : pc[p] = "steal" => pc'[p] # "idle"]_vars

(* The FIFO keeps the length it was configured with (AT+MSGS): the units
   that still circulate are as many as msg_init allocated. *)
Circulating == {u \in Unit : Owners(u) # {}}
KeepsItsLength == Circulating = Unit

(* The users see a bounded FIFO that delivers every message unaltered, in
   order and at most once, and that loses only the oldest ones. *)
Abstract == INSTANCE LossyFifo
              WITH Value    <- Msg,
                   NoValue  <- NoMsg,
                   Capacity <- QSize,
                   fifo     <- [k \in 1 .. Occupancy(msgQ) |-> data[Items(msgQ)[k]]],
                   taken    <- IF pc[Sender] = "copy" THEN data[mu[Sender]]
                                                      ELSE buf[Sender]
DeliversInOrder == Abstract!FifoSpec
=============================================================================
