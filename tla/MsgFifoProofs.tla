---------------------------- MODULE MsgFifoProofs ----------------------------
(***************************************************************************)
(* The message FIFO keeps every unit, once, for any number of threads, any *)
(* priorities, and any length that divides the range of the queue indices. *)
(***************************************************************************)
EXTENDS MsgFifo, DataQueueProofs, SequenceTheorems

(* Where the units are: no queue holds one twice, no two places hold the
   same one, and every unit is somewhere. *)
InHand == {mu[t] : t \in Threads} \ {NoItem}

Separate == /\ NoRepeats(freeQ)
            /\ NoRepeats(msgQ)
            /\ Held(freeQ) \cap Held(msgQ) = {}
            /\ Held(freeQ) \cap InHand = {}
            /\ Held(msgQ) \cap InHand = {}
            /\ \A s, t \in Threads : mu[s] = mu[t] /\ mu[s] # NoItem => s = t

AllThere == Held(freeQ) \cup Held(msgQ) \cup InHand = Unit

(* The inductive invariant.  UnitOwnedOnce is not inductive by itself: the
   proof needs to know that a thread about to queue a unit holds one, and
   that the queue it goes to has room, which follows from the unit being
   outside that queue. *)
IInv == TypeOK /\ HoldsIffBusy /\ NoLostWakeup /\ Separate /\ AllThere

USE DEF Unit

(* Units, threads and messages are told apart from their "none" values, and
   the sender from the producers. *)
LEMMA UnitFacts ==
  /\ QSize \in Nat /\ QSize > 0
  /\ NoItem \notin Unit
  /\ Sender \in Threads /\ Sender \notin Producers
  /\ Producers \subseteq Threads
  /\ NoMsg \notin Msg
BY QueueAssumption, FifoAssumption DEF NoItem, Threads

-----------------------------------------------------------------------------
(* The queues as msg_init leaves them. *)
LEMMA InitIInv == Init => IInv
<1>. SUFFICES ASSUME Init PROVE IInv
  OBVIOUS
<1>1. /\ QSize \in Nat /\ QSize > 0 /\ IndexMod \in Nat /\ IndexMod > QSize
  BY QueueAssumption
<1>2. /\ freeQ = [get |-> 0, put |-> QSize, slot |-> [s \in Slot |-> s + 1]]
      /\ msgQ = [get |-> 0, put |-> 0, slot |-> [s \in Slot |-> NoItem]]
  BY DEF Init, EmptyQueue
<1>3. TypeOK
  <2>1. freeQ \in Queue(Unit) /\ msgQ \in Queue(Unit)
    BY <1>1, <1>2 DEF Queue, Index, Slot
  <2>2. /\ pc \in [Threads -> ProducerPc \cup SenderPc]
        /\ \A p \in Producers : pc[p] \in ProducerPc
        /\ pc[Sender] \in SenderPc
    BY UnitFacts DEF Init, ProducerPc, SenderPc
  <2>. QED
    BY <2>1, <2>2 DEF Init, TypeOK
<1>4. HoldsIffBusy
  BY DEF Init, HoldsIffBusy
<1>5. Occupancy(freeQ) = QSize /\ Occupancy(msgQ) = 0
  BY <1>1, <1>2 DEF Occupancy
<1>6. \A k \in 0 .. QSize - 1 : ItemAt(freeQ, k) = k + 1
  <2>. SUFFICES ASSUME NEW k \in 0 .. QSize - 1
                PROVE  ItemAt(freeQ, k) = k + 1
    OBVIOUS
  <2>1. Ahead(freeQ, k) = k
    BY <1>1, <1>2 DEF Ahead
  <2>2. k % QSize = k
    BY <1>1
  <2>. QED
    BY <1>2, <2>1, <2>2 DEF ItemAt, Slot
<1>7. Held(freeQ) = Unit /\ NoRepeats(freeQ)
  <2>1. NoRepeats(freeQ)
    BY <1>1, <1>5, <1>6 DEF NoRepeats
  <2>2. ASSUME NEW u \in Unit
        PROVE  u \in Held(freeQ)
    <3>1. u - 1 \in 0 .. QSize - 1 /\ ItemAt(freeQ, u - 1) = u
      BY <1>1, <1>6
    <3>. QED
      BY <1>5, <3>1 DEF Held
  <2>3. Held(freeQ) \subseteq Unit
    BY <1>1, <1>5, <1>6 DEF Held
  <2>. QED
    BY <2>1, <2>2, <2>3
<1>8. Held(msgQ) = {} /\ NoRepeats(msgQ)
  BY <1>5 DEF Held, NoRepeats
<1>9. InHand = {}
  BY DEF Init, InHand
<1>10. NoLostWakeup
  BY <1>2 DEF NoLostWakeup, IsEmpty
<1>11. Separate /\ AllThere
  BY <1>7, <1>8, <1>9, UnitFacts DEF Init, Separate, AllThere
<1>. QED
  BY <1>3, <1>4, <1>10, <1>11 DEF IInv

-----------------------------------------------------------------------------
(* Moving one unit between the queues and a thread's hand keeps the units
   separate and all there.  The first of three moves: taking one from
   push_queue. *)
LEMMA TakeFree ==
  ASSUME Aligned, TypeOK, Separate, AllThere, NEW t \in Threads,
         mu[t] = NoItem, ~IsEmpty(freeQ),
         mu' = [mu EXCEPT ![t] = Front(freeQ)],
         freeQ' = Dequeue(freeQ), msgQ' = msgQ
  PROVE  /\ Separate' /\ AllThere'
         /\ Front(freeQ) \in Unit
         /\ freeQ' \in Queue(Unit)
<1>1. /\ freeQ \in Queue(Unit)
      /\ mu \in [Threads -> Unit \cup {NoItem}]
  BY DEF TypeOK
<1>2. /\ Front(freeQ) \in Held(freeQ)
      /\ Held(freeQ') = Held(freeQ) \ {Front(freeQ)}
      /\ NoRepeats(freeQ')
      /\ freeQ' \in Queue(Unit)
  BY <1>1, DequeueHeld, DequeueEffect DEF Separate
<1>3. Front(freeQ) \in Unit /\ Front(freeQ) # NoItem /\ Front(freeQ) \notin InHand
  BY <1>2, UnitFacts DEF AllThere, Separate
<1>4. InHand' = InHand \cup {Front(freeQ)}
  BY <1>1, <1>3 DEF InHand
<1>5. \A r, s \in Threads : mu'[r] = mu'[s] /\ mu'[r] # NoItem => r = s
  BY <1>1, <1>3 DEF Separate, InHand
<1>6. NoRepeats(msgQ') /\ Held(msgQ') = Held(msgQ)
  BY DEF Separate
<1>7. Separate'
  BY <1>2, <1>3, <1>4, <1>5, <1>6 DEF Separate
<1>8. AllThere'
  BY <1>2, <1>3, <1>4, <1>6 DEF AllThere
<1>. QED
  BY <1>2, <1>3, <1>7, <1>8

(* The second move: taking one from pop_queue. *)
LEMMA TakeMsg ==
  ASSUME Aligned, TypeOK, Separate, AllThere, NEW t \in Threads,
         mu[t] = NoItem, ~IsEmpty(msgQ),
         mu' = [mu EXCEPT ![t] = Front(msgQ)],
         msgQ' = Dequeue(msgQ), freeQ' = freeQ
  PROVE  /\ Separate' /\ AllThere'
         /\ Front(msgQ) \in Unit
         /\ msgQ' \in Queue(Unit)
<1>1. /\ msgQ \in Queue(Unit)
      /\ mu \in [Threads -> Unit \cup {NoItem}]
  BY DEF TypeOK
<1>2. /\ Front(msgQ) \in Held(msgQ)
      /\ Held(msgQ') = Held(msgQ) \ {Front(msgQ)}
      /\ NoRepeats(msgQ')
      /\ msgQ' \in Queue(Unit)
  BY <1>1, DequeueHeld, DequeueEffect DEF Separate
<1>3. Front(msgQ) \in Unit /\ Front(msgQ) # NoItem /\ Front(msgQ) \notin InHand
  BY <1>2, UnitFacts DEF AllThere, Separate
<1>4. InHand' = InHand \cup {Front(msgQ)}
  BY <1>1, <1>3 DEF InHand
<1>5. \A r, s \in Threads : mu'[r] = mu'[s] /\ mu'[r] # NoItem => r = s
  BY <1>1, <1>3 DEF Separate, InHand
<1>6. NoRepeats(freeQ') /\ Held(freeQ') = Held(freeQ)
  BY DEF Separate
<1>7. Separate'
  BY <1>2, <1>3, <1>4, <1>5, <1>6 DEF Separate
<1>8. AllThere'
  BY <1>2, <1>3, <1>4, <1>6 DEF AllThere
<1>. QED
  BY <1>2, <1>3, <1>7, <1>8

(* A unit in a thread's hand always fits in the queue it is put in. *)
LEMMA GiveBack ==
  ASSUME Aligned, TypeOK, Separate, AllThere, NEW t \in Threads,
         mu[t] # NoItem
  PROVE  /\ ~IsFull(msgQ) /\ ~IsFull(freeQ)
         /\ Enqueue(msgQ, mu[t]) \in Queue(Unit)
         /\ Enqueue(freeQ, mu[t]) \in Queue(Unit)
         /\ mu' = [mu EXCEPT ![t] = NoItem] /\ freeQ' = freeQ
            /\ msgQ' = Enqueue(msgQ, mu[t]) => Separate' /\ AllThere'
         /\ mu' = [mu EXCEPT ![t] = NoItem] /\ msgQ' = msgQ
            /\ freeQ' = Enqueue(freeQ, mu[t]) => Separate' /\ AllThere'
<1> DEFINE u == mu[t]
<1>1. /\ freeQ \in Queue(Unit) /\ msgQ \in Queue(Unit)
      /\ mu \in [Threads -> Unit \cup {NoItem}]
      /\ u \in Unit /\ u \in InHand
  BY DEF TypeOK, InHand
<1>2. /\ Held(freeQ) \subseteq Unit \ {u}
      /\ Held(msgQ) \subseteq Unit \ {u}
  BY <1>1 DEF Separate, AllThere
<1>3. Occupancy(freeQ) < QSize /\ Occupancy(msgQ) < QSize
  BY <1>1, <1>2, RoomForOne DEF Separate
<1>4. /\ ~IsFull(msgQ) /\ ~IsFull(freeQ)
      /\ Enqueue(msgQ, u) \in Queue(Unit)
      /\ Enqueue(freeQ, u) \in Queue(Unit)
  BY <1>1, <1>3, NotFull, EnqueueEffect
<1>5. /\ Held(Enqueue(msgQ, u)) = Held(msgQ) \cup {u}
      /\ Held(Enqueue(freeQ, u)) = Held(freeQ) \cup {u}
      /\ NoRepeats(Enqueue(msgQ, u)) /\ NoRepeats(Enqueue(freeQ, u))
  <2>1. /\ NoRepeats(freeQ) /\ NoRepeats(msgQ)
        /\ u \notin Held(freeQ) /\ u \notin Held(msgQ)
    BY <1>2 DEF Separate
  <2>2. /\ Held(Enqueue(msgQ, u)) = Held(msgQ) \cup {u}
        /\ NoRepeats(Enqueue(msgQ, u))
    BY <1>1, <1>3, <2>1, EnqueueHeld
  <2>3. /\ Held(Enqueue(freeQ, u)) = Held(freeQ) \cup {u}
        /\ NoRepeats(Enqueue(freeQ, u))
    BY <1>1, <1>3, <2>1, EnqueueHeld
  <2>. QED
    BY <2>2, <2>3
<1>6. ASSUME mu' = [mu EXCEPT ![t] = NoItem]
      PROVE  /\ InHand' = InHand \ {u}
             /\ \A r, s \in Threads : mu'[r] = mu'[s] /\ mu'[r] # NoItem => r = s
  BY <1>1, <1>6 DEF InHand, Separate
<1>7. ASSUME mu' = [mu EXCEPT ![t] = NoItem], freeQ' = freeQ,
             msgQ' = Enqueue(msgQ, u)
      PROVE  Separate' /\ AllThere'
  <2>1. Held(freeQ') = Held(freeQ) /\ NoRepeats(freeQ')
    BY <1>7 DEF Separate
  <2>2. Held(msgQ') = Held(msgQ) \cup {u} /\ NoRepeats(msgQ')
    BY <1>5, <1>7
  <2>. QED
    BY <1>1, <1>2, <1>6, <1>7, <2>1, <2>2 DEF Separate, AllThere
<1>8. ASSUME mu' = [mu EXCEPT ![t] = NoItem], msgQ' = msgQ,
             freeQ' = Enqueue(freeQ, u)
      PROVE  Separate' /\ AllThere'
  <2>1. Held(msgQ') = Held(msgQ) /\ NoRepeats(msgQ')
    BY <1>8 DEF Separate
  <2>2. Held(freeQ') = Held(freeQ) \cup {u} /\ NoRepeats(freeQ')
    BY <1>5, <1>8
  <2>. QED
    BY <1>1, <1>2, <1>6, <1>8, <2>1, <2>2 DEF Separate, AllThere
<1>. QED
  BY <1>4, <1>7, <1>8

-----------------------------------------------------------------------------
(* Every step keeps the inductive invariant. *)
LEMMA StepIInv == Aligned /\ IInv /\ [Next]_vars => IInv'
<1>. SUFFICES ASSUME Aligned, IInv, [Next]_vars
              PROVE  IInv'
  OBVIOUS
<1>0. /\ TypeOK /\ HoldsIffBusy /\ NoLostWakeup /\ Separate /\ AllThere
      /\ mu \in [Threads -> Unit \cup {NoItem}]
      /\ pc \in [Threads -> ProducerPc \cup SenderPc]
      /\ Producers \subseteq Threads /\ Sender \in Threads \ Producers
  BY UnitFacts DEF IInv, TypeOK
<1>1. ASSUME NEW p \in Producers, NEW m \in Msg, PushStart(p, m)
      PROVE  IInv'
  <2>1. CASE ~IsEmpty(freeQ)
    <3>1. /\ mu' = [mu EXCEPT ![p] = Front(freeQ)]
          /\ pc' = [pc EXCEPT ![p] = "fill"]
          /\ freeQ' = Dequeue(freeQ) /\ msgQ' = msgQ
          /\ data' = data /\ buf' = [buf EXCEPT ![p] = m]
          /\ pc[p] = "idle"
      BY <1>1, <2>1 DEF PushStart
    <3>2. mu[p] = NoItem
      BY <1>0, <3>1 DEF HoldsIffBusy
    <3>3. Separate' /\ AllThere' /\ Front(freeQ) \in Unit
          /\ freeQ' \in Queue(Unit)
      BY <1>0, <2>1, <3>1, <3>2, TakeFree
    <3>4. TypeOK'
      BY <1>0, <3>1, <3>3 DEF TypeOK, ProducerPc
    <3>5. HoldsIffBusy'
      BY <1>0, <3>1, <3>3, UnitFacts DEF HoldsIffBusy
    <3>6. NoLostWakeup'
      BY <1>0, <3>1 DEF NoLostWakeup
    <3>. QED
      BY <3>3, <3>4, <3>5, <3>6 DEF IInv
  <2>2. CASE IsEmpty(freeQ)
    <3>1. /\ pc' = [pc EXCEPT ![p] = "steal"]
          /\ mu' = mu /\ freeQ' = freeQ /\ msgQ' = msgQ
          /\ data' = data /\ buf' = [buf EXCEPT ![p] = m]
          /\ pc[p] = "idle"
      BY <1>1, <2>2 DEF PushStart
    <3>2. Separate' /\ AllThere'
      BY <1>0, <3>1 DEF Separate, AllThere, InHand
    <3>3. TypeOK'
      BY <1>0, <3>1 DEF TypeOK, ProducerPc
    <3>4. HoldsIffBusy'
      BY <1>0, <3>1 DEF HoldsIffBusy
    <3>5. NoLostWakeup'
      BY <1>0, <3>1 DEF NoLostWakeup
    <3>. QED
      BY <3>2, <3>3, <3>4, <3>5 DEF IInv
  <2>. QED
    BY <2>1, <2>2
<1>2. ASSUME NEW p \in Producers, PushSteal(p)
      PROVE  IInv'
  <2>1. /\ mu' = [mu EXCEPT ![p] = Front(msgQ)]
        /\ pc' = [pc EXCEPT ![p] = "fill"]
        /\ msgQ' = Dequeue(msgQ) /\ freeQ' = freeQ
        /\ data' = data /\ buf' = buf
        /\ pc[p] = "steal" /\ ~IsEmpty(msgQ)
    BY <1>2 DEF PushSteal
  <2>2. mu[p] = NoItem
    BY <1>0, <2>1 DEF HoldsIffBusy
  <2>3. Separate' /\ AllThere' /\ Front(msgQ) \in Unit
        /\ msgQ' \in Queue(Unit)
    BY <1>0, <2>1, <2>2, TakeMsg
  <2>4. TypeOK'
    BY <1>0, <2>1, <2>3 DEF TypeOK, ProducerPc
  <2>5. HoldsIffBusy'
    BY <1>0, <2>1, <2>3, UnitFacts DEF HoldsIffBusy
  <2>6. NoLostWakeup'
    BY <1>0, <2>1 DEF NoLostWakeup
  <2>. QED
    BY <2>3, <2>4, <2>5, <2>6 DEF IInv
<1>3. ASSUME NEW p \in Producers, PushRefused(p)
      PROVE  IInv'
  <2>1. /\ pc' = [pc EXCEPT ![p] = "idle"] /\ pc[p] = "steal"
        /\ mu' = mu /\ freeQ' = freeQ /\ msgQ' = msgQ
        /\ data' = data /\ buf' = [buf EXCEPT ![p] = NoMsg]
    BY <1>3 DEF PushRefused
  <2>2. Separate' /\ AllThere'
    BY <1>0, <2>1 DEF Separate, AllThere, InHand
  <2>3. TypeOK'
    BY <1>0, <2>1 DEF TypeOK, ProducerPc
  <2>4. HoldsIffBusy'
    BY <1>0, <2>1 DEF HoldsIffBusy
  <2>5. NoLostWakeup'
    BY <1>0, <2>1 DEF NoLostWakeup
  <2>. QED
    BY <2>2, <2>3, <2>4, <2>5 DEF IInv
<1>4. ASSUME NEW p \in Producers, PushFill(p)
      PROVE  IInv'
  <2>1. /\ pc' = [pc EXCEPT ![p] = "queue"] /\ pc[p] = "fill"
        /\ mu' = mu /\ freeQ' = freeQ /\ msgQ' = msgQ
        /\ data' = [data EXCEPT ![mu[p]] = buf[p]] /\ buf' = buf
    BY <1>4 DEF PushFill
  <2>2. Separate' /\ AllThere'
    BY <1>0, <2>1 DEF Separate, AllThere, InHand
  <2>3. TypeOK'
    BY <1>0, <2>1 DEF TypeOK, ProducerPc
  <2>4. HoldsIffBusy'
    BY <1>0, <2>1 DEF HoldsIffBusy
  <2>5. NoLostWakeup'
    BY <1>0, <2>1 DEF NoLostWakeup
  <2>. QED
    BY <2>2, <2>3, <2>4, <2>5 DEF IInv
<1>5. ASSUME NEW p \in Producers, PushQueue(p)
      PROVE  IInv'
  <2>1. pc[p] = "queue" /\ mu[p] # NoItem
    BY <1>0, <1>5 DEF PushQueue, HoldsIffBusy
  <2>2. /\ ~IsFull(msgQ) /\ Enqueue(msgQ, mu[p]) \in Queue(Unit)
        /\ mu' = [mu EXCEPT ![p] = NoItem] /\ freeQ' = freeQ
           /\ msgQ' = Enqueue(msgQ, mu[p]) => Separate' /\ AllThere'
    BY <1>0, <2>1, GiveBack
  <2>3. /\ mu' = [mu EXCEPT ![p] = NoItem]
        /\ pc' = [pc EXCEPT ![p] = "idle",
                            ![Sender] = IF @ = "wait" THEN "test" ELSE @]
        /\ msgQ' = Enqueue(msgQ, mu[p]) /\ freeQ' = freeQ
        /\ data' = data /\ buf' = [buf EXCEPT ![p] = NoMsg]
    BY <1>5, <2>2 DEF PushQueue
  <2>4. /\ pc' \in [Threads -> ProducerPc \cup SenderPc]
        /\ pc'[p] = "idle"
        /\ pc'[Sender] = IF pc[Sender] = "wait" THEN "test" ELSE pc[Sender]
        /\ \A t \in Threads \ {p, Sender} : pc'[t] = pc[t]
    BY <1>0, <2>3 DEF TypeOK, ProducerPc, SenderPc
  <2>5. TypeOK'
    BY <1>0, <2>2, <2>3, <2>4 DEF TypeOK, ProducerPc, SenderPc
  <2>6. HoldsIffBusy'
    BY <1>0, <2>3, <2>4 DEF HoldsIffBusy
  <2>7. NoLostWakeup'
    BY <1>0, <2>4 DEF NoLostWakeup
  <2>. QED
    BY <2>2, <2>3, <2>5, <2>6, <2>7 DEF IInv
<1>6. ASSUME PopTest
      PROVE  IInv'
  <2>1. CASE ~IsEmpty(msgQ)
    <3>1. /\ mu' = [mu EXCEPT ![Sender] = Front(msgQ)]
          /\ pc' = [pc EXCEPT ![Sender] = "copy"]
          /\ msgQ' = Dequeue(msgQ) /\ freeQ' = freeQ
          /\ data' = data /\ buf' = buf
          /\ pc[Sender] \in {"idle", "test"}
      BY <1>6, <2>1 DEF PopTest
    <3>2. mu[Sender] = NoItem
      BY <1>0, <3>1 DEF HoldsIffBusy
    <3>3. Separate' /\ AllThere' /\ Front(msgQ) \in Unit
          /\ msgQ' \in Queue(Unit)
      BY <1>0, <2>1, <3>1, <3>2, TakeMsg
    <3>4. TypeOK'
      BY <1>0, <3>1, <3>3 DEF TypeOK, SenderPc
    <3>5. HoldsIffBusy'
      BY <1>0, <3>1, <3>3, UnitFacts DEF HoldsIffBusy
    <3>6. NoLostWakeup'
      BY <1>0, <3>1 DEF NoLostWakeup
    <3>. QED
      BY <3>3, <3>4, <3>5, <3>6 DEF IInv
  <2>2. CASE IsEmpty(msgQ)
    <3>1. /\ pc' = [pc EXCEPT ![Sender] = "wait"]
          /\ pc[Sender] \in {"idle", "test"}
          /\ mu' = mu /\ freeQ' = freeQ /\ msgQ' = msgQ
          /\ data' = data /\ buf' = buf
      BY <1>6, <2>2 DEF PopTest
    <3>2. Separate' /\ AllThere'
      BY <1>0, <3>1 DEF Separate, AllThere, InHand
    <3>3. TypeOK'
      BY <1>0, <3>1 DEF TypeOK, SenderPc
    <3>4. HoldsIffBusy'
      BY <1>0, <3>1 DEF HoldsIffBusy
    <3>5. NoLostWakeup'
      BY <2>2, <3>1 DEF NoLostWakeup
    <3>. QED
      BY <3>2, <3>3, <3>4, <3>5 DEF IInv
  <2>. QED
    BY <2>1, <2>2
<1>7. ASSUME PopTimeout
      PROVE  IInv'
  <2>1. /\ pc' = [pc EXCEPT ![Sender] = "idle"] /\ pc[Sender] = "wait"
        /\ mu' = mu /\ freeQ' = freeQ /\ msgQ' = msgQ
        /\ data' = data /\ buf' = buf
    BY <1>7 DEF PopTimeout
  <2>2. Separate' /\ AllThere'
    BY <1>0, <2>1 DEF Separate, AllThere, InHand
  <2>3. TypeOK' /\ HoldsIffBusy' /\ NoLostWakeup'
    BY <1>0, <2>1 DEF TypeOK, HoldsIffBusy, NoLostWakeup, SenderPc
  <2>. QED
    BY <2>2, <2>3 DEF IInv
<1>8. ASSUME PopCopy
      PROVE  IInv'
  <2>1. /\ pc' = [pc EXCEPT ![Sender] = "return"] /\ pc[Sender] = "copy"
        /\ mu' = mu /\ freeQ' = freeQ /\ msgQ' = msgQ
        /\ data' = [data EXCEPT ![mu[Sender]] = NoMsg]
        /\ buf' = [buf EXCEPT ![Sender] = data[mu[Sender]]]
    BY <1>8 DEF PopCopy
  <2>2. mu[Sender] \in Unit
    BY <1>0, <2>1 DEF HoldsIffBusy
  <2>3. Separate' /\ AllThere'
    BY <1>0, <2>1 DEF Separate, AllThere, InHand
  <2>4. TypeOK'
    BY <1>0, <2>1, <2>2 DEF TypeOK, SenderPc
  <2>5. HoldsIffBusy' /\ NoLostWakeup'
    BY <1>0, <2>1 DEF HoldsIffBusy, NoLostWakeup
  <2>. QED
    BY <2>3, <2>4, <2>5 DEF IInv
<1>9. ASSUME PopReturn
      PROVE  IInv'
  <2>1. pc[Sender] = "return" /\ mu[Sender] # NoItem
    BY <1>0, <1>9 DEF PopReturn, HoldsIffBusy
  <2>2. /\ ~IsFull(freeQ) /\ Enqueue(freeQ, mu[Sender]) \in Queue(Unit)
        /\ mu' = [mu EXCEPT ![Sender] = NoItem] /\ msgQ' = msgQ
           /\ freeQ' = Enqueue(freeQ, mu[Sender]) => Separate' /\ AllThere'
    BY <1>0, <2>1, GiveBack
  <2>3. /\ mu' = [mu EXCEPT ![Sender] = NoItem]
        /\ pc' = [pc EXCEPT ![Sender] = "idle"]
        /\ freeQ' = Enqueue(freeQ, mu[Sender]) /\ msgQ' = msgQ
        /\ data' = data /\ buf' = buf
    BY <1>9, <2>2 DEF PopReturn
  <2>4. TypeOK'
    BY <1>0, <2>2, <2>3 DEF TypeOK, SenderPc
  <2>5. HoldsIffBusy' /\ NoLostWakeup'
    BY <1>0, <2>3 DEF HoldsIffBusy, NoLostWakeup
  <2>. QED
    BY <2>2, <2>3, <2>4, <2>5 DEF IInv
<1>10. CASE UNCHANGED vars
  BY <1>10 DEF vars, IInv, TypeOK, HoldsIffBusy, NoLostWakeup, Separate,
               AllThere, InHand
<1>. QED
  BY <1>1, <1>2, <1>3, <1>4, <1>5, <1>6, <1>7, <1>8, <1>9, <1>10
     DEF Next, Push, Pop

-----------------------------------------------------------------------------
(* The inductive invariant holds in every reachable state. *)
THEOREM AlwaysIInv == Aligned => (Spec => []IInv)
<1>. SUFFICES ASSUME Aligned PROVE Spec => []IInv
  OBVIOUS
<1>1. Init => IInv
  BY InitIInv
<1>2. IInv /\ [Next]_vars => IInv'
  BY StepIInv
<1>. QED
  BY <1>1, <1>2, PTL DEF Spec

(* Type correctness: in particular msg_push and msg_pop only ever touch
   units that msg_init allocated. *)
THEOREM TypeCorrect == Aligned => (Spec => []TypeOK)
<1>1. IInv => TypeOK
  BY DEF IInv
<1>. QED
  BY <1>1, AlwaysIInv, PTL

(* Inside msg_push and msg_pop, a thread that fills, reads or queues a unit
   holds one, and gives it back before it returns. *)
THEOREM BusyThreadHolds == Aligned => (Spec => []HoldsIffBusy)
<1>1. IInv => HoldsIffBusy
  BY DEF IInv
<1>. QED
  BY <1>1, AlwaysIInv, PTL

(* The sender never sleeps on a queue with a message in it: every push
   resumes it. *)
THEOREM SenderNeverMissesAMessage == Aligned => (Spec => []NoLostWakeup)
<1>1. IInv => NoLostWakeup
  BY DEF IInv
<1>. QED
  BY <1>1, AlwaysIInv, PTL

(* No unit is ever lost or shared, for any number of threads and any
   priorities: the unprotected memcpy of msg_push and msg_pop never race
   on a unit, and the pool never shrinks. *)
THEOREM UnitsAreOwnedOnce == Aligned => (Spec => []UnitOwnedOnce)
<1>1. IInv => UnitOwnedOnce
  <2>. SUFFICES ASSUME IInv, NEW u \in Unit
                PROVE  \E o \in Owners(u) : Owners(u) = {o}
    BY DEF UnitOwnedOnce
  <2>0. /\ Separate /\ AllThere /\ TypeOK /\ u # NoItem
        /\ u \in Held(freeQ) \cup Held(msgQ) \cup InHand
    BY UnitFacts DEF IInv, AllThere
  <2>1. /\ u \in Held(freeQ) <=> InQueue(u, freeQ) # {}
        /\ u \in Held(msgQ) <=> InQueue(u, msgQ) # {}
        /\ u \in InHand <=> Holders(u) # {}
    BY <2>0 DEF Held, InQueue, InHand, Holders
  <2>2. /\ \A i, j \in InQueue(u, freeQ) : i = j
        /\ \A i, j \in InQueue(u, msgQ) : i = j
        /\ \A s, t \in Holders(u) : s = t
    BY <2>0 DEF InQueue, Holders, Separate, NoRepeats
  <2>3. CASE u \in Held(freeQ)
    <3>1. InQueue(u, msgQ) = {} /\ Holders(u) = {}
      BY <2>0, <2>1, <2>3 DEF Separate
    <3>2. PICK k : InQueue(u, freeQ) = {k}
      BY <2>1, <2>2, <2>3
    <3>3. Owners(u) = {<<k, "free">>}
      <4>1. Owners(u) = {k} \X {"free"}
        BY <3>1, <3>2 DEF Owners
      <4>. QED
        BY <4>1
    <3>. QED
      BY <3>3
  <2>4. CASE u \in Held(msgQ)
    <3>1. InQueue(u, freeQ) = {} /\ Holders(u) = {}
      BY <2>0, <2>1, <2>4 DEF Separate
    <3>2. PICK k : InQueue(u, msgQ) = {k}
      BY <2>1, <2>2, <2>4
    <3>3. Owners(u) = {<<k, "queued">>}
      <4>1. Owners(u) = {k} \X {"queued"}
        BY <3>1, <3>2 DEF Owners
      <4>. QED
        BY <4>1
    <3>. QED
      BY <3>3
  <2>5. CASE u \in InHand
    <3>1. InQueue(u, freeQ) = {} /\ InQueue(u, msgQ) = {}
      BY <2>0, <2>1, <2>5 DEF Separate
    <3>2. PICK t : Holders(u) = {t}
      BY <2>1, <2>2, <2>5
    <3>3. Owners(u) = {<<t, "held">>}
      <4>1. Owners(u) = {t} \X {"held"}
        BY <3>1, <3>2 DEF Owners
      <4>. QED
        BY <4>1
    <3>. QED
      BY <3>3
  <2>. QED
    BY <2>0, <2>3, <2>4, <2>5
<1>. QED
  BY <1>1, AlwaysIInv, PTL

(* The FIFO keeps the length AT+MSGS configured. *)
THEOREM LengthIsKept == Aligned => (Spec => []KeepsItsLength)
<1>1. UnitOwnedOnce => KeepsItsLength
  BY DEF UnitOwnedOnce, KeepsItsLength, Circulating
<1>. QED
  BY <1>1, UnitsAreOwnedOnce, PTL

-----------------------------------------------------------------------------
(* The priorities of main.c: the sender is the least urgent thread. *)
SenderLeastUrgent == \A p \in Producers : Prio[p] < Prio[Sender]

NoneFreeWhileStealing == \A p \in Producers : pc[p] = "steal" => IsEmpty(freeQ)

(* Then nothing is given back between the two tests of msg_push: no unit is
   free while a producer is about to discard a message. *)
LEMMA StepNoneFree ==
  ASSUME SenderLeastUrgent, TypeOK, NoneFreeWhileStealing, [Next]_vars
  PROVE  /\ NoneFreeWhileStealing'
         /\ \A p \in Producers : pc[p] = "steal" /\ pc'[p] = "fill" => IsEmpty(freeQ)
<1>0. /\ Producers \subseteq Threads /\ Sender \in Threads \ Producers
      /\ pc \in [Threads -> ProducerPc \cup SenderPc]
  BY UnitFacts DEF TypeOK
<1>1. ASSUME NEW p \in Producers, NEW m \in Msg, PushStart(p, m)
      PROVE  NoneFreeWhileStealing'
  <2>1. CASE IsEmpty(freeQ)
    <3>1. freeQ' = freeQ
      BY <1>1, <2>1 DEF PushStart
    <3>. QED
      BY <2>1, <3>1 DEF NoneFreeWhileStealing
  <2>2. CASE ~IsEmpty(freeQ)
    BY <1>0, <1>1, <2>2 DEF PushStart, NoneFreeWhileStealing
  <2>. QED
    BY <2>1, <2>2
<1>2. ASSUME NEW p \in Producers,
             PushSteal(p) \/ PushRefused(p) \/ PushFill(p) \/ PushQueue(p)
      PROVE  NoneFreeWhileStealing'
  <2>1. freeQ' = freeQ
    BY <1>2 DEF PushSteal, PushRefused, PushFill, PushQueue
  <2>2. \A q \in Producers : pc'[q] = "steal" => pc[q] = "steal"
    BY <1>0, <1>2 DEF PushSteal, PushRefused, PushFill, PushQueue
  <2>. QED
    BY <2>1, <2>2 DEF NoneFreeWhileStealing
<1>3. ASSUME PopTest \/ PopTimeout \/ PopCopy
      PROVE  NoneFreeWhileStealing'
  <2>1. freeQ' = freeQ /\ \A q \in Producers : pc'[q] = pc[q]
    BY <1>0, <1>3 DEF PopTest, PopTimeout, PopCopy
  <2>. QED
    BY <2>1 DEF NoneFreeWhileStealing
<1>4. ASSUME PopReturn
      PROVE  NoneFreeWhileStealing'
  <2>1. \A q \in Producers : pc[q] # "steal"
    BY <1>0, <1>4 DEF PopReturn, CanRun, SenderLeastUrgent
  <2>2. \A q \in Producers : pc'[q] = pc[q]
    BY <1>0, <1>4 DEF PopReturn
  <2>. QED
    BY <2>1, <2>2 DEF NoneFreeWhileStealing
<1>5. CASE UNCHANGED vars
  BY <1>5 DEF vars, NoneFreeWhileStealing, IsEmpty
<1>6. NoneFreeWhileStealing'
  BY <1>1, <1>2, <1>3, <1>4, <1>5 DEF Next, Push, Pop
<1>. QED
  BY <1>6 DEF NoneFreeWhileStealing

(* A message is discarded only if no unit is free at that very moment. *)
THEOREM EvictsOnlyWhenNoneFree ==
  Aligned /\ SenderLeastUrgent => (Spec => EvictOnlyWhenNoneFree)
<1>. SUFFICES ASSUME Aligned, SenderLeastUrgent
              PROVE  Spec => EvictOnlyWhenNoneFree
  OBVIOUS
<1>1. Init => NoneFreeWhileStealing
  BY UnitFacts DEF Init, NoneFreeWhileStealing
<1>2. TypeOK /\ NoneFreeWhileStealing /\ [Next]_vars => NoneFreeWhileStealing'
  BY StepNoneFree
<1>3. TypeOK /\ NoneFreeWhileStealing /\ [Next]_vars =>
        [\A p \in Producers : pc[p] = "steal" /\ pc'[p] = "fill" => IsEmpty(freeQ)]_vars
  BY StepNoneFree
<1>. QED
  BY <1>1, <1>2, <1>3, TypeCorrect, PTL DEF Spec, EvictOnlyWhenNoneFree

(* While a producer that holds no unit finds both queues empty, every unit is
   in another thread's hand: there are fewer units than threads. *)
LEMMA RefusalTakesManyThreads ==
  ASSUME TypeOK, HoldsIffBusy, Separate, AllThere, IsFiniteSet(Threads),
         NEW p \in Producers, pc[p] = "steal", IsEmpty(freeQ), IsEmpty(msgQ)
  PROVE  QSize < Cardinality(Threads)
<1> DEFINE B == {t \in Threads \ {p} : mu[t] # NoItem}
           f == [t \in B |-> mu[t]]
<1>1. Held(freeQ) = {} /\ Held(msgQ) = {}
  BY OccupancyType DEF TypeOK, Held
<1>2. InHand = Unit
  BY <1>1 DEF AllThere
<1>3. p \in Threads /\ mu[p] = NoItem
  BY UnitFacts DEF HoldsIffBusy
<1>4. f \in Surjection(B, Unit)
  <2>1. f \in [B -> Unit]
    BY <1>2 DEF InHand
  <2>2. ASSUME NEW u \in Unit
        PROVE  \E t \in B : f[t] = u
    <3>1. PICK t \in Threads : mu[t] = u
      BY <1>2 DEF InHand
    <3>2. u # NoItem
      BY UnitFacts
    <3>3. t \in B
      BY <1>3, <3>1, <3>2
    <3>. QED
      BY <3>1, <3>3
  <2>. QED
    BY <2>1, <2>2 DEF Surjection
<1>5. /\ IsFiniteSet(Threads \ {p})
      /\ Cardinality(Threads \ {p}) = Cardinality(Threads) - 1
  BY <1>3, FS_RemoveElement
<1>6. IsFiniteSet(B) /\ Cardinality(B) <= Cardinality(Threads) - 1
  <2>1. B \in SUBSET (Threads \ {p})
    OBVIOUS
  <2>. QED
    BY <1>5, <2>1, FS_Subset
<1>7. Cardinality(Unit) <= Cardinality(B)
  BY <1>4, <1>6, FS_Surjection
<1>8. Cardinality(Unit) = QSize
  BY UnitFacts, FS_Interval
<1>. QED
  BY <1>6, <1>7, <1>8, UnitFacts, FS_CardinalityType

(* A producer goes from the second test of msg_push back to its caller only by
   finding the message queue empty too. *)
LEMMA OnlyRefusalLeavesSteal ==
  ASSUME TypeOK, Next, NEW p \in Producers, pc[p] = "steal", pc'[p] = "idle"
  PROVE  IsEmpty(msgQ)
<1>0. /\ Producers \subseteq Threads /\ Sender \in Threads \ Producers
      /\ pc \in [Threads -> ProducerPc \cup SenderPc]
  BY UnitFacts DEF TypeOK
<1>1. ASSUME NEW q \in Producers, Push(q)
      PROVE  PushRefused(q)
  <2>1. CASE \E m \in Msg : PushStart(q, m)
    BY <1>0, <2>1 DEF PushStart
  <2>2. CASE PushSteal(q) \/ PushFill(q) \/ PushQueue(q)
    BY <1>0, <2>2 DEF PushSteal, PushFill, PushQueue
  <2>. QED
    BY <1>1, <2>1, <2>2 DEF Push
<1>2. ~Pop
  BY <1>0 DEF Pop, PopTest, PopTimeout, PopCopy, PopReturn
<1>. QED
  BY <1>1, <1>2 DEF Next, PushRefused

(* The newest message is refused only at a moment when the other threads hold
   every unit. *)
THEOREM RefusesOnlyWhenAllInHand ==
  Aligned /\ SenderLeastUrgent => (Spec => RefusedOnlyWhenAllInHand)
<1>. SUFFICES ASSUME Aligned, SenderLeastUrgent
              PROVE  Spec => RefusedOnlyWhenAllInHand
  OBVIOUS
<1>1. Init => NoneFreeWhileStealing
  BY UnitFacts DEF Init, NoneFreeWhileStealing
<1>2. IInv => TypeOK
  BY DEF IInv
<1>3. TypeOK /\ NoneFreeWhileStealing /\ [Next]_vars => NoneFreeWhileStealing'
  BY StepNoneFree
<1>4. IInv /\ NoneFreeWhileStealing /\ [Next]_vars =>
        [\A p \in Producers : pc[p] = "steal" /\ pc'[p] = "idle" =>
                                \A u \in Unit : InOtherHands(p, u)]_vars
  <2>. SUFFICES ASSUME IInv, NoneFreeWhileStealing, Next,
                       NEW p \in Producers, pc[p] = "steal", pc'[p] = "idle",
                       NEW u \in Unit
                PROVE  InOtherHands(p, u)
    BY DEF vars
  <2>1. IsEmpty(msgQ) /\ IsEmpty(freeQ)
    BY OnlyRefusalLeavesSteal DEF IInv, NoneFreeWhileStealing
  <2>2. Held(freeQ) = {} /\ Held(msgQ) = {}
    BY <2>1, OccupancyType DEF IInv, TypeOK, Held
  <2>3. PICK t \in Threads : mu[t] = u
    BY <2>2 DEF IInv, AllThere, InHand
  <2>4. mu[p] = NoItem /\ u # NoItem /\ p \in Threads
    BY UnitFacts DEF IInv, HoldsIffBusy
  <2>. QED
    BY <2>3, <2>4 DEF InOtherHands
<1>. QED
  BY <1>1, <1>2, <1>3, <1>4, AlwaysIInv, PTL DEF Spec, RefusedOnlyWhenAllInHand

(* With at least as many units as threads, and the priorities of main.c, the
   newest message is never refused. *)
THEOREM NewestIsNeverRefused ==
  Aligned /\ SenderLeastUrgent /\ IsFiniteSet(Threads) /\ Cardinality(Threads) <= QSize
    => (Spec => NewestNeverRefused)
<1>. SUFFICES ASSUME Aligned, SenderLeastUrgent, IsFiniteSet(Threads),
                     Cardinality(Threads) <= QSize
              PROVE  Spec => NewestNeverRefused
  OBVIOUS
<1>1. Init => NoneFreeWhileStealing
  BY UnitFacts DEF Init, NoneFreeWhileStealing
<1>2. IInv => TypeOK
  BY DEF IInv
<1>3. TypeOK /\ NoneFreeWhileStealing /\ [Next]_vars => NoneFreeWhileStealing'
  BY StepNoneFree
<1>4. IInv /\ NoneFreeWhileStealing /\ [Next]_vars =>
        [\A p \in Producers : pc[p] = "steal" => pc'[p] # "idle"]_vars
  <2>. SUFFICES ASSUME IInv, NoneFreeWhileStealing, Next,
                       NEW p \in Producers, pc[p] = "steal", pc'[p] = "idle"
                PROVE  FALSE
    BY DEF vars
  <2>3. IsEmpty(msgQ)
    BY OnlyRefusalLeavesSteal DEF IInv
  <2>4. IsEmpty(freeQ)
    BY DEF NoneFreeWhileStealing
  <2>5. QSize < Cardinality(Threads)
    BY <2>3, <2>4, RefusalTakesManyThreads DEF IInv
  <2>. QED
    BY <2>5, UnitFacts, FS_CardinalityType
<1>. QED
  BY <1>1, <1>2, <1>3, <1>4, AlwaysIInv, PTL DEF Spec, NewestNeverRefused
-----------------------------------------------------------------------------
(* The refinement of LossyFifo: the messages queued, and the one received
   last. *)
Messages(q, d) == [k \in 1 .. Occupancy(q) |-> d[ItemAt(q, k - 1)]]
Queued == Messages(msgQ, data)
Taken  == IF pc[Sender] = "copy" THEN data[mu[Sender]] ELSE buf[Sender]

(* A producer that looks for a unit or fills it has a message, and the unit it
   is about to queue holds one. *)
Filled == \A p \in Producers : /\ pc[p] \in {"steal", "fill"} => buf[p] \in Msg
                               /\ pc[p] = "queue" => data[mu[p]] \in Msg

(* What LossyFifo sees is Queued and Taken. *)
LEMMA AbstractView ==
  /\ Abstract!FifoInit <=> Queued = <<>> /\ Taken = NoMsg
  /\ Abstract!FifoNext <=>
       \/ \E m \in Msg :
            \/ Len(Queued) < QSize /\ Queued' = Append(Queued, m) /\ Taken' = Taken
            \/ Len(Queued) = QSize /\ Queued' = Append(Tail(Queued), m) /\ Taken' = Taken
       \/ Queued # <<>> /\ Queued' = Tail(Queued) /\ Taken' = Taken
       \/ Queued # <<>> /\ Queued' = Tail(Queued) /\ Taken' = Head(Queued)
  /\ UNCHANGED Abstract!fifoVars <=> Queued' = Queued /\ Taken' = Taken
<1>1. Queued = [k \in 1 .. Occupancy(msgQ) |-> data[Items(msgQ)[k]]]
  BY DEF Queued, Messages, Items
<1>2. Queued' = [k \in 1 .. Occupancy(msgQ) |-> data[Items(msgQ)[k]]]'
  BY DEF Queued, Messages, Items
<1> QED
  BY <1>1, <1>2 DEF Abstract!FifoInit, Abstract!FifoNext, Abstract!fifoVars, Taken,
     Abstract!Put, Abstract!Displace, Abstract!Evict, Abstract!Take

(* The queued messages are a sequence, the oldest of them in the unit that
   rt_data_queue_pop takes next. *)
LEMMA MessagesAreSeq ==
  ASSUME NEW Item, NEW q \in Queue(Item), NEW d \in [Item -> Msg \cup {NoMsg}],
         Held(q) \subseteq Item
  PROVE  /\ Messages(q, d) \in Seq(Msg \cup {NoMsg})
         /\ Len(Messages(q, d)) = Occupancy(q)
         /\ Occupancy(q) \in Nat
         /\ \A k \in 1 .. Occupancy(q) :
              /\ Messages(q, d)[k] = d[ItemAt(q, k - 1)]
              /\ ItemAt(q, k - 1) \in Held(q)
<1>1. Occupancy(q) \in Nat
  BY OccupancyType, QueueAssumption
<1>2. \A k \in 1 .. Occupancy(q) : ItemAt(q, k - 1) \in Held(q)
  BY <1>1 DEF Held
<1>3. \A k \in 1 .. Occupancy(q) : d[ItemAt(q, k - 1)] \in Msg \cup {NoMsg}
  BY <1>2
<1> QED
  BY <1>1, <1>2, <1>3 DEF Messages

(* Queueing a unit appends its message. *)
LEMMA QueuedAppend ==
  ASSUME Aligned, NEW Item, NEW q \in Queue(Item),
         NEW d \in [Item -> Msg \cup {NoMsg}], NEW u \in Item,
         Occupancy(q) < QSize,
         Held(q) \subseteq Item, Held(Enqueue(q, u)) \subseteq Item
  PROVE  Messages(Enqueue(q, u), d) = Append(Messages(q, d), d[u])
<1> DEFINE n == Occupancy(q)
           S == Msg \cup {NoMsg}
           e == Enqueue(q, u)
           old == Messages(q, d)
           new == Messages(e, d)
<1>1. /\ e \in Queue(Item) /\ n \in Nat /\ Occupancy(e) = n + 1
      /\ \A k \in 0 .. n - 1 : ItemAt(e, k) = ItemAt(q, k)
      /\ ItemAt(e, n) = u
  <2>1. n \in Nat
    BY OccupancyType, QueueAssumption
  <2>2. /\ e \in Queue(Item) /\ Occupancy(e) = n + 1
        /\ \A k \in 0 .. n - 1 : ItemAt(e, k) = ItemAt(q, k)
        /\ ItemAt(e, n) = u
    BY EnqueueEffect
  <2> QED
    BY <2>1, <2>2
<1>2. /\ old \in Seq(S) /\ Len(old) = n
      /\ \A k \in 1 .. n : old[k] = d[ItemAt(q, k - 1)]
  BY MessagesAreSeq
<1>3. /\ new \in Seq(S) /\ Len(new) = n + 1
      /\ \A k \in 1 .. n + 1 : new[k] = d[ItemAt(e, k - 1)]
  <2>1. /\ new \in Seq(S) /\ Len(new) = Occupancy(e)
        /\ \A k \in 1 .. Occupancy(e) : new[k] = d[ItemAt(e, k - 1)]
    BY <1>1, MessagesAreSeq
  <2> QED
    BY <1>1, <2>1
<1>4. d[u] \in S
  OBVIOUS
<1>5. /\ Append(old, d[u]) \in Seq(S) /\ Len(Append(old, d[u])) = n + 1
      /\ \A k \in 1 .. n : Append(old, d[u])[k] = old[k]
      /\ Append(old, d[u])[n + 1] = d[u]
  BY <1>2, <1>4, AppendProperties
<1>6. ASSUME NEW k \in 1 .. n + 1
      PROVE  new[k] = Append(old, d[u])[k]
  <2>1. CASE k = n + 1
    BY <1>1, <1>3, <1>5, <2>1
  <2>2. CASE k # n + 1
    <3>1. k \in 1 .. n /\ k - 1 \in 0 .. n - 1
      BY <1>1, <2>2
    <3> QED
      BY <1>1, <1>2, <1>3, <1>5, <3>1
  <2> QED
    BY <2>1, <2>2
<1> HIDE DEF n, S, e, old, new
<1>7. new = Append(old, d[u])
  BY <1>3, <1>5, <1>6, SeqEqual
<1> QED
  BY <1>7 DEF e, old, new

(* Taking a unit out of pop_queue takes the oldest message away. *)
LEMMA QueuedTail ==
  ASSUME Aligned, NEW Item, NEW q \in Queue(Item),
         NEW d \in [Item -> Msg \cup {NoMsg}],
         ~IsEmpty(q), Held(q) \subseteq Item, Held(Dequeue(q)) \subseteq Item
  PROVE  /\ Messages(q, d) # <<>>
         /\ Messages(Dequeue(q), d) = Tail(Messages(q, d))
         /\ Head(Messages(q, d)) = d[Front(q)]
<1> DEFINE n == Occupancy(q)
           S == Msg \cup {NoMsg}
           e == Dequeue(q)
           old == Messages(q, d)
           new == Messages(e, d)
<1>1. /\ e \in Queue(Item) /\ n \in Nat /\ n > 0 /\ Occupancy(e) = n - 1
      /\ \A k \in 0 .. n - 2 : ItemAt(e, k) = ItemAt(q, k + 1)
      /\ Front(q) = ItemAt(q, 0)
  BY OccupancyType, DequeueEffect
<1>2. /\ old \in Seq(S) /\ Len(old) = n
      /\ \A k \in 1 .. n : old[k] = d[ItemAt(q, k - 1)]
  BY MessagesAreSeq
<1>3. /\ new \in Seq(S) /\ Len(new) = n - 1
      /\ \A k \in 1 .. n - 1 : new[k] = d[ItemAt(e, k - 1)]
  <2>1. /\ new \in Seq(S) /\ Len(new) = Occupancy(e)
        /\ \A k \in 1 .. Occupancy(e) : new[k] = d[ItemAt(e, k - 1)]
    BY <1>1, MessagesAreSeq
  <2> QED
    BY <1>1, <2>1
<1>4. old # <<>>
  BY <1>1, <1>2
<1>5. /\ Tail(old) \in Seq(S) /\ Len(Tail(old)) = n - 1
      /\ \A k \in 1 .. n - 1 : Tail(old)[k] = old[k + 1]
  BY <1>2, <1>4, HeadTailProperties
<1>6. ASSUME NEW k \in 1 .. n - 1
      PROVE  new[k] = Tail(old)[k]
  <2>1. k - 1 \in 0 .. n - 2 /\ k + 1 \in 1 .. n /\ (k - 1) + 1 = k /\ (k + 1) - 1 = k
    BY <1>1
  <2>2. new[k] = d[ItemAt(q, k)]
    <3>1. ItemAt(e, k - 1) = ItemAt(q, (k - 1) + 1)
      BY <1>1, <2>1
    <3> QED
      BY <1>3, <2>1, <3>1
  <2>3. Tail(old)[k] = d[ItemAt(q, k)]
    <3>1. old[k + 1] = d[ItemAt(q, (k + 1) - 1)]
      BY <1>2, <2>1
    <3> QED
      BY <1>5, <2>1, <3>1
  <2> QED
    BY <2>2, <2>3
<1>7. Head(old) = old[1] /\ 1 \in 1 .. n
  BY <1>1, <1>2
<1>8. Head(old) = d[Front(q)]
  BY <1>1, <1>2, <1>7
<1> HIDE DEF n, S, e, old, new
<1>9. new = Tail(old)
  BY <1>3, <1>5, <1>6, SeqEqual
<1> QED
  BY <1>4, <1>8, <1>9 DEF e, old, new

(* Writing into a unit that is not queued leaves the queued messages alone. *)
LEMMA QueuedSame ==
  ASSUME TypeOK, AllThere, msgQ' = msgQ, NEW u, u \notin Held(msgQ),
         NEW x, data' = data \/ data' = [data EXCEPT ![u] = x]
  PROVE  Queued' = Queued
<1>1. /\ Occupancy(msgQ) \in Nat
      /\ \A k \in 1 .. Occupancy(msgQ) : ItemAt(msgQ, k - 1) \in Held(msgQ)
  BY MessagesAreSeq DEF TypeOK, AllThere
<1>2. \A k \in 1 .. Occupancy(msgQ) : data'[ItemAt(msgQ, k - 1)] = data[ItemAt(msgQ, k - 1)]
  BY <1>1 DEF TypeOK, AllThere
<1> QED
  BY <1>1, <1>2 DEF Queued, Messages

-----------------------------------------------------------------------------
(* A producer has a message to fill its unit with, and has filled the one it
   queues; nobody else writes into it meanwhile. *)
LEMMA StepFilled == IInv /\ Filled /\ [Next]_vars => Filled'
<1> DEFINE Has(q) == /\ pc'[q] \in {"steal", "fill"} => buf'[q] \in Msg
                     /\ pc'[q] = "queue" => data'[mu'[q]] \in Msg
<1> SUFFICES ASSUME IInv, Filled, [Next]_vars, NEW q \in Producers
             PROVE  Has(q)
  BY DEF Filled
<1>0. /\ TypeOK /\ HoldsIffBusy /\ Separate
      /\ Producers \subseteq Threads /\ Sender \in Threads /\ Sender # q
  BY UnitFacts DEF IInv
<1>1. ASSUME NEW p \in Producers,
             (\E m \in Msg : PushStart(p, m)) \/ PushSteal(p)
      PROVE  Has(q)
  <2>1. /\ data' = data /\ (q # p => mu'[q] = mu[q] /\ buf'[q] = buf[q] /\ pc'[q] = pc[q])
        /\ pc'[p] \in {"steal", "fill"} /\ buf'[p] \in Msg
    BY <1>0, <1>1 DEF PushStart, PushSteal, Filled, TypeOK
  <2> QED
    BY <2>1 DEF Filled
<1>2. ASSUME NEW p \in Producers, PushRefused(p) \/ PushQueue(p)
      PROVE  Has(q)
  <2>1. /\ data' = data /\ (q # p => mu'[q] = mu[q] /\ buf'[q] = buf[q] /\ pc'[q] = pc[q])
        /\ pc'[p] = "idle"
    BY <1>0, <1>2, UnitFacts DEF PushRefused, PushQueue, TypeOK
  <2> QED
    BY <2>1 DEF Filled
<1>3. ASSUME NEW p \in Producers, PushFill(p)
      PROVE  Has(q)
  <2>1. /\ pc[p] = "fill" /\ pc' = [pc EXCEPT ![p] = "queue"]
        /\ mu' = mu /\ buf' = buf /\ data' = [data EXCEPT ![mu[p]] = buf[p]]
    BY <1>3 DEF PushFill
  <2>2. mu[p] \in Unit /\ buf[p] \in Msg
    BY <1>0, <2>1 DEF Filled, HoldsIffBusy, TypeOK
  <2>3. CASE q = p
    BY <1>0, <2>1, <2>2, <2>3 DEF TypeOK
  <2>4. CASE q # p
    <3>1. pc[q] = "queue" => mu[q] # mu[p]
      BY <1>0, <2>2, <2>4, UnitFacts DEF Separate
    <3> QED
      BY <1>0, <2>1, <2>2, <2>4, <3>1 DEF TypeOK, Filled
  <2> QED
    BY <2>3, <2>4
<1>4. ASSUME Pop
      PROVE  Has(q)
  <2>1. pc'[q] = pc[q] /\ mu'[q] = mu[q] /\ buf'[q] = buf[q]
    BY <1>0, <1>4 DEF Pop, PopTest, PopTimeout, PopCopy, PopReturn, TypeOK
  <2>2. CASE PopCopy
    <3>1. pc[Sender] = "copy" /\ data' = [data EXCEPT ![mu[Sender]] = NoMsg]
      BY <2>2 DEF PopCopy
    <3>2. mu[Sender] # NoItem
      BY <1>0, <3>1 DEF HoldsIffBusy
    <3>3. pc[q] = "queue" => mu[q] # mu[Sender]
      BY <1>0, <3>2 DEF Separate
    <3> QED
      BY <1>0, <2>1, <3>1, <3>3 DEF Filled, TypeOK
  <2>3. CASE ~PopCopy
    <3>1. data' = data
      BY <1>4, <2>3 DEF Pop, PopTest, PopTimeout, PopReturn
    <3> QED
      BY <2>1, <3>1 DEF Filled
  <2> QED
    BY <2>2, <2>3
<1>5. CASE UNCHANGED vars
  BY <1>5 DEF vars, Filled
<1> QED
  BY <1>1, <1>2, <1>3, <1>4, <1>5 DEF Next, Push

(* Every step of the three threads is a step of the lossy FIFO, or none. *)
LEMMA StepRefines ==
  ASSUME Aligned, IInv, Filled, IInv', [Next]_vars
  PROVE  [Abstract!FifoNext]_(Abstract!fifoVars)
<1>0. /\ TypeOK /\ HoldsIffBusy /\ Separate /\ AllThere /\ TypeOK' /\ AllThere'
      /\ Producers \subseteq Threads /\ Sender \in Threads \ Producers
  BY UnitFacts DEF IInv
<1>1. SUFFICES
        \/ \E m \in Msg :
             Len(Queued) < QSize /\ Queued' = Append(Queued, m) /\ Taken' = Taken
        \/ Queued # <<>> /\ Queued' = Tail(Queued)
           /\ (Taken' = Taken \/ Taken' = Head(Queued))
        \/ Queued' = Queued /\ Taken' = Taken
  BY AbstractView
<1>2. ASSUME msgQ' = msgQ, data' = data, Taken' = Taken
      PROVE  Queued' = Queued /\ Taken' = Taken
  BY <1>2 DEF Queued
<1>11. /\ msgQ \in Queue(Unit) /\ data \in [Unit -> Msg \cup {NoMsg}]
      /\ Held(msgQ) \subseteq Unit /\ Held(msgQ') \subseteq Unit
      /\ Len(Queued) = Occupancy(msgQ)
  <2>1. /\ msgQ \in Queue(Unit) /\ data \in [Unit -> Msg \cup {NoMsg}]
        /\ Held(msgQ) \subseteq Unit /\ Held(msgQ') \subseteq Unit
    BY <1>0 DEF TypeOK, AllThere
  <2> QED
    BY <2>1, MessagesAreSeq DEF Queued
<1>3. ASSUME NEW p \in Producers,
             (\E m \in Msg : PushStart(p, m)) \/ PushRefused(p)
      PROVE  Queued' = Queued /\ Taken' = Taken
  <2>1. /\ msgQ' = msgQ /\ data' = data
        /\ pc'[Sender] = pc[Sender] /\ mu'[Sender] = mu[Sender]
        /\ buf'[Sender] = buf[Sender]
    BY <1>0, <1>3 DEF PushStart, PushRefused, TypeOK
  <2> QED
    BY <1>2, <2>1 DEF Taken
<1>4. ASSUME NEW p \in Producers, PushSteal(p)
      PROVE  Queued # <<>> /\ Queued' = Tail(Queued) /\ Taken' = Taken
  <2>1. /\ ~IsEmpty(msgQ) /\ msgQ' = Dequeue(msgQ) /\ data' = data
        /\ pc'[Sender] = pc[Sender] /\ mu'[Sender] = mu[Sender]
        /\ buf'[Sender] = buf[Sender]
    BY <1>0, <1>4 DEF PushSteal, TypeOK
  <2>2. Held(Dequeue(msgQ)) \subseteq Unit
    BY <1>11, <2>1
  <2>3. Queued # <<>> /\ Messages(Dequeue(msgQ), data) = Tail(Queued)
    BY <1>11, <2>1, <2>2, QueuedTail DEF Queued
  <2>4. Queued' = Tail(Queued)
    BY <2>1, <2>3 DEF Queued
  <2> QED
    BY <2>1, <2>3, <2>4 DEF Taken
<1>5. ASSUME NEW p \in Producers, PushFill(p)
      PROVE  Queued' = Queued /\ Taken' = Taken
  <2>1. /\ pc[p] = "fill" /\ pc' = [pc EXCEPT ![p] = "queue"]
        /\ msgQ' = msgQ /\ mu' = mu /\ buf' = buf
        /\ data' = [data EXCEPT ![mu[p]] = buf[p]]
    BY <1>5 DEF PushFill
  <2>2. mu[p] # NoItem /\ mu[p] \in InHand
    BY <1>0, <2>1 DEF HoldsIffBusy, InHand
  <2>3. mu[p] \notin Held(msgQ)
    BY <1>0, <2>2 DEF Separate
  <2>4. Queued' = Queued
    BY <1>0, <2>1, <2>3, QueuedSame
  <2>5. pc[Sender] = "copy" => mu[Sender] # mu[p] /\ mu[Sender] \in Unit
    BY <1>0, <2>2 DEF Separate, HoldsIffBusy, TypeOK
  <2>6. Taken' = Taken
    BY <1>0, <2>1, <2>5 DEF Taken, TypeOK
  <2> QED
    BY <2>4, <2>6
<1>6. ASSUME NEW p \in Producers, PushQueue(p)
      PROVE  \E m \in Msg :
               Len(Queued) < QSize /\ Queued' = Append(Queued, m) /\ Taken' = Taken
  <2>1. pc[p] = "queue" /\ mu[p] \in Unit /\ mu[p] \in InHand /\ data[mu[p]] \in Msg
    BY <1>0, <1>6 DEF PushQueue, HoldsIffBusy, TypeOK, InHand, Filled
  <2>2. Held(msgQ) \subseteq Unit \ {mu[p]}
    BY <1>0, <2>1 DEF Separate, AllThere
  <2>3. Occupancy(msgQ) < QSize /\ ~IsFull(msgQ)
    <3>1. msgQ \in Queue(Unit) /\ NoRepeats(msgQ)
      BY <1>0 DEF Separate, TypeOK
    <3>2. Occupancy(msgQ) < QSize
      BY <2>1, <2>2, <3>1, RoomForOne
    <3> QED
      BY <3>1, <3>2, NotFull
  <2>4. /\ msgQ' = Enqueue(msgQ, mu[p]) /\ data' = data
        /\ mu'[Sender] = mu[Sender] /\ buf'[Sender] = buf[Sender]
        /\ pc'[Sender] = "copy" <=> pc[Sender] = "copy"
    BY <1>0, <1>6, <2>3 DEF PushQueue, TypeOK
  <2>5. Queued' = Append(Queued, data[mu[p]])
    <3>1. Held(Enqueue(msgQ, mu[p])) \subseteq Unit
      BY <1>11, <2>4
    <3>2. Messages(Enqueue(msgQ, mu[p]), data) = Append(Messages(msgQ, data), data[mu[p]])
      BY <1>11, <2>1, <2>3, <3>1, QueuedAppend
    <3> QED
      BY <2>4, <3>2 DEF Queued
  <2>6. Len(Queued) < QSize
    BY <1>11, <2>3
  <2>7. Taken' = Taken
    BY <2>4 DEF Taken
  <2> QED
    BY <2>1, <2>5, <2>6, <2>7
<1>7. ASSUME PopTest
      PROVE  \/ Queued # <<>> /\ Queued' = Tail(Queued) /\ Taken' = Head(Queued)
             \/ Queued' = Queued /\ Taken' = Taken
  <2>1. CASE IsEmpty(msgQ)
    <3>1. /\ msgQ' = msgQ /\ data' = data /\ buf' = buf
          /\ pc'[Sender] # "copy" /\ pc[Sender] # "copy"
      BY <1>0, <1>7, <2>1 DEF PopTest, TypeOK
    <3> QED
      BY <1>2, <3>1 DEF Taken
  <2>2. CASE ~IsEmpty(msgQ)
    <3>1. /\ msgQ' = Dequeue(msgQ) /\ data' = data
          /\ pc'[Sender] = "copy" /\ mu'[Sender] = Front(msgQ)
      BY <1>0, <1>7, <2>2 DEF PopTest, TypeOK
    <3>2. Held(Dequeue(msgQ)) \subseteq Unit
      BY <1>11, <3>1
    <3>3. /\ Queued # <<>> /\ Messages(Dequeue(msgQ), data) = Tail(Queued)
          /\ Head(Queued) = data[Front(msgQ)]
      BY <1>11, <2>2, <3>2, QueuedTail DEF Queued
    <3>4. Queued' = Tail(Queued)
      BY <3>1, <3>3 DEF Queued
    <3> QED
      BY <3>1, <3>3, <3>4 DEF Taken
  <2> QED
    BY <2>1, <2>2
<1>8. ASSUME PopTimeout \/ PopReturn
      PROVE  Queued' = Queued /\ Taken' = Taken
  <2>1. /\ msgQ' = msgQ /\ data' = data /\ buf' = buf
        /\ pc'[Sender] = "idle" /\ pc[Sender] # "copy"
    BY <1>0, <1>8 DEF PopTimeout, PopReturn, TypeOK
  <2> QED
    BY <1>2, <2>1 DEF Taken
<1>9. ASSUME PopCopy
      PROVE  Queued' = Queued /\ Taken' = Taken
  <2>1. /\ pc[Sender] = "copy" /\ pc' = [pc EXCEPT ![Sender] = "return"]
        /\ msgQ' = msgQ
        /\ buf' = [buf EXCEPT ![Sender] = data[mu[Sender]]]
        /\ data' = [data EXCEPT ![mu[Sender]] = NoMsg]
    BY <1>9 DEF PopCopy
  <2>2. mu[Sender] # NoItem /\ mu[Sender] \in InHand
    BY <1>0, <2>1 DEF HoldsIffBusy, InHand
  <2>3. mu[Sender] \notin Held(msgQ)
    BY <1>0, <2>2 DEF Separate
  <2>4. Queued' = Queued
    BY <1>0, <2>1, <2>3, QueuedSame
  <2>5. Taken' = Taken
    BY <1>0, <2>1 DEF Taken, TypeOK
  <2> QED
    BY <2>4, <2>5
<1>10. CASE UNCHANGED vars
  BY <1>2, <1>10 DEF vars, Taken
<1> QED
  BY <1>3, <1>4, <1>5, <1>6, <1>7, <1>8, <1>9, <1>10 DEF Next, Push, Pop

(* What the users of msg_fifo.c see is a bounded FIFO: every message is
   received unaltered, in order and at most once, and only the oldest ones are
   discarded.  The priorities of the threads do not matter for it. *)
THEOREM DeliversMessagesInOrder == Aligned => (Spec => DeliversInOrder)
<1> SUFFICES ASSUME Aligned PROVE Spec => DeliversInOrder
  OBVIOUS
<1>1. Init => Abstract!FifoInit /\ Filled
  <2> SUFFICES ASSUME Init PROVE Abstract!FifoInit /\ Filled
    OBVIOUS
  <2>1. Occupancy(msgQ) = 0
    BY DEF Init, EmptyQueue, Occupancy
  <2>2. Queued = <<>>
    BY <2>1 DEF Queued, Messages
  <2>3. Taken = NoMsg /\ Filled
    BY UnitFacts DEF Init, Taken, Filled
  <2> QED
    BY <2>2, <2>3, AbstractView
<1>2. IInv /\ Filled /\ [Next]_vars => Filled'
  BY StepFilled
<1>3. IInv /\ Filled /\ IInv' /\ [Next]_vars => [Abstract!FifoNext]_(Abstract!fifoVars)
  BY StepRefines
<1> QED
  BY <1>1, <1>2, <1>3, AlwaysIInv, PTL DEF Spec, DeliversInOrder, Abstract!FifoSpec
=============================================================================
