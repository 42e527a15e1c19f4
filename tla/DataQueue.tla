------------------------------ MODULE DataQueue ------------------------------
(***************************************************************************)
(* rt_data_queue (rt_ext/dataqueue.c): a ring of pointers with two 16-bit  *)
(* indices that only ever grow and wrap at 2^16.  Every operation runs     *)
(* with interrupts disabled, so it is one atomic state change; this module *)
(* gives the operations as operators on a queue value and leaves blocking  *)
(* and waking to the modules that use the queue.                           *)
(*                                                                         *)
(* IndexMod is 2^16 in the code (rt_uint16_t get_index, put_index) and is  *)
(* scaled down for model checking.  QSize is queue->size.                  *)
(***************************************************************************)
EXTENDS Integers

CONSTANTS QSize,    \* queue->size, the number of slots
          IndexMod  \* the indices are counted modulo this number

ASSUME QueueAssumption == /\ QSize \in Nat \ {0}
                          /\ IndexMod \in Nat
                          /\ IndexMod > QSize

NoItem == 0              \* content of a slot that was never written

Index == 0 .. IndexMod - 1
Slot  == 0 .. QSize - 1

Queue(Item) == [get : Index, put : Index, slot : [Slot -> Item \cup {NoItem}]]

(* rt_data_queue_init.  The slot array comes uninitialised from rt_malloc;
   no slot is read before it is written. *)
EmptyQueue == [get |-> 0, put |-> 0, slot |-> [s \in Slot |-> NoItem]]

(* The two tests the code makes.  IsFull subtracts two rt_uint16_t values
   promoted to int, so the difference is not reduced modulo 2^16. *)
IsEmpty(q) == q.get = q.put
IsFull(q)  == q.put - q.get = QSize

(* Faulty variant: an index type wider than the counter it is kept in. *)
StepNoWrap(i) == i + 1

Step(i) == (i + 1) % IndexMod

(* The part of rt_data_queue_push and rt_data_queue_pop that follows a
   successful test. *)
Enqueue(q, x) == [q EXCEPT !.slot[q.put % QSize] = x, !.put = Step(q.put)]
Front(q)      == q.slot[q.get % QSize]
Dequeue(q)    == [q EXCEPT !.get = Step(q.get)]

-----------------------------------------------------------------------------
(* What a queue holds: the pushes not yet popped, counted modulo IndexMod,
   oldest first. *)
Occupancy(q) == IF q.put >= q.get THEN q.put - q.get
                                  ELSE q.put - q.get + IndexMod
Ahead(q, k)  == IF q.get + k < IndexMod THEN q.get + k
                                        ELSE q.get + k - IndexMod
ItemAt(q, k) == q.slot[Ahead(q, k) % QSize]
Held(q)      == {ItemAt(q, k) : k \in 0 .. Occupancy(q) - 1}
NoRepeats(q) == \A i, j \in 0 .. Occupancy(q) - 1 :
                  ItemAt(q, i) = ItemAt(q, j) => i = j
Items(q)     == [k \in 1 .. Occupancy(q) |-> ItemAt(q, k - 1)]

(* The index arithmetic is sound only if the wrap at IndexMod keeps an
   index's slot: 2^16 is a multiple of sizes 1, 2 and 4, not of 3 and 5. *)
Aligned == IndexMod % QSize = 0
=============================================================================
