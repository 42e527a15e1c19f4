--------------------------- MODULE DataQueueProofs ---------------------------
(***************************************************************************)
(* What the operations of rt_data_queue do to the items a queue holds, for *)
(* every size and every index width, as long as the size divides the range *)
(* of the indices and the queue is not overfilled.                         *)
(***************************************************************************)
EXTENDS DataQueue, Functions, FiniteSetTheorems, TLAPS

(* Two different numbers less than QSize apart leave different remainders,
   so two live indices never share a slot. *)
LEMMA SlotsDistinct ==
  ASSUME NEW a \in Nat, NEW b \in Nat, a < b, b < a + QSize
  PROVE  a % QSize # b % QSize
<1> DEFINE da == a \div QSize
           db == b \div QSize
<1>1. QSize \in Nat /\ QSize > 0
  BY QueueAssumption
<1>2. /\ da \in Int /\ db \in Int
      /\ a = QSize * da + (a % QSize)
      /\ b = QSize * db + (b % QSize)
  BY <1>1
<1>3. SUFFICES ASSUME a % QSize = b % QSize
               PROVE  FALSE
  OBVIOUS
<1>4. b - a = QSize * (db - da)
  BY <1>1, <1>2, <1>3
<1>5. 0 < QSize * (db - da) /\ QSize * (db - da) < QSize
  BY <1>1, <1>4
<1>. QED
  BY <1>1, <1>2, <1>5

(* The remainder of an index is a slot. *)
LEMMA SlotOfIndex ==
  ASSUME NEW a \in Nat
  PROVE  a % QSize \in Slot
BY QueueAssumption DEF Slot

(* The wrap at IndexMod keeps an index's slot when QSize divides IndexMod. *)
LEMMA WrapKeepsSlot ==
  ASSUME Aligned, NEW a \in Nat, a >= IndexMod
  PROVE  (a - IndexMod) % QSize = a % QSize
<1> DEFINE c  == IndexMod \div QSize
           b  == a - IndexMod
           db == b \div QSize
           da == a \div QSize
<1>1. QSize \in Nat /\ QSize > 0 /\ IndexMod \in Nat /\ b \in Nat
  BY QueueAssumption
<1>2. c \in Int /\ IndexMod = QSize * c
  BY <1>1 DEF Aligned
<1>3. /\ da \in Int /\ db \in Int
      /\ a = QSize * da + (a % QSize)
      /\ b = QSize * db + (b % QSize)
      /\ a % QSize \in 0 .. QSize - 1
      /\ b % QSize \in 0 .. QSize - 1
  BY <1>1
<1>4. (a % QSize) - (b % QSize) = QSize * (db + c - da)
  BY <1>1, <1>2, <1>3
<1>5. QSize * (db + c - da) < QSize /\ QSize * (db + c - da) > -QSize
  BY <1>1, <1>3, <1>4
<1>6. db + c - da = 0
  BY <1>1, <1>2, <1>3, <1>5
<1>. QED
  BY <1>1, <1>3, <1>4, <1>6

(* The slot of the k-th live item, without the wrap. *)
LEMMA AheadSlot ==
  ASSUME Aligned, NEW Item, NEW q \in Queue(Item), NEW k \in 0 .. QSize
  PROVE  /\ Ahead(q, k) \in Index
         /\ Ahead(q, k) % QSize = (q.get + k) % QSize
<1>1. q.get \in Nat /\ q.get < IndexMod /\ QSize \in Nat /\ IndexMod \in Nat
      /\ IndexMod > QSize
  BY QueueAssumption DEF Queue, Index
<1>2. CASE q.get + k < IndexMod
  BY <1>1, <1>2 DEF Ahead, Index
<1>3. CASE ~(q.get + k < IndexMod)
  <2>1. (q.get + k - IndexMod) % QSize = (q.get + k) % QSize
    BY <1>1, <1>3, WrapKeepsSlot
  <2>. QED
    BY <1>1, <1>3, <2>1 DEF Ahead, Index
<1>. QED
  BY <1>2, <1>3

-----------------------------------------------------------------------------
(* The number of live items stays below the range of the indices. *)
LEMMA OccupancyType ==
  ASSUME NEW Item, NEW q \in Queue(Item)
  PROVE  /\ Occupancy(q) \in 0 .. IndexMod - 1
         /\ IsEmpty(q) <=> Occupancy(q) = 0
BY QueueAssumption DEF Queue, Index, Occupancy, IsEmpty

(* rt_data_queue_push accepts whenever fewer than QSize items are live. *)
LEMMA NotFull ==
  ASSUME NEW Item, NEW q \in Queue(Item), Occupancy(q) < QSize
  PROVE  ~IsFull(q)
BY QueueAssumption DEF Queue, Index, Occupancy, IsFull

(* An index steps to the next one, or from the last to 0. *)
LEMMA StepType ==
  ASSUME NEW i \in Index
  PROVE  /\ Step(i) \in Index
         /\ Step(i) = IF i + 1 < IndexMod THEN i + 1 ELSE 0
BY QueueAssumption DEF Index, Step

(* Enqueue adds one item at the end and moves no other. *)
LEMMA EnqueueEffect ==
  ASSUME Aligned, NEW Item, NEW q \in Queue(Item), NEW x \in Item,
         Occupancy(q) < QSize
  PROVE  /\ Enqueue(q, x) \in Queue(Item)
         /\ Occupancy(Enqueue(q, x)) = Occupancy(q) + 1
         /\ \A k \in 0 .. Occupancy(q) - 1 :
              ItemAt(Enqueue(q, x), k) = ItemAt(q, k)
         /\ ItemAt(Enqueue(q, x), Occupancy(q)) = x
<1> DEFINE e == Enqueue(q, x)
           n == Occupancy(q)
<1>1. /\ QSize \in Nat /\ QSize > 0 /\ IndexMod \in Nat /\ IndexMod > QSize
      /\ q.get \in 0 .. IndexMod - 1 /\ q.put \in 0 .. IndexMod - 1
      /\ q.slot \in [Slot -> Item \cup {NoItem}]
      /\ n \in 0 .. IndexMod - 1 /\ n < QSize
  BY QueueAssumption, OccupancyType DEF Queue, Index
<1>2. q.put % QSize \in Slot
  BY <1>1, SlotOfIndex
<1>3. /\ e.get = q.get
      /\ e.put = Step(q.put)
      /\ e.slot = [q.slot EXCEPT ![q.put % QSize] = x]
      /\ e = [get |-> e.get, put |-> e.put, slot |-> e.slot]
  <2>1. q = [get |-> q.get, put |-> q.put, slot |-> q.slot]
    BY DEF Queue
  <2>. DEFINE m == [q EXCEPT !.slot = [q.slot EXCEPT ![q.put % QSize] = x]]
  <2>2. /\ m.get = q.get /\ m.put = q.put
        /\ m.slot = [q.slot EXCEPT ![q.put % QSize] = x]
        /\ m = [get |-> m.get, put |-> m.put, slot |-> m.slot]
    BY <2>1
  <2>3. e = [m EXCEPT !.put = Step(q.put)]
    BY <2>1 DEF Enqueue
  <2>. HIDE DEF m, e
  <2>. QED
    BY <2>2, <2>3
<1>4. Step(q.put) = IF q.put + 1 < IndexMod THEN q.put + 1 ELSE 0
  BY <1>1, StepType DEF Index
<1>5. e \in Queue(Item)
  BY <1>1, <1>2, <1>3, <1>4 DEF Queue, Index
<1>6. Occupancy(e) = n + 1
  BY <1>1, <1>3, <1>4 DEF Occupancy
<1>7. \A k : Ahead(e, k) = Ahead(q, k)
  BY <1>3 DEF Ahead
<1>8. Ahead(q, n) = q.put
  BY <1>1 DEF Ahead, Occupancy
<1>9. ItemAt(e, n) = x
  BY <1>1, <1>2, <1>3, <1>7, <1>8 DEF ItemAt
<1>10. ASSUME NEW k \in 0 .. n - 1
       PROVE  ItemAt(e, k) = ItemAt(q, k)
  <2>1. /\ k \in 0 .. QSize /\ n \in 0 .. QSize
    BY <1>1
  <2>2. /\ Ahead(q, k) % QSize = (q.get + k) % QSize
        /\ Ahead(q, n) % QSize = (q.get + n) % QSize
        /\ Ahead(q, k) \in Index
    BY <2>1, AheadSlot
  <2>3. (q.get + k) % QSize # (q.get + n) % QSize
    <3>1. /\ q.get + k \in Nat /\ q.get + n \in Nat
          /\ q.get + k < q.get + n /\ q.get + n < q.get + k + QSize
      BY <1>1
    <3>. QED
      BY <3>1, SlotsDistinct
  <2>4. Ahead(q, k) % QSize # q.put % QSize
    BY <1>8, <2>2, <2>3
  <2>5. Ahead(q, k) % QSize \in Slot
    BY <2>2, SlotOfIndex DEF Index
  <2>. QED
    BY <1>1, <1>3, <1>7, <2>4, <2>5 DEF ItemAt
<1>. QED
  BY <1>5, <1>6, <1>9, <1>10

(* Dequeue removes the front item and moves the others up. *)
LEMMA DequeueEffect ==
  ASSUME Aligned, NEW Item, NEW q \in Queue(Item), ~IsEmpty(q)
  PROVE  /\ Dequeue(q) \in Queue(Item)
         /\ Occupancy(Dequeue(q)) = Occupancy(q) - 1
         /\ \A k \in 0 .. Occupancy(q) - 2 :
              ItemAt(Dequeue(q), k) = ItemAt(q, k + 1)
         /\ Front(q) = ItemAt(q, 0)
<1> DEFINE d == Dequeue(q)
<1>1. /\ QSize \in Nat /\ QSize > 0 /\ IndexMod \in Nat /\ IndexMod > QSize
      /\ q.get \in 0 .. IndexMod - 1 /\ q.put \in 0 .. IndexMod - 1
      /\ Occupancy(q) \in 1 .. IndexMod - 1
  BY QueueAssumption, OccupancyType DEF Queue, Index
<1>2. /\ d.get = Step(q.get) /\ d.put = q.put /\ d.slot = q.slot
      /\ d = [get |-> Step(q.get), put |-> q.put, slot |-> q.slot]
  BY DEF Dequeue, Queue
<1>3. Step(q.get) = IF q.get + 1 < IndexMod THEN q.get + 1 ELSE 0
  BY <1>1, StepType DEF Index
<1>4. d \in Queue(Item)
  BY <1>1, <1>2, <1>3 DEF Queue, Index
<1>5. Occupancy(d) = Occupancy(q) - 1
  BY <1>1, <1>2, <1>3 DEF Occupancy
<1>6. ASSUME NEW k \in 0 .. Occupancy(q) - 2
      PROVE  ItemAt(d, k) = ItemAt(q, k + 1)
  <2>1. Ahead(d, k) = Ahead(q, k + 1)
    BY <1>1, <1>2, <1>3 DEF Ahead
  <2>. QED
    BY <1>2, <2>1 DEF ItemAt
<1>7. Front(q) = ItemAt(q, 0)
  <2>1. Ahead(q, 0) = q.get
    BY <1>1 DEF Ahead
  <2>. QED
    BY <2>1 DEF Front, ItemAt
<1>. QED
  BY <1>4, <1>5, <1>6, <1>7

-----------------------------------------------------------------------------
(* Enqueue on the set of items a queue holds: an item that is not queued yet
   joins it, and no item is queued twice. *)
LEMMA EnqueueHeld ==
  ASSUME Aligned, NEW Item, NEW q \in Queue(Item), NEW x \in Item,
         Occupancy(q) < QSize, NoRepeats(q), x \notin Held(q)
  PROVE  /\ Held(Enqueue(q, x)) = Held(q) \cup {x}
         /\ NoRepeats(Enqueue(q, x))
<1> DEFINE e == Enqueue(q, x)
           n == Occupancy(q)
<1>1. /\ n \in Nat /\ Occupancy(e) = n + 1
      /\ \A k \in 0 .. n - 1 : ItemAt(e, k) = ItemAt(q, k)
      /\ ItemAt(e, n) = x
  BY OccupancyType, EnqueueEffect, QueueAssumption
<1>2. \A k \in 0 .. n - 1 : ItemAt(q, k) # x
  BY DEF Held
<1>3. 0 .. Occupancy(e) - 1 = (0 .. n - 1) \cup {n}
  BY <1>1
<1>4. Held(e) = Held(q) \cup {x}
  BY <1>1, <1>3 DEF Held
<1>5. NoRepeats(e)
  BY <1>1, <1>2, <1>3 DEF NoRepeats
<1>. QED
  BY <1>4, <1>5

(* Dequeue on that set: the front item leaves it. *)
LEMMA DequeueHeld ==
  ASSUME Aligned, NEW Item, NEW q \in Queue(Item), ~IsEmpty(q), NoRepeats(q)
  PROVE  /\ Front(q) \in Held(q)
         /\ Held(Dequeue(q)) = Held(q) \ {Front(q)}
         /\ NoRepeats(Dequeue(q))
<1> DEFINE d == Dequeue(q)
           n == Occupancy(q)
<1>1. /\ n \in Nat /\ n > 0 /\ Occupancy(d) = n - 1
      /\ \A k \in 0 .. n - 2 : ItemAt(d, k) = ItemAt(q, k + 1)
      /\ Front(q) = ItemAt(q, 0)
  BY OccupancyType, DequeueEffect, QueueAssumption
<1>2. Front(q) \in Held(q)
  BY <1>1 DEF Held
<1>3. \A k \in 1 .. n - 1 : ItemAt(q, k) # ItemAt(q, 0)
  BY <1>1 DEF NoRepeats
<1>4. ASSUME NEW y
      PROVE  y \in Held(d) <=> y \in Held(q) /\ y # Front(q)
  <2>1. ASSUME y \in Held(d)
        PROVE  y \in Held(q) /\ y # Front(q)
    <3>1. PICK k \in 0 .. n - 2 : y = ItemAt(q, k + 1)
      BY <1>1, <2>1 DEF Held
    <3>. QED
      BY <1>1, <1>3, <3>1 DEF Held
  <2>2. ASSUME y \in Held(q), y # Front(q)
        PROVE  y \in Held(d)
    <3>1. PICK k \in 1 .. n - 1 : y = ItemAt(q, k)
      BY <1>1, <2>2 DEF Held
    <3>2. k - 1 \in 0 .. n - 2 /\ ItemAt(d, k - 1) = y
      BY <1>1, <3>1
    <3>. QED
      BY <1>1, <3>2 DEF Held
  <2>. QED
    BY <2>1, <2>2
<1>5. NoRepeats(d)
  <2>1. ASSUME NEW i \in 0 .. n - 2, NEW j \in 0 .. n - 2,
               ItemAt(d, i) = ItemAt(d, j)
        PROVE  i = j
    <3>1. ItemAt(q, i + 1) = ItemAt(q, j + 1)
      BY <1>1, <2>1
    <3>. QED
      BY <1>1, <3>1 DEF NoRepeats
  <2>. QED
    BY <1>1, <2>1 DEF NoRepeats
<1>. QED
  BY <1>2, <1>4, <1>5

(* A queue of units, none of them twice, that does not hold all the units
   has room for one more. *)
LEMMA RoomForOne ==
  ASSUME NEW Item, NEW q \in Queue(Item), NEW u \in 1 .. QSize,
         NoRepeats(q), Held(q) \subseteq (1 .. QSize) \ {u}
  PROVE  Occupancy(q) < QSize
<1> DEFINE n == Occupancy(q)
           f == [k \in 0 .. n - 1 |-> ItemAt(q, k)]
           T == (1 .. QSize) \ {u}
<1>1. QSize \in Nat /\ n \in Nat
  BY QueueAssumption, OccupancyType
<1>2. f \in [0 .. n - 1 -> T]
  BY DEF Held
<1>3. \A a, b \in 0 .. n - 1 : f[a] = f[b] => a = b
  BY DEF NoRepeats
<1>4. f \in Injection(0 .. n - 1, T)
  BY <1>2, <1>3 DEF Injection, IsInjective
<1>5. IsFiniteSet(T) /\ Cardinality(T) = QSize - 1
  <2>1. IsFiniteSet(1 .. QSize) /\ Cardinality(1 .. QSize) = QSize
    <3>1. 1 \in Int /\ QSize \in Int
      BY <1>1
    <3>2. /\ IsFiniteSet(1 .. QSize)
          /\ Cardinality(1 .. QSize) = IF 1 > QSize THEN 0 ELSE QSize - 1 + 1
      BY <3>1, FS_Interval
    <3>. QED
      BY <1>1, <3>2, QueueAssumption
  <2>. QED
    BY <2>1, FS_RemoveElement
<1>6. Cardinality(0 .. n - 1) = n
  BY <1>1, FS_Interval
<1>7. Cardinality(0 .. n - 1) <= Cardinality(T)
  <2>. HIDE DEF f, T
  <2>. QED
    BY <1>4, <1>5, FS_Injection
<1>. QED
  BY <1>1, <1>5, <1>6, <1>7
=============================================================================
