----------------------------- MODULE MainRxProofs -----------------------------
(***************************************************************************)
(* Reception loses no byte but the oldest of a full ring, and forgets none *)
(* that arrived once the semaphores exist: for any size of the rings, any  *)
(* number of bytes and any interleaving of the interrupts with the main    *)
(* thread.  Only NoByteForgotten needs a read buffer that takes all a ring *)
(* can hold.                                                               *)
(***************************************************************************)
EXTENDS MainRx, SequenceTheorems, TLAPS

(* What a ring holds has arrived, and its flag is set at most when it is not
   empty. *)
Held(r, a) == \A k \in 1 .. Length(r) : Contents(r)[k] \in Byte /\ Contents(r)[k][2] <= a

RingHoldsArrived ==
  \A p \in Ports :
    /\ Held(ring[p], arrived[p])
    /\ ring[p].get = ring[p].put => ~ring[p].is_full

(* Only the transparent mode has indicators; they are set before its loop
   begins. *)
IndicatorsSet ==
  /\ \A p \in Ports : ~rx_ind[p] => early[p] = MaxBytes
  /\ mode # "transparent" => pc \in {"read", "pause", "return"}
                             /\ \A p \in Ports : ~rx_ind[p]
  /\ pc = "indicate" /\ cur = User485 => rx_ind[User]
  /\ mode = "transparent" /\ pc # "indicate" => \A p \in Ports : rx_ind[p]

(* In its loop the main thread starts every message with an empty buffer.  As
   long as no interrupt has come since it took the semaphore, what it has
   read and what is left is no more than the ring held then; in the pause,
   nothing is left. *)
NothingCameSince(p) == sem[p] = 0 /\ isr # p

ReadsWhatWasThere ==
  mode = "transparent" =>
    /\ pc \in {"indicate", "take"} => cnt = 0
    /\ pc \in {"read", "pause"} /\ NothingCameSince(cur) =>
         cnt + Length(ring[cur]) < BufSize
    /\ pc = "pause" /\ NothingCameSince(cur) => Length(ring[cur]) = 0

RxInv == TypeOK /\ RingHoldsArrived /\ IndicatorsSet /\ ReadsWhatWasThere

(* NoByteForgotten, port by port, for a ring that holds what has arrived. *)
Covered(p) == arrived[p] > early[p] /\ Length(ring[p]) > 0 =>
                isr = p \/ sem[p] > 0 \/ (cur = p /\ pc \in {"read", "pause"})

KeepsCovered == \A p \in Ports : Covered(p) => Covered(p)'

IInv == RxInv /\ \A p \in Ports : Covered(p)

-----------------------------------------------------------------------------
(* Index arithmetic of serial.c: a sum of two slots wraps at most once. *)
LEMMA Wrap ==
  ASSUME NEW x \in 0 .. 2 * BufSize - 1
  PROVE  x % BufSize = IF x < BufSize THEN x ELSE x - BufSize
<1> DEFINE q == x \div BufSize
           m == x % BufSize
<1>1. BufSize \in Nat /\ BufSize > 1
  BY RxAssumption
<1>2. q \in Int /\ x = BufSize * q + m /\ m \in 0 .. BufSize - 1
  BY <1>1
<1> HIDE DEF q, m
<1>3. q < 2 /\ q > -1
  <2>1. CASE q >= 2
    <3>1. BufSize * q >= BufSize * 2
      BY <1>1, <1>2, <2>1
    <3> QED
      BY <1>1, <1>2, <3>1
  <2>2. CASE q <= -1
    <3>1. BufSize * q <= -BufSize
      BY <1>1, <1>2, <2>2
    <3> QED
      BY <1>1, <1>2, <3>1
  <2> QED
    BY <1>2, <2>1, <2>2
<1>4. CASE q = 0
  <2>1. m = x
    BY <1>1, <1>2, <1>4
  <2> QED
    BY <1>1, <1>2, <2>1 DEF m
<1>5. CASE q = 1
  <2>1. m = x - BufSize
    BY <1>1, <1>2, <1>5
  <2> QED
    BY <1>1, <1>2, <2>1 DEF m
<1> QED
  BY <1>2, <1>3, <1>4, <1>5

(* The slot k after one, and how far a slot is ahead of another. *)
Ahead(g, k) == IF g + k < BufSize THEN g + k ELSE g + k - BufSize
Apart(g, u) == IF g <= u THEN u - g ELSE u + BufSize - g

LEMMA SlotsAhead ==
  ASSUME NEW g \in Slot
  PROVE  /\ \A k \in 0 .. BufSize : Ahead(g, k) \in Slot
         /\ \A k \in 0 .. BufSize - 1 : Ahead(Ahead(g, 1), k) = Ahead(g, k + 1)
         /\ Ahead(g, 0) = g
  BY RxAssumption DEF Slot, Ahead

(* The distance of two slots is a slot number, reached on no shorter way, *)
LEMMA SlotsApart ==
  ASSUME NEW g \in Slot, NEW u \in Slot
  PROVE  /\ Apart(g, u) \in Slot
         /\ Apart(g, u) = 0 <=> g = u
         /\ Ahead(g, Apart(g, u)) = u
         /\ \A k \in 0 .. Apart(g, u) - 1 : Ahead(g, k) # u
<1>1. BufSize \in Nat /\ g \in 0 .. BufSize - 1 /\ u \in 0 .. BufSize - 1
  BY RxAssumption DEF Slot
<1>2. CASE g <= u
  BY <1>1, <1>2 DEF Slot, Ahead, Apart
<1>3. CASE ~(g <= u)
  BY <1>1, <1>3 DEF Slot, Ahead, Apart
<1> QED
  BY <1>2, <1>3

(* and what becomes of it when one of the two moves on by one. *)
LEMMA SlotsMoved ==
  ASSUME NEW g \in Slot, NEW u \in Slot
  PROVE  /\ Ahead(u, 1) = g <=> Apart(g, u) = BufSize - 1
         /\ Ahead(u, 1) # g => Apart(g, Ahead(u, 1)) = Apart(g, u) + 1
         /\ g # u => Apart(Ahead(g, 1), u) = Apart(g, u) - 1
         /\ Apart(Ahead(g, 1), g) = BufSize - 1
<1>1. BufSize \in Nat /\ BufSize > 1 /\ g \in 0 .. BufSize - 1 /\ u \in 0 .. BufSize - 1
  BY RxAssumption DEF Slot
<1>2. Ahead(u, 1) = g <=> Apart(g, u) = BufSize - 1
  BY <1>1 DEF Ahead, Apart
<1>3. Ahead(u, 1) # g => Apart(g, Ahead(u, 1)) = Apart(g, u) + 1
  BY <1>1 DEF Ahead, Apart
<1>4. g # u => Apart(Ahead(g, 1), u) = Apart(g, u) - 1
  BY <1>1 DEF Ahead, Apart
<1>5. Apart(Ahead(g, 1), g) = BufSize - 1
  BY <1>1 DEF Ahead, Apart
<1> QED
  BY <1>2, <1>3, <1>4, <1>5

(* So the code's arithmetic is about. *)
LEMMA StepSlot ==
  ASSUME NEW i \in Slot
  PROVE  Step(i) = Ahead(i, 1) /\ Step(i) \in Slot
<1> DEFINE x == i + 1
<1>1. x \in 0 .. 2 * BufSize - 1
  BY RxAssumption DEF Slot
<1> HIDE DEF x
<1>2. x % BufSize = IF x < BufSize THEN x ELSE x - BufSize
  BY <1>1, Wrap
<1>3. Step(i) = x % BufSize
  BY DEF Step, x
<1>4. Ahead(i, 1) = IF x < BufSize THEN x ELSE x - BufSize
  BY <1>1, RxAssumption DEF Ahead, x, Slot
<1> QED
  BY <1>2, <1>3, <1>4, SlotsAhead, RxAssumption

(* The fields of a ring, and the distance of its indices as its length. *)
LEMMA LengthOf ==
  ASSUME NEW r \in Ring
  PROVE  /\ r.get \in Slot /\ r.put \in Slot
         /\ r.is_full \in BOOLEAN /\ r.buffer \in [Slot -> Byte \cup {None}]
         /\ Length(r) \in Slot
         /\ Length(r) = Apart(r.get, r.put)
<1>1. /\ r.get \in Slot /\ r.put \in Slot
      /\ r.is_full \in BOOLEAN /\ r.buffer \in [Slot -> Byte \cup {None}]
  BY DEF Ring
<1>2. Length(r) = Apart(r.get, r.put)
  <2> DEFINE x == r.put + BufSize - r.get
  <2>1. x \in 0 .. 2 * BufSize - 1
    BY <1>1, RxAssumption DEF Slot
  <2>2. x % BufSize = IF x < BufSize THEN x ELSE x - BufSize
    <3> HIDE DEF x
    <3> QED
      BY <2>1, Wrap
  <2>3. CASE r.get <= r.put
    <3>1. x - BufSize = r.put - r.get /\ ~(x < BufSize)
      BY <1>1, <2>3, RxAssumption DEF Slot
    <3> QED
      BY <2>2, <2>3, <3>1 DEF Length, Apart
  <2>4. CASE ~(r.get <= r.put)
    <3>1. x < BufSize
      BY <1>1, <2>4, RxAssumption DEF Slot
    <3> QED
      BY <2>2, <2>4, <3>1 DEF Length, Apart
  <2> QED
    BY <2>3, <2>4
<1> QED
  BY <1>1, <1>2, SlotsApart

(* A ring holds a sequence, the k-th byte of which is in the k-th slot. *)
LEMMA ContentsOf ==
  ASSUME NEW r \in Ring
  PROVE  /\ Contents(r) \in Seq(Byte \cup {None}) /\ Len(Contents(r)) = Length(r)
         /\ \A k \in 1 .. Length(r) : Contents(r)[k] = r.buffer[Ahead(r.get, k - 1)]
<1> DEFINE n == Length(r)
           slot(k) == (r.get + k - 1) % BufSize
<1>1. r.get \in Slot /\ n \in Slot /\ r.buffer \in [Slot -> Byte \cup {None}]
  BY LengthOf
<1>2. Contents(r) = [k \in 1 .. n |-> r.buffer[slot(k)]]
  BY DEF Contents
<1>3. n \in Nat
  BY <1>1, RxAssumption DEF Slot
<1>4. ASSUME NEW k \in 1 .. n
      PROVE  slot(k) = Ahead(r.get, k - 1) /\ slot(k) \in Slot
  <2> DEFINE x == r.get + (k - 1)
  <2>1. x \in 0 .. 2 * BufSize - 1 /\ r.get + k - 1 = x
    BY <1>1, RxAssumption DEF Slot
  <2> HIDE DEF x, n
  <2>2. x % BufSize = IF x < BufSize THEN x ELSE x - BufSize
    BY <2>1, Wrap
  <2>3. slot(k) = x % BufSize
    BY <2>1
  <2>4. Ahead(r.get, k - 1) = IF x < BufSize THEN x ELSE x - BufSize
    BY <1>1, <1>3, RxAssumption DEF Ahead, x, Slot
  <2>5. k - 1 \in 0 .. BufSize
    BY <1>1, RxAssumption DEF Slot
  <2> QED
    BY <1>1, <2>2, <2>3, <2>4, <2>5, SlotsAhead
<1> HIDE DEF slot, n
<1>5. \A k \in 1 .. n : r.buffer[slot(k)] \in Byte \cup {None}
  BY <1>1, <1>4
<1> QED
  BY <1>2, <1>3, <1>4, <1>5 DEF n

(* An interrupt adds a byte at the end; at a full ring, the oldest goes. *)
LEMMA PutByteOK ==
  ASSUME NEW r \in Ring, NEW b \in Byte
  PROVE  LET q    == PutByte(r, b)
             full == Length(r) = BufSize - 1
         IN  /\ q \in Ring
             /\ Length(q) = IF full THEN BufSize - 1 ELSE Length(r) + 1
             /\ Contents(q)[Length(q)] = b
             /\ \A k \in 1 .. Length(q) - 1 :
                  LET j == IF full THEN k + 1 ELSE k
                  IN  j \in 1 .. Length(r) /\ Contents(q)[k] = Contents(r)[j]
             /\ q.get # q.put
<1> DEFINE q == PutByte(r, b)
           n == Length(r)
           m == Length(q)
           hit == Step(r.put) = r.get
<1>1. /\ r.get \in Slot /\ r.put \in Slot
      /\ r.is_full \in BOOLEAN /\ r.buffer \in [Slot -> Byte \cup {None}]
      /\ n \in Slot
      /\ n = Apart(r.get, r.put)
  BY LengthOf
<1>2. /\ Step(r.put) \in Slot /\ Step(r.get) \in Slot
      /\ Step(r.put) = Ahead(r.put, 1) /\ Step(r.get) = Ahead(r.get, 1)
  BY <1>1, StepSlot
<1>4. /\ q = [get |-> q.get, put |-> q.put, is_full |-> q.is_full, buffer |-> q.buffer]
      /\ q.get = IF hit THEN Step(r.get) ELSE r.get
      /\ q.put = Step(r.put)
      /\ q.is_full = (r.is_full \/ hit)
      /\ q.buffer = [r.buffer EXCEPT ![r.put] = b]
  BY DEF PutByte
<1>5. q \in Ring
  <2>1. q.is_full \in BOOLEAN
    BY <1>1, <1>4
  <2>2. q.buffer \in [Slot -> Byte \cup {None}]
    BY <1>1, <1>4
  <2>3. q.get \in Slot /\ q.put \in Slot
    BY <1>1, <1>2, <1>4
  <2> HIDE DEF q, hit
  <2> QED
    BY <1>4, <2>1, <2>2, <2>3 DEF Ring
<1>6. m = Apart(q.get, q.put) /\ m \in Slot
  <2> HIDE DEF q
  <2> QED
    BY <1>5, LengthOf
<1> HIDE DEF q, n, m
<1>7. /\ hit <=> n = BufSize - 1
      /\ ~hit => m = n + 1
      /\ hit => m = BufSize - 1
  <2>1. hit <=> n = BufSize - 1
    BY <1>1, <1>2, SlotsMoved
  <2>2. ~hit => m = n + 1
    BY <1>1, <1>2, <1>4, <1>6, SlotsMoved
  <2>3. hit => m = BufSize - 1
    <3>1. hit => q.get = Ahead(r.get, 1) /\ q.put = r.get
      BY <1>2, <1>4
    <3> QED
      BY <1>1, <1>6, <3>1, SlotsMoved
  <2> QED
    BY <2>1, <2>2, <2>3
<1> HIDE DEF hit
<1>8. BufSize \in Nat /\ BufSize > 1 /\ n \in 0 .. BufSize - 1 /\ m \in 1 .. BufSize - 1
  BY <1>1, <1>6, <1>7, RxAssumption DEF Slot
<1>9. q.get # q.put
  <2>1. q.get \in Slot /\ q.put \in Slot
    BY <1>5, LengthOf
  <2>2. Apart(q.get, q.put) = 0 <=> q.get = q.put
    BY <2>1, SlotsApart
  <2>3. m # 0
    BY <1>8
  <2> QED
    BY <1>6, <2>2, <2>3
<1>3. /\ \A k \in 1 .. n : Contents(r)[k] = r.buffer[Ahead(r.get, k - 1)]
      /\ \A k \in 1 .. m : Contents(q)[k] = q.buffer[Ahead(q.get, k - 1)]
  BY <1>5, ContentsOf DEF n, m
<1>10. Contents(q)[m] = b
  <2>1. m \in 1 .. m
    BY <1>8
  <2>2. Ahead(q.get, m - 1) = r.put
    <3>1. CASE hit
      <4>1. q.get = Ahead(r.get, 1) /\ m - 1 = BufSize - 2 /\ n = BufSize - 1
        BY <1>2, <1>4, <1>7, <1>8, <3>1
      <4>2. Ahead(Ahead(r.get, 1), BufSize - 2) = Ahead(r.get, (BufSize - 2) + 1)
        <5>1. BufSize - 2 \in 0 .. BufSize - 1
          BY <1>8
        <5> QED
          BY <1>1, <5>1, SlotsAhead
      <4>3. (BufSize - 2) + 1 = n
        BY <1>8, <4>1
      <4>4. Ahead(r.get, n) = r.put
        BY <1>1, SlotsApart
      <4> QED
        BY <4>1, <4>2, <4>3, <4>4
    <3>2. CASE ~hit
      <4>1. q.get = r.get /\ m - 1 = n
        BY <1>4, <1>7, <1>8, <3>2
      <4> QED
        BY <1>1, <4>1, SlotsApart
    <3> QED
      BY <3>1, <3>2
  <2>3. q.buffer[r.put] = b
    BY <1>1, <1>4
  <2> QED
    BY <1>3, <2>1, <2>2, <2>3
<1>11. ASSUME NEW k \in 1 .. m - 1
       PROVE  LET j == IF n = BufSize - 1 THEN k + 1 ELSE k
              IN  j \in 1 .. n /\ Contents(q)[k] = Contents(r)[j]
  <2> DEFINE j == IF n = BufSize - 1 THEN k + 1 ELSE k
  <2>1. j \in 1 .. n /\ k - 1 \in 0 .. BufSize - 1 /\ k \in 1 .. m
    BY <1>7, <1>8
  <2>2. Ahead(q.get, k - 1) = Ahead(r.get, j - 1)
    <3>1. CASE hit
      <4>1. Ahead(Ahead(r.get, 1), k - 1) = Ahead(r.get, (k - 1) + 1)
        BY <1>1, <2>1, SlotsAhead
      <4>2. (k - 1) + 1 = j - 1
        BY <1>7, <3>1
      <4> QED
        BY <1>2, <1>4, <3>1, <4>1, <4>2
    <3>2. CASE ~hit
      BY <1>4, <1>7, <3>2
    <3> QED
      BY <3>1, <3>2
  <2> HIDE DEF j
  <2>3. Ahead(r.get, j - 1) # r.put
    <3>1. j - 1 \in 0 .. n - 1
      BY <1>8, <2>1
    <3> QED
      BY <1>1, <3>1, SlotsApart
  <2>4. Contents(r)[j] = r.buffer[Ahead(r.get, j - 1)]
    BY <1>3, <2>1
  <2>5. q.buffer[Ahead(q.get, k - 1)] = r.buffer[Ahead(r.get, j - 1)]
    BY <1>1, <1>4, <2>2, <2>3
  <2>6. Contents(q)[k] = Contents(r)[j]
    BY <1>3, <2>1, <2>4, <2>5
  <2> QED
    BY <2>1, <2>6 DEF j
<1>12. m = IF n = BufSize - 1 THEN BufSize - 1 ELSE n + 1
  BY <1>7
<1> QED
  BY <1>5, <1>9, <1>10, <1>11, <1>12 DEF q, n, m

(* usart_read takes the oldest byte. *)
LEMMA GetByteOK ==
  ASSUME NEW r \in Ring, ~Empty(r), r.get = r.put => ~r.is_full
  PROVE  LET q == GetByte(r)
         IN  /\ q \in Ring /\ ~q.is_full
             /\ Length(r) > 0 /\ Length(q) = Length(r) - 1
             /\ \A k \in 1 .. Length(q) :
                  k + 1 \in 1 .. Length(r) /\ Contents(q)[k] = Contents(r)[k + 1]
             /\ Oldest(r) = Contents(r)[1]
<1> DEFINE q == GetByte(r)
           n == Length(r)
           m == Length(q)
<1>1. /\ r.get \in Slot /\ r.put \in Slot
      /\ r.is_full \in BOOLEAN /\ r.buffer \in [Slot -> Byte \cup {None}]
      /\ n \in Slot
      /\ n = Apart(r.get, r.put)
  BY LengthOf
<1>2. r.get # r.put
  BY DEF Empty
<1>3. n > 0
  <2>1. n # 0
    BY <1>1, <1>2, SlotsApart
  <2> QED
    BY <1>1, <2>1, RxAssumption DEF Slot
<1>4. Step(r.get) \in Slot /\ Step(r.get) = Ahead(r.get, 1)
  BY <1>1, StepSlot
<1>5. r \in [get : Slot, put : Slot, is_full : BOOLEAN, buffer : [Slot -> Byte \cup {None}]]
  BY DEF Ring
<1>6. q.get = Step(r.get) /\ q.put = r.put /\ q.buffer = r.buffer /\ ~q.is_full
  BY <1>5 DEF GetByte
<1>7. q \in Ring
  BY <1>4, <1>5 DEF Ring, GetByte
<1>8. m = Apart(q.get, q.put)
  <2> HIDE DEF q
  <2> QED
    BY <1>7, LengthOf
<1> HIDE DEF q, m, n
<1>9. m = n - 1
  BY <1>1, <1>2, <1>4, <1>6, <1>8, SlotsMoved
<1>10. BufSize \in Nat /\ BufSize > 1 /\ n \in 1 .. BufSize - 1 /\ m \in 0 .. BufSize - 2
  BY <1>1, <1>3, <1>9, RxAssumption DEF Slot
<1>11. /\ \A k \in 1 .. n : Contents(r)[k] = r.buffer[Ahead(r.get, k - 1)]
       /\ \A k \in 1 .. m : Contents(q)[k] = q.buffer[Ahead(q.get, k - 1)]
  BY <1>7, ContentsOf DEF n, m
<1>12. ASSUME NEW k \in 1 .. m
       PROVE  k + 1 \in 1 .. n /\ Contents(q)[k] = Contents(r)[k + 1]
  <2>1. k + 1 \in 1 .. n /\ k - 1 \in 0 .. BufSize - 1 /\ (k - 1) + 1 = (k + 1) - 1
    BY <1>9, <1>10
  <2>2. Ahead(q.get, k - 1) = Ahead(r.get, (k + 1) - 1)
    <3>1. Ahead(Ahead(r.get, 1), k - 1) = Ahead(r.get, (k - 1) + 1)
      BY <1>1, <2>1, SlotsAhead
    <3> QED
      BY <1>4, <1>6, <2>1, <3>1
  <2>3. Contents(r)[k + 1] = r.buffer[Ahead(r.get, (k + 1) - 1)]
    BY <1>11, <2>1
  <2> QED
    BY <1>6, <1>11, <2>1, <2>2, <2>3
<1>13. Oldest(r) = Contents(r)[1]
  <2>1. 1 \in 1 .. n /\ 1 - 1 = 0
    BY <1>10
  <2>2. Contents(r)[1] = r.buffer[Ahead(r.get, 1 - 1)]
    BY <1>11, <2>1
  <2>3. Ahead(r.get, 0) = r.get
    BY <1>1, SlotsAhead
  <2> QED
    BY <2>1, <2>2, <2>3 DEF Oldest
<1> QED
  BY <1>3, <1>6, <1>7, <1>9, <1>12, <1>13 DEF q, n, m

-----------------------------------------------------------------------------
(* The two ports, told apart and none of them None. *)
LEMMA PortFacts ==
  /\ User \in Ports /\ User485 \in Ports /\ User # User485 /\ None \notin Ports
  /\ MaxBytes \in Nat /\ MaxBytes > 0 /\ MaxCount \in Nat /\ MaxCount > 0
  /\ FrameMax \in Nat /\ FrameMax > 0
  /\ BufSize \in Nat /\ BufSize > 1
  BY RxAssumption DEF Ports

(* The rings are empty at first. *)
LEMMA InitIInv == Init => IInv
<1> SUFFICES ASSUME Init PROVE IInv
  OBVIOUS
<1> DEFINE r0 == [get |-> 0, put |-> 0, is_full |-> FALSE, buffer |-> [x \in Slot |-> None]]
<1>1. r0 \in Ring /\ Length(r0) = 0
  <2>1. 0 \in Slot
    BY RxAssumption DEF Slot
  <2>2. r0 \in Ring
    BY <2>1 DEF Ring
  <2>3. Length(r0) = Apart(0, 0)
    BY <2>2, LengthOf
  <2>4. Apart(0, 0) = 0
    BY DEF Apart
  <2> QED
    BY <2>2, <2>3, <2>4
<1>2. ~r0.is_full
  OBVIOUS
<1> HIDE DEF r0
<1>3. \A a : Held(r0, a)
  BY <1>1 DEF Held
<1>4. ring = [p \in Ports |-> r0]
  BY DEF Init, r0
<1>5. TypeOK
  <2>1. ring \in [Ports -> Ring]
    BY <1>1, <1>4
  <2>2. 0 \in 0 .. FrameMax /\ 0 \in 0 .. MaxBytes /\ 0 \in 0 .. MaxCount
        /\ MaxBytes \in 0 .. MaxBytes
    BY PortFacts
  <2> QED
    BY <2>1, <2>2, PortFacts DEF Init, TypeOK
<1>6. RingHoldsArrived
  BY <1>2, <1>3, <1>4 DEF RingHoldsArrived
<1>8. IndicatorsSet /\ ReadsWhatWasThere
  BY DEF Init, IndicatorsSet, ReadsWhatWasThere
<1>9. \A p \in Ports : Covered(p)
  BY <1>1, <1>4 DEF Covered
<1> QED
  BY <1>5, <1>6, <1>8, <1>9 DEF IInv, RxInv

(* A ring's length, in the words of the code's state. *)
LEMMA RingFacts ==
  ASSUME TypeOK, RingHoldsArrived, NEW p \in Ports
  PROVE  /\ ring[p] \in Ring /\ arrived[p] \in 0 .. MaxBytes
         /\ Length(ring[p]) \in 0 .. BufSize - 1
         /\ Held(ring[p], arrived[p])
         /\ ring[p].get = ring[p].put => ~ring[p].is_full
         /\ Empty(ring[p]) <=> Length(ring[p]) = 0
<1>1. ring[p] \in Ring /\ arrived[p] \in 0 .. MaxBytes
  BY DEF TypeOK
<1>2. /\ Length(ring[p]) \in Slot
      /\ Length(ring[p]) = 0 <=> ring[p].get = ring[p].put
  <2> DEFINE r == ring[p]
  <2>1. Length(r) \in Slot /\ Length(r) = Apart(r.get, r.put) /\ r.get \in Slot /\ r.put \in Slot
    BY <1>1, LengthOf
  <2>2. Apart(r.get, r.put) = 0 <=> r.get = r.put
    BY <2>1, SlotsApart
  <2> QED
    BY <2>1, <2>2
<1> QED
  BY <1>1, <1>2 DEF RingHoldsArrived, Slot, Empty

(* What happens to one ring leaves what the other holds. *)
LEMMA HeldSame ==
  ASSUME RingHoldsArrived, NEW p \in Ports,
         ring'[p] = ring[p], arrived'[p] = arrived[p]
  PROVE  Held(ring[p], arrived[p])' /\ (ring[p].get = ring[p].put => ~ring[p].is_full)'
<1>1. Held(ring[p], arrived[p]) /\ (ring[p].get = ring[p].put => ~ring[p].is_full)
  BY DEF RingHoldsArrived
<1>2. Held(ring[p], arrived[p])'
  BY <1>1 DEF Held, Length, Contents
<1> QED
  BY <1>1, <1>2

(* A count that stays within its bound, and does not go down. *)
LEMMA UpToFacts ==
  ASSUME NEW max \in Nat, max > 0, NEW n \in 0 .. max
  PROVE  /\ UpTo(max, n + 1) \in 1 .. max /\ UpTo(max, n + 1) \in 0 .. max
         /\ n <= UpTo(max, n + 1)
  BY DEF UpTo

(* The interrupt takes a byte. *)
LEMMA RxByteOK ==
  ASSUME RxInv, NEW p \in Ports, RxByte(p)
  PROVE  RxInv' /\ KeepsCovered
<1> USE DEF RxInv
<1> DEFINE a == UpTo(MaxBytes, arrived[p] + 1)
           b == <<p, a>>
           q == PutByte(ring[p], b)
<1>1. /\ isr' = p /\ isr \in {None, p}
      /\ arrived' = [arrived EXCEPT ![p] = a]
      /\ arrived'[p] = a
      /\ UNCHANGED <<sem, pc, cur, mode, cnt, last, rx_ind, early>>
  BY PortFacts DEF RxByte, TypeOK, thread
<1>2. ring' = [ring EXCEPT ![p] = q]
  BY <1>1 DEF RxByte
<1>13. a \in 1 .. MaxBytes /\ a \in 0 .. MaxBytes /\ arrived[p] <= a /\ arrived[p] \in Nat
  <2> DEFINE n == arrived[p]
  <2>1. n \in 0 .. MaxBytes /\ n \in Nat
    BY PortFacts DEF TypeOK
  <2> HIDE DEF n
  <2>2. /\ UpTo(MaxBytes, n + 1) \in 1 .. MaxBytes /\ UpTo(MaxBytes, n + 1) \in 0 .. MaxBytes
        /\ n <= UpTo(MaxBytes, n + 1)
    BY <2>1, PortFacts, UpToFacts
  <2> QED
    BY <2>1, <2>2 DEF n
<1> HIDE DEF a
<1>14. b \in Byte /\ b[2] = a
  BY <1>13 DEF Byte
<1> HIDE DEF b
<1>3. /\ q \in Ring
      /\ Contents(q)[Length(q)] = b
      /\ \A k \in 1 .. Length(q) - 1 :
           LET j == IF Length(ring[p]) = BufSize - 1 THEN k + 1 ELSE k
           IN  j \in 1 .. Length(ring[p]) /\ Contents(q)[k] = Contents(ring[p])[j]
      /\ q.get # q.put
  BY <1>14, RingFacts, PutByteOK
<1> HIDE DEF q
<1>4. /\ ring'[p] = q /\ \A o \in Ports \ {p} : ring'[o] = ring[o] /\ arrived'[o] = arrived[o]
  BY <1>1, <1>2 DEF TypeOK
<1>5. TypeOK'
  <2>1. ring' \in [Ports -> Ring]
    BY <1>2, <1>3 DEF TypeOK
  <2>2. arrived' \in [Ports -> 0 .. MaxBytes]
    BY <1>1, <1>13 DEF TypeOK
  <2> QED
    BY <1>1, <2>1, <2>2 DEF TypeOK
<1>6. Held(q, a)
  <2> SUFFICES ASSUME NEW k \in 1 .. Length(q)
               PROVE  Contents(q)[k] \in Byte /\ Contents(q)[k][2] <= a
    BY DEF Held
  <2>1. CASE k = Length(q)
    BY <1>3, <1>13, <1>14, <2>1
  <2>2. CASE k # Length(q)
    <3>1. Length(q) \in Slot
      BY <1>3, LengthOf
    <3>2. k \in 1 .. Length(q) - 1
      BY <2>2, <3>1, RxAssumption DEF Slot
    <3>3. PICK j \in 1 .. Length(ring[p]) : Contents(q)[k] = Contents(ring[p])[j]
      BY <1>3, <3>2
    <3>4. Contents(ring[p])[j] \in Byte /\ Contents(ring[p])[j][2] <= arrived[p]
      BY DEF RingHoldsArrived, Held
    <3>5. Contents(ring[p])[j][2] \in Nat
      BY <3>4 DEF Byte
    <3> QED
      BY <1>13, <3>3, <3>4, <3>5
  <2> QED
    BY <2>1, <2>2
<1>7. RingHoldsArrived'
  <2>1. ASSUME NEW o \in Ports
        PROVE  Held(ring[o], arrived[o])' /\ (ring[o].get = ring[o].put => ~ring[o].is_full)'
    <3>1. CASE o = p
      <4>1. Held(ring[p], arrived[p])'
        BY <1>1, <1>4, <1>6 DEF Held, Length, Contents
      <4> QED
        BY <1>3, <1>4, <3>1, <4>1
    <3>2. CASE o # p
      BY <1>4, <3>2, HeldSame
    <3> QED
      BY <3>1, <3>2
  <2> QED
    BY <2>1 DEF RingHoldsArrived
<1>9. IndicatorsSet'
  BY <1>1 DEF IndicatorsSet
<1>10. ReadsWhatWasThere'
  <2>1. NothingCameSince(cur)' => NothingCameSince(cur) /\ cur # p
    BY <1>1, PortFacts DEF NothingCameSince, TypeOK
  <2>2. cur # p => Length(ring'[cur]) = Length(ring[cur])
    BY <1>4 DEF TypeOK
  <2>3. Length(ring'[cur]) = Length(ring[cur])' /\ cur' = cur
    BY <1>1 DEF Length
  <2> QED
    BY <1>1, <2>1, <2>2, <2>3 DEF ReadsWhatWasThere
<1>11. ASSUME NEW o \in Ports, Covered(o)
       PROVE  Covered(o)'
  <2>1. CASE o = p
    BY <1>11, <1>1, <2>1 DEF Covered
  <2>2. CASE o # p
    <3>1. Length(ring[o])' = Length(ring[o]) /\ arrived'[o] = arrived[o]
      BY <1>4, <2>2 DEF Length
    <3>2. isr # o
      BY <1>1, <2>2, PortFacts
    <3> QED
      BY <1>11, <1>1, <3>1, <3>2 DEF Covered
  <2> QED
    BY <2>1, <2>2
<1> QED
  BY <1>5, <1>7, <1>9, <1>10, <1>11 DEF KeepsCovered

(* The interrupt returns. *)
LEMMA RxIndicateOK ==
  ASSUME RxInv, NEW p \in Ports, RxIndicate(p)
  PROVE  RxInv' /\ KeepsCovered
<1> USE DEF RxInv
<1> DEFINE c == UpTo(MaxCount, sem[p] + 1)
<1>1. /\ isr = p /\ isr' = None
      /\ sem' = [sem EXCEPT ![p] = IF rx_ind[p] THEN c ELSE sem[p]]
      /\ UNCHANGED <<ring, arrived, pc, cur, mode, cnt, last, rx_ind, early>>
  BY DEF RxIndicate, thread
<1>2. /\ sem[p] \in 0 .. MaxCount /\ c \in 0 .. MaxCount /\ c \in 1 .. MaxCount
      /\ arrived[p] \in 0 .. MaxBytes
  <2>1. sem[p] \in 0 .. MaxCount /\ arrived[p] \in 0 .. MaxBytes
    BY DEF TypeOK
  <2> QED
    BY <2>1, PortFacts, UpToFacts
<1> HIDE DEF c
<1>3. /\ sem'[p] = (IF rx_ind[p] THEN c ELSE sem[p])
      /\ \A o \in Ports \ {p} : sem'[o] = sem[o]
  BY <1>1 DEF TypeOK
<1>4. TypeOK'
  <2>1. sem' \in [Ports -> 0 .. MaxCount]
    BY <1>1, <1>2 DEF TypeOK
  <2> QED
    BY <1>1, <2>1 DEF TypeOK
<1>5. RingHoldsArrived' /\ IndicatorsSet'
  BY <1>1 DEF RingHoldsArrived, Held, IndicatorsSet, Length, Contents
<1>7. ReadsWhatWasThere'
  <2>1. ASSUME mode = "transparent", pc \in {"read", "pause"}, NothingCameSince(cur)'
        PROVE  NothingCameSince(cur)
    <3>1. cur # p
      BY <1>1, <1>2, <1>3, <2>1 DEF NothingCameSince, IndicatorsSet
    <3> QED
      BY <1>1, <1>3, <2>1, <3>1 DEF NothingCameSince, TypeOK
  <2> QED
    BY <1>1, <2>1 DEF ReadsWhatWasThere, Length
<1>8. ASSUME NEW o \in Ports, Covered(o)
      PROVE  Covered(o)'
  <2>1. CASE o = p
    <3>1. arrived[p] > early[p] => rx_ind[p]
      BY <1>2, PortFacts DEF IndicatorsSet
    <3> QED
      BY <1>8, <1>1, <1>2, <1>3, <2>1, <3>1 DEF Covered
  <2>2. CASE o # p
    BY <1>8, <1>1, <1>3, <2>2, PortFacts DEF Covered, Length
  <2> QED
    BY <2>1, <2>2
<1> QED
  BY <1>4, <1>5, <1>7, <1>8 DEF KeepsCovered

-----------------------------------------------------------------------------
(* usart_read takes the oldest byte, which was waiting at the head. *)
LEMMA ReadByteOK ==
  ASSUME RxInv, ReadByte
  PROVE  RxInv' /\ KeepsCovered
<1> USE DEF RxInv
<1> DEFINE r == ring[cur]
           q == GetByte(r)
<1>1. /\ isr = None /\ pc = "read" /\ cnt < FrameMax /\ ~Empty(r) /\ cur \in Ports
      /\ cnt' = cnt + 1
      /\ last' = [last EXCEPT ![cur] = Oldest(r)]
      /\ ring' = [ring EXCEPT ![cur] = q]
      /\ UNCHANGED <<pc, cur, mode, rx_ind, early, arrived, isr, sem>>
  BY DEF ReadByte, At, TypeOK
<1>2. /\ q \in Ring /\ ~q.is_full /\ Length(r) > 0 /\ Length(q) = Length(r) - 1
      /\ \A k \in 1 .. Length(q) :
           k + 1 \in 1 .. Length(r) /\ Contents(q)[k] = Contents(r)[k + 1]
      /\ Oldest(r) = Contents(r)[1]
  <2>1. r \in Ring /\ (r.get = r.put => ~r.is_full)
    BY <1>1, RingFacts
  <2> HIDE DEF r
  <2> QED
    BY <1>1, <2>1, GetByteOK
<1>3. Length(r) \in 0 .. BufSize - 1 /\ Held(r, arrived[cur])
  BY <1>1, RingFacts
<1> HIDE DEF q, r
<1>12. Oldest(r) \in Byte
  <2>1. 1 \in 1 .. Length(r)
    BY <1>2, <1>3, PortFacts
  <2> QED
    BY <1>2, <1>3, <2>1 DEF Held
<1>4. /\ ring'[cur] = q /\ \A o \in Ports \ {cur} : ring'[o] = ring[o]
  BY <1>1 DEF TypeOK
<1>5. TypeOK'
  <2>1. ring' \in [Ports -> Ring]
    BY <1>1, <1>2 DEF TypeOK
  <2>2. cnt' \in 0 .. FrameMax
    BY <1>1, PortFacts DEF TypeOK
  <2>3. last' \in [Ports -> Byte \cup {None}]
    BY <1>1, <1>12 DEF TypeOK
  <2> QED
    BY <1>1, <2>1, <2>2, <2>3 DEF TypeOK
<1>6. RingHoldsArrived'
  <2>1. Held(q, arrived[cur])
    BY <1>2, <1>3 DEF Held
  <2>2. ASSUME NEW o \in Ports
        PROVE  Held(ring[o], arrived[o])' /\ (ring[o].get = ring[o].put => ~ring[o].is_full)'
    <3>1. CASE o = cur
      <4>1. Held(ring[cur], arrived[cur])'
        BY <1>1, <1>4, <2>1 DEF Held, Length, Contents
      <4> QED
        BY <1>1, <1>2, <1>4, <3>1, <4>1
    <3>2. CASE o # cur
      BY <1>1, <1>4, <3>2, HeldSame
    <3> QED
      BY <3>1, <3>2
  <2> QED
    BY <2>2 DEF RingHoldsArrived
<1>7. IndicatorsSet'
  BY <1>1 DEF IndicatorsSet
<1>8. ReadsWhatWasThere'
  <2>1. Length(ring[cur])' = Length(r) - 1
    BY <1>1, <1>2, <1>4 DEF Length
  <2>2. cnt' = cnt + 1 /\ cnt \in Nat
    BY <1>1 DEF TypeOK
  <2>3. mode = "transparent" /\ NothingCameSince(cur) => cnt + Length(r) < BufSize
    BY <1>1 DEF ReadsWhatWasThere, r
  <2>4. NothingCameSince(cur)' <=> NothingCameSince(cur)
    BY <1>1 DEF NothingCameSince
  <2>5. cnt' + (Length(r) - 1) = cnt + Length(r)
    BY <1>3, <2>2
  <2> QED
    BY <1>1, <2>1, <2>3, <2>4, <2>5 DEF ReadsWhatWasThere
<1>9. ASSUME NEW o \in Ports, Covered(o)
      PROVE  Covered(o)'
  <2>1. CASE o = cur
    BY <1>9, <1>1, <2>1 DEF Covered
  <2>2. CASE o # cur
    <3>1. Length(ring[o])' = Length(ring[o])
      BY <1>4, <2>2 DEF Length
    <3> QED
      BY <1>9, <1>1, <2>2, <3>1 DEF Covered
  <2> QED
    BY <2>1, <2>2
<1> QED
  BY <1>5, <1>6, <1>7, <1>8, <1>9 DEF KeepsCovered

(* The other steps of the main thread leave rings and interrupts alone. *)
LEMMA UartSame ==
  ASSUME RingHoldsArrived, UNCHANGED <<ring, arrived>>
  PROVE  RingHoldsArrived'
  BY DEF RingHoldsArrived, Held, Length, Contents

(* Before the semaphores exist, nothing is covered: no byte counts. *)
LEMMA NotCounted ==
  ASSUME RxInv, mode # "transparent"
  PROVE  \A p \in Ports : ~(arrived[p] > early[p])
  BY PortFacts DEF RxInv, IndicatorsSet, TypeOK

(* usart_read finds no byte, or no room. *)
LEMMA ReadNoneOK ==
  ASSUME RxInv, ReadNone
  PROVE  RxInv' /\ (BufSize <= FrameMax + 1 => KeepsCovered)
<1> USE DEF RxInv
<1>1. /\ isr = None /\ pc = "read" /\ cur \in Ports
      /\ UNCHANGED <<cur, mode, cnt, last, rx_ind, early, ring, arrived, isr, sem>>
      /\ pc' \in {"return", "pause"}
  BY DEF ReadNone, At, uart, TypeOK
<1>2. \/ cnt = FrameMax /\ pc' = "return"
      \/ Length(ring[cur]) = 0
  BY <1>1, RingFacts DEF ReadNone
<1>3. pc' = "pause" => Length(ring[cur]) = 0
  BY <1>2
<1>4. TypeOK'
  BY <1>1 DEF TypeOK
<1>5. RingHoldsArrived'
  BY <1>1, UartSame
<1>6. IndicatorsSet'
  BY <1>1 DEF IndicatorsSet
<1>7. ReadsWhatWasThere'
  BY <1>1, <1>3 DEF ReadsWhatWasThere, NothingCameSince, Length
<1>8. ASSUME BufSize <= FrameMax + 1, NEW o \in Ports, Covered(o)
      PROVE  Covered(o)'
  <2>1. CASE mode # "transparent"
    BY <1>8, <1>1, <2>1, NotCounted DEF Covered
  <2>2. CASE o # cur
    BY <1>8, <1>1, <2>2 DEF Covered, Length
  <2>3. CASE mode = "transparent" /\ o = cur /\ ~(sem[o] > 0)
    <3>1. NothingCameSince(cur)
      BY <1>1, <2>3, PortFacts DEF NothingCameSince, TypeOK
    <3>2. cnt + Length(ring[cur]) < BufSize
      BY <1>1, <2>3, <3>1 DEF ReadsWhatWasThere
    <3>3. Length(ring[cur]) \in 0 .. BufSize - 1
      BY <1>1, RingFacts
    <3>4. Length(ring[cur]) = 0
      BY <1>2, <1>8, <3>2, <3>3, PortFacts
    <3> QED
      BY <1>8, <1>1, <2>3, <3>4 DEF Covered, Length
  <2>4. CASE sem[o] > 0
    BY <1>8, <1>1, <2>4 DEF Covered
  <2> QED
    BY <2>1, <2>2, <2>3, <2>4
<1> QED
  BY <1>4, <1>5, <1>6, <1>7, <1>8 DEF KeepsCovered

(* The wait in usart_read. *)
LEMMA PauseOK ==
  ASSUME RxInv, Pause
  PROVE  RxInv' /\ KeepsCovered
<1> USE DEF RxInv
<1>1. /\ isr = None /\ pc = "pause" /\ pc' \in {"read", "return"} /\ cur \in Ports
      /\ UNCHANGED <<cur, mode, cnt, last, rx_ind, early, ring, arrived, isr, sem>>
  BY DEF Pause, At, uart, TypeOK
<1>2. TypeOK'
  BY <1>1 DEF TypeOK
<1>3. RingHoldsArrived'
  BY <1>1, UartSame
<1>4. IndicatorsSet' /\ ReadsWhatWasThere'
  BY <1>1 DEF IndicatorsSet, ReadsWhatWasThere, NothingCameSince, Length
<1>5. ASSUME NEW o \in Ports, Covered(o)
      PROVE  Covered(o)'
  <2>1. CASE mode # "transparent"
    BY <1>5, <1>1, <2>1, NotCounted DEF Covered
  <2>2. CASE o # cur
    BY <1>5, <1>1, <2>2 DEF Covered, Length
  <2>3. CASE mode = "transparent" /\ o = cur /\ ~(sem[o] > 0)
    <3>1. NothingCameSince(cur)
      BY <1>1, <2>3, PortFacts DEF NothingCameSince, TypeOK
    <3>2. Length(ring[cur]) = 0
      BY <1>1, <2>3, <3>1 DEF ReadsWhatWasThere
    <3> QED
      BY <1>5, <1>1, <2>3, <3>2 DEF Covered, Length
  <2>4. CASE sem[o] > 0
    BY <1>5, <1>1, <2>4 DEF Covered
  <2> QED
    BY <2>1, <2>2, <2>3, <2>4
<1> QED
  BY <1>2, <1>3, <1>4, <1>5 DEF KeepsCovered

(* start_mode and the polling modes: no indicator is set. *)
LEMMA PollOK ==
  ASSUME RxInv, StartReturn \/ PollReturn
  PROVE  RxInv' /\ KeepsCovered
<1> USE DEF RxInv
<1>1. /\ mode # "transparent"
      /\ UNCHANGED <<last, rx_ind, early, ring, arrived, isr, sem>>
      /\ cur' \in Ports /\ cnt' \in {cnt, 0}
      /\ mode' \in {"start"} \cup ModeToRun
  BY PortFacts DEF StartReturn, PollReturn, Other, uart, ModeToRun, TypeOK
<1>2. /\ pc' = IF mode' = "transparent" THEN "indicate" ELSE "read"
      /\ mode' = "transparent" => cnt' = 0 /\ cur' = User
  BY <1>1 DEF StartReturn, PollReturn
<1>3. TypeOK'
  <2>2. cnt' \in 0 .. FrameMax
    BY <1>1, PortFacts DEF TypeOK
  <2>3. pc' \in {"read", "indicate"}
    BY <1>2
  <2> QED
    BY <1>1, <2>2, <2>3 DEF TypeOK
<1>4. RingHoldsArrived'
  BY <1>1, UartSame
<1>5. IndicatorsSet'
  BY <1>1, <1>2, PortFacts DEF IndicatorsSet
<1>6. ReadsWhatWasThere'
  BY <1>1, <1>2 DEF ReadsWhatWasThere
<1>7. \A p \in Ports : Covered(p)'
  BY <1>1, NotCounted DEF Covered
<1> QED
  BY <1>3, <1>4, <1>5, <1>6, <1>7 DEF KeepsCovered

(* usart_set_rx_indicate: what has arrived before is not counted. *)
LEMMA SetIndicateOK ==
  ASSUME RxInv, SetIndicate
  PROVE  RxInv' /\ KeepsCovered
<1> USE DEF RxInv
<1>1. /\ isr = None /\ pc = "indicate" /\ cur \in Ports /\ mode = "transparent"
      /\ rx_ind' = [rx_ind EXCEPT ![cur] = TRUE]
      /\ early' = [early EXCEPT ![cur] = arrived[cur]]
      /\ UNCHANGED <<mode, cnt, last, ring, arrived, isr, sem>>
  BY DEF SetIndicate, At, uart, TypeOK, IndicatorsSet
<1>2. \/ cur = User /\ cur' = User485 /\ pc' = "indicate"
      \/ cur = User485 /\ cur' = User /\ pc' = "take"
  BY <1>1 DEF SetIndicate
<1>3. TypeOK'
  BY <1>1, <1>2, PortFacts DEF TypeOK
<1>4. RingHoldsArrived'
  BY <1>1, UartSame
<1>5. IndicatorsSet'
  <2>1. \A p \in Ports : rx_ind'[p] = (p = cur \/ rx_ind[p])
    BY <1>1 DEF TypeOK
  <2>2. \A p \in Ports : ~rx_ind'[p] => early'[p] = MaxBytes
    BY <1>1, <2>1 DEF IndicatorsSet, TypeOK
  <2>3. pc' = "indicate" /\ cur' = User485 => rx_ind'[User]
    BY <1>2, <2>1, PortFacts
  <2>4. pc' # "indicate" => \A p \in Ports : rx_ind'[p]
    BY <1>1, <1>2, <2>1 DEF IndicatorsSet, Ports
  <2> QED
    BY <1>1, <2>2, <2>3, <2>4 DEF IndicatorsSet
<1>6. ReadsWhatWasThere'
  BY <1>1, <1>2 DEF ReadsWhatWasThere
<1>7. ASSUME NEW o \in Ports, Covered(o)
      PROVE  Covered(o)'
  <2>1. CASE o = cur
    <3>1. early'[o] = arrived[o] /\ arrived[o] \in Nat
      BY <1>1, <2>1 DEF TypeOK
    <3> QED
      BY <1>7, <1>1, <3>1 DEF Covered
  <2>2. CASE o # cur
    <3>1. early'[o] = early[o]
      BY <1>1, <2>2 DEF TypeOK
    <3> QED
      BY <1>7, <1>1, <3>1 DEF Covered, Length
  <2> QED
    BY <2>1, <2>2
<1> QED
  BY <1>3, <1>4, <1>5, <1>6, <1>7 DEF KeepsCovered

(* The loop of main_entry: a count taken is made up for by reading, which
   begins with an empty buffer. *)
LEMMA LoopOK ==
  ASSUME RxInv, SemTake \/ SemTimeout \/ LoopReturn
  PROVE  RxInv' /\ KeepsCovered
<1> USE DEF RxInv
<1>1. /\ isr = None /\ cur \in Ports /\ cur' \in Ports /\ mode = "transparent"
      /\ pc \in {"take", "return"}
      /\ UNCHANGED <<mode, last, rx_ind, early, ring, arrived, isr>>
      /\ cnt' \in {cnt, 0}
  BY PortFacts DEF SemTake, SemTimeout, LoopReturn, At, uart, Other, TypeOK, IndicatorsSet
<1>2. \/ /\ pc = "take" /\ pc' = "read" /\ cur' = cur /\ cnt' = cnt
         /\ sem[cur] > 0 /\ sem' = [sem EXCEPT ![cur] = sem[cur] - 1]
      \/ pc' = "take" /\ sem' = sem /\ cnt' = 0
  BY <1>1 DEF SemTake, SemTimeout, LoopReturn, uart, At, ReadsWhatWasThere
<1>3. sem' \in [Ports -> 0 .. MaxCount] /\ \A p \in Ports : sem'[p] <= sem[p]
  <2>1. \A p \in Ports : sem[p] \in 0 .. MaxCount
    BY DEF TypeOK
  <2>2. CASE sem' = sem
    BY <2>1, <2>2 DEF TypeOK
  <2>3. CASE sem[cur] > 0 /\ sem' = [sem EXCEPT ![cur] = sem[cur] - 1]
    <3>1. sem[cur] - 1 \in 0 .. MaxCount /\ sem[cur] - 1 <= sem[cur]
      BY <1>1, <2>1, <2>3, PortFacts
    <3> QED
      BY <1>1, <2>1, <2>3, <3>1 DEF TypeOK
  <2> QED
    BY <1>2, <2>2, <2>3
<1>4. TypeOK'
  <2>2. cnt' \in 0 .. FrameMax
    BY <1>1, PortFacts DEF TypeOK
  <2> QED
    BY <1>1, <1>2, <1>3, <2>2 DEF TypeOK
<1>5. RingHoldsArrived'
  BY <1>1, UartSame
<1>6. IndicatorsSet'
  BY <1>1, <1>2 DEF IndicatorsSet
<1>7. ReadsWhatWasThere'
  <2>1. pc' = "read" => cnt' = 0 /\ cur' = cur
    BY <1>1, <1>2 DEF ReadsWhatWasThere
  <2>2. Length(ring[cur]) \in 0 .. BufSize - 1 /\ cnt \in Nat
    BY <1>1, RingFacts, PortFacts DEF TypeOK
  <2>3. pc' = "read" => cnt' + Length(ring[cur])' < BufSize
    BY <1>1, <2>1, <2>2, PortFacts DEF Length
  <2> QED
    BY <1>1, <1>2, <2>3 DEF ReadsWhatWasThere
<1>8. ASSUME NEW o \in Ports, Covered(o)
      PROVE  Covered(o)'
  <2>1. CASE pc' = "read" /\ o = cur
    BY <1>8, <1>2, <2>1 DEF Covered
  <2>2. CASE ~(pc' = "read" /\ o = cur)
    <3>1. sem'[o] = sem[o]
      BY <1>2, <2>2 DEF TypeOK
    <3> QED
      BY <1>8, <1>1, <3>1 DEF Covered, Length
  <2> QED
    BY <2>1, <2>2
<1> QED
  BY <1>4, <1>5, <1>6, <1>7, <1>8 DEF KeepsCovered

-----------------------------------------------------------------------------
(* Every step keeps the invariant, and so is every step of NoByteForgotten
   if the read buffer takes all a ring can hold. *)
LEMMA StepRxInv ==
  ASSUME RxInv, [Next]_vars
  PROVE  RxInv' /\ (BufSize <= FrameMax + 1 => KeepsCovered)
<1>1. CASE UNCHANGED vars
  <2>1. UNCHANGED <<ring, arrived, isr, sem, pc, cur, mode, cnt, last, rx_ind, early>>
    BY <1>1 DEF vars, uart, thread
  <2>2. TypeOK' /\ IndicatorsSet'
    BY <2>1 DEF RxInv, TypeOK, IndicatorsSet
  <2>3. RingHoldsArrived'
    BY <2>1 DEF RxInv, RingHoldsArrived, Held, Length, Contents
  <2>4. ReadsWhatWasThere' /\ KeepsCovered
    BY <2>1 DEF RxInv, ReadsWhatWasThere, NothingCameSince, KeepsCovered, Covered, Length
  <2> QED
    BY <2>2, <2>3, <2>4 DEF RxInv
<1>2. ASSUME NEW p \in Ports, RxByte(p) \/ RxIndicate(p)
      PROVE  RxInv' /\ KeepsCovered
  BY <1>2, RxByteOK, RxIndicateOK
<1>3. CASE ReadByte
  BY <1>3, ReadByteOK
<1>4. CASE MainStep /\ ~ReadByte
  BY <1>4, ReadNoneOK, PauseOK, PollOK, SetIndicateOK, LoopOK DEF MainStep
<1> QED
  BY <1>1, <1>2, <1>3, <1>4 DEF Next

(* No byte that arrived after its indicator was set is forgotten. *)
LEMMA CoveredIsEnough == IInv => NoByteForgotten
<1> SUFFICES ASSUME IInv, NEW p \in Ports, Waiting(p)
             PROVE  isr = p \/ sem[p] > 0 \/ (cur = p /\ pc \in {"read", "pause"})
  BY DEF NoByteForgotten
<1> DEFINE n == Length(ring[p])
           c == Contents(ring[p])
<1>1. /\ ring[p] \in Ring /\ n \in 0 .. BufSize - 1
      /\ arrived[p] \in Nat /\ Held(ring[p], arrived[p])
  BY RingFacts DEF IInv, RxInv
<1>2. PICK i \in DOMAIN c : c[i][2] > early[p]
  BY DEF Waiting
<1>3. i \in 1 .. n
  BY DEF Contents
<1>4. c[i] \in Byte /\ c[i][2] <= arrived[p]
  BY <1>1, <1>3 DEF Held
<1>5. c[i][2] \in Nat
  BY <1>4, PortFacts DEF Byte
<1>6. early[p] \in Nat
  BY PortFacts DEF IInv, RxInv, TypeOK
<1> HIDE DEF c, n
<1>7. n > 0 /\ arrived[p] > early[p]
  BY <1>1, <1>2, <1>3, <1>4, <1>5, <1>6
<1> QED
  BY <1>7 DEF IInv, Covered, n

-----------------------------------------------------------------------------
(* The refinement of LossyFifo: each step on a ring, on the bytes it holds.
   The interrupt appends a byte, at a full ring to all but the oldest, *)
LEMMA PutAppends ==
  ASSUME NEW r \in Ring, NEW b \in Byte
  PROVE  /\ Length(r) = BufSize - 1 =>
              Contents(PutByte(r, b)) = Append(Tail(Contents(r)), b)
         /\ Length(r) # BufSize - 1 =>
              Contents(PutByte(r, b)) = Append(Contents(r), b)
<1> DEFINE q == PutByte(r, b)
           S == Byte \cup {None}
           C == Contents(r)
           D == Contents(q)
           n == Length(r)
           m == Length(q)
<1>1. /\ q \in Ring
      /\ m = IF n = BufSize - 1 THEN BufSize - 1 ELSE n + 1
      /\ D[m] = b
      /\ \A k \in 1 .. m - 1 :
           LET j == IF n = BufSize - 1 THEN k + 1 ELSE k
           IN  j \in 1 .. n /\ D[k] = C[j]
  BY PutByteOK
<1>2. C \in Seq(S) /\ Len(C) = n /\ n \in 0 .. BufSize - 1
  BY ContentsOf, LengthOf DEF Slot
<1> HIDE DEF q
<1>3. D \in Seq(S) /\ Len(D) = m
  BY <1>1, ContentsOf
<1> HIDE DEF S, C, D, n, m
<1>4. b \in S /\ BufSize \in Nat /\ BufSize > 1
  BY RxAssumption DEF S
<1>5. ASSUME n = BufSize - 1
      PROVE  D = Append(Tail(C), b)
  <2> DEFINE T == Tail(C)
  <2>1. C # <<>>
    BY <1>2, <1>4, <1>5
  <2>2. T \in Seq(S) /\ Len(T) = n - 1 /\ \A k \in 1 .. n - 1 : T[k] = C[k + 1]
    BY <1>2, <2>1, HeadTailProperties
  <2> HIDE DEF T
  <2>3. /\ Append(T, b) \in Seq(S) /\ Len(Append(T, b)) = (n - 1) + 1
        /\ \A k \in 1 .. n - 1 : Append(T, b)[k] = T[k]
        /\ Append(T, b)[(n - 1) + 1] = b
    BY <1>4, <2>2, AppendProperties
  <2>4. m = n /\ (n - 1) + 1 = n
    BY <1>1, <1>2, <1>5
  <2>5. \A k \in 1 .. m : D[k] = Append(T, b)[k]
    <3> SUFFICES ASSUME NEW k \in 1 .. m PROVE D[k] = Append(T, b)[k]
      OBVIOUS
    <3>1. CASE k = m
      BY <1>1, <2>3, <2>4, <3>1
    <3>2. CASE k # m
      <4>1. k \in 1 .. m - 1 /\ k \in 1 .. n - 1
        BY <1>2, <2>4, <3>2
      <4>2. D[k] = C[k + 1]
        BY <1>1, <1>5, <4>1
      <4> QED
        BY <2>2, <2>3, <4>1, <4>2
    <3> QED
      BY <3>1, <3>2
  <2>6. D = Append(T, b)
    BY <1>3, <2>3, <2>4, <2>5, SeqEqual
  <2> QED
    BY <2>6 DEF T
<1>6. ASSUME n # BufSize - 1
      PROVE  D = Append(C, b)
  <2>1. /\ Append(C, b) \in Seq(S) /\ Len(Append(C, b)) = n + 1
        /\ \A k \in 1 .. n : Append(C, b)[k] = C[k]
        /\ Append(C, b)[n + 1] = b
    BY <1>2, <1>4, AppendProperties
  <2>2. m = n + 1
    BY <1>1, <1>6
  <2>3. \A k \in 1 .. m : D[k] = Append(C, b)[k]
    <3> SUFFICES ASSUME NEW k \in 1 .. m PROVE D[k] = Append(C, b)[k]
      OBVIOUS
    <3>1. CASE k = m
      BY <1>1, <2>1, <2>2, <3>1
    <3>2. CASE k # m
      <4>1. k \in 1 .. m - 1 /\ k \in 1 .. n
        BY <1>2, <2>2, <3>2
      <4>2. D[k] = C[k]
        BY <1>1, <1>6, <4>1
      <4> QED
        BY <2>1, <4>1, <4>2
    <3> QED
      BY <3>1, <3>2
  <2> QED
    BY <1>3, <2>1, <2>2, <2>3, SeqEqual
<1> QED
  BY <1>5, <1>6 DEF C, D, n, q

(* and usart_read takes the head. *)
LEMMA GetTakesHead ==
  ASSUME NEW r \in Ring, ~Empty(r), r.get = r.put => ~r.is_full
  PROVE  /\ Contents(r) # <<>> /\ Oldest(r) = Head(Contents(r))
         /\ Contents(GetByte(r)) = Tail(Contents(r))
<1> DEFINE q == GetByte(r)
           S == Byte \cup {None}
           C == Contents(r)
           D == Contents(q)
           n == Length(r)
           m == Length(q)
<1>1. /\ q \in Ring /\ n > 0 /\ m = n - 1
      /\ \A k \in 1 .. m : k + 1 \in 1 .. n /\ D[k] = C[k + 1]
      /\ Oldest(r) = C[1]
  BY GetByteOK
<1>2. C \in Seq(S) /\ Len(C) = n /\ n \in 0 .. BufSize - 1
  BY ContentsOf, LengthOf DEF Slot
<1> HIDE DEF q
<1>3. D \in Seq(S) /\ Len(D) = m
  BY <1>1, ContentsOf
<1> HIDE DEF S, C, D, n, m
<1>4. C # <<>>
  BY <1>1, <1>2
<1>5. /\ Tail(C) \in Seq(S) /\ Len(Tail(C)) = n - 1
      /\ \A k \in 1 .. n - 1 : Tail(C)[k] = C[k + 1]
  BY <1>2, <1>4, HeadTailProperties
<1>6. D = Tail(C)
  BY <1>1, <1>3, <1>5, SeqEqual
<1>7. Oldest(r) = Head(C)
  BY <1>1, <1>2, <1>4
<1> QED
  BY <1>4, <1>6, <1>7 DEF C, D, q

(* So each step does to the bytes of a ring what LossyFifo allows. *)
LEMMA StepRefines ==
  ASSUME RxInv, [Next]_vars, NEW p \in Ports
  PROVE  FifoStep(p)
<1> USE DEF RxInv
<1> DEFINE r == ring[p]
<1>1. r \in Ring /\ (r.get = r.put => ~r.is_full)
  BY RingFacts
<1>2. Contents(ring[p])' = Contents(ring'[p])
  BY DEF Contents, Length
<1>3. Len(Contents(r)) = Length(r) /\ Length(r) \in 0 .. BufSize - 1
  BY <1>1, RingFacts, ContentsOf
<1>4. CASE RxByte(p)
  <2> DEFINE a == UpTo(MaxBytes, arrived[p] + 1)
             b == <<p, a>>
  <2>1. UNCHANGED last /\ ring'[p] = PutByte(r, b)
    BY <1>4 DEF RxByte, TypeOK, thread
  <2>2. b \in Byte
    <3>1. arrived[p] \in 0 .. MaxBytes
      BY DEF TypeOK
    <3>2. a \in 1 .. MaxBytes
      BY <3>1, PortFacts, UpToFacts
    <3> QED
      BY <3>2 DEF Byte
  <2> HIDE DEF b
  <2>3. CASE Length(r) # BufSize - 1
    <3>1. Contents(ring[p])' = Append(Contents(ring[p]), b)
      BY <1>1, <1>2, <2>1, <2>2, <2>3, PutAppends
    <3>2. Len(Contents(ring[p])) < BufSize - 1
      BY <1>3, <2>3, PortFacts
    <3>3. Fifo(p)!Put(b)
      BY <2>1, <3>1, <3>2 DEF Fifo!Put
    <3> QED
      BY <2>2, <3>3 DEF FifoStep
  <2>4. CASE Length(r) = BufSize - 1
    <3>1. Contents(ring[p])' = Append(Tail(Contents(ring[p])), b)
      BY <1>1, <1>2, <2>1, <2>2, <2>4, PutAppends
    <3>2. Fifo(p)!Displace(b)
      BY <1>3, <2>1, <2>4, <3>1 DEF Fifo!Displace
    <3> QED
      BY <2>2, <3>2 DEF FifoStep
  <2> QED
    BY <2>3, <2>4
<1>5. CASE ReadByte /\ cur = p
  <2>1. /\ ring'[p] = GetByte(r) /\ ~Empty(r)
        /\ last'[p] = Oldest(r)
    BY <1>5 DEF ReadByte, TypeOK
  <2>2. /\ Contents(r) # <<>> /\ Oldest(r) = Head(Contents(r))
        /\ Contents(GetByte(r)) = Tail(Contents(r))
    BY <1>1, <2>1, GetTakesHead
  <2>3. Fifo(p)!Take
    BY <1>2, <2>1, <2>2 DEF Fifo!Take
  <2> QED
    BY <2>3 DEF FifoStep
<1>6. CASE ~RxByte(p) /\ ~(ReadByte /\ cur = p)
  <2>1. ring'[p] = ring[p] /\ last'[p] = last[p]
    <3>1. CASE \E o \in Ports \ {p} : RxByte(o)
      BY <3>1 DEF RxByte, thread, TypeOK
    <3>2. CASE ReadByte /\ cur # p
      BY <3>2 DEF ReadByte, TypeOK
    <3>3. CASE UNCHANGED <<ring, last>>
      BY <3>3
    <3>4. CASE MainStep /\ ~ReadByte
      BY <3>3, <3>4 DEF MainStep, ReadNone, Pause, StartReturn, PollReturn, SetIndicate,
                        SemTake, SemTimeout, LoopReturn, uart
    <3>5. CASE \E o \in Ports : RxIndicate(o)
      BY <3>3, <3>5 DEF RxIndicate, thread
    <3> QED
      BY <1>6, <3>1, <3>2, <3>3, <3>4, <3>5 DEF Next, vars, uart, thread
  <2>2. UNCHANGED <<Contents(ring[p]), last[p]>>
    BY <2>1 DEF Contents, Length
  <2> QED
    BY <2>2 DEF FifoStep
<1> QED
  BY <1>4, <1>5, <1>6

-----------------------------------------------------------------------------
(* The invariant holds, whatever the size of the read buffer. *)
THEOREM RxInvHolds == Spec => []RxInv
<1>1. Init => RxInv
  BY InitIInv DEF IInv
<1>2. RxInv /\ [Next]_vars => RxInv'
  BY StepRxInv
<1> QED
  BY <1>1, <1>2, PTL DEF Spec

(* Every variable of the reception keeps its type: the indices stay within
   the rings, and the main thread's buffer takes what it reads. *)
THEOREM TypeCorrect == Spec => []TypeOK
<1>1. RxInv => TypeOK
  BY DEF RxInv
<1> QED
  BY <1>1, RxInvHolds, PTL

(* With a read buffer for all a ring can hold (both are 512 bytes: main.c:1359
   and RT_SERIAL_RB_BUFSZ), no byte that arrived after its indicator was set
   is left in a ring with no count and no reader. *)
THEOREM NothingIsForgotten == BufSize <= FrameMax + 1 => (Spec => []NoByteForgotten)
<1> SUFFICES ASSUME BufSize <= FrameMax + 1
             PROVE  Spec => []NoByteForgotten
  OBVIOUS
<1>1. Init => IInv
  BY InitIInv
<1>2. IInv /\ [Next]_vars => IInv'
  BY StepRxInv DEF IInv, KeepsCovered
<1>3. IInv => NoByteForgotten
  BY CoveredIsEnough
<1> QED
  BY <1>1, <1>2, <1>3, PTL DEF Spec

(* The rings of serial.c are FIFOs that drop only their oldest byte: each
   step of an interrupt or of the main thread is a step of LossyFifo on each
   of them, or leaves it alone. *)
THEOREM OnlyOldestIsDropped == Spec => RingDropsOnlyOldest
<1>1. Init => \A p \in Ports : Fifo(p)!FifoInit
  <2> SUFFICES ASSUME Init, NEW p \in Ports
               PROVE  Fifo(p)!FifoInit
    OBVIOUS
  <2>1. RxInv
    BY InitIInv DEF IInv
  <2>2. Length(ring[p]) = 0
    <3>1. Empty(ring[p])
      BY DEF Init, Empty
    <3> QED
      BY <2>1, <3>1, RingFacts DEF RxInv
  <2>3. Contents(ring[p]) = <<>>
    BY <2>2 DEF Contents
  <2>4. last[p] = None
    BY DEF Init
  <2> QED
    BY <2>3, <2>4 DEF Fifo!FifoInit
<1>2. RxInv /\ [Next]_vars => [\A p \in Ports : FifoStep(p)]_vars
  BY StepRefines
<1> QED
  BY <1>1, <1>2, RxInvHolds, PTL DEF Spec, RingDropsOnlyOldest
=============================================================================
