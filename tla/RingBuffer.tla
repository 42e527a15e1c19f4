------------------------------ MODULE RingBuffer ------------------------------
(***************************************************************************)
(* rt_ringbuffer (rt_ext/ringbuffer.c): a ring of bytes with one mirror    *)
(* bit per index, so that equal indices mean empty when the mirrors agree  *)
(* and full when they differ.  Nothing here blocks or locks; the           *)
(* operations are operators on a ring value, and the callers serialise     *)
(* them.  A block of bytes is a sequence.                                  *)
(***************************************************************************)
EXTENDS Integers, Sequences

CONSTANT RingSize  \* buffer_size: the caller's size aligned down to 4

ASSUME RingAssumption == RingSize \in Nat \ {0}

NoByte == 0                 \* content of a cell that was never written

Cell == 0 .. RingSize - 1
Side == {0, 1}

Ring(Byte) == [rd : Cell, rm : Side, wr : Cell, wm : Side,
               cell : [Cell -> Byte \cup {NoByte}]]

(* rt_ringbuffer_init on a pool of RingSize bytes. *)
EmptyRing == [rd |-> 0, rm |-> 0, wr |-> 0, wm |-> 0,
              cell |-> [c \in Cell |-> NoByte]]

Reset(rb) == [rb EXCEPT !.rd = 0, !.rm = 0, !.wr = 0, !.wm = 0]

IsEmptyRing(rb) == rb.rd = rb.wr /\ rb.rm = rb.wm
IsFullRing(rb)  == rb.rd = rb.wr /\ rb.rm # rb.wm

DataLen(rb) == IF IsEmptyRing(rb) THEN 0
               ELSE IF IsFullRing(rb) THEN RingSize
               ELSE IF rb.wr > rb.rd THEN rb.wr - rb.rd
               ELSE RingSize - (rb.rd - rb.wr)

SpaceLen(rb) == RingSize - DataLen(rb)

Least(a, b) == IF a < b THEN a ELSE b

-----------------------------------------------------------------------------
(* memcpy of the first n bytes of a block from the write index on, in one
   piece or in two. *)
Filled(rb, block, n) ==
  [c \in Cell |->
     IF c >= rb.wr /\ c < rb.wr + n THEN block[c - rb.wr + 1]
     ELSE IF c + RingSize < rb.wr + n THEN block[c + RingSize - rb.wr + 1]
     ELSE rb.cell[c]]

(* Faulty variant: a block that ends at the last cell does not wrap. *)
WrittenOffByOne(rb, n) ==
  IF RingSize - rb.wr >= n
  THEN [rb EXCEPT !.wr = (@ + n) % RingSize]
  ELSE [rb EXCEPT !.wr = n - (RingSize - @), !.wm = 1 - @]

(* The write index after n bytes: reaching the end flips the mirror. *)
Written(rb, n) ==
  IF RingSize - rb.wr > n
  THEN [rb EXCEPT !.wr = @ + n]
  ELSE [rb EXCEPT !.wr = n - (RingSize - @), !.wm = 1 - @]

(* rt_ringbuffer_put: as much of the block as there is room for. *)
PutLen(rb, block) == Least(SpaceLen(rb), Len(block))

Put(rb, block) ==
  LET n == PutLen(rb, block)
  IN  IF SpaceLen(rb) = 0 THEN rb
      ELSE [Written(rb, n) EXCEPT !.cell = Filled(rb, block, n)]

(* rt_ringbuffer_get: the bytes, and the ring without them. *)
GetLen(rb, length) == Least(DataLen(rb), length)

Got(rb, length) ==
  [k \in 1 .. GetLen(rb, length) |->
     rb.cell[IF rb.rd + k - 1 < RingSize THEN rb.rd + k - 1
                                         ELSE rb.rd + k - 1 - RingSize]]

(* Faulty variant: the mirror is counted, not flipped. *)
GetCountsMirror(rb, length) ==
  LET n == GetLen(rb, length)
  IN  IF n = 0 THEN rb
      ELSE IF RingSize - rb.rd > n
      THEN [rb EXCEPT !.rd = @ + n]
      ELSE [rb EXCEPT !.rd = n - (RingSize - @), !.rm = @ + 1]

Get(rb, length) ==
  LET n == GetLen(rb, length)
  IN  IF n = 0 THEN rb
      ELSE IF RingSize - rb.rd > n
      THEN [rb EXCEPT !.rd = @ + n]
      ELSE [rb EXCEPT !.rd = n - (RingSize - @), !.rm = 1 - @]

-----------------------------------------------------------------------------
(* One byte at a time. *)
PutChar(rb, ch) ==
  IF SpaceLen(rb) = 0 THEN rb
  ELSE LET filled == [rb EXCEPT !.cell[rb.wr] = ch]
       IN  IF rb.wr = RingSize - 1
           THEN [filled EXCEPT !.wr = 0, !.wm = 1 - @]
           ELSE [filled EXCEPT !.wr = @ + 1]

(* rt_ringbuffer_putchar_force: a full ring loses its oldest byte. *)
PutCharForce(rb, ch) ==
  LET filled == [rb EXCEPT !.cell[rb.wr] = ch]
  IN  IF rb.wr = RingSize - 1
      THEN IF IsFullRing(rb)
           THEN [filled EXCEPT !.wr = 0, !.wm = 1 - @, !.rd = 0, !.rm = 1 - @]
           ELSE [filled EXCEPT !.wr = 0, !.wm = 1 - @]
      ELSE IF IsFullRing(rb)
           THEN [filled EXCEPT !.wr = @ + 1, !.rd = rb.wr + 1]
           ELSE [filled EXCEPT !.wr = @ + 1]

GotChar(rb) == rb.cell[rb.rd]

GetChar(rb) ==
  IF DataLen(rb) = 0 THEN rb
  ELSE IF rb.rd = RingSize - 1
       THEN [rb EXCEPT !.rd = 0, !.rm = 1 - @]
       ELSE [rb EXCEPT !.rd = @ + 1]

(* rt_ringbuffer_put_force.  A block longer than the room is copied as if it
   were RingSize bytes long, whatever its length: the caller's memory is read
   beyond a shorter block (NoByte here), and a longer one loses its end. *)
Extended(block) == [k \in 1 .. RingSize |->
                      IF k <= Len(block) THEN block[k] ELSE NoByte]

PutForce(rb, block) ==
  IF Len(block) <= SpaceLen(rb)
  THEN [Written(rb, Len(block)) EXCEPT !.cell = Filled(rb, block, Len(block))]
  ELSE LET after == [Written(rb, RingSize)
                       EXCEPT !.cell = Filled(rb, Extended(block), RingSize)]
       IN  [after EXCEPT !.rd = after.wr, !.rm = 1 - @]

-----------------------------------------------------------------------------
(* What a ring holds, oldest byte first. *)
CellAt(rb, k) == rb.cell[IF rb.rd + k - 1 < RingSize THEN rb.rd + k - 1
                                                     ELSE rb.rd + k - 1 - RingSize]
Contents(rb) == [k \in 1 .. DataLen(rb) |-> CellAt(rb, k)]
=============================================================================
