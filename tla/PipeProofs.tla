----------------------------- MODULE PipeProofs -----------------------------
(***************************************************************************)
(* The pipe is a channel, and its ring a FIFO, for any threads and         *)
(* priorities, any ring size, any bytes and blocks of any length.          *)
(*                                                                         *)
(* First the ring buffer: its operations are those of a bounded sequence,  *)
(* for every size of the ring and every set of bytes.  RingOK is what all  *)
(* of them preserve: with equal mirrors the read index is not ahead of the *)
(* write index, with different ones it is not behind it.  Then the threads *)
(* that read and write the pipe, how many of them have it open, and what a *)
(* reader waits for.                                                       *)
(***************************************************************************)
EXTENDS Pipe, SequenceTheorems, FiniteSetTheorems, TLAPS

Content(B) == B \cup {NoByte}

RingOK(B, rb) == /\ rb \in Ring(B)
                 /\ rb.rm = rb.wm => rb.rd <= rb.wr
                 /\ rb.rm # rb.wm => rb.wr <= rb.rd

-----------------------------------------------------------------------------
(* The length by the mirrors, without the case distinctions of the code. *)
LEMMA Lengths ==
  ASSUME NEW B, NEW rb, RingOK(B, rb)
  PROVE  /\ DataLen(rb) \in 0 .. RingSize
         /\ SpaceLen(rb) \in 0 .. RingSize
         /\ rb.rm = rb.wm => DataLen(rb) = rb.wr - rb.rd
         /\ rb.rm # rb.wm => DataLen(rb) = RingSize - rb.rd + rb.wr
  BY RingAssumption DEF RingOK, Ring, Cell, Side, DataLen, SpaceLen,
                        IsEmptyRing, IsFullRing

(* The fields of a ring, as the provers need them. *)
LEMMA FieldTypes ==
  ASSUME NEW B, NEW rb, RingOK(B, rb)
  PROVE  /\ rb.rd \in Nat /\ rb.rd < RingSize /\ rb.wr \in Nat /\ rb.wr < RingSize
         /\ rb.rm \in {0, 1} /\ rb.wm \in {0, 1}
         /\ rb.cell \in [Cell -> Content(B)]
  BY RingAssumption DEF RingOK, Ring, Cell, Side, Content

(* The contents are a sequence as long as rt_ringbuffer_data_len says. *)
LEMMA ContentsProperties ==
  ASSUME NEW B, NEW rb, RingOK(B, rb)
  PROVE  /\ Contents(rb) \in Seq(Content(B))
         /\ Len(Contents(rb)) = DataLen(rb)
         /\ \A k \in 1 .. DataLen(rb) : Contents(rb)[k] = CellAt(rb, k)
<1>1. \A k \in 1 .. DataLen(rb) : CellAt(rb, k) \in Content(B)
  BY Lengths, FieldTypes, RingAssumption DEF CellAt, Cell
<1>2. DataLen(rb) \in Nat
  BY Lengths, RingAssumption
<1>3. Contents(rb) \in [1 .. DataLen(rb) -> Content(B)]
  BY <1>1 DEF Contents
<1>4. QED
  BY <1>2, <1>3, LenProperties, SeqDef DEF Contents

(* rt_ringbuffer_init gives an empty ring. *)
LEMMA EmptyRingOK ==
  ASSUME NEW B
  PROVE  /\ RingOK(B, EmptyRing)
         /\ Contents(EmptyRing) = <<>>
<1>1. RingOK(B, EmptyRing)
  BY RingAssumption DEF RingOK, EmptyRing, Ring, Cell, Side
<1>2. DataLen(EmptyRing) = 0
  BY DEF EmptyRing, DataLen, IsEmptyRing
<1>3. QED
  BY <1>1, <1>2, ContentsProperties, EmptySeq

(* rt_ringbuffer_reset empties any ring. *)
LEMMA ResetOK ==
  ASSUME NEW B, NEW rb, RingOK(B, rb)
  PROVE  /\ RingOK(B, Reset(rb))
         /\ Contents(Reset(rb)) = <<>>
<1>1. RingOK(B, Reset(rb))
  <2>1. rb \in [rd : Cell, rm : Side, wr : Cell, wm : Side, cell : [Cell -> Content(B)]]
    BY DEF RingOK, Ring, Content
  <2>2. 0 \in Cell /\ 0 \in Side
    BY RingAssumption DEF Cell, Side
  <2>3. /\ Reset(rb) \in [rd : Cell, rm : Side, wr : Cell, wm : Side,
                          cell : [Cell -> Content(B)]]
        /\ Reset(rb).rd = 0 /\ Reset(rb).rm = 0
        /\ Reset(rb).wr = 0 /\ Reset(rb).wm = 0
    BY <2>1, <2>2 DEF Reset
  <2>4. QED
    BY <2>3 DEF RingOK, Ring, Content
<1>2. DataLen(Reset(rb)) = 0
  BY DEF Reset, DataLen, IsEmptyRing, RingOK, Ring
<1>3. QED
  BY <1>1, <1>2, ContentsProperties, EmptySeq

-----------------------------------------------------------------------------
(* A sequence that is one sequence and then another one is both together. *)
LEMMA Continued ==
  ASSUME NEW S, NEW s \in Seq(S), NEW t \in Seq(S), NEW u \in Seq(S),
         Len(u) = Len(s) + Len(t),
         \A i \in 1 .. Len(s) : u[i] = s[i],
         \A j \in 1 .. Len(t) : u[Len(s) + j] = t[j]
  PROVE  u = s \o t
<1>1. /\ s \o t \in Seq(S)
      /\ Len(s \o t) = Len(s) + Len(t)
      /\ \A i \in 1 .. Len(s) + Len(t) :
           (s \o t)[i] = IF i <= Len(s) THEN s[i] ELSE t[i - Len(s)]
  BY ConcatProperties
<1>2. Len(s) \in Nat /\ Len(t) \in Nat
  BY LenProperties
<1>3. \A i \in 1 .. Len(u) : u[i] = (s \o t)[i]
  <2> SUFFICES ASSUME NEW i \in 1 .. Len(u) PROVE u[i] = (s \o t)[i]
    OBVIOUS
  <2>1. CASE i <= Len(s)
    BY <1>1, <1>2, <2>1
  <2>2. CASE i > Len(s)
    <3>1. i - Len(s) \in 1 .. Len(t) /\ Len(s) + (i - Len(s)) = i
      BY <1>2, <2>2
    <3>2. u[Len(s) + (i - Len(s))] = t[i - Len(s)]
      BY <3>1
    <3>3. QED
      BY <3>1, <3>2, <1>1, <1>2, <2>2
  <2>3. QED
    BY <2>1, <2>2, <1>2
<1>4. QED
  BY <1>1, <1>3, SeqEqual

-----------------------------------------------------------------------------
(* Where the k-th byte of a ring is, and where one that follows it will be. *)
At(rd, k) == IF rd + k - 1 < RingSize THEN rd + k - 1 ELSE rd + k - 1 - RingSize

(* Cells in use and cells to be filled are different cells, and each place of
   a block has a cell of its own, round the end too. *)
LEMMA Places ==
  ASSUME NEW rd \in Nat, NEW wr \in Nat, NEW len \in Nat, NEW n \in Nat,
         rd < RingSize, wr < RingSize, n + len <= RingSize,
         \/ len = wr - rd /\ rd <= wr
         \/ len = RingSize - rd + wr /\ wr <= rd
  PROVE  /\ \A k \in 1 .. len :
              /\ At(rd, k) \in Cell
              /\ ~(wr <= At(rd, k) /\ At(rd, k) < wr + n)
              /\ ~(At(rd, k) + RingSize < wr + n)
         /\ \A k \in 1 .. n :
              /\ At(rd, len + k) \in Cell
              /\ \/ /\ wr <= At(rd, len + k) /\ At(rd, len + k) < wr + n
                    /\ At(rd, len + k) - wr + 1 = k
                 \/ /\ At(rd, len + k) + RingSize < wr + n
                    /\ At(rd, len + k) + RingSize - wr + 1 = k
<1>1. ASSUME NEW k \in 1 .. len
      PROVE  /\ At(rd, k) \in Cell
             /\ ~(wr <= At(rd, k) /\ At(rd, k) < wr + n)
             /\ ~(At(rd, k) + RingSize < wr + n)
  <2>1. CASE rd + k - 1 < RingSize
    BY <2>1, RingAssumption DEF At, Cell
  <2>2. CASE ~(rd + k - 1 < RingSize)
    BY <2>2, RingAssumption DEF At, Cell
  <2>3. QED
    BY <2>1, <2>2
<1>2. ASSUME NEW k \in 1 .. n
      PROVE  /\ At(rd, len + k) \in Cell
             /\ \/ /\ wr <= At(rd, len + k) /\ At(rd, len + k) < wr + n
                   /\ At(rd, len + k) - wr + 1 = k
                \/ /\ At(rd, len + k) + RingSize < wr + n
                   /\ At(rd, len + k) + RingSize - wr + 1 = k
  <2>1. CASE rd + (len + k) - 1 < RingSize
    BY <2>1, RingAssumption DEF At, Cell
  <2>2. CASE ~(rd + (len + k) - 1 < RingSize)
    BY <2>2, RingAssumption DEF At, Cell
  <2>3. QED
    BY <2>1, <2>2
<1>3. QED
  BY <1>1, <1>2

(* rt_ringbuffer_put of n bytes that fit, the common part of put and
   put_force: they follow what the ring holds. *)
Added(rb, block, n) == [Written(rb, n) EXCEPT !.cell = Filled(rb, block, n)]

(* The indices and mirrors after n bytes were added. *)
LEMMA AddedFields ==
  ASSUME NEW B, NEW rb, RingOK(B, rb), NEW block, NEW n \in Nat
  PROVE  /\ Added(rb, block, n).rd = rb.rd /\ Added(rb, block, n).rm = rb.rm
         /\ RingSize - rb.wr > n =>
              /\ Added(rb, block, n).wr = rb.wr + n
              /\ Added(rb, block, n).wm = rb.wm
         /\ RingSize - rb.wr <= n =>
              /\ Added(rb, block, n).wr = n - (RingSize - rb.wr)
              /\ Added(rb, block, n).wm = 1 - rb.wm
         /\ Added(rb, block, n).cell = Filled(rb, block, n)
         /\ Added(rb, block, n) =
              [rd |-> rb.rd, rm |-> rb.rm, wr |-> Added(rb, block, n).wr,
               wm |-> Added(rb, block, n).wm, cell |-> Filled(rb, block, n)]
<1> DEFINE cells == Filled(rb, block, n)
<1>1. rb \in [rd : Cell, rm : Side, wr : Cell, wm : Side, cell : [Cell -> Content(B)]]
  BY DEF RingOK, Ring, Content
<1>2. CASE RingSize - rb.wr > n
  <2>1. Written(rb, n) = [rd |-> rb.rd, rm |-> rb.rm, wr |-> rb.wr + n,
                          wm |-> rb.wm, cell |-> rb.cell]
    BY <1>1, <1>2 DEF Written
  <2>2. Added(rb, block, n) = [rd |-> rb.rd, rm |-> rb.rm, wr |-> rb.wr + n,
                               wm |-> rb.wm, cell |-> cells]
    BY <2>1 DEF Added
  <2>3. QED
    BY <2>2, <1>2, FieldTypes, RingAssumption
<1>3. CASE ~(RingSize - rb.wr > n)
  <2>1. Written(rb, n) = [rd |-> rb.rd, rm |-> rb.rm, wr |-> n - (RingSize - rb.wr),
                          wm |-> 1 - rb.wm, cell |-> rb.cell]
    BY <1>1, <1>3 DEF Written
  <2>2. Added(rb, block, n) = [rd |-> rb.rd, rm |-> rb.rm,
                               wr |-> n - (RingSize - rb.wr),
                               wm |-> 1 - rb.wm, cell |-> cells]
    BY <2>1 DEF Added
  <2>3. QED
    BY <2>2, <1>3, FieldTypes, RingAssumption
<1>4. QED
  BY <1>2, <1>3

(* Adding n bytes for which there is room appends them to the contents. *)
LEMMA AddedOK ==
  ASSUME NEW B, NEW rb, RingOK(B, rb), NEW block \in Seq(B),
         NEW n \in 0 .. SpaceLen(rb), n <= Len(block)
  PROVE  /\ RingOK(B, Added(rb, block, n))
         /\ DataLen(Added(rb, block, n)) = DataLen(rb) + n
         /\ Contents(Added(rb, block, n)) = Contents(rb) \o SubSeq(block, 1, n)
<1> DEFINE new == Added(rb, block, n)
           D == Content(B)
<1>n. n \in Nat /\ n <= RingSize
  BY Lengths, RingAssumption
<1>f. /\ rb.rd \in Nat /\ rb.rd < RingSize /\ rb.wr \in Nat /\ rb.wr < RingSize
      /\ rb.rm \in {0, 1} /\ rb.wm \in {0, 1}
      /\ rb.cell \in [Cell -> D]
  BY FieldTypes
<1>g. /\ DataLen(rb) \in Nat /\ n + DataLen(rb) <= RingSize
      /\ rb.rm = rb.wm => DataLen(rb) = rb.wr - rb.rd /\ rb.rd <= rb.wr
      /\ rb.rm # rb.wm => DataLen(rb) = RingSize - rb.rd + rb.wr /\ rb.wr <= rb.rd
  <2>1. /\ DataLen(rb) \in 0 .. RingSize
        /\ rb.rm = rb.wm => DataLen(rb) = rb.wr - rb.rd
        /\ rb.rm # rb.wm => DataLen(rb) = RingSize - rb.rd + rb.wr
    BY Lengths
  <2>2. /\ rb.rm = rb.wm => rb.rd <= rb.wr
        /\ rb.rm # rb.wm => rb.wr <= rb.rd
    BY DEF RingOK
  <2>3. QED
    BY <2>1, <2>2, RingAssumption DEF SpaceLen
<1>l. Len(block) \in Nat /\ \A i \in 1 .. Len(block) : block[i] \in B
  BY LenProperties, ElementOfSeq
<1>1. new.rd = rb.rd /\ new.rm = rb.rm /\ new.cell = Filled(rb, block, n)
  BY <1>n, AddedFields
<1>2. \/ RingSize - rb.wr > n /\ new.wr = rb.wr + n /\ new.wm = rb.wm
      \/ RingSize - rb.wr <= n /\ new.wr = n - (RingSize - rb.wr) /\ new.wm = 1 - rb.wm
  BY <1>n, <1>f, AddedFields, RingAssumption
<1>a. \A c \in Cell :
        /\ c \in Nat /\ c < RingSize
        /\ rb.wr <= c /\ c < rb.wr + n =>
             Filled(rb, block, n)[c] = block[c - rb.wr + 1]
        /\ c + RingSize < rb.wr + n =>
             Filled(rb, block, n)[c] = block[c + RingSize - rb.wr + 1]
        /\ ~(rb.wr <= c /\ c < rb.wr + n) /\ ~(c + RingSize < rb.wr + n) =>
             Filled(rb, block, n)[c] = rb.cell[c]
  BY <1>n, <1>f, RingAssumption DEF Filled, Cell
<1>3. Filled(rb, block, n) \in [Cell -> D]
  <2>1. \A c \in Cell : Filled(rb, block, n)[c] \in D
    <3> TAKE c \in Cell
    <3>0. c \in Nat /\ c < RingSize
      BY <1>a
    <3>1. CASE rb.wr <= c /\ c < rb.wr + n
      <4>1. c - rb.wr + 1 \in 1 .. Len(block)
        BY <3>0, <3>1, <1>n, <1>f, <1>l
      <4>2. QED
        BY <4>1, <3>1, <1>a, <1>l DEF Content
    <3>2. CASE c + RingSize < rb.wr + n
      <4>1. c + RingSize - rb.wr + 1 \in 1 .. Len(block)
        BY <3>0, <3>2, <1>n, <1>f, <1>l, RingAssumption
      <4>2. QED
        BY <4>1, <3>2, <1>a, <1>l DEF Content
    <3>3. CASE ~(rb.wr <= c /\ c < rb.wr + n) /\ ~(c + RingSize < rb.wr + n)
      BY <3>3, <1>a, <1>f
    <3>4. QED
      BY <3>1, <3>2, <3>3
  <2>2. DOMAIN Filled(rb, block, n) = Cell /\ Filled(rb, block, n) = [c \in Cell |-> Filled(rb, block, n)[c]]
    BY DEF Filled
  <2>3. QED
    BY <2>1, <2>2
<1>4. RingOK(B, new)
  <2>1. /\ new.wr \in Cell /\ new.wm \in Side
        /\ rb.rm = new.wm => rb.rd <= new.wr
        /\ rb.rm # new.wm => new.wr <= rb.rd
    <3>1. RingSize \in Nat
      BY RingAssumption
    <3>2. CASE RingSize - rb.wr > n /\ new.wr = rb.wr + n /\ new.wm = rb.wm
      <4>1. new.wr \in Cell /\ new.wm \in Side
        BY <1>n, <1>f, <3>1, <3>2 DEF Cell, Side
      <4>2. rb.rm = rb.wm => rb.rd <= rb.wr + n
        BY <1>n, <1>f, <1>g
      <4>3. rb.rm # rb.wm => rb.wr + n <= rb.rd
        BY <1>n, <1>f, <1>g, <3>1
      <4>4. QED
        BY <3>2, <4>1, <4>2, <4>3
    <3>3. CASE /\ RingSize - rb.wr <= n /\ new.wr = n - (RingSize - rb.wr)
               /\ new.wm = 1 - rb.wm
      <4>1. new.wr \in Cell /\ new.wm \in Side
        BY <1>n, <1>f, <3>1, <3>3 DEF Cell, Side
      <4>2. rb.rm = rb.wm
        BY <1>n, <1>f, <1>g, <3>1, <3>3
      <4>3. n - (RingSize - rb.wr) <= rb.rd
        BY <1>n, <1>f, <1>g, <3>1, <4>2
      <4>4. QED
        BY <1>f, <3>3, <4>1, <4>2, <4>3
    <3>4. QED
      BY <1>2, <3>2, <3>3
  <2>2. new = [rd |-> rb.rd, rm |-> rb.rm, wr |-> new.wr, wm |-> new.wm,
               cell |-> Filled(rb, block, n)]
    BY <1>n, AddedFields
  <2>3. rb.rd \in Cell /\ rb.rm \in Side
    BY DEF RingOK, Ring
  <2>4. new \in Ring(B)
    BY <2>1, <2>2, <2>3, <1>3 DEF Ring, Content
  <2>5. QED
    BY <2>1, <2>4, <1>1 DEF RingOK
<1>5. DataLen(new) = DataLen(rb) + n
  <2>0. RingSize \in Nat
    BY RingAssumption
  <2>1. /\ new.rm = new.wm => DataLen(new) = new.wr - new.rd
        /\ new.rm # new.wm => DataLen(new) = RingSize - new.rd + new.wr
    BY <1>4, Lengths
  <2>2. CASE RingSize - rb.wr > n /\ new.wr = rb.wr + n /\ new.wm = rb.wm
    <3>1. CASE rb.rm = rb.wm
      BY <2>1, <2>2, <3>1, <1>n, <1>1, <1>f, <1>g
    <3>2. CASE rb.rm # rb.wm
      BY <2>0, <2>1, <2>2, <3>2, <1>n, <1>1, <1>f, <1>g
    <3>3. QED
      BY <3>1, <3>2
  <2>3. CASE /\ RingSize - rb.wr <= n /\ new.wr = n - (RingSize - rb.wr)
             /\ new.wm = 1 - rb.wm
    <3>1. rb.rm = rb.wm
      BY <2>0, <2>3, <1>n, <1>f, <1>g
    <3>2. new.rm # new.wm
      BY <2>3, <3>1, <1>1, <1>f
    <3>3. QED
      BY <2>0, <2>1, <2>3, <3>1, <3>2, <1>n, <1>1, <1>f, <1>g
  <2>4. QED
    BY <1>2, <2>2, <2>3
<1>p. /\ \A k \in 1 .. DataLen(rb) :
           /\ At(rb.rd, k) \in Cell
           /\ ~(rb.wr <= At(rb.rd, k) /\ At(rb.rd, k) < rb.wr + n)
           /\ ~(At(rb.rd, k) + RingSize < rb.wr + n)
      /\ \A k \in 1 .. n :
           /\ At(rb.rd, DataLen(rb) + k) \in Cell
           /\ \/ /\ rb.wr <= At(rb.rd, DataLen(rb) + k)
                 /\ At(rb.rd, DataLen(rb) + k) < rb.wr + n
                 /\ At(rb.rd, DataLen(rb) + k) - rb.wr + 1 = k
              \/ /\ At(rb.rd, DataLen(rb) + k) + RingSize < rb.wr + n
                 /\ At(rb.rd, DataLen(rb) + k) + RingSize - rb.wr + 1 = k
  BY <1>n, <1>f, <1>g, Places
<1>6. \A k \in 1 .. DataLen(rb) : CellAt(new, k) = CellAt(rb, k)
  <2> TAKE k \in 1 .. DataLen(rb)
  <2>1. Filled(rb, block, n)[At(rb.rd, k)] = rb.cell[At(rb.rd, k)]
    BY <1>p, <1>a
  <2>2. QED
    BY <2>1, <1>1 DEF CellAt, At
<1>7. \A k \in 1 .. n : CellAt(new, DataLen(rb) + k) = block[k]
  <2> TAKE k \in 1 .. n
  <2>1. Filled(rb, block, n)[At(rb.rd, DataLen(rb) + k)] = block[k]
    BY <1>p, <1>a
  <2>2. QED
    BY <2>1, <1>1 DEF CellAt, At
<1>8. /\ SubSeq(block, 1, n) \in Seq(D)
      /\ Len(SubSeq(block, 1, n)) = n
      /\ \A k \in 1 .. n : SubSeq(block, 1, n)[k] = block[k]
  <2>1. block \in Seq(D)
    BY SeqMonotonic DEF Content
  <2>2. QED
    BY <2>1, <1>n, <1>l, SubSeqProperties
<1>9. Contents(rb) \in Seq(D) /\ Len(Contents(rb)) = DataLen(rb)
  BY ContentsProperties
<1>10. Contents(new) \in Seq(D) /\ Len(Contents(new)) = DataLen(rb) + n
  BY <1>4, <1>5, ContentsProperties
<1>11. \A i \in 1 .. DataLen(rb) : Contents(new)[i] = Contents(rb)[i]
  <2>1. \A i \in 1 .. DataLen(rb) + n : Contents(new)[i] = CellAt(new, i)
    BY <1>4, <1>5, ContentsProperties
  <2>2. \A i \in 1 .. DataLen(rb) : Contents(rb)[i] = CellAt(rb, i)
    BY ContentsProperties
  <2>3. QED
    BY <2>1, <2>2, <1>6, <1>n, <1>g
<1>12. \A j \in 1 .. n : Contents(new)[DataLen(rb) + j] = SubSeq(block, 1, n)[j]
  <2>1. \A i \in 1 .. DataLen(rb) + n : Contents(new)[i] = CellAt(new, i)
    BY <1>4, <1>5, ContentsProperties
  <2>2. \A j \in 1 .. n : DataLen(rb) + j \in 1 .. DataLen(rb) + n
    BY <1>n, <1>g
  <2>3. QED
    BY <2>1, <2>2, <1>7, <1>8
<1>13. QED
  <2>1. Len(Contents(new)) = Len(Contents(rb)) + Len(SubSeq(block, 1, n))
    BY <1>8, <1>9, <1>10
  <2>2. /\ \A i \in 1 .. Len(Contents(rb)) : Contents(new)[i] = Contents(rb)[i]
        /\ \A j \in 1 .. Len(SubSeq(block, 1, n)) :
             Contents(new)[Len(Contents(rb)) + j] = SubSeq(block, 1, n)[j]
    BY <1>8, <1>9, <1>11, <1>12
  <2>3. Contents(new) = Contents(rb) \o SubSeq(block, 1, n)
    BY <2>1, <2>2, <1>8, <1>9, <1>10, Continued
  <2>4. QED
    BY <2>3, <1>4, <1>5

(* rt_ringbuffer_put appends as much of the block as there is room for. *)
LEMMA PutOK ==
  ASSUME NEW B, NEW rb, RingOK(B, rb), NEW block \in Seq(B)
  PROVE  /\ RingOK(B, Put(rb, block))
         /\ Contents(Put(rb, block)) =
              Contents(rb) \o SubSeq(block, 1, Least(SpaceLen(rb), Len(block)))
<1> DEFINE n == Least(SpaceLen(rb), Len(block))
<1>1. SpaceLen(rb) \in Nat /\ Len(block) \in Nat
  BY Lengths, LenProperties, RingAssumption
<1>2. n \in 0 .. SpaceLen(rb) /\ n <= Len(block)
  BY <1>1 DEF Least
<1>3. CASE SpaceLen(rb) = 0
  <2>1. n = 0
    BY <1>2, <1>3
  <2>2. SubSeq(block, 1, n) = <<>>
    BY <2>1, SubSeqEmpty
  <2>3. QED
    BY <1>3, <2>2, ContentsProperties, ConcatEmptySeq DEF Put
<1>4. CASE SpaceLen(rb) # 0
  <2>1. Put(rb, block) = Added(rb, block, n)
    BY <1>4 DEF Put, PutLen, Added
  <2>2. QED
    BY <2>1, <1>2, AddedOK
<1>5. QED
  BY <1>3, <1>4

(* put_force of a block that fits does what put does. *)
LEMMA PutForceOK ==
  ASSUME NEW B, NEW rb, RingOK(B, rb), NEW block \in Seq(B),
         Len(block) <= SpaceLen(rb)
  PROVE  /\ RingOK(B, PutForce(rb, block))
         /\ Contents(PutForce(rb, block)) = Contents(rb) \o block
<1>1. SpaceLen(rb) \in Nat /\ Len(block) \in Nat
  BY Lengths, LenProperties, RingAssumption
<1>2. PutForce(rb, block) = Added(rb, block, Len(block))
  BY DEF PutForce, Added
<1>3. SubSeq(block, 1, Len(block)) = block
  BY SubSeqFull
<1>4. QED
  BY <1>1, <1>2, <1>3, AddedOK

-----------------------------------------------------------------------------
(* rt_ringbuffer_get. *)
LEMMA GetOK ==
  ASSUME NEW B, NEW rb, RingOK(B, rb), NEW length \in Nat
  PROVE  LET n == Least(DataLen(rb), length)
         IN  /\ RingOK(B, Get(rb, length))
             /\ DataLen(Get(rb, length)) = DataLen(rb) - n
             /\ Got(rb, length) = SubSeq(Contents(rb), 1, n)
             /\ Contents(Get(rb, length)) =
                  SubSeq(Contents(rb), n + 1, Len(Contents(rb)))
<1> DEFINE n == Least(DataLen(rb), length)
           new == Get(rb, length)
           D == Content(B)
           held == Contents(rb)
<1>n. DataLen(rb) \in Nat /\ n \in Nat /\ n <= DataLen(rb) /\ DataLen(rb) <= RingSize
  BY Lengths, RingAssumption DEF Least
<1>f. /\ rb.rd \in Nat /\ rb.rd < RingSize /\ rb.wr \in Nat /\ rb.wr < RingSize
      /\ rb.rm \in {0, 1} /\ rb.wm \in {0, 1}
      /\ rb.cell \in [Cell -> D]
  BY FieldTypes
<1>g. /\ rb.rm = rb.wm => DataLen(rb) = rb.wr - rb.rd /\ rb.rd <= rb.wr
      /\ rb.rm # rb.wm => DataLen(rb) = RingSize - rb.rd + rb.wr /\ rb.wr <= rb.rd
  <2>1. /\ rb.rm = rb.wm => DataLen(rb) = rb.wr - rb.rd
        /\ rb.rm # rb.wm => DataLen(rb) = RingSize - rb.rd + rb.wr
    BY Lengths
  <2>2. QED
    BY <2>1 DEF RingOK
<1>h. held \in Seq(D) /\ Len(held) = DataLen(rb)
      /\ \A k \in 1 .. DataLen(rb) : held[k] = CellAt(rb, k)
  BY ContentsProperties
<1>1. Got(rb, length) = SubSeq(held, 1, n)
  <2>1. /\ SubSeq(held, 1, n) \in Seq(D)
        /\ Len(SubSeq(held, 1, n)) = n
        /\ \A k \in 1 .. n : SubSeq(held, 1, n)[k] = held[k]
    BY <1>n, <1>h, SubSeqProperties
  <2>2. \A k \in 1 .. n : CellAt(rb, k) \in D
    BY <1>n, <1>h, ElementOfSeq
  <2>3. Got(rb, length) = [k \in 1 .. n |-> CellAt(rb, k)]
    BY DEF Got, GetLen, CellAt
  <2>4. Got(rb, length) \in [1 .. n -> D]
    BY <2>2, <2>3
  <2>5. Got(rb, length) \in Seq(D) /\ Len(Got(rb, length)) = n
    BY <2>4, <1>n, SeqDef, LenProperties
  <2>6. \A k \in 1 .. n : Got(rb, length)[k] = SubSeq(held, 1, n)[k]
    BY <2>1, <2>3, <1>h, <1>n
  <2>7. QED
    BY <2>1, <2>5, <2>6, SeqEqual
<1>2. /\ new \in [rd : Cell, rm : Side, wr : Cell, wm : Side, cell : [Cell -> D]]
      /\ new.wr = rb.wr /\ new.wm = rb.wm /\ new.cell = rb.cell
      /\ \/ RingSize - rb.rd > n /\ new.rd = rb.rd + n /\ new.rm = rb.rm
         \/ RingSize - rb.rd <= n /\ new.rd = n - (RingSize - rb.rd) /\ new.rm = 1 - rb.rm
  <2>1. rb \in [rd : Cell, rm : Side, wr : Cell, wm : Side, cell : [Cell -> D]]
    BY DEF RingOK, Ring, Content
  <2>2. CASE n = 0
    <3>1. new = rb
      BY <2>2 DEF Get, GetLen
    <3>2. QED
      BY <3>1, <2>1, <2>2, <1>f, RingAssumption
  <2>3. CASE n # 0 /\ RingSize - rb.rd > n
    <3>1. new = [rb EXCEPT !.rd = rb.rd + n]
      BY <2>1, <2>3 DEF Get, GetLen
    <3>2. rb.rd + n \in Cell
      BY <2>3, <1>n, <1>f, RingAssumption DEF Cell
    <3>3. QED
      BY <3>1, <3>2, <2>1, <2>3
  <2>4. CASE n # 0 /\ ~(RingSize - rb.rd > n)
    <3>1. new = [rb EXCEPT !.rd = n - (RingSize - rb.rd), !.rm = 1 - rb.rm]
      BY <2>1, <2>4 DEF Get, GetLen
    <3>2. n - (RingSize - rb.rd) \in Cell /\ 1 - rb.rm \in Side
      BY <2>4, <1>n, <1>f, <1>g, RingAssumption DEF Cell, Side
    <3>3. RingSize - rb.rd <= n
      BY <2>4, <1>n, <1>f, RingAssumption
    <3>4. QED
      BY <3>1, <3>2, <3>3, <2>1
  <2>5. QED
    BY <2>2, <2>3, <2>4
<1>3. RingOK(B, new)
  <2>1. /\ new.rm = rb.wm => new.rd <= rb.wr
        /\ new.rm # rb.wm => rb.wr <= new.rd
    BY <1>n, <1>f, <1>g, <1>2, RingAssumption
  <2>2. QED
    BY <2>1, <1>2 DEF RingOK, Ring, Content
<1>4. DataLen(new) = DataLen(rb) - n
  <2>1. /\ new.rm = new.wm => DataLen(new) = new.wr - new.rd
        /\ new.rm # new.wm => DataLen(new) = RingSize - new.rd + new.wr
    BY <1>3, Lengths
  <2>2. QED
    BY <2>1, <1>n, <1>f, <1>g, <1>2, RingAssumption
<1>5. \A k \in 1 .. DataLen(rb) - n : CellAt(new, k) = held[n + k]
  <2> TAKE k \in 1 .. DataLen(rb) - n
  <2>1. n + k \in 1 .. DataLen(rb)
    BY <1>n
  <2>2. At(new.rd, k) = At(rb.rd, n + k)
    BY <2>1, <1>n, <1>f, <1>2, RingAssumption DEF At
  <2>3. CellAt(new, k) = new.cell[At(new.rd, k)] /\ CellAt(rb, n + k) = rb.cell[At(rb.rd, n + k)]
    BY DEF CellAt, At
  <2>4. QED
    BY <2>1, <2>2, <2>3, <1>2, <1>h
<1>6. Contents(new) = SubSeq(held, n + 1, Len(held))
  <2>1. /\ Contents(new) \in Seq(D) /\ Len(Contents(new)) = DataLen(rb) - n
        /\ \A k \in 1 .. DataLen(rb) - n : Contents(new)[k] = CellAt(new, k)
    BY <1>3, <1>4, ContentsProperties
  <2>2. /\ SubSeq(held, n + 1, Len(held)) \in Seq(D)
        /\ Len(SubSeq(held, n + 1, Len(held))) = DataLen(rb) - n
        /\ \A k \in 1 .. DataLen(rb) - n : SubSeq(held, n + 1, Len(held))[k] = held[n + k]
    <3>1. n + 1 \in 1 .. Len(held) + 1
      BY <1>n, <1>h
    <3>2. QED
      BY <3>1, <1>n, <1>h, SubSeqProperties
  <2>3. QED
    BY <2>1, <2>2, <1>5, SeqEqual
<1>7. QED
  BY <1>1, <1>3, <1>4, <1>6

-----------------------------------------------------------------------------
(* One byte is a block of one byte. *)
LEMMA PutCharIsPut ==
  ASSUME NEW B, NEW rb, RingOK(B, rb), NEW ch \in B
  PROVE  PutChar(rb, ch) = Put(rb, <<ch>>)
<1> DEFINE D == Content(B)
<1>f. /\ rb.rd \in Nat /\ rb.rd < RingSize /\ rb.wr \in Nat /\ rb.wr < RingSize
      /\ rb.rm \in {0, 1} /\ rb.wm \in {0, 1}
      /\ rb.cell \in [Cell -> D]
  BY FieldTypes
<1>1. CASE SpaceLen(rb) = 0
  BY <1>1 DEF PutChar, Put
<1>2. CASE SpaceLen(rb) # 0
  <2>1. SpaceLen(rb) \in Nat /\ SpaceLen(rb) >= 1 /\ Len(<<ch>>) = 1
    BY <1>2, Lengths, RingAssumption
  <2>2. PutLen(rb, <<ch>>) = 1
    BY <2>1 DEF PutLen, Least
  <2>3. Filled(rb, <<ch>>, 1) = [rb.cell EXCEPT ![rb.wr] = ch]
    <3>1. \A c \in Cell : (rb.wr <= c /\ c < rb.wr + 1 <=> c = rb.wr)
                          /\ ~(c + RingSize < rb.wr + 1)
      BY <1>f, RingAssumption DEF Cell
    <3>2. \A c \in Cell : Filled(rb, <<ch>>, 1)[c] = IF c = rb.wr THEN ch ELSE rb.cell[c]
      BY <3>1, <1>f DEF Filled
    <3>3. DOMAIN Filled(rb, <<ch>>, 1) = Cell
          /\ Filled(rb, <<ch>>, 1) = [c \in Cell |-> Filled(rb, <<ch>>, 1)[c]]
      BY DEF Filled
    <3>4. QED
      BY <3>2, <3>3, <1>f
  <2>4. rb \in [rd : Cell, rm : Side, wr : Cell, wm : Side, cell : [Cell -> D]]
    BY DEF RingOK, Ring, Content
  <2>5. Put(rb, <<ch>>) = Added(rb, <<ch>>, 1)
    BY <1>2, <2>2 DEF Put, Added
  <2>6. CASE rb.wr = RingSize - 1
    <3>1. Added(rb, <<ch>>, 1) =
            [rd |-> rb.rd, rm |-> rb.rm, wr |-> 0, wm |-> 1 - rb.wm,
             cell |-> [rb.cell EXCEPT ![rb.wr] = ch]]
      BY <2>3, <2>6, <1>f, AddedFields, RingAssumption
    <3>2. PutChar(rb, ch) =
            [rd |-> rb.rd, rm |-> rb.rm, wr |-> 0, wm |-> 1 - rb.wm,
             cell |-> [rb.cell EXCEPT ![rb.wr] = ch]]
      BY <2>4, <2>6, <1>2 DEF PutChar
    <3>3. QED
      BY <3>1, <3>2, <2>5
  <2>7. CASE rb.wr # RingSize - 1
    <3>1. Added(rb, <<ch>>, 1) =
            [rd |-> rb.rd, rm |-> rb.rm, wr |-> rb.wr + 1, wm |-> rb.wm,
             cell |-> [rb.cell EXCEPT ![rb.wr] = ch]]
      BY <2>3, <2>7, <1>f, AddedFields, RingAssumption
    <3>2. PutChar(rb, ch) =
            [rd |-> rb.rd, rm |-> rb.rm, wr |-> rb.wr + 1, wm |-> rb.wm,
             cell |-> [rb.cell EXCEPT ![rb.wr] = ch]]
      BY <2>4, <2>7, <1>2 DEF PutChar
    <3>3. QED
      BY <3>1, <3>2, <2>5
  <2>8. QED
    BY <2>6, <2>7
<1>3. QED
  BY <1>1, <1>2

(* rt_ringbuffer_getchar is a get of one byte. *)
LEMMA GetCharIsGet ==
  ASSUME NEW B, NEW rb, RingOK(B, rb)
  PROVE  GetChar(rb) = Get(rb, 1)
<1>1. DataLen(rb) \in Nat
  BY Lengths, RingAssumption
<1>2. GetLen(rb, 1) = IF DataLen(rb) = 0 THEN 0 ELSE 1
  BY <1>1 DEF GetLen, Least
<1>3. rb \in [rd : Cell, rm : Side, wr : Cell, wm : Side, cell : [Cell -> Content(B)]]
  BY DEF RingOK, Ring, Content
<1>4. rb.rd \in Nat /\ rb.rd < RingSize
  BY FieldTypes
<1>5. CASE DataLen(rb) = 0
  BY <1>2, <1>5 DEF GetChar, Get
<1>6. CASE DataLen(rb) # 0 /\ rb.rd = RingSize - 1
  <2>1. ~(RingSize - rb.rd > 1) /\ 1 - (RingSize - rb.rd) = 0
    BY <1>4, <1>6, RingAssumption
  <2>2. Get(rb, 1) = [rd |-> 0, rm |-> 1 - rb.rm, wr |-> rb.wr, wm |-> rb.wm,
                      cell |-> rb.cell]
    <3> DEFINE n == GetLen(rb, 1)
    <3>1. n = 1
      BY <1>2, <1>6
    <3>2. n # 0 /\ ~(RingSize - rb.rd > n) /\ n - (RingSize - rb.rd) = 0
      BY <3>1, <2>1
    <3>3. Get(rb, 1) = [rb EXCEPT !.rd = n - (RingSize - rb.rd), !.rm = 1 - rb.rm]
      BY <3>2, <1>3 DEF Get
    <3> HIDE DEF n
    <3>4. QED
      BY <3>2, <3>3, <1>3
  <2>3. GetChar(rb) = [rd |-> 0, rm |-> 1 - rb.rm, wr |-> rb.wr, wm |-> rb.wm,
                       cell |-> rb.cell]
    BY <1>3, <1>6 DEF GetChar
  <2>4. QED
    BY <2>2, <2>3
<1>7. CASE DataLen(rb) # 0 /\ rb.rd # RingSize - 1
  <2>1. RingSize - rb.rd > 1
    BY <1>4, <1>7, RingAssumption
  <2>2. QED
    BY <2>1, <1>2, <1>3, <1>7 DEF GetChar, Get
<1>8. QED
  BY <1>5, <1>6, <1>7

(* Full by the mirrors is full by the count. *)
LEMMA FullWhenNoSpace ==
  ASSUME NEW B, NEW rb, RingOK(B, rb)
  PROVE  /\ IsFullRing(rb) <=> SpaceLen(rb) = 0
         /\ IsFullRing(rb) <=> DataLen(rb) = RingSize
<1>1. /\ DataLen(rb) \in Nat
      /\ rb.rm = rb.wm => DataLen(rb) = rb.wr - rb.rd
      /\ rb.rm # rb.wm => DataLen(rb) = RingSize - rb.rd + rb.wr
  BY Lengths, RingAssumption
<1>2. rb.rd \in Nat /\ rb.wr \in Nat /\ rb.rd < RingSize /\ rb.wr < RingSize
  BY FieldTypes
<1>3. CASE rb.rm = rb.wm
  BY <1>1, <1>2, <1>3, RingAssumption DEF IsFullRing, SpaceLen
<1>4. CASE rb.rm # rb.wm
  BY <1>1, <1>2, <1>4, RingAssumption DEF IsFullRing, SpaceLen
<1>5. QED
  BY <1>3, <1>4

(* rt_ringbuffer_putchar, field by field. *)
LEMMA PutCharFields ==
  ASSUME NEW B, NEW rb, RingOK(B, rb), NEW ch, SpaceLen(rb) # 0
  PROVE  PutChar(rb, ch) =
           [rd |-> rb.rd, rm |-> rb.rm,
            wr |-> IF rb.wr = RingSize - 1 THEN 0 ELSE rb.wr + 1,
            wm |-> IF rb.wr = RingSize - 1 THEN 1 - rb.wm ELSE rb.wm,
            cell |-> [rb.cell EXCEPT ![rb.wr] = ch]]
<1>1. rb \in [rd : Cell, rm : Side, wr : Cell, wm : Side, cell : [Cell -> Content(B)]]
  BY DEF RingOK, Ring, Content
<1>2. CASE rb.wr = RingSize - 1
  BY <1>1, <1>2 DEF PutChar
<1>3. CASE rb.wr # RingSize - 1
  BY <1>1, <1>3 DEF PutChar
<1>4. QED
  BY <1>2, <1>3

(* putchar_force: with room, a put; without, a get and then a put. *)
LEMMA PutCharForceIs ==
  ASSUME NEW B, NEW rb, RingOK(B, rb), NEW ch \in B
  PROVE  PutCharForce(rb, ch) =
           IF DataLen(rb) < RingSize THEN PutChar(rb, ch)
                                     ELSE PutChar(GetChar(rb), ch)
<1> DEFINE D == Content(B)
           R == [rd : Cell, rm : Side, wr : Cell, wm : Side, cell : [Cell -> D]]
<1>1. DataLen(rb) \in Nat /\ DataLen(rb) <= RingSize /\ SpaceLen(rb) = RingSize - DataLen(rb)
  BY Lengths, RingAssumption DEF SpaceLen
<1>2. rb \in R
  BY DEF RingOK, Ring, Content
<1>3. CASE DataLen(rb) < RingSize
  <2>1. ~IsFullRing(rb) /\ SpaceLen(rb) # 0
    BY <1>1, <1>3, FullWhenNoSpace, RingAssumption
  <2>2. QED
    BY <2>1, <1>2, <1>3 DEF PutCharForce, PutChar
<1>4. CASE ~(DataLen(rb) < RingSize)
  <2>1. DataLen(rb) = RingSize /\ DataLen(rb) # 0
    BY <1>1, <1>4, RingAssumption
  <2>2. IsFullRing(rb)
    BY <2>1, FullWhenNoSpace
  <2>3. rb.rd = rb.wr
    BY <2>2 DEF IsFullRing
  <2>4. RingOK(B, GetChar(rb)) /\ SpaceLen(GetChar(rb)) # 0
    <3>1. RingOK(B, Get(rb, 1)) /\ DataLen(Get(rb, 1)) = DataLen(rb) - Least(DataLen(rb), 1)
      BY GetOK
    <3>2. Least(DataLen(rb), 1) = 1
      BY <2>1, RingAssumption DEF Least
    <3>3. QED
      BY <3>1, <3>2, <2>1, GetCharIsGet, RingAssumption DEF SpaceLen
  <2>5. CASE rb.wr = RingSize - 1
    <3>1. GetChar(rb) = [rd |-> 0, rm |-> 1 - rb.rm, wr |-> rb.wr, wm |-> rb.wm, cell |-> rb.cell]
      BY <2>1, <2>3, <2>5, <1>2 DEF GetChar
    <3>2. PutChar(GetChar(rb), ch) =
            [rd |-> 0, rm |-> 1 - rb.rm, wr |-> 0, wm |-> 1 - rb.wm,
             cell |-> [rb.cell EXCEPT ![rb.wr] = ch]]
      BY <2>4, <2>5, <3>1, PutCharFields
    <3>3. PutCharForce(rb, ch) =
            [rd |-> 0, rm |-> 1 - rb.rm, wr |-> 0, wm |-> 1 - rb.wm,
             cell |-> [rb.cell EXCEPT ![rb.wr] = ch]]
      BY <2>2, <2>5, <1>2 DEF PutCharForce
    <3>4. QED
      BY <1>4, <3>2, <3>3
  <2>6. CASE rb.wr # RingSize - 1
    <3>1. GetChar(rb) = [rd |-> rb.wr + 1, rm |-> rb.rm, wr |-> rb.wr, wm |-> rb.wm, cell |-> rb.cell]
      BY <2>1, <2>3, <2>6, <1>2 DEF GetChar
    <3>2. PutChar(GetChar(rb), ch) =
            [rd |-> rb.wr + 1, rm |-> rb.rm, wr |-> rb.wr + 1, wm |-> rb.wm,
             cell |-> [rb.cell EXCEPT ![rb.wr] = ch]]
      BY <2>4, <2>6, <3>1, PutCharFields
    <3>3. PutCharForce(rb, ch) =
            [rd |-> rb.wr + 1, rm |-> rb.rm, wr |-> rb.wr + 1, wm |-> rb.wm,
             cell |-> [rb.cell EXCEPT ![rb.wr] = ch]]
      BY <2>2, <2>6, <1>2 DEF PutCharForce
    <3>4. QED
      BY <1>4, <3>2, <3>3
  <2>7. QED
    BY <2>5, <2>6
<1>5. QED
  BY <1>3, <1>4

(* rt_ringbuffer_putchar appends its byte, or changes nothing when full. *)
LEMMA PutCharOK ==
  ASSUME NEW B, NEW rb, RingOK(B, rb), NEW ch \in B
  PROVE  /\ RingOK(B, PutChar(rb, ch))
         /\ Contents(PutChar(rb, ch)) =
              IF DataLen(rb) < RingSize THEN Append(Contents(rb), ch)
                                        ELSE Contents(rb)
<1>1. <<ch>> \in Seq(B) /\ Len(<<ch>>) = 1
  OBVIOUS
<1>2. DataLen(rb) \in Nat /\ DataLen(rb) <= RingSize /\ SpaceLen(rb) = RingSize - DataLen(rb)
  BY Lengths, RingAssumption DEF SpaceLen
<1>3. /\ RingOK(B, Put(rb, <<ch>>))
      /\ Contents(Put(rb, <<ch>>)) =
           Contents(rb) \o SubSeq(<<ch>>, 1, Least(SpaceLen(rb), 1))
  BY <1>1, PutOK
<1>4. Contents(rb) \in Seq(Content(B))
  BY ContentsProperties
<1>5. CASE DataLen(rb) < RingSize
  <2>1. Least(SpaceLen(rb), 1) = 1
    BY <1>2, <1>5, RingAssumption DEF Least
  <2>2. SubSeq(<<ch>>, 1, 1) = <<ch>>
    BY <1>1, SubSeqFull
  <2>3. Contents(rb) \o <<ch>> = Append(Contents(rb), ch)
    BY <1>4, AppendIsConcat DEF Content
  <2>4. QED
    BY <2>1, <2>2, <2>3, <1>3, <1>5, PutCharIsPut
<1>6. CASE ~(DataLen(rb) < RingSize)
  <2>1. SpaceLen(rb) = 0
    BY <1>2, <1>6, RingAssumption
  <2>2. PutChar(rb, ch) = rb
    BY <2>1 DEF PutChar
  <2>3. QED
    BY <2>2, <1>6
<1>7. QED
  BY <1>5, <1>6

(* getchar. *)
LEMMA GetCharOK ==
  ASSUME NEW B, NEW rb, RingOK(B, rb), DataLen(rb) # 0
  PROVE  /\ RingOK(B, GetChar(rb))
         /\ DataLen(GetChar(rb)) = DataLen(rb) - 1
         /\ GotChar(rb) = Head(Contents(rb))
         /\ Contents(GetChar(rb)) = Tail(Contents(rb))
<1>1. DataLen(rb) \in Nat /\ Least(DataLen(rb), 1) = 1
  BY Lengths, RingAssumption DEF Least
<1>2. /\ RingOK(B, Get(rb, 1)) /\ DataLen(Get(rb, 1)) = DataLen(rb) - 1
      /\ Contents(Get(rb, 1)) = SubSeq(Contents(rb), 2, Len(Contents(rb)))
  <2>1. /\ RingOK(B, Get(rb, 1)) /\ DataLen(Get(rb, 1)) = DataLen(rb) - Least(DataLen(rb), 1)
        /\ Contents(Get(rb, 1)) = SubSeq(Contents(rb), Least(DataLen(rb), 1) + 1, Len(Contents(rb)))
    BY GetOK
  <2>2. QED
    BY <2>1, <1>1
<1>3. /\ Contents(rb) \in Seq(Content(B)) /\ Len(Contents(rb)) = DataLen(rb)
      /\ Contents(rb)[1] = CellAt(rb, 1)
  BY <1>1, ContentsProperties
<1>4. Contents(rb) # <<>>
  BY <1>3, EmptySeq
<1>5. Tail(Contents(rb)) = SubSeq(Contents(rb), 2, Len(Contents(rb)))
  BY <1>3, <1>4, TailIsSubSeq
<1>6. GotChar(rb) = Contents(rb)[1]
  <2>1. rb.rd + 1 - 1 < RingSize /\ rb.rd + 1 - 1 = rb.rd
    BY FieldTypes, RingAssumption
  <2>2. QED
    BY <2>1, <1>3 DEF GotChar, CellAt
<1>7. Head(Contents(rb)) = Contents(rb)[1]
  BY <1>3, <1>4, HeadTailProperties
<1>8. QED
  BY <1>2, <1>5, <1>6, <1>7, GetCharIsGet

(* rt_ringbuffer_putchar_force always appends, and drops the oldest when full. *)
LEMMA PutCharForceOK ==
  ASSUME NEW B, NEW rb, RingOK(B, rb), NEW ch \in B
  PROVE  /\ RingOK(B, PutCharForce(rb, ch))
         /\ Contents(PutCharForce(rb, ch)) =
              IF DataLen(rb) < RingSize THEN Append(Contents(rb), ch)
                                        ELSE Append(Tail(Contents(rb)), ch)
<1>1. CASE DataLen(rb) < RingSize
  BY <1>1, PutCharForceIs, PutCharOK
<1>2. CASE ~(DataLen(rb) < RingSize)
  <2>1. DataLen(rb) = RingSize /\ DataLen(rb) # 0
    BY <1>2, Lengths, RingAssumption
  <2>2. /\ RingOK(B, GetChar(rb)) /\ DataLen(GetChar(rb)) = RingSize - 1
        /\ Contents(GetChar(rb)) = Tail(Contents(rb))
    BY <2>1, GetCharOK
  <2>3. DataLen(GetChar(rb)) < RingSize
    BY <2>2, RingAssumption
  <2>4. QED
    BY <2>2, <2>3, <1>2, PutCharForceIs, PutCharOK
<1>3. QED
  BY <1>1, <1>2

-----------------------------------------------------------------------------
(* The pipe: what its threads hold, and where they are. *)
PipeTypes ==
  /\ file \in [Users -> [mode : {"closed", "rd", "wr", "rdwr"},
                         nonblock : BOOLEAN]]
  /\ pcp \in [Users -> {"idle", "try", "wake", "add", "suspend", "asleep",
                        "retry", "done"}]
  /\ op \in [Users -> {"read", "write"}]
  /\ want \in [Users -> Nat]
  /\ left \in [Users -> Seq(Byte)]
  /\ last \in Byte

(* The ring is there as long as anybody has the pipe open, and a thread
   inside read or write has. *)
RingInv == /\ fifo # NoRing => RingOK(Byte, fifo)
           /\ \A t \in Users : IsOpen(t) => fifo # NoRing
           /\ \A t \in Users : pcp[t] # "idle" => IsOpen(t)

(* Only a thread that is writing has something left to write. *)
LeftInv == \A t \in Users :
             \/ pcp[t] \in {"idle", "done"}
             \/ posix /\ op[t] = "read"
             => left[t] = <<>>

PipeInv == PipeTypes /\ RingInv /\ LeftInv

ChannelStep == [PipeChannel!ChannelNext]_(PipeChannel!vars)

HeldBytes(f) == IF f = NoRing THEN <<>> ELSE Contents(f)

-----------------------------------------------------------------------------
(* A ring is told from the absence of one. *)
LEMMA NotNoRing ==
  ASSUME NEW rb, RingOK(Byte, rb)
  PROVE  rb # NoRing
<1>1. rb.rd \in Nat
  BY FieldTypes
<1>2. NoRing.rd = -1
  BY DEF NoRing
<1>3. QED
  BY <1>1, <1>2

(* The block of a write is a sequence of n bytes. *)
LEMMA BlockType ==
  ASSUME last \in Byte, NEW n \in Nat
  PROVE  /\ Block(n) \in Seq(Byte) /\ Len(Block(n)) = n
         /\ n # 0 => Block(n)[n] \in Byte /\ Block(n) # <<>>
<1>1. \A k \in 1 .. n : 1 + ((last + k - 1) % LastByte) \in Byte
  BY PipeAssumption DEF Byte
<1>2. Block(n) \in [1 .. n -> Byte]
  BY <1>1 DEF Block
<1>3. Block(n) \in Seq(Byte) /\ Len(Block(n)) = n
  BY <1>2, SeqDef, LenProperties
<1>4. QED
  BY <1>2, <1>3, EmptySeq

(* A wake-up moves at most a sleeping thread, and only to its next turn. *)
LEMMA WokenStaysInside ==
  ASSUME NEW q, NEW pc \in [Users -> {"idle", "try", "wake", "add", "suspend",
                                      "asleep", "retry", "done"}]
  PROVE  /\ WokenPc(q, pc) \in [Users -> {"idle", "try", "wake", "add", "suspend",
                                          "asleep", "retry", "done"}]
         /\ \A t \in Users : \/ WokenPc(q, pc)[t] = pc[t]
                             \/ pc[t] = "asleep" /\ WokenPc(q, pc)[t] = "retry"
  BY DEF WokenPc

(* What the ring lemmas say of the channel. *)
LEMMA HeldIsSeq ==
  ASSUME PipeInv
  PROVE  HeldBytes(fifo) \in Seq(Content(Byte)) /\ Len(HeldBytes(fifo)) \in Nat
<1>1. CASE fifo = NoRing
  BY <1>1, EmptySeq DEF HeldBytes
<1>2. CASE fifo # NoRing
  BY <1>2, ContentsProperties, LenProperties DEF HeldBytes, PipeInv, RingInv
<1>3. QED
  BY <1>1, <1>2

-----------------------------------------------------------------------------
(* Steps that move no bytes. *)
LEMMA QuietStep ==
  ASSUME fifo' = fifo, left' = left, got' = <<>>
  PROVE  ChannelStep
  BY DEF ChannelStep, PipeChannel!ChannelNext, PipeChannel!Forget

(* Steps that empty the channel with its ring. *)
LEMMA DropStep ==
  ASSUME HeldBytes(fifo') = <<>>, left' = left, got' = <<>>
  PROVE  ChannelStep
  BY DEF ChannelStep, PipeChannel!ChannelNext, PipeChannel!Drop, HeldBytes

(* A created pipe is an empty channel. *)
LEMMA InitInv == PipeInit => PipeInv /\ PipeChannel!ChannelInit
<1> SUFFICES ASSUME PipeInit PROVE PipeInv /\ PipeChannel!ChannelInit
  OBVIOUS
<1>1. PipeTypes
  BY PipeAssumption, EmptySeq DEF PipeInit, PipeTypes, Closed, Byte
<1>2. RingInv
  BY DEF PipeInit, RingInv, IsOpen, Closed
<1>3. LeftInv
  BY DEF PipeInit, LeftInv
<1>4. PipeChannel!ChannelInit
  BY DEF PipeInit, PipeChannel!ChannelInit
<1>5. QED
  BY <1>1, <1>2, <1>3, <1>4 DEF PipeInv

(* pipe_fops_open: the first open makes an empty ring, later ones move nothing. *)
LEMMA OpenFileOK ==
  ASSUME PipeInv, NEW t \in Users, NEW mode \in Modes[t], NEW nonblock \in BOOLEAN,
         OpenFile(t, mode, nonblock)
  PROVE  PipeInv' /\ ChannelStep
<1> USE DEF PipeInv
<1>1. mode \in {"rd", "wr", "rdwr"}
  BY PipeAssumption
<1>2. PipeTypes'
  BY <1>1 DEF PipeTypes, OpenFile
<1>3. fifo' # NoRing => RingOK(Byte, fifo')
  BY EmptyRingOK DEF OpenFile, RingInv
<1>4. fifo' # NoRing
  BY EmptyRingOK, NotNoRing DEF OpenFile, RingInv, RefCount
<1>5. \A u \in Users : pcp'[u] # "idle" => IsOpen(u)'
  BY <1>1 DEF OpenFile, RingInv, IsOpen, PipeTypes
<1>6. LeftInv'
  BY DEF LeftInv, OpenFile
<1>7. ChannelStep
  <2>1. CASE RefCount = {}
    BY <2>1, EmptyRingOK, DropStep DEF OpenFile, HeldBytes
  <2>2. CASE RefCount # {}
    BY <2>2, QuietStep DEF OpenFile
  <2>3. QED
    BY <2>1, <2>2
<1>8. QED
  BY <1>2, <1>3, <1>4, <1>5, <1>6, <1>7 DEF RingInv

(* pipe_fops_close: the last close drops the ring, earlier ones move nothing. *)
LEMMA CloseFileOK ==
  ASSUME PipeInv, NEW t \in Users, CloseFile(t)
  PROVE  PipeInv' /\ ChannelStep
<1> USE DEF PipeInv
<1> DEFINE Pcs == {"idle", "try", "wake", "add", "suspend", "asleep", "retry", "done"}
           Woken(a, b) == (a = b) \/ (a = "asleep" /\ b = "retry")
<1>1. pcp' \in [Users -> Pcs] /\ \A u \in Users : Woken(pcp[u], pcp'[u])
  <2> DEFINE awake == IF writers' = 0 THEN WokenPc("read", pcp) ELSE pcp
  <2>0. pcp \in [Users -> Pcs]
    BY DEF PipeTypes
  <2>1. awake \in [Users -> Pcs] /\ \A u \in Users : Woken(pcp[u], awake[u])
    <3>1. CASE writers' = 0
      BY <3>1, <2>0, WokenStaysInside
    <3>2. CASE writers' # 0
      BY <3>2, <2>0
    <3>3. QED
      BY <3>1, <3>2
  <2>2. pcp' = IF readers' = 0 THEN WokenPc("write", awake) ELSE awake
    BY DEF CloseFile
  <2> HIDE DEF awake
  <2>3. QED
    BY <2>1, <2>2, WokenStaysInside
<1>2. PipeTypes'
  BY <1>1 DEF PipeTypes, CloseFile, Closed
<1>3. fifo' # NoRing => RingOK(Byte, fifo')
  BY DEF CloseFile, RingInv
<1>4. pcp[t] = "idle" /\ IsOpen(t) /\ file' = [file EXCEPT ![t] = Closed]
  BY DEF CloseFile
<1>5. \A u \in Users : IsOpen(u)' => u # t /\ IsOpen(u)
  BY <1>4 DEF IsOpen, Closed, PipeTypes
<1>6. \A u \in Users : IsOpen(u)' => fifo' # NoRing
  BY <1>4, <1>5 DEF RefCount, CloseFile, RingInv
<1>7. \A u \in Users : pcp'[u] # "idle" => IsOpen(u)'
  <2> SUFFICES ASSUME NEW u \in Users, pcp'[u] # "idle" PROVE IsOpen(u)'
    OBVIOUS
  <2>1. pcp[u] # "idle"
    BY <1>1
  <2>2. u # t /\ IsOpen(u)
    BY <2>1, <1>4 DEF RingInv
  <2>3. QED
    BY <2>2, <1>4 DEF IsOpen, PipeTypes
<1>8. LeftInv'
  <2>1. left' = left /\ op' = op /\ posix' = posix
    BY DEF CloseFile
  <2>2. QED
    BY <1>1, <2>1 DEF LeftInv
<1>9. ChannelStep
  <2>1. CASE RefCount = {t}
    BY <2>1, DropStep DEF CloseFile, HeldBytes
  <2>2. CASE RefCount # {t}
    BY <2>2, QuietStep DEF CloseFile
  <2>3. QED
    BY <2>1, <2>2
<1>10. QED
  BY <1>2, <1>3, <1>6, <1>7, <1>8, <1>9 DEF RingInv

-----------------------------------------------------------------------------
(* Steps of a thread inside read or write that leave the files and the ring
   alone, and its own block. *)
LEMMA InsideOK ==
  ASSUME PipeInv, NEW t \in Users, pcp[t] # "idle",
         UNCHANGED <<posix, fifo, file, op, left, last>>, got' = <<>>,
         PipeTypes', pcp'[t] # pcp[t], pcp'[t] \in {"idle", "done"} => left[t] = <<>>,
         \A u \in Users \ {t} : (pcp'[u] = pcp[u]) \/ (pcp[u] = "asleep" /\ pcp'[u] = "retry")
  PROVE  PipeInv' /\ ChannelStep
<1> USE DEF PipeInv
<1>1. IsOpen(t)
  BY DEF RingInv
<1>2. \A u \in Users : IsOpen(u)' <=> IsOpen(u)
  BY DEF IsOpen
<1>3. RingInv'
  BY <1>1, <1>2 DEF RingInv
<1>4. LeftInv'
  BY DEF LeftInv
<1>5. ChannelStep
  BY QuietStep
<1>6. QED
  BY <1>3, <1>4, <1>5

(* The wake-up of the other side moves no bytes. *)
LEMMA WakeOtherOK ==
  ASSUME PipeInv, NEW t \in Users, WakeOther(t)
  PROVE  PipeInv' /\ ChannelStep
<1> USE DEF PipeInv
<1> DEFINE after == IF pcp[t] = "wake" THEN "add" ELSE "idle"
           on == [pcp EXCEPT ![t] = after]
           q == OtherSide(op[t])
<1>1. on \in [Users -> {"idle", "try", "wake", "add", "suspend", "asleep",
                        "retry", "done"}]
  BY DEF PipeTypes
<1>2. /\ pcp' = WokenPc(q, on)
      /\ UNCHANGED <<posix, fifo, file, op, want, left, last>> /\ got' = <<>>
      /\ pcp[t] \in {"wake", "done"}
  BY DEF WakeOther
<1>3. on[t] = after /\ \A u \in Users \ {t} : on[u] = pcp[u]
  BY DEF PipeTypes
<1>4. /\ pcp' \in [Users -> {"idle", "try", "wake", "add", "suspend", "asleep",
                             "retry", "done"}]
      /\ \A u \in Users : (pcp'[u] = on[u]) \/ (on[u] = "asleep" /\ pcp'[u] = "retry")
  <2> HIDE DEF on, q
  <2>1. QED
    BY <1>1, <1>2, WokenStaysInside
<1>5. PipeTypes'
  BY <1>2, <1>4 DEF PipeTypes
<1>6. pcp'[t] = after
  BY <1>3, <1>4
<1>7. \A u \in Users \ {t} : (pcp'[u] = pcp[u]) \/ (pcp[u] = "asleep" /\ pcp'[u] = "retry")
  BY <1>3, <1>4
<1>8. after \in {"idle", "done"} => left[t] = <<>>
  BY <1>2 DEF LeftInv
<1>9. pcp[t] # "idle" /\ pcp'[t] # pcp[t]
  BY <1>2, <1>6
<1>10. QED
  BY <1>2, <1>5, <1>6, <1>7, <1>8, <1>9, InsideOK

(* rt_wqueue_add moves no bytes. *)
LEMMA AddWaiterOK ==
  ASSUME PipeInv, NEW t \in Users, AddWaiter(t)
  PROVE  PipeInv' /\ ChannelStep
<1> USE DEF PipeInv
<1>1. PipeTypes'
  BY DEF AddWaiter, PipeTypes
<1>2. pcp'[t] = "suspend" /\ \A u \in Users \ {t} : pcp'[u] = pcp[u]
  BY DEF AddWaiter, PipeTypes
<1>3. pcp[t] = "add" /\ UNCHANGED <<posix, fifo, file, op, left, last>> /\ got' = <<>>
  BY DEF AddWaiter
<1>4. QED
  BY <1>1, <1>2, <1>3, InsideOK

(* The suspension moves no bytes. *)
LEMMA SuspendOK ==
  ASSUME PipeInv, NEW t \in Users, Suspend(t)
  PROVE  PipeInv' /\ ChannelStep
<1> USE DEF PipeInv
<1>1. PipeTypes'
  BY DEF Suspend, PipeTypes
<1>2. pcp'[t] = "asleep" /\ \A u \in Users \ {t} : pcp'[u] = pcp[u]
  BY DEF Suspend, PipeTypes
<1>3. pcp[t] = "suspend" /\ UNCHANGED <<posix, fifo, file, op, left, last>> /\ got' = <<>>
  BY DEF Suspend
<1>4. QED
  BY <1>1, <1>2, <1>3, InsideOK

(* pipe_fops_read up to the mutex moves no bytes. *)
LEMMA ReadStartOK ==
  ASSUME PipeInv, NEW t \in Users, NEW n \in 1 .. RingSize, ReadStart(t, n)
  PROVE  PipeInv' /\ ChannelStep
<1> USE DEF PipeInv
<1>1. PipeTypes'
  BY RingAssumption DEF ReadStart, PipeTypes
<1>2. /\ posix /\ pcp[t] = "idle" /\ Reads(file[t].mode)
      /\ pcp' = [pcp EXCEPT ![t] = "try"] /\ op' = [op EXCEPT ![t] = "read"]
      /\ UNCHANGED <<posix, fifo, file, left>> /\ got' = <<>>
  BY DEF ReadStart
<1>3. IsOpen(t)
  BY <1>2 DEF Reads, IsOpen
<1>4. \A u \in Users : IsOpen(u)' <=> IsOpen(u)
  BY <1>2 DEF IsOpen
<1>5. RingInv'
  BY <1>2, <1>3, <1>4 DEF RingInv, PipeTypes
<1>6. LeftInv'
  <2> SUFFICES ASSUME NEW u \in Users,
                      \/ pcp'[u] \in {"idle", "done"}
                      \/ posix' /\ op'[u] = "read"
               PROVE  left'[u] = <<>>
    BY DEF LeftInv
  <2>1. CASE u = t
    BY <2>1, <1>2 DEF LeftInv
  <2>2. CASE u # t
    BY <2>2, <1>2 DEF LeftInv, PipeTypes
  <2>3. QED
    BY <2>1, <2>2
<1>7. ChannelStep
  BY <1>2, QuietStep
<1>8. QED
  BY <1>1, <1>5, <1>6, <1>7

-----------------------------------------------------------------------------
(* Steps that move bytes. *)
LEMMA ReceiveStep ==
  ASSUME PipeInv, fifo # NoRing, NEW n \in Nat,
         fifo' = Get(fifo, n), got' = Got(fifo, n), left' = left
  PROVE  ChannelStep /\ RingOK(Byte, fifo') /\ fifo' # NoRing
<1> DEFINE m == Least(DataLen(fifo), n)
<1>1. RingOK(Byte, fifo)
  BY DEF PipeInv, RingInv
<1>2. DataLen(fifo) \in Nat
  BY <1>1, Lengths, RingAssumption
<1>3. m \in 0 .. DataLen(fifo)
  BY <1>2 DEF Least
<1>4. /\ RingOK(Byte, fifo')
      /\ got' = SubSeq(Contents(fifo), 1, m)
      /\ Contents(fifo') = SubSeq(Contents(fifo), m + 1, Len(Contents(fifo)))
  BY <1>1, GetOK
<1>5. fifo' # NoRing
  BY <1>4, NotNoRing
<1>6. Contents(fifo) \in Seq(Content(Byte)) /\ Len(Contents(fifo)) = DataLen(fifo)
  BY <1>1, ContentsProperties
<1>7. ChannelStep
  <2>1. CASE m = 0
    <3>1. got' = <<>>
      <4>1. SubSeq(Contents(fifo), 1, 0) = <<>>
        BY <1>6
      <4>2. QED
        BY <1>4, <2>1, <4>1
    <3>2. fifo' = fifo
      BY <2>1 DEF Get, GetLen
    <3>3. QED
      BY <3>1, <3>2, QuietStep
  <2>2. CASE m # 0
    <3>1. m \in 1 .. Len(Contents(fifo))
      BY <2>2, <1>2, <1>3, <1>6
    <3>2. PipeChannel!Receive
      <4> HIDE DEF m
      <4>1. QED
        BY <1>4, <1>5, <3>1 DEF PipeChannel!Receive
    <3>3. QED
      BY <3>2 DEF ChannelStep, PipeChannel!ChannelNext
  <2>3. QED
    BY <2>1, <2>2
<1>8. QED
  BY <1>4, <1>5, <1>7

(* A writer with nothing left takes up a block. *)
LEMMA StartStep ==
  ASSUME PipeInv, NEW t \in Users, left[t] = <<>>, NEW block \in Seq(Byte),
         block # <<>>, left' = [left EXCEPT ![t] = block],
         fifo' = fifo, got' = <<>>
  PROVE  ChannelStep
<1>1. /\ left'[t] = block
      /\ \A u \in Users \ {t} : left'[u] = left[u]
  BY DEF PipeInv, PipeTypes
<1>2. PipeChannel!Write(t)
  BY <1>1 DEF PipeChannel!Write
<1>3. QED
  BY <1>2 DEF ChannelStep, PipeChannel!ChannelNext

(* rt_ringbuffer_put of what is left sends a prefix of it; the rest is kept or
   given up. *)
LEMMA SendStep ==
  ASSUME PipeInv, NEW t \in Users, fifo # NoRing,
         fifo' = Put(fifo, left[t]), got' = <<>>,
         \/ left' = [left EXCEPT ![t] = <<>>]
         \/ left' = [left EXCEPT ![t] =
                       SubSeq(@, PutLen(fifo, left[t]) + 1, Len(@))]
  PROVE  ChannelStep /\ RingOK(Byte, fifo') /\ fifo' # NoRing
<1> DEFINE n == PutLen(fifo, left[t])
           held == Contents(fifo)
<1>1. RingOK(Byte, fifo) /\ left[t] \in Seq(Byte) /\ left \in [Users -> Seq(Byte)]
  BY DEF PipeInv, RingInv, PipeTypes
<1>2. /\ DataLen(fifo) \in Nat /\ SpaceLen(fifo) \in Nat
      /\ DataLen(fifo) + SpaceLen(fifo) = RingSize
      /\ Len(left[t]) \in Nat
  BY <1>1, Lengths, RingAssumption, LenProperties DEF SpaceLen
<1>3. n \in 0 .. Len(left[t]) /\ n <= SpaceLen(fifo)
  BY <1>2 DEF PutLen, Least
<1>4. held \in Seq(Content(Byte)) /\ Len(held) = DataLen(fifo)
  BY <1>1, ContentsProperties
<1>5. RingOK(Byte, fifo') /\ Contents(fifo') = held \o SubSeq(left[t], 1, n)
  BY <1>1, PutOK DEF PutLen
<1>6. fifo' # NoRing
  BY <1>5, NotNoRing
<1>7. Len(held) + n <= RingSize
  BY <1>2, <1>3, <1>4
<1>8. ChannelStep
  <2>1. CASE left' = [left EXCEPT ![t] = <<>>]
    <3>1. PipeChannel!SendSome(t)
      <4> HIDE DEF n, held
      <4>1. QED
        BY <1>3, <1>5, <1>6, <1>7, <2>1 DEF PipeChannel!SendSome, held
    <3>2. QED
      BY <3>1 DEF ChannelStep, PipeChannel!ChannelNext
  <2>2. CASE left' = [left EXCEPT ![t] = SubSeq(@, n + 1, Len(@))] /\ n = 0
    <3>1. SubSeq(left[t], 1, Len(left[t])) = left[t]
      BY <1>1
    <3>2. left' = left
      BY <1>1, <2>2, <3>1
    <3>3. SubSeq(left[t], 1, 0) = <<>>
      BY <1>1
    <3>4. Contents(fifo') = Contents(fifo)
      BY <1>4, <1>5, <2>2, <3>3
    <3>5. PipeChannel!Forget
      BY <1>6, <3>2, <3>4 DEF PipeChannel!Forget
    <3>6. QED
      BY <3>5 DEF ChannelStep, PipeChannel!ChannelNext
  <2>3. CASE left' = [left EXCEPT ![t] = SubSeq(@, n + 1, Len(@))] /\ n # 0
    <3>1. n \in 1 .. Len(left[t])
      BY <1>2, <1>3, <2>3
    <3>2. PipeChannel!Send(t)
      <4> HIDE DEF n, held
      <4>1. QED
        BY <3>1, <1>5, <1>6, <1>7, <2>3 DEF PipeChannel!Send, held
    <3>3. QED
      BY <3>2 DEF ChannelStep, PipeChannel!ChannelNext
  <2>4. QED
    BY <2>1, <2>2, <2>3
<1>9. QED
  BY <1>5, <1>6, <1>8

(* A turn of pipe_fops_read receives the oldest bytes or none. *)
LEMMA ReadTryOK ==
  ASSUME PipeInv, NEW t \in Users, ReadTry(t)
  PROVE  PipeInv' /\ ChannelStep
<1> USE DEF PipeInv
<1> DEFINE Pcs == {"idle", "try", "wake", "add", "suspend", "asleep", "retry", "done"}
           idle == [pcp EXCEPT ![t] = "idle"]
           EndOfFile == /\ pcp' = idle /\ want' = [want EXCEPT ![t] = 0]
                        /\ got' = <<>> /\ UNCHANGED <<fifo, waiting>>
           SomeBytes == /\ got' = Got(fifo, want[t]) /\ fifo' = Get(fifo, want[t])
                        /\ pcp' = WokenPc("write", idle)
                        /\ want' = [want EXCEPT ![t] = 0]
           NoBytes == /\ pcp' = [pcp EXCEPT ![t] = IF file[t].nonblock THEN "idle" ELSE "wake"]
                      /\ want' = IF file[t].nonblock THEN [want EXCEPT ![t] = 0] ELSE want
                      /\ got' = <<>> /\ UNCHANGED <<fifo, waiting>>
<1>1. /\ posix /\ pcp[t] \in {"try", "retry"} /\ op[t] = "read"
      /\ UNCHANGED <<posix, file, op, left, last>>
  BY DEF ReadTry
<1>2. IsOpen(t) /\ fifo # NoRing /\ left[t] = <<>>
  BY <1>1 DEF RingInv, LeftInv
<1>3. EndOfFile \/ SomeBytes \/ NoBytes
  BY DEF ReadTry
<1>4. /\ pcp' \in [Users -> Pcs]
      /\ \A u \in Users \ {t} : (pcp'[u] = pcp[u]) \/ (pcp[u] = "asleep" /\ pcp'[u] = "retry")
      /\ want' \in [Users -> Nat]
  <2>1. CASE EndOfFile
    BY <2>1 DEF PipeTypes
  <2>2. CASE SomeBytes
    <3>1. idle \in [Users -> Pcs] /\ \A u \in Users \ {t} : idle[u] = pcp[u]
      BY DEF PipeTypes
    <3>2. /\ WokenPc("write", idle) \in [Users -> Pcs]
          /\ \A u \in Users : \/ WokenPc("write", idle)[u] = idle[u]
                              \/ idle[u] = "asleep" /\ WokenPc("write", idle)[u] = "retry"
      <4> HIDE DEF idle
      <4>1. QED
        BY <3>1, WokenStaysInside
    <3>3. want' \in [Users -> Nat]
      BY <2>2 DEF PipeTypes
    <3>4. QED
      BY <2>2, <3>1, <3>2, <3>3
  <2>3. CASE NoBytes
    BY <2>3 DEF PipeTypes
  <2>4. QED
    BY <1>3, <2>1, <2>2, <2>3
<1>5. PipeTypes'
  BY <1>1, <1>4 DEF PipeTypes
<1>6. /\ ChannelStep /\ RingOK(Byte, fifo') /\ fifo' # NoRing
  <2>1. CASE SomeBytes
    <3>1. want[t] \in Nat
      BY DEF PipeTypes
    <3>2. QED
      BY <1>1, <1>2, <2>1, <3>1, ReceiveStep
  <2>2. CASE EndOfFile \/ NoBytes
    BY <1>1, <1>2, <2>2, QuietStep DEF RingInv
  <2>3. QED
    BY <1>3, <2>1, <2>2
<1>7. \A u \in Users : IsOpen(u)' <=> IsOpen(u)
  BY <1>1 DEF IsOpen
<1>8. \A u \in Users : pcp'[u] # "idle" => IsOpen(u)
  BY <1>2, <1>4 DEF RingInv
<1>9. RingInv'
  BY <1>6, <1>7, <1>8 DEF RingInv
<1>10. LeftInv'
  BY <1>1, <1>2, <1>4 DEF LeftInv
<1>11. QED
  BY <1>5, <1>6, <1>9, <1>10

(* A write begins only after the previous one of the same thread is over. *)
LEMMA WriteStartOK ==
  ASSUME PipeInv, NEW t \in Users, NEW n \in 1 .. MaxBlock,
         WriteStart(t, n) \/ DeviceWriteStart(t, n)
  PROVE  PipeInv' /\ ChannelStep
<1> USE DEF PipeInv
<1> DEFINE block == Block(n)
<1>1. n \in Nat /\ n # 0 /\ last \in Byte
  BY PipeAssumption DEF PipeTypes
<1>2. block \in Seq(Byte) /\ block # <<>> /\ block[n] \in Byte
  BY <1>1, BlockType
<1>3. /\ pcp[t] = "idle" /\ pcp' = [pcp EXCEPT ![t] = "try"]
      /\ left' = [left EXCEPT ![t] = block] /\ last' = block[n] /\ got' = <<>>
      /\ UNCHANGED <<posix, fifo, file, want>>
      /\ \/ op' = [op EXCEPT ![t] = "write"]
         \/ op' = op /\ ~posix
  BY DEF WriteStart, DeviceWriteStart
<1>4. IsOpen(t)
  BY DEF WriteStart, DeviceWriteStart, Writes, IsOpen
<1> HIDE DEF block
<1>5. PipeTypes'
  BY <1>2, <1>3 DEF PipeTypes
<1>6. \A u \in Users : IsOpen(u)' <=> IsOpen(u)
  BY <1>3 DEF IsOpen
<1>7. pcp'[t] = "try" /\ \A u \in Users \ {t} : pcp'[u] = pcp[u] /\ op'[u] = op[u]
                                               /\ left'[u] = left[u]
  BY <1>3 DEF PipeTypes
<1>8. RingInv'
  BY <1>3, <1>4, <1>6, <1>7 DEF RingInv
<1>9. ~(posix' /\ op'[t] = "read")
  BY <1>3 DEF PipeTypes
<1>10. LeftInv'
  <2> SUFFICES ASSUME NEW u \in Users,
                      pcp'[u] \in {"idle", "done"} \/ (posix' /\ op'[u] = "read")
               PROVE  left'[u] = <<>>
    BY DEF LeftInv
  <2>1. u # t
    BY <1>7, <1>9
  <2>2. QED
    BY <1>3, <1>7, <2>1 DEF LeftInv
<1>11. left[t] = <<>>
  BY <1>3 DEF LeftInv
<1>12. ChannelStep
  BY <1>2, <1>3, <1>11, StartStep
<1>13. QED
  BY <1>5, <1>8, <1>10, <1>12

(* A turn of pipe_fops_write sends a prefix of what is left, or gives up. *)
LEMMA WriteTryOK ==
  ASSUME PipeInv, NEW t \in Users, WriteTry(t)
  PROVE  PipeInv' /\ ChannelStep
<1> USE DEF PipeInv
<1> DEFINE n == PutLen(fifo, left[t])
           rest == SubSeq(left[t], n + 1, Len(left[t]))
<1>1. /\ posix /\ pcp[t] \in {"try", "retry"} /\ op[t] = "write" /\ got' = <<>>
      /\ UNCHANGED <<posix, file, op, want, last>>
  BY DEF WriteTry
<1>2. IsOpen(t) /\ fifo # NoRing /\ RingOK(Byte, fifo) /\ left[t] \in Seq(Byte)
  BY <1>1 DEF RingInv, PipeTypes
<1>3. n \in Nat
  BY <1>2, Lengths, LenProperties, RingAssumption DEF PutLen, Least
<1>4. rest \in Seq(Byte)
  BY <1>2, <1>3
<1>5. \/ /\ left' = [left EXCEPT ![t] = <<>>]
         /\ pcp' = [pcp EXCEPT ![t] = "done"] \/ pcp' = [pcp EXCEPT ![t] = "idle"]
         /\ fifo' = fifo \/ fifo' = Put(fifo, left[t])
      \/ /\ left' = [left EXCEPT ![t] = rest]
         /\ pcp' = [pcp EXCEPT ![t] = "wake"]
         /\ fifo' = Put(fifo, left[t])
  BY <1>1 DEF WriteTry
<1>6. PipeTypes' /\ \A u \in Users \ {t} : pcp'[u] = pcp[u] /\ left'[u] = left[u]
  <2>1. \E to \in {"done", "idle", "wake"} : pcp' = [pcp EXCEPT ![t] = to]
    BY <1>5
  <2>2. \E b \in Seq(Byte) : left' = [left EXCEPT ![t] = b]
    BY <1>4, <1>5, EmptySeq
  <2>3. /\ left' \in [Users -> Seq(Byte)]
        /\ \A u \in Users \ {t} : left'[u] = left[u]
    BY <2>2 DEF PipeTypes
  <2>4. QED
    BY <1>1, <2>1, <2>3 DEF PipeTypes
<1>7. pcp'[t] \in {"done", "idle"} => left'[t] = <<>>
  <2> HIDE DEF rest
  <2>1. QED
    BY <1>5 DEF PipeTypes
<1>8. ChannelStep /\ RingOK(Byte, fifo') /\ fifo' # NoRing
  <2>1. CASE fifo' = Put(fifo, left[t])
    BY <1>1, <1>2, <1>5, <2>1, SendStep
  <2>2. CASE fifo' = fifo /\ left' = [left EXCEPT ![t] = <<>>]
    <3>1. PipeChannel!SendSome(t)
      <4>1. SubSeq(left[t], 1, 0) = <<>>
        BY <1>2
      <4>2. /\ Contents(fifo) \in Seq(Content(Byte))
            /\ Len(Contents(fifo)) = DataLen(fifo) /\ DataLen(fifo) \in 0 .. RingSize
        BY <1>2, ContentsProperties, Lengths
      <4>3. Contents(fifo) \o <<>> = Contents(fifo)
        BY <4>2
      <4>4. Len(left[t]) \in Nat
        BY <1>2, LenProperties
      <4>5. Len(Contents(fifo)) + 0 <= RingSize /\ 0 \in 0 .. Len(left[t])
        BY <4>2, <4>4, RingAssumption
      <4>6. QED
        BY <1>1, <1>2, <2>2, <4>1, <4>3, <4>5 DEF PipeChannel!SendSome
    <3>2. QED
      BY <1>2, <2>2, <3>1 DEF ChannelStep, PipeChannel!ChannelNext
  <2>3. QED
    BY <1>5, <2>1, <2>2
<1>9. \A u \in Users : IsOpen(u)' <=> IsOpen(u)
  BY <1>1 DEF IsOpen
<1>10. RingInv'
  BY <1>2, <1>6, <1>8, <1>9 DEF RingInv
<1>11. LeftInv'
  BY <1>1, <1>6, <1>7 DEF LeftInv
<1>12. QED
  BY <1>6, <1>8, <1>10, <1>11

-----------------------------------------------------------------------------
(* The device of a build without files. *)
LEMMA DeviceOpenOK ==
  ASSUME PipeInv, NEW t \in Users, DeviceOpen(t)
  PROVE  PipeInv' /\ ChannelStep
<1> USE DEF PipeInv
<1>1. PipeTypes'
  BY DEF PipeTypes, DeviceOpen
<1>2. RingOK(Byte, fifo') /\ fifo' # NoRing
  BY EmptyRingOK, NotNoRing DEF DeviceOpen, RingInv
<1>3. \A u \in Users : IsOpen(u) => IsOpen(u)'
  BY DEF DeviceOpen, IsOpen, PipeTypes
<1>4. RingInv'
  BY <1>2, <1>3 DEF RingInv, DeviceOpen
<1>5. LeftInv'
  BY DEF LeftInv, DeviceOpen
<1>6. ChannelStep
  <2>1. CASE fifo = NoRing
    BY <2>1, EmptyRingOK, DropStep DEF DeviceOpen, HeldBytes
  <2>2. CASE fifo # NoRing
    BY <2>2, QuietStep DEF DeviceOpen
  <2>3. QED
    BY <2>1, <2>2
<1>7. QED
  BY <1>1, <1>4, <1>5, <1>6

(* rt_pipe_close drops the ring or leaves it. *)
LEMMA DeviceCloseOK ==
  ASSUME PipeInv, NEW t \in Users, DeviceClose(t)
  PROVE  PipeInv' /\ ChannelStep
<1> USE DEF PipeInv
<1>1. PipeTypes'
  BY DEF PipeTypes, DeviceClose, Closed
<1>2. /\ pcp[t] = "idle" /\ file' = [file EXCEPT ![t] = Closed]
      /\ UNCHANGED <<posix, pcp, op, left>> /\ got' = <<>>
      /\ (RefCount = {t} /\ fifo' = NoRing) \/ fifo' = fifo
  BY DEF DeviceClose
<1>3. \A u \in Users : IsOpen(u)' <=> u # t /\ IsOpen(u)
  BY <1>2 DEF IsOpen, Closed, PipeTypes
<1>4. \A u \in Users : IsOpen(u)' => fifo' # NoRing
  BY <1>2, <1>3 DEF RefCount, RingInv
<1>5. RingInv'
  BY <1>2, <1>3, <1>4 DEF RingInv
<1>6. LeftInv'
  BY <1>2 DEF LeftInv
<1>7. ChannelStep
  BY <1>2, QuietStep, DropStep DEF HeldBytes
<1>8. QED
  BY <1>1, <1>5, <1>6, <1>7

(* rt_pipe_read receives the oldest bytes or none. *)
LEMMA DeviceReadOK ==
  ASSUME PipeInv, NEW t \in Users, NEW n \in 1 .. RingSize, DeviceRead(t, n)
  PROVE  PipeInv' /\ ChannelStep
<1> USE DEF PipeInv
<1>1. n \in Nat /\ fifo # NoRing
  BY RingAssumption DEF DeviceRead, RingInv
<1>2. /\ UNCHANGED <<posix, file, pcp, op, want, left, last>>
      /\ fifo' = Get(fifo, n) /\ got' = Got(fifo, n)
  BY DEF DeviceRead
<1>3. ChannelStep /\ RingOK(Byte, fifo') /\ fifo' # NoRing
  BY <1>1, <1>2, ReceiveStep
<1>4. PipeTypes' /\ LeftInv'
  BY <1>2 DEF PipeTypes, LeftInv
<1>5. \A u \in Users : IsOpen(u)' <=> IsOpen(u)
  BY <1>2 DEF IsOpen
<1>6. RingInv'
  BY <1>2, <1>3, <1>5 DEF RingInv
<1>7. QED
  BY <1>3, <1>4, <1>6

(* rt_pipe_write sends what fits and gives up the rest. *)
LEMMA DeviceWriteOK ==
  ASSUME PipeInv, NEW t \in Users, DeviceWrite(t)
  PROVE  PipeInv' /\ ChannelStep
<1> USE DEF PipeInv
<1>1. /\ ~posix /\ pcp[t] = "try" /\ got' = <<>>
      /\ UNCHANGED <<posix, file, op, want, last>>
      /\ fifo' = Put(fifo, left[t])
      /\ left' = [left EXCEPT ![t] = <<>>] /\ pcp' = [pcp EXCEPT ![t] = "idle"]
  BY DEF DeviceWrite
<1>2. fifo # NoRing
  BY <1>1 DEF RingInv
<1>3. ChannelStep /\ RingOK(Byte, fifo') /\ fifo' # NoRing
  BY <1>1, <1>2, SendStep
<1>4. PipeTypes'
  BY <1>1, EmptySeq DEF PipeTypes
<1>5. \A u \in Users : IsOpen(u)' <=> IsOpen(u)
  BY <1>1 DEF IsOpen
<1>6. RingInv'
  BY <1>1, <1>3, <1>5 DEF RingInv, PipeTypes
<1>7. LeftInv'
  BY <1>1 DEF LeftInv, PipeTypes
<1>8. QED
  BY <1>3, <1>4, <1>6, <1>7

(* A step that leaves the pipe alone leaves the channel alone. *)
LEMMA StutterOK ==
  ASSUME PipeInv, UNCHANGED pipeVars
  PROVE  PipeInv' /\ ChannelStep
<1>1. UNCHANGED <<posix, fifo, file, pcp, op, want, left, got, last>>
  BY DEF pipeVars
<1>2. PipeInv'
  BY <1>1 DEF PipeInv, PipeTypes, RingInv, LeftInv, IsOpen
<1>3. ChannelStep
  BY <1>1 DEF ChannelStep, PipeChannel!vars
<1>4. QED
  BY <1>2, <1>3

(* Who may open with O_NONBLOCK may also do without. *)
LEMMA NonblockType ==
  ASSUME NEW t, NEW nonblock \in {FALSE, (t \in Impatient)}
  PROVE  nonblock \in BOOLEAN
<1>1. CASE t \in Impatient
  <2>1. (t \in Impatient) = TRUE
    BY <1>1
  <2>2. QED
    BY <2>1
<1>2. CASE t \notin Impatient
  <2>1. (t \in Impatient) = FALSE
    BY <1>2
  <2>2. QED
    BY <2>1
<1>3. QED
  BY <1>1, <1>2

(* Every step keeps the invariant and is a step of the channel or none. *)
LEMMA StepOK ==
  ASSUME PipeInv, [PipeNext]_pipeVars
  PROVE  PipeInv' /\ ChannelStep
<1>1. CASE UNCHANGED pipeVars
  BY <1>1, StutterOK
<1>2. ASSUME NEW t \in Users, PipeStep(t)
      PROVE  PipeInv' /\ ChannelStep
  BY <1>2, ReadTryOK, WriteTryOK, WakeOtherOK, AddWaiterOK, SuspendOK, DeviceWriteOK
     DEF PipeStep
<1>3. ASSUME NEW t \in Users, NEW mode \in Modes[t],
             NEW nonblock \in {FALSE, (t \in Impatient)}, OpenFile(t, mode, nonblock)
      PROVE  PipeInv' /\ ChannelStep
  <2>1. nonblock \in BOOLEAN
    BY NonblockType
  <2>2. QED
    BY <1>3, <2>1, OpenFileOK
<1>4. ASSUME NEW t \in Users, CloseFile(t) \/ DeviceOpen(t) \/ DeviceClose(t)
      PROVE  PipeInv' /\ ChannelStep
  BY <1>4, CloseFileOK, DeviceOpenOK, DeviceCloseOK
<1>5. ASSUME NEW t \in Users, NEW n \in 1 .. MaxBlock,
             WriteStart(t, n) \/ DeviceWriteStart(t, n)
      PROVE  PipeInv' /\ ChannelStep
  BY <1>5, WriteStartOK
<1>6. ASSUME NEW t \in Users, NEW n \in 1 .. RingSize,
             ReadStart(t, n) \/ DeviceRead(t, n)
      PROVE  PipeInv' /\ ChannelStep
  BY <1>6, ReadStartOK, DeviceReadOK
<1>7. QED
  BY <1>1, <1>2, <1>3, <1>4, <1>5, <1>6 DEF PipeNext

-----------------------------------------------------------------------------
(* The invariant is enough for the ring to be a FIFO. *)
LEMMA RingFollows ==
  ASSUME PipeInv
  PROVE  RingIsFifo
<1> SUFFICES ASSUME fifo # NoRing PROVE RingIsFifo
  BY DEF RingIsFifo
<1> DEFINE held == Contents(fifo)
<1>1. RingOK(Byte, fifo) /\ last \in Byte
  BY DEF PipeInv, RingInv, PipeTypes
<1>2. /\ held \in Seq(Content(Byte)) /\ Len(held) = DataLen(fifo)
      /\ DataLen(fifo) \in Nat /\ DataLen(fifo) <= RingSize
      /\ SpaceLen(fifo) = RingSize - DataLen(fifo)
      /\ SpaceLen(fifo) \in Nat
  BY <1>1, Lengths, ContentsProperties, RingAssumption DEF SpaceLen
<1>3. DataLen(fifo) + SpaceLen(fifo) = RingSize
  BY <1>2, RingAssumption
<1>4. ASSUME NEW n \in 1 .. RingSize + 1
      PROVE  LET block == Block(n)
                 room == Least(RingSize - Len(held), n)
                 taken == Least(n, Len(held))
             IN  /\ IsRing(Put(fifo, block))
                 /\ Contents(Put(fifo, block)) = held \o FirstOf(block, room)
                 /\ Got(fifo, n) = FirstOf(held, taken)
                 /\ Contents(Get(fifo, n)) = RestOf(held, taken)
                 /\ n <= RingSize - Len(held) =>
                      Contents(PutForce(fifo, block)) = held \o block
  <2> DEFINE block == Block(n)
  <2>1. n \in Nat
    BY RingAssumption
  <2>2. block \in Seq(Byte) /\ Len(block) = n
    BY <1>1, <2>1, BlockType
  <2> HIDE DEF block, held
  <2>3. /\ RingOK(Byte, Put(fifo, block))
        /\ Contents(Put(fifo, block)) =
             Contents(fifo) \o SubSeq(block, 1, Least(SpaceLen(fifo), Len(block)))
    BY <1>1, <2>2, PutOK
  <2>4. Least(SpaceLen(fifo), Len(block)) = Least(RingSize - Len(held), n)
    BY <1>2, <2>2
  <2>5. IsRing(Put(fifo, block))
    BY <2>3 DEF RingOK, IsRing
  <2>6. Least(n, Len(held)) = Least(DataLen(fifo), n)
    BY <1>2, <2>1 DEF Least
  <2>7. /\ Got(fifo, n) = SubSeq(Contents(fifo), 1, Least(DataLen(fifo), n))
        /\ Contents(Get(fifo, n)) =
             SubSeq(Contents(fifo), Least(DataLen(fifo), n) + 1, Len(Contents(fifo)))
    BY <1>1, <2>1, GetOK
  <2>8. n <= RingSize - Len(held) => Contents(PutForce(fifo, block)) = Contents(fifo) \o block
    BY <1>1, <1>2, <2>2, PutForceOK
  <2>9. QED
    BY <2>3, <2>4, <2>5, <2>6, <2>7, <2>8 DEF FirstOf, RestOf, held, block
<1>5. ASSUME NEW b \in Byte
      PROVE  /\ Contents(PutChar(fifo, b)) =
                  (IF Len(held) < RingSize THEN Append(held, b) ELSE held)
             /\ Contents(PutCharForce(fifo, b)) =
                  (IF Len(held) < RingSize THEN Append(held, b)
                                          ELSE Append(Tail(held), b))
  BY <1>1, <1>2, PutCharOK, PutCharForceOK
<1>6. held # <<>> => /\ GotChar(fifo) = Head(held)
                     /\ Contents(GetChar(fifo)) = Tail(held)
  <2>1. held # <<>> => DataLen(fifo) # 0
    BY <1>2, EmptySeq
  <2>2. QED
    BY <1>1, <2>1, GetCharOK
<1>7. Contents(Reset(fifo)) = <<>>
  BY <1>1, ResetOK
<1>8. QED
  BY <1>3, <1>4, <1>5, <1>6, <1>7 DEF RingIsFifo

-----------------------------------------------------------------------------
(* Every ring operation does to the ring of the pipe what it would do to a
   sequence, wherever its indices and mirrors stand (rt_ringbuffer_put, _get,
   _putchar, _getchar and their forced forms, _reset). *)
THEOREM PipeRingIsFifo == PipeSpec => []RingIsFifo
<1>1. PipeInit => PipeInv
  BY InitInv
<1>2. PipeInv /\ [PipeNext]_pipeVars => PipeInv'
  BY StepOK
<1>3. PipeInv => RingIsFifo
  BY RingFollows
<1>4. QED
  BY <1>1, <1>2, <1>3, PTL DEF PipeSpec

(* The reads, writes, opens and closes of pipe.c, blocking or not, make of
   the pipe a channel: no byte is duplicated or reordered, and
   none is lost but with the ring. *)
THEOREM PipeImplementsChannel == PipeSpec => PipeIsChannel
<1>1. PipeInit => PipeInv /\ PipeChannel!ChannelInit
  BY InitInv
<1>2. PipeInv /\ [PipeNext]_pipeVars =>
        PipeInv' /\ [PipeChannel!ChannelNext]_(PipeChannel!vars)
  BY StepOK DEF ChannelStep
<1>3. QED
  BY <1>1, <1>2, PTL DEF PipeSpec, PipeIsChannel, PipeChannel!Channel

-----------------------------------------------------------------------------
(* Who has the file open for reading, and for writing. *)
ReadersOf == {t \in Users : Reads(file[t].mode)}
WritersOf == {t \in Users : Writes(file[t].mode)}

(* In a build with files, pipe->readers and pipe->writers count them; in one
   without, nobody gets as far as a wait. *)
Counts == IF posix THEN readers = Cardinality(ReadersOf) /\ writers = Cardinality(WritersOf)
                   ELSE readers = 0 /\ writers = 0

OnlyFilesWait == ~posix => \A t \in Users : pcp[t] \in {"idle", "try"}

(* The types PipeInv leaves out. *)
OtherTypes ==
  /\ posix \in BOOLEAN
  /\ waiting \in [{"read", "write"} -> Seq(Users)]
  /\ want \in [Users -> 0 .. RingSize]
  /\ HeldBytes(fifo) \in Seq(Byte) /\ got \in Seq(Byte)

FileInv == PipeInv /\ Counts /\ OnlyFilesWait /\ OtherTypes

(* A wake-up removes the first of a queue, if there is one. *)
LEMMA WokenQueueType ==
  ASSUME waiting \in [{"read", "write"} -> Seq(Users)], NEW q \in {"read", "write"}
  PROVE  WokenQueue(q) \in [{"read", "write"} -> Seq(Users)]
<1>1. CASE waiting[q] = <<>>
  BY <1>1 DEF WokenQueue
<1>2. CASE waiting[q] # <<>>
  <2>1. Tail(waiting[q]) \in Seq(Users)
    BY <1>2
  <2> QED
    BY <1>2, <2>1 DEF WokenQueue
<1> QED
  BY <1>1, <1>2

(* The channel holds, and hands over, what the writers have had to write. *)
LEMMA ChannelBytes ==
  ASSUME PipeInv, HeldBytes(fifo) \in Seq(Byte), got \in Seq(Byte), ChannelStep
  PROVE  HeldBytes(fifo)' \in Seq(Byte) /\ got' \in Seq(Byte)
<1> DEFINE chan == HeldBytes(fifo)
           after == HeldBytes(fifo)'
<1>1. \A t \in Users : left[t] \in Seq(Byte)
  BY DEF PipeInv, PipeTypes
<1>2. <<>> \in Seq(Byte)
  BY EmptySeq
<1>3. ASSUME NEW s \in Seq(Byte), NEW n \in 0 .. Len(s)
      PROVE  SubSeq(s, 1, n) \in Seq(Byte) /\ SubSeq(s, n + 1, Len(s)) \in Seq(Byte)
  OBVIOUS
<1>4. \/ \E t \in Users : \E n \in 0 .. Len(left[t]) :
           after = chan \o SubSeq(left[t], 1, n) /\ got' = <<>>
      \/ \E n \in 1 .. Len(chan) :
           got' = SubSeq(chan, 1, n) /\ after = SubSeq(chan, n + 1, Len(chan))
      \/ after = chan /\ (got' = <<>> \/ got' = got)
      \/ after = <<>> /\ got' = <<>>
  <2>1. CASE UNCHANGED PipeChannel!vars
    BY <2>1 DEF PipeChannel!vars, HeldBytes
  <2>2. ASSUME NEW t \in Users, PipeChannel!Write(t)
        PROVE  after = chan /\ got' = <<>>
    BY <2>2 DEF PipeChannel!Write, HeldBytes
  <2>3. ASSUME NEW t \in Users, PipeChannel!Send(t) \/ PipeChannel!SendSome(t)
        PROVE  \E n \in 0 .. Len(left[t]) : after = chan \o SubSeq(left[t], 1, n) /\ got' = <<>>
    <3>1. \A n \in 1 .. Len(left[t]) : n \in 0 .. Len(left[t])
      BY <1>1
    <3> QED
      BY <2>3, <3>1 DEF PipeChannel!Send, PipeChannel!SendSome, HeldBytes
  <2>4. CASE PipeChannel!Receive
    BY <2>4 DEF PipeChannel!Receive, HeldBytes
  <2>5. CASE PipeChannel!Forget \/ PipeChannel!Drop
    BY <2>5 DEF PipeChannel!Forget, PipeChannel!Drop, HeldBytes
  <2> QED
    BY <2>1, <2>2, <2>3, <2>4, <2>5 DEF ChannelStep, PipeChannel!ChannelNext
<1> HIDE DEF chan, after
<1>5. chan \in Seq(Byte)
  BY DEF chan
<1>6. ASSUME NEW t \in Users, NEW n \in 0 .. Len(left[t]),
             after = chan \o SubSeq(left[t], 1, n), got' = <<>>
      PROVE  after \in Seq(Byte) /\ got' \in Seq(Byte)
  <2>1. SubSeq(left[t], 1, n) \in Seq(Byte)
    BY <1>1, <1>3
  <2> QED
    BY <1>2, <1>5, <1>6, <2>1
<1>7. ASSUME NEW n \in 1 .. Len(chan),
             got' = SubSeq(chan, 1, n), after = SubSeq(chan, n + 1, Len(chan))
      PROVE  after \in Seq(Byte) /\ got' \in Seq(Byte)
  <2>1. n \in 0 .. Len(chan)
    BY <1>5
  <2> QED
    BY <1>3, <1>5, <1>7, <2>1
<1>8. after \in Seq(Byte) /\ got' \in Seq(Byte)
  BY <1>2, <1>4, <1>5, <1>6, <1>7
<1> QED
  BY <1>8 DEF after

(* The counts follow the files. *)
LEMMA CountsOpen ==
  ASSUME PipeInv, Counts, NEW t \in Users, NEW mode \in Modes[t], NEW nonblock \in BOOLEAN,
         OpenFile(t, mode, nonblock)
  PROVE  Counts'
<1>1. /\ posix /\ posix' = posix /\ ~Reads(file[t].mode) /\ ~Writes(file[t].mode)
      /\ file' = [file EXCEPT ![t] = [mode |-> mode, nonblock |-> nonblock]]
      /\ readers' = readers + (IF Reads(mode) THEN 1 ELSE 0)
      /\ writers' = writers + (IF Writes(mode) THEN 1 ELSE 0)
  BY DEF OpenFile, IsOpen, Reads, Writes
<1>2. file'[t].mode = mode /\ \A u \in Users \ {t} : file'[u] = file[u]
  BY <1>1 DEF PipeInv, PipeTypes
<1>3. /\ ReadersOf' = IF Reads(mode) THEN ReadersOf \cup {t} ELSE ReadersOf
      /\ WritersOf' = IF Writes(mode) THEN WritersOf \cup {t} ELSE WritersOf
      /\ t \notin ReadersOf /\ t \notin WritersOf
  BY <1>1, <1>2 DEF ReadersOf, WritersOf
<1>4. IsFiniteSet(ReadersOf) /\ IsFiniteSet(WritersOf)
  BY PipeAssumption, FS_Subset DEF ReadersOf, WritersOf
<1>5. /\ Cardinality(ReadersOf \cup {t}) = Cardinality(ReadersOf) + 1
      /\ Cardinality(WritersOf \cup {t}) = Cardinality(WritersOf) + 1
      /\ Cardinality(ReadersOf) \in Nat /\ Cardinality(WritersOf) \in Nat
  BY <1>3, <1>4, FS_AddElement, FS_CardinalityType
<1>6. readers = Cardinality(ReadersOf) /\ writers = Cardinality(WritersOf)
  BY <1>1 DEF Counts
<1>7. readers' = Cardinality(ReadersOf')
  <2>1. CASE Reads(mode)
    BY <1>1, <1>3, <1>5, <1>6, <2>1
  <2>2. CASE ~Reads(mode)
    BY <1>1, <1>3, <1>5, <1>6, <2>2
  <2> QED
    BY <2>1, <2>2
<1>8. writers' = Cardinality(WritersOf')
  <2>1. CASE Writes(mode)
    BY <1>1, <1>3, <1>5, <1>6, <2>1
  <2>2. CASE ~Writes(mode)
    BY <1>1, <1>3, <1>5, <1>6, <2>2
  <2> QED
    BY <2>1, <2>2
<1> QED
  BY <1>1, <1>7, <1>8 DEF Counts

(* A close takes off what the open of the same file has added. *)
LEMMA CountsClose ==
  ASSUME PipeInv, Counts, NEW t \in Users, CloseFile(t)
  PROVE  Counts'
<1> DEFINE mode == file[t].mode
<1>1. /\ posix /\ posix' = posix /\ file' = [file EXCEPT ![t] = Closed]
      /\ readers' = readers - (IF Reads(mode) THEN 1 ELSE 0)
      /\ writers' = writers - (IF Writes(mode) THEN 1 ELSE 0)
  BY DEF CloseFile
<1>2. ~Reads(file'[t].mode) /\ ~Writes(file'[t].mode) /\ \A u \in Users \ {t} : file'[u] = file[u]
  BY <1>1 DEF PipeInv, PipeTypes, Closed, Reads, Writes
<1>3. /\ ReadersOf' = ReadersOf \ {t} /\ WritersOf' = WritersOf \ {t}
      /\ Reads(mode) <=> t \in ReadersOf
      /\ Writes(mode) <=> t \in WritersOf
  BY <1>1, <1>2 DEF ReadersOf, WritersOf
<1>4. IsFiniteSet(ReadersOf) /\ IsFiniteSet(WritersOf)
  BY PipeAssumption, FS_Subset DEF ReadersOf, WritersOf
<1>5. /\ Cardinality(ReadersOf \ {t}) =
           IF t \in ReadersOf THEN Cardinality(ReadersOf) - 1 ELSE Cardinality(ReadersOf)
      /\ Cardinality(WritersOf \ {t}) =
           IF t \in WritersOf THEN Cardinality(WritersOf) - 1 ELSE Cardinality(WritersOf)
      /\ Cardinality(ReadersOf) \in Nat /\ Cardinality(WritersOf) \in Nat
  BY <1>3, <1>4, FS_RemoveElement, FS_CardinalityType
<1>6. readers = Cardinality(ReadersOf) /\ writers = Cardinality(WritersOf)
  BY <1>1 DEF Counts
<1> HIDE DEF mode
<1>7. readers' = Cardinality(ReadersOf')
  <2>1. CASE t \in ReadersOf
    BY <1>1, <1>3, <1>5, <1>6, <2>1
  <2>2. CASE t \notin ReadersOf
    BY <1>1, <1>3, <1>5, <1>6, <2>2
  <2> QED
    BY <2>1, <2>2
<1>8. writers' = Cardinality(WritersOf')
  <2>1. CASE t \in WritersOf
    BY <1>1, <1>3, <1>5, <1>6, <2>1
  <2>2. CASE t \notin WritersOf
    BY <1>1, <1>3, <1>5, <1>6, <2>2
  <2> QED
    BY <2>1, <2>2
<1> QED
  BY <1>1, <1>7, <1>8 DEF Counts

(* Every other step leaves files and counts alone, or has none to count. *)
LEMMA CountsKept ==
  ASSUME Counts, posix' = posix, UNCHANGED <<readers, writers>>, posix => file' = file
  PROVE  Counts'
<1>1. posix => ReadersOf' = ReadersOf /\ WritersOf' = WritersOf
  BY DEF ReadersOf, WritersOf
<1> QED
  BY <1>1 DEF Counts

(* A pipe just created. *)
LEMMA FileInit == PipeInit => FileInv
<1> SUFFICES ASSUME PipeInit PROVE FileInv
  OBVIOUS
<1>1. readers = 0 /\ writers = 0 /\ ReadersOf = {} /\ WritersOf = {}
  BY DEF PipeInit, ReadersOf, WritersOf, Closed, Reads, Writes
<1>2. Counts
  BY <1>1, FS_EmptySet DEF Counts
<1>3. OtherTypes
  BY RingAssumption, EmptySeq DEF PipeInit, OtherTypes, HeldBytes
<1>4. OnlyFilesWait
  BY DEF PipeInit, OnlyFilesWait
<1> QED
  BY <1>2, <1>3, <1>4, InitInv DEF FileInv

(* The steps change the queues, the bytes asked for and the build by their
   types, the counts with the files, and wait only with files. *)
LEMMA FileParts ==
  ASSUME FileInv, PipeNext
  PROVE  /\ posix' = posix /\ Counts' /\ OnlyFilesWait'
         /\ waiting' \in [{"read", "write"} -> Seq(Users)]
         /\ want' \in [Users -> 0 .. RingSize]
<1> DEFINE Good == /\ posix' = posix /\ Counts' /\ OnlyFilesWait'
                   /\ waiting' \in [{"read", "write"} -> Seq(Users)]
                   /\ want' \in [Users -> 0 .. RingSize]
<1>0. /\ PipeInv /\ Counts /\ OnlyFilesWait
      /\ waiting \in [{"read", "write"} -> Seq(Users)]
      /\ want \in [Users -> 0 .. RingSize]
      /\ op \in [Users -> {"read", "write"}]
      /\ 0 \in 0 .. RingSize
  BY RingAssumption DEF FileInv, OtherTypes, PipeInv, PipeTypes
<1>1. ASSUME NEW t \in Users, NEW mode \in Modes[t],
             NEW nonblock \in {FALSE, (t \in Impatient)}, OpenFile(t, mode, nonblock)
      PROVE  Good
  <2>1. nonblock \in BOOLEAN
    BY NonblockType
  <2>2. Counts'
    BY <1>0, <1>1, <2>1, CountsOpen
  <2>3. posix /\ UNCHANGED <<posix, waiting, want>>
    BY <1>1 DEF OpenFile
  <2> QED
    BY <1>0, <2>2, <2>3 DEF OnlyFilesWait
<1>2. ASSUME NEW t \in Users, CloseFile(t)
      PROVE  Good
  <2>1. Counts'
    BY <1>0, <1>2, CountsClose
  <2>2. posix /\ UNCHANGED <<posix, want>>
        /\ waiting' = [q \in {"read", "write"} |->
                         IF (IF q = "read" THEN writers' ELSE readers') = 0
                         THEN WokenQueue(q)[q] ELSE waiting[q]]
    BY <1>2 DEF CloseFile
  <2>3. \A q \in {"read", "write"} : WokenQueue(q)[q] \in Seq(Users) /\ waiting[q] \in Seq(Users)
    BY <1>0, WokenQueueType
  <2>4. waiting' \in [{"read", "write"} -> Seq(Users)]
    BY <2>2, <2>3
  <2> QED
    BY <1>0, <2>1, <2>2, <2>4 DEF OnlyFilesWait
<1>3. ASSUME NEW t \in Users, ReadTry(t)
      PROVE  Good
  <2>1. posix /\ UNCHANGED <<posix, readers, writers, file>>
    BY <1>3 DEF ReadTry
  <2>2. waiting' = waiting \/ waiting' = WokenQueue("write")
    BY <1>3 DEF ReadTry
  <2>3. want' = want \/ want' = [want EXCEPT ![t] = 0]
    BY <1>3 DEF ReadTry
  <2> QED
    BY <1>0, <2>1, <2>2, <2>3, CountsKept, WokenQueueType DEF OnlyFilesWait
<1>4. ASSUME NEW t \in Users, WriteTry(t)
      PROVE  Good
  <2>1. posix /\ UNCHANGED <<posix, readers, writers, file, waiting, want>>
    BY <1>4 DEF WriteTry
  <2> QED
    BY <1>0, <2>1, CountsKept DEF OnlyFilesWait
<1>5. ASSUME NEW t \in Users, WakeOther(t)
      PROVE  Good
  <2>1. posix
    BY <1>0, <1>5 DEF WakeOther, OnlyFilesWait
  <2>2. /\ UNCHANGED <<posix, readers, writers, file, want>>
        /\ waiting' = WokenQueue(OtherSide(op[t]))
    BY <1>5 DEF WakeOther
  <2>3. OtherSide(op[t]) \in {"read", "write"}
    BY DEF OtherSide
  <2> QED
    BY <1>0, <2>1, <2>2, <2>3, CountsKept, WokenQueueType DEF OnlyFilesWait
<1>6. ASSUME NEW t \in Users, AddWaiter(t) \/ Suspend(t)
      PROVE  Good
  <2>1. posix
    BY <1>0, <1>6 DEF AddWaiter, Suspend, OnlyFilesWait
  <2>2. UNCHANGED <<posix, readers, writers, file, want>>
    BY <1>6 DEF AddWaiter, Suspend
  <2>3. waiting' \in [{"read", "write"} -> Seq(Users)]
    <3>1. waiting' = waiting \/ waiting' = [waiting EXCEPT ![op[t]] = Append(@, t)]
      BY <1>6 DEF AddWaiter, Suspend
    <3>2. op[t] \in {"read", "write"} /\ Append(waiting[op[t]], t) \in Seq(Users)
      BY <1>0
    <3> QED
      BY <1>0, <3>1, <3>2
  <2> QED
    BY <1>0, <2>1, <2>2, <2>3, CountsKept DEF OnlyFilesWait
<1>7. ASSUME NEW t \in Users, DeviceWrite(t) \/ DeviceOpen(t) \/ DeviceClose(t)
      PROVE  Good
  <2>1. ~posix /\ UNCHANGED <<posix, readers, writers, waiting, want>>
    BY <1>7 DEF DeviceWrite, DeviceOpen, DeviceClose
  <2>2. \A u \in Users : pcp'[u] = pcp[u] \/ pcp'[u] = "idle"
    BY <1>0, <1>7 DEF DeviceWrite, DeviceOpen, DeviceClose, PipeInv, PipeTypes
  <2> QED
    BY <1>0, <2>1, <2>2, CountsKept DEF OnlyFilesWait
<1>8. ASSUME NEW t \in Users, NEW n \in 1 .. MaxBlock, WriteStart(t, n)
      PROVE  Good
  <2>1. posix /\ UNCHANGED <<posix, readers, writers, file, waiting, want>>
    BY <1>8 DEF WriteStart
  <2> QED
    BY <1>0, <2>1, CountsKept DEF OnlyFilesWait
<1>9. ASSUME NEW t \in Users, NEW n \in 1 .. MaxBlock, DeviceWriteStart(t, n)
      PROVE  Good
  <2>1. ~posix /\ UNCHANGED <<posix, readers, writers, waiting, want>>
    BY <1>9 DEF DeviceWriteStart
  <2>2. \A u \in Users : pcp'[u] = pcp[u] \/ pcp'[u] = "try"
    BY <1>9 DEF DeviceWriteStart
  <2> QED
    BY <1>0, <2>1, <2>2, CountsKept DEF OnlyFilesWait
<1>10. ASSUME NEW t \in Users, NEW n \in 1 .. RingSize, ReadStart(t, n)
      PROVE  Good
  <2>1. posix /\ UNCHANGED <<posix, readers, writers, file, waiting>>
    BY <1>10 DEF ReadStart
  <2>2. n \in 0 .. RingSize /\ want' = [want EXCEPT ![t] = n]
    BY <1>10, RingAssumption DEF ReadStart
  <2> QED
    BY <1>0, <2>1, <2>2, CountsKept DEF OnlyFilesWait
<1>11. ASSUME NEW t \in Users, NEW n \in 1 .. RingSize, DeviceRead(t, n)
      PROVE  Good
  <2>1. ~posix /\ UNCHANGED <<posix, readers, writers, waiting, want, pcp>>
    BY <1>11 DEF DeviceRead
  <2> QED
    BY <1>0, <2>1, CountsKept DEF OnlyFilesWait
<1> HIDE DEF Good
<1>12. Good
  BY <1>1, <1>2, <1>3, <1>4, <1>5, <1>6, <1>7, <1>8, <1>9, <1>10, <1>11 DEF PipeNext, PipeStep
<1> QED
  BY <1>12 DEF Good

(* The invariant with the counts holds. *)
LEMMA FileStep == FileInv /\ [PipeNext]_pipeVars => FileInv'
<1> SUFFICES ASSUME FileInv, [PipeNext]_pipeVars PROVE FileInv'
  OBVIOUS
<1>1. PipeInv' /\ ChannelStep
  BY StepOK DEF FileInv
<1>2. HeldBytes(fifo)' \in Seq(Byte) /\ got' \in Seq(Byte)
  BY <1>1, ChannelBytes DEF FileInv, OtherTypes
<1>3. CASE PipeNext
  <2>1. posix \in BOOLEAN
    BY DEF FileInv, OtherTypes
  <2> QED
    BY <1>1, <1>2, <1>3, <2>1, FileParts DEF FileInv, OtherTypes
<1>4. CASE UNCHANGED pipeVars
  <2>1. UNCHANGED <<posix, waiting, want, readers, writers, file, pcp>>
    BY <1>4 DEF pipeVars
  <2>2. Counts' /\ OnlyFilesWait'
    BY <2>1, CountsKept DEF FileInv, OnlyFilesWait
  <2>3. OtherTypes'
    <3>1. /\ posix \in BOOLEAN /\ waiting \in [{"read", "write"} -> Seq(Users)]
          /\ want \in [Users -> 0 .. RingSize]
      BY DEF FileInv, OtherTypes
    <3> QED
      BY <1>2, <2>1, <3>1 DEF OtherTypes
  <2> QED
    BY <1>1, <2>2, <2>3 DEF FileInv
<1> QED
  BY <1>3, <1>4

(* The type invariant follows. *)
LEMMA FileInvTypes == FileInv => PipeTypeOK
<1> SUFFICES ASSUME FileInv PROVE PipeTypeOK
  OBVIOUS
<1>1. PipeTypes /\ OtherTypes /\ Counts /\ RingInv
  BY DEF FileInv, PipeInv
<1>2. fifo \in Ring(Byte) \cup {NoRing}
  BY <1>1 DEF RingInv, RingOK
<1>3. readers \in Nat /\ writers \in Nat
  <2>1. IsFiniteSet(ReadersOf) /\ IsFiniteSet(WritersOf)
    BY PipeAssumption, FS_Subset DEF ReadersOf, WritersOf
  <2>2. Cardinality(ReadersOf) \in Nat /\ Cardinality(WritersOf) \in Nat
    BY <2>1, FS_CardinalityType
  <2> QED
    BY <1>1, <2>2 DEF Counts
<1> QED
  BY <1>1, <1>2, <1>3 DEF PipeTypes, OtherTypes, PipeTypeOK

-----------------------------------------------------------------------------
(* The only thread that may open for reading, more urgent than all others. *)
OneUrgentReader(r) ==
  \A u \in Users \ {r} : /\ PipePrio[r] < PipePrio[u]
                         /\ \A mode \in Modes[u] : ~Reads(mode)

InQueue(r) == op[r] = "read" /\ pcp[r] \in {"suspend", "asleep"}

(* The others only write. *)
OthersWrite(r) ==
  posix => \A u \in Users \ {r} : ~Reads(file[u].mode) /\ (pcp[u] # "idle" => op[u] = "write")

(* The reader is on the list of waiting readers, alone, from rt_wqueue_add
   until a wake-up takes it off. *)
OnReadList(r) == waiting["read"] = IF InQueue(r) THEN <<r>> ELSE <<>>

(* On its way to sleep it has found the ring empty, and nobody else runs. *)
FallsAsleep(r) == op[r] = "read" /\ pcp[r] \in {"wake", "add", "suspend"} =>
                    writers # 0 /\ ~(DataLen(fifo) > 0)

(* Asleep, it is woken for what has been written since. *)
WokenSoon(r) == Asleep(r, "read") =>
                  /\ writers # 0
                  /\ DataLen(fifo) > 0 => \E u \in Users \ {r} :
                                            op[u] = "write" /\ pcp[u] \in {"wake", "done"}

(* Waiting as a writer, it is on the other list, once. *)
OnWriteList(r) ==
  \A i \in DOMAIN waiting["write"] :
    waiting["write"][i] = r => /\ op[r] = "write" /\ pcp[r] \in {"suspend", "asleep"}
                               /\ \A j \in DOMAIN waiting["write"] :
                                    waiting["write"][j] = r => j = i

ReaderParts(r) == /\ OthersWrite(r) /\ OnReadList(r) /\ FallsAsleep(r) /\ WokenSoon(r)
                  /\ OnWriteList(r)

ReaderInv(r) == FileInv /\ ReaderParts(r)

Pcs == {"idle", "try", "wake", "add", "suspend", "asleep", "retry", "done"}

(* The first of a list goes. *)
LEMMA TailElements ==
  ASSUME NEW s \in Seq(Users), s # <<>>
  PROVE  /\ Tail(s) \in Seq(Users)
         /\ \A i \in DOMAIN Tail(s) : i + 1 \in DOMAIN s /\ Tail(s)[i] = s[i + 1]
         /\ 1 \in DOMAIN s /\ Head(s) = s[1]
         /\ \A i \in DOMAIN Tail(s) : i \in Nat /\ i # 0
  OBVIOUS

(* A wake-up of the waiting reader lets it go on; without one nothing happens. *)
LEMMA WakeReader ==
  ASSUME FileInv, NEW r \in Users, OnReadList(r), NEW pc \in [Users -> Pcs],
         pc[r] = pcp[r], pcp[r] # "suspend"
  PROVE  /\ WokenQueue("read")["read"] = <<>>
         /\ WokenQueue("read")["write"] = waiting["write"]
         /\ op[r] = "read" => WokenPc("read", pc)[r] # "asleep"
         /\ op[r] # "read" => WokenPc("read", pc)[r] = pc[r]
         /\ \A u \in Users \ {r} : WokenPc("read", pc)[u] = pc[u]
         /\ WokenPc("read", pc)[r] \in {pc[r], "retry"}
<1>1. waiting \in [{"read", "write"} -> Seq(Users)]
  BY DEF FileInv, OtherTypes
<1>2. <<r>> # <<>> /\ Head(<<r>>) = r /\ Tail(<<r>>) = <<>>
  OBVIOUS
<1>3. CASE InQueue(r)
  <2>1. waiting["read"] = <<r>> /\ pc[r] = "asleep" /\ op[r] = "read"
    BY <1>3 DEF OnReadList, InQueue
  <2>2. WokenPc("read", pc) = [pc EXCEPT ![r] = "retry"]
    BY <1>2, <2>1 DEF WokenPc
  <2>3. WokenQueue("read") = [waiting EXCEPT !["read"] = <<>>]
    BY <1>1, <1>2, <2>1 DEF WokenQueue
  <2> QED
    BY <1>1, <2>1, <2>2, <2>3
<1>4. CASE ~InQueue(r)
  <2>1. waiting["read"] = <<>> /\ (op[r] = "read" => pc[r] # "asleep")
    BY <1>4 DEF OnReadList, InQueue
  <2>2. WokenPc("read", pc) = pc /\ WokenQueue("read") = waiting
    BY <2>1 DEF WokenPc, WokenQueue
  <2> QED
    BY <2>1, <2>2
<1> QED
  BY <1>3, <1>4

(* One of the writers takes the reader only from a wait of its own as a
   writer. *)
LEMMA WakeWriter ==
  ASSUME FileInv, NEW r \in Users, OnWriteList(r), NEW pc \in [Users -> Pcs]
  PROVE  /\ WokenQueue("write")["read"] = waiting["read"]
         /\ op[r] = "read" => WokenPc("write", pc)[r] = pc[r]
         /\ \A u \in Users : \/ WokenPc("write", pc)[u] = pc[u]
                             \/ pc[u] = "asleep" /\ WokenPc("write", pc)[u] = "retry"
         /\ LET after == WokenQueue("write")["write"]
            IN  \A i \in DOMAIN after :
                  after[i] = r => /\ op[r] = "write" /\ pcp[r] \in {"suspend", "asleep"}
                                  /\ WokenPc("write", pc)[r] = pc[r]
                                  /\ \A j \in DOMAIN after : after[j] = r => j = i
<1>1. waiting \in [{"read", "write"} -> Seq(Users)]
  BY DEF FileInv, OtherTypes
<1>2. CASE waiting["write"] = <<>>
  <2>1. WokenPc("write", pc) = pc /\ WokenQueue("write") = waiting
    BY <1>2 DEF WokenPc, WokenQueue
  <2> QED
    BY <1>2, <2>1
<1>3. CASE waiting["write"] # <<>>
  <2> DEFINE s == waiting["write"]
             h == Head(s)
  <2>1. s \in Seq(Users) /\ s # <<>>
    BY <1>1, <1>3
  <2>2. WokenQueue("write") = [waiting EXCEPT !["write"] = Tail(s)]
    BY <1>3 DEF WokenQueue
  <2>3. WokenPc("write", pc) = IF pc[h] = "asleep" THEN [pc EXCEPT ![h] = "retry"] ELSE pc
    BY <1>3 DEF WokenPc
  <2>4. /\ Tail(s) \in Seq(Users)
        /\ \A i \in DOMAIN Tail(s) : i + 1 \in DOMAIN s /\ Tail(s)[i] = s[i + 1]
        /\ 1 \in DOMAIN s /\ h = s[1]
        /\ \A i \in DOMAIN Tail(s) : i \in Nat /\ i # 0
    BY <2>1, TailElements
  <2>5. \A i \in DOMAIN s : s[i] = r => /\ op[r] = "write" /\ pcp[r] \in {"suspend", "asleep"}
                                        /\ \A j \in DOMAIN s : s[j] = r => j = i
    BY DEF OnWriteList
  <2> HIDE DEF s, h
  <2>6. h = r => op[r] = "write"
    BY <2>4, <2>5
  <2>7. ASSUME NEW i \in DOMAIN Tail(s), Tail(s)[i] = r
        PROVE  /\ op[r] = "write" /\ pcp[r] \in {"suspend", "asleep"} /\ h # r
               /\ \A j \in DOMAIN Tail(s) : Tail(s)[j] = r => j = i
    <3>1. i + 1 \in DOMAIN s /\ s[i + 1] = r /\ i + 1 # 1
      BY <2>4, <2>7
    <3>2. \A j \in DOMAIN Tail(s) : Tail(s)[j] = r => j + 1 = i + 1
      BY <2>4, <2>5, <3>1
    <3> QED
      BY <2>4, <2>5, <3>1, <3>2
  <2>8. WokenQueue("write")["read"] = waiting["read"] /\ WokenQueue("write")["write"] = Tail(s)
    BY <1>1, <2>2
  <2>9. /\ \A u \in Users : \/ WokenPc("write", pc)[u] = pc[u]
                            \/ pc[u] = "asleep" /\ WokenPc("write", pc)[u] = "retry"
        /\ h # r => WokenPc("write", pc)[r] = pc[r]
    BY <2>3
  <2> QED
    BY <2>6, <2>7, <2>8, <2>9
<1> QED
  BY <1>2, <1>3

(* Another thread runs only while the reader is outside or asleep. *)
LEMMA OthersTurn ==
  ASSUME NEW r \in Users, OneUrgentReader(r), NEW t \in Users \ {r}, PipeTurn(t)
  PROVE  pcp[r] \in {"idle", "asleep"}
  BY DEF OneUrgentReader, PipeTurn

(* What a step of another thread may do to the reader: leave it where it is,
   with somebody to wake it, or let it go on. *)
LEMMA OthersStep ==
  ASSUME NEW r \in Users, ReaderInv(r), pcp[r] \in {"idle", "asleep"}, op'[r] = op[r],
         \/ /\ waiting'["read"] = waiting["read"] /\ pcp'[r] = pcp[r]
            /\ Asleep(r, "read") => WokenSoon(r)'
         \/ /\ waiting'["read"] = waiting["read"] /\ op[r] # "read"
            /\ pcp'[r] \in {pcp[r], "retry"}
         \/ /\ waiting'["read"] = <<>> /\ op[r] = "read"
            /\ pcp'[r] \in {pcp[r], "retry"} /\ pcp'[r] # "asleep"
  PROVE  OnReadList(r)' /\ FallsAsleep(r)' /\ WokenSoon(r)'
<1>1. OnReadList(r)
  BY DEF ReaderInv, ReaderParts
<1>2. OnReadList(r)'
  BY <1>1 DEF OnReadList, InQueue
<1>3. FallsAsleep(r)'
  BY DEF FallsAsleep
<1>4. WokenSoon(r)'
  BY DEF WokenSoon, Asleep
<1> QED
  BY <1>2, <1>3, <1>4

(* The reader on the list of writers, when neither changes. *)
LEMMA WriteListKept ==
  ASSUME NEW r \in Users, OnWriteList(r), waiting'["write"] = waiting["write"],
         \/ op'[r] = op[r] /\ pcp'[r] = pcp[r]
         \/ op[r] # "write"
         \/ pcp[r] \notin {"suspend", "asleep"}
  PROVE  OnWriteList(r)'
  BY DEF OnWriteList

(* The types the steps need. *)
LEMMA ReaderFacts ==
  ASSUME NEW r \in Users, ReaderInv(r)
  PROVE  /\ FileInv /\ OthersWrite(r) /\ OnReadList(r) /\ FallsAsleep(r) /\ WokenSoon(r)
         /\ OnWriteList(r)
         /\ pcp \in [Users -> Pcs] /\ op \in [Users -> {"read", "write"}]
         /\ waiting \in [{"read", "write"} -> Seq(Users)]
         /\ \A t \in Users : pcp[t] # "idle" => IsOpen(t)
         /\ ~posix => \A t \in Users : pcp[t] \in {"idle", "try"}
         /\ writers \in Nat
<1>1. FileInv
  BY DEF ReaderInv
<1>2. writers \in Nat
  BY <1>1, FileInvTypes DEF PipeTypeOK
<1> QED
  BY <1>1, <1>2 DEF ReaderInv, ReaderParts, FileInv, PipeInv, PipeTypes, RingInv, OtherTypes,
                    OnlyFilesWait, Pcs

(* Another thread opens: the reader has the file open, so the ring stays. *)
LEMMA OthersOpen ==
  ASSUME NEW r \in Users, OneUrgentReader(r), ReaderInv(r), NEW t \in Users \ {r},
         NEW mode \in Modes[t], NEW nonblock, OpenFile(t, mode, nonblock)
  PROVE  ReaderParts(r)'
<1>0. PipeTurn(t) /\ posix /\ UNCHANGED <<posix, waiting, pcp, op>>
      /\ ~Reads(mode) /\ file' = [file EXCEPT ![t] = [mode |-> mode, nonblock |-> nonblock]]
      /\ writers' = writers + (IF Writes(mode) THEN 1 ELSE 0)
      /\ fifo' = IF RefCount = {} THEN EmptyRing ELSE fifo
  BY DEF OpenFile, OneUrgentReader
<1>1. pcp[r] \in {"idle", "asleep"}
  BY <1>0, OthersTurn
<1>2. OthersWrite(r)'
  <2>1. \A u \in Users \ {r} : ~Reads(file'[u].mode)
    BY <1>0, ReaderFacts DEF OthersWrite, FileInv, PipeInv, PipeTypes
  <2> QED
    BY <1>0, <2>1, ReaderFacts DEF OthersWrite
<1>3. Asleep(r, "read") => WokenSoon(r)'
  <2> SUFFICES ASSUME Asleep(r, "read") PROVE WokenSoon(r)'
    OBVIOUS
  <2>1. fifo' = fifo
    <3>1. r \in RefCount
      BY ReaderFacts DEF Asleep, RefCount
    <3> QED
      BY <1>0, <3>1
  <2>2. writers # 0 /\ writers' # 0
    BY <1>0, ReaderFacts DEF WokenSoon
  <2> QED
    BY <1>0, <2>1, <2>2, ReaderFacts DEF WokenSoon, Asleep
<1>4. OnReadList(r)' /\ FallsAsleep(r)' /\ WokenSoon(r)'
  BY <1>0, <1>1, <1>3, OthersStep
<1>5. OnWriteList(r)'
  BY <1>0, ReaderFacts, WriteListKept
<1> QED
  BY <1>2, <1>4, <1>5 DEF ReaderParts

(* The last writer to close wakes the reader. *)
LEMMA OthersClose ==
  ASSUME NEW r \in Users, OneUrgentReader(r), ReaderInv(r), NEW t \in Users \ {r}, CloseFile(t)
  PROVE  ReaderParts(r)'
<1> DEFINE awake == IF writers' = 0 THEN WokenPc("read", pcp) ELSE pcp
<1>0. /\ PipeTurn(t) /\ posix /\ UNCHANGED <<posix, op>> /\ pcp[t] = "idle"
      /\ file' = [file EXCEPT ![t] = Closed]
      /\ fifo' = IF RefCount = {t} THEN NoRing ELSE fifo
      /\ pcp' = IF readers' = 0 THEN WokenPc("write", awake) ELSE awake
      /\ waiting' = [q \in {"read", "write"} |->
                       IF (IF q = "read" THEN writers' ELSE readers') = 0
                       THEN WokenQueue(q)[q] ELSE waiting[q]]
  BY DEF CloseFile
<1>1. pcp[r] \in {"idle", "asleep"}
  BY <1>0, OthersTurn
<1>2. /\ awake \in [Users -> Pcs]
      /\ \A u \in Users \ {r} : awake[u] = pcp[u]
      /\ writers' # 0 => awake = pcp
      /\ writers' = 0 => /\ WokenQueue("read")["read"] = <<>>
                         /\ op[r] = "read" => awake[r] # "asleep"
                         /\ op[r] # "read" => awake[r] = pcp[r]
                         /\ awake[r] \in {pcp[r], "retry"}
  <2>1. CASE writers' = 0
    <3>1. /\ WokenQueue("read")["read"] = <<>>
          /\ op[r] = "read" => WokenPc("read", pcp)[r] # "asleep"
          /\ op[r] # "read" => WokenPc("read", pcp)[r] = pcp[r]
          /\ \A u \in Users \ {r} : WokenPc("read", pcp)[u] = pcp[u]
          /\ WokenPc("read", pcp)[r] \in {pcp[r], "retry"}
      BY <1>1, ReaderFacts, WakeReader
    <3>2. WokenPc("read", pcp) \in [Users -> Pcs]
      BY ReaderFacts, WokenStaysInside DEF Pcs
    <3> QED
      BY <2>1, <3>1, <3>2
  <2>2. CASE writers' # 0
    BY <2>2, ReaderFacts
  <2> QED
    BY <2>1, <2>2
<1> HIDE DEF awake
<1>3. /\ op[r] = "read" => pcp'[r] = awake[r]
      /\ \A u \in Users : pcp'[u] = awake[u] \/ (awake[u] = "asleep" /\ pcp'[u] = "retry")
      /\ readers' # 0 => pcp' = awake
  <2>1. CASE readers' = 0
    BY <1>0, <1>2, <2>1, ReaderFacts, WakeWriter
  <2>2. CASE readers' # 0
    BY <1>0, <2>2
  <2> QED
    BY <2>1, <2>2
<1>4. OthersWrite(r)'
  <2>1. \A u \in Users \ {r} : ~Reads(file'[u].mode)
    BY <1>0, ReaderFacts DEF OthersWrite, FileInv, PipeInv, PipeTypes, Closed, Reads
  <2>2. \A u \in Users \ {r} : pcp'[u] # "idle" => pcp[u] # "idle"
    BY <1>2, <1>3
  <2> QED
    BY <1>0, <2>1, <2>2, ReaderFacts DEF OthersWrite
<1>5. OnReadList(r)' /\ FallsAsleep(r)' /\ WokenSoon(r)'
  <2>1. CASE op[r] # "read"
    <3>1. waiting["read"] = <<>>
      BY <2>1, ReaderFacts DEF OnReadList, InQueue
    <3>2. waiting'["read"] = waiting["read"]
      BY <1>0, <1>2, <3>1
    <3>3. pcp'[r] \in {pcp[r], "retry"}
      BY <1>2, <1>3, <2>1
    <3> QED
      BY <1>0, <1>1, <2>1, <3>2, <3>3, OthersStep
  <2>2. CASE op[r] = "read" /\ writers' = 0
    <3>1. /\ waiting'["read"] = <<>>
          /\ pcp'[r] \in {pcp[r], "retry"} /\ pcp'[r] # "asleep"
      BY <1>0, <1>2, <1>3, <2>2
    <3> QED
      BY <1>0, <1>1, <2>2, <3>1, OthersStep
  <2>3. CASE op[r] = "read" /\ writers' # 0
    <3>1. waiting'["read"] = waiting["read"] /\ pcp'[r] = pcp[r]
      BY <1>0, <1>2, <1>3, <2>3
    <3>2. Asleep(r, "read") => WokenSoon(r)'
      <4> SUFFICES ASSUME Asleep(r, "read") PROVE WokenSoon(r)'
        OBVIOUS
      <4>1. fifo' = fifo
        <5>1. r \in RefCount
          BY ReaderFacts DEF Asleep, RefCount
        <5> QED
          BY <1>0, <5>1
      <4>2. \A u \in Users \ {r} : pcp[u] \in {"wake", "done"} => pcp'[u] = pcp[u]
        BY <1>2, <1>3
      <4> QED
        BY <1>0, <2>3, <4>1, <4>2, ReaderFacts DEF WokenSoon, Asleep
    <3> QED
      BY <1>0, <1>1, <3>1, <3>2, OthersStep
  <2> QED
    BY <2>1, <2>2, <2>3
<1>6. OnWriteList(r)'
  <2>1. CASE readers' = 0
    <3>1. LET after == WokenQueue("write")["write"]
          IN  \A i \in DOMAIN after :
                after[i] = r => /\ op[r] = "write" /\ pcp[r] \in {"suspend", "asleep"}
                                /\ WokenPc("write", awake)[r] = awake[r]
                                /\ \A j \in DOMAIN after : after[j] = r => j = i
      BY <1>2, ReaderFacts, WakeWriter
    <3>2. waiting'["write"] = WokenQueue("write")["write"] /\ pcp' = WokenPc("write", awake)
      BY <1>0, <2>1
    <3>3. op[r] = "write" => awake[r] = pcp[r]
      BY <1>2
    <3> QED
      BY <1>0, <3>1, <3>2, <3>3 DEF OnWriteList
  <2>2. CASE readers' # 0
    <3>1. waiting'["write"] = waiting["write"] /\ (op[r] = "write" => pcp'[r] = pcp[r])
      BY <1>0, <1>2, <1>3, <2>2
    <3> QED
      BY <1>0, <3>1, ReaderFacts, WriteListKept
  <2> QED
    BY <2>1, <2>2
<1> QED
  BY <1>4, <1>5, <1>6 DEF ReaderParts

(* What another thread writes, it wakes the reader for. *)
LEMMA OthersWriteTry ==
  ASSUME NEW r \in Users, OneUrgentReader(r), ReaderInv(r), NEW t \in Users \ {r}, WriteTry(t)
  PROVE  ReaderParts(r)'
<1>0. /\ PipeTurn(t) /\ posix /\ UNCHANGED <<posix, op, waiting, file, writers>>
      /\ op[t] = "write" /\ pcp[t] # "idle"
      /\ \/ fifo' = fifo /\ pcp[t] \notin {"wake", "done"}
         \/ pcp'[t] \in {"wake", "done"}
      /\ \A u \in Users \ {t} : pcp'[u] = pcp[u]
  BY ReaderFacts DEF WriteTry
<1>1. pcp[r] \in {"idle", "asleep"} /\ pcp'[r] = pcp[r]
  BY <1>0, OthersTurn
<1>2. OthersWrite(r)'
  BY <1>0, ReaderFacts DEF OthersWrite
<1>3. Asleep(r, "read") => WokenSoon(r)'
  BY <1>0, <1>1, ReaderFacts DEF WokenSoon, Asleep
<1>4. OnReadList(r)' /\ FallsAsleep(r)' /\ WokenSoon(r)'
  BY <1>0, <1>1, <1>3, OthersStep
<1>5. OnWriteList(r)'
  BY <1>0, <1>1, ReaderFacts, WriteListKept
<1> QED
  BY <1>2, <1>4, <1>5 DEF ReaderParts

(* The wake-up another thread owes is one of the reader. *)
LEMMA OthersWakeOther ==
  ASSUME NEW r \in Users, OneUrgentReader(r), ReaderInv(r), NEW t \in Users \ {r}, WakeOther(t)
  PROVE  ReaderParts(r)'
<1> DEFINE after == IF pcp[t] = "wake" THEN "add" ELSE "idle"
           pc == [pcp EXCEPT ![t] = after]
<1>0. /\ PipeTurn(t) /\ UNCHANGED <<posix, op, file, writers, fifo>>
      /\ pcp[t] \in {"wake", "done"}
      /\ pcp' = WokenPc(OtherSide(op[t]), pc) /\ waiting' = WokenQueue(OtherSide(op[t]))
  BY DEF WakeOther
<1>1. posix /\ op[t] = "write" /\ OtherSide(op[t]) = "read"
  <2>1. posix
    BY <1>0, ReaderFacts
  <2> QED
    BY <1>0, <2>1, ReaderFacts DEF OthersWrite, OtherSide
<1>2. pcp[r] \in {"idle", "asleep"}
  BY <1>0, OthersTurn
<1>3. pc \in [Users -> Pcs] /\ pc[r] = pcp[r] /\ \A u \in Users \ {t} : pc[u] = pcp[u]
  BY ReaderFacts DEF Pcs
<1> HIDE DEF pc
<1>4. /\ waiting'["read"] = <<>> /\ waiting'["write"] = waiting["write"]
      /\ op[r] = "read" => pcp'[r] # "asleep"
      /\ op[r] # "read" => pcp'[r] = pcp[r]
      /\ \A u \in Users \ {r} : pcp'[u] = pc[u]
      /\ pcp'[r] \in {pcp[r], "retry"}
  BY <1>0, <1>1, <1>2, <1>3, ReaderFacts, WakeReader
<1>5. OthersWrite(r)'
  BY <1>0, <1>1, <1>3, <1>4, ReaderFacts DEF OthersWrite
<1>6. OnReadList(r)' /\ FallsAsleep(r)' /\ WokenSoon(r)'
  <2>1. CASE op[r] = "read"
    BY <1>0, <1>2, <1>4, <2>1, OthersStep
  <2>2. CASE op[r] # "read"
    <3>1. waiting["read"] = <<>>
      BY <2>2, ReaderFacts DEF OnReadList, InQueue
    <3> QED
      BY <1>0, <1>2, <1>4, <2>2, <3>1, OthersStep
  <2> QED
    BY <2>1, <2>2
<1>7. OnWriteList(r)'
  <2>1. op[r] # "write" \/ (op'[r] = op[r] /\ pcp'[r] = pcp[r])
    BY <1>0, <1>4
  <2> QED
    BY <1>4, <2>1, ReaderFacts, WriteListKept
<1> QED
  BY <1>5, <1>6, <1>7 DEF ReaderParts

(* The steps of another thread that concern only the writers. *)
LEMMA OthersWait ==
  ASSUME NEW r \in Users, OneUrgentReader(r), ReaderInv(r), NEW t \in Users \ {r},
         AddWaiter(t) \/ Suspend(t)
  PROVE  ReaderParts(r)'
<1>0. /\ PipeTurn(t) /\ UNCHANGED <<posix, op, file, writers, fifo>>
      /\ pcp[t] \in {"add", "suspend"} /\ pcp'[t] # "idle"
      /\ \A u \in Users \ {t} : pcp'[u] = pcp[u]
      /\ waiting' = waiting \/ waiting' = [waiting EXCEPT ![op[t]] = Append(@, t)]
  BY ReaderFacts DEF AddWaiter, Suspend
<1>1. posix /\ op[t] = "write"
  <2>1. posix
    BY <1>0, ReaderFacts
  <2> QED
    BY <1>0, <2>1, ReaderFacts DEF OthersWrite
<1>2. pcp[r] \in {"idle", "asleep"} /\ pcp'[r] = pcp[r]
  BY <1>0, OthersTurn
<1>3. OthersWrite(r)'
  BY <1>0, <1>1, ReaderFacts DEF OthersWrite
<1>4. waiting'["read"] = waiting["read"]
  BY <1>0, <1>1, ReaderFacts
<1>5. Asleep(r, "read") => WokenSoon(r)'
  BY <1>0, ReaderFacts DEF WokenSoon, Asleep
<1>6. OnReadList(r)' /\ FallsAsleep(r)' /\ WokenSoon(r)'
  BY <1>0, <1>2, <1>4, <1>5, OthersStep
<1>7. OnWriteList(r)'
  <2>1. CASE waiting' = waiting
    BY <1>0, <1>2, <2>1, ReaderFacts, WriteListKept
  <2>2. CASE waiting' = [waiting EXCEPT !["write"] = Append(@, t)]
    <3> DEFINE s == waiting["write"]
    <3>1. s \in Seq(Users) /\ waiting'["write"] = Append(s, t)
      BY <2>2, ReaderFacts
    <3> HIDE DEF s
    <3>2. \A i \in DOMAIN Append(s, t) : Append(s, t)[i] = r =>
            i \in DOMAIN s /\ s[i] = r
      BY <3>1
    <3>3. \A i \in DOMAIN s : s[i] = r => /\ op[r] = "write" /\ pcp[r] \in {"suspend", "asleep"}
                                          /\ \A j \in DOMAIN s : s[j] = r => j = i
      BY ReaderFacts DEF OnWriteList, s
    <3> QED
      BY <1>0, <1>2, <3>1, <3>2, <3>3 DEF OnWriteList
  <2> QED
    BY <1>0, <1>1, <2>1, <2>2
<1> QED
  BY <1>3, <1>6, <1>7 DEF ReaderParts

(* The beginning of a write of another thread. *)
LEMMA OthersWriteStart ==
  ASSUME NEW r \in Users, OneUrgentReader(r), ReaderInv(r), NEW t \in Users \ {r},
         NEW n \in 1 .. MaxBlock, WriteStart(t, n)
  PROVE  ReaderParts(r)'
<1>0. /\ PipeTurn(t) /\ posix /\ UNCHANGED <<posix, file, writers, fifo, waiting>>
      /\ pcp[t] = "idle" /\ op'[t] = "write"
      /\ \A u \in Users \ {t} : pcp'[u] = pcp[u] /\ op'[u] = op[u]
  BY ReaderFacts DEF WriteStart
<1>1. pcp[r] \in {"idle", "asleep"} /\ pcp'[r] = pcp[r] /\ op'[r] = op[r]
  BY <1>0, OthersTurn
<1>2. OthersWrite(r)'
  BY <1>0, ReaderFacts DEF OthersWrite
<1>3. Asleep(r, "read") => WokenSoon(r)'
  BY <1>0, <1>1, ReaderFacts DEF WokenSoon, Asleep
<1>4. OnReadList(r)' /\ FallsAsleep(r)' /\ WokenSoon(r)'
  BY <1>0, <1>1, <1>3, OthersStep
<1>5. OnWriteList(r)'
  BY <1>0, <1>1, ReaderFacts, WriteListKept
<1> QED
  BY <1>2, <1>4, <1>5 DEF ReaderParts

(* The device of a build without files has nobody waiting. *)
LEMMA DeviceParts ==
  ASSUME NEW r \in Users, ReaderInv(r), ~posix, posix' = posix, UNCHANGED <<waiting, op>>,
         \A u \in Users : pcp'[u] \in {"idle", "try"}
  PROVE  ReaderParts(r)'
<1>1. OthersWrite(r)' /\ FallsAsleep(r)' /\ WokenSoon(r)'
  BY DEF OthersWrite, FallsAsleep, WokenSoon, Asleep
<1>2. pcp[r] \in {"idle", "try"}
  BY ReaderFacts
<1>3. OnReadList(r)' /\ OnWriteList(r)'
  BY <1>2, ReaderFacts DEF OnReadList, InQueue, OnWriteList
<1> QED
  BY <1>1, <1>3 DEF ReaderParts

(* A step of the reader after which it is neither waiting nor about to. *)
LEMMA ReaderAwake ==
  ASSUME NEW r \in Users, waiting'["read"] = <<>>, ~InQueue(r)',
         ~(op'[r] = "read" /\ pcp'[r] \in {"wake", "add"})
  PROVE  OnReadList(r)' /\ FallsAsleep(r)' /\ WokenSoon(r)'
  BY DEF OnReadList, FallsAsleep, WokenSoon, InQueue, Asleep

(* The others keep writing whatever the reader does, if it only lets them go on. *)
LEMMA OthersStillWrite ==
  ASSUME NEW r \in Users, OthersWrite(r), posix' = posix,
         \A u \in Users \ {r} : /\ file'[u] = file[u] /\ op'[u] = op[u]
                                /\ pcp'[u] = pcp[u] \/ (pcp[u] = "asleep" /\ pcp'[u] = "retry")
  PROVE  OthersWrite(r)'
<1>1. ASSUME posix, NEW u \in Users \ {r}
      PROVE  ~Reads(file'[u].mode) /\ (pcp'[u] # "idle" => op'[u] = "write")
  <2>1. ~Reads(file[u].mode) /\ (pcp[u] # "idle" => op[u] = "write")
    BY <1>1 DEF OthersWrite
  <2>2. pcp'[u] # "idle" => pcp[u] # "idle"
    BY <1>1
  <2> QED
    BY <1>1, <2>1, <2>2
<1> QED
  BY <1>1 DEF OthersWrite

(* The reader opens, closes, or begins to read or to write. *)
LEMMA ReaderOpens ==
  ASSUME NEW r \in Users, ReaderInv(r), pcp[r] = "idle", posix' = posix,
         UNCHANGED waiting, \A u \in Users \ {r} : UNCHANGED <<file[u], op[u], pcp[u]>>,
         pcp'[r] \in {"idle", "try"}
  PROVE  ReaderParts(r)'
<1>1. waiting["read"] = <<>>
  BY ReaderFacts DEF OnReadList, InQueue
<1>2. OnReadList(r)' /\ FallsAsleep(r)' /\ WokenSoon(r)'
  BY <1>1, ReaderAwake DEF InQueue
<1>3. OthersWrite(r)'
  BY ReaderFacts, OthersStillWrite
<1>4. OnWriteList(r)'
  BY ReaderFacts, WriteListKept
<1> QED
  BY <1>2, <1>3, <1>4 DEF ReaderParts

(* The reader closes: it waits nowhere, and wakes at most a writer. *)
LEMMA ReaderCloses ==
  ASSUME NEW r \in Users, ReaderInv(r), CloseFile(r)
  PROVE  ReaderParts(r)'
<1> DEFINE awake == IF writers' = 0 THEN WokenPc("read", pcp) ELSE pcp
<1>0. /\ UNCHANGED <<posix, op>> /\ pcp[r] = "idle" /\ file' = [file EXCEPT ![r] = Closed]
      /\ pcp' = IF readers' = 0 THEN WokenPc("write", awake) ELSE awake
      /\ waiting' = [q \in {"read", "write"} |->
                       IF (IF q = "read" THEN writers' ELSE readers') = 0
                       THEN WokenQueue(q)[q] ELSE waiting[q]]
  BY DEF CloseFile
<1>1. waiting["read"] = <<>> /\ WokenPc("read", pcp) = pcp /\ WokenQueue("read") = waiting
  BY <1>0, ReaderFacts DEF OnReadList, InQueue, WokenPc, WokenQueue
<1>2. awake = pcp /\ waiting'["read"] = <<>>
  BY <1>0, <1>1
<1>3. /\ \A u \in Users : pcp'[u] = pcp[u] \/ (pcp[u] = "asleep" /\ pcp'[u] = "retry")
      /\ pcp'[r] = "idle"
      /\ \A i \in DOMAIN waiting'["write"] : waiting'["write"][i] # r
  <2>1. CASE readers' = 0
    <3>1. pcp' = WokenPc("write", pcp) /\ waiting'["write"] = WokenQueue("write")["write"]
      BY <1>0, <1>2, <2>1
    <3>2. /\ \A u \in Users : \/ WokenPc("write", pcp)[u] = pcp[u]
                              \/ pcp[u] = "asleep" /\ WokenPc("write", pcp)[u] = "retry"
          /\ LET after == WokenQueue("write")["write"]
             IN  \A i \in DOMAIN after :
                   after[i] = r => /\ op[r] = "write" /\ pcp[r] \in {"suspend", "asleep"}
                                   /\ WokenPc("write", pcp)[r] = pcp[r]
                                   /\ \A j \in DOMAIN after : after[j] = r => j = i
      BY ReaderFacts, WakeWriter
    <3> QED
      BY <1>0, <3>1, <3>2
  <2>2. CASE readers' # 0
    <3>1. pcp' = pcp /\ waiting'["write"] = waiting["write"]
      BY <1>0, <1>2, <2>2
    <3>2. \A i \in DOMAIN waiting["write"] : waiting["write"][i] # r
      BY <1>0, ReaderFacts DEF OnWriteList
    <3> QED
      BY <1>0, <3>1, <3>2
  <2> QED
    BY <2>1, <2>2
<1>4. OnReadList(r)' /\ FallsAsleep(r)' /\ WokenSoon(r)'
  BY <1>2, <1>3, ReaderAwake DEF InQueue
<1>5. OthersWrite(r)'
  <2>1. \A u \in Users \ {r} : file'[u] = file[u]
    BY <1>0, ReaderFacts DEF FileInv, PipeInv, PipeTypes
  <2> QED
    BY <1>0, <1>3, <2>1, ReaderFacts, OthersStillWrite
<1>6. OnWriteList(r)'
  BY <1>3 DEF OnWriteList
<1> QED
  BY <1>4, <1>5, <1>6 DEF ReaderParts

(* A turn of the reader: it goes to wait only for an empty ring. *)
LEMMA ReaderReadTry ==
  ASSUME NEW r \in Users, ReaderInv(r), ReadTry(r)
  PROVE  ReaderParts(r)'
<1> DEFINE idle == [pcp EXCEPT ![r] = "idle"]
<1>0. /\ UNCHANGED <<posix, op, file, writers>>
      /\ pcp[r] \in {"try", "retry"} /\ op[r] = "read"
      /\ \/ pcp' = idle /\ UNCHANGED waiting
         \/ pcp' = WokenPc("write", idle) /\ waiting' = WokenQueue("write")
         \/ /\ writers # 0 /\ DataLen(fifo) = 0 /\ fifo' = fifo
            /\ pcp' = [pcp EXCEPT ![r] = "wake"] /\ UNCHANGED waiting
  BY DEF ReadTry
<1>1. waiting["read"] = <<>> /\ \A i \in DOMAIN waiting["write"] : waiting["write"][i] # r
  BY <1>0, ReaderFacts DEF OnReadList, InQueue, OnWriteList
<1>2. idle \in [Users -> Pcs] /\ idle[r] = "idle" /\ \A u \in Users \ {r} : idle[u] = pcp[u]
  BY ReaderFacts DEF Pcs
<1> HIDE DEF idle
<1>3. CASE pcp' = idle /\ UNCHANGED waiting
  <2>1. OnReadList(r)' /\ FallsAsleep(r)' /\ WokenSoon(r)'
    BY <1>1, <1>2, <1>3, ReaderAwake DEF InQueue
  <2>2. OthersWrite(r)'
    BY <1>0, <1>2, <1>3, ReaderFacts, OthersStillWrite
  <2>3. OnWriteList(r)'
    BY <1>1, <1>3 DEF OnWriteList
  <2> QED
    BY <2>1, <2>2, <2>3 DEF ReaderParts
<1>4. CASE pcp' = WokenPc("write", idle) /\ waiting' = WokenQueue("write")
  <2>1. /\ waiting'["read"] = waiting["read"]
        /\ pcp'[r] = idle[r]
        /\ \A u \in Users : pcp'[u] = idle[u] \/ (idle[u] = "asleep" /\ pcp'[u] = "retry")
        /\ LET after == waiting'["write"]
           IN  \A i \in DOMAIN after :
                 after[i] = r => /\ op[r] = "write" /\ pcp[r] \in {"suspend", "asleep"}
                                 /\ WokenPc("write", idle)[r] = idle[r]
                                 /\ \A j \in DOMAIN after : after[j] = r => j = i
    BY <1>0, <1>2, <1>4, ReaderFacts, WakeWriter
  <2>2. OnReadList(r)' /\ FallsAsleep(r)' /\ WokenSoon(r)'
    BY <1>1, <1>2, <2>1, ReaderAwake DEF InQueue
  <2>3. OthersWrite(r)'
    BY <1>0, <1>2, <2>1, ReaderFacts, OthersStillWrite
  <2>4. OnWriteList(r)'
    BY <1>0, <2>1 DEF OnWriteList
  <2> QED
    BY <2>2, <2>3, <2>4 DEF ReaderParts
<1>5. CASE /\ writers # 0 /\ DataLen(fifo) = 0 /\ fifo' = fifo
           /\ pcp' = [pcp EXCEPT ![r] = "wake"] /\ UNCHANGED waiting
  <2>1. pcp'[r] = "wake" /\ \A u \in Users \ {r} : pcp'[u] = pcp[u]
    BY <1>5, ReaderFacts
  <2>2. OnReadList(r)' /\ WokenSoon(r)'
    BY <1>1, <1>5, <2>1 DEF OnReadList, InQueue, WokenSoon, Asleep
  <2>3. FallsAsleep(r)'
    <3>1. ~(DataLen(fifo) > 0)
      BY <1>5
    <3> QED
      BY <1>0, <1>5, <3>1 DEF FallsAsleep
  <2>4. OthersWrite(r)'
    BY <1>0, <2>1, ReaderFacts, OthersStillWrite
  <2>5. OnWriteList(r)'
    BY <1>1, <1>5 DEF OnWriteList
  <2> QED
    BY <2>2, <2>3, <2>4, <2>5 DEF ReaderParts
<1> QED
  BY <1>0, <1>3, <1>4, <1>5

(* A turn of it as a writer. *)
LEMMA ReaderWriteTry ==
  ASSUME NEW r \in Users, ReaderInv(r), WriteTry(r)
  PROVE  ReaderParts(r)'
<1>0. /\ UNCHANGED <<posix, op, file, waiting>> /\ op[r] = "write"
      /\ pcp[r] \in {"try", "retry"}
      /\ \A u \in Users \ {r} : pcp'[u] = pcp[u]
  BY ReaderFacts DEF WriteTry
<1>1. waiting["read"] = <<>> /\ \A i \in DOMAIN waiting["write"] : waiting["write"][i] # r
  BY <1>0, ReaderFacts DEF OnReadList, InQueue, OnWriteList
<1>2. OnReadList(r)' /\ FallsAsleep(r)' /\ WokenSoon(r)'
  BY <1>0, <1>1, ReaderAwake DEF InQueue
<1>3. OthersWrite(r)'
  BY <1>0, ReaderFacts, OthersStillWrite
<1>4. OnWriteList(r)'
  BY <1>0, <1>1 DEF OnWriteList
<1> QED
  BY <1>2, <1>3, <1>4 DEF ReaderParts

(* The reader wakes a writer before it waits itself, or, as a writer, nobody:
   the only reader is not waiting. *)
LEMMA ReaderWakesOther ==
  ASSUME NEW r \in Users, ReaderInv(r), WakeOther(r)
  PROVE  ReaderParts(r)'
<1> DEFINE after == IF pcp[r] = "wake" THEN "add" ELSE "idle"
           pc == [pcp EXCEPT ![r] = after]
<1>0. /\ UNCHANGED <<posix, op, file, writers, fifo>>
      /\ pcp[r] \in {"wake", "done"}
      /\ pcp' = WokenPc(OtherSide(op[r]), pc) /\ waiting' = WokenQueue(OtherSide(op[r]))
  BY DEF WakeOther
<1>1. waiting["read"] = <<>> /\ \A i \in DOMAIN waiting["write"] : waiting["write"][i] # r
  BY <1>0, ReaderFacts DEF OnReadList, InQueue, OnWriteList
<1>2. /\ pc \in [Users -> Pcs] /\ pc[r] = after /\ \A u \in Users \ {r} : pc[u] = pcp[u]
      /\ after \in {"add", "idle"} /\ (after = "add" => pcp[r] = "wake")
  BY ReaderFacts DEF Pcs
<1>3. op[r] \in {"read", "write"}
  BY ReaderFacts
<1> HIDE DEF pc, after
<1>4. CASE op[r] = "read"
  <2>1. /\ waiting'["read"] = waiting["read"]
        /\ pcp'[r] = pc[r]
        /\ \A u \in Users : pcp'[u] = pc[u] \/ (pc[u] = "asleep" /\ pcp'[u] = "retry")
        /\ LET queue == waiting'["write"]
           IN  \A i \in DOMAIN queue :
                 queue[i] = r => /\ op[r] = "write" /\ pcp[r] \in {"suspend", "asleep"}
                                 /\ WokenPc("write", pc)[r] = pc[r]
                                 /\ \A j \in DOMAIN queue : queue[j] = r => j = i
    <3>1. OtherSide(op[r]) = "write"
      BY <1>4 DEF OtherSide
    <3> QED
      BY <1>0, <1>2, <1>4, <3>1, ReaderFacts, WakeWriter
  <2>2. OnReadList(r)' /\ WokenSoon(r)'
    BY <1>0, <1>1, <1>2, <2>1 DEF OnReadList, InQueue, WokenSoon, Asleep
  <2>3. FallsAsleep(r)'
    BY <1>0, <1>2, <1>4, <2>1, ReaderFacts DEF FallsAsleep
  <2>4. OthersWrite(r)'
    BY <1>0, <1>2, <2>1, ReaderFacts, OthersStillWrite
  <2>5. OnWriteList(r)'
    BY <1>0, <1>4, <2>1 DEF OnWriteList
  <2> QED
    BY <2>2, <2>3, <2>4, <2>5 DEF ReaderParts
<1>5. CASE op[r] = "write"
  <2>1. OtherSide(op[r]) = "read"
    BY <1>5 DEF OtherSide
  <2>2. pcp' = pc /\ waiting' = waiting
    BY <1>0, <1>1, <2>1 DEF WokenPc, WokenQueue
  <2>3. OnReadList(r)' /\ FallsAsleep(r)' /\ WokenSoon(r)'
    BY <1>0, <1>1, <1>5, <2>2, ReaderAwake DEF InQueue
  <2>4. OthersWrite(r)'
    BY <1>0, <1>2, <2>2, ReaderFacts, OthersStillWrite
  <2>5. OnWriteList(r)'
    BY <1>1, <2>2 DEF OnWriteList
  <2> QED
    BY <2>3, <2>4, <2>5 DEF ReaderParts
<1> QED
  BY <1>3, <1>4, <1>5

(* The reader goes on one of the lists. *)
LEMMA ReaderAdds ==
  ASSUME NEW r \in Users, ReaderInv(r), AddWaiter(r)
  PROVE  ReaderParts(r)'
<1>0. /\ UNCHANGED <<posix, op, file, writers, fifo>>
      /\ pcp[r] = "add" /\ pcp' = [pcp EXCEPT ![r] = "suspend"]
      /\ waiting' = [waiting EXCEPT ![op[r]] = Append(@, r)]
  BY DEF AddWaiter
<1>1. waiting["read"] = <<>> /\ \A i \in DOMAIN waiting["write"] : waiting["write"][i] # r
  BY <1>0, ReaderFacts DEF OnReadList, InQueue, OnWriteList
<1>2. pcp'[r] = "suspend" /\ (\A u \in Users \ {r} : pcp'[u] = pcp[u])
      /\ op[r] \in {"read", "write"} /\ waiting \in [{"read", "write"} -> Seq(Users)]
  BY <1>0, ReaderFacts
<1>3. OthersWrite(r)'
  BY <1>0, <1>2, ReaderFacts, OthersStillWrite
<1>4. FallsAsleep(r)' /\ WokenSoon(r)'
  BY <1>0, <1>2, ReaderFacts DEF FallsAsleep, WokenSoon, Asleep
<1>5. CASE op[r] = "read"
  <2>1. waiting'["read"] = <<r>> /\ waiting'["write"] = waiting["write"]
    <3>1. Append(waiting["read"], r) = <<r>>
      BY <1>1
    <3> QED
      BY <1>0, <1>2, <1>5, <3>1
  <2>2. OnReadList(r)'
    BY <1>0, <1>2, <1>5, <2>1 DEF OnReadList, InQueue
  <2>3. OnWriteList(r)'
    BY <1>1, <2>1 DEF OnWriteList
  <2> QED
    BY <1>3, <1>4, <2>2, <2>3 DEF ReaderParts
<1>6. CASE op[r] = "write"
  <2> DEFINE s == waiting["write"]
  <2>1. s \in Seq(Users) /\ waiting'["write"] = Append(s, r) /\ waiting'["read"] = <<>>
    BY <1>0, <1>1, <1>2, <1>6
  <2>2. \A i \in DOMAIN s : s[i] # r
    BY <1>1
  <2> HIDE DEF s
  <2>3. \A i \in DOMAIN Append(s, r) : Append(s, r)[i] = r => i = Len(s) + 1
    BY <2>1, <2>2
  <2>4. OnWriteList(r)'
    BY <1>0, <1>2, <1>6, <2>1, <2>3 DEF OnWriteList
  <2>5. OnReadList(r)'
    BY <1>0, <1>6, <2>1 DEF OnReadList, InQueue
  <2> QED
    BY <1>3, <1>4, <2>4, <2>5 DEF ReaderParts
<1> QED
  BY <1>2, <1>5, <1>6

(* It sleeps, still on its list, on the empty ring it has seen. *)
LEMMA ReaderSuspends ==
  ASSUME NEW r \in Users, ReaderInv(r), Suspend(r)
  PROVE  ReaderParts(r)'
<1>0. /\ UNCHANGED <<posix, op, file, writers, fifo, waiting>>
      /\ pcp[r] = "suspend" /\ pcp' = [pcp EXCEPT ![r] = "asleep"]
  BY DEF Suspend
<1>1. pcp'[r] = "asleep" /\ \A u \in Users \ {r} : pcp'[u] = pcp[u]
  BY <1>0, ReaderFacts
<1>2. OthersWrite(r)'
  BY <1>0, <1>1, ReaderFacts, OthersStillWrite
<1>3. OnReadList(r)'
  BY <1>0, <1>1, ReaderFacts DEF OnReadList, InQueue
<1>4. FallsAsleep(r)'
  BY <1>1 DEF FallsAsleep
<1>5. WokenSoon(r)'
  BY <1>0, ReaderFacts DEF FallsAsleep, WokenSoon, Asleep
<1>6. OnWriteList(r)'
  BY <1>0, <1>1, ReaderFacts DEF OnWriteList
<1> QED
  BY <1>2, <1>3, <1>4, <1>5, <1>6 DEF ReaderParts

(* Every step of the reader keeps what it waits for. *)
LEMMA ReaderSteps ==
  ASSUME NEW r \in Users, ReaderInv(r), posix,
         \/ PipeStep(r)
         \/ \E mode \in Modes[r], nonblock \in {FALSE, (r \in Impatient)} :
              OpenFile(r, mode, nonblock)
         \/ CloseFile(r)
         \/ \E n \in 1 .. MaxBlock : WriteStart(r, n)
         \/ \E n \in 1 .. RingSize : ReadStart(r, n)
  PROVE  ReaderParts(r)'
<1>1. CASE PipeStep(r)
  <2>1. ~DeviceWrite(r)
    BY DEF DeviceWrite
  <2> QED
    BY <1>1, <2>1, ReaderReadTry, ReaderWriteTry, ReaderWakesOther, ReaderAdds, ReaderSuspends
       DEF PipeStep
<1>2. ASSUME NEW mode, NEW nonblock, OpenFile(r, mode, nonblock)
      PROVE  ReaderParts(r)'
  <2>1. /\ pcp[r] = "idle" /\ UNCHANGED <<posix, waiting, pcp, op>>
        /\ file' = [file EXCEPT ![r] = [mode |-> mode, nonblock |-> nonblock]]
    BY <1>2 DEF OpenFile
  <2>2. \A u \in Users \ {r} : file'[u] = file[u]
    BY <2>1, ReaderFacts DEF FileInv, PipeInv, PipeTypes
  <2> QED
    BY <2>1, <2>2, ReaderOpens
<1>3. ASSUME NEW n, WriteStart(r, n) \/ ReadStart(r, n)
      PROVE  ReaderParts(r)'
  <2>1. /\ pcp[r] = "idle" /\ UNCHANGED <<posix, waiting, file>>
        /\ pcp' = [pcp EXCEPT ![r] = "try"]
        /\ op' = [op EXCEPT ![r] = "read"] \/ op' = [op EXCEPT ![r] = "write"]
    BY <1>3 DEF WriteStart, ReadStart
  <2>2. pcp'[r] = "try" /\ \A u \in Users \ {r} : pcp'[u] = pcp[u] /\ op'[u] = op[u]
    BY <2>1, ReaderFacts
  <2> QED
    BY <2>1, <2>2, ReaderOpens
<1> QED
  BY <1>1, <1>2, <1>3, ReaderCloses

(* Every step of the others does: they only write. *)
LEMMA OthersSteps ==
  ASSUME NEW r \in Users, OneUrgentReader(r), ReaderInv(r), posix, NEW t \in Users \ {r},
         \/ PipeStep(t)
         \/ \E mode \in Modes[t], nonblock \in {FALSE, (t \in Impatient)} :
              OpenFile(t, mode, nonblock)
         \/ CloseFile(t)
         \/ \E n \in 1 .. MaxBlock : WriteStart(t, n)
         \/ \E n \in 1 .. RingSize : ReadStart(t, n)
  PROVE  ReaderParts(r)'
<1>1. ~DeviceWrite(t)
  BY DEF DeviceWrite
<1>2. ~ReadTry(t)
  BY ReaderFacts DEF ReadTry, OthersWrite
<1>3. \A n : ~ReadStart(t, n)
  BY ReaderFacts DEF ReadStart, OthersWrite
<1>4. CASE PipeStep(t)
  BY <1>1, <1>2, <1>4, OthersWriteTry, OthersWakeOther, OthersWait DEF PipeStep
<1> QED
  BY <1>3, <1>4, OthersOpen, OthersClose, OthersWriteStart

(* The device has nobody waiting. *)
LEMMA DeviceSteps ==
  ASSUME NEW r \in Users, ReaderInv(r), ~posix, PipeNext
  PROVE  ReaderParts(r)'
<1> DEFINE Quiet == /\ posix' = posix /\ UNCHANGED <<waiting, op>>
                    /\ \A u \in Users : pcp'[u] \in {"idle", "try"}
<1>0. (\A u \in Users : pcp[u] \in {"idle", "try"}) /\ pcp \in [Users -> Pcs]
  BY ReaderFacts
<1>1. ASSUME NEW t \in Users PROVE DeviceWrite(t) => Quiet
  BY <1>0, <1>1 DEF DeviceWrite
<1>2. ASSUME NEW t \in Users PROVE DeviceOpen(t) \/ DeviceClose(t) => Quiet
  BY <1>0 DEF DeviceOpen, DeviceClose
<1>3. ASSUME NEW t \in Users, NEW n PROVE DeviceRead(t, n) => Quiet
  BY <1>0 DEF DeviceRead
<1>4. ASSUME NEW t \in Users, NEW n PROVE DeviceWriteStart(t, n) => Quiet
  BY <1>0 DEF DeviceWriteStart
<1>5. ASSUME NEW t \in Users
      PROVE  /\ ~ReadTry(t) /\ ~WriteTry(t) /\ ~WakeOther(t) /\ ~AddWaiter(t) /\ ~Suspend(t)
             /\ \A mode, nonblock : ~OpenFile(t, mode, nonblock)
             /\ ~CloseFile(t) /\ \A n : ~ReadStart(t, n) /\ ~WriteStart(t, n)
  BY <1>0 DEF ReadTry, WriteTry, WakeOther, AddWaiter, Suspend, OpenFile, CloseFile, ReadStart,
              WriteStart
<1> HIDE DEF Quiet
<1>6. Quiet
  BY <1>1, <1>2, <1>3, <1>4, <1>5 DEF PipeNext, PipeStep
<1> QED
  BY <1>6, DeviceParts DEF Quiet

(* The invariant of the reader holds. *)
LEMMA ReaderStep ==
  ASSUME NEW r \in Users, OneUrgentReader(r)
  PROVE  ReaderInv(r) /\ [PipeNext]_pipeVars => ReaderInv(r)'
<1> SUFFICES ASSUME ReaderInv(r), [PipeNext]_pipeVars PROVE ReaderInv(r)'
  OBVIOUS
<1>1. FileInv'
  BY FileStep DEF ReaderInv
<1>2. CASE UNCHANGED pipeVars
  <2>1. UNCHANGED <<posix, fifo, writers, file, waiting, pcp, op>>
    BY <1>2 DEF pipeVars
  <2>2. OthersWrite(r)'
    BY <2>1, ReaderFacts DEF OthersWrite
  <2>3. OnReadList(r)' /\ FallsAsleep(r)' /\ WokenSoon(r)' /\ OnWriteList(r)'
    BY <2>1, ReaderFacts DEF OnReadList, InQueue, FallsAsleep, WokenSoon, Asleep, OnWriteList
  <2> QED
    BY <1>1, <2>2, <2>3 DEF ReaderInv, ReaderParts
<1>3. CASE PipeNext /\ ~posix
  BY <1>1, <1>3, DeviceSteps DEF ReaderInv
<1>4. CASE PipeNext /\ posix
  <2>1. PICK t \in Users :
          \/ PipeStep(t)
          \/ \E mode \in Modes[t], nonblock \in {FALSE, (t \in Impatient)} :
               OpenFile(t, mode, nonblock)
          \/ CloseFile(t)
          \/ \E n \in 1 .. MaxBlock : WriteStart(t, n)
          \/ \E n \in 1 .. RingSize : ReadStart(t, n)
    <3>1. \A u \in Users : /\ ~DeviceOpen(u) /\ ~DeviceClose(u)
                           /\ \A n : ~DeviceRead(u, n) /\ ~DeviceWriteStart(u, n)
      BY <1>4 DEF DeviceOpen, DeviceClose, DeviceRead, DeviceWriteStart
    <3> QED
      BY <1>4, <3>1 DEF PipeNext
  <2>2. CASE t = r
    BY <1>1, <1>4, <2>1, <2>2, ReaderSteps DEF ReaderInv
  <2>3. CASE t # r
    BY <1>1, <1>4, <2>1, <2>3, OthersSteps DEF ReaderInv
  <2> QED
    BY <2>2, <2>3
<1> QED
  BY <1>2, <1>3, <1>4

(* Nobody waits on a pipe just created. *)
LEMMA ReaderInit ==
  ASSUME NEW r \in Users
  PROVE  PipeInit => ReaderInv(r)
<1> SUFFICES ASSUME PipeInit PROVE ReaderInv(r)
  OBVIOUS
<1>1. FileInv
  BY FileInit
<1>2. ReaderParts(r)
  BY EmptySeq DEF PipeInit, ReaderParts, OthersWrite, OnReadList, InQueue, FallsAsleep, WokenSoon,
                  Asleep, OnWriteList, Closed, Reads
<1> QED
  BY <1>1, <1>2 DEF ReaderInv

(* Who sleeps in a read is the reader. *)
LEMMA ReaderFollows ==
  ASSUME NEW r \in Users
  PROVE  ReaderInv(r) => ReaderNeverSleepsInVain
<1> SUFFICES ASSUME ReaderInv(r), NEW t \in Users, Asleep(t, "read")
             PROVE  /\ writers # 0
                    /\ DataLen(fifo) > 0 =>
                         \E u \in Users : op[u] = "write" /\ pcp[u] \in {"wake", "done"}
  BY DEF ReaderNeverSleepsInVain
<1>1. posix
  BY ReaderFacts DEF Asleep
<1>2. t = r
  BY <1>1, ReaderFacts DEF Asleep, OthersWrite
<1> QED
  BY <1>2, ReaderFacts DEF WokenSoon

-----------------------------------------------------------------------------
(* The variables of the pipe have the types of pipe.c's fields; readers and
   writers, counted by hand in pipe_fops_open and pipe_fops_close, never go
   below zero. *)
THEOREM PipeTypeCorrect == PipeSpec => []PipeTypeOK
<1>1. PipeInit => FileInv
  BY FileInit
<1>2. FileInv /\ [PipeNext]_pipeVars => FileInv'
  BY FileStep
<1>3. FileInv => PipeTypeOK
  BY FileInvTypes
<1> QED
  BY <1>1, <1>2, <1>3, PTL DEF PipeSpec

(* A reader of pipe_fops_read that is more urgent than the threads it shares
   the pipe with, all of them writers, sleeps only while the pipe is empty and
   a writer has it open, or its wake-up is on its way: no interleaving with the
   release of the mutex, the entry in the queue and the suspension loses it. *)
THEOREM ReaderIsWoken ==
  ASSUME NEW r \in Users, OneUrgentReader(r)
  PROVE  PipeSpec => []ReaderNeverSleepsInVain
<1>1. PipeInit => ReaderInv(r)
  BY ReaderInit
<1>2. ReaderInv(r) /\ [PipeNext]_pipeVars => ReaderInv(r)'
  BY ReaderStep
<1>3. ReaderInv(r) => ReaderNeverSleepsInVain
  BY ReaderFollows
<1> QED
  BY <1>1, <1>2, <1>3, PTL DEF PipeSpec
=============================================================================
