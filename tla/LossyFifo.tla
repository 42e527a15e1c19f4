------------------------------ MODULE LossyFifo ------------------------------
(***************************************************************************)
(* What a bounded FIFO that prefers new data to old data promises: values  *)
(* leave in the order they entered, unaltered and at most once, and the    *)
(* only value that is ever discarded is the oldest one.                    *)
(***************************************************************************)
EXTENDS Naturals, Sequences

CONSTANTS Value,    \* what the queue carries
          NoValue,  \* initial content of the receiver's buffer
          Capacity  \* the most values it holds

VARIABLES fifo,     \* the values waiting, oldest first
          taken     \* the value the receiver took last

fifoVars == <<fifo, taken>>

FifoTypeOK == /\ fifo \in Seq(Value)
              /\ Len(fifo) <= Capacity
              /\ taken \in Value \cup {NoValue}

FifoInit == /\ fifo = <<>>
            /\ taken = NoValue

Put(v) == /\ Len(fifo) < Capacity
          /\ fifo' = Append(fifo, v)
          /\ UNCHANGED taken

Evict == /\ fifo # <<>>
         /\ fifo' = Tail(fifo)
         /\ UNCHANGED taken

(* A full queue makes room and accepts in one step. *)
Displace(v) == /\ Len(fifo) = Capacity
               /\ fifo' = Append(Tail(fifo), v)
               /\ UNCHANGED taken

Take == /\ fifo # <<>>
        /\ taken' = Head(fifo)
        /\ fifo' = Tail(fifo)

FifoNext == \/ \E v \in Value : Put(v) \/ Displace(v)
            \/ Evict
            \/ Take

FifoSpec == FifoInit /\ [][FifoNext]_fifoVars
=============================================================================
