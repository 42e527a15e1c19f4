----------------------------- MODULE ByteChannel -----------------------------
(***************************************************************************)
(* What a pipe promises: a bounded channel of bytes.  A writer hands over  *)
(* a block, the channel takes it over a prefix at a time, in the order of  *)
(* the block; a reader gets the oldest bytes; nothing is duplicated, and   *)
(* bytes are lost only when the channel is dropped as a whole.  Blocking   *)
(* is not the channel's business: a writer may give up the rest of its     *)
(* block at any time.                                                      *)
(***************************************************************************)
EXTENDS Integers, Sequences

CONSTANTS Users,     \* the threads
          Bytes,
          Capacity

VARIABLES chan,      \* the bytes in the channel, oldest first
          rest,      \* rest[t]: what t has still to write
          got        \* the block handed to a reader in the last step

vars == <<chan, rest, got>>

ChannelInit == chan = <<>> /\ got = <<>> /\ rest = [t \in Users |-> <<>>]

Write(t) == /\ rest[t] = <<>>
            /\ rest'[t] # <<>>
            /\ \A u \in Users \ {t} : rest'[u] = rest[u]
            /\ got' = <<>> /\ UNCHANGED chan

Send(t) == \E n \in 1 .. Len(rest[t]) :
             /\ Len(chan) + n <= Capacity
             /\ chan' = chan \o SubSeq(rest[t], 1, n)
             /\ rest' = [rest EXCEPT ![t] = SubSeq(@, n + 1, Len(@))]
             /\ got' = <<>>

(* A writer that is told how much it wrote forgets the rest, perhaps as the
   last bytes go into the channel. *)
SendSome(t) == \E n \in 0 .. Len(rest[t]) :
                 /\ Len(chan) + n <= Capacity
                 /\ chan' = chan \o SubSeq(rest[t], 1, n)
                 /\ rest' = [rest EXCEPT ![t] = <<>>]
                 /\ got' = <<>>

Receive == \E n \in 1 .. Len(chan) :
             /\ got' = SubSeq(chan, 1, n)
             /\ chan' = SubSeq(chan, n + 1, Len(chan))
             /\ UNCHANGED rest

(* What was handed over is the reader's. *)
Forget == got' = <<>> /\ UNCHANGED <<chan, rest>>

Drop == chan' = <<>> /\ got' = <<>> /\ UNCHANGED rest

ChannelNext == \/ \E t \in Users : Write(t) \/ Send(t) \/ SendSome(t)
               \/ Receive \/ Forget \/ Drop

Channel == ChannelInit /\ [][ChannelNext]_vars
=============================================================================
