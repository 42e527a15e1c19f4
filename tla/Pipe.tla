--------------------------------- MODULE Pipe ---------------------------------
(***************************************************************************)
(* The pipes of rt_ext/pipe.c over the ring buffer of rt_ext/ringbuffer.c  *)
(* and the wait queues of rt_ext/waitqueue.c, in both forms the file can   *)
(* be built: files (RT_USING_POSIX), whose reads and writes block, and the *)
(* plain device of this firmware's build, whose reads and writes do not.   *)
(*                                                                         *)
(* What pipe.c does under the mutex of the pipe is one action.  What it    *)
(* does without it is a step of its own: between the release of the mutex  *)
(* and the suspension of the thread lie a wake-up of the other side, the   *)
(* entry in the wait queue and the suspension, and other threads may run   *)
(* between any two of them.                                                *)
(***************************************************************************)
EXTENDS RingBuffer, FiniteSets

CONSTANTS Users,      \* the threads that use the pipe, each with its own file
          PipePrio,   \* RT-Thread priorities: the smaller, the more urgent
          Modes,      \* Modes[t]: the access modes t may open with
          Impatient,  \* the threads that may open with O_NONBLOCK as well
          MaxBlock,   \* bound: bytes of one write (a read asks for RingSize)
          LastByte    \* bound: bytes are 1 .. LastByte, written in turn

ASSUME PipeAssumption ==
  /\ IsFiniteSet(Users)
  /\ PipePrio \in [Users -> Nat]
  /\ Modes \in [Users -> SUBSET {"rd", "wr", "rdwr"}]
  /\ Impatient \subseteq Users
  /\ MaxBlock \in Nat \ {0} /\ LastByte \in Nat \ {0}

VARIABLES posix,     \* the build: RT_USING_POSIX defined?
          fifo,      \* pipe->fifo: a ring, or NoRing
          readers,   \* pipe->readers
          writers,   \* pipe->writers
          file,      \* file[t]: access mode and O_NONBLOCK of t's file
          waiting,   \* pipe->reader_queue and pipe->writer_queue
          pcp,       \* where each thread is inside read or write
          op,        \* "read" or "write"
          want,      \* bytes a reader asks for
          left,      \* bytes a writer has still to put
          got,       \* the bytes the last step has handed to a reader
          last       \* the last byte written: the next block begins after it

pipeVars == <<posix, fifo, readers, writers, file, waiting, pcp, op, want,
              left, got, last>>

Byte   == 1 .. LastByte
NoRing == [rd |-> -1]
Closed == [mode |-> "closed", nonblock |-> FALSE]

Reads(mode)  == mode \in {"rd", "rdwr"}
Writes(mode) == mode \in {"wr", "rdwr"}
IsOpen(t)    == file[t].mode # "closed"

RefCount == {t \in Users : IsOpen(t)}      \* device->ref_count, as its holders

PipeTypeOK ==
  /\ posix \in BOOLEAN
  /\ fifo \in Ring(Byte) \cup {NoRing}
  /\ readers \in Nat /\ writers \in Nat
  /\ file \in [Users -> [mode : {"closed", "rd", "wr", "rdwr"},
                         nonblock : BOOLEAN]]
  /\ waiting \in [{"read", "write"} -> Seq(Users)]
  /\ pcp \in [Users -> {"idle", "try", "wake", "add", "suspend", "asleep",
                        "retry", "done"}]
  /\ op \in [Users -> {"read", "write"}]
  /\ want \in [Users -> 0 .. RingSize]
  /\ left \in [Users -> Seq(Byte)] /\ got \in Seq(Byte)
  /\ last \in Byte

(* rt_pipe_create. *)
PipeInit ==
  /\ posix \in BOOLEAN
  /\ fifo = NoRing
  /\ readers = 0 /\ writers = 0
  /\ file = [t \in Users |-> Closed]
  /\ waiting = [q \in {"read", "write"} |-> <<>>]
  /\ pcp = [t \in Users |-> "idle"]
  /\ op = [t \in Users |-> "read"]
  /\ want = [t \in Users |-> 0]
  /\ left = [t \in Users |-> <<>>] /\ got = <<>>
  /\ last = LastByte

(* Strict priorities: a thread runs only while the more urgent ones are
   suspended or outside the pipe. *)
PipeTurn(t) == \A u \in Users :
                 PipePrio[u] < PipePrio[t] => pcp[u] \in {"idle", "asleep"}

-----------------------------------------------------------------------------
(* rt_wqueue_wakeup: the first waiter leaves the queue, and is resumed if it
   is already suspended; if it is not, rt_thread_resume fails and nobody
   looks at its result. *)
WokenPc(q, pc) ==
  IF waiting[q] # <<>> /\ pc[Head(waiting[q])] = "asleep"
  THEN [pc EXCEPT ![Head(waiting[q])] = "retry"]
  ELSE pc

WokenQueue(q) == IF waiting[q] # <<>>
                 THEN [waiting EXCEPT ![q] = Tail(@)]
                 ELSE waiting

OtherSide(q) == IF q = "read" THEN "write" ELSE "read"

(* pipe_fops_open, by the thread that will use the file.  The first open
   creates the ring. *)
OpenFile(t, mode, nonblock) ==
  /\ PipeTurn(t) /\ posix /\ pcp[t] = "idle" /\ ~IsOpen(t)
  /\ fifo' = IF RefCount = {} THEN EmptyRing ELSE fifo
  /\ readers' = readers + (IF Reads(mode) THEN 1 ELSE 0)
  /\ writers' = writers + (IF Writes(mode) THEN 1 ELSE 0)
  /\ file' = [file EXCEPT ![t] = [mode |-> mode, nonblock |-> nonblock]]
  /\ got' = <<>>
  /\ UNCHANGED <<posix, waiting, pcp, op, want, left, last>>

(* Faulty variant: nobody is woken. *)
CloseFileSilently(t) ==
  LET mode == file[t].mode
  IN  /\ PipeTurn(t) /\ posix /\ pcp[t] = "idle" /\ IsOpen(t)
      /\ readers' = readers - (IF Reads(mode) THEN 1 ELSE 0)
      /\ writers' = writers - (IF Writes(mode) THEN 1 ELSE 0)
      /\ fifo' = IF RefCount = {t} THEN NoRing ELSE fifo
      /\ file' = [file EXCEPT ![t] = Closed]
      /\ got' = <<>>
      /\ UNCHANGED <<posix, waiting, pcp, op, want, left, last>>

(* pipe_fops_close: with the last writer gone, a waiting reader is woken,
   and with the last reader gone a waiting writer; the last close destroys
   the ring and what it holds. *)
CloseFile(t) ==
  LET mode == file[t].mode
      awake == IF writers' = 0 THEN WokenPc("read", pcp) ELSE pcp
  IN  /\ PipeTurn(t) /\ posix /\ pcp[t] = "idle" /\ IsOpen(t)
      /\ readers' = readers - (IF Reads(mode) THEN 1 ELSE 0)
      /\ writers' = writers - (IF Writes(mode) THEN 1 ELSE 0)
      /\ pcp' = IF readers' = 0 THEN WokenPc("write", awake) ELSE awake
      /\ waiting' = [q \in {"read", "write"} |->
                       IF (IF q = "read" THEN writers' ELSE readers') = 0
                       THEN WokenQueue(q)[q] ELSE waiting[q]]
      /\ fifo' = IF RefCount = {t} THEN NoRing ELSE fifo
      /\ file' = [file EXCEPT ![t] = Closed]
      /\ got' = <<>>
      /\ UNCHANGED <<posix, op, want, left, last>>

-----------------------------------------------------------------------------
(* pipe_fops_read up to the mutex: without a writer the call returns 0 at
   once, even if the ring holds bytes. *)
ReadStart(t, n) ==
  /\ PipeTurn(t) /\ posix /\ pcp[t] = "idle" /\ Reads(file[t].mode)
  /\ writers # 0
  /\ pcp' = [pcp EXCEPT ![t] = "try"]
  /\ op' = [op EXCEPT ![t] = "read"]
  /\ want' = [want EXCEPT ![t] = n]
  /\ got' = <<>>
  /\ UNCHANGED <<posix, fifo, readers, writers, file, waiting, left, last>>

(* One turn of its loop under the mutex: end of file; some bytes, with a
   wake-up of the writers; -EAGAIN; or on to the wait. *)
ReadTry(t) ==
  /\ PipeTurn(t) /\ posix /\ pcp[t] \in {"try", "retry"} /\ op[t] = "read"
  /\ \/ /\ writers = 0
        /\ pcp' = [pcp EXCEPT ![t] = "idle"]
        /\ want' = [want EXCEPT ![t] = 0]
        /\ got' = <<>>
        /\ UNCHANGED <<fifo, waiting>>
     \/ /\ writers # 0 /\ DataLen(fifo) > 0
        /\ got' = Got(fifo, want[t])
        /\ fifo' = Get(fifo, want[t])
        /\ pcp' = WokenPc("write", [pcp EXCEPT ![t] = "idle"])
        /\ waiting' = WokenQueue("write")
        /\ want' = [want EXCEPT ![t] = 0]
     \/ /\ writers # 0 /\ DataLen(fifo) = 0
        /\ pcp' = [pcp EXCEPT ![t] = IF file[t].nonblock THEN "idle" ELSE "wake"]
        /\ want' = IF file[t].nonblock THEN [want EXCEPT ![t] = 0] ELSE want
        /\ got' = <<>>
        /\ UNCHANGED <<fifo, waiting>>
  /\ UNCHANGED <<posix, readers, writers, file, op, left, last>>

(* pipe_fops_write up to the mutex; without a reader it returns -EPIPE. *)
Block(n) == [k \in 1 .. n |-> 1 + ((last + k - 1) % LastByte)]

WriteStart(t, n) ==
  /\ PipeTurn(t) /\ posix /\ pcp[t] = "idle" /\ Writes(file[t].mode)
  /\ readers # 0
  /\ pcp' = [pcp EXCEPT ![t] = "try"]
  /\ op' = [op EXCEPT ![t] = "write"]
  /\ left' = [left EXCEPT ![t] = Block(n)]
  /\ last' = Block(n)[n]
  /\ got' = <<>>
  /\ UNCHANGED <<posix, fifo, readers, writers, file, waiting, want>>

(* Faulty variant: pbuf does not move on, and the beginning is put again. *)
WriteTryAgain(t) ==
  LET over == Len(left[t]) <= PutLen(fifo, left[t]) \/ file[t].nonblock
  IN  /\ PipeTurn(t) /\ posix /\ pcp[t] \in {"try", "retry"} /\ op[t] = "write" /\ readers # 0
      /\ fifo' = Put(fifo, left[t])
      /\ left' = [left EXCEPT ![t] = IF over THEN <<>>
                                     ELSE SubSeq(@, 1, Len(@) - PutLen(fifo, @))]
      /\ pcp' = [pcp EXCEPT ![t] = IF over THEN "done" ELSE "wake"]
      /\ got' = <<>>
      /\ UNCHANGED <<posix, readers, writers, file, waiting, op, want, last>>

(* One turn of its loop under the mutex: no reader left; or as many bytes as
   there is room for, and then done, or out of patience, or on to the wait.
   The thread that leaves the loop has a last wake-up to do, "done", unless
   it leaves in the first turn because there is no reader. *)
WriteTry(t) ==
  LET n == PutLen(fifo, left[t])
      rest == SubSeq(left[t], n + 1, Len(left[t]))
      over == rest = <<>> \/ file[t].nonblock
  IN  /\ PipeTurn(t) /\ posix /\ pcp[t] \in {"try", "retry"} /\ op[t] = "write"
      /\ \/ /\ readers = 0
            /\ left' = [left EXCEPT ![t] = <<>>]
            /\ pcp' = [pcp EXCEPT ![t] = IF @ = "retry" THEN "done" ELSE "idle"]
            /\ UNCHANGED fifo
         \/ /\ readers # 0
            /\ fifo' = Put(fifo, left[t])
            /\ left' = [left EXCEPT ![t] = IF over THEN <<>> ELSE rest]
            /\ pcp' = [pcp EXCEPT ![t] = IF over THEN "done" ELSE "wake"]
      /\ got' = <<>>
      /\ UNCHANGED <<posix, readers, writers, file, waiting, op, want, last>>

(* Faulty variant: the end of a write wakes nobody. *)
WakeOtherOnlyToWait(t) ==
  /\ PipeTurn(t) /\ pcp[t] \in {"wake", "done"}
  /\ LET q == OtherSide(op[t])
     IN  IF pcp[t] = "wake"
         THEN /\ pcp' = WokenPc(q, [pcp EXCEPT ![t] = "add"])
              /\ waiting' = WokenQueue(q)
         ELSE pcp' = [pcp EXCEPT ![t] = "idle"] /\ UNCHANGED waiting
  /\ got' = <<>>
  /\ UNCHANGED <<posix, fifo, readers, writers, file, op, want, left, last>>

(* The wake-up a blocked write owes the readers, or a blocked read the
   writers, after the mutex is released, and the one at the end of a write. *)
WakeOther(t) ==
  /\ PipeTurn(t) /\ pcp[t] \in {"wake", "done"}
  /\ LET q == OtherSide(op[t])
     IN  /\ pcp' = WokenPc(q, [pcp EXCEPT ![t] = IF pcp[t] = "wake" THEN "add"
                                                                 ELSE "idle"])
         /\ waiting' = WokenQueue(q)
  /\ got' = <<>>
  /\ UNCHANGED <<posix, fifo, readers, writers, file, op, want, left, last>>

(* rt_wqueue_add, rt_thread_suspend.  A wake-up between the two finds the
   entry and removes it, and the thread then suspends all the same. *)
AddWaiter(t) ==
  /\ PipeTurn(t) /\ pcp[t] = "add"
  /\ waiting' = [waiting EXCEPT ![op[t]] = Append(@, t)]
  /\ pcp' = [pcp EXCEPT ![t] = "suspend"]
  /\ got' = <<>>
  /\ UNCHANGED <<posix, fifo, readers, writers, file, op, want, left, last>>

Suspend(t) ==
  /\ PipeTurn(t) /\ pcp[t] = "suspend"
  /\ pcp' = [pcp EXCEPT ![t] = "asleep"]
  /\ got' = <<>>
  /\ UNCHANGED <<posix, fifo, readers, writers, file, waiting, op, want,
                  left, last>>

-----------------------------------------------------------------------------
(* The device of a build without files: rt_pipe_open, rt_pipe_close and the
   reads and writes that never wait.  Whether rt_pipe_close still finds a
   reference count of 1 is rt_device_close's affair: either way. *)
DeviceOpen(t) ==
  /\ PipeTurn(t) /\ ~posix /\ ~IsOpen(t)
  /\ fifo' = IF fifo = NoRing THEN EmptyRing ELSE fifo
  /\ file' = [file EXCEPT ![t] = [mode |-> "rdwr", nonblock |-> TRUE]]
  /\ got' = <<>>
  /\ UNCHANGED <<posix, readers, writers, waiting, pcp, op, want, left, last>>

DeviceClose(t) ==
  /\ PipeTurn(t) /\ ~posix /\ pcp[t] = "idle" /\ IsOpen(t)
  /\ \/ RefCount = {t} /\ fifo' = NoRing
     \/ UNCHANGED fifo
  /\ file' = [file EXCEPT ![t] = Closed]
  /\ got' = <<>>
  /\ UNCHANGED <<posix, readers, writers, waiting, pcp, op, want, left, last>>

DeviceRead(t, n) ==
  /\ PipeTurn(t) /\ ~posix /\ pcp[t] = "idle" /\ IsOpen(t)
  /\ got' = Got(fifo, n)
  /\ fifo' = Get(fifo, n)
  /\ UNCHANGED <<posix, readers, writers, file, waiting, pcp, op, want, left, last>>

(* The block is known before the mutex is taken: "try" is the wait for it. *)
DeviceWriteStart(t, n) ==
  /\ PipeTurn(t) /\ ~posix /\ pcp[t] = "idle" /\ IsOpen(t)
  /\ pcp' = [pcp EXCEPT ![t] = "try"]
  /\ left' = [left EXCEPT ![t] = Block(n)]
  /\ last' = Block(n)[n]
  /\ got' = <<>>
  /\ UNCHANGED <<posix, fifo, readers, writers, file, waiting, op, want>>

DeviceWrite(t) ==
  /\ PipeTurn(t) /\ ~posix /\ pcp[t] = "try"
  /\ fifo' = Put(fifo, left[t])
  /\ left' = [left EXCEPT ![t] = <<>>]
  /\ pcp' = [pcp EXCEPT ![t] = "idle"]
  /\ got' = <<>>
  /\ UNCHANGED <<posix, readers, writers, file, waiting, op, want, last>>

-----------------------------------------------------------------------------
PipeStep(t) == \/ ReadTry(t) \/ WriteTry(t) \/ WakeOther(t) \/ AddWaiter(t)
               \/ Suspend(t) \/ DeviceWrite(t)

PipeNext ==
  \E t \in Users :
    \/ PipeStep(t)
    \/ \E mode \in Modes[t], nonblock \in {FALSE, (t \in Impatient)} :
         OpenFile(t, mode, nonblock)
    \/ CloseFile(t) \/ DeviceOpen(t) \/ DeviceClose(t)
    \/ \E n \in 1 .. MaxBlock : WriteStart(t, n) \/ DeviceWriteStart(t, n)
    \/ \E n \in 1 .. RingSize : ReadStart(t, n) \/ DeviceRead(t, n)

(* The processor does not stay idle while a thread inside read or write can
   go on; which one does is for the priorities to say. *)
PipeFairness == WF_pipeVars(\E t \in Users : PipeStep(t))

PipeSpec == PipeInit /\ [][PipeNext]_pipeVars /\ PipeFairness

-----------------------------------------------------------------------------
(* Every operation of rt_ext/ringbuffer.c does to the ring, at every place of
   its indices and mirrors, what it would do to a sequence: the write and the
   read index meet in the same cell both when the ring is empty and when it
   is full, and a block may go round the end. *)
IsRing(rb) == rb \in Ring(Byte)
FirstOf(s, n) == SubSeq(s, 1, n)
RestOf(s, n)  == SubSeq(s, n + 1, Len(s))

RingIsFifo ==
  fifo # NoRing =>
    LET held == Contents(fifo)
    IN  /\ DataLen(fifo) + SpaceLen(fifo) = RingSize
        /\ \A n \in 1 .. RingSize + 1 :
             LET block == Block(n)
                 room == Least(RingSize - Len(held), n)
                 taken == Least(n, Len(held))
             IN  /\ IsRing(Put(fifo, block))
                 /\ Contents(Put(fifo, block)) = held \o FirstOf(block, room)
                 /\ Got(fifo, n) = FirstOf(held, taken)
                 /\ Contents(Get(fifo, n)) = RestOf(held, taken)
                 /\ n <= RingSize - Len(held) =>
                      Contents(PutForce(fifo, block)) = held \o block
        /\ \A b \in Byte :
             /\ Contents(PutChar(fifo, b)) =
                  (IF Len(held) < RingSize THEN Append(held, b) ELSE held)
             /\ Contents(PutCharForce(fifo, b)) =
                  (IF Len(held) < RingSize THEN Append(held, b)
                                          ELSE Append(Tail(held), b))
        /\ held # <<>> => /\ GotChar(fifo) = Head(held)
                          /\ Contents(GetChar(fifo)) = Tail(held)
        /\ Contents(Reset(fifo)) = <<>>

(* Whatever the threads do, the pipe is a channel: the bytes of a block go in
   in order, in one piece or several, the oldest come out, none twice, and
   none is lost but with the ring. *)
PipeChannel == INSTANCE ByteChannel
                 WITH Bytes <- Byte, Capacity <- RingSize, rest <- left,
                      chan <- IF fifo = NoRing THEN <<>> ELSE Contents(fifo)

PipeIsChannel == PipeChannel!Channel

(* With readers more urgent than writers: a reader sleeps only on an empty
   pipe that some thread can still write to, or its wake-up is on its way. *)
Asleep(t, what) == pcp[t] = "asleep" /\ op[t] = what

ReaderNeverSleepsInVain ==
  \A t \in Users : Asleep(t, "read") =>
    /\ writers # 0
    /\ DataLen(fifo) > 0 =>
         \E u \in Users : op[u] = "write" /\ pcp[u] \in {"wake", "done"}

(* A reader inside the pipe gets the bytes there are, or an end of file. *)
ReadReturns ==
  \A t \in {u \in Users : \E mode \in Modes[u] : Reads(mode)} :
    (posix /\ pcp[t] # "idle" /\ op[t] = "read" /\ DataLen(fifo) > 0)
      ~> pcp[t] = "idle"

(* What pipe.c:244 says of the wait of pipe_fops_write, "pipe full, waiting
   on suspended write list": no writer sleeps on a pipe that has room while
   a reader sleeps on it as well. *)
WriterWaitsOnFullPipe ==
  \A t, u \in Users :
    Asleep(t, "write") /\ Asleep(u, "read") => IsFullRing(fifo)
=============================================================================
