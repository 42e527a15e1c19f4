-------------------------------- MODULE MainRx --------------------------------
(***************************************************************************)
(* Reception: the receive interrupts of the two user UARTs put bytes into  *)
(* a ring each and count them on a semaphore each (serial.c).  The main    *)
(* thread reads messages, up to a pause, out of the rings (usart_utils.c,  *)
(* main.c): the first one names the mode.  In transparent mode the thread  *)
(* waits on the semaphores in turn; the console (config) and the direct    *)
(* line to the modem (debug) poll the ports instead.                       *)
(*                                                                         *)
(* The n-th byte to arrive at port p is <<p, n>>; bytes go on arriving,    *)
(* for ever or not, and from the MaxBytes-th on they all bear its number.  *)
(* MaxCount bounds the count of a semaphore.  Time is not modelled: a wait *)
(* may end once there was nothing to wait for.  What is done with a        *)
(* message is not modelled here, nor that debug mode polls the modem's     *)
(* port as well.                                                           *)
(***************************************************************************)
EXTENDS Naturals, Sequences

CONSTANTS User, User485,  \* USERCOM and USERCOM485
          BufSize,        \* serial->config.bufsz, RT_SERIAL_RB_BUFSZ
          FrameMax,       \* size of the buffer of start_mode and main_entry
          MaxBytes, MaxCount,
          None

Ports == {User, User485}

ASSUME RxAssumption == /\ User # User485 /\ None \notin Ports
                       /\ BufSize \in Nat /\ BufSize > 1
                       /\ FrameMax \in Nat \ {0}
                       /\ MaxBytes \in Nat \ {0} /\ MaxCount \in Nat \ {0}

VARIABLES ring,       \* ring[p]: rx_fifo, with get_index and put_index
          arrived,    \* arrived[p]: bytes received by the UART, up to MaxBytes
          isr,        \* the port whose receive interrupt is running, or None
          rx_ind,     \* rx_ind[p]: rx_indicate is set
          sem,        \* sem[p]: l_sem_urx, l_sem_urx485
          pc, cur,    \* where the main thread is, and the port it reads
          mode,       \* "start" (start_mode), and then ModeToRun
          cnt,        \* the bytes of the message it has read
          last,       \* last[p]: the byte last read from p
          early       \* early[p]: bytes that had arrived when rx_indicate was set

uart   == <<ring, arrived, isr, sem>>
thread == <<pc, cur, mode, cnt, last, rx_ind, early>>
vars   == <<uart, thread>>

Byte == Ports \X (1 .. MaxBytes)
Slot == 0 .. BufSize - 1
Ring == [get : Slot, put : Slot, is_full : BOOLEAN, buffer : [Slot -> Byte \cup {None}]]

ModeToRun == {"transparent", "config", "debug"}

TypeOK == /\ ring \in [Ports -> Ring]
          /\ arrived \in [Ports -> 0 .. MaxBytes]
          /\ isr \in Ports \cup {None}
          /\ rx_ind \in [Ports -> BOOLEAN]
          /\ sem \in [Ports -> 0 .. MaxCount]
          /\ pc \in {"read", "pause", "return", "indicate", "take"}
          /\ cur \in Ports
          /\ mode \in {"start"} \cup ModeToRun
          /\ cnt \in 0 .. FrameMax
          /\ last \in [Ports -> Byte \cup {None}]
          /\ early \in [Ports -> 0 .. MaxBytes]

(* The UARTs have been opened; start_mode begins. *)
Init == /\ ring = [p \in Ports |-> [get |-> 0, put |-> 0, is_full |-> FALSE,
                                    buffer |-> [s \in Slot |-> None]]]
        /\ arrived = [p \in Ports |-> 0]
        /\ isr = None
        /\ rx_ind = [p \in Ports |-> FALSE]
        /\ sem = [p \in Ports |-> 0]
        /\ pc = "read" /\ cur = User /\ mode = "start"
        /\ cnt = 0
        /\ last = [p \in Ports |-> None]
        /\ early = [p \in Ports |-> MaxBytes]

-----------------------------------------------------------------------------
(* Faulty variant: wrap one slot too late. *)
StepOffByOne(i) == (i + 1) % (BufSize + 1)

Step(i) == (i + 1) % BufSize

(* Faulty variant: the byte that fills the ring drops none. *)
PutByteNoDrop(r, b) ==
  [r EXCEPT !.put = Step(@), !.buffer[r.put] = b]

(* Put a byte into the ring; if that makes it look empty, drop the oldest. *)
PutByte(r, b) ==
  LET put == Step(r.put)
      hit == put = r.get
  IN  [get |-> IF hit THEN Step(r.get) ELSE r.get,
       put |-> put,
       is_full |-> r.is_full \/ hit,
       buffer |-> [r.buffer EXCEPT ![r.put] = b]]

Empty(r)   == r.get = r.put /\ ~r.is_full
Oldest(r)  == r.buffer[r.get]
GetByte(r) == [r EXCEPT !.get = Step(@), !.is_full = FALSE]

UpTo(max, n) == IF n < max THEN n ELSE max

(* The receive interrupt reads every byte the UART has by then, *)
RxByte(p) ==
  /\ isr \in {None, p}
  /\ isr' = p
  /\ arrived' = [arrived EXCEPT ![p] = UpTo(MaxBytes, @ + 1)]
  /\ ring' = [ring EXCEPT ![p] = PutByte(@, <<p, arrived'[p]>>)]
  /\ UNCHANGED <<sem, thread>>

(* and then calls rx_indicate, which releases the semaphore, once. *)
RxIndicate(p) ==
  /\ isr = p
  /\ isr' = None
  /\ sem' = [sem EXCEPT ![p] = IF rx_ind[p] THEN UpTo(MaxCount, @ + 1) ELSE @]
  /\ UNCHANGED <<ring, arrived, thread>>

-----------------------------------------------------------------------------
(* No thread runs during an interrupt. *)
At(label) == isr = None /\ pc = label

(* usart_read: take a byte out of the ring, *)
ReadByte ==
  /\ At("read")
  /\ cnt < FrameMax /\ ~Empty(ring[cur])
  /\ cnt' = cnt + 1
  /\ last' = [last EXCEPT ![cur] = Oldest(ring[cur])]
  /\ ring' = [ring EXCEPT ![cur] = GetByte(@)]
  /\ UNCHANGED <<pc, cur, mode, rx_ind, early, arrived, isr, sem>>

(* find that there is none, or no room for it; debug mode reads with a
   timeout of 0, which ends there, *)
ReadNone ==
  /\ At("read")
  /\ \/ cnt = FrameMax /\ pc' = "return"
     \/ /\ cnt < FrameMax /\ Empty(ring[cur])
        /\ pc' = IF mode = "debug" THEN "return" ELSE "pause"
  /\ UNCHANGED <<cur, mode, cnt, last, rx_ind, early, uart>>

(* find a byte after a tick, or return at the end of the pause; a tick later
   with nothing there is no step. *)
Pause ==
  /\ At("pause")
  /\ \/ ~Empty(ring[cur]) /\ pc' = "read"
     \/ pc' = "return"
  /\ UNCHANGED <<cur, mode, cnt, last, rx_ind, early, uart>>

(* start_mode reads both ports, one after the other, until it has something.
   Its bytes name a mode: transparent, unless there is the name of another one
   among them. *)
StartReturn ==
  /\ At("return") /\ mode = "start"
  /\ \/ cur = User /\ cur' = User485 /\ pc' = "read" /\ UNCHANGED <<cnt, mode>>
     \/ /\ cur = User485 /\ cnt = 0
        /\ cur' = User /\ pc' = "read" /\ UNCHANGED <<cnt, mode>>
     \/ /\ cur = User485 /\ cnt # 0
        /\ cur' = User /\ cnt' = 0
        /\ mode' \in ModeToRun
        /\ pc' = IF mode' = "transparent" THEN "indicate" ELSE "read"
  /\ UNCHANGED <<last, rx_ind, early, uart>>

Other(p) == IF p = User THEN User485 ELSE User

(* Faulty variant: a round of ghConfig that read nothing from the first port
   starts over. *)
PollReturnContinues ==
  /\ At("return") /\ mode \in {"config", "debug"}
  /\ pc' = "read"
  /\ cur' = IF cnt = 0 /\ mode = "config" THEN User ELSE Other(cur)
  /\ cnt' = IF mode = "config" /\ cur = User THEN cnt ELSE 0
  /\ UNCHANGED <<mode, last, rx_ind, early, uart>>

(* ghConfig reads both ports into one buffer and looks for a command in it,
   USERCOM_direct_BC95COM passes on what it read from each port; both go on
   with the other port. *)
PollReturn ==
  /\ At("return") /\ mode \in {"config", "debug"}
  /\ pc' = "read" /\ cur' = Other(cur)
  /\ cnt' = IF mode = "config" /\ cur = User THEN cnt ELSE 0
  /\ UNCHANGED <<mode, last, rx_ind, early, uart>>

(* rt_sem_create and usart_set_rx_indicate, for one port and then the other. *)
SetIndicate ==
  /\ At("indicate")
  /\ rx_ind' = [rx_ind EXCEPT ![cur] = TRUE]
  /\ early' = [early EXCEPT ![cur] = arrived[cur]]
  /\ \/ cur = User /\ cur' = User485 /\ UNCHANGED pc
     \/ cur = User485 /\ cur' = User /\ pc' = "take"
  /\ UNCHANGED <<mode, cnt, last, uart>>

(* The loop of main_entry: take a semaphore and read its port, *)
SemTake ==
  /\ At("take")
  /\ sem[cur] > 0
  /\ sem' = [sem EXCEPT ![cur] = @ - 1]
  /\ pc' = "read"
  /\ UNCHANGED <<cur, mode, cnt, last, rx_ind, early, ring, arrived, isr>>

(* Faulty variant: wait for the first semaphore only. *)
SemTimeoutFirstOnly ==
  /\ At("take") /\ sem[cur] = 0
  /\ UNCHANGED vars

(* or time out and try the other one. *)
SemTimeout ==
  /\ At("take")
  /\ sem[cur] = 0
  /\ cur' = Other(cur)
  /\ UNCHANGED <<pc, mode, cnt, last, rx_ind, early, uart>>

(* Faulty variant: drop the counts of bytes already read. *)
LoopReturnDrains ==
  /\ At("return") /\ mode = "transparent"
  /\ sem' = [sem EXCEPT ![cur] = 0]
  /\ pc' = "take" /\ cur' = User
  /\ cnt' = 0
  /\ UNCHANGED <<mode, last, rx_ind, early, ring, arrived, isr>>

(* What was read is pushed as a message, unless it is empty; then the loop
   starts over at the first semaphore. *)
LoopReturn ==
  /\ At("return") /\ mode = "transparent"
  /\ pc' = "take" /\ cur' = User
  /\ cnt' = 0
  /\ UNCHANGED <<mode, last, rx_ind, early, uart>>

-----------------------------------------------------------------------------
MainStep == ReadByte \/ ReadNone \/ Pause \/ StartReturn \/ PollReturn
            \/ SetIndicate \/ SemTake \/ SemTimeout \/ LoopReturn

Next == MainStep \/ \E p \in Ports : RxByte(p) \/ RxIndicate(p)

(* Interrupts return, and leave the main thread time to run: it is more
   urgent than all who are busy, and a UART slower than the processor. *)
Fairness == /\ SF_vars(MainStep)
            /\ \A p \in Ports : WF_vars(RxIndicate(p))

Spec == Init /\ [][Next]_vars /\ Fairness

-----------------------------------------------------------------------------
(* What a ring holds, oldest first. *)
Length(r)   == (r.put + BufSize - r.get) % BufSize
Contents(r) == [k \in 1 .. Length(r) |-> r.buffer[(r.get + k - 1) % BufSize]]

(* Each ring is a FIFO of BufSize - 1 bytes: bytes are read in the order
   they arrived, none twice, and none is dropped but the oldest, when one
   more arrives at a full ring (serial.c:1141).  The index arithmetic and
   the is_full flag keep to that however reads and interrupts interleave. *)
Fifo(p) == INSTANCE LossyFifo WITH Value <- Byte, NoValue <- None,
                                   Capacity <- BufSize - 1,
                                   fifo <- Contents(ring[p]), taken <- last[p]
FifoStep(p) == \/ \E b \in Byte : Fifo(p)!Put(b) \/ Fifo(p)!Displace(b)
               \/ Fifo(p)!Take
               \/ UNCHANGED <<Contents(ring[p]), last[p]>>
RingDropsOnlyOldest ==
  /\ \A p \in Ports : Fifo(p)!FifoInit
  /\ [][\A p \in Ports : FifoStep(p)]_vars

(* A byte that arrived after rx_indicate was set is never forgotten in the
   ring: the semaphore counts it, or the main thread is still reading.  This
   takes a read buffer that holds all a ring can hold (FrameMax 512, BufSize
   512).  Bytes that arrive between start_mode and usart_set_rx_indicate
   (main.c:1335, 1352) are not covered: they wait for the next one. *)
Waiting(p) == \E i \in DOMAIN Contents(ring[p]) : Contents(ring[p])[i][2] > early[p]
NoByteForgotten ==
  \A p \in Ports : Waiting(p) =>
    isr = p \/ sem[p] > 0 \/ (cur = p /\ pc \in {"read", "pause"})

(* A port that holds bytes for ever is read for ever. *)
ReadAgain(p) == []<><<ReadByte /\ cur = p>>_vars

(* The bytes that wait at the first port are read however many arrive, those
   at the second one once the first falls silent: its semaphore is looked at
   only after a timeout on the first one, which holds a count for nearly
   every byte, read or not, and so must be taken for nothing many times
   (main.c:1356, 1368).  A first port that never falls silent may starve it. *)
EveryPortIsRead ==
  LET served(p) == []<>~Waiting(p) \/ ReadAgain(p)
  IN  served(User) /\ (<>[](isr # User) => served(User485))

(* The console and debug modes have no semaphores: they come round to every
   byte, also to those left in a ring by start_mode, however much arrives at
   the other port.  The console reads both ports into one buffer (main.c:867,
   870): the second one is read if the first does not, from some round on,
   fill the buffer alone every time. *)
RoomLeft == []<><<PollReturn /\ cur = User /\ cnt < FrameMax>>_vars
PolledPortIsRead ==
  LET served(p) == []<>Empty(ring[p]) \/ ReadAgain(p)
  IN  /\ <>[](mode \in {"config", "debug"}) => served(User)
      /\ <>[](mode = "debug") => served(User485)
      /\ <>[](mode = "config") /\ RoomLeft => served(User485)
=============================================================================
