----------------------------- MODULE SerialDmaRx -----------------------------
(***************************************************************************)
(* Reception by DMA (rt_ext/serial.c and rt_ext/usart.c; compiled in, no   *)
(* UART of this firmware opens it).  The DMA writes a circular buffer by   *)
(* itself; two interrupts tell the software how far it is: the one at the  *)
(* end of the buffer and the one of an idle line, and the software keeps   *)
(* its own indices of the same buffer from the lengths they report.        *)
(*                                                                         *)
(* The bytes that arrive are numbered in turn, modulo RxNumbers.           *)
(***************************************************************************)
EXTENDS Integers

CONSTANT RxSize   \* serial->config.bufsz, the length of buffer and DMA

ASSUME RxSizeAssumption == RxSize \in Nat /\ 2 <= RxSize /\ RxSize <= 32768

RxNumbers == RxSize + 1

VARIABLES dmaPos,    \* next position of the DMA: setting_recv_len - counter
          dmaTc,     \* the interrupt of the end of the buffer is pending
          idle,      \* the one of the idle line is: "no", "pending", "entered"
          lastRecv,  \* uart->dma.last_recv_index
          rx_fifo,   \* get_index, put_index, is_full
          rxCell,    \* the buffer: the number of the byte in each cell
          arriving,  \* number of the next byte to arrive
          reading,   \* number of the next byte a reader should get
          exact      \* no byte was overwritten unread, no length misreported,
                     \* since the ring was last empty

dmaVars == <<dmaPos, dmaTc, idle, lastRecv, rx_fifo, rxCell>>
rxVars  == <<dmaVars, arriving, reading, exact>>

RxNumber == 0 .. RxNumbers - 1

RxTypeOK ==
  /\ dmaPos \in 0 .. RxSize - 1 /\ lastRecv \in 0 .. RxSize - 1
  /\ dmaTc \in BOOLEAN /\ idle \in {"no", "pending", "entered"}
  /\ rx_fifo \in [get : 0 .. RxSize, put : 0 .. RxSize - 1, is_full : BOOLEAN]
  /\ rxCell \in [0 .. RxSize - 1 -> RxNumber]
  /\ arriving \in RxNumber /\ reading \in RxNumber /\ exact \in BOOLEAN

(* rt_serial_open with RT_DEVICE_FLAG_DMA_RX, DMA_Configuration. *)
RxInit ==
  /\ dmaPos = 0 /\ dmaTc = FALSE /\ idle = "no" /\ lastRecv = 0
  /\ rx_fifo = [get |-> 0, put |-> 0, is_full |-> FALSE]
  /\ rxCell = [c \in 0 .. RxSize - 1 |-> 0]
  /\ arriving = 0 /\ reading = 0 /\ exact = TRUE

(* _serial_fifo_calc_recved_len. *)
RecvedLen(f) ==
  IF f.put = f.get THEN IF f.is_full THEN RxSize ELSE 0
  ELSE IF f.put > f.get THEN f.put - f.get
  ELSE RxSize - (f.get - f.put)

(* rt_dma_recv_update_get_index, with 16-bit indices: the index may stay at
   RxSize. *)
GetAdvanced(f, len) ==
  LET get == (f.get + len) % 65536
  IN  [put |-> f.put,
       get |-> IF get > RxSize THEN get % RxSize ELSE get,
       is_full |-> f.is_full /\ len = 0]

(* rt_dma_recv_update_put_index. *)
PutAdvanced(f, len) ==
  LET put     == (f.put + len) % 65536
      wrapped == IF put >= RxSize THEN put % RxSize ELSE put
      passed  == IF f.get <= f.put THEN put >= RxSize /\ wrapped >= f.get
                                   ELSE put >= f.get
      get     == IF passed THEN wrapped ELSE f.get
  IN  [put |-> wrapped,
       get |-> IF get >= RxSize THEN 0 ELSE get,
       is_full |-> f.is_full \/ passed]

-----------------------------------------------------------------------------
(* Bytes the DMA has written and no interrupt has reported. *)
Unreported == dmaPos - lastRecv + (IF dmaTc THEN RxSize ELSE 0)

Pending == (arriving - reading) % RxNumbers

(* The DMA stores a byte and, at the end of the buffer, starts again.  It
   does not come to the end twice before its interrupt is served once. *)
DmaByte ==
  /\ ~(dmaTc /\ dmaPos = RxSize - 1)
  /\ rxCell' = [rxCell EXCEPT ![dmaPos] = arriving]
  /\ arriving' = (arriving + 1) % RxNumbers
  /\ dmaPos' = (dmaPos + 1) % RxSize
  /\ dmaTc' = (dmaTc \/ dmaPos = RxSize - 1)
  /\ exact' = (exact /\ Pending < RxSize)
  /\ UNCHANGED <<idle, lastRecv, rx_fifo, reading>>

IdleLine == idle = "no" /\ idle' = "pending"
            /\ UNCHANGED <<dmaPos, dmaTc, lastRecv, rx_fifo, rxCell, arriving,
                           reading, exact>>

(* Faulty variant: the next length counts from where the buffer ended. *)
DmaRxDoneKeepsLast ==
  /\ dmaTc /\ idle # "entered"
  /\ dmaTc' = FALSE
  /\ rx_fifo' = PutAdvanced(rx_fifo, RxSize - lastRecv)
  /\ UNCHANGED <<dmaPos, idle, lastRecv, rxCell, arriving, reading, exact>>

(* dma_rx_done_isr, and rt_hw_serial_isr for the length it reports. *)
DmaRxDone ==
  /\ dmaTc /\ idle # "entered"
  /\ dmaTc' = FALSE
  /\ lastRecv' = 0
  /\ rx_fifo' = PutAdvanced(rx_fifo, RxSize - lastRecv)
  /\ UNCHANGED <<dmaPos, idle, rxCell, arriving, reading, exact>>

(* dma_uart_rx_idle_isr: the other interrupt is served before it if both are
   pending, and not while it runs; the DMA goes on writing meanwhile. *)
IdleEnter ==
  /\ idle = "pending" /\ ~dmaTc
  /\ idle' = "entered"
  /\ UNCHANGED <<dmaPos, dmaTc, lastRecv, rx_fifo, rxCell, arriving, reading, exact>>

(* The length is the difference to the last position.  When the DMA has gone
   round in between it is negative, and the bytes up to the end of the
   buffer will be reported a second time. *)
IdleReport ==
  LET len == dmaPos - lastRecv
  IN  /\ idle = "entered"
      /\ idle' = "no"
      /\ lastRecv' = dmaPos
      /\ rx_fifo' = IF len = 0 THEN rx_fifo ELSE PutAdvanced(rx_fifo, len)
      /\ exact' = (exact /\ ~dmaTc)
      /\ UNCHANGED <<dmaPos, dmaTc, rxCell, arriving, reading>>

(* _serial_dma_rx of n bytes, by a thread, with interrupts off.  A reader who
   empties a ring that nothing is on its way to has caught up. *)
DmaRead(n) ==
  LET len == IF n < RecvedLen(rx_fifo) THEN n ELSE RecvedLen(rx_fifo)
      caughtUp == len = RecvedLen(rx_fifo) /\ Unreported = 0
  IN  /\ idle # "entered"
      /\ rx_fifo' = GetAdvanced(rx_fifo, len)
      /\ reading' = IF caughtUp THEN arriving ELSE (reading + len) % RxNumbers
      /\ exact' = (exact \/ caughtUp)
      /\ UNCHANGED <<dmaPos, dmaTc, idle, lastRecv, rxCell, arriving>>

RxNext == \/ DmaByte \/ IdleLine \/ DmaRxDone \/ IdleEnter \/ IdleReport
          \/ \E n \in 1 .. RxSize : DmaRead(n)

RxSpec == RxInit /\ [][RxNext]_rxVars

-----------------------------------------------------------------------------
(* The software's indices follow the DMA: as long as no unread byte was
   overwritten and no interrupt fell into the other one, the ring counts
   every byte reported and not read, and a read returns them in the order
   they arrived, from the cells they are in; and the next read after the
   reader has caught up starts right again, whatever happened before. *)
DmaReadsInOrder ==
  exact =>
    /\ RecvedLen(rx_fifo) + Unreported = Pending
    /\ \A k \in 0 .. RecvedLen(rx_fifo) - 1 :
         rxCell[(rx_fifo.get + k) % RxSize] = (reading + k) % RxNumbers
=============================================================================
