# TLA+ project for the gemho NB-IoT module

The firmware turns a serial device (RS232 or RS485) into an NB-IoT one: bytes
from the two user UARTs become messages, messages go through a FIFO to a
sender thread, and the sender drives a BC95 modem over a third UART with AT
commands. A console, reached by a keyword at start-up, sets a configuration
kept in an I2C EEPROM. It runs on an STM32F103 under RT-Thread; `src/src/` is
the application, `src/rt_ext/` the RT-Thread device drivers and IPC it is built
with. Paths below are relative to `src/` (`main.c` is `src/main.c` there).

## The system

| Part | Code | State | Operations |
|---|---|---|---|
| Data queue | `rt_ext/dataqueue.c` | ring of pointers, two 16-bit indices, two lists of suspended threads | init, push, pop, peak, reset |
| Message FIFO | `src/msg_fifo.c` | `push_queue` (free units), `pop_queue` (messages), the units | `msg_init`, `msg_push`, `msg_pop`, `msg_destory` |
| Serial reception | `rt_ext/serial.c`, `rt_ext/usart.c`, `src/usart_utils.c`, `main.c` | a byte ring and a semaphore per port, the message being read | receive interrupt, `usart_read`, `start_mode`, `main_entry` |
| Serial transmission | the same files, `rt_ext/completion.c` | data and shift register, TC flag and its interrupt, completion | `usart_write`, TC interrupt |
| Configuration store | `src/config_utils.c`, `src/SEE_i2c.c`, `main.c` | configuration in RAM, EEPROM bytes, the bus | `load_config`, AT+SAVE, AT+DELO, button, power failure |
| Sender and recovery | `main.c` | message in hand, `failTimes`, status; the modem's baud rate, socket, attachment | `thread_msgSend`, `BC95_statusManage`, `config_bc95` |
| Serial DMA | `rt_ext/serial.c`, `rt_ext/usart.c` | a data queue of blocks and `activated`; a circular buffer and the indices kept of it | `_serial_dma_tx`, `_serial_dma_rx`, three interrupts |
| RS485 direction | `src/usart_utils.c` | a pin | `usart_write` |
| Console | `main.c`, `src/utils.c` | line buffer, configuration in RAM | `ghConfig`, the thirteen AT commands |
| Lamps | `main.c` | `l_devStatus`, a queue of ten blink orders | `status_entry`, `midLight_action`, `midLight_entry` |
| Button, watchdog, boot | `main.c` | a semaphore, hold times | `key_entry`, `wdt_entry`, `main` |
| Ring buffer | `rt_ext/ringbuffer.c` | cells, two indices, two mirror bits | put, get, their forced and one-byte forms |
| Pipe, wait queue | `rt_ext/pipe.c`, `rt_ext/waitqueue.c` | a ring, readers and writers, two queues of waiting threads | open, close, read, write |
| Work queue | `rt_ext/workqueue.c` | a list of works, the running one, a semaphore | dowork, cancel, cancel_sync, cancel_all, the work thread |

The firmware is built with the pipe, the work queue and the DMA modes of the
serial driver and uses none of them: they are modelled as the components they
are for whoever opens them. The file operations of the pipe are compiled only
under `RT_USING_POSIX`, which this build's `rtconfig.h` does not define; what is
said of them holds for a build that does.

Threads, most urgent first: key and watchdog (1), main (2), sender (3), status
and lamp (5) (`main.c` 1331, 1517-1535). One core, strict priorities; a thread
runs until it blocks or a more urgent one wakes up. `RT_ASSERT` is compiled out.

How the parts interact:

- receive interrupt → ring → `rx_indicate` → semaphore → main thread →
  `msg_push` → data queue → sender thread → `usart_write` → TC interrupt;
- the key thread pushes a message (short press) or saves the default
  configuration (long press), in the middle of whatever the main thread does;
- the modem's UART is written and read by the sender thread and, in the console
  and debug modes, by the main thread too, with no lock;
- every thread may order the middle lamp to blink, through a queue of ten;
- `l_nbModuConfig` and `l_devStatus` are plain shared variables.

What is hard in this code: message units used outside critical sections; two
unlocked writers of one UART and of one EEPROM; a debug mode whose thread never
waits (`main.c` 661-683 reads with timeout 0, which `usart_utils.c` 183-186 ends
without a delay), so that less urgent threads may never run again; ports looked
at in a fixed order, so that a busy one starves the next; 16-bit indices that wrap;
semaphore counts that outlive the bytes they counted; power failure between
the bytes of a save; answers of the modem that carry no number; a recovery that
has to recognise every state a failure can leave; a mutex released before the
thread is on the list it will be woken from; a thread resumed after the
interrupts are enabled again; two interrupts that keep one set of indices.
`PROJECT.json` lists each
hazard at its line with the properties that cover it.

What makes each part correct, in short:

- FIFO: a unit is in one place; the length is kept; messages leave in order and
  unaltered; only the oldest goes, and only when there is no room; a message is
  refused only while every unit is in some hand; the sender is not left asleep.
- reception: bytes leave a ring in order, dropped only when it is full; none is
  forgotten in it; the first port is served however much arrives, the second one
  once the first falls silent (in the console: when the first leaves it room).
- transmission: what is written leaves, in order; `usart_write` returns, except
  in a thread less urgent than one that polls in debug mode.
- store: a boot reads a configuration that was saved as a whole, or the default;
  a save ends; a save that was answered is what the next boot reads.
- sender: a message reported as sent was taken by the modem; every message is
  sent once the modem and the network are well; the lamp tells the truth in the end.
- console: whatever is typed, the configuration is one the next boot can use,
  and the answers are true.
- lamp: the button's order is shown even when the queue is full, in the modes in
  which the main thread waits for something (not in debug mode).
- ring and pipe: a bounded channel of bytes; nobody sleeps in vain.
- work queue: a work is in one place, runs unless it is cancelled, and is over
  when a synchronous cancellation returns.
- DMA: blocks go out in turn, bytes are read in order, once.

## Modules

| Module | Models | Checked by | Proved |
|---|---|---|---|
| `DataQueue` | the data queue as operators on a queue value | through `MsgFifo`, `SerialDmaTx` | `DataQueueProofs` |
| `LossyFifo` | the promise of FIFO and receive ring: a bounded FIFO that prefers new data | as a refinement target | from `MsgFifo` and from `MainRx` |
| `MsgFifo` | the FIFO as its three users share it | `fifo_order`, `fifo_wrap` | `MsgFifoProofs` |
| `MainRx` | reception in the three modes | `rx` | `MainRxProofs` |
| `SerialTx` | transmission by several threads | `tx`, `tx_assert` | `SerialTxProofs` |
| `ConfigStore` | configuration in RAM and EEPROM | `config`, `config_answered` | `ConfigStoreProofs` |
| `MsgSender` | sender, recovery and modem | `sender`, `sender_late`, `sender_stuck` | `MsgSenderProofs` |
| `RingBuffer` | the ring buffer as operators on a ring value | through `Pipe` | every operation, `PipeProofs` |
| `ByteChannel` | the promise of the pipe: a bounded channel of bytes | as a refinement target | from `Pipe` |
| `Pipe` | the pipe over ring and wait queues | `services`, `pipe_full` | `PipeProofs` |
| `WorkQueue` | works, clients and the work thread | `services` | `ServicesProofs` |
| `SerialDmaTx`, `SerialDmaRx` | transmission and reception by DMA | `services` | `ServicesProofs` |
| `AtConsole` | the console's dispatcher and commands | `services` | `ServicesProofs` |
| `LampQueue` | orders to the middle lamp | `services` | type invariant, `ServicesProofs` |
| `Services` | the six parts above side by side | `services` | type invariant, `ServicesProofs` |

`MCMsgFifo`, `MCSerialTx`, `MCConfigStore`, `MCPipe` and `MCServices` give the
constants values for TLC. `Services` puts the six parts before it into one
specification: they share no state, so a behaviour of it is a behaviour of one of
them, named by `service`, while the others stay where they began, and its
states are the sum of theirs. A property of one part is then checked on exactly
the behaviours that part has.
In every module some definitions marked "Faulty variant" stand next to the one
they vary: they state, in TLA+, the mistake the properties must detect, and no
specification uses them.

**DataQueue, MsgFifo.** A data-queue operation runs with interrupts off and is
one atomic step. `msg_push` is `PushStart` (pop of a free unit, or not), then
`PushSteal` or `PushRefused` (pop of the oldest message), `PushFill` (the
`memcpy`) and `PushQueue`; `msg_pop` is `PopTest` (with its wait and wake-up),
`PopTimeout`, `PopCopy` and `PopReturn`. `mu[t]` is the local variable of that
name. `CanRun` is the scheduler: a thread steps only while no more urgent one
wants the processor; timeouts and wake-ups come at any time. The contents of a
message is a model value. The indices are counted modulo `IndexMod`, 2^16 in
the code.

**MainRx.** `RxByte` and `RxIndicate` are the receive interrupt: one or several
bytes, then one semaphore count. Bytes may arrive for ever: what is bounded is
their numbers, which stay at `MaxBytes` once there, and the count of a
semaphore, which stays at `MaxCount`. Of the message being read only the number
of bytes (`cnt`) and the last byte of each port (`last`) are kept. `usart_read`
is `ReadByte`, `ReadNone` and `Pause`; the end of the 100 ms pause is a choice.
`StartReturn` is what `start_mode` does with each read (it joins what the two
ports gave into one message, as the code does) and chooses the mode,
`SetIndicate` the two callbacks, and `SemTake`, `SemTimeout` and `LoopReturn`
the loop of transparent mode. In the other two modes `PollReturn` goes from port
to port: `ghConfig` joins what both gave, `USERCOM_direct_BC95COM` passes each
on. `early` is a history variable.

**SerialTx.** One step per register access and per critical section:
`TestTxe`, `PutByte`, `EnableTc`, `ArmTc` are `stm32_putc`; `CompletionWait` and
`CompletionWoken` are `rt_completion_wait`; `TcIsr` is the interrupt with
`rt_completion_done`; `LoadShift` and `SendFrame` are the hardware. A
member of `Pollers`, the main thread, may come to run `USERCOM_direct_BC95COM`
(`StartPolling`): from then on, outside `usart_write`, it keeps the processor
from the less urgent ones unless it is suspended on another UART (`Starved`).
The zero-length write and the RS485 pin are left out.

**ConfigStore.** One action per I2C transaction. A save is `SaveStart`, then
`ByteStart`/`ByteDone` per byte or `ByteFail`, which retries as the caller
does. The bus is free, held by a transaction, or stuck. The key thread preempts
the console at any step. `Crash` cuts the power at any step, with a byte being
programmed lost or not. The CRC stands for the configuration it was computed
from: collisions are ignored. `known` and `answer` are history variables.

**MsgSender.** Each loop "write a command, read the answer, up to three times"
(`coap_msgSend`, `udp_msgSend`, `get_CGATT`, `set_CGATT`) is an exchange:
`WriteCommand`, then `ReadAnswer` or `ReadNothing`. `Success` and `Failure` say
what the caller does next, `ManageRound` and `NextRound` are the loop of
`BC95_statusManage`, `Managed` and `WakeUp` the retry with its pause.
`config_bc95` is one step; if it fails, any pair of baud rates is possible, for
the host changes its own after an OK that need not be the modem's answer to the
change. The modem is external: it answers in order, refuses a message when it
is not attached or has no socket, loses what was configured when it restarts.

**RingBuffer, Pipe, ByteChannel.** What `pipe.c` does under the mutex of the
pipe is one action (`OpenFile`, `CloseFile`, `ReadTry`, `WriteTry`); what lies
between its release and the suspension is `WakeOther`, `AddWaiter` and
`Suspend`, and other threads run between them. `posix` chooses between the two
forms of the file: with file operations, which block, or as a plain device
(`DeviceOpen` to `DeviceWrite`), which does not. `PipeChannel` maps the ring to
the bytes it holds. `got` is the block handed over by the last step.

**WorkQueue.** The list and `work_current` change with interrupts off: one
action each. `DoWork` and `Resume` are two steps, as are `Check` and
`SuspendSelf`. A work thread that takes a work from an empty list is `lost`:
the code then runs whatever the list head holds.

**SerialDmaTx, SerialDmaRx.** `DmaPush` and `DmaActivate` are the two critical
sections of `_serial_dma_tx`, `TxDmaDone` the interrupt. `DmaByte` and
`IdleLine` are hardware; `DmaRxDone` and `IdleEnter`/`IdleReport` the two
interrupts, the second in two steps because the DMA goes on meanwhile.
`disturbed` and `exact` record that one of the cases listed in their comments
has happened, in which the code gives no guarantee.

**AtConsole.** What a port delivers in a round is a record: the command, its
form, the numbers after it, whether the line is complete. `ConsoleRead` joins
the two ports; the handlers are named as in `cmdExe`. A line cut in two reads is
dropped by the code (`cnt` restarts at 0), and by `NoEndOfLine`. `before` is a
history variable.

**LampQueue.** `midLight_action` is `OrderLamp`, or `OrderUrgently` followed on
a full queue by `MakeRoom` and `OrderAgain`; `midLight_entry` is `TakeOrder` and
`EndOrder`. `StartPolling` is the main thread's choice of the debug mode, in
which it gives no more orders and need not let the lamp thread run.

## Runs

| Run | Instance | Shows |
|---|---|---|
| `fifo_order` | 2 units, 2 producers and the sender, 2 messages (symmetric), indices mod 4 | type, single ownership, no lost wake-up, eviction only when no unit is free, refusal only while all units are in hand, refinement of `LossyFifo` |
| `fifo_wrap` | 3 units, indices mod 4 | **violation** of `KeepsItsLength` |
| `rx` | 2 ports, rings of 2 bytes (3 slots), messages of 2 bytes, bytes arrive for ever, numbered up to 2, counts up to 1 | rings are FIFOs, no byte is forgotten, the first port is read whatever happens, the second one when the first is silent or leaves room |
| `tx` | 2 writers, 3 bytes each, the more urgent may come to poll | order, wake-ups, overrun only with two writers, `usart_write` returns unless a more urgent thread polls |
| `tx_assert` | the same | **violation** of `OneThreadSuspends` |
| `config` | 3 configurations of 2 bytes, CRC of 2 bytes | whole configurations only, undisturbed saves are stored, saves end |
| `config_answered` | the same | **violation** of `AnsweredSaveIsStored` |
| `sender` | 2 messages, 2 faults, answers in time | reports are true, messages are sent or the modem is unconfigured, the lamp recovers |
| `sender_late` | 2 messages, 1 fault, 1 late answer | **violation** of `ReportedWasAccepted` |
| `sender_stuck` | as `sender` | **violation** of `EveryMessageIsSent` |
| `services` | pipe: ring of 2, a reader and a writer that may not want to wait; work queue: 2 works, 2 clients; DMA: queue of 2 with indices mod 8, 3 writers, receive ring of 3; console: 30 lines; lamp: queue of 3 | the ring is a FIFO at every place of its indices, the pipe is a channel, readers return, works are served and cancelled, blocks and bytes keep their order, the configuration stays usable and the answers true, the button is shown unless the main thread polls |
| `pipe_full` | ring of 2, one reader, one writer | **violation** of `WriterWaitsOnFullPipe` |

Why the bounds are enough. FIFO: two units for three threads is the smallest
length at which both queues can be empty, the eviction and the refusal both
happen, and the indices wrap many times; with three units each thread can hold
one. The proofs remove the bounds. Reception: rings overflow, messages fill
their buffer, and bytes arrive before, during and after the callbacks are set.
`MaxBytes` and `MaxCount` stop no byte and no interrupt: numbers and counts
saturate, so that traffic that never ends is a cycle TLC finds. Bytes beyond the
first two of a port look alike in the run; that they keep their order too is
proved, for every `MaxBytes`. A count of one is enough to be left over for
nothing, which is what keeps the loop at the first port. Transmission: three
bytes fill both registers and make the writer wait. Store: two bytes and two CRC
bytes suffice for a mixture of two images at every boundary. Sender: two
messages are needed for a late answer to meet another message; two faults allow
a failure during the recovery from one.

Services: in a ring of two every block of two goes round the end, and every pair
of indices with every pair of mirrors occurs; blocks of up to two bytes
(`MaxBlock`) meet a ring with no room, some room and enough, and two values of a
byte (`LastByte`) show an exchange of neighbours. `Impatient` are the threads
that may open with O_NONBLOCK. Two clients are the least for a late resume, two
works for a work queued behind another; the work thread is the most urgent in
this run, so a client that runs between its look at the list and its suspension
(`rt_ext/workqueue.c:72`) is not in it: `WorkNeverForgotten` is proved for a
work thread at least as urgent as its clients, and nothing is said of one that
is less urgent. Three DMA writers on a queue of two leave two of them suspended
(`BlockedPushReturns` speaks of the most urgent of them: a less urgent one may
be outrun by the others for ever); `MaxQueued` bounds the queue when the wrapped
indices hide that it is full, `LastBlock` the numbers of blocks. A receive ring
of `RxSize` = 3 has room for a reader, two interrupts and the DMA to be at
different places. A lamp queue of `LampMax` = 3 is full, and refilled while an
urgent order makes room, as one of ten is. The console lines are one of each
kind: accepted, just out of range on either side, wrapped into a byte, cut off.

`IndexMod` = 4 with three units reproduces 2^16 with three or five: what matters
is that the size does not divide the range (`Aligned` is false).

## Findings

1. `fifo_wrap`: with the lengths 3 and 5 (5 is the default, AT+MSGS allows 1 to
   5) the 16-bit index wrap at `rt_ext/dataqueue.c:123` loses a unit, and the
   FIFO is shorter than configured from then on.
2. `tx_assert`: "only one thread can suspend on complete"
   (`rt_ext/completion.c:58`), but the sender and the main thread both write to
   the modem's UART. Bytes may be overwritten (`OverrunTakesTwoWriters`).
   The two wake each other up all the same (`WakeUpOnItsWay`), and `usart_write`
   returns, but with one exception (`WriteReturns`): the main thread polls in
   debug mode without ever waiting, and a sender it meets inside `usart_write`
   may stay there.
3. `config_answered`: the button's save inside the console's: AT+SAVE answers
   OK and the next boot finds a bad CRC.
4. `sender_late`: an OK that comes late is taken for the answer to the next
   message, which is reported as sent.
5. `sender_stuck`: after a configuration that failed half-way the modem may be
   attached but have no socket; the recovery sees an attached modem, declares
   DEVICEOK, and the message is retried for ever.

6. `pipe_full`: `pipe_fops_write` releases the mutex before it is on the list
   of waiting writers (`rt_ext/pipe.c:242`); a reader that empties the pipe in
   between wakes nobody, the writer then waits on a pipe that is not full
   ("pipe full, waiting on suspended write list", line 244), and the reader on
   an empty one.

What the passing runs say with a condition is worth as much: a DMA block may be
sent twice or out of turn, but only if two writers, or a writer and the
interrupt of its own block, meet between lines 515 and 518 of `rt_ext/serial.c`
(`SentInTurnUnlessDisturbed`); the work thread may wake up to an empty list, but
only through a client outranked by another one
(`FindsWorkUnlessResumedLate`). And three services end where somebody keeps the
processor, or the program's attention, for himself; without the condition TLC
finds each property violated:

- a second port behind a first one that never falls silent. In transparent mode
  the first semaphore is taken again after every message and holds a count for
  nearly every byte, read or not, so its wait need not time out
  (`main.c:1356`, `EveryPortIsRead`); in the console the first port may fill the
  128 bytes both share, and the second read then gets no room (`main.c:870`,
  `PolledPortIsRead`). Debug mode serves both, and the console does in rounds
  that leave room.
- a sender inside `usart_write` (`WriteReturns`) and the lamp thread
  (`ButtonIsShown`) once the main thread, more urgent than both, polls in debug
  mode.

## Fairness

`MsgFifo` states none: its properties are safety. `MainRx`: interrupts return
(weak), and the main thread gets its turn between them (strong: interrupts come
again and again, but a byte takes a UART longer than the processor to read, and
only threads that sleep are more urgent). How its waits end is open: a pause may
last as long as bytes come, so that nothing is assumed of the second port.
`SerialTx`: the interrupt is taken when enabled, the UART shifts, and a thread
inside `usart_write` runs when no more urgent one is inside it or polls outside
it (weak). More urgent threads outside `usart_write` that do not poll wait for
something: the console's reads sleep a tick each time they find nothing.
`ConfigStore`: a save in progress goes on; strongly for the console's, which the
button preempts, but the key thread sleeps between presses. `MsgSender`: the
thread runs, an hour passes, the modem answers what it received and finds the
network again. Every fault uses up the bound `MaxFaults`; so does an attachment
slower than the sender's wait of one or two minutes, since nothing in the code
makes the modem attach in that time. The debug mode is excluded there: its main
thread never waits, and the sender need not run. `Pipe`, `WorkQueue`,
`SerialDmaTx`: the processor does not stay idle while a thread inside an
operation can run (weak; which one runs is for the priorities to say), work
functions return, the DMA finishes its block. `LampQueue`: orders are rare
against the time a step takes, so that again and again no more urgent thread is
busy (strong), as long as the main thread does not poll in debug mode; of that
mode nothing is assumed. Opening, closing, queueing, typing and pressing are
never fair: nobody has to.

## Proofs

`DataQueueProofs` holds lemmas about the index arithmetic: two live indices
never share a slot, and an enqueue or a dequeue changes nothing else. They need
`Aligned` (the size divides the index range), which is false for 3 and 5, true
for 1, 2 and 4: it is exactly what the finding violates.

`MsgFifoProofs` proves, for any number of threads, any priorities, any messages
and any aligned length: type correctness, `HoldsIffBusy`, `NoLostWakeup`,
`UnitOwnedOnce` and `KeepsItsLength`. `UnitOwnedOnce` is not inductive: the
inductive invariant `IInv` says that no queue holds a unit twice, that the
queues and the hands are disjoint (`Separate`), that together they hold all
units (`AllThere`), and that a thread in the middle of an operation holds one.
The push of a unit in hand then always finds room, which is why the ignored
results of `rt_data_queue_push` do no harm (lemma `RoomForOne`: an injection
from the positions of a queue into the other units). Units move in three ways
(`TakeFree`, `TakeMsg`, `GiveBack`), each a lemma; `StepIInv` has one step per
action. With `SenderLeastUrgent`, the priorities of `main.c`,
`EvictOnlyWhenNoneFree` and `RefusedOnlyWhenAllInHand` follow: nothing is given
back between the two pops of `msg_push`. With at least as many units as threads
besides, `NewestNeverRefused` follows by counting.

`DeliversInOrder`, the refinement of `LossyFifo`, follows from the same
invariant and from `Filled`: a producer that looks for a unit has a message, and
the unit it is about to queue holds one. The lemmas say what each move of a unit
does to the sequence of waiting messages; priorities play no part.

`MainRxProofs` proves reception for any number of bytes, ring size and frame
length: `TypeOK`, `RingDropsOnlyOldest` (each ring refines `LossyFifo`) and
`NoByteForgotten`. The last is about two counts that may drift apart, the
semaphore and what the ring holds. The invariant `RxInv` says that a ring holds
bytes that have arrived, in the order of their numbers, the newest last
(`RingHoldsArrived`), in which mode the callbacks are set (`IndicatorsSet`), and
that as long as no interrupt came since the main thread took the semaphore, what
it has read and what is left is no more than the ring held then
(`ReadsWhatWasThere`). It needs `BufSize <= FrameMax + 1`: one message must have
room for what a ring can hold. Both are 512 in the code; with a longer ring a
message that fills up would leave bytes without a count.

`SerialTxProofs` proves, for any number of writing threads, any number of bytes
and any priorities: `TypeOK`; `BytesInOrder`, with the invariant `OutInv` that
no byte is out that was not accepted, and that a writer which found the data
register empty finds no byte of its own in it when it writes (`OutIsAccepted`,
`NoByteOfItsOwn`); `OverrunTakesTwoWriters`; and `WakeUpOnItsWay`, with
`WakeInv`: those asleep are those on the list (`AsleepWait`), a flag left set
while somebody waits has a writer that will clear it (`FlagHasItsWriter`),
who waits waits for a transmission, the flag of one that has ended, or a writer
who will start one (`SomethingToWaitFor`), and its end raises an interrupt
(`InterruptIsEnabled`). The last two are needed since the end of a transmission,
its flag, the enabling of the interrupt and the wait are four steps of two actors.

`ConfigStoreProofs` proves `TypeOK`, `StoresOnlyWhatWasSaved` and
`UndisturbedSaveIsStored` for any set of configurations and any length of the
image and of its CRC; of the CRC it is assumed that it is not the value of a
byte lost half-programmed (`Junk`). The invariant relates EEPROM and RAM: a byte
of a CRC comes from a configuration that was saved (`CrcIsOfKnown`,
`SavingIsKnown`), the bus is in the hands of the thread whose transaction it is
(`BusHeld`), what a save has written is still there as long as no other thread
wrote meanwhile (`WrittenSoFar`), and between saves the last answer, if nobody
disturbed it, describes every byte (`AnswerIsImage`). The power may fail at any
step.

`MsgSenderProofs` proves `TypeOK` for any bounds, late answers included, and
`ReportedWasAccepted` for any number of messages and faults when no answer
comes late (`Late = 0`). The invariant says which counts go with which place of
the program (`Placed`), that a command that sends a message names one
(`SendsNameMessage`) and, in time, that at most one command or answer is on its
way and only while it is awaited (`OneAtATime`), so that an OK is the answer to
the message in hand (`AnswerIsForMessage`). `sender_late` shows the property
violated with one late answer: the hypothesis is what the code lacks.

`ServicesProofs` holds the services that share nothing, but for the pipe.
Side by side they keep their types (`ServicesTypeCorrect`), by the inductive
invariant of each: a step of `Services` is a step of one and a stutter of the
others.
*Work queue*, for any works, clients and priorities: `WorkInOnePlace` (a work
leaves the list before it is put there again, and what runs is not on it) and
`CancelSyncWaits`. With clients of distinct priorities
`FindsWorkUnlessResumedLate` follows, and with a work thread at least as urgent
as its clients `WorkNeverForgotten`: when it sleeps and a work is queued, a
client is about to resume it.
*Console*: `ConfigStaysUsable` and `AnswerTellsTheTruth` for every set of lines
`Inputs`: the invariant adds that what an accepted setting changes stays in its
range, whatever the numbers typed.
*DMA transmission*: `SentInTurnUnlessDisturbed` for any writers, priorities and
aligned queue size. `OneStartsTheLine` is the heart of `DmaInv`: until something
comes between a push and its look at `activated`, an active line sends the front
of the queue, and an idle one waits for exactly one writer, whose block is the
only one queued.
*DMA reception*: `DmaReadsInOrder` for every size of the buffer up to 32768 (512
in the code): beyond it the 16-bit sum of `rt_dma_recv_update_get_index` would
wrap. Two counts must
agree, the one of the indices (with a get index that may stand one past the end
and a flag for full) and the one of the DMA; `FollowsDma` ties the put index to
the last report, `Counted` says that ring and unreported bytes together are the
bytes that arrived and were not read, `InTheirCells` where each of them is. The
arithmetic is in `GetCounts` and `PutCounts`, and in three lemmas on remainders,
since the provers know little of `%` by a variable.

`PipeProofs` proves `RingIsFifo` and `PipeIsChannel` for
every ring size, any threads, priorities and access modes, and blocks of any
length. `RingOK` ties the mirrors to the order of the indices: with equal
mirrors the read index is not ahead of the write index, with different ones not
behind. One lemma per operation then says that it keeps `RingOK` and what it
does to `Contents`, the sequence the ring holds (`PutOK`, `GetOK`,
`PutCharForceOK`...); the arithmetic of a block that goes round the end is in
`Places`. The forced put is covered for blocks that fit: on a longer one it
reads beyond the caller's block or loses its end. `PipeInv` adds that an open pipe
has a ring, that a thread inside a read or write has the pipe open, and that
only a thread that is writing has bytes left to write, without which two
blocks of one thread could mix; `StepOK` has one step per action, and shows for each
that the channel takes a step of its own or none.

The types of the pipe's variables need an invariant of their own, `FileInv`:
`readers` and `writers`, which opens and closes count up and down, are the
numbers of threads that have the file open (`Counts`), so they stay natural
numbers, for any finite set of threads. `ReaderNeverSleepsInVain` is proved for
one reader more urgent than all others, and these any number of writers
(`OneUrgentReader`). The invariant `ReaderInv` follows the reader through the
gap between mutex and suspension: it is on the list from `rt_wqueue_add` until a
wake-up takes it off (`OnReadList`); on its way to sleep it has seen the ring
empty, and nobody less urgent has run since (`FallsAsleep`); asleep, what was
written since comes with a wake-up that is still owed (`WokenSoon`); and when it
waits as a writer it is on the other list once (`OnWriteList`). The hypothesis
is what the code needs: with a writer of the same priority, or with two
readers, one of whom takes only part of a block, a reader sleeps on a pipe that
holds bytes.

Only model-checked: the liveness properties (every message is sent, a save
ends, ports are read, `usart_write` and reads return, works are served,
blocked pushes go on, the button is shown), for the prover has no rules for
fairness; what the six violations show; and the faulty variants. Every safety
invariant and every action property the passing runs check is a theorem, each
under the hypotheses named above. `main.c` satisfies those on the FIFO
(`SenderLeastUrgent`; `Aligned` but for the lengths 3 and 5) and on the receive
ring, and `Late = 0` is a hypothesis on the modem. The work queue, the pipe and
the DMA have no user in this build: theirs are conditions on one.

## Not modelled, and the plan

Left of the plan, in this order:

1. the invariants the liveness properties rest on, which are safety and within
   the prover's reach: that until the goal is reached some step the scheduling
   guarantees can be taken, for any number of threads;
2. the console and debug modes sharing the modem's UART with the sender (each
   may take the other's answers), and with it the boot order (`msg_push` before
   `msg_init`);
3. `I2cEeprom`: the waits of `SEE_i2c.c` with the shared, wrapping `sEETimeout`,
   implementing the transactions of `ConfigStore`;
4. a composition of `MainRx`, `MsgFifo` and `MsgSender`: what a byte received
   is worth in messages sent.

Not modelled: the RS485 pin, whose only question is one of milliseconds against
a frame time; poll, ioctl, creation and deletion of pipes and of the work queue
(nothing runs them); `status_entry`, the watchdog, hold times of the button
(timing and pins only); failed allocations at start-up; the CRC and string
helpers (pure functions); board support and vendor files (start-up code and
register definitions, nearly a third of the lines under `src/`).
