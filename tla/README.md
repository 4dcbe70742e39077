# Verification of the Blizzard Bridge firmware

The firmware (`src/main`) turns an ESP32 into a bridge between DMX512 on an
RS-485 port, Art-Net and sACN on the network, a wireless DMX module and a Blynk
panel. This directory holds TLA+ models of its parts, the TLC configurations
that check them on small instances, and TLAPS proofs of the properties that can
be proved for every instance.

    tlc -config dmx_send.cfg MCDmxUart        # a run
    tlapm DmxSendProofs.tla                   # a proof module

## 1. The system

`src/build` is compiler output; everything below is in `src/main`.

| component | code | state | operations | interacts with |
|---|---|---|---|---|
| DMX port | `dmx_uart.c`, DMX parts of `modified-drivers/uart.c` | `_dmx_state`, `_current_slot`, `_tx_running`, interrupt enables, UART2 FIFOs | start, change direction, stop; the interrupt handler | reads or writes the DMX buffer; the task and the handler share state without a lock |
| UART driver | the rest of `uart.c` | per port: receive ring and stash, transmit ring, mutexes, semaphores | read, write, write with break, flush, wait, install, delete | any task; interrupt handler |
| Blizzard listener | `blizzard_uart.c` | packet being read | start, listen loop | UART driver |
| DMX buffer and settings | `dmx.c` | `DMX[513]`, modes, slots, universe, name, change flags | get, set, clear, copy | every source and sink of DMX data; flash |
| Configuration in flash | `blizzard_nvs.c` | the NVS partition, two shared scratch buffers | load everything at boot, write a default, update one value | settings and connection manager |
| Connection manager | `blizzard_connection_manager.c` | addresses, DHCP and portal flags, `INIT_DONE` | start, event handler, setters | WiFi stack events, flash, restart |
| WiFi portal | `blizzard_wifi_manager.cpp` | none of its own | run the portal, store credentials, restart | flash |
| Art-Net node | `dmx_artnet.c` | pcb, direction, enable flag, `send_active`, mutex, packet | start, change direction, send loop, receive callback | TCP/IP thread, DMX buffer, flash |
| sACN sender | `dmx_sACN.c` | pcb, packet | start, send | DMX buffer |
| Wireless DMX module | `blizzard_wdmx.c` | enable, power and busy flags, button and LED pins | power, button, easy connect | Blynk panel |
| Blynk panel | `blizzard_blynk.cpp` | octet, scratch buffers | one handler per virtual pin | settings, DMX buffer, wireless module |
| RDM responder | `blizzard_rdm.c` | device record, event group | start, stop, packet checks | commented out of the handler |
| Start-up | `main.c` | - | loads flash, starts the parts | all of them |

What is hard in this code, and what makes each part correct:

* **DMX port.** The handler is a state machine that also changes its own
  interrupt enables; it shares that state with a task that changes the direction
  by several unprotected writes. Correct means: the line carries break, start
  code, slots in order, without end; received bytes land in their channels; no
  access outside the buffer; a change of direction takes effect.
* **UART driver.** Bytes move from the handler to readers through a ring with a
  one-item stash behind it. Correct means: no byte is lost, duplicated or
  reordered while the driver accepts it, and a full ring never switches
  reception off for good. Writers share a mutex and a transmit ring.
* **Configuration.** Every value is written and committed alone, and the device
  restarts at any moment. Correct means: what was set is what the next boot
  loads, and every boot ends in a state that can be used.
* **Connection manager.** Events of the WiFi stack decide between reconnecting
  and opening the portal. Correct means: the device ends up connected or in the
  portal.
* **Art-Net.** A send task and the TCP/IP thread share one pcb whose remote
  address each of them changes. Correct means: a reply goes to the poller, the
  node goes on hearing everybody, packets are given back, and a change to
  RECEIVE ends the sending.
* **Wireless module.** Waits on LED colours, with and without timeouts. Correct
  means: every connect ends, and leaves the button released and, when it
  succeeded, the power on.
* **Packets and lengths.** Numbers are put together from bytes in many places.
  Correct means: what one side writes the other reads, and nothing is accessed
  outside its buffer.

`PROJECT.json` lists every such hazard with its line and the properties that
cover it.

## 2. Plan

1. `DmxWire`, `DmxUart` (done): the DMX port, its abstract line, its proofs.
2. `ByteQueue`, `UartRx` (done): handler, ring, stash, `uart_read_bytes`,
   `uart_flush`; the queue a reader may rely on; first proofs.
3. `UartTx` (done): `uart_tx_all` with and without ring, break, single bytes,
   `uart_wait_tx_done`; two writers.
4. `BlizzardConfig` (done): boot, defaults, setters, portal, connection manager
   and settings from the network, with a power failure between any two steps.
5. `WdmxPanel`, `PanelData` (done): the wireless module, the widgets that drive
   it, and `main.c`; proofs.
6. `Artnet` (done): direction, send loops, TCP/IP thread, pcb, mutex; proofs.
7. `ArtnetPackets`, `OtherPackets`, `SettingLengths`, `DmxData` (done): the
   numbers in packets, the lengths of settings, the accessors of the DMX buffer;
   `FormatProofs`.

Composition: `WdmxPanel` composes `main.c`, the Blynk task and the module;
`BlizzardConfig` composes flash, loader, connection manager, portal and the
clients, among them the settings that Art-Net packets change; `Artnet` takes
from `ArtnetPackets` how a packet's numbers are read. The abstract
specifications are `DmxWire` and `ByteQueue`. One for `BlizzardConfig`, a store
whose committed values survive, is still to be stated.

Proofs (done): every invariant the passing runs check is a theorem, and so are
their action properties and the two refinements (`DmxWire` by `DmxUart`,
`ByteQueue` by `UartRx`), under the hypotheses each section names.

## 3. The DMX port: `DmxUart`, `DmxWire`

### Correspondence

| model | code |
|---|---|
| `pc`, `want`, `calls` | the task in `startDMXUart`, `changeDirectionDMXUart` or `stopDMXUart`; it is split at every access the handler can see |
| `installed` | `p_uart_obj[DMX_UART] != NULL` |
| `dmxState`, `slot`, `txRunning` | `_dmx_state`, `_current_slot`, `_tx_running` |
| `ena`, `txDoneRaw`, `brkRaw` | `int_ena`, and the latched raw bits of TX_DONE and BRK_DET |
| `baud` | `clk_div`: data or break rate |
| `txFifo`, `shifter` | UART2's transmit FIFO and shift register |
| `rxFifo`, `ring`, `fullFlg` | receive FIFO, fill of `rx_ring_buf`, `rx_buffer_full_flg` |
| `dmx` | `_dmx_data` as reception fills it |
| `pin` | `DIRECTION_PIN`: in SEND the transceiver's receiver is off |
| `sym`, `bus`, `heard` | ghosts: the symbol last on the line, the remote sender, whether its frame must be heard |

`TaskStep` has one action per step of the task, named after the function it is
in; `Isr` one action per branch of the handler's `while` loop. There is one
core (`sdkconfig`: `CONFIG_FREERTOS_UNICORE=y`), so a pass of the loop is atomic
for the task; the hardware may step between two passes. Writing another port's transmit interrupt
(`other_port_enable_tx`) is there because of its effect on `_tx_running`.

Slots are numbers and their values are left out, except whether a received byte
is zero. A received byte carries, as ghost, the channel its sender meant and a
parity bit of its frame, so that "stored in the right place" and "not stale" can
be stated.

What is assumed of the hardware, as the code uses it: the FIFO interrupts are
level-triggered and pending exactly while the FIFO is empty (threshold 1) or
holds a byte (full threshold 1); TX_DONE is raised when the last stop bit leaves
with the FIFO empty, and stays raised until cleared; BRK_DET comes with a null
byte; changing the divider spoils the symbol being shifted; a full receive FIFO
drops bytes. With reception enabled the handler is at most `RxLag` bytes late.

`stopDMXUart` masks the interrupts of `UART_INTR_MASK` (`0x1ff`), which TX_DONE is
not one of, and installing clears the flags of the same mask. So a TX_DONE may be
handled until `esp_intr_free`, and one that is older than an installation is
handled right after it; both are steps of the model.

Left out: `gpio_config`, `uart_set_pin` and stop bits (no state the properties
see); calls that do nothing (a stop or a change of direction with no driver
installed: the second would use UART2 unclocked, which no caller does); the
handler's last branch for received bytes (`uart.c:812-818`), since
`rx_buffer_full_flg` is only ever set together with switching the interrupt off,
and only the installation, which clears the flag, switches it on again; frame,
parity and overflow interrupts, which are masked for this port; the RDM state,
which no assignment in the compiled code reaches.

`DmxWire` is what the fixtures see: once in step, every symbol is followed by
its successor in break, 0, 1, ..., MaxSlots-1, break, ...; a change of direction
may end the promise, and the first break the handler starts after it renews it.
A symbol has a beginning and an end (`busy`), so that one sent twice is seen.
`DmxUart` implements it under the mapping `steady <- Settled("SEND")`,
`busy <- shifter # None`, `sym <- sym` (with the ghost value `Armed` shown as
`Unsynced`). What precedes that first break is not promised, and it may be a break
too: one that was left in the transmitter by an earlier direction.

### Runs

| run | configuration | shows |
|---|---|---|
| `dmx_send` | 4 slots, one `startDMXUart(SEND)`, other ports transmit | `SlotInBounds`, `SendInv`, `BaudStable`, `WireOrder`, `FramesForever` |
| `dmx_receive` | 3 slots, up to 3 calls asking for RECEIVE or stop, all start codes and values, FIFO of 2, handler within a byte time | `SlotInBounds`, `RxAligned`, `RxCurrent` |
| `dmx_switch` | 3 slots, up to 3 calls, both directions | `TypeOK`, `WireOrder`, `FramesForever` |
| `dmx_overrun` | 3 calls | `SlotInBounds` fails: `uart.c:324-328`, `740` |

`dmx_overrun` is a disagreement between the code and its documentation; section
12 tells its story. In it and in `dmx_switch` the system may stop (no more calls,
nothing on the bus), so deadlock is not checked there.

Two constants mark the limits of `dmx_receive`. With `RxLag = 2`, a handler more
than a byte time late, `RxAligned` fails: BRK_DET (`uart.c:686`) is tested before
RXFIFO_FULL (`uart.c:711`), a byte still in the FIFO passes for the break's null,
and the next frame is stored one channel late. With `OtherPortsTransmit = TRUE`
`RxCurrent` fails: `uart.c:339-341` sets `_tx_running` for every port (an `if`
without braces), and the DMX port then sends what it receives to the ring.

Bounds: `MaxSlots` stands for 513; with 3 the first, an inner and the last slot
are distinct, 4 adds a second inner one, and nothing in the code depends on the
number but the comparison with it (and the proofs hold for every number).
`MaxCalls` bounds API calls: 3 allow SEND, RECEIVE, SEND. `RingCap` stands for
1026 bytes: 1 or 2 are enough to fill it. `Recalls = FALSE` keeps to the
documented use, a call with a *different* direction; where it is TRUE any call
may be repeated. `Marks = FALSE` drops the ghost marks of received bytes where
no property looks at them.

Fairness (`FairSpec`): a call that has begun runs on (`TaskStep`), a pending
interrupt is taken (`Isr`), a byte in the transmitter leaves it (`HwTx`). The
first holds because the task is the only one that runs the calls and FreeRTOS
resumes it, the second because interrupts are masked only inside the short
critical sections, the third is the UART's clock. Nothing is assumed of callers
or of the remote sender.

### Proofs

`DmxUartProofs` proves `Spec => []TypeOK` for every value of the constants that
`DmxAssumption` allows.

`DmxSendProofs` proves `WireOrder` (`LineInOrder`) without any condition: for
every number of slots and calls, with both directions, repeated calls, stops,
restarts and other ports that transmit, `DmxUart` implements `DmxWire`. What is on
the line says nothing of what the handler will write, so the invariant `LineInv`
adds

* `Directed`: only a change to RECEIVE clears `_tx_running`, so once a change to
  SEND is over (`Settled`) the receiving half leaves `_dmx_state` alone. Before
  that both halves may change it, and nothing is promised;
* `DoneMeansIdle`: when TX_DONE is heeded the transmitter is empty, because the wait
  for it clears a flag that is older. The exception is a flag that is older than an
  installation of the driver, which finds `_dmx_state` IDLE or START and changes
  neither;
* `Arming`: while the first break is in the transmitter the handler waits for
  TX_DONE and writes nothing, whatever was left in the shift register;
* `Carrying`: from its end on, line, shift register, FIFO and what the handler
  will write next form one sequence of successors (`Chained`), with the two parts
  of `SendInv` it rests on (`RatesMatch`, `SlotsCounted`).

It also proves, about a port that is started once as a sender (`SendOnce`, what
`main.c` does), what does not hold across changes of direction: accesses are in
bounds and the baud rate changes only while the transmitter is empty. `SendInv`
consists of

* `SendPhases`: what holds in each phase of the start (nothing is received,
  nothing is sent before the interrupt is enabled);
* `RatesMatch`: the handler comes to change the rate only when nothing is being
  sent, because it heeds TX_DONE only then and only TX_DONE leads to a break and
  out of one;
* `SlotsCounted`: within a frame the FIFO interrupt is off exactly when the last
  slot has been written;
* `InStep`: `Chained`, as soon as the first break is under way.

Each part has a step lemma with one case per action; `OnlySendSteps` rules out
the actions a pure sender cannot take, which is where `SendOnce` is used.

`DmxUartProofs` also proves what a receiving port promises: `RxAligned`
(`ReceivedWhereMeant`), `RxCurrent` (`HeardIsStored`) and `SlotInBounds`
(`StoredInBounds`), for every number of slots and calls and every size of FIFO
and ring, if `PromptReceiver` holds: the application only asks for RECEIVE (or
stops), no other port transmits, the handler is back before the next byte, and
the bytes carry their ghost marks. These are the constants of `dmx_receive`; the
paragraph on its limits tells what goes wrong without the second and the third.
`RxAligned` is not inductive, since it speaks of bytes that are stored already.
`ReceiveInv` adds

* `Listening`: transmitter and its interrupts stay off, and the receiver is on
  exactly while the driver is installed and not being deleted;
* `InTune`: the channel the handler waits for is the one the remote sender comes
  to next, or the one that is in the FIFO; a latched break has its null byte in
  the FIFO;
* `Heard`: of a frame heard from its break on, every channel before the one the
  handler waits for is stored.

Only model-checked: `FramesForever` (liveness).

## 4. Receiving on the other ports: `UartRx`, `ByteQueue`

### Correspondence

| model | code |
|---|---|
| `fifo`, `ovf` | hardware receive FIFO, raw bit of RXFIFO_OVF |
| `rxEna` | `int_ena` of RXFIFO_FULL and RXFIFO_TOUT, which the code writes together |
| `ring`, `head`, `item` | `rx_ring_buf`: bytes not taken; size and rest (`rx_ptr`, `rx_cur_remain`) of the item that is out |
| `stash`, `fullFlg` | `rx_data_buf` and `rx_stash_len` while `rx_buffer_full_flg` |
| `buffered` | `rx_buffered_len` |
| `mux` | holder of `rx_mux` |
| `pc`, `length`, `buf` | per task: place in `uart_read_bytes` or `uart_flush`, bytes still wanted, bytes copied |
| `next` | ghost: number of the next byte, modulo `Marks` |

A pass of the handler is one action, a call is split at every access the handler
can see. Ring items are taken as a prefix of any length, since
`xRingbufferReceive` stops where the buffer wraps round. A read whose time is up
behaves like one that finds nothing (`rd_give`), a mutex that is not free in
time returns -1 (`rd_timeout`). `uart_reset_fifo`, which a flush ends with, resets the
transmit FIFO as well (`uart.c:252-262`); only the receiving half is in this module. `uart_read_bytes` corrects `rx_buffered_len`
after it gave the mutex, as the code does.

`ByteQueue` is the promise: the bytes that come in, and no others, go to one reader
each, once and in order, and disappear only while the port is being flushed or the
FIFO is overrun. `UartRx`
implements it with `queue <- Unread`: half-read item, ring, stash (until it has
been copied into the ring), FIFO.

### Runs

| run | configuration | shows |
|---|---|---|
| `uart_rx` | two readers, FIFO of 1, ring of 2, reads of 1 or 2, fairness | `TypeOK`, `Accounting`, `StashIsSeen`, `ByteOrder`, `Receiving` |
| `uart_rx_flush` | a reader and a flusher, FIFO of 2, ring of 3 | `Accounting`, `ByteOrder` |
| `uart_rx_stuck` | one task that reads and flushes in turn | `Receiving` fails: `uart.c:1116` |

Bounds: a ring that two batches fill makes the stash, a half-read item in a full
ring and an overrun happen; a read of 2 spans items and a read of 1 splits one.
Batches of one byte are enough for two readers to race over the flag and the
counter; batches of two, which a reader can leave half read, are in
`uart_rx_flush`. With `Marks = 2` two neighbouring bytes differ, so that a
swapped or repeated byte is seen.

Fairness: interrupts are taken, a call goes on, and a reader calls again
(`SF_vars(Reads)`, as the endless loop of `blizzard_listen` does). A call that
waits on a mutex held by another is not assumed to get it: it may time out.

### Proofs

`UartRxProofs` proves, for any number of tasks and any sizes that
`RxAssumption` allows: `Spec => []TypeOK` (`RxTypeCorrect`), which includes the
capacities of FIFO, stash and ring; and, if nobody flushes, that a stash is
always going to be looked at again (`StashNeverForgotten`). `StashIsSeen` alone
is not inductive: the step `rd_return` may empty the ring only because the task
that takes it is the one that holds the mutex, hence `Exclusion`; `NoFlush`
carries the absence of flushers through the calls. The handler's case is where
`RingCap >= FifoCap` is needed: a batch that does not fit finds a ring that is
not empty. The run `uart_rx_stuck` shows that the theorem fails with a flusher.

Without any condition on who flushes:

* `CallsExclude`: `Exclusion`, the task between taking and giving `rx_mux` is its
  holder, and `StashHeld`, the flag stays set while a reader sends the stash
  again, so that the handler does not overwrite it. Both belong to `RxInv`, the
  invariant the other proofs rest on.
* `BufferedIsExact`: `Accounting`, although handler and calls change
  `rx_buffered_len` with different locks and a read corrects it only after it
  gave the mutex. `Exclusion` is needed, because only the holder of the mutex can
  owe the count a stash. The bytes that calls have copied are counted as the
  cardinality of a set of places (`Copied`); a sum over tasks would need an
  induction theorem that takes an operator.
* `ImplementsQueue`: `Spec => ByteOrder`, the refinement of `ByteQueue`. Each step
  of the driver leaves `Unread` alone (`Keeps`), appends the byte that arrived,
  delivers a prefix to one reader (`Delivers`), or happens while bytes may be lost
  (`Loses`). Moving the
  stash into the ring is invisible, because `StashHeld` and `Exclusion` say that
  nobody else touches it between the copy and the clearing of the flag.

Only model-checked: `Receiving` (liveness).

## 5. Sending on the other ports: `UartTx`

### Correspondence

| model | code |
|---|---|
| `pc`, `calls`, `rest`, `brk` | per task: place in `uart_tx_all`, `uart_tx_chars` or `uart_wait_tx_done`; calls made; data not handed over; `brk_en` |
| `mux` | holder of `tx_mux` |
| `ring`, `cur`, `lenTot` | `tx_ring_buf`; `tx_ptr` with `tx_len_cur`; `tx_len_tot` |
| `brkFlg`, `waitBrk` | `tx_brk_flg`, `tx_waiting_brk` |
| `fifoSem`, `waitFifo`, `brkSem`, `doneSem` | `tx_fifo_sem`, `tx_waiting_fifo`, `tx_brk_sem`, `tx_done_sem` |
| `emptyEna`, `brkEna`, `doneEna`, `brkRaw`, `doneRaw` | enables and raw bits of TXFIFO_EMPTY, TX_BRK_DONE, TX_DONE |
| `txdBrk`, `txFifo` | `conf0.txd_brk`, the transmit FIFO |
| `isr` | the handler's loop: running, `tx_fifo_rem`, `en_tx_flg`; `stuck` in the `continue` that does not read the status again |
| `sym` | ghost: what was last sent |

While the handler runs no task does (one core), but the transmitter does, so its
loop is split. The shift register is left out: a byte that leaves the FIFO is
sent. `FreeRTOS` asserts that a mutex is given by its holder, but
`CONFIG_FREERTOS_ASSERT_FAIL_PRINT_CONTINUE=y` (`src/sdkconfig:288`) makes it
print and go on, which is what `wr_last` does. When the handler takes data for a
description, the size and break it reads are arbitrary.

### Runs

| run | configuration | shows |
|---|---|---|
| `uart_tx` | three uses, see below; FIFO of 2 | `TypeOK`, `DoneMeansSent`, `WaiterKnown`, `MessageOrder`, `WritesFinish` |
| `uart_tx_hang` | `RingBreak` alone | `HandlerReturns` fails: `uart.c:587` |

`Uses` is a set of ways to install and use a port, one of which is chosen in
`Init`: `Direct`, no ring, two tasks with two calls each of any kind, up to 3
bytes; `Ring`, a ring of 3 items, one task, two calls of up to 5 bytes in items
of 4; `RingBreak`, a ring, one call with a break, items of 2.

Bounds: three bytes do not fit a FIFO of two, so a direct writer waits for room;
five bytes in items of four are two items, the first longer than the FIFO. Calls
are bounded, so the system stops and deadlock is not checked; `WritesFinish`
says that it stops with nothing left to send. The uses are the ones for which
the properties hold. With two tasks and a ring `MessageOrder` fails: `tx_mux` is
given at `uart.c:984` and once more at `uart.c:1004`, the second time away from
another task that took it in between. With two calls with breaks and a FIFO of 4
it fails too: after the handler has asked for a break (`uart.c:666`) its loop
goes on and puts the next call's bytes into the FIFO ahead of that break. And
after a break through the ring the handler may be stuck (`uart_tx_hang`), which
is why `WritesFinish` allows for it and `RingBreak` has one call.

`uart_wait_tx_done` is modelled with a time limit. Without one it may not return:
the FIFO is looked at in `uart.c:901`, and `uart_enable_intr_mask` clears TX_DONE
before it enables it; a last byte that leaves between the two is missed. The time
left is unsigned (`uart.c:898-900`): when it has run out before, it wraps round and
the wait is a long one, which the model shows as one that may time out late.

Fairness: the transmitter runs, interrupts are taken, a call goes on; strong
fairness for a task's step, because FreeRTOS queues the tasks that wait for a
mutex and hands it to them.

### Proofs

`UartTxProofs`, for any set of uses that `TxAssumption` allows, any writers and
any sizes: `TypeOK` (`TxTypeCorrect`), `DoneMeansSent` (`WaitMeansSent`),
`WaiterKnown`, and, for a port without a ring, `HandlerReturns`
(`SpinsForBreakOnly`). `TxInv` is the inductive invariant:

* `TxTypes`: the types, and that what the handler is to fill in fits the FIFO;
* `Modes`: which steps and flags a port with and without a ring can have;
* `Alone`: without a ring `tx_mux` excludes (`TxMuxExcludes`; with a ring it does
  not, as said above);
* `RoomWait`: the interrupt is on only for a writer that waits for room, which
  finds its semaphore taken until the handler gives it;
* `DoneWait`: the token of a wait that timed out earlier is taken out before the
  interrupt is enabled, so a new one means an empty FIFO.

`MessagesInOrder` proves `MessageOrder` for all uses that are `Calm`: a ring has
one writer at most, which asks for no break or makes a single call; a port without
a ring is free in the number of its writers, their calls and their breaks. The
three uses of the run are calm, and `Calm` leaves out just what makes the order
fail, see Bounds. Two inductive invariants are added:

* `OrderInv`, without a ring: `Messages` (what a call still hands over is the end of
  its bytes), `InOrder` (line and FIFO form one sequence in which each element may
  follow the one before) and `Turn` (what the call that is being sent has done to
  the line so far; when there is none, the line is ready for any).
* `StreamInv`, with a ring. A `Place` says how far in which call; there is a path of
  places (`Path`), one before and one behind each item of the ring, on which a
  description leads from the end of a call to the start of the next and data over
  just the bytes it holds. `Stream` puts the handler at the beginning of the path
  (`Reached`: `tx_len_tot` counts what is missing, the flags of the break, what is
  last on the line) and the writer at its end (`GoesOn`). The path is bound by an
  existential, because the code keeps no such record: only together do the items
  say what the handler will take next for a description.

`NeverSpins` proves `HandlerReturns` from `StreamInv` where a ring's only writer
asks for no break. `uart_tx_hang` shows that this hypothesis is needed.

Only model-checked: `WritesFinish` (liveness).

## 6. Settings and network: `BlizzardConfig`

### Correspondence

| model | code |
|---|---|
| `flash`, `durable` | what NVS returns for a key; what of it a power failure leaves (`nvs_commit`) |
| `nvsUp` | `nvs_flash_init` and `nvs_open` succeeded in this boot |
| `ram` | the variables of `blizzard_connection_manager.c` and `dmx.c` |
| `at`, `phase` | place in `populate_all_dmx_nvs_values`; place in `start_connection_manager` |
| `todo` | per task, the statements left of its call: write memory, set, commit, configure the interface, restart |
| `initDone`, `bit` | `INIT_DONE`, `CONNECTED_BIT` |
| `link`, `event`, `adapter` | the station, the event it has posted, the address of its interface |

The loader reads the keys in the order of the code, writes a default where a key
is missing and calls the setter, which writes the value back. The gateway is
loaded with `setMac` (`blizzard_nvs.c:324`), as the code does, so the MAC key is
overwritten at every boot and is left out of `Remembered`. When the partition
could not be opened every read fails and the setters get what the scratch buffer
holds. `setIP` changes only memory before `INIT_DONE`, and afterwards the
interface, flash and memory, in this order. `getIP` copies the leased address
over the static one in memory. Names have a legal length: `setSSID`
(`blizzard_connection_manager.c:333`) and `setName` (`dmx.c:92`) refuse longer ones and
change nothing, which `SettingLengths` treats by length; of the entries of the portal
only a password too long is modelled here.

Tasks: `main` (boot, portal, start), `event` (the handler of WiFi events) and
the clients that change settings (the Blynk task, and the TCP/IP thread for
Art-Net). The user of the portal enters a known network with the right or a wrong
password, or an unknown one, or gives up. The station joins, is refused, or loses
its network for any reason at any time.

`main.c` at this commit starts Ethernet and has `start_connection_manager`
commented out; the module models the WiFi flow the code keeps for it.

### Runs

| run | configuration | shows |
|---|---|---|
| `config` | one client, short passwords, two power failures, every reason a network can give | `TypeOK`, `PairedCredentials`, `Remembered`, `Settles` |

Deadlock is not checked: after a refusal with AUTH_FAIL (`Abandoned`) the device
does nothing any more, now and after every restart (section 12), which `Settles`
excepts.

Bounds: restarts, portal sessions and calls are unbounded; `MaxCuts = 2` bounds
power failures: one may strike while the device recovers from another, and
nothing but flash survives one. The constants mark the limits of what holds.
With an entry `"long"`
`PairedCredentials` fails: `setPass` refuses a password of 34 characters or more
(`blizzard_connection_manager.c:366`) but the portal is switched off all the
same, and the new name is stored with the old password. With two clients
`Remembered` fails: two tasks that set one key interleave between memory and
flash, for no lock is taken.

Fairness: tasks run and events are handled (FreeRTOS); strong fairness for
`Joined` and `Refused`, because an attempt may be cut short by a lost network
again and again, but a network that is there in the end answers. Nothing is
assumed of the portal's user, the clients or the power supply. `Settles` allows
for boots in which the partition cannot be opened.

### Proofs

`BlizzardConfigProofs`, for any entries, reasons, networks' answers and number of
power failures: `TypeOK` (`ConfigTypeCorrect`); `Remembered`
(`CallsRemembered`), if there is at most one client; `PairedCredentials`
(`CredentialsPaired`), for any clients, if the portal takes no password that
`setPass` then refuses. The bounds above show that neither condition can be
dropped. The invariants are about the statements that calls still have to execute:

* `Proceeds`: they are well formed; a write to flash is followed by its commit,
  and a kept setting is written to memory and then at once to flash;
* `Jobs`: who has something to do in which phase, and that nobody but the portal
  and the loader touches name and password, nor switches the portal off;
* `LoadsOne`: the loader works on one key at a time and writes back what it read
  or a default;
* `Commits`: what is not committed will be;
* `InStep`: a kept setting is in memory as in flash unless a write is on its way,
  and then it is the value in memory. Without it `Remembered` says nothing of the
  states in the middle of a call.

`PairedCredentials` needs all that and `PortalInv`, which follows the ten
statements of the portal one by one: the portal is switched off last, so that a
power failure between any two finds it still on in flash. `Paired` extends the
property to what is committed, because that is what the next boot reads.

Only model-checked: `Settles` (liveness).

## 7. The Art-Net node: `Artnet`

### Correspondence

| model | code |
|---|---|
| `enabled`, `direction` | `ARTNET._enabled`, `ARTNET._direction` |
| `sendActive`, `mutex` | `send_active`, `mutex` |
| `udp`, `remote` | `ARTNET._udp`: each start makes a new control block; the remote end of each block |
| `control` | the task that calls `startDMXArtnet`, `changeDirectionArtnet`, `stopDMXArtnet`, split where others can see it |
| `loop` | per send task: created but not yet run, at the check of `sendArtnetLoop`, in `sendDMXDataArtnet`, at its end |
| `handler`, `cur` | place in `recieveDMXArtnet` and the functions it calls; the packet |
| `bufs` | packet buffers (`pbuf`) allocated |
| `dmx` | the highest channel written since `clearDMX`; the buffer ends with 512, the code does not |
| `crowded`, `torn`, `mixed` | ghosts: a loop was made, or the node started, while a loop existed; a start came between a connect and its disconnect; a connect came between another and its disconnect |

Every task may be preempted between two steps. `udp_connect`, `udp_send` and
`udp_disconnect` are steps of their own, by the loops and by the handler, on the
one block and without a lock, as in the code.

What is assumed of lwIP, as the code uses it: a connected block takes packets
from its remote end only; `udp_bind` refuses a port that is bound, so that
packets come to the block of the first start (`Port`); one callback runs at a
time.

A packet may count any number of channels. `parseDMXDataPacketArtnet` holds the
count against neither the 512 channels of the buffer nor the length of the packet
(`dmx_artnet.c:391-398`), so `dmx` may exceed 512. What lies behind `DMX[]` and would
be overwritten is not modelled. For which counts the store stays in the buffer and
the read in the packet is `CountTrusted` of `ArtnetPackets`.

Start, stop and change of direction may be called in any order. A change to SEND
before the first start makes a loop, and the start then enables the node some time
before it makes the block (`dmx_artnet.c:25-30`, `58`): a frame sent in between has a
NULL block, and at the latest `udp_disconnect` restarts the device (`null_block`,
`Restart`: all as in `Init`). lwIP's connect and send refuse a NULL block or not, so the
model allows for both. `_dest_ip` points to a dead stack frame, so a frame's remote
end is one value, `anywhere`.

A packet says who sent it, which kind it is, the four bytes of universe and
slot count, and whether it clears the buffer. What `parseProgArtnet` and
`setName` store is a client call of `BlizzardConfig`.

### Run

| run | configuration | shows |
|---|---|---|
| `artnet` | two controllers, two loops, per boot four calls, of which up to two are starts | `TypeOK`, `Listening`, `NoLeak`, `QuietInReceive`, `ReplyToAsker`, `ChangeReturns`, `Transmits`, and the assumptions below |

`Listening`: a reply or frame that is done leaves the block open, whatever
overlapped it; only a start in the middle (`torn`) leaves a block connected, since
`udp_disconnect` then acts on another. `QuietInReceive` fails without its
condition `~crowded`: with SEND, RECEIVE, SEND in quick succession the first loop has not
yet set `send_active`, the wait at `dmx_artnet.c:50` ends at once, and the next
SEND makes a second loop beside it. The end of one then clears the flag of both. `ReplyToAsker` fails without `~mixed`: a frame's connect
between a reply's connect and its send redirects the reply. `NoLeak` says that
the branch for a mutex that is not free in time (`dmx_artnet.c:98`), which leaves
the packet unfreed, is never taken.

Bounds: two loops are needed for one to confuse the other, and two starts for a
block to be replaced; `MaxCalls = 4` calls allow start, RECEIVE, SEND, RECEIVE, with
which `QuietInReceive` fails without `~crowded`. Nothing
depends on how many controllers there are beyond the asker and another. Nobody
asks for more loops than exist (`RoomFor`); all other calls go on when every loop
exists, so a change to RECEIVE meets two of them. One packet of the run counts 768
channels. Restarts are not bounded. Deadlock is not checked: a node that is not
started and has no calls left does nothing.

Fairness: each task runs when it can (FreeRTOS; the loop has idle priority, and
the other tasks of the device wait most of the time). Nothing is assumed of the
network or of the callers.

### Proofs

`ArtnetProofs` proves all five safety properties for any number of controllers,
packets, loops, starts and calls. Together they are not inductive; `IInv` adds

* `Begun`: which block is current at which step of a start, and that the mutex is
  taken only from `dispatch` to `free`;
* `Room`: a place is left for the loop about to be created;
* `InHand`: a packet is in hand exactly while the handler runs;
* `Held`: a block that is connected is the current one, and somebody is between
  connect and disconnect;
* `Alone`: unless `crowded`, there is one loop at most, and `send_active` is set while
  it runs;
* `Answered`: the reply in hand is still directed to its asker.

Each part has a lemma for the step, with a case per action. `NoLeak` counts the
frames on their way, so its lemma rests on the cardinality of `Sending`
(`FramesByLoops`). A step is one that runs (`Runs`) or a restart, which leads back
to the initial state and so to `IInv`. Packets are unrestricted: the bound of `dmx` in
`TypeOK` is what 16 bits can count.

## 8. The wireless module and its panel: `WdmxPanel`, `PanelData`

### Correspondence

| model | code |
|---|---|
| `main` | `main.c:134-138` |
| `enabled`, `on`, `busy` | `WDMX_ENABLE`, `WDMX_POWER_ON` with the power pin, `WDMX_BUSY` |
| `button`, `led` | the button pin, the LED's pins that are low |
| `step`, `timeout`, `presses` | place in `enter_wdmx_config_mode` and `select_wdmx_mode`, their counters |
| `v14`, `v15` | what the widgets show |

The module is the environment: its LED may change to any colour at any time. The
Blynk task runs one handler after the other, so widgets are dead while a connect
runs. `main.c` starts the module and turns it on at a moment of its own. At this
commit the line that starts the Blynk task (`main.c:120`) is commented out; the
model has it run, in the place where it stands before `startWDMX`.

### Run

`panel` (module `MCWdmxPanel`) uses the time limits of the source (50 tries, 9 modes), no bound is added,
and deadlock is checked. Every connect ends, with one exception: the wait for
white at `blizzard_wdmx.c:280` has neither time limit nor delay. `ConnectEnds`
excepts it, and `WhiteEnds` says that it ends when the LED stays white; when it
does not, `WDMX_BUSY` stays set and the Blynk task spins, from which only a
restart helps.

Fairness: `main.c` and the Blynk task run on. Nothing is assumed of the user or
the LED.

### Proofs

`WdmxPanelProofs`, for every time limit and number of modes: `TypeOK`,
`NotLeftPressed`, `SuccessMeansPowered`. The invariant adds `Powered` (from the
wait for white on the power is on, since the panel cannot turn it off during a
connect and `main.c` only turns it on) and `Unstarted`.

## 9. Packets, lengths and buffers: `ArtnetPackets`, `OtherPackets`, `SettingLengths`, `DmxData`, `PanelData`

Operators, one for each conversion of the code: how Art-Net packets write and
read universes, counts, addresses and sequence numbers; the nested lengths of an
sACN packet; the checksum and the doubled bytes of RDM; how many characters of a
name, an SSID or a password are stored, and what is left of them after a restart;
which slot of the DMX buffer an access touches; the colours of the LED; the
sliders of the panel.

Each property states what such a pair of conversions keeps, and where it does
not. `FormatProofs` proves each of them for all values. `MCArtnet` and `MCWdmxPanel`
(buffer and sliders) have TLC evaluate them too, as assumptions: for their whole
ranges, but for `ProgrammedIsReported` (all patterns of four bytes with up to four
values), `CountTrusted` (every count, four lengths) and `ChecksumRead` (sums around
the boundaries of a byte). `ColorsAgree` is an
invariant of `panel`.

sACN and RDM are modelled no further: `main.c` starts neither task.

## 10. Not modelled

* UART driver: the event queue and pattern detection (no port asks for them), the
  setters of line parameters (single register writes), RTS and DTR, deleting a
  driver under a call.
* Connection manager: Ethernet, whose handlers repeat the SDK's.
* Running out of memory: a `malloc`, `pbuf_alloc` or `xTaskCreate` that fails
  where the code does not test the result. Where it tests (`sendProgReplyArtnet`)
  it is a branch of the model.
* lwIP calls that run in two tasks at the same moment: the raw API is not meant
  for that, and what it does then is not defined by this repository.
* `stopWDMX`, which only a second `startWDMX` would call.
* The tasks of sACN and RDM, which nothing starts; the handler's RDM code is
  commented out.
* Stubs that do nothing: `sendPollArtnet`, `parsePollReplyArtnet`,
  `sendProgArtnet`.
* The bytes on the line while others write the DMX buffer (`dmx.c:44` asks "Make
  thread safe?"): a frame may mix two updates. The code has no mechanism whose
  working could be checked.
* `src/build` and the tables of `lib/Art-NetOemCodes.h` and `lib/rdm.h`: nothing in
  them changes state.

Out of the prover's reach, and left to TLC: liveness (`FramesForever`,
`Receiving`, `WritesFinish`, `Settles`, `ChangeReturns`, `Transmits`,
`ConnectEnds`, `WhiteEnds`). Every safety property of the runs is proved, under
the hypotheses its section names.

## 11. Vocabulary

*Settled* in a direction: the driver is installed, the last call asked for that
direction and has returned. *Garbled*: a byte whose bits were sent at two rates
or at the wrong one. *Fault*: a definition with a suffix (`FrameEnds_late`) that
states a plausible mistake in the definition it precedes; each property is
checked to fail under one.

## 12. Disagreements with the documentation

* **`dmx_overrun`.** SEND is running and the task changes to RECEIVE.
  `uart_disable_tx_intr` clears `_dmx_state` and `_tx_running` (`uart.c:324-326`)
  and only then switches TXFIFO_EMPTY off (line 328). In between the empty
  interrupt comes: the handler wakes (570-572), writes start code and slots
  (540-560), and both halves of it use `_dmx_state` and `_current_slot`, since
  `_tx_running` is 0. After the last slot it waits for TX_DONE in state DATA with
  `_current_slot` at 513; a byte received then is stored at `_dmx_data[513]`
  (line 740).
* **`uart_rx_stuck`.** The ring holds one item, a reader has read half of it,
  and the handler has stashed a batch. `uart_flush` returns the item
  (`uart.c:1105-1114`), finds the ring empty and leaves the loop before it has
  looked at the flag. The flag stays set with an empty ring; the next byte makes
  the handler switch itself off, and no read will return an item and send the
  stash.
* **`uart_tx_hang`.** After the item that ends in a break the handler enables the
  empty interrupt with `tx_waiting_brk` set; the next pass runs into
  `continue` (`uart.c:587`), which tests the same status again, for ever.

The following were met on the way. No run is spent on them, because reading the
line is enough; the models do what the code does, and the statement that shows
it is named.

* `blizzard_connection_manager.c:95` says "password is bad - wifi manager"; after
  AUTH_FAIL the code only logs, and neither tries again nor opens the portal
  (`Abandoned`).
* `blizzard_connection_manager.c:52` says "set to last static ip address"; `setIP`
  is called before `INIT_DONE` (line 60) and only changes memory
  (`start_blizzard_wifi`, `init_done`).
* `dmx_artnet.c:390` says "copy over dmx data into global DMX array"; the loop copies
  as many bytes as the packet counts, which may be more than the array or the packet
  has (`CountTrusted`, `StoreData`).
* `dmx_artnet.c:383` says "if not meant for this universe send it away!"; `&&` in
  the place of `&` at 381 takes universe 2 for universe 1, and at 392 stores at
  most one channel beyond a multiple of 256 (`Joined`). The same operator is in
  `dmx_sACN.c:176` (`CountTold`) and `blizzard_rdm.c:82` (`ChecksumRead`).
* `dmx_artnet.c:288` says "send in broadcast"; `_dest_ip` points to a local
  variable of `udp_artnet_init` that is gone (lines 60-61; `send_connect`).
* `dmx_sACN.c:153` says "no seq 0!"; the number after 255 is 0, in both protocols
  (`SequenceMoves`).
* `dmx_artnet.c:483` says "double check its null terminated"; `'/0'` is not the
  null character (`NamesTerminated`).
* `dmx_artnet.c:450` and `246` write the same address in opposite orders
  (`ProgrammedIsReported`).
* `lib/blizzard_wdmx.h:58` says "checks modes this many times", 9; the button is
  pressed 11 times (`ModesSeen`).
* `blizzard_blynk.cpp:124-129` shows cyan as magenta and magenta as cyan
  (`ColorsAgree`).
* `blizzard_rdm.c:135-136` writes the low byte of the checksum over the high one
  (`ChecksumField`).
* `dmx.c:252-255` and `272-275` copy outside their loop (`CopyMissesRange`). Nobody
  calls them.
* A name of 63 characters is refused at the next boot (`NamesSurvive`), and an
  SSID of 32 or 33 characters puts one or two bytes behind its array
  (`EntriesSurvive`).
* After a connect that failed V14 shows "off", whatever the power is
  (`blizzard_blynk.cpp:260`; `Fail`).
