------------------------------ MODULE DmxUart ------------------------------
(***************************************************************************)
(* The DMX port of the bridge: the direction functions of dmx_uart.c, the  *)
(* DMX half of the interrupt handler of modified-drivers/uart.c, and the   *)
(* UART2 hardware they drive (transmit FIFO, shift register, receive FIFO, *)
(* interrupt flags).  The task that changes the direction and the handler  *)
(* share _dmx_state, _current_slot and _tx_running without a lock, so the  *)
(* task's functions are split at every access the handler can see.  One    *)
(* pass of the handler's while loop is one action: the task cannot run     *)
(* meanwhile, there is one core (sdkconfig: CONFIG_FREERTOS_UNICORE=y).    *)
(*                                                                         *)
(* The transmit FIFO is used with a threshold of one (dmx_uart.c), so its  *)
(* "empty" interrupt is pending exactly while it holds nothing.  Bytes     *)
(* carry ghost marks: the slot they were written for, or on reception the  *)
(* channel the sender meant.  The values of the slots are left out, but    *)
(* for being zero or not, which the receiver tests.                        *)
(***************************************************************************)
EXTENDS Integers, Sequences

CONSTANTS
  MaxSlots,            \* DMX_MAX_SLOTS
  Directions,          \* the directions the application asks for
  MaxCalls,            \* bound: calls of the API in a behaviour
  Recalls,             \* whether they may ask for the direction in force
  OtherPortsTransmit,  \* whether another UART uses uart_enable_tx_intr
  RingCap,             \* bytes the driver's receive ring can hold
  RxCap,               \* bytes the hardware's receive FIFO can hold
  RxLag,               \* bytes that may wait while reception is enabled
  Nulls, Zeros,        \* what the remote sender sends: is a start code null,
                       \* is a channel's value zero
  Marks                \* whether received bytes carry their ghost marks

ASSUME DmxAssumption ==
  /\ MaxSlots \in Nat /\ MaxSlots >= 2
  /\ Directions \subseteq {"SEND", "RECEIVE"}
  /\ MaxCalls \in Nat /\ RingCap \in Nat
  /\ Recalls \in BOOLEAN /\ OtherPortsTransmit \in BOOLEAN
  /\ RxCap \in Nat /\ RxLag \in 1 .. RxCap
  /\ Nulls \subseteq BOOLEAN /\ Zeros \subseteq BOOLEAN /\ Marks \in BOOLEAN

(* Line symbols, as in DmxWire: a slot number or one of these.             *)
Break    == -1
Garbled  == -2        \* a byte whose bits were sent at two baud rates
Unsynced == -3
None     == -4
Armed    == -5        \* the break that starts the promise is in the transmitter


VARIABLES
  pc, want,            \* the direction task: next step, requested direction
  calls, installed,    \* API calls made; p_uart_obj[DMX_UART] # NULL
  pin,                 \* level of DIRECTION_PIN
  dmxState,            \* _dmx_state
  slot,                \* _current_slot
  txRunning,           \* _tx_running
  ena,                 \* int_ena: txEmpty, txDone, rxFull, brk
  txDoneRaw, brkRaw,   \* int_raw of TX_DONE and BRK_DET
  baud,                \* clk_div: "DATA" or "BREAK"
  txFifo, shifter,     \* slots and breaks waiting; symbol being sent
  sym,                 \* ghost: the line as DmxWire sees it
  rxFifo,              \* bytes received and not read
  ring, fullFlg,       \* bytes in rx_ring_buf; rx_buffer_full_flg
  dmx,                 \* _dmx_data as filled by reception
  bus, heard           \* ghost: the remote sender; its frame must be heard

taskVars == <<pc, want, calls, installed, pin>>
dmxVars  == <<dmxState, slot, txRunning>>
intVars  == <<ena, txDoneRaw, brkRaw>>
txVars   == <<baud, txFifo, shifter, sym>>
rxVars   == <<rxFifo, ring, fullFlg, dmx>>
busVars  == <<bus, heard>>
vars     == <<taskVars, dmxVars, intVars, txVars, rxVars, busVars>>

DmxStates == {"IDLE", "BREAK", "DATA", "START"}
TaskSteps == {"idle", "config", "install", "pin", "enable", "start", "running",
              "baud", "stateIdle", "notRunning", "disable", "delete"}
Slots     == 0 .. MaxSlots - 1
RxByte    == [zero : BOOLEAN, ch : {Garbled} \cup Slots, frame : {0, 1}]
Stored    == [ch : {None, Garbled} \cup Slots, frame : {0, 1}]
NoIntr    == [txEmpty |-> FALSE, txDone |-> FALSE, rxFull |-> FALSE, brk |-> FALSE]

TaskTypeOK == /\ pc \in TaskSteps /\ want \in {"SEND", "RECEIVE"} /\ calls \in Nat
              /\ installed \in BOOLEAN /\ pin \in {"SEND", "RECEIVE"}
DmxTypeOK  == dmxState \in DmxStates /\ slot \in Nat /\ txRunning \in BOOLEAN
IntTypeOK  == /\ ena \in [txEmpty : BOOLEAN, txDone : BOOLEAN, rxFull : BOOLEAN, brk : BOOLEAN]
              /\ txDoneRaw \in BOOLEAN /\ brkRaw \in BOOLEAN
TxTypeOK   == /\ baud \in {"DATA", "BREAK"}
              /\ txFifo \in Seq(Nat \cup {Break}) /\ Len(txFifo) <= 1
              /\ shifter \in Nat \cup {Break, Garbled, None}
              /\ sym \in Nat \cup {Break, Garbled, Unsynced, Armed}
RxTypeOK   == /\ rxFifo \in Seq(RxByte) /\ Len(rxFifo) <= RxCap
              /\ ring \in 0 .. RingCap /\ fullFlg \in BOOLEAN
              /\ dmx \in [Slots -> Stored]
BusTypeOK  == /\ bus \in [pos : {None, Break} \cup Slots, null : BOOLEAN, frame : {0, 1}]
              /\ heard \in BOOLEAN
TypeOK     == TaskTypeOK /\ DmxTypeOK /\ IntTypeOK /\ TxTypeOK /\ RxTypeOK /\ BusTypeOK

(* Before the first call UART2 is not clocked and the receiver is off.     *)
Init ==
  /\ pc = "idle" /\ want = "SEND" /\ calls = 0 /\ installed = FALSE /\ pin = "SEND"
  /\ dmxState = "IDLE" /\ slot = 0 /\ txRunning = FALSE
  /\ ena = NoIntr /\ txDoneRaw = FALSE /\ brkRaw = FALSE
  /\ baud = "DATA" /\ txFifo = << >> /\ shifter = None /\ sym = Unsynced
  /\ rxFifo = << >> /\ ring = 0 /\ fullFlg = FALSE
  /\ dmx = [k \in Slots |-> [ch |-> None, frame |-> 0]]
  /\ bus = [pos |-> None, null |-> FALSE, frame |-> 0] /\ heard = FALSE

\* The last request has been carried out and the driver is there.
Settled(dir) == pc = "idle" /\ installed /\ want = dir

-----------------------------------------------------------------------------
(* The hardware behind the registers.                                      *)

\* The symbol the fixtures see when item is sent at the given baud rate: the
\* break is a zero byte at DMX_BREAK_BAUD, a slot a byte at DMX_DATA_BAUD.
SymbolOf(item, rate) ==
  IF (item = Break) <=> (rate = "BREAK") THEN item ELSE Garbled

\* uart_set_baudrate: the divider changes at once, under a byte being sent too.
SetBaud(rate) ==
  /\ baud' = rate
  /\ shifter' = IF rate # baud /\ shifter # None THEN Garbled ELSE shifter

LoadShifter ==
  /\ shifter = None /\ txFifo # << >>
  /\ shifter' = SymbolOf(Head(txFifo), baud)
  /\ txFifo' = Tail(txFifo)
  /\ UNCHANGED <<taskVars, dmxVars, intVars, baud, sym, rxVars, busVars>>

\* The last stop bit leaves.
ShiftDone ==
  /\ shifter # None
  /\ shifter' = None
  /\ txDoneRaw' = (txDoneRaw \/ txFifo = << >>)
  /\ sym' = CASE ~Settled("SEND") \/ sym = Unsynced -> Unsynced
              [] sym = Armed /\ txFifo # << >> -> Armed
              [] OTHER -> shifter
  /\ UNCHANGED <<taskVars, dmxVars, ena, brkRaw, baud, txFifo, rxVars, busVars>>

\* A byte reaches the receive FIFO, which drops it when full.  Its ghost marks
\* say which channel of which frame it is.
Receive(z, channel, f) ==
  LET b == [zero |-> z, ch |-> IF Marks THEN channel ELSE Garbled, frame |-> f]
  IN  rxFifo' = IF Len(rxFifo) < RxCap THEN Append(rxFifo, b) ELSE rxFifo

\* With reception enabled the handler is at most RxLag bytes late.
Prompt == ena.rxFull => Len(rxFifo) < RxLag

\* The remote sender starts a frame, wherever after its start code the last one
\* stopped.  The
\* hardware reports the break and delivers a null byte for it.
BusBreak ==
  /\ pin = "RECEIVE" /\ Prompt /\ bus.pos # Break
  /\ bus' = [pos |-> Break, null |-> FALSE, frame |-> IF Marks THEN 1 - bus.frame ELSE 0]
  /\ brkRaw' = TRUE
  /\ Receive(TRUE, Garbled, 0)
  /\ heard' = Settled("RECEIVE")
  /\ UNCHANGED <<taskVars, dmxVars, ena, txDoneRaw, txVars, ring, fullFlg, dmx>>

\* Start code, null (dimmer data) or alternate: then the frame is not for us.
BusStartCode ==
  /\ pin = "RECEIVE" /\ Prompt /\ bus.pos = Break
  /\ \E null \in Nulls :
       /\ bus' = [bus EXCEPT !.pos = 0, !.null = null]
       /\ Receive(null, IF null THEN 0 ELSE Garbled, bus.frame)
  /\ UNCHANGED <<taskVars, dmxVars, intVars, txVars, ring, fullFlg, dmx, heard>>

BusChannel ==
  /\ pin = "RECEIVE" /\ Prompt /\ bus.pos \in 0 .. MaxSlots - 2
  /\ bus' = [bus EXCEPT !.pos = @ + 1]
  /\ \E z \in Zeros : Receive(z, IF bus.null THEN bus.pos + 1 ELSE Garbled, bus.frame)
  /\ UNCHANGED <<taskVars, dmxVars, intVars, txVars, ring, fullFlg, dmx, heard>>

\* Bytes of a frame whose beginning was missed, or more than DMX512 allows.
BusTail ==
  /\ pin = "RECEIVE" /\ Prompt /\ bus.pos \in {None, MaxSlots - 1}
  /\ \E z \in Zeros : Receive(z, Garbled, bus.frame)
  /\ UNCHANGED <<taskVars, dmxVars, intVars, txVars, ring, fullFlg, dmx, busVars>>

HwTx == LoadShifter \/ ShiftDone
HwRx == BusBreak \/ BusStartCode \/ BusChannel \/ BusTail

-----------------------------------------------------------------------------
(* The direction task.                                                     *)

\* gpio_set_level(DIRECTION_PIN, dir): turning the transceiver round lands in
\* the middle of whatever the remote sender is sending.
SetPin(dir) ==
  /\ pin' = dir
  /\ bus' = IF dir # pin THEN [bus EXCEPT !.pos = None] ELSE bus

\* dmx_uart.c asks to be recalled "with a diffrent direction"; Recalls lifts that.
Call(dir, first) ==
  /\ pc = "idle" /\ calls < MaxCalls /\ calls' = calls + 1
  /\ Recalls \/ ~installed \/ dir # want \/ first = "delete"
  /\ want' = dir /\ pc' = first
  /\ sym' = Unsynced /\ heard' = FALSE

startDMXUart(dir) ==
  /\ Call(dir, "config")
  /\ SetPin(dir)
  /\ UNCHANGED <<installed, dmxVars, intVars, baud, txFifo, shifter, rxVars>>

uart_param_config ==
  /\ pc = "config" /\ pc' = "install"
  /\ SetBaud("DATA")
  /\ UNCHANGED <<want, calls, installed, pin, dmxVars, intVars, txFifo, sym, rxVars, busVars>>

\* A second install fails and leaves everything as it is.
uart_driver_install ==
  /\ pc = "install" /\ pc' = "pin"
  /\ IF installed
       THEN UNCHANGED <<installed, intVars, ring, fullFlg>>
       ELSE /\ installed' = TRUE
            /\ ena' = [NoIntr EXCEPT !.rxFull = TRUE, !.txDone = TRUE, !.brk = TRUE]
            /\ brkRaw' = FALSE /\ UNCHANGED txDoneRaw
            /\ ring' = 0 /\ fullFlg' = FALSE
  /\ UNCHANGED <<want, calls, pin, dmxVars, txVars, rxFifo, dmx, busVars>>

changeDirectionDMXUart(dir) ==
  /\ installed
  /\ Call(dir, "pin")
  /\ UNCHANGED <<installed, pin, dmxVars, intVars, baud, txFifo, shifter, rxVars, bus>>

changeDirection_pin ==
  /\ pc = "pin" /\ pc' = IF want = "SEND" THEN "enable" ELSE "baud"
  /\ SetPin(want)
  /\ UNCHANGED <<want, calls, installed, dmxVars, intVars, txVars, rxVars, heard>>

\* Fault: the pending flag is cleared and the interrupt never enabled.
EnableTxEmpty_off == ena

\* uart_enable_tx_intr: the interrupt is enabled before the state is set.
EnableTxEmpty == [ena EXCEPT !.txEmpty = TRUE]

enable_tx_intr ==
  /\ pc = "enable" /\ pc' = "start"
  /\ ena' = EnableTxEmpty
  /\ UNCHANGED <<want, calls, installed, pin, dmxVars, txDoneRaw, brkRaw, txVars, rxVars, busVars>>

enable_tx_state ==
  /\ pc = "start" /\ pc' = "running"
  /\ dmxState' = "START"
  /\ UNCHANGED <<want, calls, installed, pin, slot, txRunning, intVars, txVars, rxVars, busVars>>

enable_tx_running ==
  /\ pc = "running" /\ pc' = "idle"
  /\ txRunning' = TRUE
  /\ UNCHANGED <<want, calls, installed, pin, dmxState, slot, intVars, txVars, rxVars, busVars>>

receive_baud ==
  /\ pc = "baud" /\ pc' = "stateIdle"
  /\ SetBaud("DATA")
  /\ UNCHANGED <<want, calls, installed, pin, dmxVars, intVars, txFifo, sym, rxVars, busVars>>

disable_tx_state ==
  /\ pc = "stateIdle" /\ pc' = "notRunning"
  /\ dmxState' = "IDLE"
  /\ UNCHANGED <<want, calls, installed, pin, slot, txRunning, intVars, txVars, rxVars, busVars>>

disable_tx_running ==
  /\ pc = "notRunning" /\ pc' = "disable"
  /\ txRunning' = FALSE
  /\ UNCHANGED <<want, calls, installed, pin, dmxState, slot, intVars, txVars, rxVars, busVars>>

disable_tx_intr ==
  /\ pc = "disable" /\ pc' = "idle"
  /\ ena' = [ena EXCEPT !.txEmpty = FALSE]
  /\ UNCHANGED <<want, calls, installed, pin, dmxVars, txDoneRaw, brkRaw, txVars, rxVars, busVars>>

\* UART_INTR_MASK leaves TX_DONE out: it stays as it is here, and its flag in
\* uart_driver_install.
stopDMXUart ==
  /\ installed
  /\ Call(want, "delete")
  /\ ena' = [NoIntr EXCEPT !.txDone = ena.txDone]
  /\ UNCHANGED <<installed, pin, dmxVars, txDoneRaw, brkRaw, baud, txFifo, shifter, rxVars, bus>>

\* esp_intr_free comes first, so that nothing runs between the steps of the deletion.
uart_driver_delete ==
  /\ pc = "delete" /\ pc' = "idle"
  /\ installed' = FALSE
  /\ dmxState' = "IDLE" /\ txRunning' = FALSE
  /\ ring' = 0 /\ fullFlg' = FALSE
  /\ ena' = [ena EXCEPT !.rxFull = FALSE, !.txEmpty = FALSE]
  /\ UNCHANGED <<want, calls, pin, slot, txDoneRaw, brkRaw, txVars, rxFifo, dmx, busVars>>

\* uart_enable_tx_intr of another port: only the assignment of _dmx_state is
\* under its if, so _tx_running is set for every port.
other_port_enable_tx ==
  /\ OtherPortsTransmit
  /\ txRunning' = TRUE
  /\ UNCHANGED <<taskVars, dmxState, slot, intVars, txVars, rxVars, busVars>>

TaskCall == \/ \E dir \in Directions : startDMXUart(dir) \/ changeDirectionDMXUart(dir)
            \/ stopDMXUart
            \/ other_port_enable_tx
TaskStep == \/ uart_param_config \/ uart_driver_install \/ changeDirection_pin
            \/ enable_tx_intr \/ enable_tx_state \/ enable_tx_running
            \/ receive_baud \/ disable_tx_state \/ disable_tx_running \/ disable_tx_intr
            \/ uart_driver_delete

-----------------------------------------------------------------------------
(* The interrupt handler: uart_rx_intr_handler_default for DMX_UART.  The  *)
(* status word is tested in this order.                                    *)

TxDonePending  == installed /\ ena.txDone /\ txDoneRaw
TxEmptyPending == installed /\ ena.txEmpty /\ txFifo = << >> /\ ~TxDonePending
BrkPending     == installed /\ ena.brk /\ brkRaw /\ ~TxDonePending /\ ~TxEmptyPending
RxPending      == installed /\ ena.rxFull /\ rxFifo # << >>
                  /\ ~TxDonePending /\ ~TxEmptyPending /\ ~(ena.brk /\ brkRaw)

\* Fault: the two ifs of the handler in the other order.
AfterTxDone_swapped(s) == IF s \in {"BREAK", "DATA"} THEN "START" ELSE s

\* The two ifs of the handler, in their order.
AfterTxDone(s) == CASE s = "BREAK" -> "START" [] s = "DATA" -> "BREAK" [] OTHER -> s

\* Fault: the FIFO interrupt stays off after TX_DONE.
Rearm_off == [ena EXCEPT !.txDone = FALSE]

Rearm == [ena EXCEPT !.txDone = FALSE, !.txEmpty = TRUE]

isr_tx_done ==
  /\ TxDonePending
  /\ ena' = Rearm
  /\ txDoneRaw' = FALSE
  /\ dmxState' = AfterTxDone(dmxState)
  /\ UNCHANGED <<taskVars, slot, txRunning, brkRaw, txVars, rxVars, busVars>>

\* Fault: a TX_DONE left over from an earlier pause is taken for the new one.
WaitTxDone_stale ==
  /\ ena' = [ena EXCEPT !.txEmpty = FALSE, !.txDone = TRUE]
  /\ UNCHANGED txDoneRaw

\* After the last slot and after the break the handler waits for TX_DONE, whose
\* stale flag uart_enable_intr_mask clears.
WaitTxDone ==
  /\ ena' = [ena EXCEPT !.txEmpty = FALSE, !.txDone = TRUE]
  /\ txDoneRaw' = FALSE

\* Faults: the frame is one slot too long; its first slot is left out.
FrameEnds_late(n) == n > MaxSlots
FirstSlot_skipped == 2

\* Both directions compare the slot to come with DMX_MAX_SLOTS.
FrameEnds(n) == n >= MaxSlots
FirstSlot    == 1

isr_tx_start ==
  /\ TxEmptyPending /\ dmxState = "START"
  /\ SetBaud("DATA")
  /\ slot' = FirstSlot /\ dmxState' = "DATA"
  /\ txFifo' = <<0>>
  /\ UNCHANGED <<taskVars, txRunning, intVars, sym, rxVars, busVars>>

isr_tx_slot ==
  /\ TxEmptyPending /\ dmxState = "DATA"
  /\ txFifo' = <<slot>>
  /\ slot' = slot + 1
  /\ IF FrameEnds(slot + 1) THEN WaitTxDone ELSE UNCHANGED <<ena, txDoneRaw>>
  /\ UNCHANGED <<taskVars, dmxState, txRunning, brkRaw, baud, shifter, sym, rxVars, busVars>>

isr_tx_break ==
  /\ TxEmptyPending /\ dmxState = "BREAK"
  /\ SetBaud("BREAK")
  /\ txFifo' = <<Break>>
  /\ WaitTxDone
  /\ sym' = IF Settled("SEND") /\ sym = Unsynced THEN Armed ELSE sym
  /\ UNCHANGED <<taskVars, dmxVars, brkRaw, rxVars, busVars>>

isr_tx_wake ==
  /\ TxEmptyPending /\ dmxState = "IDLE"
  /\ dmxState' = "START"
  /\ UNCHANGED <<taskVars, slot, txRunning, intVars, txVars, rxVars, busVars>>

\* Fault: a break does not cut a frame short.
BreakStartsFrame_late == ~txRunning /\ dmxState # "DATA"

BreakStartsFrame == ~txRunning

isr_brk_det ==
  /\ BrkPending
  /\ brkRaw' = FALSE
  /\ IF BreakStartsFrame THEN dmxState' = "BREAK" /\ slot' = 0
                         ELSE UNCHANGED <<dmxState, slot>>
  /\ UNCHANGED <<taskVars, txRunning, ena, txDoneRaw, txVars, rxVars, busVars>>

\* One byte is read per pass while the port receives.
RxDmx == RxPending /\ ~fullFlg /\ ~txRunning /\ rxFifo' = Tail(rxFifo)

\* The null byte of the break must be zero.
isr_rx_break ==
  /\ RxDmx /\ dmxState = "BREAK"
  /\ IF Head(rxFifo).zero THEN dmxState' = "DATA" /\ slot' = 0
                          ELSE dmxState' = "IDLE" /\ UNCHANGED slot
  /\ UNCHANGED <<taskVars, txRunning, intVars, txVars, ring, fullFlg, dmx, busVars>>

\* Fault: the start code is not looked at.
AlternateStart_never == FALSE

\* A start code other than zero ends the frame.
AlternateStart == slot = 0 /\ ~Head(rxFifo).zero

isr_rx_start_code ==
  /\ RxDmx /\ dmxState = "DATA" /\ AlternateStart
  /\ dmxState' = "IDLE"
  /\ UNCHANGED <<taskVars, slot, txRunning, intVars, txVars, ring, fullFlg, dmx, busVars>>

isr_rx_data ==
  /\ RxDmx /\ dmxState = "DATA" /\ ~AlternateStart
  /\ dmx' = [dmx EXCEPT ![slot] = [ch |-> Head(rxFifo).ch, frame |-> Head(rxFifo).frame]]
  /\ slot' = slot + 1
  /\ dmxState' = IF FrameEnds(slot + 1) THEN "IDLE" ELSE "DATA"
  /\ UNCHANGED <<taskVars, txRunning, intVars, txVars, ring, fullFlg, busVars>>

isr_rx_ignore ==
  /\ RxDmx /\ dmxState \in {"IDLE", "START"}
  /\ UNCHANGED <<taskVars, dmxVars, intVars, txVars, ring, fullFlg, dmx, busVars>>

\* Fault: the ring takes a byte more than it holds.
RingTakes_over == ring <= RingCap

\* xRingbufferSendFromISR succeeds.
RingTakes == ring + Len(rxFifo) <= RingCap

\* While _tx_running is set, what the FIFO holds goes to the ring; when it does
\* not fit, reception is disabled until someone reads the ring.
isr_rx_ring ==
  /\ RxPending /\ ~fullFlg /\ txRunning
  /\ rxFifo' = << >>
  /\ IF RingTakes
       THEN ring' = ring + Len(rxFifo) /\ UNCHANGED <<ena, fullFlg>>
       ELSE /\ ena' = [ena EXCEPT !.rxFull = FALSE]
            /\ fullFlg' = TRUE /\ UNCHANGED ring
  /\ UNCHANGED <<taskVars, dmxVars, txDoneRaw, brkRaw, txVars, dmx, busVars>>

Isr == \/ isr_tx_done \/ isr_tx_start \/ isr_tx_slot \/ isr_tx_break \/ isr_tx_wake
       \/ isr_brk_det \/ isr_rx_break \/ isr_rx_start_code \/ isr_rx_data
       \/ isr_rx_ignore \/ isr_rx_ring

Next == TaskCall \/ TaskStep \/ Isr \/ HwTx \/ HwRx

Spec == Init /\ [][Next]_vars

\* A call that has begun runs on, a pending interrupt is taken, and a byte in
\* the transmitter leaves it.  Nothing is assumed of callers or of the bus.
Fairness == WF_vars(TaskStep) /\ WF_vars(Isr) /\ WF_vars(HwTx)

FairSpec == Spec /\ Fairness

-----------------------------------------------------------------------------
(* Properties.                                                             *)

\* The handler never indexes _dmx_data outside its DMX_MAX_SLOTS bytes, neither
\* to send the next slot nor to store a received one.
SlotInBounds ==
  dmxState = "DATA" /\ (TxEmptyPending \/ (RxPending /\ ~fullFlg /\ ~txRunning))
    => slot \in Slots

\* The baud rate changes only while the transmitter is empty: no slot is cut by
\* the break's rate and no break by the slots'.
BaudStable == [][baud' # baud => shifter = None /\ txFifo = << >>]_vars

\* Whatever the interleaving of a direction change with the handler and however
\* late the handler runs, from the first break the handler starts after the
\* change on, the line carries the symbols of DMX512 in their order.
Wire == INSTANCE DmxWire WITH steady <- Settled("SEND"), busy <- shifter # None,
                              sym <- IF sym = Armed THEN Unsynced ELSE sym
WireOrder == Wire!WireSpec

\* A settled SEND sends breaks for ever (dmx_uart.c: "forever"), unless the
\* direction is changed again.
FramesForever == []<>(sym = Break \/ ~Settled("SEND"))

\* A byte stored in _dmx_data[k] is the one the sender meant for channel k, and
\* never one of an alternate start code frame or of a break.
RxAligned == \A k \in Slots : dmx[k].ch \in {None, k}

\* What has arrived of a frame that began after reception was settled is in
\* _dmx_data, but for the bytes the handler has yet to read.
RxCurrent ==
  heard /\ bus.null =>
    \A k \in 0 .. bus.pos - Len(rxFifo) : dmx[k] = [ch |-> k, frame |-> bus.frame]

-----------------------------------------------------------------------------
(* Why the line is in order when the application calls startDMXUart(SEND)  *)
(* once, as main.c does: an inductive invariant.                           *)

SendOnce == Directions = {"SEND"} /\ MaxCalls = 1

TxIdle == shifter = None /\ txFifo = << >>

\* Nothing is received, and until the interrupt is enabled nothing is sent.
SendPhases ==
  /\ want = "SEND" /\ pin = "SEND" /\ ~brkRaw /\ rxFifo = << >>
  /\ calls \in {0, 1}
  /\ pc \in {"idle", "config", "install", "pin", "enable", "start", "running"}
  /\ calls = 0 => pc = "idle" /\ ~installed
  /\ calls = 0 \/ pc \in {"config", "install", "pin", "enable"} =>
       dmxState = "IDLE" /\ ~ena.txEmpty /\ ~txDoneRaw
  /\ dmxState = "IDLE" => TxIdle
  /\ pc = "running" \/ (pc = "idle" /\ calls = 1) => dmxState # "IDLE"

\* The handler touches the baud rate only when nothing is being sent: TX_DONE
\* is heeded only then, and only TX_DONE leads to a break or out of one.
RatesMatch ==
  /\ ena.txDone /\ txDoneRaw => TxIdle
  /\ dmxState = "BREAK" /\ ena.txEmpty => TxIdle
  /\ dmxState = "START" /\ ena.txEmpty => baud = "DATA" \/ TxIdle
  /\ dmxState \in {"DATA", "IDLE"} => baud = "DATA"
  /\ shifter # Garbled
  /\ txFifo # << >> => (Head(txFifo) = Break <=> baud = "BREAK")

\* In a frame the FIFO interrupt is off exactly when the last slot is written.
SlotsCounted ==
  dmxState = "DATA" => slot \in 1 .. MaxSlots /\ (ena.txEmpty <=> slot < MaxSlots)

\* What the handler will write next, and what must come after a symbol.
Upcoming == CASE dmxState = "START" -> 0
              [] dmxState = "DATA" -> IF slot < MaxSlots THEN slot ELSE Break
              [] dmxState = "BREAK" -> IF ena.txEmpty THEN Break ELSE 0
              [] OTHER -> None
After(s) == IF s \in {Armed, MaxSlots - 1} THEN Break ELSE s + 1

\* On the line, in the shift register, in the FIFO, to be written: one sequence.
Chained ==
  LET inShifter == IF shifter = None THEN sym ELSE shifter
      inFifo    == IF txFifo = << >> THEN inShifter ELSE Head(txFifo)
  IN  /\ shifter # None => shifter = After(sym)
      /\ txFifo # << >> => Head(txFifo) = After(inShifter)
      /\ Upcoming = After(inFifo)

InStep ==
  sym # Unsynced =>
    /\ pc = "idle" /\ installed /\ (ena.txDone <=> ~ena.txEmpty)
    /\ Chained

SendInv == SendPhases /\ RatesMatch /\ SlotsCounted /\ InStep

=============================================================================
