--------------------------- MODULE DmxUartProofs ---------------------------
(***************************************************************************)
(* Theorems about the DMX port for every number of slots and every size of *)
(* the buffers: type correctness for every use the application makes of    *)
(* it, and, while it only receives, that a byte is stored in the channel   *)
(* it was sent for and that what was heard of a frame is stored.           *)
(***************************************************************************)
EXTENDS DmxUart, TLAPS

-----------------------------------------------------------------------------
(* Type correctness, for every use the application makes of the port.      *)

\* What the receive FIFO holds after a byte arrives.
LEMMA ReceiveType ==
  ASSUME TypeOK, NEW z \in BOOLEAN, NEW c \in {Garbled} \cup Slots, NEW f \in {0, 1},
         Receive(z, c, f)
  PROVE  rxFifo' \in Seq(RxByte) /\ Len(rxFifo') <= RxCap
<1> DEFINE b == [zero |-> z, ch |-> IF Marks THEN c ELSE Garbled, frame |-> f]
<1>1. b \in RxByte
  BY DEF RxByte
<1>2. rxFifo \in Seq(RxByte) /\ Len(rxFifo) \in Nat /\ Len(rxFifo) <= RxCap /\ RxCap \in Nat
  BY DmxAssumption DEF TypeOK, RxTypeOK
<1>3. rxFifo' = IF Len(rxFifo) < RxCap THEN Append(rxFifo, b) ELSE rxFifo
  BY DEF Receive
<1>4. CASE Len(rxFifo) < RxCap
  <2>1. Append(rxFifo, b) \in Seq(RxByte) /\ Len(Append(rxFifo, b)) = Len(rxFifo) + 1
    BY <1>1, <1>2
  <2> QED BY <2>1, <1>2, <1>3, <1>4
<1>5. CASE ~(Len(rxFifo) < RxCap)
  BY <1>2, <1>3, <1>5
<1> QED BY <1>4, <1>5

\* A group of variables that a step leaves alone keeps its type.
LEMMA SameType ==
  ASSUME TypeOK
  PROVE  /\ UNCHANGED taskVars => TaskTypeOK'
         /\ UNCHANGED dmxVars  => DmxTypeOK'
         /\ UNCHANGED intVars  => IntTypeOK'
         /\ UNCHANGED txVars   => TxTypeOK'
         /\ UNCHANGED rxVars   => RxTypeOK'
         /\ UNCHANGED busVars  => BusTypeOK'
<1>1. UNCHANGED taskVars => TaskTypeOK'
  BY DEF TypeOK, TaskTypeOK, taskVars
<1>2. UNCHANGED dmxVars => DmxTypeOK'
  BY DEF TypeOK, DmxTypeOK, dmxVars
<1>3. UNCHANGED intVars => IntTypeOK'
  BY DEF TypeOK, IntTypeOK, intVars
<1>4. UNCHANGED txVars => TxTypeOK'
  BY DEF TypeOK, TxTypeOK, txVars
<1>5. UNCHANGED rxVars => RxTypeOK'
  BY DEF TypeOK, RxTypeOK, rxVars
<1>6. UNCHANGED busVars => BusTypeOK'
  BY DEF TypeOK, BusTypeOK, busVars
<1> QED BY <1>1, <1>2, <1>3, <1>4, <1>5, <1>6

LEMMA TypeTask == TypeOK /\ (TaskCall \/ TaskStep) => TypeOK'
<1> SUFFICES ASSUME TypeOK, TaskCall \/ TaskStep PROVE TypeOK'
  OBVIOUS
<1>1. CASE \E dir \in Directions : startDMXUart(dir)
  <2> PICK dir \in Directions : startDMXUart(dir)
    BY <1>1
  <2>0. dir \in {"SEND", "RECEIVE"}
    BY DmxAssumption
  <2>1. TaskTypeOK'
    BY <1>1, <2>0 DEF startDMXUart, Call, SetPin, TypeOK, TaskTypeOK, TaskSteps
  <2>2. TxTypeOK'
    BY <1>1, <2>0 DEF startDMXUart, Call, TypeOK, TxTypeOK
  <2>3. BusTypeOK'
    BY <1>1, <2>0 DEF startDMXUart, Call, SetPin, TypeOK, BusTypeOK
  <2> QED BY <1>1, <2>1, <2>2, <2>3, SameType DEF TypeOK, startDMXUart, Call
<1>2. CASE \E dir \in Directions : changeDirectionDMXUart(dir)
  <2> PICK dir \in Directions : changeDirectionDMXUart(dir)
    BY <1>2
  <2>0. dir \in {"SEND", "RECEIVE"}
    BY DmxAssumption
  <2>1. TaskTypeOK'
    BY <1>2, <2>0 DEF changeDirectionDMXUart, Call, TypeOK, TaskTypeOK, TaskSteps
  <2>2. TxTypeOK'
    BY <1>2, <2>0 DEF changeDirectionDMXUart, Call, TypeOK, TxTypeOK
  <2>3. BusTypeOK'
    BY <1>2, <2>0 DEF changeDirectionDMXUart, Call, TypeOK, BusTypeOK
  <2> QED BY <1>2, <2>1, <2>2, <2>3, SameType DEF TypeOK, changeDirectionDMXUart, Call
<1>3. CASE stopDMXUart
  <2>1. TaskTypeOK'
    BY <1>3 DEF stopDMXUart, Call, TypeOK, TaskTypeOK, TaskSteps
  <2>2. IntTypeOK'
    BY <1>3 DEF stopDMXUart, TypeOK, IntTypeOK, NoIntr
  <2>3. TxTypeOK'
    BY <1>3 DEF stopDMXUart, Call, TypeOK, TxTypeOK
  <2>4. BusTypeOK'
    BY <1>3 DEF stopDMXUart, Call, TypeOK, BusTypeOK
  <2> QED BY <1>3, <2>1, <2>2, <2>3, <2>4, SameType DEF TypeOK, stopDMXUart, Call
<1>4. CASE other_port_enable_tx
  BY <1>4, SameType DEF TypeOK, other_port_enable_tx, DmxTypeOK, dmxVars, DmxStates
<1>5. CASE uart_param_config
  BY <1>5, SameType DEF TypeOK, uart_param_config, SetBaud, TaskTypeOK, taskVars,
     TaskSteps, TxTypeOK, txVars
<1>6. CASE uart_driver_install
  <2>1. TaskTypeOK'
    BY <1>6 DEF uart_driver_install, TypeOK, TaskTypeOK, TaskSteps
  <2>2. IntTypeOK'
    BY <1>6 DEF uart_driver_install, intVars, TypeOK, IntTypeOK, NoIntr
  <2>3. RxTypeOK'
    <3>1. ring' \in 0 .. RingCap
      BY <1>6, DmxAssumption DEF uart_driver_install, TypeOK, RxTypeOK
    <3>2. fullFlg' \in BOOLEAN
      BY <1>6, DmxAssumption DEF uart_driver_install, TypeOK, RxTypeOK
    <3> QED BY <1>6, <3>1, <3>2 DEF uart_driver_install, TypeOK, RxTypeOK
  <2> QED BY <1>6, <2>1, <2>2, <2>3, SameType DEF TypeOK, uart_driver_install
<1>7. CASE changeDirection_pin
  BY <1>7, SameType DEF TypeOK, changeDirection_pin, SetPin, TaskTypeOK, taskVars,
     TaskSteps, BusTypeOK, busVars
<1>8. CASE enable_tx_intr
  BY <1>8, SameType DEF TypeOK, enable_tx_intr, EnableTxEmpty, TaskTypeOK, taskVars,
     TaskSteps, IntTypeOK, intVars, NoIntr
<1>9. CASE enable_tx_state
  BY <1>9, SameType DEF TypeOK, enable_tx_state, TaskTypeOK, taskVars, TaskSteps,
     DmxTypeOK, dmxVars, DmxStates
<1>10. CASE enable_tx_running
  BY <1>10, SameType DEF TypeOK, enable_tx_running, TaskTypeOK, taskVars, TaskSteps,
     DmxTypeOK, dmxVars, DmxStates
<1>11. CASE receive_baud
  BY <1>11, SameType DEF TypeOK, receive_baud, SetBaud, TaskTypeOK, taskVars,
     TaskSteps, TxTypeOK, txVars
<1>12. CASE disable_tx_state
  BY <1>12, SameType DEF TypeOK, disable_tx_state, TaskTypeOK, taskVars, TaskSteps,
     DmxTypeOK, dmxVars, DmxStates
<1>13. CASE disable_tx_running
  BY <1>13, SameType DEF TypeOK, disable_tx_running, TaskTypeOK, taskVars, TaskSteps,
     DmxTypeOK, dmxVars, DmxStates
<1>14. CASE disable_tx_intr
  BY <1>14, SameType DEF TypeOK, disable_tx_intr, TaskTypeOK, taskVars, TaskSteps,
     IntTypeOK, intVars, NoIntr
<1>15. CASE uart_driver_delete
  <2>1. TaskTypeOK'
    BY <1>15 DEF uart_driver_delete, TypeOK, TaskTypeOK, TaskSteps
  <2>2. DmxTypeOK'
    BY <1>15 DEF uart_driver_delete, TypeOK, DmxTypeOK, DmxStates
  <2>3. RxTypeOK'
    <3>1. ring' \in 0 .. RingCap
      BY <1>15, DmxAssumption DEF uart_driver_delete, TypeOK, RxTypeOK
    <3>2. fullFlg' \in BOOLEAN
      BY <1>15, DmxAssumption DEF uart_driver_delete, TypeOK, RxTypeOK
    <3> QED BY <1>15, <3>1, <3>2 DEF uart_driver_delete, TypeOK, RxTypeOK
  <2>4. IntTypeOK'
    BY <1>15 DEF uart_driver_delete, TypeOK, IntTypeOK
  <2> QED BY <1>15, <2>1, <2>2, <2>3, <2>4, SameType DEF TypeOK, uart_driver_delete
<1> QED
  BY <1>1, <1>2, <1>3, <1>4, <1>5, <1>6, <1>7, <1>8, <1>9, <1>10, <1>11, <1>12, <1>13,
     <1>14, <1>15 DEF TaskCall, TaskStep

LEMMA TypeIsr == TypeOK /\ Isr => TypeOK'
<1> SUFFICES ASSUME TypeOK, Isr PROVE TypeOK'
  OBVIOUS
<1>1. CASE isr_tx_done
  BY <1>1, SameType DEF TypeOK, isr_tx_done, Rearm, AfterTxDone, DmxTypeOK, dmxVars,
     DmxStates, IntTypeOK, intVars, NoIntr
<1>2. CASE isr_tx_start
  BY <1>2, SameType DEF TypeOK, isr_tx_start, SetBaud, FirstSlot, DmxTypeOK, dmxVars,
     DmxStates, TxTypeOK, txVars
<1>3. CASE isr_tx_slot
  <2>1. DmxTypeOK'
    BY <1>3 DEF isr_tx_slot, TypeOK, DmxTypeOK, DmxStates
  <2>2. IntTypeOK'
    BY <1>3 DEF isr_tx_slot, WaitTxDone, TypeOK, IntTypeOK, NoIntr
  <2>3. TxTypeOK'
    BY <1>3, <<slot>> \in Seq(Nat \cup {Break}), Len(<<slot>>) = 1
       DEF isr_tx_slot, TypeOK, TxTypeOK, DmxTypeOK
  <2> QED BY <1>3, <2>1, <2>2, <2>3, SameType DEF TypeOK, isr_tx_slot
<1>4. CASE isr_tx_break
  <2>1. IntTypeOK'
    BY <1>4 DEF isr_tx_break, WaitTxDone, TypeOK, IntTypeOK, NoIntr
  <2>2. TxTypeOK'
    BY <1>4 DEF isr_tx_break, SetBaud, TypeOK, TxTypeOK
  <2> QED BY <1>4, <2>1, <2>2, SameType DEF TypeOK, isr_tx_break
<1>5. CASE isr_tx_wake
  BY <1>5, SameType DEF TypeOK, isr_tx_wake, DmxTypeOK, dmxVars, DmxStates
<1>6. CASE isr_brk_det
  <2>1. DmxTypeOK'
    BY <1>6 DEF isr_brk_det, TypeOK, DmxTypeOK, DmxStates
  <2>2. IntTypeOK'
    BY <1>6 DEF isr_brk_det, TypeOK, IntTypeOK, NoIntr
  <2> QED BY <1>6, <2>1, <2>2, SameType DEF TypeOK, isr_brk_det
<1>7. ASSUME RxDmx
      PROVE  /\ rxFifo' \in Seq(RxByte) /\ Len(rxFifo') <= RxCap
             /\ Head(rxFifo) \in RxByte
  <2>1. rxFifo \in Seq(RxByte) /\ rxFifo # << >> /\ rxFifo' = Tail(rxFifo)
    BY <1>7 DEF RxDmx, RxPending, TypeOK, RxTypeOK
  <2>2. Head(rxFifo) \in RxByte /\ Tail(rxFifo) \in Seq(RxByte)
        /\ Len(Tail(rxFifo)) = Len(rxFifo) - 1
    BY <2>1
  <2> QED BY <2>1, <2>2, DmxAssumption DEF TypeOK, RxTypeOK
<1>8. CASE isr_rx_break
  BY <1>7, <1>8, SameType
     DEF TypeOK, isr_rx_break, DmxTypeOK, dmxVars, DmxStates, RxTypeOK, rxVars
<1>9. CASE isr_rx_start_code
  BY <1>7, <1>9, SameType
     DEF TypeOK, isr_rx_start_code, DmxTypeOK, dmxVars, DmxStates, RxTypeOK, rxVars
<1>10. CASE isr_rx_data
  <2>1. [ch |-> Head(rxFifo).ch, frame |-> Head(rxFifo).frame] \in Stored
    BY <1>7, <1>10 DEF isr_rx_data, RxByte, Stored
  <2>2. dmx' \in [Slots -> Stored]
    BY <2>1, <1>10 DEF isr_rx_data, TypeOK, RxTypeOK
  <2>3. RxTypeOK'
    BY <1>7, <1>10, <2>2 DEF isr_rx_data, TypeOK, RxTypeOK
  <2>4. DmxTypeOK'
    BY <1>10 DEF isr_rx_data, TypeOK, DmxTypeOK, DmxStates
  <2> QED BY <1>10, <2>3, <2>4, SameType DEF isr_rx_data, TypeOK
<1>11. CASE isr_rx_ignore
  BY <1>7, <1>11, SameType DEF TypeOK, isr_rx_ignore, RxTypeOK, rxVars
<1>12. CASE isr_rx_ring
  <2>1. << >> \in Seq(RxByte) /\ Len(<< >>) = 0
    OBVIOUS
  <2>2. Len(rxFifo) \in Nat
    BY DEF TypeOK, RxTypeOK
  <2>3. RxTypeOK'
    <3>1. ring' \in 0 .. RingCap
      BY <1>12, <2>2, DmxAssumption DEF isr_rx_ring, RingTakes, TypeOK, RxTypeOK
    <3>2. fullFlg' \in BOOLEAN
      BY <1>12, <2>2, DmxAssumption DEF isr_rx_ring, RingTakes, TypeOK, RxTypeOK
    <3>3. rxFifo' \in Seq(RxByte) /\ Len(rxFifo') <= RxCap
      BY <1>12, <2>1, DmxAssumption DEF isr_rx_ring
    <3> QED BY <1>12, <3>1, <3>2, <3>3 DEF isr_rx_ring, TypeOK, RxTypeOK
  <2>4. IntTypeOK'
    BY <1>12 DEF isr_rx_ring, TypeOK, IntTypeOK
  <2> QED BY <1>12, <2>3, <2>4, SameType DEF isr_rx_ring, TypeOK
<1> QED
  BY <1>1, <1>2, <1>3, <1>4, <1>5, <1>6, <1>8, <1>9, <1>10, <1>11, <1>12 DEF Isr

LEMMA TypeHardware == TypeOK /\ (HwTx \/ HwRx) => TypeOK'
<1> SUFFICES ASSUME TypeOK, HwTx \/ HwRx PROVE TypeOK'
  OBVIOUS
<1>1. CASE LoadShifter
  <2>1. txFifo \in Seq(Nat \cup {Break}) /\ txFifo # << >> /\ Len(txFifo) <= 1
    BY <1>1 DEF LoadShifter, TypeOK, TxTypeOK
  <2>2. Head(txFifo) \in Nat \cup {Break} /\ Tail(txFifo) \in Seq(Nat \cup {Break})
        /\ Len(Tail(txFifo)) <= 1
    BY <2>1
  <2>3. TxTypeOK'
    BY <1>1, <2>2 DEF LoadShifter, SymbolOf, TypeOK, TxTypeOK
  <2> QED BY <1>1, <2>3, SameType DEF LoadShifter, TypeOK
<1>2. CASE ShiftDone
  <2>1. sym' \in {Unsynced, Armed, shifter} /\ shifter \in Nat \cup {Break, Garbled}
    BY <1>2 DEF ShiftDone, TypeOK, TxTypeOK
  <2>2. TxTypeOK'
    BY <1>2, <2>1 DEF ShiftDone, TypeOK, TxTypeOK
  <2>3. IntTypeOK'
    BY <1>2 DEF ShiftDone, TypeOK, IntTypeOK
  <2> QED BY <1>2, <2>2, <2>3, SameType DEF ShiftDone, TypeOK
<1>3. ASSUME rxFifo' \in Seq(RxByte), Len(rxFifo') <= RxCap, UNCHANGED <<ring, fullFlg, dmx>>
      PROVE  RxTypeOK'
  BY <1>3 DEF TypeOK, RxTypeOK
<1>4. CASE BusBreak
  <2>1. RxTypeOK'
    BY <1>3, <1>4, ReceiveType DEF BusBreak
  <2>2. BusTypeOK' /\ IntTypeOK'
    BY <1>4 DEF BusBreak, TypeOK, BusTypeOK, IntTypeOK, Settled
  <2> QED BY <1>4, <2>1, <2>2, SameType DEF BusBreak, TypeOK, taskVars, dmxVars, txVars
<1>5. CASE BusStartCode
  <2> PICK null \in Nulls : /\ bus' = [bus EXCEPT !.pos = 0, !.null = null]
                            /\ Receive(null, IF null THEN 0 ELSE Garbled, bus.frame)
    BY <1>5 DEF BusStartCode
  <2>1. null \in BOOLEAN /\ 0 \in Slots /\ bus.frame \in {0, 1}
    BY DmxAssumption DEF Slots, TypeOK, BusTypeOK
  <2>2. RxTypeOK'
    BY <1>3, <1>5, <2>1, ReceiveType DEF BusStartCode
  <2>3. BusTypeOK'
    BY <1>5, <2>1 DEF BusStartCode, TypeOK, BusTypeOK
  <2> QED BY <1>5, <2>2, <2>3, SameType DEF BusStartCode, TypeOK
<1>6. CASE BusChannel
  <2> PICK z \in Zeros : Receive(z, IF bus.null THEN bus.pos + 1 ELSE Garbled, bus.frame)
    BY <1>6 DEF BusChannel
  <2>1. z \in BOOLEAN /\ bus.pos + 1 \in Slots /\ bus.frame \in {0, 1}
    BY <1>6, DmxAssumption DEF BusChannel, Slots, TypeOK, BusTypeOK
  <2>2. RxTypeOK'
    BY <1>3, <1>6, <2>1, ReceiveType DEF BusChannel
  <2>3. BusTypeOK'
    BY <1>6, <2>1 DEF BusChannel, TypeOK, BusTypeOK
  <2> QED BY <1>6, <2>2, <2>3, SameType DEF BusChannel, TypeOK
<1>7. CASE BusTail
  <2> PICK z \in Zeros : Receive(z, Garbled, bus.frame)
    BY <1>7 DEF BusTail
  <2>1. z \in BOOLEAN /\ bus.frame \in {0, 1}
    BY DmxAssumption DEF TypeOK, BusTypeOK
  <2>2. RxTypeOK'
    BY <1>3, <1>7, <2>1, ReceiveType DEF BusTail
  <2> QED BY <1>7, <2>2, SameType DEF BusTail, TypeOK
<1> QED BY <1>1, <1>2, <1>4, <1>5, <1>6, <1>7 DEF HwTx, HwRx

LEMMA TypeStutter == TypeOK /\ UNCHANGED vars => TypeOK'
  BY SameType DEF TypeOK, vars

LEMMA TypeInit == Init => TypeOK
<1> SUFFICES ASSUME Init PROVE TypeOK
  OBVIOUS
<1>1. 0 \in 0 .. RingCap /\ Len(<< >>) = 0 /\ << >> \in Seq(RxByte)
      /\ << >> \in Seq(Nat \cup {Break})
  BY DmxAssumption
<1>2. RxTypeOK
  <2>1. dmx \in [Slots -> Stored]
    BY DEF Init, Stored
  <2>2. rxFifo \in Seq(RxByte) /\ Len(rxFifo) <= RxCap
    BY <1>1, DmxAssumption DEF Init
  <2> QED BY <1>1, <2>1, <2>2 DEF Init, RxTypeOK
<1>3. TaskTypeOK /\ DmxTypeOK /\ IntTypeOK /\ BusTypeOK
  BY DEF Init, TaskTypeOK, TaskSteps, DmxTypeOK, DmxStates, IntTypeOK, NoIntr, BusTypeOK
<1>4. TxTypeOK
  BY <1>1 DEF Init, TxTypeOK
<1> QED BY <1>2, <1>3, <1>4 DEF TypeOK

\* Every variable keeps its type: the ring is never overfull, the transmit FIFO
\* never holds more than the one byte its threshold allows.
THEOREM TypeCorrect == Spec => []TypeOK
<1>1. TypeOK /\ [Next]_vars => TypeOK'
  BY TypeTask, TypeIsr, TypeHardware, TypeStutter DEF Next
<1> QED BY <1>1, TypeInit, PTL DEF Spec

-----------------------------------------------------------------------------
(* Reception: a byte is stored where the sender meant it, and what was     *)
(* heard of a frame is stored.                                             *)

\* The application only receives, no other port transmits, the handler is back before
\* the next byte, and bytes tell which channel they are.
PromptReceiver == Directions = {"RECEIVE"} /\ ~OtherPortsTransmit /\ RxLag = 1 /\ Marks

\* Nothing is ever sent, and the receiver is on while the driver is installed.
Listening ==
  /\ pc \notin {"enable", "start", "running"} /\ (pc = "idle" \/ want = "RECEIVE")
  /\ pin = "SEND" => bus.pos = None /\ rxFifo = << >>
  /\ installed \/ pc # "idle" => want = "RECEIVE" /\ pin = "RECEIVE"
  /\ ~txRunning /\ ~fullFlg /\ ~txDoneRaw /\ shifter = None /\ txFifo = << >>
  /\ ena = IF installed /\ pc # "delete"
             THEN [NoIntr EXCEPT !.rxFull = TRUE, !.txDone = TRUE, !.brk = TRUE]
             ELSE [NoIntr EXCEPT !.txDone = ena.txDone]
  /\ ~installed => dmxState = "IDLE"
  /\ pc = "delete" => installed
  /\ dmxState # "START"
  /\ heard => Settled("RECEIVE")

\* The channel the sender is at is the one the handler waits for, or has in its FIFO.
InTune ==
  ena.rxFull =>
    /\ brkRaw \/ dmxState = "BREAK" =>
         bus.pos = Break /\ Len(rxFifo) = 1 /\ Head(rxFifo).zero
    /\ ~brkRaw /\ dmxState = "DATA" =>
         /\ slot \in Slots /\ (slot > 0 => bus.null)
         /\ \/ rxFifo = << >> /\ slot = bus.pos + 1
            \/ /\ Len(rxFifo) = 1 /\ slot = bus.pos
               /\ slot = 0 => Head(rxFifo).zero = bus.null
               /\ bus.null => Head(rxFifo).ch = slot /\ Head(rxFifo).frame = bus.frame

Has(k) == dmx[k] = [ch |-> k, frame |-> bus.frame]

\* What was heard of the frame is stored, up to the slot the handler waits for.
Heard ==
  heard /\ ~brkRaw =>
    /\ dmxState = "DATA" /\ bus.null => \A k \in Slots : k < slot => Has(k)
    /\ dmxState = "IDLE" => /\ bus.pos \in Slots
                            /\ bus.null => bus.pos = MaxSlots - 1 /\ \A k \in Slots : Has(k)

ReceiveInv == TypeOK /\ Listening /\ InTune /\ RxAligned /\ Heard

\* The port is silent before the first call.
LEMMA ReceiveInit == Init => ReceiveInv
<1> SUFFICES ASSUME Init PROVE ReceiveInv
  OBVIOUS
<1>1. Listening
  <2>1. [NoIntr EXCEPT !.txDone = NoIntr.txDone] = NoIntr
    BY DEF NoIntr
  <2> QED BY <2>1 DEF Init, Listening, Settled
<1>2. InTune /\ Heard
  BY DEF Init, InTune, Heard, NoIntr
<1>3. RxAligned
  BY DEF Init, RxAligned
<1> QED BY <1>1, <1>2, <1>3, TypeInit DEF ReceiveInv

\* The interrupts in force while the port listens.
LEMMA EnabledLaws ==
  ASSUME TypeOK, Listening
  PROVE  /\ ~ena.txEmpty /\ ~TxDonePending /\ ~TxEmptyPending /\ (ena.brk <=> ena.rxFull)
         /\ ena.rxFull <=> installed /\ pc # "delete"
<1>1. /\ ena \in [txEmpty : BOOLEAN, txDone : BOOLEAN, rxFull : BOOLEAN, brk : BOOLEAN]
      /\ installed \in BOOLEAN
  BY DEF TypeOK, IntTypeOK, TaskTypeOK
<1>2. CASE installed /\ pc # "delete"
  BY <1>1, <1>2 DEF Listening, NoIntr, TxDonePending, TxEmptyPending
<1>3. CASE ~(installed /\ pc # "delete")
  BY <1>1, <1>3 DEF Listening, NoIntr, TxDonePending, TxEmptyPending
<1> QED BY <1>2, <1>3

\* A step of the task that leaves the received bytes alone keeps the rest in tune.
LEMMA TaskKeeps ==
  ASSUME InTune, RxAligned, UNCHANGED <<rxFifo, bus, slot, dmx>>,
         dmxState' \in {dmxState, "IDLE"}, brkRaw' \in {brkRaw, FALSE},
         ena'.rxFull => ena.rxFull \/ (brkRaw' = FALSE /\ dmxState' = "IDLE"),
         brkRaw' # brkRaw => dmxState' = "IDLE", ~heard'
  PROVE  InTune' /\ RxAligned' /\ Heard'
<1>1. InTune'
  BY DEF InTune
<1>2. RxAligned' /\ Heard'
  BY DEF RxAligned, Heard
<1> QED BY <1>1, <1>2

\* The calls.
LEMMA ReceiveCalls ==
  ASSUME PromptReceiver, ReceiveInv, TaskCall
  PROVE  Listening' /\ InTune' /\ RxAligned' /\ Heard'
<1> USE DEF taskVars, dmxVars, intVars, txVars, rxVars, busVars
<1>0. TypeOK /\ Listening /\ InTune /\ RxAligned
  BY DEF ReceiveInv
<1>1. CASE startDMXUart("RECEIVE")
  <2>1. /\ pc = "idle" /\ pc' = "config" /\ want' = "RECEIVE" /\ pin' = "RECEIVE" /\ heard' = FALSE
        /\ UNCHANGED <<installed, dmxState, slot, txRunning, ena, txDoneRaw, brkRaw, shifter, txFifo,
                       rxFifo, fullFlg, dmx>>
    BY <1>1 DEF startDMXUart, Call, SetPin
  <2>2. bus' = bus
    <3>1. CASE pin = "RECEIVE"
      BY <1>1, <3>1 DEF startDMXUart, SetPin
    <3>2. CASE pin = "SEND"
      <4>1. bus' = [bus EXCEPT !.pos = None] /\ bus.pos = None
        BY <1>0, <1>1, <3>2 DEF startDMXUart, SetPin, Listening
      <4> QED BY <1>0, <4>1 DEF TypeOK, BusTypeOK
    <3> QED BY <1>0, <3>1, <3>2 DEF TypeOK, TaskTypeOK
  <2>3. Listening'
    BY <1>0, <2>1 DEF Listening, Settled
  <2>4. InTune' /\ RxAligned' /\ Heard'
    BY <1>0, <2>1, <2>2, TaskKeeps
  <2> QED BY <2>3, <2>4
<1>2. CASE changeDirectionDMXUart("RECEIVE")
  <2>1. /\ installed /\ pc = "idle" /\ pc' = "pin" /\ want' = "RECEIVE" /\ heard' = FALSE
        /\ UNCHANGED <<pin, installed, dmxState, slot, txRunning, ena, txDoneRaw, brkRaw, shifter, txFifo,
                       rxFifo, fullFlg, dmx, bus>>
    BY <1>2 DEF changeDirectionDMXUart, Call
  <2>2. Listening'
    BY <1>0, <2>1 DEF Listening, Settled
  <2>3. InTune' /\ RxAligned' /\ Heard'
    BY <1>0, <2>1, TaskKeeps
  <2> QED BY <2>2, <2>3
<1>3. CASE stopDMXUart
  <2>1. /\ installed /\ pc = "idle" /\ pc' = "delete" /\ want' = want /\ heard' = FALSE
        /\ ena' = [NoIntr EXCEPT !.txDone = ena.txDone]
        /\ UNCHANGED <<pin, installed, dmxState, slot, txRunning, txDoneRaw, brkRaw, shifter, txFifo,
                       rxFifo, fullFlg, dmx, bus>>
    BY <1>3 DEF stopDMXUart, Call
  <2>2. Listening'
    BY <1>0, <2>1 DEF Listening, Settled
  <2>3. ~ena'.rxFull
    BY <2>1 DEF NoIntr
  <2>4. InTune' /\ RxAligned' /\ Heard'
    BY <1>0, <2>1, <2>3, TaskKeeps
  <2> QED BY <2>2, <2>4
<1> QED BY <1>1, <1>2, <1>3 DEF TaskCall, PromptReceiver, other_port_enable_tx

\* The steps of a call.
LEMMA ReceiveSteps ==
  ASSUME ReceiveInv, TaskStep
  PROVE  Listening' /\ InTune' /\ RxAligned' /\ Heard'
<1> USE DEF taskVars, dmxVars, intVars, txVars, rxVars, busVars
<1>0. /\ TypeOK /\ Listening /\ InTune /\ RxAligned
      /\ pc # "idle" => want = "RECEIVE" /\ pin = "RECEIVE" /\ ~heard
  BY DEF ReceiveInv, Listening, Settled
<1>1. CASE uart_param_config \/ receive_baud
  <2>1. /\ \/ pc = "config" /\ pc' = "install"
           \/ pc = "baud" /\ pc' = "stateIdle"
        /\ UNCHANGED <<want, pin, installed, dmxState, slot, txRunning, ena, txDoneRaw, brkRaw, txFifo,
                       rxFifo, fullFlg, dmx, bus, heard>>
    BY <1>1 DEF uart_param_config, receive_baud
  <2>2. shifter' = shifter
    BY <1>0, <1>1 DEF uart_param_config, receive_baud, SetBaud, Listening
  <2>3. Listening'
    BY <1>0, <2>1, <2>2 DEF Listening, Settled
  <2>4. InTune' /\ RxAligned' /\ Heard'
    BY <1>0, <2>1, TaskKeeps
  <2> QED BY <2>3, <2>4
<1>2. CASE uart_driver_install
  <2>1. /\ pc = "install" /\ pc' = "pin" /\ installed' /\ ~fullFlg'
        /\ UNCHANGED <<want, pin, dmxState, slot, txRunning, shifter, txFifo, rxFifo, dmx, bus, heard>>
    BY <1>0, <1>2 DEF uart_driver_install, Listening
  <2>2. CASE installed
    <3>1. UNCHANGED <<ena, txDoneRaw, brkRaw>>
      BY <1>2, <2>2 DEF uart_driver_install
    <3>2. Listening'
      BY <1>0, <2>1, <2>2, <3>1 DEF Listening, Settled
    <3> QED BY <1>0, <2>1, <3>1, <3>2, TaskKeeps
  <2>3. CASE ~installed
    <3>1. /\ ena' = [NoIntr EXCEPT !.rxFull = TRUE, !.txDone = TRUE, !.brk = TRUE]
          /\ txDoneRaw' = txDoneRaw /\ brkRaw' = FALSE /\ dmxState = "IDLE"
      BY <1>0, <1>2, <2>3 DEF uart_driver_install, Listening
    <3>2. Listening'
      BY <1>0, <2>1, <3>1 DEF Listening, Settled
    <3> QED BY <1>0, <2>1, <3>1, <3>2, TaskKeeps
  <2> QED BY <2>2, <2>3
<1>3. CASE changeDirection_pin
  <2>1. /\ pc = "pin" /\ pc' = "baud"
        /\ UNCHANGED <<want, pin, installed, dmxState, slot, txRunning, ena, txDoneRaw, brkRaw, shifter, txFifo,
                       rxFifo, fullFlg, dmx, bus, heard>>
    BY <1>0, <1>3 DEF changeDirection_pin, SetPin
  <2>2. Listening'
    BY <1>0, <2>1 DEF Listening, Settled
  <2>3. InTune' /\ RxAligned' /\ Heard'
    BY <1>0, <2>1, TaskKeeps
  <2> QED BY <2>2, <2>3
<1>4. CASE disable_tx_state
  <2>1. /\ pc = "stateIdle" /\ pc' = "notRunning" /\ dmxState' = "IDLE"
        /\ UNCHANGED <<want, pin, installed, slot, txRunning, ena, txDoneRaw, brkRaw, shifter, txFifo,
                       rxFifo, fullFlg, dmx, bus, heard>>
    BY <1>4 DEF disable_tx_state
  <2>2. Listening'
    BY <1>0, <2>1 DEF Listening, Settled
  <2>3. InTune' /\ RxAligned' /\ Heard'
    BY <1>0, <2>1, TaskKeeps
  <2> QED BY <2>2, <2>3
<1>5. CASE disable_tx_running
  <2>1. /\ pc = "notRunning" /\ pc' = "disable" /\ txRunning' = FALSE
        /\ UNCHANGED <<want, pin, installed, dmxState, slot, ena, txDoneRaw, brkRaw, shifter, txFifo,
                       rxFifo, fullFlg, dmx, bus, heard>>
    BY <1>5 DEF disable_tx_running
  <2>2. Listening'
    BY <1>0, <2>1 DEF Listening, Settled
  <2>3. InTune' /\ RxAligned' /\ Heard'
    BY <1>0, <2>1, TaskKeeps
  <2> QED BY <2>2, <2>3
<1>6. CASE disable_tx_intr
  <2>1. /\ pc = "disable" /\ pc' = "idle" /\ ena' = [ena EXCEPT !.txEmpty = FALSE]
        /\ UNCHANGED <<want, pin, installed, dmxState, slot, txRunning, txDoneRaw, brkRaw, shifter, txFifo,
                       rxFifo, fullFlg, dmx, bus, heard>>
    BY <1>6 DEF disable_tx_intr
  <2>2. ena' = ena
    BY <1>0, <2>1, EnabledLaws DEF TypeOK, IntTypeOK
  <2>3. Listening'
    BY <1>0, <2>1, <2>2 DEF Listening, Settled
  <2>4. InTune' /\ RxAligned' /\ Heard'
    BY <1>0, <2>1, <2>2, TaskKeeps
  <2> QED BY <2>3, <2>4
<1>7. CASE uart_driver_delete
  <2>1. /\ pc = "delete" /\ pc' = "idle" /\ installed' = FALSE /\ dmxState' = "IDLE" /\ txRunning' = FALSE
        /\ fullFlg' = FALSE
        /\ ena' = [ena EXCEPT !.rxFull = FALSE, !.txEmpty = FALSE]
        /\ UNCHANGED <<want, pin, slot, txDoneRaw, brkRaw, shifter, txFifo, rxFifo, dmx, bus, heard>>
    BY <1>7 DEF uart_driver_delete
  <2>2. Listening'
    <3>1. ena = [NoIntr EXCEPT !.txDone = ena.txDone]
      BY <1>0, <2>1 DEF Listening
    <3>2. ena' = [NoIntr EXCEPT !.txDone = ena'.txDone]
      BY <2>1, <3>1 DEF NoIntr
    <3> QED BY <1>0, <2>1, <3>2 DEF Listening, Settled
  <2>3. InTune' /\ RxAligned' /\ Heard'
    BY <1>0, <2>1, TaskKeeps
  <2> QED BY <2>2, <2>3
<1>8. ~enable_tx_intr /\ ~enable_tx_state /\ ~enable_tx_running
  BY <1>0 DEF Listening, enable_tx_intr, enable_tx_state, enable_tx_running
<1> QED BY <1>1, <1>2, <1>3, <1>4, <1>5, <1>6, <1>7, <1>8 DEF TaskStep

\* The handler, while nothing is sent: breaks and bytes.
LEMMA ReceiveIsr ==
  ASSUME ReceiveInv, Isr
  PROVE  Listening' /\ InTune' /\ RxAligned' /\ Heard'
<1> USE DEF taskVars, dmxVars, intVars, txVars, rxVars, busVars
<1>0. TypeOK /\ Listening /\ InTune /\ RxAligned /\ Heard
  BY DEF ReceiveInv
<1>1. /\ ~TxDonePending /\ ~TxEmptyPending /\ (ena.brk <=> ena.rxFull) /\ ~txRunning /\ dmxState # "START"
      /\ bus \in [pos : {None, Break} \cup Slots, null : BOOLEAN, frame : {0, 1}]
      /\ heard => ena.rxFull
  BY <1>0, EnabledLaws DEF Listening, Settled, TypeOK, BusTypeOK
<1>2. dmxState' # "START" /\ UNCHANGED <<taskVars, txRunning, fullFlg, txDoneRaw, shifter, txFifo, ena, heard>>
        /\ (rxFifo = << >> => rxFifo' = << >>) /\ (bus' = bus) /\ ena.rxFull
      => Listening'
  BY <1>0, EnabledLaws DEF Listening, Settled
<1>3. CASE isr_brk_det
  <2>1. /\ ena.rxFull /\ brkRaw /\ brkRaw' = FALSE /\ dmxState' = "BREAK"
        /\ UNCHANGED <<taskVars, txRunning, fullFlg, txDoneRaw, shifter, txFifo, ena, heard, rxFifo, bus, dmx>>
    BY <1>1, <1>3 DEF isr_brk_det, BrkPending, BreakStartsFrame
  <2>2. InTune'
    BY <1>0, <2>1 DEF InTune
  <2> QED BY <1>0, <1>2, <2>1, <2>2 DEF RxAligned, Heard
<1>4. ASSUME RxDmx
      PROVE  /\ ena.rxFull /\ ~brkRaw /\ rxFifo # << >> /\ rxFifo' = Tail(rxFifo)
             /\ Len(rxFifo) = 1 => rxFifo' = << >>
             /\ Head(rxFifo).zero \in BOOLEAN
  <2>1. ena.rxFull /\ ~brkRaw /\ rxFifo # << >> /\ rxFifo' = Tail(rxFifo)
    BY <1>1, <1>4 DEF RxDmx, RxPending, TypeOK, IntTypeOK
  <2>2. rxFifo \in Seq(RxByte)
    BY <1>0 DEF TypeOK, RxTypeOK
  <2>3. Head(rxFifo) \in RxByte /\ (Len(rxFifo) = 1 => Tail(rxFifo) = << >>)
    BY <2>1, <2>2
  <2> QED BY <2>1, <2>3 DEF RxByte
<1>5. CASE isr_rx_break
  <2>1. /\ dmxState = "BREAK" /\ RxDmx
        /\ UNCHANGED <<taskVars, txRunning, fullFlg, txDoneRaw, brkRaw, shifter, txFifo, ena, heard, bus, dmx>>
    BY <1>5 DEF isr_rx_break
  <2>2. bus.pos = Break /\ Len(rxFifo) = 1 /\ Head(rxFifo).zero
    BY <1>0, <1>4, <2>1 DEF InTune
  <2>3. dmxState' = "DATA" /\ slot' = 0 /\ rxFifo' = << >>
    BY <1>4, <1>5, <2>1, <2>2 DEF isr_rx_break
  <2>4. 0 \in Slots /\ bus.pos + 1 = 0 /\ \A k \in Slots : ~(k < 0)
    BY <2>2, DmxAssumption DEF Slots, Break
  <2>5. InTune'
    BY <1>4, <2>1, <2>3, <2>4 DEF InTune
  <2>6. Heard' /\ RxAligned'
    BY <1>0, <2>1, <2>3, <2>4 DEF Heard, RxAligned
  <2> QED BY <1>2, <1>4, <2>1, <2>3, <2>5, <2>6
<1>6. ASSUME dmxState = "DATA", RxDmx
      PROVE  /\ slot \in Slots /\ (slot > 0 => bus.null) /\ slot = bus.pos /\ rxFifo' = << >>
             /\ slot = 0 => Head(rxFifo).zero = bus.null
             /\ bus.null => Head(rxFifo).ch = slot /\ Head(rxFifo).frame = bus.frame
  BY <1>0, <1>4, <1>6 DEF InTune
<1>7. CASE isr_rx_start_code
  <2>1. /\ dmxState = "DATA" /\ RxDmx /\ dmxState' = "IDLE" /\ slot = 0 /\ ~Head(rxFifo).zero
        /\ UNCHANGED <<taskVars, txRunning, fullFlg, txDoneRaw, brkRaw, shifter, txFifo, ena, heard, bus, dmx>>
    BY <1>7 DEF isr_rx_start_code, AlternateStart
  <2>2. bus.pos \in Slots /\ ~bus.null /\ rxFifo' = << >>
    BY <1>1, <1>6, <2>1
  <2>3. InTune' /\ RxAligned' /\ Heard'
    BY <1>0, <1>4, <2>1, <2>2 DEF InTune, RxAligned, Heard
  <2> QED BY <1>2, <1>4, <2>1, <2>2, <2>3
<1>8. CASE isr_rx_data
  <2>1. /\ dmxState = "DATA" /\ RxDmx /\ ~AlternateStart
        /\ dmx' = [dmx EXCEPT ![slot] = [ch |-> Head(rxFifo).ch, frame |-> Head(rxFifo).frame]]
        /\ slot' = slot + 1 /\ dmxState' = IF slot + 1 >= MaxSlots THEN "IDLE" ELSE "DATA"
        /\ UNCHANGED <<taskVars, txRunning, fullFlg, txDoneRaw, brkRaw, shifter, txFifo, ena, heard, bus>>
    BY <1>8 DEF isr_rx_data, FrameEnds
  <2>2. /\ slot \in Slots /\ slot = bus.pos /\ rxFifo' = << >> /\ slot \in Nat /\ MaxSlots \in Nat
        /\ Slots = 0 .. MaxSlots - 1
    BY <1>6, <2>1, DmxAssumption DEF Slots
  <2>3. bus.null
    <3>1. CASE slot = 0
      BY <1>4, <1>6, <2>1, <3>1 DEF AlternateStart
    <3>2. CASE slot > 0
      BY <1>6, <2>1, <3>2
    <3> QED BY <2>2, <3>1, <3>2
  <2>4. /\ dmx'[slot] = [ch |-> slot, frame |-> bus.frame]
        /\ \A k \in Slots : k # slot => dmx'[k] = dmx[k]
    <3>1. Head(rxFifo).ch = slot /\ Head(rxFifo).frame = bus.frame
      BY <1>6, <2>1, <2>3
    <3>2. dmx' = [dmx EXCEPT ![slot] = [ch |-> slot, frame |-> bus.frame]]
      BY <2>1, <3>1
    <3> QED BY <1>0, <2>2, <3>2 DEF TypeOK, RxTypeOK
  <2>5. RxAligned'
    BY <1>0, <2>2, <2>4 DEF RxAligned
  <2>6. InTune'
    <3>1. CASE slot + 1 >= MaxSlots
      BY <1>4, <2>1, <3>1 DEF InTune
    <3>2. CASE slot + 1 < MaxSlots
      <4>1. slot' \in Slots /\ slot' = bus'.pos + 1 /\ bus'.null /\ ~brkRaw' /\ dmxState' = "DATA"
        BY <1>4, <2>1, <2>2, <2>3, <3>2
      <4> QED BY <2>2, <4>1 DEF InTune
    <3> QED BY <2>2, <3>1, <3>2
  <2>7. Heard'
    <3>1. SUFFICES ASSUME heard, ~brkRaw PROVE Heard'
      BY <2>1 DEF Heard
    <3>2. \A k \in Slots : k < slot => dmx[k] = [ch |-> k, frame |-> bus.frame]
      BY <1>0, <2>1, <2>3, <3>1 DEF Heard, Has
    <3>3. \A k \in Slots : k < slot + 1 => dmx'[k] = [ch |-> k, frame |-> bus.frame]
      BY <2>2, <2>4, <3>2
    <3>4. CASE slot + 1 >= MaxSlots
      <4>1. slot = MaxSlots - 1 /\ \A k \in Slots : k < slot + 1
        BY <2>2, <3>4
      <4>2. dmxState' = "IDLE" /\ bus'.pos \in Slots /\ bus'.pos = MaxSlots - 1
            /\ \A k \in Slots : dmx'[k] = [ch |-> k, frame |-> bus'.frame]
        BY <2>1, <2>2, <3>3, <3>4, <4>1
      <4> QED BY <4>2 DEF Heard, Has
    <3>5. CASE slot + 1 < MaxSlots
      <4>1. dmxState' = "DATA" /\ \A k \in Slots : k < slot' => dmx'[k] = [ch |-> k, frame |-> bus'.frame]
        BY <2>1, <2>2, <3>3, <3>5
      <4> QED BY <4>1 DEF Heard, Has
    <3> QED BY <2>2, <3>4, <3>5
  <2> QED BY <1>2, <1>4, <2>1, <2>2, <2>5, <2>6, <2>7
<1>9. CASE isr_rx_ignore
  <2>1. /\ dmxState = "IDLE" /\ RxDmx
        /\ UNCHANGED <<taskVars, dmxState, slot, txRunning, fullFlg, txDoneRaw, brkRaw, shifter, txFifo, ena,
                       heard, bus, dmx>>
    BY <1>1, <1>9 DEF isr_rx_ignore
  <2>2. InTune' /\ RxAligned' /\ Heard'
    BY <1>0, <1>4, <2>1 DEF InTune, RxAligned, Heard, Has
  <2> QED BY <1>1, <1>2, <1>4, <2>1, <2>2
<1>10. ~isr_tx_done /\ ~isr_tx_start /\ ~isr_tx_slot /\ ~isr_tx_break /\ ~isr_tx_wake /\ ~isr_rx_ring
  BY <1>1 DEF isr_tx_done, isr_tx_start, isr_tx_slot, isr_tx_break, isr_tx_wake, isr_rx_ring
<1> QED BY <1>3, <1>5, <1>7, <1>8, <1>9, <1>10 DEF Isr

\* A byte arrives: while the receiver is on, the FIFO was empty.
LEMMA Arrival ==
  ASSUME ReceiveInv, PromptReceiver, Prompt,
         NEW z \in BOOLEAN, NEW c \in {Garbled} \cup Slots, NEW f \in {0, 1}, Receive(z, c, f)
  PROVE  ena.rxFull =>
           /\ rxFifo = << >> /\ Len(rxFifo') = 1
           /\ Head(rxFifo').zero = z /\ Head(rxFifo').ch = c /\ Head(rxFifo').frame = f
<1> SUFFICES ASSUME ena.rxFull
             PROVE  /\ rxFifo = << >> /\ Len(rxFifo') = 1
                    /\ Head(rxFifo').zero = z /\ Head(rxFifo').ch = c /\ Head(rxFifo').frame = f
  OBVIOUS
<1> DEFINE b == [zero |-> z, ch |-> c, frame |-> f]
<1>1. rxFifo \in Seq(RxByte) /\ RxLag = 1 /\ RxCap \in Nat /\ RxCap >= 1
  BY DmxAssumption DEF ReceiveInv, TypeOK, RxTypeOK, PromptReceiver
<1>2. rxFifo = << >> /\ Len(rxFifo) = 0
  <2>1. Len(rxFifo) < 1
    BY <1>1 DEF Prompt
  <2> QED BY <1>1, <2>1
<1>3. rxFifo' = Append(rxFifo, b)
  BY <1>1, <1>2 DEF Receive, PromptReceiver
<1>4. b \in RxByte
  BY DEF RxByte
<1>5. Len(rxFifo') = 1 /\ Head(rxFifo') = b
  BY <1>2, <1>3, <1>4
<1> QED BY <1>2, <1>5

\* The remote sender.
LEMMA ReceiveBus ==
  ASSUME PromptReceiver, ReceiveInv, HwRx
  PROVE  Listening' /\ InTune' /\ RxAligned' /\ Heard'
<1> USE DEF taskVars, dmxVars, intVars, txVars, rxVars, busVars
<1>0. TypeOK /\ Listening /\ InTune /\ RxAligned /\ Heard
  BY DEF ReceiveInv
<1>1. /\ bus \in [pos : {None, Break} \cup Slots, null : BOOLEAN, frame : {0, 1}]
      /\ (heard => ena.rxFull) /\ MaxSlots \in Nat /\ MaxSlots >= 2 /\ Slots = 0 .. MaxSlots - 1
      /\ slot \in Nat
  BY <1>0, EnabledLaws, DmxAssumption DEF Listening, Settled, TypeOK, BusTypeOK, Slots, DmxTypeOK
<1>2. /\ pin = "RECEIVE" /\ Prompt /\ UNCHANGED <<taskVars, dmxVars, ena, txDoneRaw, txVars, ring, fullFlg, dmx>>
  BY DEF HwRx, BusBreak, BusStartCode, BusChannel, BusTail
<1>3. heard' = heard \/ heard' = Settled("RECEIVE")
  BY DEF HwRx, BusBreak, BusStartCode, BusChannel, BusTail
<1>4. Listening'
  <2>1. /\ UNCHANGED <<pc, want, installed, pin, dmxState, txRunning, ena, txDoneRaw, shifter, txFifo, fullFlg>>
        /\ pin = "RECEIVE"
    BY <1>2
  <2>2. heard' => pc = "idle" /\ installed /\ want = "RECEIVE"
    BY <1>0, <1>3 DEF Listening, Settled
  <2>3. Settled("RECEIVE")' <=> pc = "idle" /\ installed /\ want = "RECEIVE"
    BY <2>1 DEF Settled
  <2> QED BY <1>0, <2>1, <2>2, <2>3 DEF Listening
<1>5. RxAligned'
  BY <1>0, <1>2 DEF RxAligned
<1>6. CASE BusBreak
  <2>1. /\ bus' = [pos |-> Break, null |-> FALSE, frame |-> 1 - bus.frame]
        /\ brkRaw' = TRUE /\ Receive(TRUE, Garbled, 0)
    BY <1>6 DEF BusBreak, PromptReceiver
  <2>2. ena.rxFull => Len(rxFifo') = 1 /\ Head(rxFifo').zero = TRUE
    BY <1>2, <2>1, Arrival
  <2>3. InTune'
    BY <1>2, <2>1, <2>2 DEF InTune
  <2>4. Heard'
    BY <2>1 DEF Heard
  <2> QED BY <1>4, <1>5, <2>3, <2>4
<1>7. CASE BusStartCode
  <2>0. UNCHANGED <<brkRaw, heard>> /\ bus.pos = Break
    BY <1>7 DEF BusStartCode
  <2>1. PICK null \in BOOLEAN : /\ bus' = [bus EXCEPT !.pos = 0, !.null = null]
                                /\ Receive(null, IF null THEN 0 ELSE Garbled, bus.frame)
    BY <1>7, DmxAssumption DEF BusStartCode
  <2>2. bus'.pos = 0 /\ bus'.null = null /\ bus'.frame = bus.frame /\ 0 \in Slots
    BY <1>1, <2>1
  <2>3. ena.rxFull => /\ rxFifo = << >> /\ Len(rxFifo') = 1 /\ Head(rxFifo').zero = null
                      /\ null => Head(rxFifo').ch = 0 /\ Head(rxFifo').frame = bus.frame
    <3>1. bus.frame \in {0, 1} /\ (IF null THEN 0 ELSE Garbled) \in {Garbled} \cup Slots
      BY <1>1, <2>2
    <3> QED BY <1>2, <2>1, <3>1, Arrival
  <2>4. ena.rxFull => ~brkRaw /\ dmxState # "BREAK" /\ (dmxState = "DATA" => slot = 0)
    <3>1. SUFFICES ASSUME ena.rxFull PROVE ~brkRaw /\ dmxState # "BREAK" /\ (dmxState = "DATA" => slot = 0)
      OBVIOUS
    <3>2. rxFifo = << >> /\ Len(rxFifo) # 1
      BY <2>3, <3>1
    <3> QED BY <1>0, <2>0, <3>1, <3>2 DEF InTune, Break
  <2>5. InTune'
    BY <1>2, <2>0, <2>2, <2>3, <2>4 DEF InTune
  <2>6. Heard'
    <3>1. SUFFICES ASSUME heard, ~brkRaw PROVE Heard'
      BY <2>0 DEF Heard
    <3>2. dmxState # "IDLE"
      BY <1>0, <1>1, <2>0, <3>1 DEF Heard, Break
    <3>3. dmxState = "DATA" => \A k \in Slots : ~(k < slot)
      BY <1>1, <2>4, <3>1
    <3> QED BY <1>2, <3>2, <3>3 DEF Heard
  <2> QED BY <1>4, <1>5, <2>5, <2>6
<1>8. CASE BusChannel
  <2>0. UNCHANGED <<brkRaw, heard>> /\ bus.pos \in 0 .. MaxSlots - 2
    BY <1>8 DEF BusChannel
  <2>1. PICK z \in BOOLEAN : Receive(z, IF bus.null THEN bus.pos + 1 ELSE Garbled, bus.frame)
    BY <1>8, DmxAssumption DEF BusChannel
  <2>2. bus'.pos = bus.pos + 1 /\ bus'.null = bus.null /\ bus'.frame = bus.frame /\ bus.pos + 1 \in Slots
    BY <1>1, <1>8, <2>0 DEF BusChannel
  <2>3. ena.rxFull => /\ rxFifo = << >> /\ Len(rxFifo') = 1
                      /\ bus.null => Head(rxFifo').ch = bus.pos + 1 /\ Head(rxFifo').frame = bus.frame
    <3>1. bus.frame \in {0, 1} /\ (IF bus.null THEN bus.pos + 1 ELSE Garbled) \in {Garbled} \cup Slots
      BY <1>1, <2>2
    <3> QED BY <1>2, <2>1, <3>1, Arrival
  <2>4. ena.rxFull => /\ ~brkRaw /\ dmxState # "BREAK"
                      /\ dmxState = "DATA" => slot = bus.pos + 1 /\ bus.null
    <3>1. SUFFICES ASSUME ena.rxFull
                   PROVE  /\ ~brkRaw /\ dmxState # "BREAK"
                          /\ dmxState = "DATA" => slot = bus.pos + 1 /\ bus.null
      OBVIOUS
    <3>2. rxFifo = << >> /\ Len(rxFifo) # 1 /\ bus.pos # Break
      BY <1>1, <2>0, <2>3, <3>1 DEF Break
    <3>3. ~brkRaw /\ dmxState # "BREAK"
      BY <1>0, <3>1, <3>2 DEF InTune
    <3>4. dmxState = "DATA" => slot = bus.pos + 1 /\ (slot > 0 => bus.null)
      BY <1>0, <3>1, <3>2, <3>3 DEF InTune
    <3> QED BY <1>1, <2>0, <3>3, <3>4
  <2>5. InTune'
    <3>1. SUFFICES ASSUME ena.rxFull PROVE InTune'
      BY <1>2 DEF InTune
    <3>2. CASE dmxState = "DATA"
      <4>1. slot = bus.pos + 1 /\ slot > 0 /\ slot \in Slots /\ bus.null
        BY <1>1, <2>0, <2>2, <2>4, <3>1, <3>2
      <4>2. ~brkRaw' /\ dmxState' = dmxState /\ slot' = slot
        BY <1>2, <2>0, <2>4, <3>1
      <4>3. slot' \in Slots /\ slot' > 0 /\ slot' = bus'.pos
        BY ONLY <2>2, <4>1, <4>2
      <4>4. bus'.null /\ Len(rxFifo') = 1
        BY ONLY <2>2, <2>3, <3>1, <4>1
      <4>5. Head(rxFifo').ch = slot' /\ Head(rxFifo').frame = bus'.frame
        <5>1. Head(rxFifo').ch = bus.pos + 1 /\ Head(rxFifo').frame = bus.frame
          BY ONLY <2>3, <3>1, <4>1
        <5> QED BY ONLY <2>2, <4>1, <4>2, <5>1
      <4>6. slot' # 0
        BY ONLY <4>3, <1>1, <4>2
      <4>7. /\ ~(brkRaw' \/ dmxState' = "BREAK")
            /\ \/ rxFifo' = << >> /\ slot' = bus'.pos + 1
               \/ /\ Len(rxFifo') = 1 /\ slot' = bus'.pos
                  /\ slot' = 0 => Head(rxFifo').zero = bus'.null
                  /\ bus'.null => Head(rxFifo').ch = slot' /\ Head(rxFifo').frame = bus'.frame
        BY <3>2, <4>2, <4>3, <4>4, <4>5, <4>6, Zenon
      <4> QED BY <4>3, <4>4, <4>7, Zenon DEF InTune
    <3>3. CASE dmxState # "DATA"
      BY <1>2, <2>0, <2>4, <3>1, <3>3 DEF InTune
    <3> QED BY <3>2, <3>3
  <2>6. Heard'
    <3>1. SUFFICES ASSUME heard, ~brkRaw PROVE Heard'
      BY <2>0 DEF Heard
    <3>2. dmxState = "IDLE" => ~bus.null
      BY <1>0, <1>1, <2>0, <3>1 DEF Heard
    <3>3. dmxState = "DATA" /\ bus.null => \A k \in Slots : k < slot => dmx[k] = [ch |-> k, frame |-> bus.frame]
      BY <1>0, <3>1 DEF Heard, Has
    <3> QED BY <1>2, <2>0, <2>2, <3>2, <3>3 DEF Heard, Has
  <2> QED BY <1>4, <1>5, <2>5, <2>6
<1>9. CASE BusTail
  <2>0. UNCHANGED <<brkRaw, heard, bus>> /\ bus.pos \in {None, MaxSlots - 1}
    BY <1>9 DEF BusTail
  <2>1. PICK z \in BOOLEAN : Receive(z, Garbled, bus.frame)
    BY <1>9, DmxAssumption DEF BusTail
  <2>2. ena.rxFull => rxFifo = << >>
    BY <1>1, <1>2, <2>1, Arrival
  <2>3. ena.rxFull => ~brkRaw /\ dmxState \notin {"BREAK", "DATA"}
    <3>1. SUFFICES ASSUME ena.rxFull PROVE ~brkRaw /\ dmxState \notin {"BREAK", "DATA"}
      OBVIOUS
    <3>2. rxFifo = << >> /\ Len(rxFifo) # 1
      BY <2>2, <3>1
    <3>3. ~brkRaw /\ dmxState # "BREAK"
      BY <1>0, <3>1, <3>2 DEF InTune
    <3>4. dmxState = "DATA" => slot \in Slots /\ slot = bus.pos + 1
      BY <1>0, <3>1, <3>2, <3>3 DEF InTune
    <3> QED BY <1>1, <2>0, <3>3, <3>4 DEF None
  <2>4. InTune'
    BY <1>2, <2>0, <2>3 DEF InTune
  <2>5. Heard'
    BY <1>0, <1>2, <2>0 DEF Heard, Has
  <2> QED BY <1>4, <1>5, <2>4, <2>5
<1> QED BY <1>6, <1>7, <1>8, <1>9 DEF HwRx

\* Every step keeps what reception relies on.
LEMMA ReceiveNext == PromptReceiver /\ ReceiveInv /\ [Next]_vars => ReceiveInv'
<1> SUFFICES ASSUME PromptReceiver, ReceiveInv, [Next]_vars PROVE ReceiveInv'
  OBVIOUS
<1>1. TypeOK'
  BY TypeTask, TypeIsr, TypeHardware, TypeStutter DEF Next, ReceiveInv
<1>2. CASE UNCHANGED vars
  <2>1. Listening'
    BY <1>2 DEF vars, taskVars, dmxVars, intVars, txVars, rxVars, busVars, ReceiveInv, Listening, Settled
  <2>2. InTune' /\ RxAligned' /\ Heard'
    BY <1>2 DEF vars, taskVars, dmxVars, intVars, txVars, rxVars, busVars, ReceiveInv, InTune, RxAligned, Heard, Has
  <2> QED BY <1>1, <2>1, <2>2 DEF ReceiveInv
<1>3. ~HwTx
  BY DEF HwTx, LoadShifter, ShiftDone, ReceiveInv, Listening
<1> QED BY <1>1, <1>2, <1>3, ReceiveCalls, ReceiveSteps, ReceiveIsr, ReceiveBus DEF Next, ReceiveInv

\* While the application only receives and the handler is back before the next byte,
\* the handler and the remote sender stay in step, through any calls of the API, any
\* stops and restarts and any frames.
THEOREM ReceiveInvariant == ASSUME PromptReceiver PROVE Spec => []ReceiveInv
<1>1. ReceiveInv /\ [Next]_vars => ReceiveInv'
  BY ReceiveNext
<1> QED BY <1>1, ReceiveInit, PTL DEF Spec

\* DmxUart.RxAligned: a received byte is stored in the channel it was sent for, and no
\* byte of a break, of an alternate frame or of a frame begun unheard is stored at all.
THEOREM ReceivedWhereMeant == ASSUME PromptReceiver PROVE Spec => []RxAligned
<1>1. ReceiveInv => RxAligned
  BY DEF ReceiveInv
<1> QED BY <1>1, ReceiveInvariant, PTL

\* What the handler relies on, in the terms of RxCurrent and SlotInBounds.
LEMMA ReceiveFacts ==
  ASSUME ReceiveInv
  PROVE  /\ TypeOK /\ Listening /\ InTune /\ RxAligned /\ Heard /\ (heard => ena.rxFull)
         /\ bus.pos \in {None, Break} \cup Slots /\ Len(rxFifo) \in Nat
         /\ MaxSlots \in Nat /\ Slots = 0 .. MaxSlots - 1 /\ dmxState \in {"IDLE", "BREAK", "DATA"}
  BY EnabledLaws, DmxAssumption
     DEF ReceiveInv, Listening, Settled, TypeOK, BusTypeOK, RxTypeOK, Slots, DmxTypeOK, DmxStates

\* DmxUart.RxCurrent: what has arrived of a frame that was heard from its break on is in
\* _dmx_data, but for the bytes the handler has yet to read.
THEOREM HeardIsStored == ASSUME PromptReceiver PROVE Spec => []RxCurrent
<1>1. ReceiveInv => RxCurrent
  <2> SUFFICES ASSUME ReceiveInv, heard, bus.null, NEW k \in 0 .. bus.pos - Len(rxFifo)
               PROVE  dmx[k] = [ch |-> k, frame |-> bus.frame]
    BY DEF RxCurrent
  <2>0. /\ InTune /\ Heard /\ ena.rxFull
        /\ bus.pos \in {None, Break} \cup Slots /\ Len(rxFifo) \in Nat
        /\ MaxSlots \in Nat /\ Slots = 0 .. MaxSlots - 1 /\ dmxState \in {"IDLE", "BREAK", "DATA"}
    BY ReceiveFacts
  <2>1. bus.pos \in Slots /\ k \in Slots /\ bus.pos # Break
    BY <2>0 DEF None, Break
  <2>2. ~brkRaw /\ dmxState # "BREAK"
    BY <2>0, <2>1 DEF InTune
  <2>3. CASE dmxState = "IDLE"
    BY <2>0, <2>1, <2>2, <2>3 DEF Heard, Has
  <2>4. CASE dmxState = "DATA"
    <3>1. \/ rxFifo = << >> /\ slot = bus.pos + 1
          \/ Len(rxFifo) = 1 /\ slot = bus.pos
      BY <2>0, <2>2, <2>4 DEF InTune
    <3>2. rxFifo = << >> => Len(rxFifo) = 0
      OBVIOUS
    <3>3. k < slot
      BY <2>0, <2>1, <3>1, <3>2
    <3> QED BY <2>0, <2>1, <2>2, <2>4, <3>3 DEF Heard, Has
  <2> QED BY <2>0, <2>2, <2>3, <2>4
<1> QED BY <1>1, ReceiveInvariant, PTL

\* DmxUart.SlotInBounds on reception: whatever the remote sender sends, however many
\* bytes, the handler stores inside _dmx_data only.
THEOREM StoredInBounds == ASSUME PromptReceiver PROVE Spec => []SlotInBounds
<1>1. ReceiveInv => SlotInBounds
  <2>1. SUFFICES ASSUME ReceiveInv, dmxState = "DATA", TxEmptyPending \/ (RxPending /\ ~fullFlg /\ ~txRunning)
                 PROVE  slot \in Slots
    BY DEF SlotInBounds
  <2>2. ena.rxFull /\ ~brkRaw
    BY <2>1, ReceiveFacts, EnabledLaws DEF RxPending
  <2> QED BY <2>1, <2>2, ReceiveFacts DEF InTune
<1> QED BY <1>1, ReceiveInvariant, PTL

=============================================================================
