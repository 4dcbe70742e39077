--------------------------- MODULE DmxSendProofs ---------------------------
(***************************************************************************)
(* What the DMX port sends, for every number of slots.  In any use of the  *)
(* port, changes of direction included, it implements DmxWire.  When the   *)
(* application starts sending once, SendInv is inductive, and it implies   *)
(* that the accesses to _dmx_data are in bounds and that the baud rate     *)
(* changes only while the transmitter is empty.                            *)
(***************************************************************************)
EXTENDS DmxUartProofs

\* The transmit FIFO holds at most one item.
LEMMA OneItem ==
  ASSUME TypeOK
  PROVE  /\ txFifo # << >> => Tail(txFifo) = << >> /\ Head(txFifo) \in Nat \cup {Break}
         /\ \A i : <<i>> # << >> /\ Head(<<i>>) = i
<1>1. txFifo \in Seq(Nat \cup {Break}) /\ Len(txFifo) <= 1
  BY DEF TypeOK, TxTypeOK
<1> QED BY <1>1

-----------------------------------------------------------------------------
(* The line in any use of the port.                                        *)

\* Nobody but a change to RECEIVE clears _tx_running, and the promise is made only
\* when a change to SEND is over.
Directed ==
  /\ pc \in {"baud", "stateIdle", "notRunning", "disable"} => want = "RECEIVE"
  /\ Settled("SEND") => txRunning
  /\ sym # Unsynced => Settled("SEND")
  /\ pc \notin {"idle", "config", "install"} => installed
  /\ ~installed => dmxState = "IDLE"

\* When TX_DONE is heeded the transmitter is empty, or it changes no state: one that
\* is older than the installation is heeded before anything is sent.
DoneMeansIdle == ena.txDone /\ txDoneRaw => TxIdle \/ dmxState \in {"IDLE", "START"}

\* While the break that starts the promise is in the transmitter the handler waits
\* for its end.
Arming ==
  sym = Armed =>
    /\ dmxState = "BREAK" /\ baud = "BREAK" /\ ena.txDone /\ ~ena.txEmpty /\ ~txDoneRaw
    /\ IF txFifo = << >> THEN shifter = Break ELSE Head(txFifo) = Break

\* From then on the handler, the FIFO, the shift register and the line are in step.
Carrying ==
  sym \notin {Unsynced, Armed} =>
    dmxState # "IDLE" /\ (ena.txDone <=> ~ena.txEmpty) /\ RatesMatch /\ SlotsCounted /\ Chained

LineInv == Directed /\ DoneMeansIdle /\ Arming /\ Carrying

\* Nothing has been promised at first.
LEMMA LineInit == Init => LineInv
  BY DEF Init, LineInv, Directed, DoneMeansIdle, Arming, Carrying, Settled, NoIntr,
         Armed, Unsynced

\* What the types say of the sending half.
LEMMA LineTypes ==
  ASSUME TypeOK
  PROVE  /\ baud \in {"DATA", "BREAK"} /\ slot \in Nat /\ dmxState \in {"IDLE", "BREAK", "DATA", "START"}
         /\ shifter \in Nat \cup {Break, Garbled, None}
         /\ sym \in Nat \cup {Break, Garbled, Unsynced, Armed}
         /\ ena \in [txEmpty : BOOLEAN, txDone : BOOLEAN, rxFull : BOOLEAN, brk : BOOLEAN]
         /\ txDoneRaw \in BOOLEAN
  BY DEF TypeOK, TxTypeOK, DmxTypeOK, IntTypeOK, DmxStates

\* A step that the sending half does not see.
LEMMA LineUnseen ==
  ASSUME LineInv, UNCHANGED <<pc, want, installed, dmxState, slot, txDoneRaw>>, UNCHANGED txVars,
         txRunning => txRunning', ena'.txEmpty = ena.txEmpty, ena'.txDone = ena.txDone
  PROVE  LineInv'
<1> USE DEF LineInv, txVars, TxIdle
<1>1. Directed' /\ DoneMeansIdle'
  BY DEF Directed, DoneMeansIdle, Settled
<1>2. Arming'
  BY DEF Arming
<1>3. Carrying'
  BY DEF Carrying, RatesMatch, SlotsCounted, Chained, Upcoming
<1> QED BY <1>1, <1>2, <1>3

\* A call of the API takes the promise back.
LEMMA LineCalls ==
  ASSUME TypeOK, LineInv, TaskCall
  PROVE  LineInv'
<1>1. CASE \E dir \in Directions : startDMXUart(dir) \/ changeDirectionDMXUart(dir)
  <2>1. /\ sym' = Unsynced /\ pc' \in {"config", "pin"} /\ (pc' = "pin" => installed)
        /\ UNCHANGED <<ena, txDoneRaw, shifter, txFifo, installed, dmxState>>
    BY <1>1 DEF startDMXUart, changeDirectionDMXUart, Call, intVars, dmxVars
  <2> QED BY <2>1 DEF LineInv, Directed, DoneMeansIdle, Arming, Carrying, Settled, TxIdle,
             Armed, Unsynced
<1>2. CASE stopDMXUart
  <2>1. sym' = Unsynced /\ pc' = "delete" /\ installed /\ ena'.txDone = ena.txDone
        /\ UNCHANGED <<installed, dmxState, txDoneRaw, shifter, txFifo>>
    BY <1>2 DEF stopDMXUart, Call, NoIntr, dmxVars
  <2> QED BY <2>1 DEF LineInv, Directed, DoneMeansIdle, Arming, Carrying, Settled, TxIdle, Armed, Unsynced
<1>3. CASE other_port_enable_tx
  BY <1>3, LineUnseen DEF other_port_enable_tx, taskVars, intVars
<1> QED BY <1>1, <1>2, <1>3 DEF TaskCall

\* During a call nothing is promised, and the transmitter is filled by nobody else.
LEMMA LineTask ==
  ASSUME TypeOK, LineInv, TaskStep
  PROVE  LineInv'
<1>1. sym = Unsynced /\ sym' = Unsynced
  <2>1. pc # "idle"
    BY DEF TaskStep, uart_param_config, uart_driver_install, changeDirection_pin, enable_tx_intr,
           enable_tx_state, enable_tx_running, receive_baud, disable_tx_state,
           disable_tx_running, disable_tx_intr, uart_driver_delete
  <2>2. sym' = sym
    BY DEF TaskStep, uart_param_config, uart_driver_install, changeDirection_pin, enable_tx_intr,
           enable_tx_state, enable_tx_running, receive_baud, disable_tx_state,
           disable_tx_running, disable_tx_intr, uart_driver_delete, txVars
  <2> QED BY <2>1, <2>2 DEF LineInv, Directed, Settled
<1>2. Arming' /\ Carrying'
  BY <1>1 DEF Arming, Carrying, Armed, Unsynced
<1>3. DoneMeansIdle'
  <2>1. CASE uart_driver_install
    <3>1. CASE installed
      BY <2>1, <3>1 DEF uart_driver_install, intVars, dmxVars, txVars, LineInv, DoneMeansIdle, TxIdle
    <3>2. CASE ~installed
      BY <2>1, <3>2 DEF uart_driver_install, dmxVars, LineInv, Directed, DoneMeansIdle
    <3> QED BY <3>1, <3>2
  <2>2. ASSUME ~uart_driver_install
        PROVE  DoneMeansIdle'
    <3>1. txDoneRaw' = txDoneRaw /\ ena'.txDone = ena.txDone
      BY <2>2, LineTypes DEF TaskStep, uart_param_config, changeDirection_pin,
             enable_tx_intr, EnableTxEmpty, enable_tx_state, enable_tx_running, receive_baud,
             disable_tx_state, disable_tx_running, disable_tx_intr, uart_driver_delete, intVars
    <3>2. dmxState' \in {dmxState, "IDLE", "START"}
      BY <2>2 DEF TaskStep, uart_param_config, changeDirection_pin, enable_tx_intr,
             enable_tx_state, enable_tx_running, receive_baud, disable_tx_state,
             disable_tx_running, disable_tx_intr, uart_driver_delete, dmxVars
    <3>3. TxIdle => TxIdle'
      BY <2>2 DEF TaskStep, uart_param_config, changeDirection_pin, enable_tx_intr,
             enable_tx_state, enable_tx_running, receive_baud, disable_tx_state,
             disable_tx_running, disable_tx_intr, uart_driver_delete, txVars, SetBaud, TxIdle
    <3> QED BY <3>1, <3>2, <3>3 DEF LineInv, DoneMeansIdle
  <2> QED BY <2>1, <2>2
<1>4. Directed'
  <2>0. Directed
    BY DEF LineInv
  <2>1. CASE uart_param_config \/ uart_driver_install \/ enable_tx_intr \/ enable_tx_state
    BY <1>1, <2>0, <2>1 DEF Directed, Settled, uart_param_config, uart_driver_install,
           enable_tx_intr, enable_tx_state, dmxVars
  <2>2. CASE changeDirection_pin
    <3>1. want \in {"SEND", "RECEIVE"}
      BY DEF TypeOK, TaskTypeOK
    <3> QED BY <1>1, <2>0, <2>2, <3>1 DEF Directed, Settled, changeDirection_pin, dmxVars
  <2>3. CASE enable_tx_running
    BY <1>1, <2>0, <2>3 DEF Directed, Settled, enable_tx_running
  <2>4. CASE receive_baud \/ disable_tx_state \/ disable_tx_running \/ disable_tx_intr
    BY <1>1, <2>0, <2>4 DEF Directed, Settled, receive_baud, disable_tx_state,
           disable_tx_running, disable_tx_intr, dmxVars
  <2>5. CASE uart_driver_delete
    BY <1>1, <2>5 DEF Directed, Settled, uart_driver_delete
  <2> QED BY <2>1, <2>2, <2>3, <2>4, <2>5 DEF TaskStep
<1> QED BY <1>2, <1>3, <1>4 DEF LineInv

\* The handler's passes that send nothing.
LEMMA LineReceives ==
  ASSUME TypeOK, LineInv,
         \/ isr_brk_det \/ isr_rx_break \/ isr_rx_start_code \/ isr_rx_data
         \/ isr_rx_ignore \/ isr_rx_ring \/ HwRx
  PROVE  LineInv'
<1>1. /\ UNCHANGED <<pc, want, installed, txRunning, txDoneRaw>> /\ UNCHANGED txVars
      /\ ena'.txEmpty = ena.txEmpty /\ ena'.txDone = ena.txDone
  <2>1. UNCHANGED <<pc, want, installed, txRunning, txDoneRaw>> /\ UNCHANGED txVars
    BY DEF isr_brk_det, isr_rx_break, isr_rx_start_code, isr_rx_data, isr_rx_ignore, isr_rx_ring,
           HwRx, BusBreak, BusStartCode, BusChannel, BusTail, taskVars, dmxVars, intVars
  <2>2. ena' = ena \/ ena' = [ena EXCEPT !.rxFull = FALSE]
    BY DEF isr_brk_det, isr_rx_break, isr_rx_start_code, isr_rx_data, isr_rx_ignore, isr_rx_ring,
           HwRx, BusBreak, BusStartCode, BusChannel, BusTail, intVars
  <2> QED BY <2>1, <2>2, LineTypes
<1>2. CASE txRunning
  <2>1. UNCHANGED <<dmxState, slot>>
    BY <1>2 DEF isr_brk_det, BreakStartsFrame, RxDmx, isr_rx_break, isr_rx_start_code, isr_rx_data,
       isr_rx_ignore, isr_rx_ring, HwRx, BusBreak, BusStartCode, BusChannel, BusTail, dmxVars
  <2> QED BY <1>1, <2>1, LineUnseen
<1>3. CASE ~txRunning
  <2>1. sym = Unsynced /\ sym' = Unsynced /\ UNCHANGED <<shifter, txFifo>>
    BY <1>1, <1>3 DEF LineInv, Directed, txVars
  <2>2. Arming' /\ Carrying'
    BY <2>1 DEF Arming, Carrying, Armed, Unsynced
  <2>3. dmxState' = dmxState \/ (installed /\ ~(ena.txDone /\ txDoneRaw))
    BY DEF isr_brk_det, BrkPending, TxDonePending, RxPending, RxDmx, isr_rx_break,
       isr_rx_start_code, isr_rx_data, isr_rx_ignore, isr_rx_ring, HwRx, BusBreak, BusStartCode,
       BusChannel, BusTail, dmxVars
  <2>4. Directed' /\ DoneMeansIdle'
    BY <1>1, <2>1, <2>3 DEF LineInv, Directed, DoneMeansIdle, Settled, TxIdle
  <2> QED BY <2>2, <2>4 DEF LineInv
<1> QED BY <1>2, <1>3

\* The handler's passes that send, and the transmitter, leave the direction alone.
LEMMA LineDirected ==
  ASSUME LineInv,
         \/ isr_tx_done \/ isr_tx_start \/ isr_tx_slot \/ isr_tx_break \/ isr_tx_wake
         \/ LoadShifter \/ ShiftDone
  PROVE  Directed'
<1>1. UNCHANGED <<pc, want, installed, txRunning>>
  BY DEF isr_tx_done, isr_tx_start, isr_tx_slot, isr_tx_break, isr_tx_wake, LoadShifter,
         ShiftDone, taskVars, dmxVars
<1>2. Settled("SEND")' = Settled("SEND")
  BY <1>1 DEF Settled
<1>3. sym' # Unsynced => sym # Unsynced \/ Settled("SEND")
  BY DEF isr_tx_done, isr_tx_start, isr_tx_slot, isr_tx_break, isr_tx_wake, LoadShifter,
         ShiftDone, txVars
<1>4. dmxState' = dmxState \/ installed
  BY DEF isr_tx_done, isr_tx_start, isr_tx_slot, isr_tx_break, isr_tx_wake, LoadShifter,
         ShiftDone, TxDonePending, TxEmptyPending, dmxVars
<1> QED BY <1>1, <1>2, <1>3, <1>4 DEF LineInv, Directed

\* They fill the transmitter only when TX_DONE is not waiting, and clear a TX_DONE that
\* is older than the wait for it.
LEMMA LineDone ==
  ASSUME TypeOK, LineInv,
         \/ isr_tx_done \/ isr_tx_start \/ isr_tx_slot \/ isr_tx_break \/ isr_tx_wake
         \/ LoadShifter \/ ShiftDone
  PROVE  DoneMeansIdle'
<1> USE LineTypes, OneItem DEF LineInv, DoneMeansIdle, TxIdle
<1>1. CASE isr_tx_done
  BY <1>1 DEF isr_tx_done, Rearm
<1>2. CASE isr_tx_start \/ isr_tx_wake
  BY <1>2 DEF isr_tx_start, isr_tx_wake, TxEmptyPending, TxDonePending, intVars
<1>3. CASE isr_tx_slot
  BY <1>3 DEF isr_tx_slot, TxEmptyPending, TxDonePending, WaitTxDone
<1>4. CASE isr_tx_break
  BY <1>4 DEF isr_tx_break, WaitTxDone
<1>5. CASE LoadShifter
  BY <1>5 DEF LoadShifter, intVars, dmxVars
<1>6. CASE ShiftDone
  BY <1>6 DEF ShiftDone, dmxVars
<1> QED BY <1>1, <1>2, <1>3, <1>4, <1>5, <1>6

\* The break that starts the promise goes through the transmitter untouched.
LEMMA LineArming ==
  ASSUME TypeOK, LineInv,
         \/ isr_tx_done \/ isr_tx_start \/ isr_tx_slot \/ isr_tx_break \/ isr_tx_wake
         \/ LoadShifter \/ ShiftDone
  PROVE  Arming'
<1> USE LineTypes, OneItem DEF Arming
<1>0. Arming
  BY DEF LineInv
<1>1. CASE isr_tx_done \/ isr_tx_start \/ isr_tx_slot \/ isr_tx_wake
  <2>1. sym # Armed /\ sym' = sym
    BY <1>0, <1>1 DEF isr_tx_done, TxDonePending, isr_tx_start, isr_tx_slot, isr_tx_wake,
       TxEmptyPending, txVars
  <2> QED BY <2>1
<1>2. CASE isr_tx_break
  <2>1. /\ txFifo' = <<Break>> /\ baud' = "BREAK" /\ dmxState' = "BREAK"
        /\ ena'.txDone /\ ~ena'.txEmpty /\ ~txDoneRaw'
    BY <1>2 DEF isr_tx_break, SetBaud, WaitTxDone, dmxVars
  <2> QED BY <2>1
<1>3. CASE LoadShifter
  <2> SUFFICES ASSUME sym = Armed PROVE Arming'
    BY <1>3 DEF LoadShifter
  <2>1. Head(txFifo) = Break /\ baud = "BREAK" /\ txFifo # << >>
    BY <1>0, <1>3 DEF LoadShifter
  <2>2. shifter' = Break /\ txFifo' = << >>
    BY <1>3, <2>1 DEF LoadShifter, SymbolOf
  <2> QED BY <1>0, <1>3, <2>2 DEF LoadShifter, dmxVars, intVars
<1>4. CASE ShiftDone
  <2> SUFFICES ASSUME sym' = Armed PROVE Arming'
    OBVIOUS
  <2>1. sym = Armed /\ txFifo # << >>
    BY <1>4 DEF ShiftDone, Unsynced, Armed, Break, Garbled, None
  <2> QED BY <1>0, <1>4, <2>1 DEF ShiftDone, dmxVars
<1> QED BY <1>1, <1>2, <1>3, <1>4

\* What the handler needs to know when the line is in step.
LEMMA InStepFacts ==
  ASSUME LineInv, sym \notin {Unsynced, Armed}
  PROVE  /\ dmxState # "IDLE" /\ (ena.txDone <=> ~ena.txEmpty)
         /\ RatesMatch /\ SlotsCounted /\ Chained /\ DoneMeansIdle /\ Settled("SEND")
  BY DEF LineInv, Carrying, Directed

\* In step the rates still match.
LEMMA LineRates ==
  ASSUME TypeOK, LineInv, sym \notin {Unsynced, Armed},
         \/ isr_tx_done \/ isr_tx_start \/ isr_tx_slot \/ isr_tx_break \/ LoadShifter \/ ShiftDone
  PROVE  RatesMatch'
<1> USE LineTypes, OneItem, InStepFacts DEF RatesMatch, TxIdle
<1>0. RatesMatch /\ dmxState # "IDLE"
  OBVIOUS
<1>1. CASE isr_tx_done
  BY <1>0, <1>1 DEF isr_tx_done, TxDonePending, AfterTxDone, Rearm, txVars
<1>2. CASE isr_tx_start
  <2>1. /\ baud' = "DATA" /\ shifter' = shifter /\ txFifo' = <<0>> /\ dmxState' = "DATA"
        /\ UNCHANGED <<ena, txDoneRaw>> /\ ~(ena.txDone /\ txDoneRaw)
    BY <1>0, <1>2 DEF isr_tx_start, TxEmptyPending, TxDonePending, SetBaud, intVars
  <2>2. Head(<<0>>) = 0 /\ 0 # Break
    BY DEF Break
  <2> QED BY <1>0, <2>1, <2>2
<1>3. CASE isr_tx_slot
  <2>1. /\ baud = "DATA" /\ baud' = baud /\ shifter' = shifter /\ txFifo' = <<slot>>
        /\ dmxState' = "DATA"
    BY <1>0, <1>3 DEF isr_tx_slot
  <2>2. ~(ena'.txDone /\ txDoneRaw')
    BY <1>0, <1>3 DEF isr_tx_slot, TxEmptyPending, TxDonePending, WaitTxDone
  <2>3. Head(<<slot>>) = slot /\ slot # Break
    BY <1>0 DEF Break
  <2> QED BY <1>0, <2>1, <2>2, <2>3
<1>4. CASE isr_tx_break
  BY <1>0, <1>4 DEF isr_tx_break, TxEmptyPending, WaitTxDone, SetBaud, dmxVars
<1>5. CASE LoadShifter
  <2>1. SymbolOf(Head(txFifo), baud) = Head(txFifo)
    BY <1>0, <1>5 DEF LoadShifter, SymbolOf
  <2>2. ~(ena.txDone /\ txDoneRaw) /\ shifter' = Head(txFifo) /\ txFifo' = << >>
        /\ UNCHANGED <<dmxState, ena, txDoneRaw, baud>>
    BY <1>0, <1>5, <2>1 DEF LoadShifter, dmxVars, intVars
  <2>3. ~(dmxState = "BREAK" /\ ena.txEmpty) /\ (dmxState = "START" /\ ena.txEmpty => baud = "DATA")
    BY <1>0, <1>5 DEF LoadShifter
  <2> QED BY <1>0, <1>5, <2>2, <2>3 DEF LoadShifter, Break, Garbled
<1>6. CASE ShiftDone
  <2>1. /\ shifter' = None /\ UNCHANGED <<ena, dmxState, baud, txFifo>>
        /\ txDoneRaw' = (txDoneRaw \/ txFifo = << >>)
    BY <1>6 DEF ShiftDone, dmxVars
  <2>2. ena.txDone /\ txDoneRaw' => TxIdle'
    BY <1>0, <2>1
  <2> QED BY <1>0, <2>1, <2>2 DEF None, Garbled
<1> QED BY <1>1, <1>2, <1>3, <1>4, <1>5, <1>6

\* In step the slots are still counted.
LEMMA LineSlots ==
  ASSUME TypeOK, LineInv, sym \notin {Unsynced, Armed},
         \/ isr_tx_done \/ isr_tx_start \/ isr_tx_slot \/ isr_tx_break \/ LoadShifter \/ ShiftDone
  PROVE  SlotsCounted'
<1> USE DmxAssumption, LineTypes, InStepFacts DEF SlotsCounted
<1>1. CASE isr_tx_done
  BY <1>1 DEF isr_tx_done, AfterTxDone
<1>2. CASE isr_tx_start
  BY <1>2 DEF isr_tx_start, TxEmptyPending, FirstSlot, intVars
<1>3. CASE isr_tx_slot
  <2>1. slot \in 1 .. MaxSlots /\ slot < MaxSlots /\ slot' = slot + 1 /\ ena.txEmpty
    BY <1>3 DEF isr_tx_slot, TxEmptyPending
  <2>2. ena'.txEmpty <=> ~FrameEnds(slot + 1)
    BY <1>3, <2>1 DEF isr_tx_slot, WaitTxDone
  <2> QED BY <2>1, <2>2 DEF FrameEnds
<1>4. CASE isr_tx_break
  BY <1>4 DEF isr_tx_break, dmxVars
<1>5. CASE LoadShifter \/ ShiftDone
  BY <1>5 DEF LoadShifter, ShiftDone, dmxVars, intVars
<1> QED BY <1>1, <1>2, <1>3, <1>4, <1>5

\* In step each symbol is passed on to its place, and the next one follows from it.
LEMMA LineChained ==
  ASSUME TypeOK, LineInv, sym \notin {Unsynced, Armed},
         \/ isr_tx_done \/ isr_tx_start \/ isr_tx_slot \/ isr_tx_break \/ LoadShifter \/ ShiftDone
  PROVE  Chained'
<1> USE DmxAssumption, LineTypes, OneItem, InStepFacts
<1>1. CASE isr_tx_done
  <2>1. TxIdle /\ dmxState # "IDLE" /\ ena.txDone
    BY <1>1 DEF isr_tx_done, TxDonePending, RatesMatch
  <2>2. Upcoming' = Upcoming
    BY <1>1, <2>1 DEF isr_tx_done, Rearm, AfterTxDone, Upcoming, SlotsCounted, dmxVars
  <2> QED BY <1>1, <2>2 DEF isr_tx_done, Chained, After, txVars
<1>2. CASE isr_tx_start
  <2>1. txFifo = << >> /\ ena.txEmpty /\ dmxState = "START" /\ shifter' = shifter
    BY <1>2 DEF isr_tx_start, TxEmptyPending, SetBaud, RatesMatch, TxIdle
  <2>2. Upcoming = 0 /\ Upcoming' = 1
    BY <1>2, <2>1 DEF isr_tx_start, Upcoming, FirstSlot
  <2>3. txFifo' = <<0>> /\ sym' = sym
    BY <1>2 DEF isr_tx_start
  <2>4. After(0) = 1
    BY DEF After, Armed
  <2> QED BY <2>1, <2>2, <2>3, <2>4 DEF Chained, After
<1>3. CASE isr_tx_slot
  <2>1. txFifo = << >> /\ ena.txEmpty /\ dmxState = "DATA" /\ slot \in 1 .. MaxSlots /\ slot < MaxSlots
    BY <1>3 DEF isr_tx_slot, TxEmptyPending, SlotsCounted
  <2>2. Upcoming = slot /\ Upcoming' = After(slot)
    BY <1>3, <2>1 DEF isr_tx_slot, Upcoming, After, Armed
  <2>3. txFifo' = <<slot>> /\ sym' = sym /\ shifter' = shifter
    BY <1>3 DEF isr_tx_slot
  <2> QED BY <2>1, <2>2, <2>3 DEF Chained, After
<1>4. CASE isr_tx_break
  <2>1. TxIdle /\ ena.txEmpty /\ dmxState = "BREAK"
    BY <1>4 DEF isr_tx_break, TxEmptyPending, RatesMatch
  <2>2. shifter' = shifter /\ txFifo' = <<Break>> /\ sym' = sym
    BY <1>4, <2>1 DEF isr_tx_break, SetBaud, TxIdle
  <2>3. Upcoming = Break /\ Upcoming' = 0
    BY <1>4, <2>1 DEF isr_tx_break, Upcoming, WaitTxDone, dmxVars
  <2>4. After(Break) = 0
    BY DEF After, Armed, Break
  <2> QED BY <2>1, <2>2, <2>3, <2>4 DEF Chained, TxIdle, After
<1>5. CASE LoadShifter
  <2>1. SymbolOf(Head(txFifo), baud) = Head(txFifo)
    BY <1>5 DEF LoadShifter, SymbolOf, RatesMatch
  <2>2. shifter' = Head(txFifo) /\ shifter' # None /\ txFifo' = << >> /\ shifter = None
        /\ txFifo # << >>
    BY <1>5, <2>1 DEF LoadShifter, None, Break
  <2>3. Upcoming' = Upcoming /\ sym' = sym
    BY <1>5 DEF LoadShifter, Upcoming, dmxVars, intVars
  <2> QED BY <2>2, <2>3 DEF Chained, After
<1>6. CASE ShiftDone
  <2>1. sym' = shifter /\ shifter # None /\ shifter' = None /\ txFifo' = txFifo
    BY <1>6 DEF ShiftDone
  <2>2. Upcoming' = Upcoming
    BY <1>6 DEF ShiftDone, Upcoming, dmxVars
  <2> QED BY <2>1, <2>2 DEF Chained, After
<1> QED BY <1>1, <1>2, <1>3, <1>4, <1>5, <1>6

\* In step stays in step, and the end of the first break puts the port in step.
LEMMA LineCarrying ==
  ASSUME TypeOK, LineInv,
         \/ isr_tx_done \/ isr_tx_start \/ isr_tx_slot \/ isr_tx_break \/ isr_tx_wake
         \/ LoadShifter \/ ShiftDone
  PROVE  Carrying'
<1> USE LineTypes
<1>1. CASE sym \notin {Unsynced, Armed} /\ ~isr_tx_wake
  <2>1. /\ dmxState # "IDLE" /\ (ena.txDone <=> ~ena.txEmpty)
    BY <1>1, InStepFacts
  <2>2. dmxState' # "IDLE" /\ (ena'.txDone <=> ~ena'.txEmpty)
    <3>1. CASE isr_tx_done
      BY <2>1, <3>1 DEF isr_tx_done, AfterTxDone, Rearm
    <3>2. CASE isr_tx_start \/ LoadShifter \/ ShiftDone
      BY <2>1, <3>2 DEF isr_tx_start, LoadShifter, ShiftDone, dmxVars, intVars
    <3>3. CASE isr_tx_slot
      BY <2>1, <3>3 DEF isr_tx_slot, WaitTxDone
    <3>4. CASE isr_tx_break
      BY <2>1, <3>4 DEF isr_tx_break, WaitTxDone, dmxVars
    <3> QED BY <1>1, <3>1, <3>2, <3>3, <3>4
  <2>3. RatesMatch' /\ SlotsCounted' /\ Chained'
    BY <1>1, LineRates, LineSlots, LineChained
  <2> QED BY <2>2, <2>3 DEF Carrying
<1>2. CASE sym \notin {Unsynced, Armed} /\ isr_tx_wake
  BY <1>2, InStepFacts DEF isr_tx_wake
<1>3. CASE sym = Unsynced
  <2>1. sym' \in {Unsynced, Armed}
    BY <1>3 DEF isr_tx_done, isr_tx_start, isr_tx_slot, isr_tx_break, isr_tx_wake, LoadShifter,
       ShiftDone, txVars
  <2> QED BY <2>1 DEF Carrying
<1>4. CASE sym = Armed
  <2>1. Arming /\ dmxState = "BREAK" /\ baud = "BREAK" /\ ena.txDone /\ ~ena.txEmpty /\ ~txDoneRaw
    BY <1>4 DEF LineInv, Arming
  <2>2. CASE ShiftDone /\ txFifo = << >>
    <3>0. Settled("SEND") /\ shifter = Break
      BY <1>4, <2>1, <2>2 DEF Arming, Directed, LineInv, Armed, Unsynced
    <3>1. /\ sym' = Break /\ shifter' = None /\ txFifo' = << >>
          /\ UNCHANGED <<dmxState, ena, baud>>
      BY <1>4, <2>2, <3>0 DEF ShiftDone, dmxVars, Armed, Unsynced
    <3>2. RatesMatch' /\ SlotsCounted'
      <4>1. TxIdle' /\ dmxState' = "BREAK" /\ ~ena'.txEmpty /\ shifter' # Garbled
        BY <2>1, <3>1 DEF TxIdle, None, Garbled
      <4> QED BY <3>1, <4>1 DEF RatesMatch, SlotsCounted
    <3>3. Upcoming' = 0 /\ After(Break) = 0
      BY <2>1, <3>1, DmxAssumption DEF Upcoming, After, Armed, Break
    <3>4. Chained'
      BY <3>1, <3>3, DmxAssumption DEF Chained, After, Armed, Break
    <3> QED BY <2>1, <3>1, <3>2, <3>4 DEF Carrying
  <2>3. CASE ~(ShiftDone /\ txFifo = << >>)
    <3>1. sym' = Armed \/ sym' = Unsynced
      BY <1>4, <2>1, <2>3 DEF isr_tx_done, TxDonePending, isr_tx_start, isr_tx_slot, isr_tx_break,
         isr_tx_wake, TxEmptyPending, LoadShifter, ShiftDone, txVars
    <3> QED BY <3>1 DEF Carrying
  <2> QED BY <2>2, <2>3
<1> QED BY <1>1, <1>2, <1>3, <1>4

\* Every step preserves it.
LEMMA LineNext == TypeOK /\ LineInv /\ [Next]_vars => LineInv'
<1> SUFFICES ASSUME TypeOK, LineInv, [Next]_vars PROVE LineInv'
  OBVIOUS
<1>1. CASE UNCHANGED vars
  BY <1>1, LineUnseen DEF vars, taskVars, dmxVars, intVars
<1>2. CASE \/ isr_tx_done \/ isr_tx_start \/ isr_tx_slot \/ isr_tx_break \/ isr_tx_wake
           \/ LoadShifter \/ ShiftDone
  BY <1>2, LineDirected, LineDone, LineArming, LineCarrying DEF LineInv
<1>3. CASE Next /\ ~(\/ isr_tx_done \/ isr_tx_start \/ isr_tx_slot \/ isr_tx_break \/ isr_tx_wake
                     \/ LoadShifter \/ ShiftDone)
  BY <1>3, LineCalls, LineTask, LineReceives DEF Next, Isr, HwTx
<1> QED BY <1>1, <1>2, <1>3

\* Whatever the application asks for, whenever, and whatever is received meanwhile.
THEOREM LineInvariant == Spec => []LineInv
  BY LineNext, LineInit, TypeCorrect, PTL DEF Spec

-----------------------------------------------------------------------------
(* The port implements DmxWire.                                            *)

\* The line is silent and nothing is promised at first.
LEMMA WireInitial == Init => Wire!WireInit
  BY DEF Init, Wire!WireInit, Settled, Unsynced, Wire!Unsynced, Armed

WireMove == [Wire!WireNext]_(Wire!wireVars)
Line == IF sym = Armed THEN Unsynced ELSE sym

\* A step that ends no symbol and no promise shows only as a change of direction that
\* ends, if at all.
LEMMA WireUnseen ==
  ASSUME Line' = Line, (shifter' # None) = (shifter # None), Settled("SEND") => Settled("SEND")'
  PROVE  WireMove
<1>1. CASE Settled("SEND")' = Settled("SEND")
  BY <1>1 DEF WireMove, Line, Wire!wireVars
<1>2. CASE ~Settled("SEND") /\ Settled("SEND")'
  BY <1>2 DEF WireMove, Line, Wire!WireNext, Wire!Settle
<1> QED BY <1>1, <1>2 DEF Settled

\* A change of the rate does not end what is being sent.
LEMMA StillBusy ==
  ASSUME NEW rate, SetBaud(rate)
  PROVE  (shifter' # None) = (shifter # None)
  BY DEF SetBaud, Garbled, None

\* A call ends the promise, if there is one.
LEMMA WireCalls ==
  ASSUME LineInv, TaskCall
  PROVE  WireMove
<1>1. CASE other_port_enable_tx
  <2>1. Line' = Line /\ shifter' = shifter /\ Settled("SEND")' = Settled("SEND")
    BY <1>1 DEF other_port_enable_tx, taskVars, txVars, Line, Settled
  <2> QED BY <2>1, WireUnseen
<1>2. CASE ~other_port_enable_tx
  <2>1. sym' = Unsynced /\ pc' # "idle" /\ shifter' = shifter
    BY <1>2 DEF TaskCall, startDMXUart, changeDirectionDMXUart, stopDMXUart, Call
  <2>2. ~Settled("SEND")' /\ Line' = Unsynced
    BY <2>1 DEF Settled, Line, Armed, Unsynced
  <2>3. CASE Settled("SEND")
    <3>1. Wire!Disturb
      BY <2>1, <2>2, <2>3 DEF Wire!Disturb, Line, Wire!Unsynced, Unsynced
    <3> QED BY <3>1 DEF WireMove, Wire!WireNext
  <2>4. CASE ~Settled("SEND")
    <3>1. Line = Unsynced
      BY <2>4 DEF LineInv, Directed, Line
    <3> QED BY <2>1, <2>2, <2>4, <3>1, WireUnseen
  <2> QED BY <2>3, <2>4
<1> QED BY <1>1, <1>2

\* During a call nothing has been promised.
LEMMA WireTask ==
  ASSUME TaskStep
  PROVE  WireMove
<1>1. pc # "idle" /\ sym' = sym
  BY DEF TaskStep, uart_param_config, uart_driver_install, changeDirection_pin, enable_tx_intr,
         enable_tx_state, enable_tx_running, receive_baud, disable_tx_state,
         disable_tx_running, disable_tx_intr, uart_driver_delete, txVars
<1>2. (shifter' # None) = (shifter # None)
  <2>1. CASE uart_param_config \/ receive_baud
    BY <2>1, StillBusy DEF uart_param_config, receive_baud
  <2>2. CASE ~(uart_param_config \/ receive_baud)
    BY <2>2 DEF TaskStep, uart_driver_install, changeDirection_pin, enable_tx_intr,
       enable_tx_state, enable_tx_running, disable_tx_state, disable_tx_running,
       disable_tx_intr, uart_driver_delete, txVars
  <2> QED BY <2>1, <2>2
<1> QED BY <1>1, <1>2, WireUnseen DEF Settled, Line

\* Neither the handler nor the bus ends a symbol.
LEMMA WireIsr ==
  ASSUME Isr \/ HwRx
  PROVE  WireMove
<1>1. Settled("SEND")' = Settled("SEND")
  <2>1. UNCHANGED <<pc, want, installed>>
    BY DEF Isr, isr_tx_done, isr_tx_start, isr_tx_slot, isr_tx_break, isr_tx_wake, isr_brk_det,
           isr_rx_break, isr_rx_start_code, isr_rx_data, isr_rx_ignore, isr_rx_ring, HwRx,
           BusBreak, BusStartCode, BusChannel, BusTail, taskVars
  <2> QED BY <2>1 DEF Settled
<1>2. CASE isr_tx_start \/ isr_tx_break
  <2>1. Line' = Line
    BY <1>2 DEF isr_tx_start, isr_tx_break, Line, Armed, Unsynced
  <2> QED BY <1>1, <1>2, <2>1, StillBusy, WireUnseen DEF isr_tx_start, isr_tx_break
<1>3. CASE ~(isr_tx_start \/ isr_tx_break)
  <2>1. sym' = sym /\ shifter' = shifter
    BY <1>3 DEF Isr, isr_tx_done, isr_tx_slot, isr_tx_wake, isr_brk_det, isr_rx_break,
       isr_rx_start_code, isr_rx_data, isr_rx_ignore, isr_rx_ring, HwRx, BusBreak,
       BusStartCode, BusChannel, BusTail, txVars
  <2> QED BY <1>1, <2>1, WireUnseen DEF Line
<1> QED BY <1>2, <1>3

\* A symbol begins.
LEMMA WireLoad ==
  ASSUME TypeOK, LoadShifter
  PROVE  WireMove
<1>1. shifter = None /\ shifter' # None
  <2>1. /\ shifter = None /\ txFifo # << >>
        /\ shifter' = Head(txFifo) \/ shifter' = Garbled
    BY DEF LoadShifter, SymbolOf
  <2>2. Head(txFifo) # None
    BY <2>1, OneItem DEF Break, None
  <2> QED BY <2>1, <2>2 DEF Garbled, None
<1>2. Line' = Line /\ Settled("SEND")' = Settled("SEND")
  BY DEF LoadShifter, Line, Settled, taskVars
<1>3. Wire!Begin
  BY <1>1, <1>2 DEF Wire!Begin, Line
<1> QED BY <1>3 DEF WireMove, Wire!WireNext

\* A symbol ends: the first break, or the successor of the one before.
LEMMA WireEnd ==
  ASSUME TypeOK, LineInv, ShiftDone
  PROVE  WireMove
<1>1. shifter # None /\ shifter' = None /\ Settled("SEND")' = Settled("SEND")
  BY DEF ShiftDone, Settled, taskVars
<1>2. Wire!End
  BY <1>1 DEF Wire!End
<1>3. CASE sym = Unsynced \/ (sym = Armed /\ txFifo # << >>)
  <2>1. Line = Unsynced /\ Line' = Unsynced
    BY <1>3 DEF ShiftDone, Line, LineInv, Directed, Armed, Unsynced
  <2> QED BY <1>2, <2>1 DEF WireMove, Wire!WireNext, Wire!Noise, Wire!Unsynced, Unsynced, Line
<1>4. CASE sym = Armed /\ txFifo = << >>
  <2>1. Settled("SEND") /\ shifter = Break
    BY <1>4 DEF LineInv, Directed, Arming, Armed, Unsynced
  <2>2. Line = Unsynced /\ sym' = Break /\ Line' = Break
    BY <1>4, <2>1 DEF ShiftDone, Line, Armed, Unsynced, Break
  <2> QED BY <1>2, <2>1, <2>2 DEF WireMove, Wire!WireNext, Wire!Sync, Wire!Unsynced, Unsynced,
          Wire!Break, Break, Line
<1>5. CASE sym \notin {Unsynced, Armed}
  <2>1. Settled("SEND") /\ Chained
    BY <1>5, InStepFacts
  <2>2. sym' = shifter /\ shifter = After(sym)
    BY <1>1, <1>5, <2>1 DEF ShiftDone, Chained
  <2>3. shifter # Armed /\ Line = sym
    BY <1>5, LineTypes DEF Armed, Break, Garbled, None, Line
  <2>4. Line' = Wire!Successor(sym)
    BY <1>5, <2>2, <2>3 DEF Line, After, Wire!Successor, Wire!Break, Break
  <2> QED BY <1>2, <1>5, <2>1, <2>3, <2>4 DEF WireMove, Wire!WireNext, Wire!Carry, Wire!Unsynced,
          Unsynced, Line
<1> QED BY <1>3, <1>4, <1>5

\* DmxUart.WireOrder: whatever the application asks for, in whatever order, whatever is
\* received meanwhile and however handler and task interleave, after a change to SEND
\* the fixtures see, from the first break the handler starts on, break, start code and
\* every slot once and in order, until the next call.
THEOREM LineInOrder == Spec => WireOrder
<1>1. TypeOK /\ LineInv /\ [Next]_vars => WireMove
  <2>1. TypeOK /\ LineInv /\ Next => WireMove
    BY WireCalls, WireTask, WireIsr, WireLoad, WireEnd DEF Next, HwTx
  <2>2. UNCHANGED vars => WireMove
    BY WireUnseen DEF vars, taskVars, txVars, Line, Settled
  <2> QED BY <2>1, <2>2
<1> QED BY <1>1, WireInitial, LineInvariant, TypeCorrect, PTL
        DEF Spec, WireOrder, Wire!WireSpec, WireMove

-----------------------------------------------------------------------------
(* A port that is started once, as a sender.                               *)

\* Nothing is sent or received at first.
LEMMA SendInit == Init => SendInv
  BY DEF Init, SendInv, SendPhases, RatesMatch, SlotsCounted, InStep, TxIdle, NoIntr,
         Garbled, None

\* The steps a port that only sends can take.
SendSteps == \/ startDMXUart("SEND") \/ other_port_enable_tx \/ uart_param_config
             \/ uart_driver_install \/ changeDirection_pin \/ enable_tx_intr
             \/ enable_tx_state \/ enable_tx_running
             \/ isr_tx_done \/ isr_tx_start \/ isr_tx_slot \/ isr_tx_break \/ isr_tx_wake
             \/ LoadShifter \/ ShiftDone

LEMMA OnlySendSteps ==
  ASSUME SendOnce, TypeOK, SendInv, Next
  PROVE  SendSteps
<1> USE DEF SendInv, SendPhases
<1>1. CASE TaskCall
  <2>1. ~(\E dir \in Directions : changeDirectionDMXUart(dir)) /\ ~stopDMXUart
    BY DEF SendOnce, changeDirectionDMXUart, stopDMXUart, Call
  <2>2. (\E dir \in Directions : startDMXUart(dir)) => startDMXUart("SEND")
    BY DEF SendOnce
  <2> QED BY <1>1, <2>1, <2>2 DEF TaskCall, SendSteps
<1>2. CASE TaskStep
  BY <1>2 DEF TaskStep, SendSteps, receive_baud, disable_tx_state, disable_tx_running,
              disable_tx_intr, uart_driver_delete
<1>3. CASE Isr
  <2>1. ~BrkPending /\ ~RxPending
    BY DEF BrkPending, RxPending
  <2> QED BY <1>3, <2>1 DEF Isr, SendSteps, isr_brk_det, RxDmx, isr_rx_break,
             isr_rx_start_code, isr_rx_data, isr_rx_ignore, isr_rx_ring
<1>4. CASE HwTx
  BY <1>4 DEF HwTx, SendSteps
<1>5. CASE HwRx
  BY <1>5 DEF HwRx, BusBreak, BusStartCode, BusChannel, BusTail
<1> QED BY <1>1, <1>2, <1>3, <1>4, <1>5 DEF Next

-----------------------------------------------------------------------------
(* The four parts of the invariant, step by step.                          *)

\* The phases of the start follow each other.
LEMMA PhasesStep ==
  ASSUME SendOnce, TypeOK, SendInv, SendSteps
  PROVE  SendPhases'
<1> USE DEF SendInv, SendPhases, TxIdle, taskVars, dmxVars, intVars, txVars, rxVars, busVars
<1>1. CASE startDMXUart("SEND")
  BY <1>1 DEF startDMXUart, Call, SetPin, SendOnce
<1>2. CASE other_port_enable_tx
  BY <1>2 DEF other_port_enable_tx
<1>3. CASE uart_param_config
  BY <1>3 DEF uart_param_config, SetBaud
<1>4. CASE uart_driver_install
  BY <1>4 DEF uart_driver_install, NoIntr
<1>5. CASE changeDirection_pin
  BY <1>5 DEF changeDirection_pin, SetPin
<1>6. CASE enable_tx_intr
  BY <1>6 DEF enable_tx_intr, EnableTxEmpty
<1>7. CASE enable_tx_state
  BY <1>7 DEF enable_tx_state
<1>8. CASE enable_tx_running
  BY <1>8 DEF enable_tx_running
<1>9. CASE isr_tx_done
  BY <1>9 DEF isr_tx_done, TxDonePending, AfterTxDone
<1>10. CASE isr_tx_start
  BY <1>10 DEF isr_tx_start, TxEmptyPending
<1>11. CASE isr_tx_slot
  BY <1>11 DEF isr_tx_slot, TxEmptyPending
<1>12. CASE isr_tx_break
  BY <1>12 DEF isr_tx_break, TxEmptyPending
<1>13. CASE isr_tx_wake
  BY <1>13 DEF isr_tx_wake, TxEmptyPending
<1>14. CASE LoadShifter
  BY <1>14 DEF LoadShifter
<1>15. CASE ShiftDone
  BY <1>15 DEF ShiftDone
<1> QED BY <1>1, <1>2, <1>3, <1>4, <1>5, <1>6, <1>7, <1>8, <1>9, <1>10, <1>11, <1>12, <1>13,
           <1>14, <1>15 DEF SendSteps

\* The rate still matches what is sent.
LEMMA RatesStep ==
  ASSUME SendOnce, TypeOK, SendInv, SendSteps
  PROVE  RatesMatch'
<1> USE OneItem DEF RatesMatch, TxIdle, taskVars, dmxVars, intVars, txVars, rxVars, busVars
<1>0. /\ SendPhases /\ RatesMatch
      /\ baud \in {"DATA", "BREAK"} /\ slot \in Nat /\ shifter \in Nat \cup {Break, Garbled, None}
      /\ ena \in [txEmpty : BOOLEAN, txDone : BOOLEAN, rxFull : BOOLEAN, brk : BOOLEAN]
      /\ dmxState \in {"IDLE", "BREAK", "DATA", "START"}
  BY DEF SendInv, TypeOK, TxTypeOK, DmxTypeOK, IntTypeOK, DmxStates
<1>1. CASE startDMXUart("SEND")
  BY <1>0, <1>1 DEF startDMXUart
<1>2. CASE other_port_enable_tx
  BY <1>0, <1>2 DEF other_port_enable_tx
<1>3. CASE uart_param_config
  BY <1>0, <1>3 DEF uart_param_config, SetBaud, SendPhases
<1>4. CASE uart_driver_install
  BY <1>0, <1>4 DEF uart_driver_install, NoIntr, SendPhases
<1>5. CASE changeDirection_pin
  BY <1>0, <1>5 DEF changeDirection_pin
<1>6. CASE enable_tx_intr
  BY <1>0, <1>6 DEF enable_tx_intr, EnableTxEmpty, SendPhases
<1>7. CASE enable_tx_state
  BY <1>0, <1>7 DEF enable_tx_state
<1>8. CASE enable_tx_running
  BY <1>0, <1>8 DEF enable_tx_running
<1>9. CASE isr_tx_done
  BY <1>0, <1>9 DEF isr_tx_done, TxDonePending, AfterTxDone, Rearm
<1>10. CASE isr_tx_start
  <2>1. /\ baud' = "DATA" /\ shifter' = shifter /\ txFifo' = <<0>> /\ dmxState' = "DATA"
        /\ txFifo = << >> /\ ena' = ena /\ txDoneRaw' = txDoneRaw /\ ena.txEmpty
        /\ ~(ena.txDone /\ txDoneRaw)
    BY <1>0, <1>10 DEF isr_tx_start, TxEmptyPending, TxDonePending, SetBaud
  <2>2. Head(<<0>>) = 0 /\ 0 # Break
    BY DEF Break
  <2> QED BY <1>0, <2>1, <2>2
<1>11. CASE isr_tx_slot
  <2>1. /\ baud = "DATA" /\ baud' = baud /\ shifter' = shifter /\ txFifo' = <<slot>>
        /\ dmxState' = "DATA"
    BY <1>0, <1>11 DEF isr_tx_slot
  <2>2. ~(ena'.txDone /\ txDoneRaw')
    BY <1>0, <1>11 DEF isr_tx_slot, TxEmptyPending, TxDonePending, WaitTxDone
  <2>3. Head(<<slot>>) = slot /\ slot # Break
    BY <1>0 DEF Break
  <2> QED BY <1>0, <2>1, <2>2, <2>3
<1>12. CASE isr_tx_break
  BY <1>0, <1>12 DEF isr_tx_break, TxEmptyPending, WaitTxDone, SetBaud
<1>13. CASE isr_tx_wake
  BY <1>0, <1>13 DEF isr_tx_wake, TxEmptyPending, SendPhases
<1>14. CASE LoadShifter
  <2>1. SymbolOf(Head(txFifo), baud) = Head(txFifo)
    BY <1>0, <1>14 DEF LoadShifter, SymbolOf
  <2> QED BY <1>0, <1>14, <2>1 DEF LoadShifter, Break, Garbled
<1>15. CASE ShiftDone
  <2>1. /\ shifter' = None /\ UNCHANGED <<ena, dmxState, baud, txFifo>>
        /\ txDoneRaw' = (txDoneRaw \/ txFifo = << >>)
    BY <1>15 DEF ShiftDone
  <2>2. ena.txDone /\ txDoneRaw' => TxIdle'
    BY <1>0, <2>1
  <2> QED BY <1>0, <2>1, <2>2 DEF None, Garbled
<1> QED BY <1>1, <1>2, <1>3, <1>4, <1>5, <1>6, <1>7, <1>8, <1>9, <1>10, <1>11, <1>12, <1>13,
           <1>14, <1>15 DEF SendSteps

\* The slots are still counted.
LEMMA SlotsStep ==
  ASSUME SendOnce, TypeOK, SendInv, SendSteps
  PROVE  SlotsCounted'
<1> USE DmxAssumption DEF SlotsCounted, taskVars, dmxVars, intVars, txVars, rxVars, busVars
<1>0. /\ SendPhases /\ SlotsCounted /\ slot \in Nat
      /\ ena \in [txEmpty : BOOLEAN, txDone : BOOLEAN, rxFull : BOOLEAN, brk : BOOLEAN]
  BY DEF SendInv, TypeOK, DmxTypeOK, IntTypeOK
<1>1. CASE \/ startDMXUart("SEND") \/ other_port_enable_tx \/ uart_param_config
           \/ changeDirection_pin \/ enable_tx_running
  BY <1>0, <1>1 DEF startDMXUart, other_port_enable_tx, uart_param_config,
                    changeDirection_pin, enable_tx_running
<1>2. CASE uart_driver_install \/ enable_tx_intr
  BY <1>0, <1>2 DEF uart_driver_install, enable_tx_intr, SendPhases
<1>3. CASE enable_tx_state
  BY <1>0, <1>3 DEF enable_tx_state
<1>4. CASE isr_tx_done
  BY <1>0, <1>4 DEF isr_tx_done, AfterTxDone
<1>5. CASE isr_tx_start
  BY <1>0, <1>5 DEF isr_tx_start, TxEmptyPending, FirstSlot
<1>6. CASE isr_tx_slot
  <2>1. slot \in 1 .. MaxSlots /\ slot < MaxSlots /\ slot' = slot + 1 /\ ena.txEmpty
    BY <1>0, <1>6 DEF isr_tx_slot, TxEmptyPending
  <2>2. ena'.txEmpty <=> ~FrameEnds(slot + 1)
    BY <1>0, <1>6, <2>1 DEF isr_tx_slot, WaitTxDone
  <2> QED BY <1>0, <2>1, <2>2 DEF FrameEnds
<1>7. CASE isr_tx_break \/ isr_tx_wake
  BY <1>0, <1>7 DEF isr_tx_break, isr_tx_wake
<1>8. CASE LoadShifter \/ ShiftDone
  BY <1>0, <1>8 DEF LoadShifter, ShiftDone
<1> QED BY <1>1, <1>2, <1>3, <1>4, <1>5, <1>6, <1>7, <1>8 DEF SendSteps

\* The line is still in step.
LEMMA InStepStep ==
  ASSUME SendOnce, TypeOK, LineInv, SendInv, SendSteps
  PROVE  InStep'
<1> USE OneItem, DmxAssumption
    DEF InStep, taskVars, dmxVars, intVars, txVars, rxVars, busVars
<1>0. /\ SendPhases /\ RatesMatch /\ SlotsCounted /\ InStep
      /\ baud \in {"DATA", "BREAK"} /\ slot \in Nat /\ shifter \in Nat \cup {Break, Garbled, None}
      /\ ena \in [txEmpty : BOOLEAN, txDone : BOOLEAN, rxFull : BOOLEAN, brk : BOOLEAN]
      /\ sym \in Nat \cup {Break, Garbled, Unsynced, Armed} /\ dmxState \in DmxStates
  BY DEF SendInv, TypeOK, TxTypeOK, DmxTypeOK, IntTypeOK
<1>1. CASE startDMXUart("SEND")
  BY <1>1 DEF startDMXUart, Call
<1>2. CASE other_port_enable_tx
  BY <1>0, <1>2 DEF other_port_enable_tx, Chained, Upcoming
<1>3. CASE \/ uart_param_config \/ uart_driver_install \/ changeDirection_pin
           \/ enable_tx_intr \/ enable_tx_state \/ enable_tx_running
  BY <1>0, <1>3 DEF uart_param_config, uart_driver_install, changeDirection_pin,
                    enable_tx_intr, enable_tx_state, enable_tx_running
<1>4. CASE isr_tx_done
  <2> SUFFICES ASSUME sym # Unsynced PROVE InStep'
    BY <1>4 DEF isr_tx_done
  <2>1. /\ pc = "idle" /\ installed /\ (ena.txDone <=> ~ena.txEmpty) /\ Chained
        /\ ena.txDone /\ txDoneRaw /\ TxIdle
    BY <1>0, <1>4 DEF isr_tx_done, TxDonePending, RatesMatch
  <2>2. Upcoming' = Upcoming
    BY <1>0, <1>4, <2>1
       DEF isr_tx_done, Rearm, AfterTxDone, Upcoming, SlotsCounted, DmxStates, SendPhases
  <2>3. Chained'
    BY <1>4, <2>1, <2>2 DEF isr_tx_done, Chained, After
  <2> QED BY <1>0, <1>4, <2>1, <2>3 DEF isr_tx_done, Rearm
<1>5. CASE isr_tx_start
  <2> SUFFICES ASSUME sym # Unsynced PROVE InStep'
    BY <1>5 DEF isr_tx_start
  <2>1. /\ pc = "idle" /\ installed /\ (ena.txDone <=> ~ena.txEmpty) /\ Chained
        /\ txFifo = << >> /\ ena.txEmpty /\ dmxState = "START" /\ shifter' = shifter
    BY <1>0, <1>5 DEF isr_tx_start, TxEmptyPending, SetBaud, RatesMatch, TxIdle
  <2>2. Upcoming = 0 /\ Upcoming' = 1
    BY <1>5, <2>1 DEF isr_tx_start, Upcoming, FirstSlot
  <2>3. txFifo' = <<0>> /\ sym' = sym
    BY <1>5 DEF isr_tx_start
  <2>4. After(0) = 1
    BY DEF After, Armed
  <2>5. Chained'
    BY <2>1, <2>2, <2>3, <2>4 DEF Chained, After
  <2> QED BY <1>5, <2>1, <2>5 DEF isr_tx_start
<1>6. CASE isr_tx_slot
  <2> SUFFICES ASSUME sym # Unsynced PROVE InStep'
    BY <1>6 DEF isr_tx_slot
  <2>1. /\ pc = "idle" /\ installed /\ (ena.txDone <=> ~ena.txEmpty) /\ Chained
        /\ txFifo = << >> /\ ena.txEmpty /\ dmxState = "DATA"
        /\ slot \in 1 .. MaxSlots /\ slot < MaxSlots
    BY <1>0, <1>6 DEF isr_tx_slot, TxEmptyPending, SlotsCounted
  <2>2. Upcoming = slot /\ Upcoming' = After(slot)
    BY <1>6, <2>1 DEF isr_tx_slot, Upcoming, After, Armed
  <2>3. txFifo' = <<slot>> /\ sym' = sym /\ shifter' = shifter
    BY <1>6 DEF isr_tx_slot
  <2>4. Chained'
    BY <2>1, <2>2, <2>3 DEF Chained, After
  <2>5. ena'.txDone <=> ~ena'.txEmpty
    BY <1>0, <1>6, <2>1 DEF isr_tx_slot, WaitTxDone
  <2> QED BY <1>6, <2>1, <2>4, <2>5 DEF isr_tx_slot
<1>7. CASE isr_tx_break
  <2>1. /\ TxIdle /\ ena.txEmpty /\ dmxState = "BREAK" /\ shifter' = shifter
        /\ txFifo' = <<Break>>
    BY <1>0, <1>7 DEF isr_tx_break, TxEmptyPending, SetBaud, RatesMatch, TxIdle
  <2>2. (ena'.txDone <=> ~ena'.txEmpty) /\ Upcoming' = 0
    BY <1>0, <1>7 DEF isr_tx_break, WaitTxDone, Upcoming, dmxVars
  <2>3. After(Break) = 0 /\ After(Armed) = Break
    BY DEF After, Armed, Break
  <2>4. CASE sym = Unsynced /\ Settled("SEND")
    <3>1. sym' = Armed
      BY <1>7, <2>4 DEF isr_tx_break
    <3>2. Chained'
      BY <2>1, <2>2, <2>3, <3>1 DEF Chained, TxIdle, After
    <3> QED BY <1>7, <2>2, <2>4, <3>2 DEF isr_tx_break, Settled
  <2>5. CASE sym # Unsynced
    <3>1. sym' = sym /\ Chained /\ Upcoming = Break
      BY <1>0, <1>7, <2>1, <2>5 DEF isr_tx_break, Upcoming
    <3>2. Chained'
      BY <2>1, <2>2, <2>3, <3>1 DEF Chained, TxIdle, After
    <3> QED BY <1>0, <1>7, <2>2, <2>5, <3>2 DEF isr_tx_break
  <2> QED BY <1>7, <2>4, <2>5 DEF isr_tx_break
<1>8. CASE isr_tx_wake
  BY <1>0, <1>8 DEF isr_tx_wake, SendPhases, TxEmptyPending
<1>9. CASE LoadShifter
  <2> SUFFICES ASSUME sym # Unsynced PROVE InStep'
    BY <1>9 DEF LoadShifter
  <2>1. SymbolOf(Head(txFifo), baud) = Head(txFifo) /\ Chained
    BY <1>0, <1>9 DEF LoadShifter, SymbolOf, RatesMatch
  <2>2. shifter' = Head(txFifo) /\ shifter' # None /\ txFifo' = << >> /\ shifter = None
        /\ txFifo # << >>
    BY <1>9, <2>1 DEF LoadShifter, None, Break
  <2>3. Upcoming' = Upcoming /\ sym' = sym
    BY <1>9 DEF LoadShifter, Upcoming
  <2>4. Chained'
    BY <2>1, <2>2, <2>3 DEF Chained, After
  <2> QED BY <1>0, <1>9, <2>4 DEF LoadShifter
<1>10. CASE ShiftDone
  <2> SUFFICES ASSUME sym # Unsynced PROVE InStep'
    BY <1>10 DEF ShiftDone
  <2>1. Chained /\ shifter = After(sym) /\ Settled("SEND")
    BY <1>0, <1>10 DEF ShiftDone, Chained, Settled, SendPhases
  <2>2. sym' = shifter
    <3>1. sym = Armed => txFifo = << >>
      BY <1>10, <2>1 DEF LineInv, Arming, Chained, ShiftDone, After, Armed, Break
    <3> QED BY <1>10, <2>1, <3>1 DEF ShiftDone
  <2>3. Upcoming' = Upcoming /\ shifter' = None /\ txFifo' = txFifo /\ shifter # None
    BY <1>10 DEF ShiftDone, Upcoming
  <2>4. Chained'
    BY <2>1, <2>2, <2>3 DEF Chained, After
  <2> QED BY <1>0, <1>10, <2>4 DEF ShiftDone
<1> QED BY <1>1, <1>2, <1>3, <1>4, <1>5, <1>6, <1>7, <1>8, <1>9, <1>10 DEF SendSteps

-----------------------------------------------------------------------------

\* A step that changes nothing.
LEMMA SendStutter == SendInv /\ UNCHANGED vars => SendInv'
  BY DEF SendInv, SendPhases, RatesMatch, SlotsCounted, InStep, Chained, Upcoming, After,
         TxIdle, vars, taskVars, dmxVars, intVars, txVars, rxVars, busVars

\* Every step preserves the invariant.
LEMMA SendInductive ==
  ASSUME SendOnce
  PROVE  TypeOK /\ LineInv /\ SendInv /\ [Next]_vars => SendInv'
<1>1. ASSUME TypeOK, LineInv, SendInv, Next PROVE SendInv'
  BY <1>1, OnlySendSteps, PhasesStep, RatesStep, SlotsStep, InStepStep DEF SendInv
<1> QED BY <1>1, SendStutter

\* A port that is started once as a sender satisfies the invariant.
THEOREM SendInvariant == ASSUME SendOnce PROVE Spec => []SendInv
<1>1. TypeOK /\ LineInv /\ SendInv /\ [Next]_vars => SendInv'
  BY SendInductive
<1> QED BY <1>1, SendInit, LineInvariant, TypeCorrect, PTL DEF Spec

\* It never sends from outside _dmx_data (and receives nothing).
THEOREM SendInBounds == ASSUME SendOnce PROVE Spec => []SlotInBounds
<1>1. SendInv => SlotInBounds
  BY DmxAssumption DEF SendInv, SendPhases, SlotsCounted, SlotInBounds, TxEmptyPending,
     RxPending, Slots
<1> QED BY <1>1, SendInvariant, PTL

\* The baud rate never changes under a byte.
THEOREM SendBaudStable == ASSUME SendOnce PROVE Spec => BaudStable
<1>1. TypeOK /\ SendInv /\ [Next]_vars => [baud' # baud => shifter = None /\ txFifo = << >>]_vars
  <2> SUFFICES ASSUME TypeOK, SendInv, Next, baud' # baud
               PROVE  shifter = None /\ txFifo = << >>
    OBVIOUS
  <2>1. SendSteps
    BY OnlySendSteps
  <2>2. uart_param_config \/ isr_tx_start \/ isr_tx_break
    BY <2>1 DEF SendSteps, startDMXUart, other_port_enable_tx, uart_driver_install,
       changeDirection_pin, enable_tx_intr, enable_tx_state, enable_tx_running, isr_tx_done,
       isr_tx_slot, isr_tx_wake, LoadShifter, ShiftDone, txVars
  <2>3. CASE uart_param_config
    BY <2>3 DEF uart_param_config, SendInv, SendPhases, TxIdle
  <2>4. CASE isr_tx_start
    BY <2>4 DEF isr_tx_start, SetBaud, TxEmptyPending, SendInv, RatesMatch, TxIdle
  <2>5. CASE isr_tx_break
    BY <2>5 DEF isr_tx_break, TxEmptyPending, SendInv, RatesMatch, TxIdle
  <2> QED BY <2>2, <2>3, <2>4, <2>5
<1> QED BY <1>1, SendInvariant, TypeCorrect, PTL DEF Spec, BaudStable

=============================================================================
