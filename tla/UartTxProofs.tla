---------------------------- MODULE UartTxProofs ----------------------------
(***************************************************************************)
(* Proofs about UartTx, for any tasks, sizes and ways to use the port:     *)
(* type correctness, that a wait succeeds only with an empty FIFO, and     *)
(* that the handler spins only for a break.  Without a transmit ring       *)
(* tx_mux excludes.  The bytes of a call leave together and in order,      *)
(* without a ring and with one that has a single writer.                   *)
(***************************************************************************)
EXTENDS UartTx, TLAPS

-----------------------------------------------------------------------------
(* Type correctness.                                                       *)

\* The smaller of two numbers is one of them and exceeds neither.
LEMMA MinLaws ==
  ASSUME NEW m \in Nat, NEW n \in Nat
  PROVE  /\ MinOf(m, n) \in Nat /\ MinOf(m, n) <= m /\ MinOf(m, n) <= n
         /\ MinOf(m, n) = m \/ MinOf(m, n) = n
  BY DEF MinOf

\* The two parts of a cut sequence.
LEMMA CutLaws ==
  ASSUME NEW S, NEW s \in Seq(S), NEW k \in 0 .. Len(s)
  PROVE  /\ Upto(s, k) \in Seq(S) /\ Len(Upto(s, k)) = k
         /\ From(s, k) \in Seq(S) /\ Len(From(s, k)) = Len(s) - k
  BY DEF Upto, From

\* Sequences joined: their length.
LEMMA JoinLaws ==
  ASSUME NEW r \in Seq(Byte \cup {Junk}), NEW s \in Seq(Byte \cup {Junk})
  PROVE  r \o s \in Seq(Byte \cup {Junk}) /\ Len(r \o s) = Len(r) + Len(s)
  OBVIOUS

\* What a step of the handler or of the hardware counts on: bytes of a call fit
\* the bound, and what is still to be filled in fits the FIFO.
Fits == /\ \A w \in Writers : Len(rest[w]) <= MaxSize
        /\ isr.rem + Len(txFifo) <= FifoCap
        /\ ~isr.on => isr.rem = 0

TxTypes == TypeOK /\ Fits

\* What a way to use the port says.
LEMMA UseLaws ==
  ASSUME NEW u \in Uses
  PROVE  /\ u.ring \in Nat /\ u.chunk \in Nat /\ u.size \in 1 .. MaxSize
         /\ u.tasks \subseteq Writers /\ u.breaks \subseteq BOOLEAN
  BY TxAssumption DEF Use

\* What the types say of the FIFO and of the handler.
LEMMA FifoLaws ==
  ASSUME TxTypes
  PROVE  /\ txFifo \in Seq(Byte \cup {Junk}) /\ Len(txFifo) \in Nat
         /\ cur \in Seq(Byte \cup {Junk}) /\ Len(cur) \in Nat
         /\ isr \in [on : BOOLEAN, rem : 0 .. FifoCap, en : BOOLEAN, stuck : BOOLEAN]
         /\ isr.rem \in Nat /\ FifoCap \in Nat /\ isr.rem + Len(txFifo) <= FifoCap
         /\ lenTot \in Int
  BY TxAssumption DEF TxTypes, TypeOK, Fits

\* The types hold at first.
LEMMA TxTypesInit == Init => TxTypes
<1> SUFFICES ASSUME Init PROVE TxTypes
  OBVIOUS
<1> USE TxAssumption DEF Init
<1>1. isr \in [on : BOOLEAN, rem : 0 .. FifoCap, en : BOOLEAN, stuck : BOOLEAN]
  BY DEF Asleep
<1>2. Len(ring) <= use.ring /\ Len(txFifo) <= FifoCap
  BY UseLaws
<1>3. /\ use \in Uses
      /\ pc \in [Writers -> WriteSteps \cup WaitSteps \cup CharSteps \cup {"idle"}]
      /\ calls \in [Writers -> Nat]
      /\ rest \in [Writers -> Seq(Byte)] /\ brk \in [Writers -> BOOLEAN]
      /\ mux \in Writers \cup {NoTask}
  OBVIOUS
<1>4. /\ ring \in Seq([event : BOOLEAN, size : 0 .. MaxSize, brk : BOOLEAN, data : Seq(Byte \cup {Junk})])
      /\ cur \in Seq(Byte \cup {Junk}) /\ lenTot \in Int
      /\ txFifo \in Seq(Byte \cup {Junk}) /\ sym \in Byte \cup {Break, Start, Junk}
  OBVIOUS
<1>5. /\ {brkFlg, waitBrk, fifoSem, waitFifo, brkSem, doneSem} \subseteq BOOLEAN
      /\ {emptyEna, brkEna, doneEna, brkRaw, doneRaw, txdBrk} \subseteq BOOLEAN
  OBVIOUS
<1>6. TypeOK
  BY ONLY <1>1, <1>2, <1>3, <1>4, <1>5 DEF TypeOK
<1>7. Fits
  BY DEF Fits, Asleep
<1> QED BY <1>6, <1>7 DEF TxTypes

\* The transmitter takes bytes out of the FIFO.
LEMMA TxTypesHw == TxTypes /\ Hw => TxTypes'
<1> SUFFICES ASSUME TxTypes, Hw PROVE TxTypes'
  OBVIOUS
<1> USE TxAssumption
<1>1. CASE SendByte
  <2>1. /\ txFifo \in Seq(Byte \cup {Junk}) /\ txFifo # << >>
        /\ txFifo' = Tail(txFifo) /\ sym' = Head(txFifo)
    BY <1>1 DEF SendByte, TxTypes, TypeOK
  <2>2. /\ txFifo' \in Seq(Byte \cup {Junk}) /\ sym' \in Byte \cup {Junk}
        /\ Len(txFifo') = Len(txFifo) - 1
    BY <2>1
  <2>3. TypeOK'
    BY <1>1, <2>2 DEF SendByte, TxTypes, TypeOK, taskVars, itemVars, semVars
  <2>4. Len(txFifo') <= Len(txFifo) /\ Len(txFifo') \in Nat /\ UNCHANGED <<isr, rest>>
    BY <1>1, <2>1, <2>2 DEF SendByte, taskVars
  <2>5. Fits'
    BY <2>4, FifoLaws DEF TxTypes, Fits
  <2> QED BY <2>3, <2>5 DEF TxTypes
<1>2. CASE SendBreak
  BY <1>2 DEF SendBreak, TxTypes, TypeOK, Fits, taskVars, itemVars, semVars, Break
<1> QED BY <1>1, <1>2 DEF Hw

\* The handler fills in no more than there is room for.
LEMMA TxTypesIsr == TxTypes /\ Isr => TxTypes'
<1> SUFFICES ASSUME TxTypes, Isr PROVE TxTypes'
  OBVIOUS
<1> USE TxAssumption DEF TxTypes, taskVars, itemVars, semVars, intVars, hwVars
<1>1. CASE isr_stuck
  BY <1>1 DEF isr_stuck, TypeOK, Fits, Asleep
<1>2. CASE isr_tx_wake
  BY <1>2 DEF isr_tx_wake, TypeOK, Fits
<1>3. CASE isr_tx_begin
  <2>1. /\ isr'.rem = FifoCap - Len(txFifo) /\ isr'.on
        /\ isr' \in [on : BOOLEAN, rem : 0 .. FifoCap, en : BOOLEAN, stuck : BOOLEAN]
    <3>1. isr' = [on |-> TRUE, rem |-> FifoCap - Len(txFifo), en |-> FALSE, stuck |-> FALSE]
      BY <1>3 DEF isr_tx_begin, Asleep, FifoRoom
    <3>2. FifoCap - Len(txFifo) \in 0 .. FifoCap
      BY FifoLaws
    <3> QED BY ONLY <3>1, <3>2
  <2>2. TypeOK'
    BY <1>3, <2>1 DEF isr_tx_begin, TypeOK
  <2>3. Fits'
    BY <1>3, <2>1, FifoLaws DEF isr_tx_begin, Fits
  <2> QED BY <2>2, <2>3
<1>4. CASE isr_tx_event
  <2>1. /\ ring' \in Seq([event : BOOLEAN, size : 0 .. MaxSize, brk : BOOLEAN, data : Seq(Byte \cup {Junk})])
        /\ Len(ring') <= use.ring
    BY <1>4, UseLaws DEF isr_tx_event, TypeOK
  <2>2. lenTot' \in Int /\ brkFlg' \in BOOLEAN
    BY <1>4 DEF isr_tx_event, TypeOK
  <2>3. TypeOK'
    BY <1>4, <2>1, <2>2 DEF isr_tx_event, TypeOK
  <2>4. Fits'
    BY <1>4 DEF isr_tx_event, Fits
  <2> QED BY <2>3, <2>4
<1>5. CASE isr_tx_item
  <2>1. /\ ring' \in Seq([event : BOOLEAN, size : 0 .. MaxSize, brk : BOOLEAN, data : Seq(Byte \cup {Junk})])
        /\ Len(ring') <= use.ring /\ cur' \in Seq(Byte \cup {Junk})
    <3> DEFINE It == [event : BOOLEAN, size : 0 .. MaxSize, brk : BOOLEAN, data : Seq(Byte \cup {Junk})]
    <3>1. ring \in Seq(It) /\ ring # << >> /\ ring' = Tail(ring) /\ cur' = Head(ring).data
      BY <1>5 DEF isr_tx_item, TypeOK
    <3>2. Head(ring) \in It /\ ring' \in Seq(It) /\ Len(ring') <= Len(ring)
      <4> HIDE DEF It
      <4> QED BY ONLY <3>1
    <3>3. Len(ring) <= use.ring /\ use.ring \in Nat /\ Len(ring) \in Nat /\ Len(ring') \in Nat
      BY <3>1, <3>2, UseLaws DEF TypeOK
    <3> QED BY ONLY <3>1, <3>2, <3>3
  <2>2. /\ isr'.rem = isr.rem /\ isr'.on = isr.on
        /\ isr' \in [on : BOOLEAN, rem : 0 .. FifoCap, en : BOOLEAN, stuck : BOOLEAN]
    BY <1>5, FifoLaws DEF isr_tx_item
  <2>3. TypeOK'
    BY <1>5, <2>1, <2>2 DEF isr_tx_item, TypeOK
  <2>4. Fits'
    BY <1>5, <2>2 DEF isr_tx_item, Fits
  <2> QED BY <2>3, <2>4
<1>6. CASE isr_tx_fill
  <2> DEFINE n == MinOf(Len(cur), isr.rem)
  <2>1. n \in 0 .. Len(cur) /\ n \in 0 .. isr.rem
    BY MinLaws DEF TypeOK
  <2>2. /\ cur' = From(cur, n) /\ txFifo' = txFifo \o Upto(cur, n) /\ lenTot' = lenTot - n
        /\ isr'.rem = isr.rem - n /\ isr' \in [on : BOOLEAN, rem : 0 .. FifoCap, en : BOOLEAN, stuck : BOOLEAN]
        /\ isr'.on
    <3>1. /\ cur' = From(cur, n) /\ txFifo' = txFifo \o Upto(cur, n) /\ lenTot' = lenTot - n /\ isr.on
      BY <1>6 DEF isr_tx_fill, Filling, LeftOver
    <3>2. \E e \in BOOLEAN : isr' = [isr EXCEPT !.rem = @ - n, !.en = e]
      BY <1>6, FifoLaws DEF isr_tx_fill, FillEnables
    <3>3. n \in Nat /\ isr.rem - n \in 0 .. FifoCap
      BY <2>1, FifoLaws
    <3> HIDE DEF n
    <3>4. PICK e \in BOOLEAN : isr' = [isr EXCEPT !.rem = @ - n, !.en = e]
      BY <3>2
    <3>5. /\ isr'.rem = isr.rem - n /\ isr'.on = isr.on
          /\ isr' \in [on : BOOLEAN, rem : 0 .. FifoCap, en : BOOLEAN, stuck : BOOLEAN]
      BY ONLY <3>3, <3>4, FifoLaws, TxTypes
    <3> QED BY <3>1, <3>5
  <2>3. /\ cur' \in Seq(Byte \cup {Junk}) /\ Upto(cur, n) \in Seq(Byte \cup {Junk}) /\ Len(Upto(cur, n)) = n
    BY <2>1, <2>2, CutLaws DEF TypeOK
  <2>4. txFifo' \in Seq(Byte \cup {Junk}) /\ Len(txFifo') = Len(txFifo) + n
    <3> HIDE DEF n
    <3> QED BY <2>2, <2>3, FifoLaws, JoinLaws
  <2>5. Fits'
    BY <1>6, <2>1, <2>2, <2>4 DEF isr_tx_fill, Fits, TypeOK
  <2>6. /\ {brkFlg, waitBrk, fifoSem, waitFifo, brkSem, doneSem}' \subseteq BOOLEAN
        /\ {emptyEna, brkEna, doneEna, brkRaw, doneRaw, txdBrk}' \subseteq BOOLEAN
    BY <1>6 DEF isr_tx_fill, TypeOK
  <2>7. Len(txFifo') <= FifoCap /\ lenTot' \in Int
    BY <2>1, <2>2, <2>4, FifoLaws
  <2> HIDE DEF n
  <2>8. TypeOK'
    BY <1>6, <2>2, <2>3, <2>4, <2>6, <2>7 DEF isr_tx_fill, TypeOK
  <2> QED BY <2>5, <2>8
<1>7. CASE isr_tx_end
  BY <1>7 DEF isr_tx_end, TypeOK, Fits, Asleep
<1>8. CASE isr_brk_done
  BY <1>8 DEF isr_brk_done, TypeOK, Fits
<1>9. CASE isr_tx_done
  BY <1>9 DEF isr_tx_done, TypeOK, Fits
<1> QED BY <1>1, <1>2, <1>3, <1>4, <1>5, <1>6, <1>7, <1>8, <1>9 DEF Isr
\* A task takes its next step: where the tasks stand is typed.
LEMMA GotoType ==
  ASSUME TypeOK, NEW w \in Writers, NEW from, NEW to,
         to \in WriteSteps \cup WaitSteps \cup CharSteps \cup {"idle"}, Goto(w, from, to)
  PROVE  pc' \in [Writers -> WriteSteps \cup WaitSteps \cup CharSteps \cup {"idle"}]
  BY DEF Goto, TypeOK

\* A call begins: it is counted.
LEMMA CallType ==
  ASSUME TypeOK, NEW w \in Writers, NEW first,
         first \in WriteSteps \cup WaitSteps \cup CharSteps \cup {"idle"}, Call(w, first)
  PROVE  /\ pc' \in [Writers -> WriteSteps \cup WaitSteps \cup CharSteps \cup {"idle"}]
         /\ calls' \in [Writers -> Nat]
<1>1. pc' \in [Writers -> WriteSteps \cup WaitSteps \cup CharSteps \cup {"idle"}]
  BY GotoType DEF Call
<1>2. calls' \in [Writers -> Nat]
  BY DEF Call, TypeOK
<1> QED BY <1>1, <1>2

\* The names of the steps.
LEMMA StepNames ==
  \A s \in {"wr_take", "wr_event", "wr_data", "wr_enable", "wr_give", "wr_sem", "wr_fill",
            "wr_arm", "wr_break", "wr_brksem", "wr_semgive", "wr_last", "wt_take",
            "wt_stale", "wt_check", "wt_arm", "wt_wait", "wt_disarm", "wt_give", "tc_take",
            "tc_fill", "idle"} :
    s \in WriteSteps \cup WaitSteps \cup CharSteps \cup {"idle"}
  BY DEF WriteSteps, WaitSteps, CharSteps

\* A call begins with a message of at most MaxSize bytes, or with none.
LEMMA TxTypesBegin ==
  ASSUME TxTypes, NEW w \in Writers, Begin(w)
  PROVE  TxTypes'
<1> USE TxAssumption DEF TxTypes, itemVars, semVars, intVars, hwVars
<1>1. CASE uart_tx_all(w)
  <2>1. PICK n \in 1 .. use.size, b \in use.breaks :
          /\ rest' = [rest EXCEPT ![w] = [i \in 1 .. n |-> [w |-> w, i |-> i, n |-> n, b |-> b]]]
          /\ brk' = [brk EXCEPT ![w] = b]
    BY <1>1 DEF uart_tx_all
  <2>2. n \in 1 .. MaxSize /\ b \in BOOLEAN
    BY UseLaws DEF TypeOK
  <2> DEFINE m == [i \in 1 .. n |-> [w |-> w, i |-> i, n |-> n, b |-> b]]
  <2>3. m \in Seq(Byte) /\ Len(m) = n
    <3>1. \A i \in 1 .. n : [w |-> w, i |-> i, n |-> n, b |-> b] \in Byte
      BY <2>2 DEF Byte
    <3>2. n \in Nat /\ m \in [1 .. n -> Byte]
      BY <2>2, <3>1
    <3> QED BY <3>2
  <2> HIDE DEF m
  <2>4. /\ rest' \in [Writers -> Seq(Byte)] /\ brk' \in [Writers -> BOOLEAN]
        /\ \A v \in Writers : Len(rest'[v]) <= MaxSize
    BY <2>1, <2>2, <2>3 DEF TypeOK, Fits, m
  <2>5. /\ pc' \in [Writers -> WriteSteps \cup WaitSteps \cup CharSteps \cup {"idle"}]
        /\ calls' \in [Writers -> Nat]
    BY <1>1, CallType, StepNames DEF uart_tx_all
  <2>6. TypeOK'
    BY <1>1, <2>4, <2>5 DEF uart_tx_all, TypeOK
  <2>7. Fits'
    BY <1>1, <2>4 DEF uart_tx_all, Fits
  <2> QED BY <2>6, <2>7
<1>2. CASE uart_tx_chars(w) \/ uart_wait_tx_done(w)
  <2>1. /\ pc' \in [Writers -> WriteSteps \cup WaitSteps \cup CharSteps \cup {"idle"}]
        /\ calls' \in [Writers -> Nat]
    BY <1>2, CallType, StepNames DEF uart_tx_chars, uart_wait_tx_done
  <2>2. UNCHANGED <<use, rest, brk, mux, itemVars, semVars, intVars, hwVars, isr>>
    BY <1>2 DEF uart_tx_chars, uart_wait_tx_done
  <2> QED BY <2>1, <2>2 DEF TypeOK, Fits
<1> QED BY <1>1, <1>2 DEF Begin

\* The steps of a write that touch neither the ring nor the FIFO nor the data.
LEMMA TxTypesWrite ==
  ASSUME TxTypes, NEW w \in Writers,
         \/ wr_take(w) \/ wr_enable(w) \/ wr_give(w) \/ wr_sem(w) \/ wr_arm(w)
         \/ wr_break(w) \/ wr_brksem(w) \/ wr_semgive(w)
  PROVE  TxTypes'
<1> USE DEF TxTypes, itemVars, semVars, intVars, hwVars
<1>1. CASE wr_take(w)
  <2>1. pc' \in [Writers -> WriteSteps \cup WaitSteps \cup CharSteps \cup {"idle"}]
    BY <1>1, GotoType, StepNames DEF wr_take, Take
  <2> QED BY <1>1, <2>1 DEF wr_take, Take, TypeOK, Fits
<1>2. CASE wr_enable(w)
  <2>1. pc' \in [Writers -> WriteSteps \cup WaitSteps \cup CharSteps \cup {"idle"}]
    BY <1>2, GotoType, StepNames DEF wr_enable
  <2> QED BY <1>2, <2>1 DEF wr_enable, TypeOK, Fits
<1>3. CASE wr_give(w)
  <2>1. pc' \in [Writers -> WriteSteps \cup WaitSteps \cup CharSteps \cup {"idle"}]
    BY <1>3, GotoType, StepNames DEF wr_give
  <2> QED BY <1>3, <2>1 DEF wr_give, TypeOK, Fits
<1>4. CASE wr_sem(w)
  <2>1. pc' \in [Writers -> WriteSteps \cup WaitSteps \cup CharSteps \cup {"idle"}]
    BY <1>4, GotoType, StepNames DEF wr_sem
  <2> QED BY <1>4, <2>1 DEF wr_sem, TypeOK, Fits
<1>5. CASE wr_arm(w)
  <2>1. pc' \in [Writers -> WriteSteps \cup WaitSteps \cup CharSteps \cup {"idle"}]
    BY <1>5, GotoType, StepNames DEF wr_arm
  <2> QED BY <1>5, <2>1 DEF wr_arm, TypeOK, Fits
<1>6. CASE wr_break(w)
  <2>1. pc' \in [Writers -> WriteSteps \cup WaitSteps \cup CharSteps \cup {"idle"}]
    BY <1>6, GotoType, StepNames DEF wr_break
  <2> QED BY <1>6, <2>1 DEF wr_break, TypeOK, Fits
<1>7. CASE wr_brksem(w)
  <2>1. pc' \in [Writers -> WriteSteps \cup WaitSteps \cup CharSteps \cup {"idle"}]
    BY <1>7, GotoType, StepNames DEF wr_brksem
  <2> QED BY <1>7, <2>1 DEF wr_brksem, TypeOK, Fits
<1>8. CASE wr_semgive(w)
  <2>1. pc' \in [Writers -> WriteSteps \cup WaitSteps \cup CharSteps \cup {"idle"}]
    BY <1>8, GotoType, StepNames DEF wr_semgive
  <2> QED BY <1>8, <2>1 DEF wr_semgive, TypeOK, Fits
<1> QED BY <1>1, <1>2, <1>3, <1>4, <1>5, <1>6, <1>7, <1>8

\* The steps of the other two calls; a single character goes where there is room.
LEMMA TxTypesOther ==
  ASSUME TxTypes, NEW w \in Writers, WaitStep(w) \/ tc_take(w) \/ tc_fill(w)
  PROVE  TxTypes'
<1> USE TxAssumption DEF TxTypes, itemVars, semVars, intVars, hwVars
<1>1. CASE wt_take(w)
  <2>1. pc' \in [Writers -> WriteSteps \cup WaitSteps \cup CharSteps \cup {"idle"}]
    BY <1>1, GotoType, StepNames DEF wt_take, Take
  <2> QED BY <1>1, <2>1 DEF wt_take, Take, TypeOK, Fits
<1>2. CASE wt_take_timeout(w)
  <2>1. pc' \in [Writers -> WriteSteps \cup WaitSteps \cup CharSteps \cup {"idle"}]
    BY <1>2, GotoType, StepNames DEF wt_take_timeout
  <2> QED BY <1>2, <2>1 DEF wt_take_timeout, TypeOK, Fits
<1>3. CASE wt_stale(w)
  <2>1. pc' \in [Writers -> WriteSteps \cup WaitSteps \cup CharSteps \cup {"idle"}]
    BY <1>3, GotoType, StepNames DEF wt_stale
  <2> QED BY <1>3, <2>1 DEF wt_stale, Stale, TypeOK, Fits
<1>4. CASE wt_check(w)
  <2>1. pc' \in [Writers -> WriteSteps \cup WaitSteps \cup CharSteps \cup {"idle"}]
    BY <1>4, GotoType, StepNames DEF wt_check
  <2> QED BY <1>4, <2>1 DEF wt_check, TypeOK, Fits
<1>5. CASE wt_arm(w)
  <2>1. pc' \in [Writers -> WriteSteps \cup WaitSteps \cup CharSteps \cup {"idle"}]
    BY <1>5, GotoType, StepNames DEF wt_arm
  <2> QED BY <1>5, <2>1 DEF wt_arm, TypeOK, Fits
<1>6. CASE wt_wait(w)
  <2>1. pc' \in [Writers -> WriteSteps \cup WaitSteps \cup CharSteps \cup {"idle"}]
    BY <1>6, GotoType, StepNames DEF wt_wait
  <2> QED BY <1>6, <2>1 DEF wt_wait, TypeOK, Fits
<1>7. CASE wt_wait_timeout(w)
  <2>1. pc' \in [Writers -> WriteSteps \cup WaitSteps \cup CharSteps \cup {"idle"}]
    BY <1>7, GotoType, StepNames DEF wt_wait_timeout
  <2> QED BY <1>7, <2>1 DEF wt_wait_timeout, TypeOK, Fits
<1>8. CASE wt_disarm(w)
  <2>1. pc' \in [Writers -> WriteSteps \cup WaitSteps \cup CharSteps \cup {"idle"}]
    BY <1>8, GotoType, StepNames DEF wt_disarm
  <2> QED BY <1>8, <2>1 DEF wt_disarm, TypeOK, Fits
<1>9. CASE wt_give(w)
  <2>1. pc' \in [Writers -> WriteSteps \cup WaitSteps \cup CharSteps \cup {"idle"}]
    BY <1>9, GotoType, StepNames DEF wt_give
  <2> QED BY <1>9, <2>1 DEF wt_give, TypeOK, Fits
<1>10. CASE tc_take(w)
  <2>1. pc' \in [Writers -> WriteSteps \cup WaitSteps \cup CharSteps \cup {"idle"}]
    BY <1>10, GotoType, StepNames DEF tc_take, Take
  <2> QED BY <1>10, <2>1 DEF tc_take, Take, TypeOK, Fits
<1>11. CASE tc_fill(w)
  <2>1. pc' \in [Writers -> WriteSteps \cup WaitSteps \cup CharSteps \cup {"idle"}]
    BY <1>11, GotoType, StepNames DEF tc_fill
  <2>2. ~isr.on /\ isr.rem = 0
    BY <1>11 DEF tc_fill, Goto, Fits
  <2> DEFINE x == [w |-> w, i |-> 1, n |-> 1, b |-> FALSE]
  <2>3. x \in Byte \cup {Junk}
    BY DEF Byte
  <2>4. txFifo' = IF Len(txFifo) < FifoCap THEN Append(txFifo, x) ELSE txFifo
    BY <1>11 DEF tc_fill
  <2> HIDE DEF x
  <2>5. txFifo' \in Seq(Byte \cup {Junk}) /\ Len(txFifo') <= FifoCap /\ Len(txFifo') \in Nat
    BY <2>3, <2>4, FifoLaws
  <2>6. TypeOK'
    BY <1>11, <2>1, <2>5 DEF tc_fill, TypeOK
  <2>7. Fits'
    BY <1>11, <2>2, <2>5 DEF tc_fill, Fits
  <2> QED BY <2>6, <2>7
<1> QED BY <1>1, <1>2, <1>3, <1>4, <1>5, <1>6, <1>7, <1>8, <1>9, <1>10, <1>11 DEF WaitStep

\* The steps of a write that move its data: into the ring, into the FIFO, or away.
LEMMA TxTypesData ==
  ASSUME TxTypes, NEW w \in Writers, wr_event(w) \/ wr_data(w) \/ wr_fill(w) \/ wr_last(w)
  PROVE  TxTypes'
<1> DEFINE It == [event : BOOLEAN, size : 0 .. MaxSize, brk : BOOLEAN, data : Seq(Byte \cup {Junk})]
<1>1. /\ rest[w] \in Seq(Byte) /\ Len(rest[w]) \in 0 .. MaxSize /\ brk[w] \in BOOLEAN
      /\ use.chunk \in Nat /\ use.ring \in Nat /\ MaxSize \in Nat
  BY UseLaws, TxAssumption DEF TxTypes, TypeOK, Fits
<1>2. ASSUME NEW x \in It, RingSend(x)
      PROVE  ring' \in Seq(It) /\ Len(ring') <= use.ring
  <2>1. ring \in Seq(It) /\ ring' = Append(ring, x) /\ Len(ring) < use.ring
    BY <1>1, <1>2 DEF RingSend, TxTypes, TypeOK
  <2> HIDE DEF It
  <2> QED BY <1>1, <2>1
<1>3. CASE wr_event(w)
  <2>1. [event |-> TRUE, size |-> Len(rest[w]), brk |-> brk[w], data |-> <<Junk>>] \in It
    BY <1>1
  <2>2. ring' \in Seq(It) /\ Len(ring') <= use.ring
    BY <1>2, <1>3, <2>1 DEF wr_event
  <2>3. pc' \in [Writers -> WriteSteps \cup WaitSteps \cup CharSteps \cup {"idle"}]
    BY <1>3, GotoType, StepNames DEF wr_event, TxTypes
  <2> QED BY <1>3, <2>2, <2>3 DEF wr_event, TxTypes, TypeOK, Fits, semVars, intVars, hwVars
<1>4. CASE wr_data(w)
  <2> DEFINE n == MinOf(Len(rest[w]), use.chunk)
  <2>1. n \in 0 .. Len(rest[w])
    BY <1>1, MinLaws
  <2>2. /\ RingSend([event |-> FALSE, size |-> n, brk |-> FALSE, data |-> Upto(rest[w], n)])
        /\ rest' = [rest EXCEPT ![w] = From(@, n)]
    BY <1>4 DEF wr_data
  <2> HIDE DEF n
  <2>3. /\ Upto(rest[w], n) \in Seq(Byte) /\ From(rest[w], n) \in Seq(Byte)
        /\ Len(From(rest[w], n)) <= MaxSize
    BY <1>1, <2>1, CutLaws
  <2>4. Upto(rest[w], n) \in Seq(Byte \cup {Junk})
    BY <2>3
  <2>5. [event |-> FALSE, size |-> n, brk |-> FALSE, data |-> Upto(rest[w], n)] \in It
    BY <1>1, <2>1, <2>4
  <2>6. ring' \in Seq(It) /\ Len(ring') <= use.ring
    BY <1>2, <2>2, <2>5
  <2>7. rest' \in [Writers -> Seq(Byte)] /\ \A v \in Writers : Len(rest'[v]) <= MaxSize
    BY <2>2, <2>3 DEF TxTypes, TypeOK, Fits
  <2>8. pc' \in [Writers -> WriteSteps \cup WaitSteps \cup CharSteps \cup {"idle"}]
    BY <1>4, GotoType, StepNames DEF wr_data, TxTypes
  <2>9. TypeOK'
    BY <1>4, <2>6, <2>7, <2>8 DEF wr_data, TxTypes, TypeOK, semVars, intVars, hwVars
  <2>10. Fits'
    BY <1>4, <2>7 DEF wr_data, TxTypes, Fits, hwVars
  <2> QED BY <2>9, <2>10 DEF TxTypes
<1>5. CASE wr_fill(w)
  <2> DEFINE n == MinOf(Len(rest[w]), FifoRoom)
  <2>1. n \in 0 .. Len(rest[w]) /\ n <= FifoRoom /\ FifoRoom \in Nat
    BY <1>1, MinLaws, FifoLaws DEF FifoRoom
  <2>2. /\ rest' = [rest EXCEPT ![w] = From(@, n)] /\ txFifo' = txFifo \o Upto(rest[w], n)
        /\ waitFifo' = (waitFifo \/ n < Len(rest[w]))
    BY <1>5 DEF wr_fill, Waiting
  <2> HIDE DEF n
  <2>3. /\ Upto(rest[w], n) \in Seq(Byte) /\ From(rest[w], n) \in Seq(Byte)
        /\ Len(From(rest[w], n)) <= MaxSize /\ Len(Upto(rest[w], n)) = n
    BY <1>1, <2>1, CutLaws
  <2>4. Upto(rest[w], n) \in Seq(Byte \cup {Junk})
    BY <2>3
  <2>5. txFifo' \in Seq(Byte \cup {Junk}) /\ Len(txFifo') = Len(txFifo) + n
    BY <2>2, <2>3, <2>4, JoinLaws, FifoLaws
  <2>6. rest' \in [Writers -> Seq(Byte)] /\ \A v \in Writers : Len(rest'[v]) <= MaxSize
    BY <2>2, <2>3 DEF TxTypes, TypeOK, Fits
  <2>7. pc' \in [Writers -> WriteSteps \cup WaitSteps \cup CharSteps \cup {"idle"}]
    <3>1. \E to \in {"wr_arm", "wr_break", "wr_semgive"} : Goto(w, "wr_fill", to)
      BY <1>5 DEF wr_fill
    <3> QED BY <3>1, GotoType, StepNames DEF TxTypes
  <2>8. ~isr.on /\ isr.rem = 0 /\ UNCHANGED isr
    BY <1>5 DEF wr_fill, Goto, TxTypes, Fits
  <2>9. Len(txFifo') <= FifoCap
    BY <2>1, <2>5, FifoLaws DEF FifoRoom
  <2>10. waitFifo' \in BOOLEAN
    BY <2>2
  <2>11. TypeOK'
    BY <1>5, <2>5, <2>6, <2>7, <2>9, <2>10 DEF wr_fill, TxTypes, TypeOK, itemVars, intVars
  <2>12. Fits'
    BY <2>5, <2>6, <2>8, <2>9, <2>1, FifoLaws DEF Fits
  <2> QED BY <2>11, <2>12 DEF TxTypes
<1>6. CASE wr_last(w)
  <2>1. pc' \in [Writers -> WriteSteps \cup WaitSteps \cup CharSteps \cup {"idle"}]
    BY <1>6, GotoType, StepNames DEF wr_last, TxTypes
  <2>2. /\ rest' \in [Writers -> Seq(Byte)] /\ brk' \in [Writers -> BOOLEAN]
        /\ \A v \in Writers : Len(rest'[v]) <= MaxSize
    BY <1>6, TxAssumption DEF wr_last, TxTypes, TypeOK, Fits
  <2> QED BY <1>6, <2>1, <2>2 DEF wr_last, TxTypes, TypeOK, Fits, itemVars, semVars, intVars, hwVars
<1> QED BY <1>3, <1>4, <1>5, <1>6

\* Every step keeps the types.
LEMMA TxTypesNext == TxTypes /\ [Next]_vars => TxTypes'
<1> SUFFICES ASSUME TxTypes, [Next]_vars PROVE TxTypes'
  OBVIOUS
<1>1. CASE UNCHANGED vars
  BY <1>1 DEF vars, taskVars, itemVars, semVars, intVars, hwVars, TxTypes, TypeOK, Fits
<1>2. CASE Hw \/ Isr
  BY <1>2, TxTypesHw, TxTypesIsr
<1>3. ASSUME NEW w \in Writers, Begin(w) \/ Step(w) PROVE TxTypes'
  <2>1. CASE Begin(w)
    BY <2>1, TxTypesBegin
  <2>2. CASE Step(w)
    BY <2>2, TxTypesWrite, TxTypesData, TxTypesOther DEF Step, WriteStep
  <2> QED BY <1>3, <2>1, <2>2
<1> QED BY <1>1, <1>2, <1>3 DEF Next

\* UartTx.TypeOK: every variable of the sending half keeps its type, whatever
\* the sizes, the tasks and the way the port is used.
THEOREM TxTypeCorrect == Spec => []TypeOK
<1>1. Spec => []TxTypes
  BY TxTypesInit, TxTypesNext, PTL DEF Spec
<1>2. TxTypes => TypeOK
  BY DEF TxTypes
<1> QED BY <1>1, <1>2, PTL

-----------------------------------------------------------------------------
(* Who is at which step, and what the flags and semaphores then say.       *)

RingSteps   == {"wr_event", "wr_data", "wr_enable", "wr_give"}
DirectSteps == {"wr_sem", "wr_fill", "wr_arm", "wr_break", "wr_brksem", "wr_semgive"}
Filled      == {"wr_fill", "wr_break", "wr_brksem", "wr_semgive"}
Locked      == DirectSteps \cup {"wr_last", "tc_fill"} \cup (WaitSteps \ {"wt_take"})

\* Without a ring the handler only gives semaphores and never stays; with one
\* nobody waits for the transmitter or sends single characters.
Modes ==
  /\ use.ring = 0 => /\ ~isr.on /\ ~brkFlg /\ ~waitBrk
                     /\ \A w \in Writers : pc[w] \notin RingSteps
  /\ use.ring > 0 => \A w \in Writers : pc[w] \notin DirectSteps \cup WaitSteps \cup CharSteps
  /\ isr.stuck => isr.on /\ waitBrk

\* Without a ring tx_mux excludes: between its taking and its giving a call is alone.
Alone == use.ring = 0 => \A w \in Writers : pc[w] \in Locked => mux = w

\* Without a ring: the interrupt is on only for a writer that waits, and that
\* writer finds the semaphore taken until the handler gives it.
RoomWait ==
  use.ring = 0 =>
    /\ emptyEna => waitFifo
    /\ waitFifo => ~fifoSem
    /\ \A w \in Writers :
         /\ pc[w] = "wr_arm" => waitFifo /\ ~emptyEna
         /\ pc[w] \in Filled => ~waitFifo /\ ~fifoSem

\* A wait that has taken out the old token finds a new one only once the FIFO has
\* run empty, and nobody leaves the interrupt on.
DoneWait ==
  /\ doneEna => mux \in Writers /\ pc[mux] \in {"wt_wait", "wt_disarm"}
  /\ \A w \in Writers :
       /\ pc[w] \in {"wt_check", "wt_arm"} => ~doneSem
       /\ pc[w] = "wt_wait" /\ (doneSem \/ doneRaw) => txFifo = << >>
       /\ pc[w] = "wt_wait" /\ doneSem => ~doneEna
  /\ DoneMeansSent

TxInv == TxTypes /\ Modes /\ Alone /\ RoomWait /\ DoneWait

\* It holds at first.
LEMMA TxInvInit == Init => TxInv
<1> SUFFICES ASSUME Init PROVE TxInv
  OBVIOUS
<1>1. TxTypes
  BY TxTypesInit
<1>2. Modes
  BY DEF Init, Modes, Asleep, RingSteps, DirectSteps, WaitSteps, CharSteps
<1>3. Alone /\ RoomWait /\ DoneWait
  BY DEF Init, Alone, RoomWait, Filled, DoneWait, DoneMeansSent, Locked, DirectSteps, WaitSteps
<1> QED BY <1>1, <1>2, <1>3 DEF TxInv

\* What a task does is seen at its own place only, and not while the handler runs.
LEMMA GotoLaws ==
  ASSUME TypeOK, NEW w \in Writers, NEW from, NEW to, Goto(w, from, to)
  PROVE  /\ ~isr.on /\ pc[w] = from /\ pc'[w] = to
         /\ \A v \in Writers : v # w => pc'[v] = pc[v]
  BY DEF Goto, TypeOK

\* The hardware: no control changes, the FIFO only empties, and TX_DONE is raised
\* as it does.
LEMMA TxInvHw == TxInv /\ Hw => TxInv'
<1> SUFFICES ASSUME TxInv, Hw PROVE TxInv'
  OBVIOUS
<1>1. TxTypes'
  BY TxTypesHw DEF TxInv
<1>2. /\ UNCHANGED <<use, pc, mux, brkFlg, waitBrk, fifoSem, waitFifo, doneSem, emptyEna, doneEna, isr>>
      /\ txFifo = << >> => txFifo' = << >>
      /\ doneRaw' => doneRaw \/ txFifo' = << >>
  <2>1. CASE SendByte
    <3>1. txFifo \in Seq(Byte \cup {Junk}) /\ txFifo # << >> /\ txFifo' = Tail(txFifo)
      BY <2>1, FifoLaws DEF SendByte, TxInv
    <3>2. Len(txFifo) = 1 => txFifo' = << >>
      BY ONLY <3>1
    <3> QED BY <2>1, <3>1, <3>2 DEF SendByte, taskVars, itemVars, semVars
  <2>2. CASE SendBreak
    BY <2>2 DEF SendBreak, taskVars, itemVars, semVars
  <2> QED BY <2>1, <2>2 DEF Hw
<1>3. Modes' /\ Alone' /\ RoomWait'
  BY <1>2 DEF TxInv, Modes, Alone, RoomWait
<1>4. DoneWait'
  BY <1>2 DEF TxInv, DoneWait, DoneMeansSent
<1> QED BY <1>1, <1>3, <1>4 DEF TxInv

\* The handler: without a ring it only gives semaphores, and TX_DONE is given only
\* to a wait.
LEMMA TxInvIsr == TxInv /\ Isr => TxInv'
<1> SUFFICES ASSUME TxInv, Isr PROVE TxInv'
  OBVIOUS
<1>1. TxTypes' /\ UNCHANGED <<use, pc, mux>> /\ use.ring \in Nat
  <2>1. UNCHANGED <<use, pc, mux>>
    BY DEF Isr, isr_stuck, isr_tx_wake, isr_tx_begin, isr_tx_event, isr_tx_item, isr_tx_fill,
           isr_tx_end, isr_brk_done, isr_tx_done, taskVars
  <2> QED BY <2>1, TxTypesIsr, UseLaws DEF TxInv, TxTypes, TypeOK
<1> USE <1>1 DEF TxInv, taskVars, itemVars, semVars, intVars, hwVars
<1>2. CASE isr_stuck
  <2>1. Modes' /\ Alone'
    BY <1>2, FifoLaws DEF isr_stuck, EmptyPending, Modes, Alone, RoomWait, Asleep
  <2>2. RoomWait'
    BY <1>2 DEF isr_stuck, Modes, RoomWait, Asleep
  <2>3. DoneWait'
    BY <1>2 DEF isr_stuck, Modes, DoneWait, DoneMeansSent, Asleep
  <2> QED BY <2>1, <2>2, <2>3
<1>3. CASE isr_tx_wake
  <2>1. Modes' /\ Alone'
    BY <1>3, FifoLaws DEF isr_tx_wake, Modes, Alone
  <2>2. RoomWait'
    BY <1>3 DEF isr_tx_wake, EmptyPending, Modes, RoomWait, Filled
  <2>3. DoneWait'
    BY <1>3 DEF isr_tx_wake, Modes, DoneWait, DoneMeansSent
  <2> QED BY <2>1, <2>2, <2>3
<1>4. CASE isr_tx_begin
  <2>1. Modes' /\ Alone'
    BY <1>4, FifoLaws DEF isr_tx_begin, Modes, Alone, Asleep
  <2>2. RoomWait'
    BY <1>4 DEF isr_tx_begin, Modes, RoomWait, Asleep
  <2>3. DoneWait'
    BY <1>4 DEF isr_tx_begin, Modes, DoneWait, DoneMeansSent, Asleep
  <2> QED BY <2>1, <2>2, <2>3
<1>5. CASE isr_tx_event
  <2>1. Modes' /\ Alone'
    BY <1>5, FifoLaws DEF isr_tx_event, Modes, Alone, Filling
  <2>2. RoomWait'
    BY <1>5 DEF isr_tx_event, Modes, RoomWait, Filling
  <2>3. DoneWait'
    BY <1>5 DEF isr_tx_event, Modes, DoneWait, DoneMeansSent, Filling
  <2> QED BY <2>1, <2>2, <2>3
<1>6. CASE isr_tx_item
  <2>1. Modes' /\ Alone'
    BY <1>6, FifoLaws DEF isr_tx_item, Modes, Alone, Filling
  <2>2. RoomWait'
    BY <1>6 DEF isr_tx_item, Modes, RoomWait, Filling
  <2>3. DoneWait'
    BY <1>6 DEF isr_tx_item, Modes, DoneWait, DoneMeansSent, Filling
  <2> QED BY <2>1, <2>2, <2>3
<1>7. CASE isr_tx_fill
  <2>1. Modes' /\ Alone'
    BY <1>7, FifoLaws DEF isr_tx_fill, Modes, Alone, Filling
  <2>2. RoomWait'
    BY <1>7 DEF isr_tx_fill, Modes, RoomWait, Filling
  <2>3. DoneWait'
    BY <1>7 DEF isr_tx_fill, Modes, DoneWait, DoneMeansSent, Filling, WaitSteps
  <2> QED BY <2>1, <2>2, <2>3
<1>8. CASE isr_tx_end
  <2>1. Modes' /\ Alone'
    BY <1>8, FifoLaws DEF isr_tx_end, Modes, Alone, Asleep
  <2>2. RoomWait'
    BY <1>8 DEF isr_tx_end, Modes, RoomWait, Asleep
  <2>3. DoneWait'
    BY <1>8 DEF isr_tx_end, Modes, DoneWait, DoneMeansSent, Asleep
  <2> QED BY <2>1, <2>2, <2>3
<1>9. CASE isr_brk_done
  <2>1. Modes' /\ Alone'
    BY <1>9, FifoLaws DEF isr_brk_done, Modes, Alone
  <2>2. RoomWait'
    BY <1>9 DEF isr_brk_done, Modes, RoomWait, Filled
  <2>3. DoneWait'
    BY <1>9 DEF isr_brk_done, Modes, DoneWait, DoneMeansSent
  <2> QED BY <2>1, <2>2, <2>3
<1>10. CASE isr_tx_done
  <2>1. Modes' /\ Alone'
    BY <1>10, FifoLaws DEF isr_tx_done, Modes, Alone, DonePending
  <2>2. RoomWait'
    BY <1>10 DEF isr_tx_done, Modes, RoomWait, DonePending
  <2>3. DoneWait'
    <3>1. mux \in Writers /\ pc[mux] \in {"wt_wait", "wt_disarm"} /\ doneRaw /\ ~doneEna'
      BY <1>10 DEF isr_tx_done, DonePending, DoneWait
    <3>2. use.ring = 0
      BY <3>1 DEF Modes, WaitSteps
    <3>3. \A w \in Writers : pc[w] \notin {"wt_check", "wt_arm"}
      BY <3>1, <3>2 DEF Alone, Locked, WaitSteps
    <3> QED BY <1>10, <3>1, <3>3 DEF isr_tx_done, DoneWait, DoneMeansSent
  <2> QED BY <2>1, <2>2, <2>3
<1> QED BY <1>2, <1>3, <1>4, <1>5, <1>6, <1>7, <1>8, <1>9, <1>10 DEF Isr

\* Where the next step of a task is, Modes still holds.
LEMMA ModesGoto ==
  ASSUME TxInv, NEW w \in Writers, NEW from, NEW to, Goto(w, from, to),
         UNCHANGED <<use, isr, brkFlg, waitBrk>>,
         use.ring = 0 => to \notin RingSteps,
         use.ring > 0 => to \notin DirectSteps \cup WaitSteps \cup CharSteps
  PROVE  Modes'
  BY GotoLaws DEF TxInv, TxTypes, Modes

\* tx_mux still excludes after a step that takes it when it is free, or is made
\* inside, or leaves.
LEMMA AloneGoto ==
  ASSUME TxInv, NEW w \in Writers, NEW from, NEW to, Goto(w, from, to), UNCHANGED use,
         \/ mux = NoTask /\ mux' = w
         \/ UNCHANGED mux /\ (from \in Locked \/ to \notin Locked)
         \/ from \in Locked /\ to \notin Locked
  PROVE  Alone'
  BY GotoLaws, TxAssumption DEF TxInv, TxTypes, Alone

\* The semaphore for room and the flag: nothing is said of a task elsewhere.
LEMMA RoomGoto ==
  ASSUME TxInv, NEW w \in Writers, NEW from, NEW to, Goto(w, from, to),
         UNCHANGED <<use, emptyEna, waitFifo, fifoSem>>,
         to # "wr_arm", to \in Filled => from \in Filled
  PROVE  RoomWait'
  BY GotoLaws DEF TxInv, TxTypes, RoomWait

\* TX_DONE is only waited for where there is no ring.
LEMMA NoWaitWithRing ==
  ASSUME TxInv, use.ring > 0
  PROVE  ~doneEna /\ \A w \in Writers : pc[w] \notin WaitSteps
  BY DEF TxInv, Modes, DoneWait, WaitSteps

\* A step outside a wait leaves the wait of another alone; only the holder of
\* tx_mux fills the FIFO.
LEMMA DoneGoto ==
  ASSUME TxInv, NEW w \in Writers, NEW from, NEW to, Goto(w, from, to),
         UNCHANGED <<use, doneEna, doneSem, doneRaw>>,
         from \notin {"wt_wait", "wt_disarm"},
         to \notin {"wt_check", "wt_arm", "wt_wait", "wt_give"},
         UNCHANGED mux \/ mux = NoTask \/ from \in Locked \cup RingSteps,
         UNCHANGED txFifo \/ from \in DirectSteps \cup {"tc_fill"}
  PROVE  DoneWait'
<1>1. use.ring \in Nat /\ TypeOK
  BY UseLaws DEF TxInv, TxTypes, TypeOK
<1>2. pc[w] = from /\ pc'[w] = to /\ \A v \in Writers : v # w => pc'[v] = pc[v]
  BY <1>1, GotoLaws
<1>3. doneEna => mux' = mux /\ mux \in Writers /\ pc'[mux] = pc[mux]
  <2>1. SUFFICES ASSUME doneEna PROVE mux' = mux /\ mux \in Writers /\ pc'[mux] = pc[mux]
    OBVIOUS
  <2>2. use.ring = 0
    BY <1>1, <2>1, NoWaitWithRing
  <2>3. mux \in Writers /\ pc[mux] \in {"wt_wait", "wt_disarm"} /\ mux # w
    BY <1>2, <2>1 DEF TxInv, DoneWait
  <2>4. pc[w] \notin Locked \cup RingSteps
    BY <2>2, <2>3 DEF TxInv, Alone, Modes
  <2> QED BY <1>2, <2>3, <2>4, TxAssumption
<1>4. \A v \in Writers : pc'[v] \in {"wt_wait", "wt_give"} => pc[v] = pc'[v] /\ UNCHANGED txFifo
  <2>1. SUFFICES ASSUME NEW v \in Writers, pc'[v] \in {"wt_wait", "wt_give"}
                 PROVE  pc[v] = pc'[v] /\ UNCHANGED txFifo
    OBVIOUS
  <2>2. v # w /\ pc[v] = pc'[v]
    BY <1>2, <2>1
  <2>3. use.ring = 0
    BY <1>1, <2>1, <2>2, NoWaitWithRing DEF WaitSteps
  <2>4. pc[w] \notin DirectSteps \cup {"tc_fill"}
    BY <2>1, <2>2, <2>3 DEF TxInv, Alone, Locked, WaitSteps
  <2> QED BY <1>2, <2>2, <2>4
<1>5. \A v \in Writers : pc'[v] \in {"wt_check", "wt_arm"} => pc[v] = pc'[v]
  BY <1>2
<1> QED BY <1>3, <1>4, <1>5 DEF TxInv, DoneWait, DoneMeansSent

\* The types hold after a step of a task.
LEMMA TxTypesTask ==
  ASSUME TxInv, NEW w \in Writers, Begin(w) \/ Step(w)
  PROVE  TxTypes'
  BY TxTypesBegin, TxTypesWrite, TxTypesData, TxTypesOther DEF TxInv, Step, WriteStep

\* A call begins.
LEMMA TxInvBegin ==
  ASSUME TxInv, NEW w \in Writers, Begin(w)
  PROVE  TxInv'
<1> DEFINE first == IF uart_tx_all(w) THEN "wr_take" ELSE IF uart_tx_chars(w) THEN "tc_take" ELSE "wt_take"
<1>1. /\ Goto(w, "idle", first)
      /\ UNCHANGED <<use, mux, brkFlg, waitBrk, isr, emptyEna, waitFifo, fifoSem, doneEna, doneSem, doneRaw, txFifo>>
      /\ first \in {"tc_take", "wt_take"} => use.ring = 0
  BY DEF Begin, uart_tx_all, uart_tx_chars, uart_wait_tx_done, Call, itemVars, semVars, intVars, hwVars
<1>2. first \in {"wr_take", "tc_take", "wt_take"}
  OBVIOUS
<1> HIDE DEF first
<1>3. Modes'
  BY <1>1, <1>2, ModesGoto DEF RingSteps, DirectSteps, WaitSteps, CharSteps
<1>4. Alone'
  BY <1>1, <1>2, AloneGoto DEF Locked, DirectSteps, WaitSteps
<1>5. RoomWait'
  BY <1>1, <1>2, RoomGoto DEF Filled
<1>6. DoneWait'
  BY <1>1, <1>2, DoneGoto
<1> QED BY <1>3, <1>4, <1>5, <1>6, TxTypesTask DEF TxInv

\* A write before and after the filling, and with a ring.
LEMMA TxInvRing ==
  ASSUME TxInv, NEW w \in Writers,
         wr_take(w) \/ wr_event(w) \/ wr_data(w) \/ wr_enable(w) \/ wr_give(w) \/ wr_last(w)
  PROVE  TxInv'
<1> USE DEF itemVars, semVars, intVars, hwVars
<1>1. CASE wr_take(w)
  <2>1. PICK to \in {"wr_event", "wr_sem"} : Goto(w, "wr_take", to)
    BY <1>1 DEF wr_take, Take
  <2>2. Modes'
    BY <1>1, <2>1, ModesGoto, GotoLaws DEF wr_take, TxInv, TxTypes, Modes, RingSteps, DirectSteps, WaitSteps, CharSteps, Take
  <2>3. Alone'
    BY <1>1, <2>1, AloneGoto, GotoLaws DEF wr_take, TxInv, TxTypes, Modes, Alone, Locked, RingSteps, DirectSteps, WaitSteps, CharSteps, Take
  <2>4. RoomWait'
    BY <1>1, <2>1, RoomGoto DEF wr_take, Filled, Take
  <2>5. DoneWait'
    BY <1>1, <2>1, DoneGoto DEF wr_take, Locked, RingSteps, DirectSteps, WaitSteps, Take
  <2> QED BY <2>2, <2>3, <2>4, <2>5, TxTypesTask DEF TxInv, Step, WriteStep, WaitStep
<1>2. CASE wr_event(w)
  <2>1. Goto(w, "wr_event", "wr_data")
    BY <1>2 DEF wr_event
  <2>2. Modes'
    BY <1>2, <2>1, ModesGoto, GotoLaws DEF wr_event, TxInv, TxTypes, Modes, RingSteps, DirectSteps, WaitSteps, CharSteps
  <2>3. Alone'
    BY <1>2, <2>1, AloneGoto, GotoLaws DEF wr_event, TxInv, TxTypes, Modes, Alone, Locked, RingSteps, DirectSteps, WaitSteps, CharSteps
  <2>4. RoomWait'
    BY <1>2, <2>1, RoomGoto DEF wr_event, Filled
  <2>5. DoneWait'
    BY <1>2, <2>1, DoneGoto DEF wr_event, Locked, RingSteps, DirectSteps, WaitSteps
  <2> QED BY <2>2, <2>3, <2>4, <2>5, TxTypesTask DEF TxInv, Step, WriteStep, WaitStep
<1>3. CASE wr_data(w)
  <2>1. Goto(w, "wr_data", "wr_enable")
    BY <1>3 DEF wr_data
  <2>2. Modes'
    BY <1>3, <2>1, ModesGoto, GotoLaws DEF wr_data, TxInv, TxTypes, Modes, RingSteps, DirectSteps, WaitSteps, CharSteps
  <2>3. Alone'
    BY <1>3, <2>1, AloneGoto, GotoLaws DEF wr_data, TxInv, TxTypes, Modes, Alone, Locked, RingSteps, DirectSteps, WaitSteps, CharSteps
  <2>4. RoomWait'
    BY <1>3, <2>1, RoomGoto DEF wr_data, Filled
  <2>5. DoneWait'
    BY <1>3, <2>1, DoneGoto DEF wr_data, Locked, RingSteps, DirectSteps, WaitSteps
  <2> QED BY <2>2, <2>3, <2>4, <2>5, TxTypesTask DEF TxInv, Step, WriteStep, WaitStep
<1>4. CASE wr_enable(w)
  <2>1. PICK to \in {"wr_give", "wr_data"} : Goto(w, "wr_enable", to)
    BY <1>4 DEF wr_enable
  <2>2. Modes'
    BY <1>4, <2>1, ModesGoto, GotoLaws DEF wr_enable, TxInv, TxTypes, Modes, RingSteps, DirectSteps, WaitSteps, CharSteps
  <2>3. Alone'
    BY <1>4, <2>1, AloneGoto, GotoLaws DEF wr_enable, TxInv, TxTypes, Modes, Alone, Locked, RingSteps, DirectSteps, WaitSteps, CharSteps
  <2>4. RoomWait'
    BY <1>4, <2>1, GotoLaws DEF wr_enable, TxInv, TxTypes, Modes, Alone, RoomWait, Filled, Locked, RingSteps, DirectSteps, WaitSteps, CharSteps
  <2>5. DoneWait'
    BY <1>4, <2>1, DoneGoto DEF wr_enable, Locked, RingSteps, DirectSteps, WaitSteps
  <2> QED BY <2>2, <2>3, <2>4, <2>5, TxTypesTask DEF TxInv, Step, WriteStep, WaitStep
<1>5. CASE wr_give(w)
  <2>1. Goto(w, "wr_give", "wr_last")
    BY <1>5 DEF wr_give
  <2>2. Modes'
    BY <1>5, <2>1, ModesGoto, GotoLaws DEF wr_give, TxInv, TxTypes, Modes, RingSteps, DirectSteps, WaitSteps, CharSteps
  <2>3. Alone'
    BY <1>5, <2>1, AloneGoto, GotoLaws DEF wr_give, TxInv, TxTypes, Modes, Alone, Locked, RingSteps, DirectSteps, WaitSteps, CharSteps
  <2>4. RoomWait'
    BY <1>5, <2>1, RoomGoto DEF wr_give, Filled
  <2>5. DoneWait'
    BY <1>5, <2>1, DoneGoto DEF wr_give, Locked, RingSteps, DirectSteps, WaitSteps
  <2> QED BY <2>2, <2>3, <2>4, <2>5, TxTypesTask DEF TxInv, Step, WriteStep, WaitStep
<1>6. CASE wr_last(w)
  <2>1. Goto(w, "wr_last", "idle")
    BY <1>6 DEF wr_last
  <2>2. Modes'
    BY <1>6, <2>1, ModesGoto, GotoLaws DEF wr_last, TxInv, TxTypes, Modes, RingSteps, DirectSteps, WaitSteps, CharSteps
  <2>3. Alone'
    BY <1>6, <2>1, AloneGoto, GotoLaws DEF wr_last, TxInv, TxTypes, Modes, Alone, Locked, RingSteps, DirectSteps, WaitSteps, CharSteps
  <2>4. RoomWait'
    BY <1>6, <2>1, RoomGoto DEF wr_last, Filled
  <2>5. DoneWait'
    BY <1>6, <2>1, DoneGoto DEF wr_last, Locked, RingSteps, DirectSteps, WaitSteps
  <2> QED BY <2>2, <2>3, <2>4, <2>5, TxTypesTask DEF TxInv, Step, WriteStep, WaitStep
<1> QED BY <1>1, <1>2, <1>3, <1>4, <1>5, <1>6

\* A write that fills the FIFO itself.
LEMMA TxInvDirect ==
  ASSUME TxInv, NEW w \in Writers,
         wr_sem(w) \/ wr_fill(w) \/ wr_arm(w) \/ wr_break(w) \/ wr_brksem(w) \/ wr_semgive(w)
  PROVE  TxInv'
<1> USE DEF itemVars, semVars, intVars, hwVars
<1>1. CASE wr_sem(w)
  <2>1. Goto(w, "wr_sem", "wr_fill")
    BY <1>1 DEF wr_sem
  <2>2. Modes'
    BY <1>1, <2>1, ModesGoto, GotoLaws DEF wr_sem, TxInv, TxTypes, Modes, RingSteps, DirectSteps, WaitSteps, CharSteps
  <2>3. Alone'
    BY <1>1, <2>1, AloneGoto, GotoLaws DEF wr_sem, TxInv, TxTypes, Modes, Alone, Locked, RingSteps, DirectSteps, WaitSteps, CharSteps
  <2>4. RoomWait'
    BY <1>1, <2>1, GotoLaws DEF wr_sem, TxInv, TxTypes, Modes, Alone, RoomWait, Filled, Locked, RingSteps, DirectSteps, WaitSteps, CharSteps
  <2>5. DoneWait'
    BY <1>1, <2>1, DoneGoto DEF wr_sem, Locked, RingSteps, DirectSteps, WaitSteps
  <2> QED BY <2>2, <2>3, <2>4, <2>5, TxTypesTask DEF TxInv, Step, WriteStep, WaitStep
<1>2. CASE wr_fill(w)
  <2>1. PICK to \in {"wr_arm", "wr_break", "wr_semgive"} : Goto(w, "wr_fill", to)
    BY <1>2 DEF wr_fill
  <2>2. Modes'
    BY <1>2, <2>1, ModesGoto, GotoLaws DEF wr_fill, TxInv, TxTypes, Modes, RingSteps, DirectSteps, WaitSteps, CharSteps
  <2>3. Alone'
    BY <1>2, <2>1, AloneGoto, GotoLaws DEF wr_fill, TxInv, TxTypes, Modes, Alone, Locked, RingSteps, DirectSteps, WaitSteps, CharSteps
  <2>4. RoomWait'
    <3>1. PICK short \in BOOLEAN :
            /\ Goto(w, "wr_fill", IF short THEN "wr_arm" ELSE IF brk[w] THEN "wr_break" ELSE "wr_semgive")
            /\ waitFifo' = (waitFifo \/ short)
      <4> DEFINE short == MinOf(Len(rest[w]), FifoRoom) < Len(rest[w])
      <4>1. /\ Goto(w, "wr_fill", IF short THEN "wr_arm" ELSE IF brk[w] THEN "wr_break" ELSE "wr_semgive")
            /\ waitFifo' = (waitFifo \/ short)
        BY <1>2 DEF wr_fill, Waiting
      <4>2. short \in BOOLEAN
        OBVIOUS
      <4> HIDE DEF short
      <4> QED BY <4>1, <4>2
    <3>2. /\ UNCHANGED <<use, emptyEna, fifoSem>> /\ pc[w] = "wr_fill"
          /\ pc'[w] = "wr_arm" <=> short
          /\ \A v \in Writers : v # w => pc'[v] = pc[v]
      BY <1>2, <3>1, GotoLaws DEF wr_fill, TxInv, TxTypes
    <3>3. use.ring = 0 => ~waitFifo /\ ~fifoSem /\ ~emptyEna
      BY <3>2 DEF TxInv, RoomWait, Filled
    <3>4. use.ring = 0 => \A v \in Writers : v # w => pc[v] \notin Filled \cup {"wr_arm"}
      BY <3>2 DEF TxInv, Alone, Filled, Locked, DirectSteps
    <3> QED BY <3>1, <3>2, <3>3, <3>4 DEF TxInv, RoomWait, Filled
  <2>5. DoneWait'
    BY <1>2, <2>1, DoneGoto DEF wr_fill, Locked, RingSteps, DirectSteps, WaitSteps
  <2> QED BY <2>2, <2>3, <2>4, <2>5, TxTypesTask DEF TxInv, Step, WriteStep, WaitStep
<1>3. CASE wr_arm(w)
  <2>1. Goto(w, "wr_arm", "wr_sem")
    BY <1>3 DEF wr_arm
  <2>2. Modes'
    BY <1>3, <2>1, ModesGoto, GotoLaws DEF wr_arm, TxInv, TxTypes, Modes, RingSteps, DirectSteps, WaitSteps, CharSteps
  <2>3. Alone'
    BY <1>3, <2>1, AloneGoto, GotoLaws DEF wr_arm, TxInv, TxTypes, Modes, Alone, Locked, RingSteps, DirectSteps, WaitSteps, CharSteps
  <2>4. RoomWait'
    BY <1>3, <2>1, GotoLaws DEF wr_arm, TxInv, TxTypes, Modes, Alone, RoomWait, Filled, Locked, RingSteps, DirectSteps, WaitSteps, CharSteps
  <2>5. DoneWait'
    BY <1>3, <2>1, DoneGoto DEF wr_arm, Locked, RingSteps, DirectSteps, WaitSteps
  <2> QED BY <2>2, <2>3, <2>4, <2>5, TxTypesTask DEF TxInv, Step, WriteStep, WaitStep
<1>4. CASE wr_break(w)
  <2>1. Goto(w, "wr_break", "wr_brksem")
    BY <1>4 DEF wr_break
  <2>2. Modes'
    BY <1>4, <2>1, ModesGoto, GotoLaws DEF wr_break, TxInv, TxTypes, Modes, RingSteps, DirectSteps, WaitSteps, CharSteps
  <2>3. Alone'
    BY <1>4, <2>1, AloneGoto, GotoLaws DEF wr_break, TxInv, TxTypes, Modes, Alone, Locked, RingSteps, DirectSteps, WaitSteps, CharSteps
  <2>4. RoomWait'
    BY <1>4, <2>1, RoomGoto DEF wr_break, Filled
  <2>5. DoneWait'
    BY <1>4, <2>1, DoneGoto DEF wr_break, Locked, RingSteps, DirectSteps, WaitSteps
  <2> QED BY <2>2, <2>3, <2>4, <2>5, TxTypesTask DEF TxInv, Step, WriteStep, WaitStep
<1>5. CASE wr_brksem(w)
  <2>1. Goto(w, "wr_brksem", "wr_semgive")
    BY <1>5 DEF wr_brksem
  <2>2. Modes'
    BY <1>5, <2>1, ModesGoto, GotoLaws DEF wr_brksem, TxInv, TxTypes, Modes, RingSteps, DirectSteps, WaitSteps, CharSteps
  <2>3. Alone'
    BY <1>5, <2>1, AloneGoto, GotoLaws DEF wr_brksem, TxInv, TxTypes, Modes, Alone, Locked, RingSteps, DirectSteps, WaitSteps, CharSteps
  <2>4. RoomWait'
    BY <1>5, <2>1, RoomGoto DEF wr_brksem, Filled
  <2>5. DoneWait'
    BY <1>5, <2>1, DoneGoto DEF wr_brksem, Locked, RingSteps, DirectSteps, WaitSteps
  <2> QED BY <2>2, <2>3, <2>4, <2>5, TxTypesTask DEF TxInv, Step, WriteStep, WaitStep
<1>6. CASE wr_semgive(w)
  <2>1. Goto(w, "wr_semgive", "wr_last")
    BY <1>6 DEF wr_semgive
  <2>2. Modes'
    BY <1>6, <2>1, ModesGoto, GotoLaws DEF wr_semgive, TxInv, TxTypes, Modes, RingSteps, DirectSteps, WaitSteps, CharSteps
  <2>3. Alone'
    BY <1>6, <2>1, AloneGoto, GotoLaws DEF wr_semgive, TxInv, TxTypes, Modes, Alone, Locked, RingSteps, DirectSteps, WaitSteps, CharSteps
  <2>4. RoomWait'
    BY <1>6, <2>1, GotoLaws DEF wr_semgive, TxInv, TxTypes, Modes, Alone, RoomWait, Filled, Locked, RingSteps, DirectSteps, WaitSteps, CharSteps
  <2>5. DoneWait'
    BY <1>6, <2>1, DoneGoto DEF wr_semgive, Locked, RingSteps, DirectSteps, WaitSteps
  <2> QED BY <2>2, <2>3, <2>4, <2>5, TxTypesTask DEF TxInv, Step, WriteStep, WaitStep
<1> QED BY <1>1, <1>2, <1>3, <1>4, <1>5, <1>6

\* A wait, and a single character.
LEMMA TxInvOther ==
  ASSUME TxInv, NEW w \in Writers,
         wt_take(w) \/ wt_take_timeout(w) \/ wt_stale(w) \/ wt_check(w) \/ wt_arm(w) \/ wt_wait(w) \/ wt_wait_timeout(w) \/ wt_disarm(w) \/ wt_give(w) \/ tc_take(w) \/ tc_fill(w)
  PROVE  TxInv'
<1> USE DEF itemVars, semVars, intVars, hwVars
<1>1. CASE wt_take(w)
  <2>1. Goto(w, "wt_take", "wt_stale")
    BY <1>1 DEF wt_take, Take
  <2>2. Modes'
    BY <1>1, <2>1, ModesGoto, GotoLaws DEF wt_take, TxInv, TxTypes, Modes, RingSteps, DirectSteps, WaitSteps, CharSteps, Take
  <2>3. Alone'
    BY <1>1, <2>1, AloneGoto, GotoLaws DEF wt_take, TxInv, TxTypes, Modes, Alone, Locked, RingSteps, DirectSteps, WaitSteps, CharSteps, Take
  <2>4. RoomWait'
    BY <1>1, <2>1, RoomGoto DEF wt_take, Filled, Take
  <2>5. DoneWait'
    BY <1>1, <2>1, DoneGoto DEF wt_take, Locked, RingSteps, DirectSteps, WaitSteps, Take
  <2> QED BY <2>2, <2>3, <2>4, <2>5, TxTypesTask DEF TxInv, Step, WriteStep, WaitStep
<1>2. CASE wt_take_timeout(w)
  <2>1. Goto(w, "wt_take", "idle")
    BY <1>2 DEF wt_take_timeout
  <2>2. Modes'
    BY <1>2, <2>1, ModesGoto, GotoLaws DEF wt_take_timeout, TxInv, TxTypes, Modes, RingSteps, DirectSteps, WaitSteps, CharSteps
  <2>3. Alone'
    BY <1>2, <2>1, AloneGoto, GotoLaws DEF wt_take_timeout, TxInv, TxTypes, Modes, Alone, Locked, RingSteps, DirectSteps, WaitSteps, CharSteps
  <2>4. RoomWait'
    BY <1>2, <2>1, RoomGoto DEF wt_take_timeout, Filled
  <2>5. DoneWait'
    BY <1>2, <2>1, DoneGoto DEF wt_take_timeout, Locked, RingSteps, DirectSteps, WaitSteps
  <2> QED BY <2>2, <2>3, <2>4, <2>5, TxTypesTask DEF TxInv, Step, WriteStep, WaitStep
<1>3. CASE wt_stale(w)
  <2>1. Goto(w, "wt_stale", "wt_check")
    BY <1>3 DEF wt_stale, Stale
  <2>2. Modes'
    BY <1>3, <2>1, ModesGoto, GotoLaws DEF wt_stale, TxInv, TxTypes, Modes, RingSteps, DirectSteps, WaitSteps, CharSteps, Stale
  <2>3. Alone'
    BY <1>3, <2>1, AloneGoto, GotoLaws DEF wt_stale, TxInv, TxTypes, Modes, Alone, Locked, RingSteps, DirectSteps, WaitSteps, CharSteps, Stale
  <2>4. RoomWait'
    BY <1>3, <2>1, RoomGoto DEF wt_stale, Filled, Stale
  <2>5. DoneWait'
    BY <1>3, <2>1, GotoLaws DEF wt_stale, TxInv, TxTypes, Modes, Alone, DoneWait, DoneMeansSent, Locked, RingSteps, DirectSteps, WaitSteps, CharSteps, Stale
  <2> QED BY <2>2, <2>3, <2>4, <2>5, TxTypesTask DEF TxInv, Step, WriteStep, WaitStep
<1>4. CASE wt_check(w)
  <2>1. PICK to \in {"wt_give", "wt_arm"} : Goto(w, "wt_check", to)
    BY <1>4 DEF wt_check
  <2>2. Modes'
    BY <1>4, <2>1, ModesGoto, GotoLaws DEF wt_check, TxInv, TxTypes, Modes, RingSteps, DirectSteps, WaitSteps, CharSteps
  <2>3. Alone'
    BY <1>4, <2>1, AloneGoto, GotoLaws DEF wt_check, TxInv, TxTypes, Modes, Alone, Locked, RingSteps, DirectSteps, WaitSteps, CharSteps
  <2>4. RoomWait'
    BY <1>4, <2>1, RoomGoto DEF wt_check, Filled
  <2>5. DoneWait'
    BY <1>4, <2>1, GotoLaws DEF wt_check, TxInv, TxTypes, Modes, Alone, DoneWait, DoneMeansSent, Locked, RingSteps, DirectSteps, WaitSteps, CharSteps
  <2> QED BY <2>2, <2>3, <2>4, <2>5, TxTypesTask DEF TxInv, Step, WriteStep, WaitStep
<1>5. CASE wt_arm(w)
  <2>1. Goto(w, "wt_arm", "wt_wait")
    BY <1>5 DEF wt_arm
  <2>2. Modes'
    BY <1>5, <2>1, ModesGoto, GotoLaws DEF wt_arm, TxInv, TxTypes, Modes, RingSteps, DirectSteps, WaitSteps, CharSteps
  <2>3. Alone'
    BY <1>5, <2>1, AloneGoto, GotoLaws DEF wt_arm, TxInv, TxTypes, Modes, Alone, Locked, RingSteps, DirectSteps, WaitSteps, CharSteps
  <2>4. RoomWait'
    BY <1>5, <2>1, RoomGoto DEF wt_arm, Filled
  <2>5. DoneWait'
    <3>1. /\ UNCHANGED <<mux, doneSem, txFifo>> /\ pc[w] = "wt_arm" /\ pc'[w] = "wt_wait"
          /\ \A v \in Writers : v # w => pc'[v] = pc[v]
      BY <1>5, <2>1, GotoLaws DEF wt_arm, TxInv, TxTypes
    <3>2. ~doneSem /\ ~doneRaw'
      BY <1>5, <3>1 DEF wt_arm, TxInv, DoneWait
    <3>3. mux = w /\ \A v \in Writers : v # w => pc[v] \notin Locked
      <4>1. use.ring = 0
        BY <3>1, UseLaws, NoWaitWithRing DEF TxInv, TxTypes, TypeOK, WaitSteps
      <4> QED BY <3>1, <4>1 DEF TxInv, Alone, Locked, WaitSteps
    <3> QED BY <3>1, <3>2, <3>3 DEF DoneWait, DoneMeansSent, Locked, WaitSteps
  <2> QED BY <2>2, <2>3, <2>4, <2>5, TxTypesTask DEF TxInv, Step, WriteStep, WaitStep
<1>6. CASE wt_wait(w)
  <2>1. Goto(w, "wt_wait", "wt_give")
    BY <1>6 DEF wt_wait
  <2>2. Modes'
    BY <1>6, <2>1, ModesGoto, GotoLaws DEF wt_wait, TxInv, TxTypes, Modes, RingSteps, DirectSteps, WaitSteps, CharSteps
  <2>3. Alone'
    BY <1>6, <2>1, AloneGoto, GotoLaws DEF wt_wait, TxInv, TxTypes, Modes, Alone, Locked, RingSteps, DirectSteps, WaitSteps, CharSteps
  <2>4. RoomWait'
    BY <1>6, <2>1, RoomGoto DEF wt_wait, Filled
  <2>5. DoneWait'
    BY <1>6, <2>1, GotoLaws DEF wt_wait, TxInv, TxTypes, Modes, Alone, DoneWait, DoneMeansSent, Locked, RingSteps, DirectSteps, WaitSteps, CharSteps
  <2> QED BY <2>2, <2>3, <2>4, <2>5, TxTypesTask DEF TxInv, Step, WriteStep, WaitStep
<1>7. CASE wt_wait_timeout(w)
  <2>1. Goto(w, "wt_wait", "wt_disarm")
    BY <1>7 DEF wt_wait_timeout
  <2>2. Modes'
    BY <1>7, <2>1, ModesGoto, GotoLaws DEF wt_wait_timeout, TxInv, TxTypes, Modes, RingSteps, DirectSteps, WaitSteps, CharSteps
  <2>3. Alone'
    BY <1>7, <2>1, AloneGoto, GotoLaws DEF wt_wait_timeout, TxInv, TxTypes, Modes, Alone, Locked, RingSteps, DirectSteps, WaitSteps, CharSteps
  <2>4. RoomWait'
    BY <1>7, <2>1, RoomGoto DEF wt_wait_timeout, Filled
  <2>5. DoneWait'
    BY <1>7, <2>1, GotoLaws DEF wt_wait_timeout, TxInv, TxTypes, Modes, Alone, DoneWait, DoneMeansSent, Locked, RingSteps, DirectSteps, WaitSteps, CharSteps
  <2> QED BY <2>2, <2>3, <2>4, <2>5, TxTypesTask DEF TxInv, Step, WriteStep, WaitStep
<1>8. CASE wt_disarm(w)
  <2>1. Goto(w, "wt_disarm", "idle")
    BY <1>8 DEF wt_disarm
  <2>2. Modes'
    BY <1>8, <2>1, ModesGoto, GotoLaws DEF wt_disarm, TxInv, TxTypes, Modes, RingSteps, DirectSteps, WaitSteps, CharSteps
  <2>3. Alone'
    BY <1>8, <2>1, AloneGoto, GotoLaws DEF wt_disarm, TxInv, TxTypes, Modes, Alone, Locked, RingSteps, DirectSteps, WaitSteps, CharSteps
  <2>4. RoomWait'
    BY <1>8, <2>1, RoomGoto DEF wt_disarm, Filled
  <2>5. DoneWait'
    BY <1>8, <2>1, GotoLaws DEF wt_disarm, TxInv, TxTypes, Modes, Alone, DoneWait, DoneMeansSent, Locked, RingSteps, DirectSteps, WaitSteps, CharSteps
  <2> QED BY <2>2, <2>3, <2>4, <2>5, TxTypesTask DEF TxInv, Step, WriteStep, WaitStep
<1>9. CASE wt_give(w)
  <2>1. Goto(w, "wt_give", "idle")
    BY <1>9 DEF wt_give
  <2>2. Modes'
    BY <1>9, <2>1, ModesGoto, GotoLaws DEF wt_give, TxInv, TxTypes, Modes, RingSteps, DirectSteps, WaitSteps, CharSteps
  <2>3. Alone'
    BY <1>9, <2>1, AloneGoto, GotoLaws DEF wt_give, TxInv, TxTypes, Modes, Alone, Locked, RingSteps, DirectSteps, WaitSteps, CharSteps
  <2>4. RoomWait'
    BY <1>9, <2>1, RoomGoto DEF wt_give, Filled
  <2>5. DoneWait'
    BY <1>9, <2>1, DoneGoto DEF wt_give, Locked, RingSteps, DirectSteps, WaitSteps
  <2> QED BY <2>2, <2>3, <2>4, <2>5, TxTypesTask DEF TxInv, Step, WriteStep, WaitStep
<1>10. CASE tc_take(w)
  <2>1. Goto(w, "tc_take", "tc_fill")
    BY <1>10 DEF tc_take, Take
  <2>2. Modes'
    BY <1>10, <2>1, ModesGoto, GotoLaws DEF tc_take, TxInv, TxTypes, Modes, RingSteps, DirectSteps, WaitSteps, CharSteps, Take
  <2>3. Alone'
    BY <1>10, <2>1, AloneGoto, GotoLaws DEF tc_take, TxInv, TxTypes, Modes, Alone, Locked, RingSteps, DirectSteps, WaitSteps, CharSteps, Take
  <2>4. RoomWait'
    BY <1>10, <2>1, RoomGoto DEF tc_take, Filled, Take
  <2>5. DoneWait'
    BY <1>10, <2>1, DoneGoto DEF tc_take, Locked, RingSteps, DirectSteps, WaitSteps, Take
  <2> QED BY <2>2, <2>3, <2>4, <2>5, TxTypesTask DEF TxInv, Step, WriteStep, WaitStep
<1>11. CASE tc_fill(w)
  <2>1. Goto(w, "tc_fill", "idle")
    BY <1>11 DEF tc_fill
  <2>2. Modes'
    BY <1>11, <2>1, ModesGoto, GotoLaws DEF tc_fill, TxInv, TxTypes, Modes, RingSteps, DirectSteps, WaitSteps, CharSteps
  <2>3. Alone'
    BY <1>11, <2>1, AloneGoto, GotoLaws DEF tc_fill, TxInv, TxTypes, Modes, Alone, Locked, RingSteps, DirectSteps, WaitSteps, CharSteps
  <2>4. RoomWait'
    BY <1>11, <2>1, RoomGoto DEF tc_fill, Filled
  <2>5. DoneWait'
    BY <1>11, <2>1, DoneGoto DEF tc_fill, Locked, RingSteps, DirectSteps, WaitSteps
  <2> QED BY <2>2, <2>3, <2>4, <2>5, TxTypesTask DEF TxInv, Step, WriteStep, WaitStep
<1> QED BY <1>1, <1>2, <1>3, <1>4, <1>5, <1>6, <1>7, <1>8, <1>9, <1>10, <1>11

\* Every step keeps the invariant.
LEMMA TxInvNext == TxInv /\ [Next]_vars => TxInv'
<1> SUFFICES ASSUME TxInv, [Next]_vars PROVE TxInv'
  OBVIOUS
<1>1. CASE UNCHANGED vars
  <2>1. TxTypes'
    BY <1>1, TxTypesNext DEF TxInv
  <2> QED BY <1>1, <2>1 DEF vars, taskVars, itemVars, semVars, intVars, hwVars, TxInv, Modes,
             Alone, RoomWait, DoneWait, DoneMeansSent
<1>2. CASE Hw \/ Isr
  BY <1>2, TxInvHw, TxInvIsr
<1>3. ASSUME NEW w \in Writers, Begin(w) \/ Step(w) PROVE TxInv'
  BY <1>3, TxInvBegin, TxInvRing, TxInvDirect, TxInvOther DEF Step, WriteStep, WaitStep
<1> QED BY <1>1, <1>2, <1>3 DEF Next

\* It holds in every state.
LEMMA TxInvAlways == Spec => []TxInv
  BY TxInvInit, TxInvNext, PTL DEF Spec

\* Without a ring, from the taking of tx_mux to its giving, no other call is
\* between its own taking and giving: a write, a single character or a wait.
THEOREM TxMuxExcludes == Spec => []Alone
<1>1. TxInv => Alone
  BY DEF TxInv
<1> QED BY <1>1, TxInvAlways, PTL

\* UartTx.DoneMeansSent: uart_wait_tx_done succeeds only with an empty transmit
\* FIFO, whatever earlier waits timed out and left in tx_done_sem.
THEOREM WaitMeansSent == Spec => []DoneMeansSent
<1>1. TxInv => DoneMeansSent
  BY DEF TxInv, DoneWait
<1> QED BY <1>1, TxInvAlways, PTL

\* UartTx.WaiterKnown: if the handler spins on the "empty" interrupt, it is for a
\* break that is awaited; a port without a ring never gets there.
THEOREM SpinsForBreakOnly == Spec => [](WaiterKnown /\ (use.ring = 0 => HandlerReturns))
<1>1. TxInv => WaiterKnown /\ (use.ring = 0 => HandlerReturns)
  BY DEF TxInv, Modes, WaiterKnown, HandlerReturns
<1> QED BY <1>1, TxInvAlways, PTL

-----------------------------------------------------------------------------
(* What leaves a port without a ring.                                      *)

\* The line: s was sent last, f waits in the FIFO.  What is behind it all, and
\* that each element may follow the one before.
LastOf(s, f)  == IF f = << >> THEN s ELSE f[Len(f)]
InOrder(s, f) == /\ f \in Seq(Byte)
                 /\ f # << >> => Follows(s, f[1])
                 /\ \A j \in 1 .. Len(f) - 1 : Follows(f[j], f[j + 1])
Last == LastOf(sym, txFifo)

\* A new call may follow s.
Ready(s) == ~(s \in Byte /\ (s.i < s.n \/ (s.i = s.n /\ s.b)))

\* s is the end of a call of w: the whole of it, a part or nothing.
EndOfCall(w, s, b) ==
  \E n \in 1 .. MaxSize :
    /\ Len(s) <= n
    /\ \A j \in 1 .. Len(s) : s[j] = [w |-> w, i |-> (n - Len(s)) + j, n |-> n, b |-> b]

\* A call may follow what is ready, a break included.
LEMMA ReadyLaws ==
  /\ \A s, x : Ready(s) /\ x \in Byte /\ x.i = 1 => Follows(s, x)
  /\ Ready(Break) /\ Ready(Start)
<1>1. Break \notin Byte /\ Start \notin Byte
  BY TxAssumption DEF Break, Start, Other, Byte
<1>2. ASSUME NEW s, NEW x, Ready(s), x \in Byte, x.i = 1 PROVE Follows(s, x)
  BY <1>2 DEF Ready, Follows
<1> QED BY <1>1, <1>2 DEF Ready

\* Inside a call the next byte follows; behind its end the break, or another call.
LEMMA CallLaws ==
  ASSUME NEW w \in Writers, NEW n \in 1 .. MaxSize, NEW b \in BOOLEAN
  PROVE  /\ \A i \in 1 .. n - 1 : Follows([w |-> w, i |-> i, n |-> n, b |-> b],
                                          [w |-> w, i |-> i + 1, n |-> n, b |-> b])
         /\ b => Follows([w |-> w, i |-> n, n |-> n, b |-> b], Break)
         /\ ~b => Ready([w |-> w, i |-> n, n |-> n, b |-> b])
<1>1. \A i \in 1 .. n : [w |-> w, i |-> i, n |-> n, b |-> b] \in Byte
  BY TxAssumption DEF Byte
<1>2. ASSUME NEW i \in 1 .. n - 1
      PROVE  Follows([w |-> w, i |-> i, n |-> n, b |-> b], [w |-> w, i |-> i + 1, n |-> n, b |-> b])
  BY <1>1, TxAssumption DEF Follows
<1>3. b => Follows([w |-> w, i |-> n, n |-> n, b |-> b], Break)
  BY <1>1, TxAssumption DEF Follows
<1>4. ~b => Ready([w |-> w, i |-> n, n |-> n, b |-> b])
  BY DEF Ready
<1> QED BY <1>2, <1>3, <1>4

\* Only the empty sequence has no elements.
LEMMA EmptyLen ==
  ASSUME NEW f \in Seq(Byte)
  PROVE  Len(f) \in Nat /\ (f = << >> <=> Len(f) = 0)
  OBVIOUS

\* A byte leaves: the order and what is behind it stay.
LEMMA LineShift ==
  ASSUME NEW s, NEW f, InOrder(s, f), f # << >>
  PROVE  InOrder(Head(f), Tail(f)) /\ LastOf(Head(f), Tail(f)) = LastOf(s, f)
<1>1. f \in Seq(Byte) /\ Head(f) = f[1] /\ Tail(f) \in Seq(Byte) /\ Len(Tail(f)) = Len(f) - 1
  BY DEF InOrder
<1>2. \A j \in 1 .. Len(f) - 1 : Tail(f)[j] = f[j + 1]
  BY <1>1
<1>3. Len(f) \in Nat /\ Len(f) > 0 /\ (Tail(f) = << >> <=> Len(f) = 1)
  <2>1. Len(f) \in Nat /\ (f = << >> <=> Len(f) = 0)
    BY <1>1, EmptyLen
  <2>2. Tail(f) = << >> <=> Len(Tail(f)) = 0
    BY <1>1, EmptyLen
  <2> QED BY ONLY <1>1, <2>1, <2>2, f # << >>
<1>4. Tail(f) # << >> => Follows(Head(f), Tail(f)[1])
  BY <1>1, <1>2, <1>3 DEF InOrder
<1>5. ASSUME NEW j \in 1 .. Len(Tail(f)) - 1 PROVE Follows(Tail(f)[j], Tail(f)[j + 1])
  <2>1. j + 1 \in 1 .. Len(f) - 1 /\ j \in 1 .. Len(f) - 1
    BY <1>1, <1>3
  <2> QED BY <1>2, <2>1 DEF InOrder
<1>6. LastOf(Head(f), Tail(f)) = LastOf(s, f)
  <2>1. CASE Len(f) = 1
    BY <1>1, <1>3, <2>1 DEF LastOf
  <2>2. CASE Len(f) > 1
    BY <1>1, <1>2, <1>3, <2>2 DEF LastOf
  <2> QED BY <1>3, <2>1, <2>2
<1> QED BY <1>1, <1>4, <1>5, <1>6 DEF InOrder

\* One byte that may follow is put behind.
LEMMA LineAppend ==
  ASSUME NEW s, NEW f, InOrder(s, f), NEW x \in Byte, Follows(LastOf(s, f), x)
  PROVE  InOrder(s, Append(f, x)) /\ LastOf(s, Append(f, x)) = x
<1>1. /\ f \in Seq(Byte) /\ Append(f, x) \in Seq(Byte) /\ Len(Append(f, x)) = Len(f) + 1
      /\ Append(f, x)[Len(f) + 1] = x /\ \A j \in 1 .. Len(f) : Append(f, x)[j] = f[j]
      /\ Len(f) \in Nat /\ (f = << >> <=> Len(f) = 0) /\ Append(f, x) # << >>
  <2>1. f \in Seq(Byte)
    BY DEF InOrder
  <2>2. /\ Append(f, x) \in Seq(Byte) /\ Len(Append(f, x)) = Len(f) + 1 /\ Len(f) \in Nat
        /\ Append(f, x)[Len(f) + 1] = x /\ \A j \in 1 .. Len(f) : Append(f, x)[j] = f[j]
    BY ONLY <2>1, x \in Byte
  <2>3. (f = << >> <=> Len(f) = 0) /\ (Append(f, x) = << >> <=> Len(Append(f, x)) = 0)
    BY <2>1, <2>2, EmptyLen
  <2> QED BY <2>1, <2>2, <2>3
<1> DEFINE g == Append(f, x)
<1> HIDE DEF g
<1>2. Follows(s, g[1])
  BY <1>1 DEF InOrder, LastOf, g
<1>3. ASSUME NEW j \in 1 .. Len(g) - 1 PROVE Follows(g[j], g[j + 1])
  <2>1. CASE j < Len(f)
    BY <1>1, <2>1 DEF InOrder, g
  <2>2. CASE j = Len(f)
    BY <1>1, <2>2 DEF LastOf, g
  <2> QED BY <1>1, <2>1, <2>2 DEF g
<1>4. LastOf(s, g) = x
  BY <1>1 DEF LastOf, g
<1> QED BY <1>1, <1>2, <1>3, <1>4 DEF InOrder, g

\* Sequences joined: the elements of the first, then those of the second.
LEMMA ConcatLaws ==
  ASSUME NEW f \in Seq(Byte), NEW u \in Seq(Byte)
  PROVE  /\ f \o u \in Seq(Byte) /\ Len(f \o u) = Len(f) + Len(u)
         /\ \A j \in 1 .. Len(f) : (f \o u)[j] = f[j]
         /\ \A j \in 1 .. Len(u) : (f \o u)[Len(f) + j] = u[j]
<1>1. f \o u \in Seq(Byte) /\ Len(f \o u) = Len(f) + Len(u)
  OBVIOUS
<1>2. ASSUME NEW j \in 1 .. Len(f) PROVE (f \o u)[j] = f[j]
  OBVIOUS
<1>3. ASSUME NEW j \in 1 .. Len(u) PROVE (f \o u)[Len(f) + j] = u[j]
  <2>1. Len(f) + j \in 1 .. (Len(f) + Len(u)) /\ Len(f) + j > Len(f) /\ (Len(f) + j) - Len(f) = j
    OBVIOUS
  <2> QED BY ONLY <2>1, f \in Seq(Byte), u \in Seq(Byte)
<1> QED BY <1>1, <1>2, <1>3

\* The first k elements of what may follow are put behind.
LEMMA LinePut ==
  ASSUME NEW s, NEW f, InOrder(s, f), NEW r \in Seq(Byte), r # << >>, Follows(LastOf(s, f), r[1]),
         \A j \in 1 .. Len(r) - 1 : Follows(r[j], r[j + 1]),
         NEW k \in 0 .. Len(r)
  PROVE  /\ InOrder(s, f \o Upto(r, k))
         /\ LastOf(s, f \o Upto(r, k)) = IF k = 0 THEN LastOf(s, f) ELSE r[k]
<1> DEFINE g == f \o Upto(r, k)
<1>1. /\ f \in Seq(Byte) /\ Len(f) \in Nat /\ Len(r) \in Nat /\ Len(r) > 0
      /\ f = << >> <=> Len(f) = 0
  BY DEF InOrder
<1>2. Upto(r, k) \in Seq(Byte) /\ Len(Upto(r, k)) = k /\ \A j \in 1 .. k : Upto(r, k)[j] = r[j]
  BY DEF Upto
<1>3. /\ g \in Seq(Byte) /\ Len(g) = Len(f) + k
      /\ \A j \in 1 .. Len(f) : g[j] = f[j]
      /\ \A j \in 1 .. k : g[Len(f) + j] = r[j]
  <2> DEFINE u == Upto(r, k)
  <2>1. f \in Seq(Byte) /\ u \in Seq(Byte) /\ Len(u) = k /\ \A j \in 1 .. k : u[j] = r[j]
    BY <1>1, <1>2
  <2> HIDE DEF u, g
  <2>2. /\ f \o u \in Seq(Byte) /\ Len(f \o u) = Len(f) + Len(u)
        /\ \A j \in 1 .. Len(f) : (f \o u)[j] = f[j]
        /\ \A j \in 1 .. Len(u) : (f \o u)[Len(f) + j] = u[j]
    BY ONLY <2>1, ConcatLaws
  <2>3. g = f \o u
    BY DEF g, u
  <2> QED BY ONLY <2>1, <2>2, <2>3
<1> HIDE DEF g
<1>4. LastOf(s, g) = IF k = 0 THEN LastOf(s, f) ELSE r[k]
  <2>1. g = << >> <=> Len(g) = 0
    BY <1>3
  <2>2. CASE k = 0
    BY <1>1, <1>3, <2>1, <2>2 DEF LastOf
  <2>3. CASE k > 0
    BY <1>1, <1>3, <2>1, <2>3 DEF LastOf
  <2> QED BY <2>2, <2>3
<1>5. g # << >> => Follows(s, g[1])
  <2>1. CASE Len(f) > 0
    BY <1>1, <1>3, <2>1 DEF InOrder
  <2>2. CASE Len(f) = 0 /\ k > 0
    BY <1>1, <1>3, <2>2 DEF LastOf
  <2>3. CASE Len(f) = 0 /\ k = 0
    BY <1>3, <2>3
  <2> QED BY <1>1, <2>1, <2>2, <2>3
<1>6. ASSUME NEW j \in 1 .. Len(g) - 1 PROVE Follows(g[j], g[j + 1])
  <2>1. CASE j < Len(f)
    <3>1. j \in 1 .. Len(f) - 1 /\ j \in 1 .. Len(f) /\ j + 1 \in 1 .. Len(f)
      BY <1>1, <2>1
    <3>2. g[j] = f[j] /\ g[j + 1] = f[j + 1]
      BY <1>3, <3>1
    <3> QED BY <3>1, <3>2 DEF InOrder
  <2>2. CASE j = Len(f)
    <3>1. g[j] = f[Len(f)] /\ g[j + 1] = r[1] /\ f # << >>
      BY <1>1, <1>3, <2>2
    <3> QED BY <3>1 DEF LastOf
  <2>3. CASE j > Len(f)
    <3> DEFINE m == j - Len(f)
    <3>1. m \in 1 .. k /\ m + 1 \in 1 .. k /\ m \in 1 .. Len(r) - 1 /\ j = Len(f) + m /\ j + 1 = Len(f) + (m + 1)
      BY <1>1, <1>3, <2>3
    <3> HIDE DEF m
    <3>2. g[j] = r[m] /\ g[j + 1] = r[m + 1]
      BY <1>3, <3>1
    <3> QED BY <3>1, <3>2
  <2> QED BY <1>1, <2>1, <2>2, <2>3
<1>7. InOrder(s, g)
  BY <1>3, <1>5, <1>6 DEF InOrder
<1> QED BY <1>4, <1>7 DEF g

\* The first k bytes of the end of a call are put behind.
LEMMA LineFill ==
  ASSUME NEW w \in Writers, NEW b \in BOOLEAN, NEW s, NEW f, InOrder(s, f),
         NEW r \in Seq(Byte), r # << >>, EndOfCall(w, r, b), Follows(LastOf(s, f), r[1]),
         NEW k \in 0 .. Len(r)
  PROVE  /\ InOrder(s, f \o Upto(r, k)) /\ EndOfCall(w, From(r, k), b)
         /\ k < Len(r) => /\ From(r, k) # << >>
                          /\ Follows(LastOf(s, f \o Upto(r, k)), From(r, k)[1])
         /\ k = Len(r) => /\ b => Follows(LastOf(s, f \o Upto(r, k)), Break)
                          /\ ~b => Ready(LastOf(s, f \o Upto(r, k)))
<1> DEFINE g == f \o Upto(r, k)
           t == From(r, k)
<1>1. Len(r) \in Nat /\ Len(r) > 0 /\ MaxSize \in Nat
  BY TxAssumption
<1>2. PICK n \in 1 .. MaxSize :
        /\ Len(r) <= n
        /\ \A j \in 1 .. Len(r) : r[j] = [w |-> w, i |-> (n - Len(r)) + j, n |-> n, b |-> b]
  BY DEF EndOfCall
<1>3. ASSUME NEW j \in 1 .. Len(r) - 1 PROVE Follows(r[j], r[j + 1])
  <2> DEFINE i == (n - Len(r)) + j
  <2>1. i \in 1 .. n - 1 /\ (n - Len(r)) + (j + 1) = i + 1 /\ j \in 1 .. Len(r) /\ j + 1 \in 1 .. Len(r)
    BY <1>1, <1>2
  <2>2. r[j] = [w |-> w, i |-> i, n |-> n, b |-> b] /\ r[j + 1] = [w |-> w, i |-> i + 1, n |-> n, b |-> b]
    BY <1>2, <2>1
  <2> HIDE DEF i
  <2> QED BY <2>1, <2>2, CallLaws
<1>4. r[Len(r)] = [w |-> w, i |-> n, n |-> n, b |-> b]
  BY <1>1, <1>2
<1>5. t \in Seq(Byte) /\ Len(t) = Len(r) - k /\ \A j \in 1 .. Len(r) - k : t[j] = r[k + j]
  BY DEF From
<1>6. InOrder(s, g) /\ LastOf(s, g) = IF k = 0 THEN LastOf(s, f) ELSE r[k]
  BY <1>3, LinePut
<1> HIDE DEF g, t
<1>7. EndOfCall(w, t, b)
  <2>1. Len(t) <= n
    BY <1>1, <1>2, <1>5
  <2>2. ASSUME NEW j \in 1 .. Len(t) PROVE t[j] = [w |-> w, i |-> (n - Len(t)) + j, n |-> n, b |-> b]
    <3>1. k + j \in 1 .. Len(r) /\ (n - Len(r)) + (k + j) = (n - Len(t)) + j
      BY <1>1, <1>2, <1>5
    <3> QED BY <1>2, <1>5, <3>1
  <2> QED BY <2>1, <2>2 DEF EndOfCall
<1>8. k < Len(r) => t # << >> /\ Follows(LastOf(s, g), t[1])
  <2>1. SUFFICES ASSUME k < Len(r) PROVE t # << >> /\ Follows(LastOf(s, g), t[1])
    OBVIOUS
  <2>2. Len(t) > 0 /\ t[1] = r[k + 1]
    <3>1. Len(r) - k > 0 /\ 1 \in 1 .. Len(r) - k
      BY <1>1, <2>1
    <3> QED BY ONLY <1>5, <3>1
  <2>3. Follows(LastOf(s, g), r[k + 1])
    BY <1>1, <1>3, <1>6, <2>1
  <2> QED BY <1>5, <2>2, <2>3
<1>9. k = Len(r) => (b => Follows(LastOf(s, g), Break)) /\ (~b => Ready(LastOf(s, g)))
  BY <1>1, <1>2, <1>4, <1>6, CallLaws
<1> QED BY <1>6, <1>7, <1>8, <1>9 DEF g, t

Sending == {"wr_sem", "wr_fill", "wr_arm", "wr_break", "wr_brksem"}

\* No call is being sent: what is behind it all is complete, its break is over.
Quiet == Ready(Last) /\ ~txdBrk /\ ~brkEna /\ ~brkSem

\* What the call of w has done to the line at each of its steps.
Begun(w) ==
  /\ pc[w] \in {"wr_sem", "wr_fill", "wr_arm"} => rest[w] # << >> /\ Follows(Last, rest[w][1])
  /\ pc[w] = "wr_break" => Follows(Last, Break)
  /\ pc[w] # "wr_brksem" => ~txdBrk /\ ~brkEna /\ ~brkSem
  /\ pc[w] = "wr_brksem" => \/ txdBrk /\ ~brkRaw /\ ~brkSem /\ Follows(Last, Break)
                            \/ txdBrk /\ brkRaw /\ ~brkSem /\ Ready(Last)
                            \/ ~txdBrk /\ ~brkEna /\ brkSem /\ Ready(Last)

Turn == /\ \A w \in Writers : pc[w] \in Sending => Begun(w)
        /\ (\A w \in Writers : pc[w] \notin Sending) => Quiet

\* What a call still hands over is the end of its bytes, and all of them before it
\* has tx_mux.
Messages ==
  \A w \in Writers : /\ EndOfCall(w, rest[w], brk[w])
                     /\ pc[w] = "wr_take" => rest[w] # << >> /\ rest[w][1].i = 1

OrderInv == use.ring = 0 => Messages /\ InOrder(sym, txFifo) /\ Turn

\* Nothing is the end of every call.
LEMMA NothingLeft == \A w, b : EndOfCall(w, << >>, b)
<1>1. 1 \in 1 .. MaxSize /\ Len(<< >>) = 0 /\ 1 .. 0 = {}
  BY TxAssumption
<1> QED BY <1>1 DEF EndOfCall

\* It holds at first.
LEMMA OrderInit == Init => OrderInv
<1> SUFFICES ASSUME Init PROVE OrderInv
  OBVIOUS
<1>1. InOrder(sym, txFifo) /\ Last = Start
  BY DEF Init, InOrder, Last, LastOf
<1>2. Turn
  BY <1>1, ReadyLaws DEF Init, Turn, Quiet, Sending
<1>3. Messages
  BY NothingLeft DEF Init, Messages
<1> QED BY <1>1, <1>2, <1>3 DEF OrderInv

\* Whoever is sending is alone; the holder of tx_mux who is not finds the line quiet,
\* and so does who takes it.
LEMMA TurnLaws ==
  ASSUME TxInv, OrderInv, use.ring = 0, NEW w \in Writers
  PROVE  /\ pc[w] \in Locked => \A v \in Writers : v # w => pc[v] \notin Locked /\ pc[v] \notin Sending
         /\ pc[w] \in Locked /\ pc[w] \notin Sending => Quiet
         /\ mux = NoTask => Quiet /\ \A v \in Writers : pc[v] \notin Locked /\ pc[v] \notin Sending
<1>1. Sending \subseteq Locked
  BY DEF Sending, Locked, DirectSteps
<1>2. \A v \in Writers : pc[v] \in Locked => mux = v
  BY DEF TxInv, Alone
<1>3. pc[w] \in Locked => \A v \in Writers : v # w => pc[v] \notin Locked /\ pc[v] \notin Sending
  BY <1>1, <1>2
<1>4. mux = NoTask => \A v \in Writers : pc[v] \notin Locked /\ pc[v] \notin Sending
  BY <1>1, <1>2, TxAssumption
<1>5. (\A v \in Writers : pc[v] \notin Sending) => Quiet
  BY DEF OrderInv, Turn
<1> QED BY <1>3, <1>4, <1>5

\* The transmitter: a byte that leaves changes nothing behind it, and a break is
\* sent only at the end of the call that asked for it.
LEMMA OrderHw ==
  ASSUME TxInv, OrderInv, Hw, use.ring = 0
  PROVE  OrderInv' /\ Follows(sym, sym')
<1>1. CASE SendByte
  <2>1. /\ txFifo # << >> /\ sym' = Head(txFifo) /\ txFifo' = Tail(txFifo)
        /\ UNCHANGED <<use, pc, rest, brk, brkSem, brkEna, brkRaw, txdBrk>>
    BY <1>1 DEF SendByte, taskVars, semVars
  <2>2. InOrder(sym', txFifo') /\ Last' = Last
    BY <2>1, LineShift DEF OrderInv, Last
  <2>3. Follows(sym, sym')
    BY <2>1 DEF OrderInv, InOrder
  <2>4. Turn'
    BY <2>1, <2>2 DEF OrderInv, Turn, Begun, Quiet
  <2>5. Messages'
    BY <2>1 DEF OrderInv, Messages
  <2> QED BY <2>2, <2>3, <2>4, <2>5 DEF OrderInv
<1>2. CASE SendBreak
  <2>1. /\ txdBrk /\ ~brkRaw /\ txFifo = << >> /\ sym' = Break /\ brkRaw' = TRUE
        /\ UNCHANGED <<use, pc, rest, brk, brkSem, brkEna, txdBrk, txFifo>>
    BY <1>2 DEF SendBreak, taskVars, semVars
  <2>2. PICK w \in Writers : pc[w] \in Sending
    BY <2>1 DEF OrderInv, Turn, Quiet
  <2>3. pc[w] = "wr_brksem" /\ ~brkSem /\ Follows(Last, Break)
    BY <2>1, <2>2 DEF OrderInv, Turn, Begun
  <2>4. \A v \in Writers : v # w => pc[v] \notin Sending
    BY <2>3, TurnLaws DEF Locked, DirectSteps
  <2>5. Last = sym /\ Last' = Break
    BY <2>1 DEF Last, LastOf
  <2>6. Turn'
    BY <2>1, <2>2, <2>3, <2>4, <2>5, ReadyLaws DEF Turn, Begun
  <2>7. Messages'
    BY <2>1 DEF OrderInv, Messages
  <2>8. InOrder(sym', txFifo')
    BY <2>1 DEF OrderInv, InOrder
  <2> QED BY <2>1, <2>3, <2>5, <2>6, <2>7, <2>8 DEF OrderInv
<1> QED BY <1>1, <1>2 DEF Hw

\* The handler: it wakes who waits for the end of the break.
LEMMA OrderIsr ==
  ASSUME TxInv, OrderInv, Isr, use.ring = 0
  PROVE  OrderInv'
<1>1. ~isr.on /\ ~brkFlg /\ ~isr'.on /\ UNCHANGED use
  <2>1. TxInv' /\ UNCHANGED use
    BY TxInvIsr DEF Isr, isr_stuck, isr_tx_wake, isr_tx_begin, isr_tx_event, isr_tx_item, isr_tx_fill,
           isr_tx_end, isr_brk_done, isr_tx_done
  <2> QED BY <2>1 DEF TxInv, Modes
<1>2. \/ isr_tx_wake \/ isr_brk_done \/ isr_tx_done
  BY <1>1 DEF Isr, isr_stuck, isr_tx_begin, isr_tx_event, isr_tx_item, isr_tx_fill, isr_tx_end, Filling, Asleep
<1>3. CASE isr_tx_wake \/ isr_tx_done
  <2>1. UNCHANGED <<use, pc, rest, brk, brkSem, brkEna, brkRaw, txdBrk, sym, txFifo>>
    BY <1>3 DEF isr_tx_wake, isr_tx_done, taskVars, hwVars
  <2> QED BY <2>1 DEF OrderInv, Turn, Messages, Begun, Quiet, Last
<1>4. CASE isr_brk_done
  <2>1. /\ brkEna /\ brkRaw /\ ~brkEna' /\ ~txdBrk' /\ brkSem'
        /\ UNCHANGED <<use, pc, rest, brk, sym, txFifo>>
    BY <1>1, <1>4 DEF isr_brk_done, BrkDonePending, taskVars
  <2>2. PICK w \in Writers : pc[w] \in Sending
    BY <2>1 DEF OrderInv, Turn, Quiet
  <2>3. pc[w] = "wr_brksem" /\ Ready(Last)
    BY <2>1, <2>2 DEF OrderInv, Turn, Begun
  <2>4. \A v \in Writers : v # w => pc[v] \notin Sending
    BY <2>3, TurnLaws DEF Locked, DirectSteps
  <2>5. Turn'
    BY <2>1, <2>2, <2>3, <2>4 DEF Turn, Begun, Last
  <2> QED BY <2>1, <2>5 DEF OrderInv, Messages
<1> QED BY <1>2, <1>3, <1>4

\* A task takes a step and leaves the line alone.
LEMMA OrderGoto ==
  ASSUME TxInv, OrderInv, use.ring = 0, NEW w \in Writers, NEW from, NEW to, Goto(w, from, to),
         from \notin Sending, to \notin Sending, to # "wr_take",
         UNCHANGED <<use, rest, brk, brkSem, brkEna, brkRaw, txdBrk, sym, txFifo>>
  PROVE  OrderInv'
<1>1. pc[w] = from /\ pc'[w] = to /\ \A v \in Writers : v # w => pc'[v] = pc[v]
  BY GotoLaws DEF TxInv, TxTypes
<1>2. Turn'
  <2>1. Last' = Last
    BY DEF Last
  <2>2. ASSUME NEW v \in Writers, pc'[v] \in Sending PROVE Begun(v)'
    <3>1. v # w /\ pc'[v] = pc[v]
      BY <1>1, <2>2
    <3>2. Begun(v)
      BY <2>2, <3>1 DEF OrderInv, Turn
    <3> QED BY <2>1, <3>1, <3>2 DEF Begun
  <2> QED BY <1>1, <2>1, <2>2 DEF OrderInv, Turn, Quiet
<1> QED BY <1>1, <1>2 DEF OrderInv, Messages

\* The holder of tx_mux takes a step of sending: it alone speaks of the line.
LEMMA TurnHolder ==
  ASSUME TxInv, OrderInv, use.ring = 0, NEW w \in Writers, NEW from, NEW to, Goto(w, from, to),
         from \in Locked \/ mux = NoTask,
         to \in Sending => Begun(w)', to \notin Sending => Quiet'
  PROVE  Turn'
<1>1. pc[w] = from /\ pc'[w] = to /\ \A v \in Writers : v # w => pc'[v] = pc[v]
  BY GotoLaws DEF TxInv, TxTypes
<1>2. \A v \in Writers : v # w => pc'[v] \notin Sending
  BY <1>1, TurnLaws
<1> QED BY <1>1, <1>2 DEF Turn

\* The other two calls: only a single character touches the line.
LEMMA OrderOther ==
  ASSUME TxInv, OrderInv, use.ring = 0, NEW w \in Writers,
         uart_tx_chars(w) \/ uart_wait_tx_done(w) \/ WaitStep(w) \/ tc_take(w) \/ tc_fill(w)
  PROVE  OrderInv'
<1>1. CASE uart_tx_chars(w) \/ uart_wait_tx_done(w) \/ tc_take(w) \/ WaitStep(w)
  <2>1. /\ UNCHANGED <<use, rest, brk, brkSem, brkEna, brkRaw, txdBrk, sym, txFifo>>
        /\ \E from \in {"idle", "tc_take"} \cup WaitSteps, to \in {"idle", "tc_take", "tc_fill"} \cup WaitSteps :
             Goto(w, from, to)
    <3>1. CASE uart_tx_chars(w) \/ uart_wait_tx_done(w) \/ tc_take(w)
      BY <3>1 DEF uart_tx_chars, uart_wait_tx_done, tc_take, Call, Take, semVars, intVars, hwVars, WaitSteps
    <3>2. CASE WaitStep(w)
      BY <3>2 DEF WaitStep, wt_take, wt_take_timeout, wt_stale, wt_check, wt_arm, wt_wait, wt_wait_timeout,
                  wt_disarm, wt_give, Take, semVars, intVars, hwVars, WaitSteps
    <3> QED BY <1>1, <3>1, <3>2
  <2> QED BY <2>1, OrderGoto DEF Sending, WaitSteps
<1>2. CASE tc_fill(w)
  <2> DEFINE x == [w |-> w, i |-> 1, n |-> 1, b |-> FALSE]
  <2>1. /\ Goto(w, "tc_fill", "idle") /\ pc[w] = "tc_fill"
        /\ txFifo' = IF Len(txFifo) < FifoCap THEN Append(txFifo, x) ELSE txFifo
        /\ UNCHANGED <<use, rest, brk, brkSem, brkEna, brkRaw, txdBrk, sym>>
    BY <1>2 DEF tc_fill, Goto, semVars, intVars
  <2>2. Quiet
    BY <2>1, TurnLaws DEF Locked, Sending
  <2>3. x \in Byte /\ x.i = 1 /\ Ready(x)
    BY TxAssumption DEF Byte, Ready
  <2> HIDE DEF x
  <2>4. InOrder(sym, Append(txFifo, x)) /\ LastOf(sym, Append(txFifo, x)) = x
    BY <2>2, <2>3, LineAppend, ReadyLaws DEF OrderInv, Quiet, Last
  <2>5. InOrder(sym', txFifo') /\ Quiet'
    BY <2>1, <2>2, <2>3, <2>4 DEF OrderInv, Quiet, Last
  <2>6. Turn'
    BY <2>1, <2>5, TurnHolder DEF Sending, Locked
  <2>7. Messages'
    BY <2>1, GotoLaws DEF OrderInv, Messages, TxInv, TxTypes
  <2> QED BY <2>1, <2>5, <2>6, <2>7 DEF OrderInv
<1> QED BY <1>1, <1>2

\* A write: its bytes are put behind what it may follow, and the break behind them.
LEMMA OrderWrite ==
  ASSUME TxInv, OrderInv, use.ring = 0, NEW w \in Writers, uart_tx_all(w) \/ WriteStep(w)
  PROVE  OrderInv'
<1> USE DEF semVars, intVars, hwVars
<1>1. TypeOK /\ rest[w] \in Seq(Byte) /\ brk[w] \in BOOLEAN /\ Len(rest[w]) \in Nat
  BY DEF TxInv, TxTypes, TypeOK
<1>2. CASE uart_tx_all(w)
  <2>1. PICK n \in 1 .. use.size, b \in use.breaks :
          /\ rest' = [rest EXCEPT ![w] = [i \in 1 .. n |-> [w |-> w, i |-> i, n |-> n, b |-> b]]]
          /\ brk' = [brk EXCEPT ![w] = b]
    BY <1>2 DEF uart_tx_all
  <2>2. n \in 1 .. MaxSize /\ n \in Nat
    BY UseLaws, TxAssumption DEF TxInv, TxTypes, TypeOK
  <2> DEFINE m == [i \in 1 .. n |-> [w |-> w, i |-> i, n |-> n, b |-> b]]
  <2>3. m \in Seq({m[i] : i \in 1 .. n}) /\ Len(m) = n /\ m # << >>
    BY <2>2
  <2>4. EndOfCall(w, m, b) /\ m # << >> /\ m[1].i = 1
    <3>1. \A j \in 1 .. n : m[j] = [w |-> w, i |-> (n - n) + j, n |-> n, b |-> b]
      BY <2>2
    <3>2. m[1].i = 1
      BY <2>2
    <3> HIDE DEF m
    <3> QED BY <2>2, <2>3, <3>1, <3>2 DEF EndOfCall
  <2> HIDE DEF m
  <2>5. /\ Goto(w, "idle", "wr_take") /\ pc[w] = "idle" /\ pc'[w] = "wr_take"
        /\ \A v \in Writers : v # w => pc'[v] = pc[v]
        /\ UNCHANGED <<use, brkSem, brkEna, brkRaw, txdBrk, sym, txFifo>>
    BY <1>1, <1>2, GotoLaws DEF uart_tx_all, Call
  <2>6. rest'[w] = m /\ brk'[w] = b /\ \A v \in Writers : v # w => rest'[v] = rest[v] /\ brk'[v] = brk[v]
    BY <1>1, <2>1 DEF TypeOK, m
  <2>7. Messages'
    BY <2>4, <2>5, <2>6 DEF OrderInv, Messages
  <2>8. Turn'
    <3>1. Last' = Last
      BY <2>5 DEF Last
    <3>2. ASSUME NEW v \in Writers, pc'[v] \in Sending PROVE Begun(v)'
      <4>1. v # w /\ pc'[v] = pc[v] /\ rest'[v] = rest[v]
        BY <2>5, <2>6, <3>2 DEF Sending
      <4>2. Begun(v)
        BY <3>2, <4>1 DEF OrderInv, Turn
      <4> QED BY <2>5, <3>1, <4>1, <4>2 DEF Begun
    <3>3. (\A v \in Writers : pc'[v] \notin Sending) => \A v \in Writers : pc[v] \notin Sending
      BY <2>5 DEF Sending
    <3> QED BY <2>5, <3>1, <3>2, <3>3 DEF OrderInv, Turn, Quiet
  <2> QED BY <2>5, <2>7, <2>8 DEF OrderInv
<1>3. CASE wr_take(w)
  <2>1. /\ Goto(w, "wr_take", "wr_sem") /\ pc[w] = "wr_take" /\ pc'[w] = "wr_sem" /\ mux = NoTask
        /\ \A v \in Writers : v # w => pc'[v] = pc[v]
        /\ UNCHANGED <<use, rest, brk, brkSem, brkEna, brkRaw, txdBrk, sym, txFifo>>
    BY <1>1, <1>3, GotoLaws DEF wr_take, Take
  <2>2. Quiet /\ rest[w] # << >> /\ rest[w][1].i = 1
    BY <2>1, TurnLaws DEF OrderInv, Messages
  <2>3. rest[w][1] \in Byte
    BY <1>1, <2>2
  <2>4. Begun(w)'
    BY <2>1, <2>2, <2>3, ReadyLaws DEF Begun, Quiet, Last
  <2>5. Turn'
    BY <2>1, <2>4, TurnHolder DEF Sending
  <2> QED BY <2>1, <2>5 DEF OrderInv, Messages
<1>4. CASE wr_sem(w) \/ wr_arm(w)
  <2>1. PICK from \in {"wr_sem", "wr_arm"}, to \in {"wr_sem", "wr_fill"} :
          /\ Goto(w, from, to) /\ pc[w] = from /\ pc'[w] = to
          /\ \A v \in Writers : v # w => pc'[v] = pc[v]
    BY <1>1, <1>4, GotoLaws DEF wr_sem, wr_arm
  <2>2. UNCHANGED <<use, rest, brk, brkSem, brkEna, brkRaw, txdBrk, sym, txFifo>>
    BY <1>4 DEF wr_sem, wr_arm
  <2>3. Begun(w)'
    BY <2>1, <2>2 DEF OrderInv, Turn, Begun, Last, Sending
  <2>4. Turn'
    BY <2>1, <2>3, TurnHolder DEF Sending, Locked, DirectSteps
  <2> QED BY <2>1, <2>2, <2>4 DEF OrderInv, Messages
<1>5. CASE wr_fill(w)
  <2> DEFINE n == MinOf(Len(rest[w]), FifoRoom)
             to == IF n < Len(rest[w]) THEN "wr_arm" ELSE IF brk[w] THEN "wr_break" ELSE "wr_semgive"
  <2>1. /\ Goto(w, "wr_fill", to) /\ pc[w] = "wr_fill" /\ pc'[w] = to
        /\ \A v \in Writers : v # w => pc'[v] = pc[v]
        /\ txFifo' = txFifo \o Upto(rest[w], n) /\ rest' = [rest EXCEPT ![w] = From(@, n)]
        /\ UNCHANGED <<use, brk, brkSem, brkEna, brkRaw, txdBrk, sym>>
    BY <1>1, <1>5, GotoLaws DEF wr_fill
  <2>2. n \in 0 .. Len(rest[w])
    <3>1. FifoRoom \in Nat
      BY FifoLaws DEF FifoRoom, TxInv
    <3>2. Len(rest[w]) \in Nat
      BY <1>1
    <3>3. n \in Nat /\ n <= Len(rest[w])
      BY <3>1, <3>2, MinLaws
    <3> QED BY ONLY <3>2, <3>3
  <2>3. /\ Begun(w) /\ InOrder(sym, txFifo) /\ EndOfCall(w, rest[w], brk[w])
        /\ rest[w] # << >> /\ Follows(LastOf(sym, txFifo), rest[w][1]) /\ ~txdBrk /\ ~brkEna /\ ~brkSem
    BY <2>1 DEF OrderInv, Turn, Messages, Begun, Sending, Last
  <2> HIDE DEF n
  <2>4. /\ InOrder(sym, txFifo') /\ EndOfCall(w, From(rest[w], n), brk[w])
        /\ n < Len(rest[w]) => From(rest[w], n) # << >> /\ Follows(LastOf(sym, txFifo'), From(rest[w], n)[1])
        /\ n = Len(rest[w]) => /\ brk[w] => Follows(LastOf(sym, txFifo'), Break)
                               /\ ~brk[w] => Ready(LastOf(sym, txFifo'))
    BY <1>1, <2>1, <2>2, <2>3, LineFill
  <2>5. rest'[w] = From(rest[w], n) /\ \A v \in Writers : v # w => rest'[v] = rest[v]
    BY <1>1, <2>1 DEF TypeOK
  <2>6. Last' = LastOf(sym, txFifo') /\ (n < Len(rest[w]) \/ n = Len(rest[w]))
    BY <1>1, <2>1, <2>2 DEF Last
  <2>7. to \in Sending => Begun(w)'
    BY <2>1, <2>3, <2>4, <2>5, <2>6 DEF Begun, Sending
  <2>8. to \notin Sending => Quiet'
    BY <2>1, <2>3, <2>4, <2>6 DEF Quiet, Sending
  <2>9. Turn'
    <3> HIDE DEF to
    <3> QED BY <2>1, <2>7, <2>8, TurnHolder DEF Locked, DirectSteps
  <2>10. Messages'
    BY <2>1, <2>4, <2>5 DEF OrderInv, Messages
  <2> QED BY <2>1, <2>4, <2>9, <2>10 DEF OrderInv
<1>6. CASE wr_break(w) \/ wr_brksem(w)
  <2>1. PICK from \in {"wr_break", "wr_brksem"}, to \in {"wr_brksem", "wr_semgive"} :
          /\ Goto(w, from, to) /\ pc[w] = from /\ pc'[w] = to
          /\ \A v \in Writers : v # w => pc'[v] = pc[v]
          /\ from = "wr_break" => wr_break(w) /\ to = "wr_brksem"
          /\ from = "wr_brksem" => wr_brksem(w) /\ to = "wr_semgive"
    BY <1>1, <1>6, GotoLaws DEF wr_break, wr_brksem
  <2>2. UNCHANGED <<use, rest, brk, sym, txFifo>>
    BY <1>6 DEF wr_break, wr_brksem
  <2>3. Begun(w) /\ Last' = Last
    BY <2>1, <2>2 DEF OrderInv, Turn, Sending, Last
  <2>4. to \in Sending => Begun(w)'
    BY <2>1, <2>3 DEF wr_break, Begun, Sending
  <2>5. to \notin Sending => Quiet'
    BY <2>1, <2>3 DEF wr_brksem, Begun, Quiet, Sending
  <2>6. Turn'
    BY <2>1, <2>4, <2>5, TurnHolder DEF Locked, DirectSteps
  <2> QED BY <2>1, <2>2, <2>6 DEF OrderInv, Messages
<1>7. CASE wr_semgive(w)
  <2>1. Goto(w, "wr_semgive", "wr_last") /\ UNCHANGED <<use, rest, brk, brkSem, brkEna, brkRaw, txdBrk, sym, txFifo>>
    BY <1>7 DEF wr_semgive
  <2> QED BY <2>1, OrderGoto DEF Sending
<1>8. CASE wr_last(w)
  <2>1. /\ Goto(w, "wr_last", "idle") /\ pc[w] = "wr_last" /\ pc'[w] = "idle"
        /\ \A v \in Writers : v # w => pc'[v] = pc[v]
        /\ rest' = [rest EXCEPT ![w] = << >>] /\ brk' = [brk EXCEPT ![w] = FALSE]
        /\ UNCHANGED <<use, brkSem, brkEna, brkRaw, txdBrk, sym, txFifo>>
    BY <1>1, <1>8, GotoLaws DEF wr_last
  <2>2. Quiet
    BY <2>1, TurnLaws DEF Locked, Sending
  <2>3. Quiet' /\ Turn'
    BY <2>1, <2>2, TurnHolder DEF Locked, Sending, Quiet, Last
  <2>4. /\ rest'[w] = << >> /\ \A v \in Writers : v # w => rest'[v] = rest[v] /\ brk'[v] = brk[v]
    BY <1>1, <2>1 DEF TypeOK
  <2>5. Messages'
    <3>1. EndOfCall(w, rest'[w], brk'[w]) /\ pc'[w] # "wr_take"
      BY <2>1, <2>4, NothingLeft
    <3> QED BY <2>1, <2>4, <3>1 DEF OrderInv, Messages
  <2> QED BY <2>1, <2>3, <2>5 DEF OrderInv
<1>9. CASE wr_event(w) \/ wr_data(w) \/ wr_enable(w) \/ wr_give(w)
  BY <1>9, GotoLaws DEF wr_event, wr_data, wr_enable, wr_give, TxInv, TxTypes, Modes, RingSteps
<1> QED BY <1>2, <1>3, <1>4, <1>5, <1>6, <1>7, <1>8, <1>9 DEF WriteStep

\* How the port is used never changes.
LEMMA UseSame == [Next]_vars => UNCHANGED use
  BY DEF Next, vars, Hw, SendByte, SendBreak, Isr, isr_stuck, isr_tx_wake, isr_tx_begin, isr_tx_event,
         isr_tx_item, isr_tx_fill, isr_tx_end, isr_brk_done, isr_tx_done, Begin, uart_tx_all,
         uart_tx_chars, uart_wait_tx_done, Step, WriteStep, wr_take, wr_event, wr_data, wr_enable,
         wr_give, wr_sem, wr_fill, wr_arm, wr_break, wr_brksem, wr_semgive, wr_last, tc_take, tc_fill,
         WaitStep, wt_take, wt_take_timeout, wt_stale, wt_check, wt_arm, wt_wait, wt_wait_timeout,
         wt_disarm, wt_give

\* Every step keeps the order.
LEMMA OrderNext == TxInv /\ OrderInv /\ [Next]_vars => OrderInv'
<1> SUFFICES ASSUME TxInv, OrderInv, [Next]_vars PROVE OrderInv'
  OBVIOUS
<1>1. UNCHANGED use
  BY UseSame
<1>2. CASE use.ring # 0
  BY <1>1, <1>2 DEF OrderInv
<1>3. CASE use.ring = 0
  <2>1. CASE UNCHANGED vars
    BY <2>1 DEF vars, taskVars, semVars, intVars, hwVars, OrderInv, Messages, Turn, Begun, Quiet, Last
  <2>2. CASE Hw \/ Isr
    BY <1>3, <2>2, OrderHw, OrderIsr
  <2>3. ASSUME NEW w \in Writers, Begin(w) \/ Step(w) PROVE OrderInv'
    BY <1>3, <2>3, OrderOther, OrderWrite DEF Begin, Step
  <2> QED BY <2>1, <2>2, <2>3 DEF Next
<1> QED BY <1>2, <1>3

-----------------------------------------------------------------------------
(* What leaves a port with a ring.                                         *)

\* A place in the calls on a ring: in w's call of n bytes, with a break or without,
\* i of them are past.
Place      == [w : Writers \cup {NoTask}, i : 0 .. MaxSize, n : 0 .. MaxSize, b : BOOLEAN]
Past(g, k) == [g EXCEPT !.i = g.i + k]

\* The places a port can come to: with a break only when its calls ask for one.
Places == {g \in Place : g.b => TRUE \in use.breaks}

\* s is what comes next at g.
Piece(s, g) == /\ s \in Seq(Byte) /\ g.i + Len(s) <= g.n
               /\ \A j \in 1 .. Len(s) : s[j] = Past(g, j)

\* The item x leads from c to d: a description to the start of its call, data over
\* what it holds.  Nothing comes behind a call with a break.
Leads(c, x, d) ==
  IF x.event THEN c.i = c.n /\ ~c.b /\ d.i = 0 /\ d.n = x.size /\ d.n > 0 /\ d.b = x.brk
             ELSE x.data # << >> /\ Piece(x.data, c) /\ d = Past(c, Len(x.data))

\* The items lead from place to place.
Item == [event : BOOLEAN, size : 0 .. MaxSize, brk : BOOLEAN, data : Seq(Byte \cup {Junk})]
Path(p, r) == /\ p \in Seq(Place) /\ Len(p) = Len(r) + 1
              /\ \A k \in 1 .. Len(r) : Leads(p[k], r[k], p[k + 1])

\* The handler has come to g: what it counts, the break, and what is behind it all.
Reached(g) ==
  /\ g.i <= g.n /\ lenTot = g.n - g.i
  /\ (waitBrk <=> txdBrk) /\ (brkEna <=> txdBrk) /\ (txdBrk => g.b /\ g.i = g.n)
  /\ (brkFlg <=> g.b /\ (g.i < g.n \/ txdBrk))
  /\ g.i = 0 => Ready(Last)
  /\ 0 < g.i /\ g.i < g.n => Last = g
  /\ g.i = g.n => IF txdBrk /\ ~brkRaw THEN Follows(Last, Break) ELSE Ready(Last)

\* The writer goes on from q: with a new call, or with the rest of this one.
GoesOn(w, q) ==
  /\ q.b \/ brk[w] => use.calls <= calls[w]
  /\ brk[w] => TRUE \in use.breaks
  /\ pc[w] \in {"wr_take", "wr_event"} =>
       /\ q.i = q.n /\ ~q.b /\ rest[w] # << >>
       /\ Piece(rest[w], [w |-> w, i |-> 0, n |-> Len(rest[w]), b |-> brk[w]])
  /\ pc[w] \notin {"wr_take", "wr_event"} => Piece(rest[w], q) /\ q.i + Len(rest[w]) = q.n
  /\ pc[w] = "wr_data" => rest[w] # << >>
  /\ pc[w] \in {"idle", "wr_give", "wr_last"} => rest[w] = << >>

\* Line, handler, ring and writer are at places of one path.
Stream(g, p) ==
  /\ Reached(g) /\ Piece(cur, g) /\ Path(p, ring) /\ p[1] = Past(g, Len(cur))
  /\ \A w \in use.tasks : GoesOn(w, p[Len(p)])

StreamInv ==
  use.ring > 0 =>
    /\ \A w \in Writers : pc[w] # "idle" => w \in use.tasks
    /\ InOrder(sym, txFifo)
    /\ \E g \in Places, p \in Seq(Places) : Stream(g, p)

\* The uses for which it holds: a ring has one writer, and that one asks for no break
\* or makes one call only.
Calm(u) == u.ring > 0 => /\ \A v, w \in u.tasks : v = w
                         /\ u.breaks \subseteq {FALSE} \/ u.calls <= 1

\* Going on from a place.
LEMMA PastLaws ==
  ASSUME NEW g \in Place, NEW k \in Nat, g.i + k <= g.n
  PROVE  /\ Past(g, k) \in Place /\ Past(g, k).i = g.i + k
         /\ Past(g, k).n = g.n /\ Past(g, k).b = g.b /\ Past(g, k).w = g.w
         /\ Past(g, 0) = g /\ \A j \in Nat : Past(Past(g, k), j) = Past(g, k + j)
<1>1. /\ g.i \in Nat /\ g.n \in 0 .. MaxSize /\ MaxSize \in Nat
      /\ g = [w |-> g.w, i |-> g.i, n |-> g.n, b |-> g.b]
  BY TxAssumption DEF Place
<1>2. \A j \in Nat : Past(g, j) = [w |-> g.w, i |-> g.i + j, n |-> g.n, b |-> g.b]
  BY DEF Past, Place
<1>3. Past(g, k) \in Place
  BY <1>1, <1>2 DEF Place
<1>4. Past(g, 0) = g
  BY <1>1, <1>2
<1>5. ASSUME NEW j \in Nat PROVE Past(Past(g, k), j) = Past(g, k + j)
  <2>1. k + j \in Nat /\ (g.i + k) + j = g.i + (k + j)
    BY <1>1
  <2>2. Past(g, k + j) = [w |-> g.w, i |-> (g.i + k) + j, n |-> g.n, b |-> g.b]
    BY <1>2, <2>1
  <2>3. Past(g, k) = [w |-> g.w, i |-> g.i + k, n |-> g.n, b |-> g.b]
    BY <1>2
  <2> QED BY <2>2, <2>3 DEF Past
<1> QED BY <1>2, <1>3, <1>4, <1>5

\* What is left of a piece comes next behind what was taken, and the end is the same.
LEMMA PieceCut ==
  ASSUME NEW g \in Place, NEW s, Piece(s, g), NEW k \in 0 .. Len(s)
  PROVE  /\ Piece(Upto(s, k), g) /\ Len(Upto(s, k)) = k
         /\ Piece(From(s, k), Past(g, k)) /\ Len(From(s, k)) = Len(s) - k
         /\ Past(g, k) \in Place /\ Past(Past(g, k), Len(s) - k) = Past(g, Len(s))
<1>1. s \in Seq(Byte) /\ Len(s) \in Nat /\ k \in Nat /\ g.i \in Nat /\ g.n \in Nat /\ g.i + Len(s) <= g.n
  BY TxAssumption DEF Piece, Place
<1>2. /\ Upto(s, k) \in Seq(Byte) /\ Len(Upto(s, k)) = k /\ \A j \in 1 .. k : Upto(s, k)[j] = s[j]
      /\ From(s, k) \in Seq(Byte) /\ Len(From(s, k)) = Len(s) - k
      /\ \A j \in 1 .. Len(s) - k : From(s, k)[j] = s[k + j]
  BY <1>1 DEF Upto, From
<1>3. g.i + k <= g.n
  BY <1>1
<1>4. /\ Past(g, k) \in Place /\ Past(g, k).i = g.i + k /\ Past(g, k).n = g.n
      /\ \A j \in Nat : Past(Past(g, k), j) = Past(g, k + j)
  BY <1>1, <1>3, PastLaws
<1>5. Piece(Upto(s, k), g)
  <2>1. \A j \in 1 .. k : j \in 1 .. Len(s)
    BY <1>1
  <2> QED BY <1>2, <1>3, <2>1 DEF Piece
<1>6. Piece(From(s, k), Past(g, k))
  <2>1. ASSUME NEW j \in 1 .. Len(From(s, k)) PROVE From(s, k)[j] = Past(Past(g, k), j)
    <3>1. j \in Nat /\ j \in 1 .. Len(s) - k /\ k + j \in 1 .. Len(s)
      BY <1>1, <1>2
    <3> QED BY <1>2, <1>4, <3>1 DEF Piece
  <2>2. (g.i + k) + (Len(s) - k) <= g.n
    BY <1>1
  <2> QED BY <1>2, <1>4, <2>1, <2>2 DEF Piece
<1>7. Len(s) - k \in Nat /\ k + (Len(s) - k) = Len(s)
  BY <1>1
<1> QED BY <1>2, <1>4, <1>5, <1>6, <1>7

\* Inside a call its next byte may follow.
LEMMA NextByte ==
  ASSUME NEW g \in Byte, g.i < g.n
  PROVE  Follows(g, Past(g, 1))
<1>1. g.i \in Nat /\ g.n \in Nat /\ g.i # g.n
  BY TxAssumption DEF Byte
<1> QED BY <1>1, Zenon DEF Follows, Past

\* A piece is in order, and follows the place it is at; what is behind its end.
LEMMA PieceOrder ==
  ASSUME NEW g \in Place, NEW s, Piece(s, g), s # << >>
  PROVE  /\ s \in Seq(Byte) /\ s[1] \in Byte /\ s[1].i = g.i + 1 /\ g.i < g.n
         /\ \A j \in 1 .. Len(s) - 1 : Follows(s[j], s[j + 1])
         /\ g.i > 0 => Follows(g, s[1])
         /\ \A k \in 1 .. Len(s) :
              /\ s[k] = Past(g, k)
              /\ g.i + k = g.n => IF g.b THEN Follows(s[k], Break) ELSE Ready(s[k])
<1>1. s \in Seq(Byte) /\ Len(s) \in Nat /\ Len(s) > 0 /\ g.i \in Nat /\ g.n \in Nat /\ g.i + Len(s) <= g.n
  BY TxAssumption DEF Piece, Place
<1>2. \A k \in 1 .. Len(s) : s[k] = Past(g, k) /\ s[k] \in Byte
  BY <1>1 DEF Piece
<1>3. 1 \in 1 .. Len(s) /\ g.i < g.n
  BY <1>1
<1>4. \A k \in 1 .. Len(s) : s[k].i = g.i + k /\ s[k].n = g.n /\ s[k].b = g.b /\ s[k].w = g.w
  <2>1. \A k \in 1 .. Len(s) : k \in Nat /\ g.i + k <= g.n
    BY <1>1
  <2> QED BY <1>2, <2>1, PastLaws
<1>5. g.w \in Writers /\ g.n \in 1 .. MaxSize
  BY <1>2, <1>3, <1>4 DEF Byte
<1>6. ASSUME NEW j \in 1 .. Len(s) - 1 PROVE Follows(s[j], s[j + 1])
  <2>1. j \in 1 .. Len(s) /\ j + 1 \in 1 .. Len(s) /\ j \in Nat /\ g.i + j <= g.n /\ g.i + j < g.n
    BY <1>1
  <2>2. s[j + 1] = Past(s[j], 1)
    <3>1. Past(Past(g, j), 1) = Past(g, j + 1)
      BY <2>1, PastLaws
    <3> QED BY <1>2, <2>1, <3>1
  <2>3. s[j] \in Byte /\ s[j].i < s[j].n
    BY <1>2, <1>4, <2>1
  <2> QED BY <2>2, <2>3, NextByte
<1>7. g.i > 0 => Follows(g, s[1])
  <2>1. g.i > 0 => g \in Byte
    BY <1>1, <1>3, <1>5 DEF Byte, Place
  <2> QED BY <1>2, <1>3, <2>1, NextByte
<1>8. ASSUME NEW k \in 1 .. Len(s), g.i + k = g.n
      PROVE  IF g.b THEN Follows(s[k], Break) ELSE Ready(s[k])
  <2>1. s[k] \in Byte /\ s[k].i = s[k].n /\ s[k].b = g.b /\ s[k].n \in Nat
    BY <1>1, <1>2, <1>4, <1>8
  <2> QED BY <2>1 DEF Follows, Ready
<1> QED BY <1>1, <1>2, <1>3, <1>4, <1>6, <1>7, <1>8

\* The first item is taken.
LEMMA PathShift ==
  ASSUME NEW r \in Seq(Item), r # << >>, NEW p, Path(p, r)
  PROVE  /\ Path(Tail(p), Tail(r)) /\ Tail(p)[1] = p[2] /\ Leads(p[1], Head(r), p[2])
         /\ Tail(p)[Len(Tail(p))] = p[Len(p)] /\ p[2] \in Place /\ Tail(p) \in Seq(Place)
<1>1. /\ p \in Seq(Place) /\ Len(p) = Len(r) + 1 /\ Len(r) \in Nat /\ Len(r) > 0 /\ Len(p) \in Nat
      /\ Head(r) = r[1] /\ Len(Tail(r)) = Len(r) - 1 /\ \A k \in 1 .. Len(r) - 1 : Tail(r)[k] = r[k + 1]
  BY DEF Path
<1>2. /\ Tail(p) \in Seq(Place) /\ Len(Tail(p)) = Len(p) - 1 /\ \A k \in 1 .. Len(p) - 1 : Tail(p)[k] = p[k + 1]
  BY <1>1
<1>3. ASSUME NEW k \in 1 .. Len(Tail(r)) PROVE Leads(Tail(p)[k], Tail(r)[k], Tail(p)[k + 1])
  <2>1. k \in 1 .. Len(r) - 1 /\ k \in 1 .. Len(p) - 1 /\ k + 1 \in 1 .. Len(p) - 1 /\ k + 1 \in 1 .. Len(r)
    BY <1>1
  <2> QED BY <1>1, <1>2, <2>1 DEF Path
<1>4. 1 \in 1 .. Len(r) /\ 1 \in 1 .. Len(p) - 1 /\ 2 \in 1 .. Len(p) /\ Len(p) - 1 \in 1 .. Len(p) - 1
  BY <1>1
<1>5. Tail(p)[1] = p[2] /\ Tail(p)[Len(Tail(p))] = p[Len(p)] /\ p[2] \in Place
  BY <1>1, <1>2, <1>4
<1>6. Leads(p[1], Head(r), p[2])
  BY <1>1, <1>4 DEF Path
<1> QED BY <1>1, <1>2, <1>3, <1>5, <1>6 DEF Path

\* An item is put behind.
LEMMA PathGrow ==
  ASSUME NEW r \in Seq(Item), NEW p, Path(p, r), NEW x \in Item, NEW d \in Place, Leads(p[Len(p)], x, d)
  PROVE  /\ Path(Append(p, d), Append(r, x)) /\ Append(p, d)[1] = p[1]
         /\ Append(p, d)[Len(Append(p, d))] = d /\ Append(p, d) \in Seq(Place)
<1>1. /\ p \in Seq(Place) /\ Len(p) = Len(r) + 1 /\ Len(r) \in Nat /\ Len(p) \in Nat
  BY DEF Path
<1>2. /\ Append(p, d) \in Seq(Place) /\ Len(Append(p, d)) = Len(p) + 1
      /\ Append(p, d)[Len(p) + 1] = d /\ \A k \in 1 .. Len(p) : Append(p, d)[k] = p[k]
  BY <1>1
<1>3. /\ Append(r, x) \in Seq(Item) /\ Len(Append(r, x)) = Len(r) + 1
      /\ Append(r, x)[Len(r) + 1] = x /\ \A k \in 1 .. Len(r) : Append(r, x)[k] = r[k]
  BY <1>1
<1> DEFINE q == Append(p, d)
           t == Append(r, x)
<1> HIDE DEF q, t
<1>4. ASSUME NEW k \in 1 .. Len(t) PROVE Leads(q[k], t[k], q[k + 1])
  <2>1. CASE k = Len(r) + 1
    BY <1>1, <1>2, <1>3, <2>1 DEF q, t
  <2>2. CASE k # Len(r) + 1
    <3>1. k \in 1 .. Len(r) /\ k \in 1 .. Len(p) /\ k + 1 \in 1 .. Len(p)
      BY <1>1, <1>3, <2>2 DEF t
    <3> QED BY <1>2, <1>3, <3>1 DEF Path, q, t
  <2> QED BY <2>1, <2>2
<1>5. 1 \in 1 .. Len(p)
  BY <1>1
<1> QED BY <1>1, <1>2, <1>3, <1>4, <1>5 DEF Path, q, t

\* What the types say of a ring in use.
LEMMA RingLaws ==
  ASSUME TxInv
  PROVE  /\ ring \in Seq(Item) /\ use \in Uses
         /\ txdBrk \in BOOLEAN /\ brkRaw \in BOOLEAN /\ brkFlg \in BOOLEAN /\ waitBrk \in BOOLEAN
         /\ brkEna \in BOOLEAN /\ cur \in Seq(Byte \cup {Junk})
  BY DEF TxInv, TxTypes, TypeOK, Item

\* It holds at first: in front of every call.
LEMMA StreamInit == Init => StreamInv
<1> SUFFICES ASSUME Init PROVE StreamInv
  OBVIOUS
<1> DEFINE g == [w |-> NoTask, i |-> 0, n |-> 0, b |-> FALSE]
<1>1. g \in Place /\ Past(g, 0) = g
  <2>1. g \in Place /\ g.i + 0 <= g.n
    BY TxAssumption DEF Place
  <2> QED BY <2>1, PastLaws
<1>2. InOrder(sym, txFifo) /\ Last = Start
  BY DEF Init, InOrder, Last, LastOf
<1>3. Reached(g)
  BY <1>2, ReadyLaws DEF Init, Reached
<1>4. Piece(<< >>, g)
  BY DEF Piece
<1>5. /\ Path(<<g>>, << >>) /\ <<g>> \in Seq(Places) /\ Len(<<g>>) = 1 /\ <<g>>[1] = g
      /\ g \in Places
  <2>1. ~g.b
    OBVIOUS
  <2> HIDE DEF g
  <2>2. g \in Places
    BY <1>1, <2>1 DEF Places
  <2>3. <<g>> \in Seq(Place) /\ <<g>> \in Seq(Places) /\ Len(<<g>>) = 1 /\ <<g>>[1] = g /\ Len(<< >>) = 0
    BY <1>1, <2>2
  <2> QED BY <2>2, <2>3 DEF Path
<1>6. \A w \in use.tasks : GoesOn(w, g)
  <2>1. \A w \in use.tasks : pc[w] = "idle" /\ rest[w] = << >> /\ ~brk[w]
    BY UseLaws DEF Init
  <2> HIDE DEF g
  <2>2. g.i = g.n /\ ~g.b /\ g.n \in Nat
    BY DEF g
  <2>3. Len(<< >>) = 0 /\ g.i + 0 = g.n
    BY <2>2, <2>1 DEF g
  <2> QED BY <1>4, <2>1, <2>2, <2>3 DEF GoesOn
<1>7. Stream(g, <<g>>)
  <2> HIDE DEF g
  <2> QED BY <1>1, <1>3, <1>4, <1>5, <1>6 DEF Init, Stream
<1>8. \A w \in Writers : pc[w] = "idle"
  BY DEF Init
<1> HIDE DEF g
<1> QED BY <1>2, <1>5, <1>7, <1>8 DEF StreamInv

\* A step that leaves line, handler, ring and writers alone.
LEMMA StreamSame ==
  ASSUME StreamInv,
         UNCHANGED <<use, pc, calls, rest, brk, ring, cur, lenTot, brkFlg, waitBrk, brkEna, brkRaw, txdBrk, sym, txFifo>>
  PROVE  StreamInv'
<1>1. Last' = Last
  BY DEF Last
<1>2. \A g : Reached(g) => Reached(g)'
  BY <1>1 DEF Reached
<1>3. ASSUME NEW w, NEW q, GoesOn(w, q) PROVE GoesOn(w, q)'
  <2>1. use' = use /\ pc' = pc /\ calls' = calls /\ rest' = rest /\ brk' = brk
    OBVIOUS
  <2> QED BY ONLY <1>3, <2>1 DEF GoesOn
<1>4. \A g, p : Stream(g, p) => Stream(g, p)'
  BY <1>2, <1>3 DEF Stream
<1>5. Places' = Places
  BY DEF Places
<1> QED BY <1>4, <1>5 DEF StreamInv

\* The transmitter: a byte that leaves changes nothing behind it, and a break is
\* sent only at the end of the call that asked for it.
LEMMA StreamHw ==
  ASSUME TxInv, StreamInv, Hw, use.ring > 0
  PROVE  StreamInv' /\ Follows(sym, sym')
<1>1. PICK g \in Place, p \in Seq(Places) : Stream(g, p) /\ g \in Places
  BY DEF StreamInv, Places
<1>2. UNCHANGED <<use, pc, calls, rest, brk, ring, cur, lenTot, brkFlg, waitBrk, brkEna, txdBrk>>
  BY DEF Hw, SendByte, SendBreak, taskVars, itemVars
<1>3. /\ InOrder(sym, txFifo)
      /\ \A w \in Writers : pc'[w] # "idle" => w \in use'.tasks
  BY <1>2 DEF StreamInv
<1>4. ASSUME InOrder(sym', txFifo'), Reached(g)' PROVE StreamInv'
  <2>1. Stream(g, p)'
    BY <1>1, <1>2, <1>4 DEF Stream, GoesOn
  <2>2. Places' = Places
    BY <1>2 DEF Places
  <2> QED BY <1>1, <1>3, <1>4, <2>1, <2>2 DEF StreamInv
<1>5. CASE SendByte
  <2>1. txFifo # << >> /\ sym' = Head(txFifo) /\ txFifo' = Tail(txFifo) /\ brkRaw' = brkRaw
    BY <1>5 DEF SendByte
  <2>2. InOrder(sym', txFifo') /\ Last' = Last
    BY <1>3, <2>1, LineShift DEF Last
  <2>3. Follows(sym, sym')
    BY <1>3, <2>1 DEF InOrder
  <2>4. Reached(g)'
    BY <1>1, <1>2, <2>1, <2>2 DEF Stream, Reached
  <2> QED BY <1>4, <2>2, <2>3, <2>4
<1>6. CASE SendBreak
  <2>1. txdBrk /\ ~brkRaw /\ txFifo = << >> /\ sym' = Break /\ brkRaw' /\ txFifo' = << >>
    BY <1>6 DEF SendBreak
  <2>2. Last = sym /\ Last' = Break /\ Follows(sym, Break) /\ g.i = g.n
    BY <1>1, <2>1 DEF Last, LastOf, Stream, Reached
  <2>3. InOrder(sym', txFifo')
    BY <1>3, <2>1 DEF InOrder
  <2>4. Reached(g)'
    <3>1. ~(g.i < g.n)
      BY <1>1, <2>2, TxAssumption DEF Place
    <3> QED BY <1>1, <1>2, <2>1, <2>2, <3>1, ReadyLaws DEF Stream, Reached
  <2> QED BY <1>4, <2>1, <2>2, <2>3, <2>4
<1> QED BY <1>5, <1>6 DEF Hw

\* Between two items the handler is at the first place of the ring.
LEMMA NoneOut ==
  ASSUME NEW g \in Place, NEW p, Stream(g, p), lenTot = 0 \/ cur = << >>
  PROVE  /\ cur = << >> /\ p[1] = g /\ g.i \in Nat /\ g.n \in Nat
         /\ lenTot = 0 <=> g.i = g.n
<1>1. g.i \in Nat /\ g.n \in Nat
  BY TxAssumption DEF Place
<1>2. lenTot = g.n - g.i /\ g.i <= g.n /\ p[1] = Past(g, Len(cur)) /\ Piece(cur, g)
  BY DEF Stream, Reached
<1>3. cur \in Seq(Byte) /\ Len(cur) \in Nat /\ g.i + Len(cur) <= g.n
  BY <1>2 DEF Piece
<1>4. cur = << >>
  <2>1. cur = << >> <=> Len(cur) = 0
    BY <1>3, EmptyLen
  <2> QED BY <1>1, <1>2, <1>3, <2>1
<1>5. Past(g, 0) = g
  BY <1>1, <1>2, PastLaws
<1> QED BY <1>1, <1>2, <1>4, <1>5

\* The handler takes an item from the ring: a description between two calls, data
\* inside one.
LEMMA StreamItem ==
  ASSUME TxInv, StreamInv, isr_tx_event \/ isr_tx_item, use.ring > 0
  PROVE  StreamInv'
<1>1. PICK g \in Place, p \in Seq(Places) : Stream(g, p) /\ g \in Places
  BY DEF StreamInv, Places
<1>2. /\ ring \in Seq(Item) /\ ring # << >> /\ ring' = Tail(ring) /\ (lenTot = 0 \/ cur = << >>)
      /\ UNCHANGED <<use, pc, calls, rest, brk, waitBrk, brkEna, brkRaw, txdBrk, sym, txFifo>>
  BY RingLaws DEF isr_tx_event, isr_tx_item, NeedItem, taskVars, intVars, hwVars
<1>3. cur = << >> /\ p[1] = g /\ g.i \in Nat /\ g.n \in Nat /\ (lenTot = 0 <=> g.i = g.n)
  BY <1>1, <1>2, NoneOut
<1>4. /\ Path(Tail(p), Tail(ring)) /\ Tail(p)[1] = p[2] /\ Leads(g, Head(ring), p[2])
      /\ Tail(p)[Len(Tail(p))] = p[Len(p)] /\ p[2] \in Place /\ Tail(p) \in Seq(Place)
  BY <1>1, <1>2, <1>3, PathShift DEF Stream
<1>5. Head(ring) \in Item /\ Last' = Last /\ Places' = Places /\ Tail(p) \in Seq(Places) /\ p[2] \in Places
  <2>1. Len(p) = Len(ring) + 1 /\ Len(ring) \in Nat /\ Len(ring) > 0
    BY <1>1, <1>2 DEF Stream, Path
  <2>2. Tail(p) \in Seq(Places) /\ p[2] \in Places
    BY <2>1
  <2>3. Head(ring) \in Item
    BY <1>2
  <2>4. Places' = Places /\ Last' = Last
    BY <1>2 DEF Last, Places
  <2> QED BY <2>2, <2>3, <2>4
<1>6. \A w \in use'.tasks : GoesOn(w, Tail(p)[Len(Tail(p))])'
  BY <1>1, <1>2, <1>4 DEF Stream, GoesOn
<1>7. ASSUME NEW h \in Places, Reached(h)', Piece(cur', h), p[2] = Past(h, Len(cur')) PROVE StreamInv'
  <2>1. Stream(h, Tail(p))'
    BY <1>2, <1>4, <1>6, <1>7 DEF Stream
  <2> QED BY <1>2, <1>5, <2>1 DEF StreamInv
<1>8. CASE isr_tx_event
  <2>1. /\ lenTot = 0 /\ cur' = << >>
        /\ Head(ring).event => lenTot' = Head(ring).size /\ (brkFlg' <=> brkFlg \/ Head(ring).brk)
    BY <1>8 DEF isr_tx_event
  <2>2. Head(ring).event
    <3>1. SUFFICES ASSUME ~Head(ring).event PROVE FALSE
      OBVIOUS
    <3>2. Head(ring).data # << >> /\ Piece(Head(ring).data, g)
      BY <1>4, <3>1 DEF Leads
    <3> QED BY <1>3, <2>1, <3>2, PieceOrder
  <2> DEFINE h == p[2]
  <2>3. /\ ~g.b /\ h.i = 0 /\ h.n = Head(ring).size /\ h.n > 0 /\ h.b = Head(ring).brk
        /\ h \in Place /\ h \in Places
    BY <1>4, <1>5, <2>2 DEF Leads
  <2> HIDE DEF h
  <2>4. h.n \in Nat /\ h.i + 0 <= h.n
    BY <2>3, TxAssumption DEF Place
  <2>5. Piece(<< >>, h) /\ h = Past(h, 0)
    <3>1. Past(h, 0) = h
      BY <2>3, <2>4, PastLaws
    <3> QED BY <2>4, <3>1 DEF Piece
  <2>6. ~txdBrk /\ ~brkFlg /\ ~waitBrk /\ ~brkEna /\ Ready(Last)
    BY <1>1, <1>3, <2>1, <2>3 DEF Stream, Reached
  <2>7. Reached(h)'
    <3>1. lenTot' = h.n - h.i /\ h.i <= h.n /\ h.i < h.n /\ h.i # h.n /\ ~(0 < h.i)
      BY <2>1, <2>2, <2>3, <2>4
    <3> QED BY <1>2, <1>5, <2>1, <2>2, <2>3, <2>6, <3>1 DEF Reached
  <2>8. h = Past(h, Len(<< >>))
    BY <2>5
  <2> QED BY <1>7, <2>1, <2>3, <2>5, <2>7, <2>8 DEF h
<1>9. CASE isr_tx_item
  <2>1. lenTot # 0 /\ cur' = Head(ring).data /\ UNCHANGED <<lenTot, brkFlg>>
    BY <1>9 DEF isr_tx_item
  <2>2. Piece(Head(ring).data, g) /\ p[2] = Past(g, Len(Head(ring).data))
    BY <1>3, <1>4, <2>1 DEF Leads
  <2>3. Reached(g)'
    BY <1>1, <1>2, <1>5, <2>1 DEF Stream, Reached
  <2> QED BY <1>1, <1>7, <2>1, <2>2, <2>3
<1> QED BY <1>8, <1>9

\* The handler fills in what fits: it comes as much further, and asks for the break
\* with the last byte.
LEMMA StreamFill ==
  ASSUME TxInv, StreamInv, isr_tx_fill, use.ring > 0
  PROVE  StreamInv'
<1>1. PICK g \in Place, p \in Seq(Places) : Stream(g, p) /\ g \in Places
  BY DEF StreamInv, Places
<1>2. PICK k : k = MinOf(Len(cur), isr.rem)
  OBVIOUS
<1> DEFINE due == k = Len(cur) /\ brkFlg /\ lenTot = k
<1>3. /\ Filling /\ cur # << >> /\ lenTot # 0
      /\ txFifo' = txFifo \o Upto(cur, k) /\ cur' = From(cur, k) /\ lenTot' = lenTot - k
      /\ IF due THEN txdBrk' /\ ~brkRaw' /\ brkEna' /\ waitBrk'
                ELSE UNCHANGED <<txdBrk, brkRaw, brkEna, waitBrk>>
      /\ UNCHANGED <<use, pc, calls, rest, brk, ring, brkFlg, sym>>
  BY <1>2 DEF isr_tx_fill, NeedItem, LeftOver, taskVars
<1> HIDE DEF due
<1>4. /\ Piece(cur, g) /\ cur \in Seq(Byte) /\ Len(cur) \in Nat /\ Len(cur) > 0
      /\ g.i \in Nat /\ g.n \in Nat /\ g.i + Len(cur) <= g.n
      /\ lenTot = g.n - g.i /\ p[1] = Past(g, Len(cur))
  <2>1. Piece(cur, g) /\ cur \in Seq(Byte) /\ g.i + Len(cur) <= g.n
        /\ lenTot = g.n - g.i /\ p[1] = Past(g, Len(cur))
    BY <1>1 DEF Stream, Reached, Piece
  <2>2. Len(cur) \in Nat /\ (cur = << >> <=> Len(cur) = 0)
    BY <2>1, EmptyLen
  <2> QED BY <1>3, <2>1, <2>2, TxAssumption DEF Place
<1>5. k \in 1 .. Len(cur) /\ k \in 0 .. Len(cur) /\ k \in Nat /\ k > 0
  <2>1. isr.rem \in Nat /\ isr.rem > 0
    BY <1>3, FifoLaws DEF TxInv, Filling
  <2>2. k \in Nat /\ k <= Len(cur) /\ (k = Len(cur) \/ k = isr.rem)
    BY <1>2, <1>4, <2>1, MinLaws
  <2> QED BY <1>4, <2>1, <2>2
<1>6. PICK h \in Place : h = Past(g, k)
  BY <1>4, <1>5, PieceCut
<1>7. /\ Piece(From(cur, k), h) /\ Past(h, Len(From(cur, k))) = p[1]
      /\ h.i = g.i + k /\ h.n = g.n /\ h.b = g.b
  <2>1. /\ Piece(From(cur, k), h) /\ Len(From(cur, k)) = Len(cur) - k
        /\ Past(h, Len(cur) - k) = Past(g, Len(cur))
    BY <1>4, <1>5, <1>6, PieceCut
  <2>2. g.i + k <= g.n
    BY <1>4, <1>5
  <2>3. h.i = g.i + k /\ h.n = g.n /\ h.b = g.b
    BY <1>5, <1>6, <2>2, PastLaws
  <2> QED BY <1>4, <2>1, <2>3
<1>8. /\ cur[1] \in Byte /\ cur[1].i = g.i + 1 /\ g.i < g.n
      /\ \A j \in 1 .. Len(cur) - 1 : Follows(cur[j], cur[j + 1])
      /\ g.i > 0 => Follows(g, cur[1])
      /\ cur[k] = h
      /\ g.i + k = g.n => IF g.b THEN Follows(cur[k], Break) ELSE Ready(cur[k])
  BY <1>3, <1>4, <1>5, <1>6, PieceOrder
<1>9. /\ g.i = 0 => Ready(Last)
      /\ g.i > 0 => Last = g
      /\ ~txdBrk /\ ~waitBrk /\ ~brkEna /\ (brkFlg <=> g.b)
  <2>1. g.i < g.n /\ g.i # g.n /\ (g.i > 0 => 0 < g.i)
    BY <1>4, <1>8
  <2> QED BY <1>1, <2>1 DEF Stream, Reached
<1>10. Follows(LastOf(sym, txFifo), cur[1])
  <2>1. g.i = 0 => cur[1].i = 1
    BY <1>8
  <2>2. g.i = 0 \/ g.i > 0
    BY <1>4
  <2> QED BY <1>8, <1>9, <2>1, <2>2, ReadyLaws DEF Last
<1>11. InOrder(sym, txFifo') /\ LastOf(sym, txFifo') = cur[k]
  <2>1. InOrder(sym, txFifo)
    BY DEF StreamInv
  <2>2. k # 0
    BY <1>5
  <2> QED BY <1>3, <1>4, <1>5, <1>8, <1>10, <2>1, <2>2, LinePut
<1>12. Reached(h)'
  <2>1. Last' = h
    BY <1>3, <1>8, <1>11 DEF Last
  <2>2. /\ lenTot' = h.n - h.i /\ h.i <= h.n /\ h.i # 0
        /\ (h.i < h.n \/ h.i = h.n) /\ (h.i < h.n => h.i # h.n)
    <3>1. lenTot' = (g.n - g.i) - k
      BY <1>3, <1>4
    <3> QED BY <1>4, <1>5, <1>7, <3>1
  <2>3. due <=> h.i = h.n /\ h.b
    <3>1. h.i = h.n <=> lenTot = k
      BY <1>4, <1>5, <1>7
    <3>2. lenTot = k => k = Len(cur)
      BY <1>4, <1>5
    <3> QED BY <1>7, <1>9, <3>1, <3>2 DEF due
  <2>4. CASE due
    BY <1>3, <1>7, <1>8, <1>9, <2>1, <2>2, <2>3, <2>4 DEF Reached
  <2>5. CASE ~due
    BY <1>3, <1>7, <1>8, <1>9, <2>1, <2>2, <2>3, <2>5 DEF Reached
  <2> QED BY <2>4, <2>5
<1>13. Stream(h, p)'
  <2>1. \A w \in use.tasks : GoesOn(w, p[Len(p)])'
    BY <1>1, <1>3 DEF Stream, GoesOn
  <2> QED BY <1>1, <1>3, <1>7, <1>12, <2>1 DEF Stream
<1>14. h \in Places /\ Places' = Places
  BY <1>1, <1>3, <1>6, <1>7 DEF Places
<1> QED BY <1>3, <1>11, <1>13, <1>14 DEF StreamInv

\* The handler.
LEMMA StreamIsr ==
  ASSUME TxInv, StreamInv, Isr, use.ring > 0
  PROVE  StreamInv'
<1>1. CASE isr_stuck \/ isr_tx_begin \/ isr_tx_end \/ isr_tx_done
  BY <1>1, StreamSame DEF isr_stuck, isr_tx_begin, isr_tx_end, isr_tx_done, taskVars, itemVars, semVars, hwVars
<1>2. CASE isr_tx_event \/ isr_tx_item
  BY <1>2, StreamItem
<1>3. CASE isr_tx_fill
  BY <1>3, StreamFill
<1>4. CASE isr_brk_done
  <2>1. PICK g \in Place, p \in Seq(Places) : Stream(g, p) /\ g \in Places
    BY DEF StreamInv, Places
  <2>2. /\ brkEna /\ brkRaw /\ ~txdBrk' /\ ~brkEna' /\ ~brkRaw'
        /\ brkFlg => ~brkFlg' /\ ~waitBrk'
        /\ UNCHANGED <<use, pc, calls, rest, brk, ring, cur, lenTot, sym, txFifo>>
    BY <1>4 DEF isr_brk_done, BrkDonePending, taskVars
  <2>3. txdBrk /\ brkFlg /\ g.b /\ g.i = g.n /\ Ready(Last) /\ ~(g.i < g.n) /\ Last' = Last
    <3>1. txdBrk /\ g.b /\ g.i = g.n /\ brkFlg /\ Ready(Last)
      BY <2>1, <2>2 DEF Stream, Reached
    <3>2. ~(g.i < g.n)
      BY <2>1, <3>1, TxAssumption DEF Place
    <3> QED BY <2>2, <3>1, <3>2 DEF Last
  <2>4. Reached(g)'
    BY <2>1, <2>2, <2>3 DEF Stream, Reached
  <2>5. Stream(g, p)'
    BY <2>1, <2>2, <2>4 DEF Stream, GoesOn
  <2>6. Places' = Places
    BY <2>2 DEF Places
  <2> QED BY <2>1, <2>2, <2>5, <2>6 DEF StreamInv
<1>5. CASE isr_tx_wake
  BY <1>5 DEF isr_tx_wake
<1> QED BY <1>1, <1>2, <1>3, <1>4, <1>5 DEF Isr

\* The one writer takes a step: where it goes on from then is the end of the path.
LEMMA WriterGoes ==
  ASSUME TxInv, StreamInv, Calm(use), use.ring > 0, NEW w \in use.tasks, NEW from, NEW to, Goto(w, from, to),
         NEW g \in Places, NEW p \in Seq(Places), Stream(g, p),
         UNCHANGED <<use, cur, lenTot, brkFlg, waitBrk, brkEna, brkRaw, txdBrk, sym, txFifo>>,
         NEW q \in Seq(Places), Path(q, ring'), q[1] = p[1], GoesOn(w, q[Len(q)])'
  PROVE  StreamInv'
<1>1. w \in Writers /\ TypeOK
  BY RingLaws, UseLaws DEF TxInv, TxTypes
<1>2. \A v \in Writers : v # w => pc'[v] = pc[v]
  BY <1>1, GotoLaws
<1>3. \A v \in use'.tasks : v = w
  BY DEF Calm
<1>4. Reached(g)'
  BY DEF Stream, Reached, Last
<1>5. Stream(g, q)'
  BY <1>3, <1>4 DEF Stream
<1>6. \A v \in Writers : pc'[v] # "idle" => v \in use'.tasks
  BY <1>2 DEF StreamInv
<1>7. Places' = Places
  BY DEF Places
<1> QED BY <1>5, <1>6, <1>7 DEF StreamInv

\* A call begins: there was none, or none with a break.
LEMMA StreamCall ==
  ASSUME TxInv, StreamInv, Calm(use), use.ring > 0, NEW w \in Writers, uart_tx_all(w)
  PROVE  StreamInv'
<1>1. PICK g \in Place, p \in Seq(Places) : Stream(g, p) /\ g \in Places
  BY DEF StreamInv, Places
<1>2. PICK n \in 1 .. use.size, b \in use.breaks :
        /\ rest' = [rest EXCEPT ![w] = [i \in 1 .. n |-> [w |-> w, i |-> i, n |-> n, b |-> b]]]
        /\ brk' = [brk EXCEPT ![w] = b]
  BY DEF uart_tx_all
<1>3. /\ Goto(w, "idle", "wr_take") /\ w \in use.tasks /\ calls[w] < use.calls
      /\ calls' = [calls EXCEPT ![w] = calls[w] + 1]
      /\ UNCHANGED <<use, ring, cur, lenTot, brkFlg, waitBrk, brkEna, brkRaw, txdBrk, sym, txFifo>>
  BY DEF uart_tx_all, Call, itemVars, intVars, hwVars
<1>4. n \in 1 .. MaxSize /\ n \in Nat /\ b \in BOOLEAN /\ MaxSize \in Nat
      /\ use.calls \in Nat /\ calls[w] \in Nat /\ TypeOK
  <2>1. use \in Uses /\ TypeOK
    BY RingLaws DEF TxInv, TxTypes
  <2>2. use.size \in 1 .. MaxSize /\ use.breaks \subseteq BOOLEAN /\ use.calls \in Nat
    BY <2>1, UseLaws, TxAssumption DEF Use
  <2>3. calls[w] \in Nat
    BY <2>1 DEF TypeOK
  <2> QED BY <2>1, <2>2, <2>3, TxAssumption
<1> DEFINE m == [i \in 1 .. n |-> [w |-> w, i |-> i, n |-> n, b |-> b]]
           c == [w |-> w, i |-> 0, n |-> n, b |-> b]
           q == p[Len(p)]
<1>5. pc[w] = "idle" /\ pc'[w] = "wr_take" /\ rest'[w] = m /\ brk'[w] = b /\ calls'[w] = calls[w] + 1
  BY <1>2, <1>3, <1>4, GotoLaws DEF TypeOK
<1>6. /\ m \in Seq(Byte) /\ Len(m) = n /\ m # << >> /\ c.i = 0 /\ c.n = n
      /\ \A j \in 1 .. n : m[j] = Past(c, j)
  <2>1. m \in [1 .. n -> Byte]
    BY <1>4 DEF Byte
  <2>2. m \in Seq(Byte) /\ Len(m) = n
    BY <1>4, <2>1
  <2>3. m # << >>
    BY <2>2
  <2>4. ASSUME NEW j \in 1 .. n PROVE m[j] = Past(c, j)
    <3>1. m[j] = [w |-> w, i |-> j, n |-> n, b |-> b] /\ 0 + j = j
      BY <1>4
    <3> QED BY <3>1 DEF Past
  <2> QED BY <2>2, <2>3, <2>4
<1> HIDE DEF m, c
<1>7. Piece(m, c) /\ c = [w |-> w, i |-> 0, n |-> Len(m), b |-> b]
  <2>1. 0 + Len(m) <= n
    BY <1>4, <1>6
  <2> QED BY <1>6, <2>1 DEF Piece, c
<1>8. q.i = q.n /\ ~q.b
  <2>1. /\ q.b => use.calls <= calls[w]
        /\ q.i + Len(rest[w]) = q.n /\ rest[w] = << >>
    BY <1>1, <1>3, <1>5 DEF Stream, GoesOn
  <2>2. q \in Place
    <3>1. p \in Seq(Place) /\ Len(p) = Len(ring) + 1 /\ Len(ring) \in Nat
      BY <1>1, RingLaws DEF Stream, Path
    <3>2. p[Len(p)] \in Places
      BY <3>1
    <3> QED BY <3>2 DEF Places
  <2>3. q.i \in Nat
    BY <2>2, TxAssumption DEF Place
  <2>4. Len(rest[w]) = 0
    BY <2>1
  <2> HIDE DEF q
  <2> QED BY <1>3, <1>4, <2>1, <2>3, <2>4
<1>9. b => use.calls <= calls[w] + 1 /\ TRUE \in use.breaks
  <2>1. b => use.calls <= 1
    BY <1>2 DEF Calm
  <2>2. b => use.calls <= calls[w] + 1
    BY <1>4, <2>1
  <2>3. b => TRUE \in use.breaks
    <3>1. b \in use.breaks /\ (b = TRUE \/ b = FALSE)
      BY <1>2, <1>4
    <3> QED BY <3>1
  <2> QED BY <2>2, <2>3
<1>10. GoesOn(w, p[Len(p)])'
  BY <1>3, <1>5, <1>6, <1>7, <1>8, <1>9 DEF GoesOn
<1> QED BY <1>1, <1>3, <1>10, WriterGoes DEF Stream

\* A call hands its description and then its bytes to the ring.
LEMMA StreamGive ==
  ASSUME TxInv, StreamInv, Calm(use), use.ring > 0, NEW w \in use.tasks, wr_event(w) \/ wr_data(w)
  PROVE  StreamInv'
<1>1. PICK g \in Place, p \in Seq(Places) : Stream(g, p) /\ g \in Places
  BY DEF StreamInv, Places
<1>2. /\ w \in Writers /\ TypeOK /\ ring \in Seq(Item)
      /\ rest[w] \in Seq(Byte) /\ Len(rest[w]) \in 0 .. MaxSize /\ brk[w] \in BOOLEAN
  <2>1. w \in Writers /\ TypeOK /\ ring \in Seq(Item)
    BY RingLaws, UseLaws DEF TxInv, TxTypes
  <2>2. rest[w] \in Seq(Byte) /\ brk[w] \in BOOLEAN /\ Len(rest[w]) <= MaxSize
    BY <2>1 DEF TypeOK, TxInv, TxTypes, Fits
  <2> QED BY <2>1, <2>2, TxAssumption
<1>3. PICK q \in Place : q = p[Len(p)] /\ q \in Places
  <2>1. p \in Seq(Place) /\ Len(p) = Len(ring) + 1 /\ Len(ring) \in Nat
    BY <1>1, <1>2 DEF Stream, Path
  <2>2. p[Len(p)] \in Places /\ Len(p) \in 1 .. Len(p)
    BY <2>1
  <2> QED BY <2>1, <2>2
<1>4. GoesOn(w, q) /\ Path(p, ring)
  BY <1>1, <1>3 DEF Stream
<1>5. UNCHANGED <<use, cur, lenTot, brkFlg, waitBrk, brkEna, brkRaw, txdBrk, sym, txFifo, calls, brk>>
  BY DEF wr_event, wr_data, intVars, hwVars
<1>6. ASSUME NEW x \in Item, NEW d \in Place, d \in Places, ring' = Append(ring, x), Leads(q, x, d), GoesOn(w, d)',
             NEW from, NEW to, Goto(w, from, to)
      PROVE  StreamInv'
  <2>1. PICK r \in Seq(Places) : Path(r, ring') /\ r[1] = p[1] /\ r[Len(r)] = d
    <3>1. ring \in Seq(Item) /\ x \in Item /\ d \in Place /\ Path(p, ring) /\ Leads(p[Len(p)], x, d)
      BY <1>2, <1>3, <1>4, <1>6
    <3>2. /\ Path(Append(p, d), Append(ring, x)) /\ Append(p, d)[1] = p[1]
          /\ Append(p, d)[Len(Append(p, d))] = d /\ Append(p, d) \in Seq(Place)
      BY <3>1, PathGrow
    <3>3. Append(p, d) \in Seq(Places)
      BY <1>6
    <3> QED BY <1>6, <3>2, <3>3
  <2>2. GoesOn(w, r[Len(r)])'
    BY <1>6, <2>1
  <2> QED BY <1>1, <1>5, <1>6, <2>1, <2>2, WriterGoes
<1>7. CASE wr_event(w)
  <2> DEFINE x == [event |-> TRUE, size |-> Len(rest[w]), brk |-> brk[w], data |-> <<Junk>>]
  <2>1. /\ Goto(w, "wr_event", "wr_data") /\ pc[w] = "wr_event" /\ pc'[w] = "wr_data"
        /\ ring' = Append(ring, x) /\ UNCHANGED rest
    BY <1>2, <1>7, GotoLaws DEF wr_event, RingSend
  <2>2. x \in Item
    BY <1>2 DEF Item
  <2>3. PICK d : d = [w |-> w, i |-> 0, n |-> Len(rest[w]), b |-> brk[w]]
    OBVIOUS
  <2>4. d \in Place
    BY <1>2, <2>3, TxAssumption DEF Place
  <2>5. /\ q.i = q.n /\ ~q.b /\ rest[w] # << >> /\ Piece(rest[w], d)
        /\ d.b => use.calls <= calls[w] /\ TRUE \in use.breaks
    BY <1>4, <2>1, <2>3 DEF GoesOn
  <2>6. d.i = 0 /\ d.n = Len(rest[w]) /\ d.n > 0 /\ d.i + Len(rest[w]) = d.n
    BY <1>2, <2>3, <2>5
  <2>7. Leads(q, x, d)
    BY <2>3, <2>5, <2>6 DEF Leads
  <2>8. GoesOn(w, d)'
    BY <1>4, <1>5, <2>1, <2>5, <2>6 DEF GoesOn
  <2> HIDE DEF x
  <2>9. d \in Places
    BY <2>4, <2>5 DEF Places
  <2> QED BY <1>6, <2>1, <2>2, <2>4, <2>7, <2>8, <2>9
<1>8. CASE wr_data(w)
  <2>1. PICK n : n = MinOf(Len(rest[w]), use.chunk)
    OBVIOUS
  <2> DEFINE x == [event |-> FALSE, size |-> n, brk |-> FALSE, data |-> Upto(rest[w], n)]
  <2>2. /\ Goto(w, "wr_data", "wr_enable") /\ pc[w] = "wr_data" /\ pc'[w] = "wr_enable"
        /\ ring' = Append(ring, x) /\ rest' = [rest EXCEPT ![w] = From(rest[w], n)]
    BY <1>2, <1>8, <2>1, GotoLaws DEF wr_data, RingSend
  <2>3. /\ Piece(rest[w], q) /\ q.i + Len(rest[w]) = q.n /\ rest[w] # << >>
        /\ q.b \/ brk[w] => use.calls <= calls[w]
        /\ brk[w] => TRUE \in use.breaks
    BY <1>4, <2>2 DEF GoesOn
  <2>4. n \in 1 .. Len(rest[w]) /\ n \in 0 .. Len(rest[w]) /\ n \in Nat /\ n > 0 /\ n \in 0 .. MaxSize
    <3>1. use.chunk \in Nat \ {0}
      BY RingLaws, TxAssumption DEF Use
    <3>2. Len(rest[w]) \in Nat /\ Len(rest[w]) > 0 /\ Len(rest[w]) <= MaxSize
      BY <1>2, <2>3, TxAssumption
    <3>3. n \in Nat /\ n <= Len(rest[w]) /\ (n = Len(rest[w]) \/ n = use.chunk)
      BY <2>1, <3>1, <3>2, MinLaws
    <3> QED BY <3>1, <3>2, <3>3, TxAssumption
  <2>5. PICK d \in Place : d = Past(q, n)
    BY <2>3, <2>4, PieceCut
  <2>6. /\ Piece(Upto(rest[w], n), q) /\ Len(Upto(rest[w], n)) = n
        /\ Piece(From(rest[w], n), d) /\ Len(From(rest[w], n)) = Len(rest[w]) - n
    <3>1. /\ Piece(Upto(rest[w], n), q) /\ Len(Upto(rest[w], n)) = n
          /\ Piece(From(rest[w], n), Past(q, n)) /\ Len(From(rest[w], n)) = Len(rest[w]) - n
      BY <2>3, <2>4, PieceCut
    <3> QED BY <2>5, <3>1
  <2>7. Upto(rest[w], n) \in Seq(Byte) /\ Upto(rest[w], n) # << >>
    BY <2>4, <2>6 DEF Piece
  <2>8. x \in Item
    <3>1. Upto(rest[w], n) \in Seq(Byte \cup {Junk})
      BY <2>7
    <3> QED BY <2>4, <3>1 DEF Item
  <2>9. Leads(q, x, d)
    BY <2>5, <2>6, <2>7 DEF Leads
  <2>10. rest'[w] = From(rest[w], n)
    BY <1>2, <2>2 DEF TypeOK
  <2>11. d.i + Len(rest'[w]) = d.n /\ d.b = q.b
    <3>1. q.i \in Nat /\ q.n \in Nat /\ q.i + n <= q.n
      BY <1>2, <2>3, <2>4, TxAssumption DEF Place
    <3>2. d.i = q.i + n /\ d.n = q.n /\ d.b = q.b
      BY <2>4, <2>5, <3>1, PastLaws
    <3> QED BY <1>2, <2>3, <2>4, <2>6, <2>10, <3>1, <3>2
  <2>12. GoesOn(w, d)'
    BY <1>5, <2>2, <2>3, <2>6, <2>10, <2>11 DEF GoesOn
  <2> HIDE DEF x
  <2>13. d \in Places
    BY <1>3, <2>5, <2>11 DEF Places
  <2> QED BY <1>6, <2>2, <2>5, <2>8, <2>9, <2>12, <2>13
<1> QED BY <1>7, <1>8

\* The other steps of a writer leave the ring alone.
LEMMA StreamTask ==
  ASSUME TxInv, StreamInv, Calm(use), use.ring > 0, NEW w \in Writers, Begin(w) \/ Step(w)
  PROVE  StreamInv'
<1>1. PICK g \in Place, p \in Seq(Places) : Stream(g, p) /\ g \in Places
  BY DEF StreamInv, Places
<1>2. TypeOK /\ use.ring # 0
  BY RingLaws, UseLaws DEF TxInv, TxTypes
<1>3. CASE uart_tx_all(w)
  BY <1>3, StreamCall
<1>4. CASE uart_tx_chars(w) \/ uart_wait_tx_done(w)
  BY <1>2, <1>4 DEF uart_tx_chars, uart_wait_tx_done
<1>5. CASE wr_take(w) \/ wr_enable(w) \/ wr_give(w) \/ wr_last(w)
  <2>1. PICK from \in {"wr_take", "wr_enable", "wr_give", "wr_last"},
             to \in {"wr_event", "wr_data", "wr_give", "wr_last", "idle"} :
          /\ Goto(w, from, to) /\ pc[w] = from /\ pc'[w] = to
          /\ from = "wr_take" => to = "wr_event" /\ UNCHANGED <<rest, brk>>
          /\ from = "wr_enable" => to = (IF rest[w] = << >> THEN "wr_give" ELSE "wr_data") /\ UNCHANGED <<rest, brk>>
          /\ from = "wr_give" => to = "wr_last" /\ UNCHANGED <<rest, brk>>
          /\ from = "wr_last" => to = "idle" /\ rest' = [rest EXCEPT ![w] = << >>] /\ brk' = [brk EXCEPT ![w] = FALSE]
    BY <1>2, <1>5, GotoLaws DEF wr_take, wr_enable, wr_give, wr_last, Take
  <2>2. w \in use.tasks
    BY <2>1 DEF StreamInv
  <2>3. UNCHANGED <<use, calls, ring, cur, lenTot, brkFlg, waitBrk, brkEna, brkRaw, txdBrk, sym, txFifo>>
    BY <1>5 DEF wr_take, wr_enable, wr_give, wr_last, itemVars, intVars, hwVars
  <2> DEFINE q == p[Len(p)]
  <2>4. GoesOn(w, q)
    BY <1>1, <2>2 DEF Stream
  <2> HIDE DEF q
  <2>5. GoesOn(w, q)'
    <3>1. rest'[w] = rest[w] /\ (brk'[w] => brk[w])
      <4>1. CASE from = "wr_last"
        BY <1>2, <2>1, <2>4, <4>1 DEF GoesOn, TypeOK
      <4>2. CASE from # "wr_last"
        BY <2>1, <4>2
      <4> QED BY <4>1, <4>2
    <3> QED BY <2>1, <2>3, <2>4, <3>1 DEF GoesOn
  <2> QED BY <1>1, <2>1, <2>2, <2>3, <2>5, WriterGoes DEF Stream, q
<1>6. CASE wr_event(w) \/ wr_data(w)
  <2>1. pc[w] # "idle"
    BY <1>2, <1>6, GotoLaws DEF wr_event, wr_data
  <2> QED BY <1>6, <2>1, StreamGive DEF StreamInv
<1>7. CASE wr_sem(w) \/ wr_fill(w) \/ wr_arm(w) \/ wr_break(w) \/ wr_brksem(w) \/ wr_semgive(w)
            \/ tc_take(w) \/ tc_fill(w) \/ WaitStep(w)
  <2>1. pc[w] \in DirectSteps \cup CharSteps \cup WaitSteps
    BY <1>7 DEF wr_sem, wr_fill, wr_arm, wr_break, wr_brksem, wr_semgive, tc_take, tc_fill, WaitStep, wt_take,
                wt_take_timeout, wt_stale, wt_check, wt_arm, wt_wait, wt_wait_timeout, wt_disarm, wt_give,
                Take, Goto, DirectSteps, CharSteps, WaitSteps
  <2> QED BY <2>1 DEF TxInv, Modes
<1> QED BY <1>3, <1>4, <1>5, <1>6, <1>7 DEF Begin, Step, WriteStep

\* Every step keeps the stream.
LEMMA StreamNext == TxInv /\ StreamInv /\ Calm(use) /\ [Next]_vars => StreamInv'
<1> SUFFICES ASSUME TxInv, StreamInv, Calm(use), [Next]_vars PROVE StreamInv'
  OBVIOUS
<1>1. UNCHANGED use
  BY UseSame
<1>2. CASE ~(use.ring > 0)
  BY <1>1, <1>2 DEF StreamInv
<1>3. CASE use.ring > 0
  <2>1. CASE UNCHANGED vars
    BY <2>1, StreamSame DEF vars, taskVars, itemVars, intVars, hwVars
  <2>2. CASE Hw \/ Isr
    BY <1>3, <2>2, StreamHw, StreamIsr
  <2>3. ASSUME NEW w \in Writers, Begin(w) \/ Step(w) PROVE StreamInv'
    BY <1>3, <2>3, StreamTask
  <2> QED BY <2>1, <2>2, <2>3 DEF Next
<1> QED BY <1>2, <1>3

\* All of it holds always, for such uses.
LEMMA OrderAlways ==
  ASSUME \A u \in Uses : Calm(u)
  PROVE  Spec => [](TxInv /\ OrderInv /\ StreamInv)
<1>1. Init => TxInv /\ OrderInv /\ StreamInv
  BY TxInvInit, OrderInit, StreamInit
<1>2. TxInv => Calm(use)
  BY RingLaws
<1>3. TxInv /\ OrderInv /\ StreamInv /\ [Next]_vars => (TxInv /\ OrderInv /\ StreamInv)'
  BY <1>2, TxInvNext, OrderNext, StreamNext
<1> QED BY <1>1, <1>3, PTL DEF Spec

\* UartTx.MessageOrder: whatever the sizes, the number of writers without a ring
\* and their interleaving with the handler and the transmitter, the bytes of a call
\* leave together and in order, and then the break it asked for.
THEOREM MessagesInOrder ==
  ASSUME \A u \in Uses : Calm(u)
  PROVE  Spec => MessageOrder
<1>1. TxInv /\ OrderInv /\ StreamInv /\ [Next]_vars => [Hw => Follows(sym, sym')]_vars
  <2>1. TxInv => use.ring = 0 \/ use.ring > 0
    BY RingLaws, UseLaws
  <2> QED BY <2>1, OrderHw, StreamHw
<1> QED BY <1>1, OrderAlways, PTL DEF Spec, MessageOrder

\* UartTx.HandlerReturns: the handler spins (uart.c:587) only for a break.  With no
\* ring, or with one through which a single writer sends without breaks, it never does.
THEOREM NeverSpins ==
  ASSUME \A u \in Uses : Calm(u) /\ (u.ring > 0 => TRUE \notin u.breaks)
  PROVE  Spec => []HandlerReturns
<1>1. TxInv /\ StreamInv => HandlerReturns
  <2> SUFFICES ASSUME TxInv, StreamInv PROVE ~isr.stuck
    BY DEF HandlerReturns
  <2>1. isr.stuck => waitBrk
    BY DEF TxInv, Modes
  <2>2. use \in Uses /\ (use.ring = 0 \/ use.ring > 0)
    BY RingLaws, UseLaws
  <2>3. CASE use.ring = 0
    BY <2>1, <2>3 DEF TxInv, Modes
  <2>4. CASE use.ring > 0
    <3>1. PICK g \in Places, p \in Seq(Places) : Stream(g, p)
      BY <2>4 DEF StreamInv
    <3>2. waitBrk => g.b
      BY <3>1 DEF Stream, Reached
    <3> QED BY <2>1, <2>2, <2>4, <3>2 DEF Places
  <2> QED BY <2>2, <2>3, <2>4
<1>2. \A u \in Uses : Calm(u)
  OBVIOUS
<1> QED BY <1>1, <1>2, OrderAlways, PTL

=============================================================================
