---------------------------- MODULE UartRxProofs ----------------------------
(***************************************************************************)
(* Proofs about UartRx, for any number of readers and flushers and any     *)
(* sizes of FIFO and ring: type correctness, that calls exclude each other, *)
(* that rx_buffered_len is exact, and that the driver implements ByteQueue; *)
(* and, as long as nobody flushes, that a stash is never forgotten.        *)
(***************************************************************************)
EXTENDS UartRx, FiniteSetTheorems, SequenceTheorems, TLAPS

\* Sequences cut and joined keep their bytes and have the expected lengths.
LEMMA CutType ==
  ASSUME NEW s \in Seq(Bytes), NEW k \in 0 .. Len(s)
  PROVE  /\ SubSeq(s, 1, k) \in Seq(Bytes) /\ Len(SubSeq(s, 1, k)) = k
         /\ Rest(s, k) \in Seq(Bytes) /\ Len(Rest(s, k)) = Len(s) - k
  BY DEF Rest

\* Joined sequences of bytes are a sequence of bytes, as long as both.
LEMMA JoinType ==
  ASSUME NEW r \in Seq(Bytes), NEW s \in Seq(Bytes)
  PROVE  r \o s \in Seq(Bytes) /\ Len(r \o s) = Len(r) + Len(s)
  OBVIOUS

\* Only the empty sequence has no elements.
LEMMA EmptyLen ==
  ASSUME NEW s \in Seq(Bytes)
  PROVE  Len(s) \in Nat /\ (s = << >> <=> Len(s) = 0)
  OBVIOUS

\* The empty sequence is a sequence of bytes.
LEMMA EmptyType == << >> \in Seq(Bytes) /\ Len(<< >>) = 0
  OBVIOUS

\* A byte that arrives makes the FIFO one longer.
LEMMA AppendType ==
  ASSUME NEW s \in Seq(Bytes), NEW b \in Bytes
  PROVE  Append(s, b) \in Seq(Bytes) /\ Len(Append(s, b)) = Len(s) + 1
  OBVIOUS

\* The number of the next byte is one.
LEMMA NextBytes ==
  ASSUME NEW n \in Bytes
  PROVE  (n + 1) % Marks \in Bytes
  BY RxAssumption DEF Bytes

Steps == ReadSteps \cup FlushSteps \cup {"idle"}

\* A step of one task changes its own entries only.
LEMMA GotoType ==
  ASSUME TypeOK, NEW t \in Tasks, NEW from, NEW to \in Steps, Goto(t, from, to)
  PROVE  pc' \in [Tasks -> Steps]
  BY DEF TypeOK, Goto, Steps

\* A pass of the handler preserves the type invariant.
LEMMA IsrType ==
  ASSUME TypeOK, ByteArrives \/ Isr
  PROVE  TypeOK'
<1> USE DEF TypeOK
<1>1. CASE ByteArrives
  <2>1. next' \in Bytes
    BY <1>1, NextBytes DEF ByteArrives
  <2>2. CASE Len(fifo) < FifoCap
    <3>1. fifo' \in Seq(Bytes) /\ Len(fifo') = Len(fifo) + 1
      BY <1>1, <2>2, AppendType DEF ByteArrives
    <3> QED BY <1>1, <2>1, <2>2, <3>1, EmptyLen, RxAssumption
            DEF ByteArrives, ringVars, fullVars, callVars
  <2>3. CASE ~(Len(fifo) < FifoCap)
    BY <1>1, <2>1, <2>3 DEF ByteArrives, ringVars, fullVars, callVars
  <2> QED BY <2>2, <2>3
<1>2. CASE isr_rx_to_ring
  <2>1. ring' \in Seq(Bytes) /\ Len(ring') = Len(ring) + Len(fifo)
    BY <1>2, JoinType DEF isr_rx_to_ring
  <2>2. Len(ring') + head' <= RingCap
    BY <1>2, <2>1, EmptyLen, RxAssumption DEF isr_rx_to_ring, Room
  <2>3. fifo' \in Seq(Bytes) /\ Len(fifo') <= FifoCap
    BY <1>2, RxAssumption DEF isr_rx_to_ring
  <2>4. buffered' \in Int
    BY <1>2 DEF isr_rx_to_ring
  <2> QED BY <1>2, <2>1, <2>2, <2>3, <2>4 DEF isr_rx_to_ring, fullVars, callVars
<1>3. CASE isr_rx_to_stash
  <2>1. /\ stash' \in Seq(Bytes) /\ Len(stash') <= FifoCap
        /\ fifo' \in Seq(Bytes) /\ Len(fifo') <= FifoCap
    BY <1>3, EmptyType, RxAssumption DEF isr_rx_to_stash
  <2> QED BY <1>3, <2>1 DEF isr_rx_to_stash, ringVars, callVars
<1>4. CASE isr_rx_full
  BY <1>4 DEF isr_rx_full, hwVars, ringVars, fullVars, callVars
<1>5. CASE isr_rx_ovf
  <2>1. fifo' \in Seq(Bytes) /\ Len(fifo') <= FifoCap
    BY <1>5, EmptyType, RxAssumption DEF isr_rx_ovf
  <2> QED BY <1>5, <2>1 DEF isr_rx_ovf, ringVars, fullVars, callVars
<1> QED BY <1>1, <1>2, <1>3, <1>4, <1>5 DEF Isr

\* A step of uart_read_bytes preserves the type invariant.
LEMMA ReadType ==
  ASSUME TypeOK, NEW t \in Tasks, Reads(t) \/ ReadStep(t)
  PROVE  TypeOK'
<1> USE DEF TypeOK
<1>1. CASE Reads(t)
  <2>1. PICK n \in 1 .. MaxRead : uart_read_bytes(t, n)
    BY <1>1 DEF Reads
  <2>2. pc' \in [Tasks -> Steps]
    BY <2>1, GotoType DEF uart_read_bytes, Steps, ReadSteps
  <2>3. length' \in [Tasks -> 0 .. MaxRead]
    BY <2>1, RxAssumption DEF uart_read_bytes
  <2> QED BY <2>1, <2>2, <2>3 DEF uart_read_bytes, hwVars, ringVars, fullVars, Steps
<1>2. CASE rd_take(t)
  <2>1. pc' \in [Tasks -> Steps]
    BY <1>2, GotoType DEF rd_take, Steps, ReadSteps
  <2> QED BY <1>2, <2>1 DEF rd_take, hwVars, ringVars, fullVars, Steps
<1>3. CASE rd_timeout(t)
  <2>1. pc' \in [Tasks -> Steps]
    BY <1>3, GotoType DEF rd_timeout, Steps
  <2> QED BY <1>3, <2>1 DEF rd_timeout, hwVars, ringVars, fullVars, Steps
<1>4. CASE rd_receive(t)
  <2>1. PICK k \in 1 .. Len(ring) :
          item' = SubSeq(ring, 1, k) /\ head' = k /\ ring' = Rest(ring, k)
    BY <1>4 DEF rd_receive
  <2>2. /\ item' \in Seq(Bytes) /\ ring' \in Seq(Bytes)
        /\ Len(ring') + head' = Len(ring) /\ head' \in Nat
    <3>1. Len(ring) \in Nat /\ k \in 0 .. Len(ring)
      BY EmptyLen
    <3>2. /\ SubSeq(ring, 1, k) \in Seq(Bytes) /\ Rest(ring, k) \in Seq(Bytes)
          /\ Len(Rest(ring, k)) = Len(ring) - k
      BY <3>1, CutType
    <3> QED BY <2>1, <3>1, <3>2
  <2>3. Len(ring') + head' <= RingCap
    BY <2>2, RxAssumption, EmptyLen
  <2> QED BY <1>4, <2>2, <2>3 DEF rd_receive, hwVars, fullVars, callVars
<1>5. CASE rd_copy(t)
  <2> DEFINE m == CopyLen(length[t], Len(item))
  <2>1. m \in 0 .. Len(item) /\ m \in 0 .. length[t]
    BY EmptyLen DEF CopyLen
  <2>2. SubSeq(item, 1, m) \in Seq(Bytes) /\ Rest(item, m) \in Seq(Bytes)
    BY <2>1, CutType
  <2>3. length' \in [Tasks -> 0 .. MaxRead]
    <3>1. length[t] - m \in 0 .. MaxRead
      BY <2>1, RxAssumption
    <3>2. length' = [length EXCEPT ![t] = length[t] - m]
      BY <1>5 DEF rd_copy
    <3> HIDE DEF m
    <3> QED BY <3>1, <3>2
  <2>4. buf' \in [Tasks -> Seq(Bytes)]
    BY <1>5, <2>2, JoinType DEF rd_copy
  <2>5. pc' \in [Tasks -> Steps]
    BY <1>5 DEF rd_copy, Steps, ReadSteps
  <2> QED BY <1>5, <2>2, <2>3, <2>4, <2>5 DEF rd_copy, hwVars, fullVars, Steps
<1>6. CASE rd_return(t)
  <2>1. pc' \in [Tasks -> Steps]
    BY <1>6, GotoType DEF rd_return, Steps, ReadSteps
  <2>2. head' \in Nat /\ Len(ring') + head' <= RingCap
    BY <1>6, EmptyLen, RxAssumption DEF rd_return
  <2> QED BY <1>6, <2>1, <2>2 DEF rd_return, hwVars, fullVars, Steps
<1>7. CASE rd_flag(t)
  <2>1. pc' \in [Tasks -> Steps]
    BY <1>7, GotoType DEF rd_flag, Steps, ReadSteps
  <2> QED BY <1>7, <2>1 DEF rd_flag, hwVars, ringVars, fullVars, Steps
<1>8. CASE rd_resend(t)
  <2>1. pc' \in [Tasks -> Steps]
    BY <1>8, GotoType DEF rd_resend, Steps, ReadSteps
  <2>2. ring' \in Seq(Bytes) /\ Len(ring') + head' <= RingCap
    BY <1>8, JoinType, EmptyLen, RxAssumption DEF rd_resend, Room, WithStash
  <2> QED BY <1>8, <2>1, <2>2 DEF rd_resend, hwVars, fullVars, Steps
<1>9. CASE rd_credit(t)
  <2>1. pc' \in [Tasks -> Steps]
    BY <1>9, GotoType DEF rd_credit, Steps, ReadSteps
  <2>2. buffered' \in Int
    BY <1>9, EmptyLen DEF rd_credit, Credit
  <2> QED BY <1>9, <2>1, <2>2 DEF rd_credit, hwVars, ringVars, fullVars, Steps
<1>10. CASE rd_clear(t)
  <2>1. pc' \in [Tasks -> Steps]
    BY <1>10, GotoType DEF rd_clear, Steps, ReadSteps
  <2>2. stash' = << >> /\ fullFlg' = FALSE
    BY <1>10 DEF rd_clear
  <2>3. stash' \in Seq(Bytes) /\ Len(stash') <= FifoCap
    BY <2>2, EmptyType, RxAssumption
  <2> QED BY <1>10, <2>1, <2>2, <2>3 DEF rd_clear, hwVars, ringVars, Steps
<1>11. CASE rd_enable(t)
  <2>1. pc' \in [Tasks -> Steps]
    BY <1>11, GotoType DEF rd_enable, Steps, ReadSteps
  <2> QED BY <1>11, <2>1 DEF rd_enable, EnableRx, hwVars, ringVars, fullVars, Steps
<1>12. CASE rd_give(t)
  <2>1. pc' \in [Tasks -> Steps]
    BY <1>12, GotoType DEF rd_give, Steps, ReadSteps
  <2> QED BY <1>12, <2>1 DEF rd_give, hwVars, ringVars, fullVars, Steps
<1>13. CASE rd_account(t)
  <2>1. pc' \in [Tasks -> Steps]
    BY <1>13, GotoType DEF rd_account, Steps
  <2>2. buffered' \in Int
    BY <1>13, EmptyLen DEF rd_account
  <2>3. length' \in [Tasks -> 0 .. MaxRead] /\ buf' \in [Tasks -> Seq(Bytes)]
    BY <1>13, RxAssumption DEF rd_account
  <2> QED BY <1>13, <2>1, <2>2, <2>3 DEF rd_account, hwVars, ringVars, fullVars, Steps
<1> QED BY <1>1, <1>2, <1>3, <1>4, <1>5, <1>6, <1>7, <1>8, <1>9, <1>10, <1>11,
           <1>12, <1>13 DEF ReadStep

\* A step of uart_flush preserves the type invariant.
LEMMA FlushType ==
  ASSUME TypeOK, NEW t \in Tasks, uart_flush(t) \/ FlushStep(t)
  PROVE  TypeOK'
<1> USE DEF TypeOK
<1>1. CASE uart_flush(t)
  <2>1. pc' \in [Tasks -> Steps]
    BY <1>1, GotoType DEF uart_flush, Steps, FlushSteps
  <2> QED BY <1>1, <2>1 DEF uart_flush, hwVars, ringVars, fullVars, Steps
<1>2. CASE fl_take(t)
  <2>1. pc' \in [Tasks -> Steps]
    BY <1>2, GotoType DEF fl_take, Steps, FlushSteps
  <2> QED BY <1>2, <2>1 DEF fl_take, hwVars, ringVars, fullVars, Steps
<1>3. CASE fl_disable(t)
  <2>1. pc' \in [Tasks -> Steps]
    BY <1>3, GotoType DEF fl_disable, Steps, FlushSteps
  <2> QED BY <1>3, <2>1 DEF fl_disable, hwVars, ringVars, fullVars, Steps
<1>4. CASE fl_head(t)
  <2>1. pc' \in [Tasks -> Steps]
    BY <1>4, GotoType DEF fl_head, Steps, FlushSteps
  <2>2. /\ head' \in Nat /\ Len(ring') + head' <= RingCap
        /\ item' \in Seq(Bytes) /\ buffered' \in Int
    BY <1>4, EmptyLen, RxAssumption DEF fl_head, Uncount
  <2> QED BY <1>4, <2>1, <2>2 DEF fl_head, hwVars, fullVars, Steps
<1>5. CASE fl_item(t)
  <2>1. PICK k \in 1 .. Len(ring) :
          LET rest == Rest(ring, k)
          IN  IF fullFlg /\ Len(stash) <= Room(rest, head)
                THEN /\ ring' = WithStash(rest)
                     /\ buffered' = buffered - k + Len(stash)
                     /\ fullFlg' = FALSE /\ stash' = << >>
                ELSE /\ ring' = rest
                     /\ buffered' = buffered - k
                     /\ UNCHANGED fullVars
    BY <1>5 DEF fl_item
  <2>2. Rest(ring, k) \in Seq(Bytes) /\ Len(Rest(ring, k)) = Len(ring) - k
    BY CutType, EmptyLen
  <2>3. /\ Len(stash) \in Nat /\ Len(ring) \in Nat
        /\ WithStash(Rest(ring, k)) \in Seq(Bytes)
        /\ Len(WithStash(Rest(ring, k))) = Len(ring) - k + Len(stash)
    BY <2>2, JoinType, EmptyLen DEF WithStash
  <2>4. /\ ring' \in Seq(Bytes) /\ Len(ring') + head <= RingCap
        /\ buffered' \in Int /\ fullFlg' \in BOOLEAN
        /\ stash' \in Seq(Bytes) /\ Len(stash') <= FifoCap
    <3>1. CASE fullFlg /\ Len(stash) <= Room(Rest(ring, k), head)
      <4>1. /\ ring' = WithStash(Rest(ring, k)) /\ buffered' = buffered - k + Len(stash)
            /\ fullFlg' = FALSE /\ stash' = << >>
        BY <2>1, <3>1
      <4>2. Len(stash) <= RingCap - (Len(ring) - k) - head
        BY <2>2, <3>1 DEF Room
      <4>3. ring' \in Seq(Bytes) /\ Len(ring') = Len(ring) - k + Len(stash)
        BY <2>3, <4>1
      <4>4. Len(ring') + head <= RingCap /\ buffered' \in Int
        BY <2>3, <4>1, <4>2, <4>3, RxAssumption
      <4>5. stash' \in Seq(Bytes) /\ Len(stash') <= FifoCap
        BY <4>1, EmptyType, RxAssumption
      <4> QED BY <4>1, <4>3, <4>4, <4>5
    <3>2. CASE ~(fullFlg /\ Len(stash) <= Room(Rest(ring, k), head))
      <4>1. ring' = Rest(ring, k) /\ buffered' = buffered - k /\ UNCHANGED fullVars
        BY <2>1, <3>2
      <4> QED BY <2>2, <2>3, <4>1, RxAssumption DEF fullVars
    <3> QED BY <3>1, <3>2
  <2> QED BY <1>5, <2>4 DEF fl_item, hwVars, callVars
<1>6. CASE fl_reset(t)
  <2>1. pc' \in [Tasks -> Steps]
    BY <1>6, GotoType DEF fl_reset, Steps, FlushSteps
  <2>2. fifo' \in Seq(Bytes) /\ Len(fifo') <= FifoCap
    BY <1>6, RxAssumption DEF fl_reset
  <2> QED BY <1>6, <2>1, <2>2 DEF fl_reset, ringVars, fullVars, Steps
<1>7. CASE fl_enable(t)
  <2>1. pc' \in [Tasks -> Steps]
    BY <1>7, GotoType DEF fl_enable, Steps, FlushSteps
  <2> QED BY <1>7, <2>1 DEF fl_enable, EnableRx, hwVars, ringVars, fullVars, Steps
<1>8. CASE fl_give(t)
  <2>1. pc' \in [Tasks -> Steps]
    BY <1>8, GotoType DEF fl_give, Steps
  <2> QED BY <1>8, <2>1 DEF fl_give, hwVars, ringVars, fullVars, Steps
<1> QED BY <1>1, <1>2, <1>3, <1>4, <1>5, <1>6, <1>7, <1>8 DEF FlushStep

\* The installed driver satisfies the type invariant.
LEMMA RxTypeInit == Init => TypeOK
<1> SUFFICES ASSUME Init PROVE TypeOK
  OBVIOUS
<1>1. 0 \in Bytes /\ 0 \in Nat /\ 0 \in Int
  BY RxAssumption DEF Bytes
<1>2. /\ fifo \in Seq(Bytes) /\ Len(fifo) <= FifoCap
      /\ ring \in Seq(Bytes) /\ item \in Seq(Bytes)
      /\ stash \in Seq(Bytes) /\ Len(stash) <= FifoCap
      /\ head \in Nat /\ Len(ring) + head <= RingCap
  BY EmptyType, RxAssumption DEF Init
<1>3. length \in [Tasks -> 0 .. MaxRead] /\ buf \in [Tasks -> Seq(Bytes)]
  BY EmptyType, RxAssumption DEF Init
<1> QED BY <1>1, <1>2, <1>3 DEF Init, TypeOK

\* Every step preserves the type invariant.
LEMMA RxTypeStep == TypeOK /\ [Next]_vars => TypeOK'
<1> SUFFICES ASSUME TypeOK, [Next]_vars PROVE TypeOK'
  OBVIOUS
<1>1. CASE ByteArrives \/ Isr
  BY <1>1, IsrType
<1>2. ASSUME NEW t \in Tasks, Reads(t) \/ ReadStep(t) PROVE TypeOK'
  BY <1>2, ReadType
<1>3. ASSUME NEW t \in Tasks, uart_flush(t) \/ FlushStep(t) PROVE TypeOK'
  BY <1>3, FlushType
<1>4. CASE UNCHANGED vars
  BY <1>4 DEF vars, hwVars, ringVars, fullVars, callVars, TypeOK
<1> QED BY <1>1, <1>2, <1>3, <1>4 DEF Next, Step, Tasks

\* Every variable of the receiving driver keeps its type: the ring never holds
\* more than its capacity with the item that is out, the FIFO batch always fits
\* the stash, and no read copies more than it was asked for.
THEOREM RxTypeCorrect == Spec => []TypeOK
  BY RxTypeInit, RxTypeStep, PTL DEF Spec

-----------------------------------------------------------------------------
(* The mutex.                                                              *)

\* The task in the middle of a read or of a flush holds rx_mux.
Holding   == (ReadSteps \ {"rd_take", "rd_account"}) \cup (FlushSteps \ {"fl_take"})
Exclusion == \A t \in Tasks : pc[t] \in Holding => mux = t

\* A reader that puts the stash into the ring finds it as it was.
Stashed   == {"rd_resend", "rd_credit", "rd_clear"}
StashHeld == \A t \in Tasks : pc[t] \in Stashed => fullFlg

RxInv == TypeOK /\ Exclusion /\ StashHeld

\* The hardware and the handler do not know the mutex, and take no stash away.
LEMMA IsrMutex ==
  ASSUME RxInv, ByteArrives \/ Isr
  PROVE  RxInv'
<1>1. UNCHANGED <<pc, mux>> /\ (fullFlg => fullFlg')
  BY DEF ByteArrives, Isr, isr_rx_to_ring, isr_rx_to_stash, isr_rx_full, isr_rx_ovf,
         fullVars, callVars
<1>2. TypeOK'
  BY IsrType DEF RxInv
<1> QED BY <1>1, <1>2 DEF RxInv, Exclusion, StashHeld

\* A step of a reader that takes or gives the mutex, or none of it, keeps the
\* exclusion; the flag falls only in the hands of the task that cleared it.
LEMMA ReadMutex ==
  ASSUME RxInv, NEW t \in Tasks, Reads(t) \/ ReadStep(t)
  PROVE  RxInv'
<1>0. TypeOK' /\ t # NoTask
  BY ReadType, RxAssumption DEF RxInv, Tasks
<1> SUFFICES Exclusion' /\ StashHeld'
  BY <1>0 DEF RxInv
<1> USE <1>0 DEF RxInv, TypeOK, Exclusion, StashHeld, Holding, Stashed, ReadSteps, FlushSteps, Goto
<1>1. CASE Reads(t)
  BY <1>1 DEF Reads, uart_read_bytes, fullVars
<1>2. CASE rd_take(t)
  BY <1>2, RxAssumption DEF rd_take, fullVars, Tasks
<1>3. CASE rd_timeout(t)
  BY <1>3 DEF rd_timeout, fullVars
<1>4. CASE rd_receive(t)
  BY <1>4 DEF rd_receive, fullVars, callVars
<1>5. CASE rd_copy(t)
  BY <1>5 DEF rd_copy, fullVars
<1>6. CASE rd_return(t)
  BY <1>6 DEF rd_return, fullVars
<1>7. CASE rd_flag(t)
  BY <1>7 DEF rd_flag, StashDue, fullVars
<1>8. CASE rd_resend(t)
  BY <1>8 DEF rd_resend, fullVars
<1>9. CASE rd_credit(t)
  BY <1>9 DEF rd_credit, fullVars
<1>10. CASE rd_clear(t)
  BY <1>10 DEF rd_clear
<1>11. CASE rd_enable(t)
  BY <1>11 DEF rd_enable, fullVars
<1>12. CASE rd_give(t)
  BY <1>12 DEF rd_give, fullVars
<1>13. CASE rd_account(t)
  BY <1>13 DEF rd_account, fullVars
<1> QED BY <1>1, <1>2, <1>3, <1>4, <1>5, <1>6, <1>7, <1>8, <1>9, <1>10, <1>11,
           <1>12, <1>13 DEF ReadStep

\* So does a step of a flush.
LEMMA FlushMutex ==
  ASSUME RxInv, NEW t \in Tasks, uart_flush(t) \/ FlushStep(t)
  PROVE  RxInv'
<1>0. TypeOK' /\ t # NoTask
  BY FlushType, RxAssumption DEF RxInv, Tasks
<1> SUFFICES Exclusion' /\ StashHeld'
  BY <1>0 DEF RxInv
<1> USE <1>0 DEF RxInv, TypeOK, Exclusion, StashHeld, Holding, Stashed, ReadSteps, FlushSteps, Goto
<1>1. CASE uart_flush(t)
  BY <1>1 DEF uart_flush, fullVars
<1>2. CASE fl_take(t)
  BY <1>2, RxAssumption DEF fl_take, fullVars, Tasks
<1>3. CASE fl_disable(t)
  BY <1>3 DEF fl_disable, fullVars
<1>4. CASE fl_head(t)
  BY <1>4 DEF fl_head, fullVars
<1>5. CASE fl_item(t)
  <2>1. UNCHANGED <<pc, mux>> /\ pc[t] = "fl_loop" /\ mux = t
    BY <1>5 DEF fl_item, callVars
  \* Nobody else is in the middle of a call.
  <2>2. \A u \in Tasks : pc[u] \notin Stashed
    BY <2>1
  <2> QED BY <2>1, <2>2
<1>6. CASE fl_reset(t)
  BY <1>6 DEF fl_reset, fullVars
<1>7. CASE fl_enable(t)
  BY <1>7 DEF fl_enable, fullVars
<1>8. CASE fl_give(t)
  BY <1>8 DEF fl_give, fullVars
<1> QED BY <1>1, <1>2, <1>3, <1>4, <1>5, <1>6, <1>7, <1>8 DEF FlushStep

\* The installed driver has a free mutex and no stash.
LEMMA RxInvInit == Init => RxInv
<1>1. Init => Exclusion /\ StashHeld
  BY DEF Init, Exclusion, StashHeld, Holding, Stashed, ReadSteps, FlushSteps
<1> QED BY <1>1, RxTypeInit DEF RxInv

\* A step is one of the handler or the hardware, of a read or of a flush.
LEMMA StepKinds ==
  ASSUME Next
  PROVE  \/ ByteArrives \/ Isr
         \/ \E t \in Tasks : Reads(t) \/ ReadStep(t)
         \/ \E t \in Tasks : uart_flush(t) \/ FlushStep(t)
  BY DEF Next, Step, Tasks

\* Every step keeps rx_mux to one holder, and the stash from being overwritten.
LEMMA RxInvStep == RxInv /\ [Next]_vars => RxInv'
<1> SUFFICES ASSUME RxInv, [Next]_vars PROVE RxInv'
  OBVIOUS
<1>1. CASE Next
  BY <1>1, StepKinds, IsrMutex, ReadMutex, FlushMutex
<1>2. CASE UNCHANGED vars
  <2>1. TypeOK'
    BY RxTypeStep DEF RxInv
  <2> QED BY <1>2, <2>1 DEF RxInv, Exclusion, StashHeld, vars, fullVars, callVars
<1> QED BY <1>1, <1>2

\* For any number of readers and flushers the calls exclude each other, and what
\* the handler stashed stays until the reader that copies it has cleared the flag.
THEOREM CallsExclude == Spec => [](Exclusion /\ StashHeld)
<1>1. RxInv => Exclusion /\ StashHeld
  BY DEF RxInv
<1> QED BY <1>1, RxInvInit, RxInvStep, PTL DEF Spec

-----------------------------------------------------------------------------
(* The stash.                                                              *)

NoFlush == \A t \in Tasks : pc[t] \notin FlushSteps

SeenInv == RxInv /\ NoFlush /\ StashIsSeen

\* Without a flusher the only calls are reads, and none becomes a flush.
LEMMA OnlyReads ==
  ASSUME RxInv, NoFlush, Flushers = {}, Next
  PROVE  /\ \/ ByteArrives \/ Isr
            \/ \E t \in Tasks : Reads(t) \/ ReadStep(t)
         /\ NoFlush'
<1>1. ASSUME NEW t \in Tasks PROVE ~FlushStep(t)
  BY <1>1 DEF NoFlush, FlushSteps, FlushStep, fl_take, fl_disable, fl_head, fl_item,
              fl_reset, fl_enable, fl_give, Goto
<1>2. \/ ByteArrives \/ Isr
      \/ \E t \in Tasks : Reads(t) \/ ReadStep(t)
  BY <1>1 DEF Next, Step, Tasks
<1>3. CASE ByteArrives \/ Isr
  BY <1>2, <1>3 DEF NoFlush, ByteArrives, Isr, isr_rx_to_ring, isr_rx_to_stash,
                    isr_rx_full, isr_rx_ovf, callVars
<1>4. ASSUME NEW t \in Tasks, Reads(t) \/ ReadStep(t) PROVE NoFlush'
  BY <1>4 DEF RxInv, TypeOK, NoFlush, FlushSteps, Goto, callVars, Reads, ReadStep,
              uart_read_bytes, rd_take, rd_timeout, rd_receive, rd_copy, rd_return,
              rd_flag, rd_resend, rd_credit, rd_clear, rd_enable, rd_give, rd_account
<1> QED BY <1>2, <1>3, <1>4

\* A pass of the handler that stashes leaves something in the ring to return.
LEMMA SeenByHandler ==
  ASSUME TypeOK, StashIsSeen, ByteArrives \/ Isr
  PROVE  StashIsSeen'
<1> USE DEF StashIsSeen
<1>1. CASE ByteArrives
  BY <1>1 DEF ByteArrives, ringVars, fullVars, callVars
<1>2. CASE isr_rx_to_ring
  <2>1. ring # << >> => ring' # << >>
    <3>1. Len(ring') = Len(ring) + Len(fifo) /\ ring' \in Seq(Bytes)
      BY <1>2, JoinType DEF isr_rx_to_ring, TypeOK
    <3>2. Len(ring) \in Nat /\ Len(fifo) \in Nat
          /\ (ring # << >> => Len(ring) # 0) /\ (ring' = << >> => Len(ring') = 0)
      BY <3>1, EmptyLen DEF TypeOK
    <3> QED BY <3>1, <3>2
  <2> QED BY <1>2, <2>1 DEF isr_rx_to_ring, fullVars, callVars
<1>3. CASE isr_rx_to_stash
  \* The FIFO fits an empty ring, so one that has no room holds something.
  <2>1. Len(fifo) > RingCap - Len(ring) - head /\ Len(fifo) <= RingCap
    BY <1>3, EmptyLen, RxAssumption DEF isr_rx_to_stash, Room, TypeOK
  <2>2. Len(ring) > 0 \/ head > 0
    BY <2>1, EmptyLen, RxAssumption DEF TypeOK
  <2>3. ring # << >> \/ head > 0
    BY <2>2, EmptyType
  <2> QED BY <1>3, <2>3 DEF isr_rx_to_stash, ringVars
<1>4. CASE isr_rx_full
  BY <1>4 DEF isr_rx_full, ringVars, fullVars, callVars
<1>5. CASE isr_rx_ovf
  BY <1>5 DEF isr_rx_ovf, ringVars, fullVars, callVars
<1> QED BY <1>1, <1>2, <1>3, <1>4, <1>5 DEF Isr

\* A reader that takes the last item out of the ring looks at the flag next.
LEMMA SeenByReader ==
  ASSUME SeenInv, NEW t \in Tasks, Reads(t) \/ ReadStep(t)
  PROVE  StashIsSeen'
<1> USE DEF SeenInv, RxInv, Exclusion, Holding, ReadSteps, StashIsSeen, Goto
<1>0. pc \in [Tasks -> Steps] /\ t # NoTask /\ head \in Nat
  BY RxAssumption DEF TypeOK, Steps, Tasks
<1>1. CASE Reads(t)
  BY <1>0, <1>1 DEF Reads, uart_read_bytes, ringVars, fullVars
<1>2. CASE rd_take(t)
  BY <1>0, <1>2 DEF rd_take, ringVars, fullVars
<1>3. CASE rd_timeout(t)
  BY <1>0, <1>3 DEF rd_timeout, ringVars, fullVars
<1>4. CASE rd_receive(t)
  <2>1. head' > 0
    BY <1>4, EmptyLen DEF rd_receive, TypeOK
  <2> QED BY <2>1
<1>5. CASE rd_copy(t)
  BY <1>0, <1>5 DEF rd_copy, fullVars
<1>6. CASE rd_return(t)
  BY <1>0, <1>6 DEF rd_return
<1>7. CASE rd_flag(t)
  BY <1>0, <1>7 DEF rd_flag, StashDue, ringVars, fullVars
<1>8. CASE rd_resend(t)
  <2>1. mux' = t
    BY <1>8 DEF rd_resend
  <2>2. CASE Len(stash) <= Room(ring, head)
    <3>1. pc'[t] = "rd_credit"
      BY <1>0, <1>8, <2>2 DEF rd_resend
    <3> QED BY <1>0, <2>1, <3>1
  <2>3. CASE ~(Len(stash) <= Room(ring, head))
    \* A stash that does not fit has something in front of it.
    <3>1. Len(stash) > RingCap - Len(ring) - head /\ Len(stash) <= RingCap
      BY <2>3, EmptyLen, RxAssumption DEF Room, TypeOK
    <3>2. Len(ring) > 0 \/ head > 0
      BY <3>1, EmptyLen, RxAssumption DEF TypeOK
    <3>3. ring # << >> \/ head > 0
      BY <3>2, EmptyType
    <3> QED BY <1>8, <2>3, <3>3 DEF rd_resend
  <2> QED BY <2>2, <2>3
<1>9. CASE rd_credit(t)
  BY <1>0, <1>9 DEF rd_credit, ringVars, fullVars
<1>10. CASE rd_clear(t)
  BY <1>10 DEF rd_clear
<1>11. CASE rd_enable(t)
  BY <1>0, <1>11 DEF rd_enable, ringVars, fullVars
<1>12. CASE rd_give(t)
  BY <1>0, <1>12 DEF rd_give, ringVars, fullVars
<1>13. CASE rd_account(t)
  BY <1>0, <1>13 DEF rd_account, ringVars, fullVars
<1> QED BY <1>1, <1>2, <1>3, <1>4, <1>5, <1>6, <1>7, <1>8, <1>9, <1>10, <1>11,
           <1>12, <1>13 DEF ReadStep

\* As long as nobody calls uart_flush, bytes stashed because the ring was full
\* are always going to be looked at again, for any number of readers and any
\* sizes: reception cannot be left switched off with an empty ring.
THEOREM StashNeverForgotten ==
  ASSUME Flushers = {}
  PROVE  Spec => []StashIsSeen
<1>1. Init => SeenInv
  <2>1. Init => NoFlush /\ StashIsSeen
    BY DEF Init, NoFlush, StashIsSeen, FlushSteps
  <2> QED BY <2>1, RxInvInit DEF SeenInv
<1>2. SeenInv /\ [Next]_vars => SeenInv'
  <2> SUFFICES ASSUME SeenInv, [Next]_vars PROVE SeenInv'
    OBVIOUS
  <2>1. RxInv'
    BY RxInvStep DEF SeenInv
  <2>2. CASE Next
    <3>1. /\ \/ ByteArrives \/ Isr
             \/ \E t \in Tasks : Reads(t) \/ ReadStep(t)
          /\ NoFlush'
      BY <2>2, OnlyReads DEF SeenInv
    <3>2. CASE ByteArrives \/ Isr
      BY <2>1, <3>1, <3>2, SeenByHandler DEF SeenInv, RxInv
    <3>3. ASSUME NEW t \in Tasks, Reads(t) \/ ReadStep(t) PROVE SeenInv'
      BY <2>1, <3>1, <3>3, SeenByReader DEF SeenInv
    <3> QED BY <3>1, <3>2, <3>3
  <2>3. CASE UNCHANGED vars
    BY <2>1, <2>3 DEF SeenInv, NoFlush, StashIsSeen, vars, ringVars, fullVars, callVars
  <2> QED BY <2>2, <2>3
<1>3. SeenInv => StashIsSeen
  BY DEF SeenInv
<1> QED BY <1>1, <1>2, <1>3, PTL DEF Spec

-----------------------------------------------------------------------------
(* The count of buffered bytes.                                            *)

\* The bytes that tasks other than t have copied.
Others(b, t)  == UNION {{u} \X DOMAIN b[u] : u \in Tasks \ {t}}
CopiedOf(b)   == UNION {{u} \X DOMAIN b[u] : u \in Tasks}
BufType       == [Tasks -> Seq(Bytes)]

\* What the tasks have copied is what t has copied and what the others have.
LEMMA CopiedCount ==
  ASSUME NEW b \in BufType, NEW t \in Tasks
  PROVE  /\ IsFiniteSet(Others(b, t)) /\ Cardinality(Others(b, t)) \in Nat
         /\ Cardinality(CopiedOf(b)) = Cardinality(Others(b, t)) + Len(b[t])
<1> DEFINE Mine == {t} \X DOMAIN b[t]
<1>1. ASSUME NEW u \in Tasks
      PROVE  /\ IsFiniteSet({u} \X DOMAIN b[u])
             /\ Cardinality({u} \X DOMAIN b[u]) = Len(b[u])
  <2>1. b[u] \in Seq(Bytes)
    BY DEF BufType
  <2>2. Len(b[u]) \in Nat /\ DOMAIN b[u] = 1 .. Len(b[u])
    BY <2>1, LenProperties
  <2>3. IsFiniteSet(DOMAIN b[u]) /\ Cardinality(DOMAIN b[u]) = Len(b[u])
    BY <2>2, FS_Interval
  <2>4. IsFiniteSet({u}) /\ Cardinality({u}) = 1
    BY FS_Singleton
  <2>5. /\ IsFiniteSet({u} \X DOMAIN b[u])
        /\ Cardinality({u} \X DOMAIN b[u]) = 1 * Len(b[u])
    BY <2>3, <2>4, FS_Product
  <2> QED BY <2>2, <2>5
<1>2. IsFiniteSet(Others(b, t))
  <2>1. IsFiniteSet(Tasks)
    BY RxAssumption, FS_Union DEF Tasks
  <2>2. IsFiniteSet(Tasks \ {t})
    BY <2>1, FS_RemoveElement
  <2>3. IsFiniteSet({{u} \X DOMAIN b[u] : u \in Tasks \ {t}})
    <3> DEFINE S == {{u} \X DOMAIN b[u] : u \in Tasks \ {t}}
               f == [u \in Tasks \ {t} |-> {u} \X DOMAIN b[u]]
    <3>1. f \in Surjection(Tasks \ {t}, S)
      BY Zenon DEF Surjection
    <3> HIDE DEF f, S
    <3>2. IsFiniteSet(S)
      BY <2>2, <3>1, FS_Surjection
    <3> QED BY <3>2 DEF S
  <2> QED BY <1>1, <2>3, FS_UNION DEF Others
<1>3. CopiedOf(b) = Others(b, t) \cup Mine
  BY DEF CopiedOf, Others
<1>4. Others(b, t) \cap Mine = {}
  BY DEF Others
<1>5. IsFiniteSet(Mine) /\ Cardinality(Mine) = Len(b[t])
  BY <1>1
<1>6. Cardinality(CopiedOf(b)) = Cardinality(Others(b, t)) + Cardinality(Mine) - Cardinality({})
  BY <1>2, <1>3, <1>4, <1>5, FS_Union
<1> QED BY <1>2, <1>5, <1>6, FS_EmptySet, FS_CardinalityType

\* Without a copy nothing changes in that sum; a copy or a return changes t's part.
LEMMA CopiedStep ==
  ASSUME TypeOK, NEW t \in Tasks, NEW s \in Seq(Bytes)
  PROVE  /\ Cardinality(Copied) \in Nat
         /\ buf' = buf => Cardinality(Copied') = Cardinality(Copied)
         /\ buf' = [buf EXCEPT ![t] = s]
              => Cardinality(Copied') = Cardinality(Copied) - Len(buf[t]) + Len(s)
<1>1. buf \in BufType /\ Copied = CopiedOf(buf) /\ Copied' = CopiedOf(buf')
  BY DEF TypeOK, BufType, Copied, CopiedOf
<1>2. Cardinality(Copied) = Cardinality(Others(buf, t)) + Len(buf[t])
      /\ Cardinality(Others(buf, t)) \in Nat /\ Len(buf[t]) \in Nat
  BY <1>1, CopiedCount, EmptyLen DEF BufType
<1>3. ASSUME buf' = [buf EXCEPT ![t] = s]
      PROVE  Cardinality(Copied') = Cardinality(Copied) - Len(buf[t]) + Len(s)
  <2>1. buf' \in BufType /\ buf'[t] = s /\ Len(s) \in Nat
    BY <1>1, <1>3, EmptyLen DEF BufType
  <2>2. Others(buf', t) = Others(buf, t)
    <3>1. \A u \in Tasks \ {t} : buf'[u] = buf[u]
      BY <1>1, <1>3 DEF BufType
    <3> QED BY <3>1 DEF Others
  <2>3. Cardinality(Copied') = Cardinality(Others(buf', t)) + Len(buf'[t])
    BY <1>1, <2>1, CopiedCount
  <2> QED BY <1>2, <2>1, <2>2, <2>3
<1> QED BY <1>1, <1>2, <1>3

\* They are finitely many.
LEMMA CopiedFinite ==
  ASSUME TypeOK
  PROVE  Cardinality(Copied) \in Nat
<1>1. CASE Tasks = {}
  <2>1. Copied = {}
    BY <1>1 DEF Copied
  <2> QED BY <2>1, FS_EmptySet
<1>2. CASE \E t \in Tasks : TRUE
  BY <1>2, EmptyType, CopiedStep
<1> QED BY <1>1, <1>2

\* What is in the ring and not yet in the count.
Owed == IF mux # NoTask /\ pc[mux] = "rd_credit" THEN Len(stash) ELSE 0

Sum == Len(item) + Len(ring) + Cardinality(Copied) - Owed

\* A pass of the handler counts what it puts into the ring, and stashes only when
\* nobody is at work on a stash.
LEMMA AccountingIsr ==
  ASSUME RxInv, Accounting, ByteArrives \/ Isr
  PROVE  Accounting'
<1> USE DEF RxInv, TypeOK
<1>0. Accounting = (buffered = Sum) /\ Accounting' = (buffered' = Sum')
  BY DEF Accounting, Sum, Owed
<1>1. UNCHANGED <<item, buf, pc, mux>> /\ Copied' = Copied
  BY DEF ByteArrives, Isr, isr_rx_to_ring, isr_rx_to_stash, isr_rx_full, isr_rx_ovf,
         ringVars, callVars, Copied
<1>2. CASE isr_rx_to_ring
  <2>1. Len(ring') = Len(ring) + Len(fifo) /\ stash' = stash
        /\ buffered' = buffered + Len(fifo)
    BY <1>2, JoinType DEF isr_rx_to_ring, fullVars
  <2>2. Len(ring) \in Nat /\ Len(fifo) \in Nat /\ Len(item) \in Nat /\ Owed' = Owed
    BY <1>1, <2>1, EmptyLen DEF Owed
  <2>3. Owed \in Int /\ Cardinality(Copied) \in Int
    BY CopiedFinite, EmptyLen DEF Owed
  <2>4. Sum' = Sum + Len(fifo)
    BY <1>1, <2>1, <2>2, <2>3 DEF Sum
  <2> QED BY <1>0, <2>1, <2>4
<1>3. CASE isr_rx_to_stash
  <2>1. Owed = 0 /\ Owed' = 0
    BY <1>1, <1>3 DEF isr_rx_to_stash, Stashing, Owed, StashHeld, Stashed
  <2>2. UNCHANGED <<ring, buffered>>
    BY <1>3 DEF isr_rx_to_stash, ringVars
  <2> QED BY <1>0, <1>1, <2>1, <2>2 DEF Sum
<1>4. CASE ByteArrives \/ isr_rx_full \/ isr_rx_ovf
  <2>1. UNCHANGED <<ring, buffered, stash>>
    BY <1>4 DEF ByteArrives, isr_rx_full, isr_rx_ovf, ringVars, fullVars
  <2>2. Owed' = Owed
    BY <1>1, <2>1 DEF Owed
  <2> QED BY <1>0, <1>1, <2>1, <2>2 DEF Sum
<1> QED BY <1>2, <1>3, <1>4 DEF Isr

\* A step that moves no byte and pays no debt keeps the count right.
LEMMA AccountingKept ==
  ASSUME Accounting, UNCHANGED <<item, ring, buf, buffered>>, Owed' = Owed
  PROVE  Accounting'
<1>1. Copied' = Copied
  BY DEF Copied
<1> QED BY <1>1 DEF Accounting, Owed

\* A step that moves bytes about keeps the count right if it counts them.
LEMMA AccountingMoved ==
  ASSUME Accounting, buffered' - buffered = Sum' - Sum,
         buffered \in Int, buffered' \in Int, Sum \in Int, Sum' \in Int
  PROVE  Accounting'
<1>1. Accounting = (buffered = Sum) /\ Accounting' = (buffered' = Sum')
  BY DEF Accounting, Sum, Owed
<1> QED BY <1>1

\* What the sum is made of are numbers.
LEMMA SumType ==
  ASSUME TypeOK
  PROVE  /\ buffered \in Int /\ Sum \in Int /\ Owed \in Nat
         /\ Len(item) \in Nat /\ Len(ring) \in Nat /\ Len(stash) \in Nat
         /\ Cardinality(Copied) \in Nat
<1>1. /\ Len(item) \in Nat /\ Len(ring) \in Nat /\ Len(stash) \in Nat
      /\ buffered \in Int /\ Cardinality(Copied) \in Nat
  BY CopiedFinite, EmptyLen DEF TypeOK
<1>2. Owed \in Nat
  BY <1>1 DEF Owed
<1> QED BY <1>1, <1>2 DEF Sum

\* A step of a read keeps the count right: what it takes out of the ring it has
\* in its item, what it copies it owes until rd_account, and the stash it puts
\* into the ring is counted by rd_credit.
LEMMA AccountingRead ==
  ASSUME RxInv, Accounting, NEW t \in Tasks, Reads(t) \/ ReadStep(t)
  PROVE  Accounting'
<1>0. /\ TypeOK /\ TypeOK' /\ t # NoTask /\ mux \in Tasks \cup {NoTask}
      /\ pc \in [Tasks -> Steps] /\ (pc[t] \in Holding => mux = t)
  BY ReadType, RxAssumption DEF RxInv, TypeOK, Tasks, Steps, Exclusion
<1> USE DEF Goto, Holding, ReadSteps
<1>1. CASE Reads(t)
  <2>1. Owed' = Owed
    BY <1>0, <1>1 DEF Reads, uart_read_bytes, fullVars, Owed
  <2> QED BY <1>1, <2>1, AccountingKept DEF Reads, uart_read_bytes, ringVars
<1>2. CASE rd_take(t)
  <2>1. Owed' = Owed
    BY <1>0, <1>2 DEF rd_take, fullVars, Owed
  <2> QED BY <1>2, <2>1, AccountingKept DEF rd_take, ringVars
<1>3. CASE rd_timeout(t)
  <2>1. Owed' = Owed
    BY <1>0, <1>3 DEF rd_timeout, fullVars, Owed
  <2> QED BY <1>3, <2>1, AccountingKept DEF rd_timeout, ringVars
<1>4. CASE rd_receive(t)
  <2>1. PICK k \in 1 .. Len(ring) :
          item' = SubSeq(ring, 1, k) /\ ring' = Rest(ring, k)
    BY <1>4 DEF rd_receive
  <2>2. k \in 0 .. Len(ring)
    OBVIOUS
  <2>3. Len(item') = k /\ Len(ring') = Len(ring) - k /\ Len(item) = 0
    BY <1>0, <1>4, <2>1, <2>2, CutType, EmptyType DEF TypeOK, rd_receive
  <2>4. Owed' = Owed /\ Copied' = Copied /\ buffered' = buffered
    BY <1>4 DEF rd_receive, fullVars, callVars, Owed, Copied
  <2>5. Sum' = Sum
    BY <1>0, <2>3, <2>4, SumType DEF Sum
  <2> QED BY <1>0, <2>4, <2>5, AccountingMoved, SumType
<1>5. CASE rd_copy(t)
  <2> DEFINE m == CopyLen(length[t], Len(item))
             c == SubSeq(item, 1, m)
  <2>1. m \in 0 .. Len(item)
    BY <1>0, EmptyLen DEF CopyLen, TypeOK
  <2>2. c \in Seq(Bytes) /\ Len(c) = m /\ Len(Rest(item, m)) = Len(item) - m
    BY <1>0, <2>1, CutType DEF TypeOK
  <2>3. buf[t] \in Seq(Bytes) /\ buf[t] \o c \in Seq(Bytes)
        /\ Len(buf[t] \o c) = Len(buf[t]) + m /\ Len(buf[t]) \in Nat
    <3>1. buf[t] \in Seq(Bytes)
      BY <1>0 DEF TypeOK
    <3> HIDE DEF m, c
    <3> QED BY <2>2, <3>1, JoinType, EmptyLen
  <2>4. buf' = [buf EXCEPT ![t] = buf[t] \o c] /\ item' = Rest(item, m)
        /\ UNCHANGED <<ring, buffered, stash, mux>>
    BY <1>5 DEF rd_copy, fullVars
  <2>5. Cardinality(Copied') = Cardinality(Copied) - Len(buf[t]) + Len(buf[t] \o c)
    BY <1>0, <2>3, <2>4, CopiedStep
  <2>6. Owed' = Owed
    BY <1>0, <1>5 DEF rd_copy, fullVars, Owed
  <2> HIDE DEF m, c
  <2>7. Len(item') = Len(item) - m /\ Cardinality(Copied') = Cardinality(Copied) + m
    BY <1>0, <2>1, <2>2, <2>3, <2>4, <2>5, SumType
  <2>8. Len(item) \in Nat /\ m \in Nat
    BY <1>0, <2>1, SumType
  <2>9. Sum' = Sum
    BY <1>0, <2>4, <2>6, <2>7, <2>8, SumType DEF Sum
  <2> QED BY <1>0, <2>4, <2>9, AccountingMoved, SumType
<1>6. CASE rd_return(t)
  <2>1. Owed' = Owed
    BY <1>0, <1>6 DEF rd_return, fullVars, Owed
  <2> QED BY <1>6, <2>1, AccountingKept DEF rd_return
<1>7. CASE rd_flag(t)
  <2>1. Owed' = Owed
    BY <1>0, <1>7 DEF rd_flag, fullVars, Owed
  <2> QED BY <1>7, <2>1, AccountingKept DEF rd_flag, ringVars
<1>8. CASE rd_resend(t)
  <2>1. mux = t /\ mux' = t /\ Owed = 0 /\ stash' = stash
        /\ UNCHANGED <<item, buf, buffered>> /\ Copied' = Copied
    BY <1>0, <1>8 DEF rd_resend, fullVars, Owed, Copied
  <2>2. CASE Len(stash) <= Room(ring, head)
    <3>1. Len(ring') = Len(ring) + Len(stash)
      BY <1>0, <1>8, <2>2, JoinType DEF rd_resend, WithStash, TypeOK
    <3>2. Owed' = Len(stash)
      BY <1>0, <1>8, <2>1, <2>2 DEF rd_resend, Owed
    <3>3. Sum' = Sum
      BY <1>0, <2>1, <3>1, <3>2, SumType DEF Sum
    <3> QED BY <1>0, <2>1, <3>3, AccountingMoved, SumType
  <2>3. CASE ~(Len(stash) <= Room(ring, head))
    <3>1. Owed' = Owed /\ ring' = ring
      BY <1>0, <1>8, <2>1, <2>3 DEF rd_resend, Owed
    <3> QED BY <2>1, <3>1, AccountingKept
  <2> QED BY <2>2, <2>3
<1>9. CASE rd_credit(t)
  <2>1. mux = t /\ mux' = t /\ Owed = Len(stash) /\ Owed' = 0
        /\ UNCHANGED <<item, ring, buf>> /\ Copied' = Copied
        /\ buffered' = buffered + Len(stash)
    BY <1>0, <1>9 DEF rd_credit, Credit, fullVars, ringVars, Owed, Copied
  <2>2. Sum' = Sum + Len(stash)
    BY <1>0, <2>1, SumType DEF Sum
  <2> QED BY <1>0, <2>1, <2>2, AccountingMoved, SumType
<1>10. CASE rd_clear(t)
  <2>1. Owed' = Owed
    BY <1>0, <1>10 DEF rd_clear, Owed
  <2> QED BY <1>10, <2>1, AccountingKept DEF rd_clear, ringVars
<1>11. CASE rd_enable(t)
  <2>1. Owed' = Owed
    BY <1>0, <1>11 DEF rd_enable, fullVars, Owed
  <2> QED BY <1>11, <2>1, AccountingKept DEF rd_enable, ringVars
<1>12. CASE rd_give(t)
  <2>1. Owed' = Owed
    BY <1>0, <1>12 DEF rd_give, fullVars, Owed
  <2> QED BY <1>12, <2>1, AccountingKept DEF rd_give, ringVars
<1>13. CASE rd_account(t)
  <2>1. Owed' = Owed /\ UNCHANGED <<item, ring>> /\ buffered' = buffered - Len(buf[t])
        /\ buf' = [buf EXCEPT ![t] = << >>]
    BY <1>0, <1>13 DEF rd_account, fullVars, ringVars, Owed
  <2>2. Cardinality(Copied') = Cardinality(Copied) - Len(buf[t]) + 0 /\ Len(buf[t]) \in Nat
    BY <1>0, <2>1, CopiedStep, EmptyType, EmptyLen DEF TypeOK
  <2>3. Sum' = Sum - Len(buf[t])
    BY <1>0, <2>1, <2>2, SumType DEF Sum
  <2> QED BY <1>0, <2>1, <2>2, <2>3, AccountingMoved, SumType
<1> QED BY <1>1, <1>2, <1>3, <1>4, <1>5, <1>6, <1>7, <1>8, <1>9, <1>10, <1>11,
           <1>12, <1>13 DEF ReadStep

\* A step of a flush keeps the count right: each item it throws away is counted off.
LEMMA AccountingFlush ==
  ASSUME RxInv, Accounting, NEW t \in Tasks, uart_flush(t) \/ FlushStep(t)
  PROVE  Accounting'
<1>0. /\ TypeOK /\ TypeOK' /\ t # NoTask /\ mux \in Tasks \cup {NoTask}
      /\ pc \in [Tasks -> Steps] /\ (pc[t] \in Holding => mux = t)
  BY FlushType, RxAssumption DEF RxInv, TypeOK, Tasks, Steps, Exclusion
<1> USE DEF Goto, Holding, FlushSteps
<1>1. CASE uart_flush(t)
  <2>1. Owed' = Owed
    BY <1>0, <1>1 DEF uart_flush, fullVars, Owed
  <2> QED BY <1>1, <2>1, AccountingKept DEF uart_flush, ringVars
<1>2. CASE fl_take(t)
  <2>1. Owed' = Owed
    BY <1>0, <1>2 DEF fl_take, fullVars, Owed
  <2> QED BY <1>2, <2>1, AccountingKept DEF fl_take, ringVars
<1>3. CASE fl_disable(t)
  <2>1. Owed' = Owed
    BY <1>0, <1>3 DEF fl_disable, fullVars, Owed
  <2> QED BY <1>3, <2>1, AccountingKept DEF fl_disable, ringVars
<1>4. CASE fl_head(t)
  <2>1. Owed' = Owed /\ UNCHANGED <<ring, buf>> /\ Copied' = Copied
        /\ Len(item') = 0 /\ buffered' = buffered - Len(item)
    BY <1>0, <1>4, EmptyType DEF fl_head, Uncount, fullVars, Owed, Copied
  <2>2. Sum' = Sum - Len(item)
    BY <1>0, <2>1, SumType DEF Sum
  <2> QED BY <1>0, <2>1, <2>2, AccountingMoved, SumType
<1>5. CASE fl_item(t)
  <2>1. PICK k \in 1 .. Len(ring) :
          LET rest == Rest(ring, k)
          IN  IF fullFlg /\ Len(stash) <= Room(rest, head)
                THEN /\ ring' = WithStash(rest)
                     /\ buffered' = buffered - k + Len(stash)
                     /\ fullFlg' = FALSE /\ stash' = << >>
                ELSE /\ ring' = rest
                     /\ buffered' = buffered - k
                     /\ UNCHANGED fullVars
    BY <1>5 DEF fl_item
  <2>2. Rest(ring, k) \in Seq(Bytes) /\ Len(Rest(ring, k)) = Len(ring) - k
    BY <1>0, CutType, EmptyLen DEF TypeOK
  <2>3. Len(WithStash(Rest(ring, k))) = Len(ring) - k + Len(stash)
    BY <1>0, <2>2, JoinType DEF WithStash, TypeOK
  <2>4. Owed = 0 /\ Owed' = 0 /\ UNCHANGED <<item, buf>> /\ Copied' = Copied
    BY <1>0, <1>5 DEF fl_item, callVars, Owed, Copied
  <2>5. \/ Len(ring') = Len(ring) - k + Len(stash) /\ buffered' = buffered - k + Len(stash)
        \/ Len(ring') = Len(ring) - k /\ buffered' = buffered - k
    BY <2>1, <2>2, <2>3
  <2>6. Sum' - Sum = Len(ring') - Len(ring) /\ Len(ring') \in Nat /\ Len(ring) \in Nat
    BY <1>0, <2>4, SumType DEF Sum
  <2>7. buffered' - buffered = Len(ring') - Len(ring)
    <3>1. k \in Int /\ Len(stash) \in Int /\ buffered \in Int /\ Len(ring) \in Int
      BY <1>0, SumType
    <3> QED BY <2>5, <3>1
  <2>8. Sum' = Sum + (Len(ring') - Len(ring)) /\ buffered' = buffered + (Len(ring') - Len(ring))
    <3>1. Len(item) \in Nat /\ Cardinality(Copied) \in Nat /\ buffered \in Int
          /\ Len(stash) \in Nat /\ k \in Nat
      BY <1>0, SumType
    <3> QED BY <2>4, <2>5, <2>6, <3>1 DEF Sum
  <2> QED BY <1>0, <2>6, <2>7, <2>8, AccountingMoved, SumType
<1>6. CASE fl_reset(t)
  <2>1. Owed' = Owed
    BY <1>0, <1>6 DEF fl_reset, fullVars, Owed
  <2> QED BY <1>6, <2>1, AccountingKept DEF fl_reset, ringVars
<1>7. CASE fl_enable(t)
  <2>1. Owed' = Owed
    BY <1>0, <1>7 DEF fl_enable, fullVars, Owed
  <2> QED BY <1>7, <2>1, AccountingKept DEF fl_enable, ringVars
<1>8. CASE fl_give(t)
  <2>1. Owed' = Owed
    BY <1>0, <1>8 DEF fl_give, fullVars, Owed
  <2> QED BY <1>8, <2>1, AccountingKept DEF fl_give, ringVars
<1> QED BY <1>1, <1>2, <1>3, <1>4, <1>5, <1>6, <1>7, <1>8 DEF FlushStep

\* rx_buffered_len counts exactly the bytes that can be read, plus those that calls
\* in progress have copied and will subtract, less a stash that the reader at work
\* is about to add, for any number of readers and flushers, although the handler
\* and the calls change it without a common lock.
THEOREM BufferedIsExact == Spec => []Accounting
<1>1. Init => Accounting
  <2> SUFFICES ASSUME Init PROVE Accounting
    OBVIOUS
  <2>1. Copied = {} /\ Len(item) = 0 /\ Len(ring) = 0 /\ buffered = 0 /\ Owed = 0
    BY EmptyType DEF Init, Copied, Owed
  <2> QED BY <2>1, FS_EmptySet DEF Accounting, Owed
<1>2. RxInv /\ Accounting /\ [Next]_vars => Accounting'
  <2> SUFFICES ASSUME RxInv, Accounting, [Next]_vars PROVE Accounting'
    OBVIOUS
  <2>1. CASE Next
    BY <2>1, StepKinds, AccountingIsr, AccountingRead, AccountingFlush
  <2>2. CASE UNCHANGED vars
    <3>1. Owed' = Owed
      BY <2>2 DEF vars, fullVars, callVars, Owed
    <3> QED BY <2>2, <3>1, AccountingKept DEF vars, ringVars, callVars
  <2> QED BY <2>1, <2>2
<1> QED BY <1>1, <1>2, RxInvInit, RxInvStep, PTL DEF Spec

-----------------------------------------------------------------------------
(* The refinement of ByteQueue.                                            *)

\* Joining sequences is associative, with the empty one as its unit.
LEMMA JoinLaws ==
  ASSUME NEW a \in Seq(Bytes), NEW b \in Seq(Bytes), NEW c \in Seq(Bytes)
  PROVE  /\ (a \o b) \o c = a \o (b \o c)
         /\ a \o << >> = a /\ << >> \o a = a
  BY ConcatAssociative, ConcatEmptySeq

\* A sequence is what a cut puts in front, joined with what it leaves.
LEMMA CutJoined ==
  ASSUME NEW s \in Seq(Bytes), NEW k \in 0 .. Len(s)
  PROVE  s = SubSeq(s, 1, k) \o Rest(s, k)
<1>1. Len(s) \in Nat
  BY EmptyLen
<1>2. SubSeq(s, 1, k) \o SubSeq(s, k + 1, Len(s)) = SubSeq(s, 1, Len(s))
  <2>1. 1 \in 1 .. Len(s) + 1 /\ k \in 1 - 1 .. Len(s) /\ Len(s) \in k .. Len(s)
    BY <1>1
  <2> QED BY <2>1, ConcatAdjacentSubSeq
<1>3. SubSeq(s, 1, Len(s)) = s
  BY SubSeqFull
<1> QED BY <1>2, <1>3 DEF Rest

\* Of two joined sequences the first is what is in front, the second the rest.
LEMMA JoinedCut ==
  ASSUME NEW a \in Seq(Bytes), NEW b \in Seq(Bytes)
  PROVE  SubSeq(a \o b, 1, Len(a)) = a /\ SubSeq(a \o b, Len(a) + 1, Len(a \o b)) = b
<1>1. Len(a) \in Nat /\ Len(b) \in Nat /\ Len(a \o b) = Len(a) + Len(b)
  BY EmptyLen, JoinType
<1>2. SubSeq(a \o b, 1, Len(a)) = a
  <2>1. CASE a = << >>
    BY <2>1, <1>1, SubSeqEmpty
  <2>2. CASE a # << >>
    <3>1. 1 \in 1 .. Len(a) /\ Len(a) \in 1 .. Len(a)
      BY <1>1, <2>2, EmptyLen
    <3> QED BY <3>1, SubSeqOfConcat1, SubSeqFull
  <2> QED BY <2>1, <2>2
<1>3. SubSeq(a \o b, Len(a) + 1, Len(a \o b)) = b
  <2>1. CASE b = << >>
    <3>1. Len(a \o b) < Len(a) + 1 /\ Len(a \o b) \in Int /\ Len(a) + 1 \in Int
      BY <1>1, <2>1, EmptyType
    <3> QED BY <2>1, <3>1, SubSeqEmpty
  <2>2. CASE b # << >>
    <3>1. /\ Len(a) + 1 \in Len(a) + 1 .. Len(a) + Len(b)
          /\ Len(a \o b) \in Len(a) + 1 .. Len(a) + Len(b)
      BY <1>1, <2>2, EmptyLen
    <3>2. SubSeq(a \o b, Len(a) + 1, Len(a \o b))
            = SubSeq(b, (Len(a) + 1) - Len(a), Len(a \o b) - Len(a))
      BY <3>1, SubSeqOfConcat2
    <3>3. (Len(a) + 1) - Len(a) = 1 /\ Len(a \o b) - Len(a) = Len(b)
      BY <1>1
    <3> QED BY <3>2, <3>3, SubSeqFull
  <2> QED BY <2>1, <2>2
<1> QED BY <1>2, <1>3

\* Cutting b out of a, b and c leaves a and c.
LEMMA CutMiddle ==
  ASSUME NEW a \in Seq(Bytes), NEW b \in Seq(Bytes), NEW c \in Seq(Bytes), b # << >>,
         NEW q, q = a \o (b \o c)
  PROVE  /\ Len(a) + 1 \in 1 .. Len(q) /\ Len(a) + Len(b) \in 1 .. Len(q)
         /\ Len(a) + 1 <= Len(a) + Len(b)
         /\ Queue!Cut(q, Len(a) + 1, Len(a) + Len(b)) = a \o c
<1>1. /\ Len(a) \in Nat /\ Len(b) \in Nat \ {0} /\ Len(c) \in Nat
      /\ a \o b \in Seq(Bytes) /\ Len(a \o b) = Len(a) + Len(b)
      /\ b \o c \in Seq(Bytes) /\ Len(q) = Len(a) + Len(b) + Len(c)
  <2>1. Len(a) \in Nat /\ Len(b) \in Nat \ {0} /\ Len(c) \in Nat
    BY EmptyLen
  <2>2. a \o b \in Seq(Bytes) /\ Len(a \o b) = Len(a) + Len(b)
    BY JoinType
  <2>3. b \o c \in Seq(Bytes) /\ Len(b \o c) = Len(b) + Len(c)
    BY JoinType
  <2>4. Len(q) = Len(a) + Len(b \o c)
    BY <2>3, JoinType
  <2> QED BY <2>1, <2>2, <2>3, <2>4
<1>2. SubSeq(q, 1, Len(a)) = a
  BY <1>1, JoinedCut
<1>3. SubSeq(q, Len(a) + Len(b) + 1, Len(q)) = c
  <2>1. q = (a \o b) \o c
    BY JoinLaws
  <2> QED BY <1>1, <2>1, JoinedCut
<1>4. Queue!Cut(q, Len(a) + 1, Len(a) + Len(b))
        = SubSeq(q, 1, Len(a)) \o SubSeq(q, Len(a) + Len(b) + 1, Len(q))
  <2>1. (Len(a) + 1) - 1 = Len(a)
    BY <1>1
  <2>2. Queue!Cut(q, Len(a) + 1, Len(a) + Len(b))
          = SubSeq(q, 1, (Len(a) + 1) - 1) \o SubSeq(q, Len(a) + Len(b) + 1, Len(q))
    BY DEF Queue!Cut
  <2>3. SubSeq(q, 1, (Len(a) + 1) - 1) = SubSeq(q, 1, Len(a))
    BY ONLY <2>1
  <2> QED BY ONLY <2>2, <2>3, Zenon
<1>5. /\ Len(a) + 1 \in 1 .. Len(q) /\ Len(a) + Len(b) \in 1 .. Len(q)
      /\ Len(a) + 1 <= Len(a) + Len(b)
  BY <1>1
<1> QED BY <1>2, <1>3, <1>4, <1>5

QueueStep == [Queue!QueueNext]_(Queue!queueVars)

\* A step that moves bytes from one place to the next, in order, or begins or
\* ends a flush or an overrun, is invisible or a Change.
LEMMA Keeps ==
  ASSUME Unread' = Unread, buf' = buf, next' = next
  PROVE  QueueStep
<1>1. CASE (Flushing \/ ovf)' = (Flushing \/ ovf)
  BY <1>1 DEF QueueStep, Queue!queueVars
<1>2. CASE (Flushing \/ ovf)' # (Flushing \/ ovf)
  BY <1>2 DEF QueueStep, Queue!QueueNext, Queue!Change
<1> QED BY <1>1, <1>2

\* Bytes may disappear from anywhere while the port is lossy.
LEMMA Loses ==
  ASSUME NEW a \in Seq(Bytes), NEW b \in Seq(Bytes), NEW c \in Seq(Bytes),
         Unread = a \o (b \o c), Unread' = a \o c, Flushing \/ ovf, buf' = buf,
         next' = next
  PROVE  QueueStep
<1>1. CASE b = << >>
  <2>1. b \o c = c
    BY <1>1, JoinLaws
  <2> QED BY <2>1, Keeps
<1>2. CASE b # << >>
  <2> DEFINE q == a \o (b \o c)
             i == Len(a) + 1
             j == Len(a) + Len(b)
  <2>1. /\ i \in 1 .. Len(Unread) /\ j \in 1 .. Len(Unread) /\ i <= j
        /\ Unread' = Queue!Cut(Unread, i, j)
    BY <1>2, CutMiddle
  <2> HIDE DEF i, j
  <2>2. Queue!Lose
    BY <2>1 DEF Queue!Lose
  <2> QED BY <2>2 DEF QueueStep, Queue!QueueNext
<1> QED BY <1>1, <1>2

\* A reader gets the bytes that came first.
LEMMA Delivers ==
  ASSUME NEW t \in Tasks, NEW b \in Seq(Bytes), NEW c \in Seq(Bytes), b # << >>,
         Unread = b \o c, Unread' = c, buf' = [buf EXCEPT ![t] = @ \o b],
         next' = next
  PROVE  QueueStep
<1>1. Len(b) \in 1 .. Len(Unread)
  <2>1. Len(b) \in Nat \ {0} /\ Len(c) \in Nat /\ Len(Unread) = Len(b) + Len(c)
    BY EmptyLen, JoinType
  <2> QED BY <2>1
<1>2. SubSeq(Unread, 1, Len(b)) = b
  BY JoinedCut
<1>3. Unread' = Queue!Cut(Unread, 1, Len(b))
  <2>1. Queue!Cut(Unread, 1, Len(b)) = SubSeq(Unread, 1, 0) \o SubSeq(Unread, Len(b) + 1, Len(Unread))
    <3>1. 1 - 1 = 0
      OBVIOUS
    <3> QED BY ONLY <3>1, Zenon DEF Queue!Cut
  <2>2. SubSeq(Unread, 1, 0) = << >>
    BY SubSeqEmpty
  <2>3. SubSeq(Unread, Len(b) + 1, Len(Unread)) = c
    BY JoinedCut
  <2>4. << >> \o c = c
    BY JoinLaws
  <2> QED BY <2>1, <2>2, <2>3, <2>4
<1>4. Queue!Deliver(t)
  BY <1>1, <1>2, <1>3 DEF Queue!Deliver
<1> QED BY <1>4 DEF QueueStep, Queue!QueueNext

\* What waits between the ring and the FIFO.
Middle == IF fullFlg /\ ~Credited THEN stash ELSE << >>

\* Joining is associative, in the form the next lemmas take one piece at a time.
LEMMA JoinAssociates ==
  \A x, y, z \in Seq(Bytes) : (x \o y) \o z = x \o (y \o z)
BY ConcatAssociative

\* Four pieces can be joined from the front or from the back.
LEMMA FourJoined ==
  \A a, b, c, d \in Seq(Bytes) : a \o b \o c \o d = a \o (b \o (c \o d))
<1> SUFFICES ASSUME NEW a \in Seq(Bytes), NEW b \in Seq(Bytes), NEW c \in Seq(Bytes), NEW d \in Seq(Bytes)
             PROVE  a \o b \o c \o d = a \o (b \o (c \o d))
  OBVIOUS
<1>1. a \o b \in Seq(Bytes) /\ c \o d \in Seq(Bytes)
  BY JoinType
<1>2. (a \o b) \o (c \o d) = ((a \o b) \o c) \o d
  <2>1. \A x, y \in Seq(Bytes) : (x \o y) \o d = x \o (y \o d)
    BY ONLY d \in Seq(Bytes), JoinAssociates
  <2>2. \A x \in Seq(Bytes) : (x \o c) \o d = x \o (c \o d)
    BY ONLY c \in Seq(Bytes), <2>1
  <2>3. ((a \o b) \o c) \o d = (a \o b) \o (c \o d)
    BY ONLY <1>1, <2>2
  <2> QED BY ONLY <2>3
<1>3. (a \o b) \o (c \o d) = a \o (b \o (c \o d))
  <2>1. \A y, z \in Seq(Bytes) : (a \o y) \o z = a \o (y \o z)
    BY ONLY a \in Seq(Bytes), JoinAssociates
  <2>2. \A z \in Seq(Bytes) : (a \o b) \o z = a \o (b \o z)
    BY ONLY b \in Seq(Bytes), <2>1
  <2> QED BY ONLY <1>1, <2>2
<1> QED BY ONLY <1>2, <1>3

\* The parts of Unread may be joined from either end.
LEMMA JoinFour ==
  ASSUME NEW a \in Seq(Bytes), NEW b \in Seq(Bytes), NEW c \in Seq(Bytes), NEW d \in Seq(Bytes)
  PROVE  /\ a \o b \o c \o d = a \o (b \o (c \o d))
         /\ a \o b \o c \o d = (a \o b \o c) \o d
         /\ a \o b \o c \in Seq(Bytes) /\ b \o (c \o d) \in Seq(Bytes)
         /\ a \o b \in Seq(Bytes) /\ c \o d \in Seq(Bytes)
<1>1. /\ a \o b \in Seq(Bytes) /\ c \o d \in Seq(Bytes)
  BY JoinType
<1>2. a \o b \o c \in Seq(Bytes) /\ b \o (c \o d) \in Seq(Bytes)
  BY <1>1, JoinType
<1>3. \A x, y, z \in Seq(Bytes) : a \o x \o y \o z = a \o (x \o (y \o z))
  BY ONLY a \in Seq(Bytes), FourJoined
<1>4. \A y, z \in Seq(Bytes) : a \o b \o y \o z = a \o (b \o (y \o z))
  BY ONLY b \in Seq(Bytes), <1>3
<1>5. \A z \in Seq(Bytes) : a \o b \o c \o z = a \o (b \o (c \o z))
  BY ONLY c \in Seq(Bytes), <1>4
<1>6. a \o b \o c \o d = a \o (b \o (c \o d))
  BY ONLY d \in Seq(Bytes), <1>5
<1> QED BY ONLY <1>1, <1>2, <1>6

\* Unread is half-read item, ring, what waits, and FIFO.
LEMMA UnreadParts ==
  /\ Unread = item \o ring \o Middle \o fifo
  /\ TypeOK => /\ item \in Seq(Bytes) /\ ring \in Seq(Bytes) /\ Middle \in Seq(Bytes)
               /\ fifo \in Seq(Bytes) /\ stash \in Seq(Bytes)
  BY EmptyType DEF Unread, Middle, TypeOK

\* So it is after a step.
LEMMA UnreadPartsNext ==
  /\ Unread' = item' \o ring' \o Middle' \o fifo'
  /\ TypeOK' => /\ item' \in Seq(Bytes) /\ ring' \in Seq(Bytes) /\ Middle' \in Seq(Bytes)
                /\ fifo' \in Seq(Bytes) /\ stash' \in Seq(Bytes)
  BY EmptyType DEF Unread, Middle, TypeOK

\* Both joined from the back.
LEMMA UnreadFromBack ==
  ASSUME TypeOK, TypeOK'
  PROVE  /\ Unread = item \o (ring \o (Middle \o fifo))
         /\ Unread' = item' \o (ring' \o (Middle' \o fifo'))
         /\ Middle \o fifo \in Seq(Bytes) /\ ring \o (Middle \o fifo) \in Seq(Bytes)
<1>1. /\ Unread = item \o (ring \o (Middle \o fifo))
      /\ Middle \o fifo \in Seq(Bytes) /\ ring \o (Middle \o fifo) \in Seq(Bytes)
  <2>1. item \in Seq(Bytes) /\ ring \in Seq(Bytes) /\ Middle \in Seq(Bytes) /\ fifo \in Seq(Bytes)
    BY UnreadParts
  <2>2. item \o ring \o Middle \o fifo = item \o (ring \o (Middle \o fifo))
    <3>1. \A b, c, d \in Seq(Bytes) : item \o b \o c \o d = item \o (b \o (c \o d))
      BY ONLY <2>1, FourJoined
    <3>2. \A c, d \in Seq(Bytes) : item \o ring \o c \o d = item \o (ring \o (c \o d))
      BY ONLY <2>1, <3>1
    <3>3. \A d \in Seq(Bytes) : item \o ring \o Middle \o d = item \o (ring \o (Middle \o d))
      BY ONLY <2>1, <3>2
    <3> QED BY ONLY <2>1, <3>3
  <2>3. Middle \o fifo \in Seq(Bytes)
    BY <2>1, JoinType
  <2>4. ring \o (Middle \o fifo) \in Seq(Bytes)
    BY <2>1, <2>3, JoinType
  <2> QED BY <2>2, <2>3, <2>4, UnreadParts
<1>2. Unread' = item' \o (ring' \o (Middle' \o fifo'))
  <2>1. item' \in Seq(Bytes) /\ ring' \in Seq(Bytes) /\ Middle' \in Seq(Bytes) /\ fifo' \in Seq(Bytes)
    BY UnreadPartsNext
  <2>2. item' \o ring' \o Middle' \o fifo' = item' \o (ring' \o (Middle' \o fifo'))
    <3>1. \A b, c, d \in Seq(Bytes) : item' \o b \o c \o d = item' \o (b \o (c \o d))
      BY ONLY <2>1, FourJoined
    <3>2. \A c, d \in Seq(Bytes) : item' \o ring' \o c \o d = item' \o (ring' \o (c \o d))
      BY ONLY <2>1, <3>1
    <3>3. \A d \in Seq(Bytes) : item' \o ring' \o Middle' \o d = item' \o (ring' \o (Middle' \o d))
      BY ONLY <2>1, <3>2
    <3> QED BY ONLY <2>1, <3>3
  <2> QED BY <2>2, UnreadPartsNext
<1> QED BY <1>1, <1>2

\* Only a holder of the mutex has credit, and then the flag is up.
LEMMA CreditedHolder ==
  ASSUME RxInv, Credited
  PROVE  fullFlg /\ mux \in Tasks /\ pc[mux] \in {"rd_credit", "rd_clear"}
  BY DEF RxInv, TypeOK, StashHeld, Stashed, Credited

\* The hardware and the handler: a byte arrives at the end, the batch goes from
\* the FIFO to the ring or to the stash, an overrun loses the FIFO.
LEMMA RefineIsr ==
  ASSUME RxInv, ByteArrives \/ Isr
  PROVE  QueueStep
<1>0. TypeOK /\ TypeOK' /\ buf' = buf /\ (Isr => next' = next)
  BY IsrType DEF RxInv, ByteArrives, Isr, isr_rx_to_ring, isr_rx_to_stash, isr_rx_full,
                 isr_rx_ovf, callVars, hwVars
<1>1. CASE ByteArrives
  <2>1. UNCHANGED <<item, ring>> /\ Middle' = Middle
    BY <1>1 DEF ByteArrives, ringVars, fullVars, callVars, Middle, Credited
  <2>2. CASE Len(fifo) < FifoCap
    <3> DEFINE front == item \o ring \o Middle
    <3>1. fifo' = Append(fifo, next) /\ next \in Bytes
      BY <1>0, <1>1, <2>2 DEF ByteArrives, TypeOK
    <3>2. front \in Seq(Bytes) /\ Unread = front \o fifo /\ Unread' = front \o fifo'
      BY <1>0, <2>1, UnreadParts, UnreadPartsNext, JoinFour
    <3> HIDE DEF front
    <3>3. Unread' = Append(Unread, next)
      <4>1. fifo \in Seq(Bytes) /\ <<next>> \in Seq(Bytes)
        BY <1>0, <3>1, UnreadParts
      <4>2. fifo' = fifo \o <<next>> /\ front \o fifo \in Seq(Bytes)
        BY <3>1, <3>2, <4>1, AppendIsConcat, JoinType
      <4>3. (front \o fifo) \o <<next>> = front \o (fifo \o <<next>>)
        BY <3>2, <4>1, ConcatAssociative
      <4>4. Append(front \o fifo, next) = (front \o fifo) \o <<next>>
        BY <3>1, <4>2, AppendIsConcat
      <4> QED BY <3>2, <4>2, <4>3, <4>4
    <3>4. Queue!Arrive
      BY <1>0, <1>1, <3>3 DEF ByteArrives, Queue!Arrive, Queue!Comes
    <3> QED BY <3>4 DEF QueueStep, Queue!QueueNext
  <2>3. CASE ~(Len(fifo) < FifoCap)
    <3>1. fifo' = fifo /\ ovf' /\ next' = (next + 1) % Marks
      BY <1>1, <2>3 DEF ByteArrives
    <3>2. Unread' = Unread
      BY <1>0, <2>1, <3>1, UnreadParts, UnreadPartsNext
    <3>3. Queue!Overrun
      BY <1>0, <3>1, <3>2 DEF Queue!Overrun, Queue!Comes
    <3> QED BY <3>3 DEF QueueStep, Queue!QueueNext
  <2> QED BY <2>2, <2>3
<1>2. CASE isr_rx_to_ring
  <2>0. next' = next
    BY <1>0, <1>2 DEF Isr
  <2>1. item' = item /\ ring' = ring \o fifo /\ fifo' = << >>
        /\ Middle = << >> /\ Middle' = << >>
    BY <1>2 DEF isr_rx_to_ring, Stashing, fullVars, Middle
  <2>2. Unread = item \o (ring \o fifo) /\ Unread' = item \o (ring \o fifo)
    <3>1. item \in Seq(Bytes) /\ ring \in Seq(Bytes) /\ fifo \in Seq(Bytes) /\ << >> \in Seq(Bytes)
      BY <1>0, UnreadParts, EmptyType
    <3>2. ring \o fifo \in Seq(Bytes) /\ item \o ring \in Seq(Bytes) /\ item \o (ring \o fifo) \in Seq(Bytes)
      BY <3>1, JoinType
    <3>3. (item \o ring) \o << >> = item \o ring
      BY <3>2, ConcatEmptySeq
    <3>4. (item \o ring) \o fifo = item \o (ring \o fifo)
      BY <3>1, ConcatAssociative
    <3>5. (item \o (ring \o fifo)) \o << >> = item \o (ring \o fifo)
      BY <3>2, ConcatEmptySeq
    <3> QED BY <2>1, <3>3, <3>4, <3>5, UnreadParts, UnreadPartsNext
  <2> QED BY <1>0, <2>0, <2>2, Keeps
<1>3. CASE isr_rx_to_stash
  <2>0. next' = next
    BY <1>0, <1>3 DEF Isr
  <2>1. UNCHANGED <<item, ring, pc, mux>> /\ stash' = fifo /\ fullFlg' = TRUE
        /\ fifo' = << >> /\ fullFlg = FALSE
    BY <1>0, <1>3 DEF isr_rx_to_stash, Stashing, ringVars, callVars, TypeOK
  <2>2. Middle = << >> /\ Middle' = fifo
    <3>1. ~Credited
      BY <2>1, CreditedHolder
    <3> QED BY <2>1, <3>1 DEF Middle, Credited
  <2>3. Unread' = Unread
    <3>1. item \o ring \in Seq(Bytes) /\ item \o ring \o fifo \in Seq(Bytes)
      BY <1>0, UnreadParts, JoinType
    <3>2. (item \o ring) \o << >> = item \o ring
          /\ (item \o ring \o fifo) \o << >> = item \o ring \o fifo
      BY <3>1, ConcatEmptySeq
    <3> QED BY <2>1, <2>2, <3>2, UnreadParts, UnreadPartsNext
  <2> QED BY <1>0, <2>0, <2>3, Keeps
<1>4. CASE isr_rx_full
  <2>0. next' = next
    BY <1>0, <1>4 DEF Isr
  <2>1. UNCHANGED <<item, ring, fifo>> /\ Middle' = Middle
    BY <1>4 DEF isr_rx_full, hwVars, ringVars, fullVars, callVars, Middle, Credited
  <2> QED BY <1>0, <2>0, <2>1, UnreadParts, UnreadPartsNext, Keeps
<1>5. CASE isr_rx_ovf
  <2>0. next' = next
    BY <1>0, <1>5 DEF Isr
  <2> DEFINE front == item \o ring \o Middle
  <2>1. UNCHANGED <<item, ring>> /\ Middle' = Middle /\ fifo' = << >> /\ ovf
    BY <1>5 DEF isr_rx_ovf, ringVars, fullVars, callVars, Middle, Credited
  <2>2. front \in Seq(Bytes) /\ fifo \in Seq(Bytes) /\ << >> \in Seq(Bytes)
        /\ Unread = front \o fifo /\ Unread' = front \o << >>
    BY <1>0, <2>1, UnreadParts, UnreadPartsNext, JoinFour, EmptyType
  <2> HIDE DEF front
  <2>3. fifo \o << >> = fifo
    BY <2>2, JoinLaws
  <2>4. Unread = front \o (fifo \o << >>)
    BY <2>2, <2>3
  <2> QED BY <1>0, <2>0, <2>1, <2>2, <2>4, Loses
<1> QED BY <1>1, <1>2, <1>3, <1>4, <1>5 DEF Isr

\* A step that moves no byte.
LEMMA MovesNothing ==
  ASSUME UNCHANGED <<item, ring, fifo, buf, next>>, Middle' = Middle
  PROVE  QueueStep
  BY UnreadParts, UnreadPartsNext, Keeps

\* A read: an item is taken from the front of the ring, copied from its front, and
\* the stash is taken as part of the ring as soon as it has been put there.
LEMMA RefineRead ==
  ASSUME RxInv, NEW t \in Tasks, Reads(t) \/ ReadStep(t)
  PROVE  QueueStep
<1>0. /\ TypeOK /\ TypeOK' /\ t # NoTask /\ mux \in Tasks \cup {NoTask}
      /\ pc \in [Tasks -> Steps] /\ (pc[t] \in Holding => mux = t)
      /\ (pc[t] \in Stashed => fullFlg)
  BY ReadType, RxAssumption DEF RxInv, TypeOK, Tasks, Steps, Exclusion, StashHeld
<1>00. next' = next
  BY DEF Reads, uart_read_bytes, ReadStep, rd_take, rd_timeout, rd_receive, rd_copy, rd_return,
         rd_flag, rd_resend, rd_credit, rd_clear, rd_enable, rd_give, rd_account, hwVars
<1> USE DEF Goto, Holding, ReadSteps, Stashed
<1>1. CASE Reads(t)
  <2>1. Middle' = Middle
    BY <1>0, <1>1 DEF Reads, uart_read_bytes, fullVars, Middle, Credited
  <2> QED BY <1>00, <1>1, <2>1, MovesNothing DEF Reads, uart_read_bytes, hwVars, ringVars
<1>2. CASE rd_take(t)
  <2>1. Middle' = Middle
    BY <1>0, <1>2 DEF rd_take, fullVars, Middle, Credited
  <2> QED BY <1>00, <1>2, <2>1, MovesNothing DEF rd_take, hwVars, ringVars
<1>3. CASE rd_timeout(t)
  <2>1. Middle' = Middle
    BY <1>0, <1>3 DEF rd_timeout, fullVars, Middle, Credited
  <2> QED BY <1>00, <1>3, <2>1, MovesNothing DEF rd_timeout, hwVars, ringVars
<1>4. CASE rd_receive(t)
  <2>1. PICK k \in 1 .. Len(ring) :
          item' = SubSeq(ring, 1, k) /\ ring' = Rest(ring, k)
    BY <1>4 DEF rd_receive
  <2>2. k \in 0 .. Len(ring)
    OBVIOUS
  <2>3. item' \o ring' = ring
    BY <1>0, <2>1, <2>2, CutJoined DEF TypeOK
  <2>4. << >> \o ring = ring
    BY <1>0, ConcatEmptySeq DEF TypeOK
  <2>5. item = << >> /\ fifo' = fifo /\ buf' = buf /\ Middle' = Middle
    BY <1>4 DEF rd_receive, hwVars, fullVars, callVars, Middle, Credited
  <2>6. item \o ring = ring
    BY <2>4, <2>5
  <2> QED BY <1>00, <2>3, <2>5, <2>6, UnreadParts, UnreadPartsNext, Keeps
<1>5. CASE rd_copy(t)
  <2> DEFINE m  == CopyLen(length[t], Len(item))
             c  == SubSeq(item, 1, m)
             r  == Rest(item, m)
             tl == ring \o (Middle \o fifo)
  <2>1. m \in 1 .. Len(item)
    <3>1. item \in Seq(Bytes) /\ item # << >> /\ length[t] \in Nat /\ length[t] > 0
      BY <1>0, <1>5, RxAssumption DEF rd_copy, TypeOK
    <3> QED BY <3>1, EmptyLen DEF CopyLen
  <2>2. item = c \o r /\ c \in Seq(Bytes) /\ r \in Seq(Bytes) /\ c # << >>
    <3>1. item \in Seq(Bytes) /\ Len(item) \in Nat
      BY <1>0, EmptyLen DEF TypeOK
    <3> HIDE DEF m
    <3>2. m \in 0 .. Len(item) /\ m > 0
      BY <2>1, <3>1
    <3>3. c \in Seq(Bytes) /\ Len(c) = m /\ r \in Seq(Bytes) /\ item = c \o r
      BY <3>1, <3>2, CutType, CutJoined
    <3> HIDE DEF c, r
    <3>4. c # << >>
      BY <3>2, <3>3, EmptyType
    <3> QED BY <3>3, <3>4
  <2>3. /\ item' = r /\ UNCHANGED <<ring, fifo>> /\ Middle' = Middle
        /\ buf' = [buf EXCEPT ![t] = @ \o c]
    BY <1>0, <1>5 DEF rd_copy, hwVars, fullVars, Middle, Credited
  <2>4. tl \in Seq(Bytes) /\ Unread = item \o tl /\ Unread' = r \o tl
    BY <1>0, <2>3, UnreadFromBack
  <2> HIDE DEF m, c, r, tl
  <2>5. Unread = c \o (r \o tl) /\ r \o tl \in Seq(Bytes)
    BY <2>2, <2>4, JoinLaws, JoinType
  <2> QED BY <1>00, <2>2, <2>3, <2>4, <2>5, Delivers
<1>6. CASE rd_return(t)
  <2>1. Middle' = Middle
    BY <1>0, <1>6 DEF rd_return, fullVars, Middle, Credited
  <2> QED BY <1>00, <1>6, <2>1, MovesNothing DEF rd_return, hwVars
<1>7. CASE rd_flag(t)
  <2>1. Middle' = Middle
    BY <1>0, <1>7 DEF rd_flag, fullVars, Middle, Credited
  <2> QED BY <1>00, <1>7, <2>1, MovesNothing DEF rd_flag, hwVars, ringVars
<1>8. CASE rd_resend(t)
  <2>1. mux = t /\ mux' = t /\ fullFlg /\ UNCHANGED <<item, fifo, buf, stash, fullFlg>>
    BY <1>0, <1>8 DEF rd_resend, hwVars, fullVars
  <2>2. CASE Len(stash) <= Room(ring, head)
    <3>1. Middle = stash /\ Middle' = << >> /\ ring' = ring \o stash
      BY <1>0, <1>8, <2>1, <2>2 DEF rd_resend, WithStash, Middle, Credited
    <3>2. Unread' = Unread
      <4>1. /\ item \in Seq(Bytes) /\ ring \in Seq(Bytes) /\ stash \in Seq(Bytes)
            /\ item \o (ring \o stash) \in Seq(Bytes)
        BY <1>0, UnreadParts, JoinType
      <4>2. (item \o (ring \o stash)) \o << >> = item \o (ring \o stash)
        BY <4>1, ConcatEmptySeq
      <4>3. (item \o ring) \o stash = item \o (ring \o stash)
        BY <4>1, ConcatAssociative
      <4> QED BY <2>1, <3>1, <4>2, <4>3, UnreadParts, UnreadPartsNext
    <3> QED BY <1>00, <2>1, <3>2, Keeps
  <2>3. CASE ~(Len(stash) <= Room(ring, head))
    <3>1. Middle' = Middle /\ ring' = ring
      BY <1>0, <1>8, <2>1, <2>3 DEF rd_resend, Middle, Credited
    <3> QED BY <1>00, <2>1, <3>1, MovesNothing
  <2> QED BY <2>2, <2>3
<1>9. CASE rd_credit(t)
  <2>1. Middle' = Middle
    BY <1>0, <1>9 DEF rd_credit, fullVars, Middle, Credited
  <2> QED BY <1>00, <1>9, <2>1, MovesNothing DEF rd_credit, hwVars, ringVars
<1>10. CASE rd_clear(t)
  <2>1. Middle' = Middle
    BY <1>0, <1>10 DEF rd_clear, Middle, Credited
  <2> QED BY <1>00, <1>10, <2>1, MovesNothing DEF rd_clear, hwVars, ringVars
<1>11. CASE rd_enable(t)
  <2>1. Middle' = Middle
    BY <1>0, <1>11 DEF rd_enable, fullVars, Middle, Credited
  <2> QED BY <1>00, <1>11, <2>1, MovesNothing DEF rd_enable, hwVars, ringVars
<1>12. CASE rd_give(t)
  <2>1. Middle' = Middle
    BY <1>0, <1>12 DEF rd_give, fullVars, Middle, Credited
  <2> QED BY <1>00, <1>12, <2>1, MovesNothing DEF rd_give, hwVars, ringVars
<1>13. CASE rd_account(t)
  <2>1. /\ UNCHANGED <<item, ring, fifo>> /\ Middle' = Middle
        /\ buf' = [buf EXCEPT ![t] = << >>]
    BY <1>0, <1>13 DEF rd_account, hwVars, ringVars, fullVars, Middle, Credited
  <2>2. Unread' = Unread
    BY <2>1, UnreadParts, UnreadPartsNext
  <2>3. Queue!Return(t)
    BY <1>00, <2>1, <2>2 DEF Queue!Return
  <2> QED BY <2>3 DEF QueueStep, Queue!QueueNext
<1> QED BY <1>1, <1>2, <1>3, <1>4, <1>5, <1>6, <1>7, <1>8, <1>9, <1>10, <1>11,
           <1>12, <1>13 DEF ReadStep

\* A flush loses the half-read item, the items of the ring, and the FIFO.
LEMMA RefineFlush ==
  ASSUME RxInv, NEW t \in Tasks, uart_flush(t) \/ FlushStep(t)
  PROVE  QueueStep
<1>0. /\ TypeOK /\ TypeOK' /\ t # NoTask /\ mux \in Tasks \cup {NoTask}
      /\ pc \in [Tasks -> Steps] /\ (pc[t] \in Holding => mux = t)
  BY FlushType, RxAssumption DEF RxInv, TypeOK, Tasks, Steps, Exclusion
<1>00. next' = next
  BY DEF uart_flush, FlushStep, fl_take, fl_disable, fl_head, fl_item, fl_reset, fl_enable,
         fl_give, hwVars
<1> USE DEF Goto, Holding, FlushSteps
<1>1. CASE uart_flush(t)
  <2>1. Middle' = Middle
    BY <1>0, <1>1 DEF uart_flush, fullVars, Middle, Credited
  <2> QED BY <1>00, <1>1, <2>1, MovesNothing DEF uart_flush, hwVars, ringVars
<1>2. CASE fl_take(t)
  <2>1. Middle' = Middle
    BY <1>0, <1>2 DEF fl_take, fullVars, Middle, Credited
  <2> QED BY <1>00, <1>2, <2>1, MovesNothing DEF fl_take, hwVars, ringVars
<1>3. CASE fl_disable(t)
  <2>1. Middle' = Middle
    BY <1>0, <1>3 DEF fl_disable, fullVars, Middle, Credited
  <2> QED BY <1>00, <1>3, <2>1, MovesNothing DEF fl_disable, hwVars, ringVars
<1>4. CASE fl_head(t)
  <2> DEFINE tl == ring \o (Middle \o fifo)
  <2>1. /\ item' = << >> /\ UNCHANGED <<ring, fifo, buf>> /\ Middle' = Middle /\ Flushing
    BY <1>0, <1>4 DEF fl_head, hwVars, fullVars, Middle, Credited, Flushing
  <2>2. /\ tl \in Seq(Bytes) /\ item \in Seq(Bytes) /\ << >> \in Seq(Bytes)
        /\ Unread = item \o tl /\ Unread' = << >> \o tl
    BY <1>0, <2>1, UnreadParts, UnreadFromBack, EmptyType
  <2> HIDE DEF tl
  <2>3. Unread = << >> \o (item \o tl)
    <3>1. item \o tl \in Seq(Bytes)
      BY <2>2, JoinType
    <3> QED BY <2>2, <3>1, ConcatEmptySeq
  <2> QED BY <1>00, <2>1, <2>2, <2>3, Loses
<1>5. CASE fl_item(t)
  <2>1. PICK k \in 1 .. Len(ring) :
          LET rest == Rest(ring, k)
          IN  IF fullFlg /\ Len(stash) <= Room(rest, head)
                THEN /\ ring' = WithStash(rest)
                     /\ buffered' = buffered - k + Len(stash)
                     /\ fullFlg' = FALSE /\ stash' = << >>
                ELSE /\ ring' = rest
                     /\ buffered' = buffered - k
                     /\ UNCHANGED fullVars
    BY <1>5 DEF fl_item
  <2> DEFINE c  == SubSeq(ring, 1, k)
             r  == Rest(ring, k)
             tl == Middle \o fifo
  <2>2. /\ UNCHANGED <<item, fifo, buf, mux, pc>> /\ ~Credited /\ ~Credited' /\ Flushing
    BY <1>0, <1>5 DEF fl_item, hwVars, callVars, Credited, Flushing
  <2>3. ring = c \o r /\ c \in Seq(Bytes) /\ r \in Seq(Bytes)
    <3>1. k \in 0 .. Len(ring) /\ ring \in Seq(Bytes)
      BY <1>0 DEF TypeOK
    <3> QED BY <3>1, CutJoined, CutType
  <2>4. /\ item \in Seq(Bytes) /\ Middle \in Seq(Bytes) /\ fifo \in Seq(Bytes)
        /\ stash \in Seq(Bytes) /\ Middle' \in Seq(Bytes) /\ << >> \in Seq(Bytes)
    BY <1>0, UnreadParts, UnreadPartsNext, EmptyType
  <2>5. ring' \o (Middle' \o fifo) = r \o tl
    <3>1. CASE fullFlg /\ Len(stash) <= Room(r, head)
      <4>1. ring' = r \o stash /\ Middle = stash /\ Middle' = << >>
        BY <2>1, <2>2, <3>1 DEF WithStash, Middle
      <4> HIDE DEF r, c
      <4>2. << >> \o fifo = fifo
        BY <2>4, JoinLaws
      <4>3. (r \o stash) \o fifo = r \o (stash \o fifo)
        <5>1. r \in Seq(Bytes) /\ stash \in Seq(Bytes) /\ fifo \in Seq(Bytes)
          BY <2>3, <2>4
        <5> QED BY ONLY <5>1, JoinLaws, Zenon
      <4> QED BY <4>1, <4>2, <4>3
    <3>2. CASE ~(fullFlg /\ Len(stash) <= Room(r, head))
      <4>1. ring' = r /\ stash' = stash /\ fullFlg' = fullFlg
        BY <2>1, <3>2 DEF fullVars
      <4>2. Middle' = Middle
        BY <2>2, <4>1 DEF Middle
      <4> QED BY <4>1, <4>2
    <3> QED BY <3>1, <3>2
  <2>6. Unread = item \o (ring \o tl) /\ Unread' = item \o (ring' \o (Middle' \o fifo))
        /\ tl \in Seq(Bytes)
    BY <1>0, <2>2, UnreadFromBack
  <2> HIDE DEF c, r, tl
  <2>7. Unread' = item \o (r \o tl) /\ Unread = item \o (c \o (r \o tl)) /\ r \o tl \in Seq(Bytes)
    <3>1. (c \o r) \o tl = c \o (r \o tl) /\ r \o tl \in Seq(Bytes)
      BY <2>3, <2>6, JoinLaws, JoinType
    <3> QED BY <2>3, <2>5, <2>6, <3>1
  <2> QED BY <1>00, <2>2, <2>3, <2>4, <2>7, Loses
<1>6. CASE fl_reset(t)
  <2> DEFINE front == item \o ring \o Middle
  <2>1. /\ UNCHANGED <<item, ring, buf>> /\ Middle' = Middle /\ fifo' = << >> /\ Flushing
    BY <1>0, <1>6 DEF fl_reset, hwVars, ringVars, fullVars, Middle, Credited, Flushing
  <2>2. front \in Seq(Bytes) /\ fifo \in Seq(Bytes) /\ << >> \in Seq(Bytes)
        /\ Unread = front \o fifo /\ Unread' = front \o << >>
    BY <1>0, <2>1, UnreadParts, UnreadPartsNext, JoinFour, EmptyType
  <2> HIDE DEF front
  <2>3. Unread = front \o (fifo \o << >>)
    BY <2>2, JoinLaws
  <2> QED BY <1>00, <2>1, <2>2, <2>3, Loses
<1>7. CASE fl_enable(t)
  <2>1. Middle' = Middle
    BY <1>0, <1>7 DEF fl_enable, fullVars, Middle, Credited
  <2> QED BY <1>00, <1>7, <2>1, MovesNothing DEF fl_enable, hwVars, ringVars
<1>8. CASE fl_give(t)
  <2>1. Middle' = Middle
    BY <1>0, <1>8 DEF fl_give, fullVars, Middle, Credited
  <2> QED BY <1>00, <1>8, <2>1, MovesNothing DEF fl_give, hwVars, ringVars
<1> QED BY <1>1, <1>2, <1>3, <1>4, <1>5, <1>6, <1>7, <1>8 DEF FlushStep

\* The driver implements the byte queue, for any number of readers and flushers
\* and any sizes: whatever handler and calls do to FIFO, stash, ring and half-read
\* item, the bytes that came reach the readers in their order, each once, and none
\* is lost but in a flush or an overrun.
THEOREM ImplementsQueue == Spec => ByteOrder
<1>1. Init => Queue!QueueInit
  <2> SUFFICES ASSUME Init PROVE Queue!QueueInit
    OBVIOUS
  <2>1. Unread = << >>
    BY DEF Init, Unread
  <2>2. ~Flushing /\ ~ovf /\ buf = [t \in Tasks |-> << >>] /\ next = 0
    BY DEF Init, Flushing, FlushSteps
  <2> QED BY <2>1, <2>2 DEF Queue!QueueInit
<1>2. RxInv /\ [Next]_vars => QueueStep
  <2> SUFFICES ASSUME RxInv, [Next]_vars PROVE QueueStep
    OBVIOUS
  <2>1. CASE Next
    BY <2>1, StepKinds, RefineIsr, RefineRead, RefineFlush
  <2>2. CASE UNCHANGED vars
    <3>1. UNCHANGED <<item, ring, fifo, buf, next>> /\ Middle' = Middle
      BY <2>2 DEF vars, hwVars, ringVars, fullVars, callVars, Middle, Credited
    <3> QED BY <3>1, MovesNothing
  <2> QED BY <2>1, <2>2
<1> QED BY <1>1, <1>2, RxInvInit, RxInvStep, PTL DEF Spec, ByteOrder, Queue!QueueSpec, QueueStep

=============================================================================
