------------------------------- MODULE UartTx -------------------------------
(***************************************************************************)
(* The sending half of modified-drivers/uart.c for a port other than the   *)
(* DMX port.  Without a transmit ring a writer fills the FIFO itself and   *)
(* waits on tx_fifo_sem for the "empty" interrupt; with a ring it queues a *)
(* description and then the data, and the handler fills the FIFO.  There   *)
(* is one core: while the handler runs (isr.on) only the hardware steps.   *)
(*                                                                         *)
(* A byte is known by its writer, its place in the call's data and whether *)
(* the call asked for a break after it.                                    *)
(***************************************************************************)
EXTENDS Integers, Sequences

CONSTANTS
  Writers, NoTask,     \* tasks, and the value of a free mutex
  MaxSize,             \* bound: bytes of a call
  Uses,                \* ways a port is installed and used: see Use
  FifoCap, Thresh      \* UART_FIFO_LEN, UART_EMPTY_THRESH_DEFAULT

\* ring: items the transmit ring holds, 0 for none; chunk: max_size / 2, the
\* longest item of a call; tasks: the callers; breaks: whether calls ask for a
\* break; size and calls: bounds on a call's bytes and on the calls of a task.
Use == [ring : Nat \ {1}, chunk : Nat \ {0}, tasks : SUBSET Writers,
        breaks : SUBSET BOOLEAN, size : 1 .. MaxSize, calls : Nat]

ASSUME TxAssumption ==
  /\ NoTask \notin Writers
  /\ MaxSize \in Nat \ {0} /\ Uses \subseteq Use
  /\ FifoCap \in Nat \ {0} /\ Thresh \in 1 .. FifoCap

VARIABLES
  use,                 \* how the port was installed; never changes
  pc, calls, rest,     \* per task: next step, calls begun, bytes still to hand over
  brk,                 \* per task: the call ends in a break
  mux,                 \* holder of tx_mux
  ring,                \* items in tx_ring_buf
  cur,                 \* from tx_ptr: tx_len_cur bytes of the item that is out
  lenTot,              \* tx_len_tot
  brkFlg, waitBrk,     \* tx_brk_flg, tx_waiting_brk
  fifoSem, waitFifo,   \* tx_fifo_sem is given; tx_waiting_fifo
  brkSem, doneSem,     \* tx_brk_sem, tx_done_sem are given
  emptyEna, brkEna, doneEna,  \* int_ena of TXFIFO_EMPTY, TX_BRK_DONE, TX_DONE
  brkRaw, doneRaw,     \* int_raw of TX_BRK_DONE and TX_DONE
  txdBrk, txFifo,      \* conf0.txd_brk; the transmit FIFO
  isr,                 \* the handler: running, tx_fifo_rem, en_tx_flg, stuck
  sym                  \* ghost: what was last sent

taskVars == <<pc, calls, rest, brk>>
itemVars == <<ring, cur, lenTot, brkFlg, waitBrk>>
semVars  == <<fifoSem, waitFifo, brkSem, doneSem>>
intVars  == <<emptyEna, brkEna, doneEna, brkRaw, doneRaw>>
hwVars   == <<txdBrk, txFifo, sym>>
vars     == <<use, taskVars, mux, itemVars, semVars, intVars, hwVars, isr>>

Byte  == [w : Writers, i : 1 .. MaxSize, n : 1 .. MaxSize, b : BOOLEAN]
Other(k) == [w |-> NoTask, i |-> k, n |-> 0, b |-> FALSE]
Break == Other(0)
Start == Other(-1)
Junk  == Other(-2)     \* a description sent as if it were data
Asleep == [on |-> FALSE, rem |-> 0, en |-> FALSE, stuck |-> FALSE]

WriteSteps == {"wr_take", "wr_event", "wr_data", "wr_enable", "wr_give",
               "wr_sem", "wr_fill", "wr_arm", "wr_break", "wr_brksem", "wr_semgive",
               "wr_last"}
WaitSteps  == {"wt_take", "wt_stale", "wt_check", "wt_arm", "wt_wait", "wt_disarm",
               "wt_give"}
CharSteps  == {"tc_take", "tc_fill"}

TypeOK ==
  /\ use \in Uses
  /\ pc \in [Writers -> WriteSteps \cup WaitSteps \cup CharSteps \cup {"idle"}]
  /\ calls \in [Writers -> Nat]
  /\ rest \in [Writers -> Seq(Byte)] /\ brk \in [Writers -> BOOLEAN]
  /\ mux \in Writers \cup {NoTask}
  /\ ring \in Seq([event : BOOLEAN, size : 0 .. MaxSize, brk : BOOLEAN, data : Seq(Byte \cup {Junk})])
  /\ Len(ring) <= use.ring
  /\ cur \in Seq(Byte \cup {Junk}) /\ lenTot \in Int
  /\ {brkFlg, waitBrk, fifoSem, waitFifo, brkSem, doneSem} \subseteq BOOLEAN
  /\ {emptyEna, brkEna, doneEna, brkRaw, doneRaw, txdBrk} \subseteq BOOLEAN
  /\ txFifo \in Seq(Byte \cup {Junk}) /\ Len(txFifo) <= FifoCap
  /\ isr \in [on : BOOLEAN, rem : 0 .. FifoCap, en : BOOLEAN, stuck : BOOLEAN]
  /\ sym \in Byte \cup {Break, Start, Junk}

\* As uart_driver_install leaves the port.
Init ==
  /\ use \in Uses
  /\ pc = [w \in Writers |-> "idle"] /\ calls = [w \in Writers |-> 0]
  /\ rest = [w \in Writers |-> << >>] /\ brk = [w \in Writers |-> FALSE]
  /\ mux = NoTask
  /\ ring = << >> /\ cur = << >> /\ lenTot = 0 /\ brkFlg = FALSE /\ waitBrk = FALSE
  /\ fifoSem = TRUE /\ waitFifo = FALSE /\ brkSem = FALSE /\ doneSem = FALSE
  /\ emptyEna = FALSE /\ brkEna = FALSE /\ doneEna = FALSE
  /\ brkRaw = FALSE /\ doneRaw = FALSE
  /\ txdBrk = FALSE /\ txFifo = << >> /\ isr = Asleep /\ sym = Start

MinOf(a, b) == IF a > b THEN b ELSE a
From(s, n)  == SubSeq(s, n + 1, Len(s))
Upto(s, n)  == SubSeq(s, 1, n)

-----------------------------------------------------------------------------
(* The transmitter.                                                        *)

\* A byte leaves; TX_DONE is raised with the last.
SendByte ==
  /\ txFifo # << >>
  /\ sym' = Head(txFifo) /\ txFifo' = Tail(txFifo)
  /\ doneRaw' = (doneRaw \/ Len(txFifo) = 1)
  /\ UNCHANGED <<use, taskVars, mux, itemVars, semVars, emptyEna, brkEna, doneEna, brkRaw, txdBrk, isr>>

\* A break that was asked for is sent when the FIFO is empty.
SendBreak ==
  /\ txdBrk /\ ~brkRaw /\ txFifo = << >>
  /\ sym' = Break /\ brkRaw' = TRUE
  /\ UNCHANGED <<use, taskVars, mux, itemVars, semVars, emptyEna, brkEna, doneEna, doneRaw, txdBrk, txFifo, isr>>

Hw == SendByte \/ SendBreak

-----------------------------------------------------------------------------
(* The interrupt handler.                                                  *)

\* Fault: what is in the FIFO is not counted.
FifoRoom_all == FifoCap

FifoRoom == FifoCap - Len(txFifo)

EmptyPending   == emptyEna /\ Len(txFifo) < Thresh
BrkDonePending == brkEna /\ brkRaw /\ ~EmptyPending
DonePending    == doneEna /\ doneRaw /\ ~EmptyPending /\ ~(brkEna /\ brkRaw)

\* While a break is awaited, or without a ring when nobody waits for room, the
\* handler says "continue" without reading the status again: it loops for ever.
isr_stuck ==
  /\ ~isr.on /\ EmptyPending
  /\ waitBrk \/ (use.ring = 0 /\ ~waitFifo)
  /\ isr' = [Asleep EXCEPT !.on = TRUE, !.stuck = TRUE]
  /\ emptyEna' = FALSE
  /\ UNCHANGED <<use, taskVars, mux, itemVars, semVars, brkEna, doneEna, brkRaw, doneRaw, hwVars>>

\* Without a ring: the writer that waits for room is woken.
isr_tx_wake ==
  /\ ~isr.on /\ EmptyPending /\ ~waitBrk /\ waitFifo /\ use.ring = 0
  /\ waitFifo' = FALSE /\ fifoSem' = TRUE
  /\ emptyEna' = FALSE
  /\ UNCHANGED <<use, taskVars, mux, itemVars, brkSem, doneSem, brkEna, doneEna, brkRaw, doneRaw, hwVars, isr>>

isr_tx_begin ==
  /\ ~isr.on /\ EmptyPending /\ ~waitBrk /\ use.ring > 0
  /\ isr' = [Asleep EXCEPT !.on = TRUE, !.rem = FifoRoom]
  /\ emptyEna' = FALSE
  /\ UNCHANGED <<use, taskVars, mux, itemVars, semVars, brkEna, doneEna, brkRaw, doneRaw, hwVars>>

Filling  == isr.on /\ ~isr.stuck /\ isr.rem > 0
NeedItem == lenTot = 0 \/ cur = << >>

\* The description is read and returned.  Data taken for one says anything.
isr_tx_event ==
  /\ Filling /\ NeedItem /\ ring # << >> /\ lenTot = 0
  /\ \E n \in 0 .. MaxSize, b \in BOOLEAN :
       /\ Head(ring).event => n = Head(ring).size /\ b = Head(ring).brk
       /\ lenTot' = n
       /\ brkFlg' = (brkFlg \/ b)
  /\ cur' = << >>
  /\ ring' = Tail(ring)
  /\ UNCHANGED <<use, taskVars, mux, waitBrk, semVars, intVars, hwVars, isr>>

isr_tx_item ==
  /\ Filling /\ NeedItem /\ ring # << >> /\ lenTot # 0
  /\ cur' = Head(ring).data
  /\ ring' = Tail(ring)
  /\ isr' = [isr EXCEPT !.en = TRUE]
  /\ UNCHANGED <<use, taskVars, mux, lenTot, brkFlg, waitBrk, semVars, intVars, hwVars>>

\* Faults: the interrupt is not asked for when something is left over; tx_ptr is
\* not moved on.
FillEnables_not == isr.en
LeftOver_again(n) == IF n = Len(cur) THEN << >> ELSE cur

FillEnables == TRUE
LeftOver(n) == From(cur, n)

isr_tx_fill ==
  LET n    == MinOf(Len(cur), isr.rem)
      done == n = Len(cur)
      due  == done /\ brkFlg /\ lenTot = n
  IN  /\ Filling /\ ~NeedItem
      /\ txFifo' = txFifo \o Upto(cur, n)
      /\ cur' = LeftOver(n)
      /\ lenTot' = lenTot - n
      /\ isr' = [isr EXCEPT !.rem = @ - n, !.en = IF due THEN @ ELSE FillEnables]
      /\ IF due THEN txdBrk' = TRUE /\ brkRaw' = FALSE /\ brkEna' = TRUE /\ waitBrk' = TRUE
                ELSE UNCHANGED <<txdBrk, brkRaw, brkEna, waitBrk>>
      /\ UNCHANGED <<use, taskVars, mux, ring, brkFlg, semVars, emptyEna, doneEna, doneRaw, sym>>

isr_tx_end ==
  /\ isr.on /\ ~isr.stuck
  /\ isr.rem = 0 \/ (NeedItem /\ ring = << >>)
  /\ emptyEna' = isr.en
  /\ isr' = Asleep
  /\ UNCHANGED <<use, taskVars, mux, itemVars, semVars, brkEna, doneEna, brkRaw, doneRaw, hwVars>>

isr_brk_done ==
  /\ ~isr.on /\ BrkDonePending
  /\ txdBrk' = FALSE /\ brkEna' = FALSE /\ brkRaw' = FALSE
  /\ IF brkFlg
       THEN /\ emptyEna' = TRUE /\ brkFlg' = FALSE /\ waitBrk' = FALSE
            /\ UNCHANGED brkSem
       ELSE brkSem' = TRUE /\ UNCHANGED <<emptyEna, brkFlg, waitBrk>>
  /\ UNCHANGED <<use, taskVars, mux, ring, cur, lenTot, fifoSem, waitFifo, doneSem, doneEna, doneRaw, txFifo, sym, isr>>

isr_tx_done ==
  /\ ~isr.on /\ DonePending
  /\ doneEna' = FALSE /\ doneRaw' = FALSE /\ doneSem' = TRUE
  /\ UNCHANGED <<use, taskVars, mux, itemVars, fifoSem, waitFifo, brkSem, emptyEna, brkEna, brkRaw, hwVars, isr>>

Isr == \/ isr_stuck \/ isr_tx_wake \/ isr_tx_begin \/ isr_tx_event \/ isr_tx_item
       \/ isr_tx_fill \/ isr_tx_end \/ isr_brk_done \/ isr_tx_done

-----------------------------------------------------------------------------
(* uart_tx_all, from uart_write_bytes and uart_write_bytes_with_break.     *)

Goto(w, from, to) == ~isr.on /\ pc[w] = from /\ pc' = [pc EXCEPT ![w] = to]

Call(w, first) ==
  /\ Goto(w, "idle", first)
  /\ w \in use.tasks /\ calls[w] < use.calls
  /\ calls' = [calls EXCEPT ![w] = @ + 1]

uart_tx_all(w) ==
  /\ Call(w, "wr_take")
  /\ \E n \in 1 .. use.size, b \in use.breaks :
       /\ rest' = [rest EXCEPT ![w] = [i \in 1 .. n |-> [w |-> w, i |-> i, n |-> n, b |-> b]]]
       /\ brk' = [brk EXCEPT ![w] = b]
  /\ UNCHANGED <<use, mux, itemVars, semVars, intVars, hwVars, isr>>

Take(w, from, to) == Goto(w, from, to) /\ mux = NoTask /\ mux' = w

wr_take(w) ==
  /\ Take(w, "wr_take", IF use.ring > 0 THEN "wr_event" ELSE "wr_sem")
  /\ UNCHANGED <<use, calls, rest, brk, itemVars, semVars, intVars, hwVars, isr>>

\* xRingbufferSend waits for room; the item that is out takes up its place.
RingSend(x) ==
  /\ Len(ring) + (IF cur # << >> THEN 1 ELSE 0) < use.ring
  /\ ring' = Append(ring, x)

wr_event(w) ==
  /\ Goto(w, "wr_event", "wr_data")
  /\ RingSend([event |-> TRUE, size |-> Len(rest[w]), brk |-> brk[w], data |-> <<Junk>>])
  /\ UNCHANGED <<use, calls, rest, brk, mux, cur, lenTot, brkFlg, waitBrk, semVars, intVars, hwVars, isr>>

wr_data(w) ==
  LET n == MinOf(Len(rest[w]), use.chunk)
  IN  /\ Goto(w, "wr_data", "wr_enable")
      /\ RingSend([event |-> FALSE, size |-> n, brk |-> FALSE, data |-> Upto(rest[w], n)])
      /\ rest' = [rest EXCEPT ![w] = From(@, n)]
      /\ UNCHANGED <<use, calls, brk, mux, cur, lenTot, brkFlg, waitBrk, semVars, intVars, hwVars, isr>>

wr_enable(w) ==
  /\ Goto(w, "wr_enable", IF rest[w] = << >> THEN "wr_give" ELSE "wr_data")
  /\ emptyEna' = TRUE
  /\ UNCHANGED <<use, calls, rest, brk, mux, itemVars, semVars, brkEna, doneEna, brkRaw, doneRaw, hwVars, isr>>

wr_give(w) ==
  /\ Goto(w, "wr_give", "wr_last")
  /\ mux' = NoTask
  /\ UNCHANGED <<use, calls, rest, brk, itemVars, semVars, intVars, hwVars, isr>>

wr_sem(w) ==
  /\ Goto(w, "wr_sem", "wr_fill")
  /\ fifoSem /\ fifoSem' = FALSE
  /\ UNCHANGED <<use, calls, rest, brk, mux, itemVars, waitFifo, brkSem, doneSem, intVars, hwVars, isr>>

\* Fault: the flag that tells the handler who waits is not set.
Waiting_not(short) == waitFifo

Waiting(short) == waitFifo \/ short

\* uart_fill_fifo, and tx_waiting_fifo when not everything went in.
wr_fill(w) ==
  LET n == MinOf(Len(rest[w]), FifoRoom)
  IN  /\ Goto(w, "wr_fill", IF n < Len(rest[w]) THEN "wr_arm"
                            ELSE IF brk[w] THEN "wr_break" ELSE "wr_semgive")
      /\ txFifo' = txFifo \o Upto(rest[w], n)
      /\ rest' = [rest EXCEPT ![w] = From(@, n)]
      /\ waitFifo' = Waiting(n < Len(rest[w]))
      /\ UNCHANGED <<use, calls, brk, mux, itemVars, fifoSem, brkSem, doneSem, intVars, txdBrk, sym, isr>>

wr_arm(w) ==
  /\ Goto(w, "wr_arm", "wr_sem")
  /\ emptyEna' = TRUE
  /\ UNCHANGED <<use, calls, rest, brk, mux, itemVars, semVars, brkEna, doneEna, brkRaw, doneRaw, hwVars, isr>>

\* uart_set_break.
wr_break(w) ==
  /\ Goto(w, "wr_break", "wr_brksem")
  /\ txdBrk' = TRUE /\ brkRaw' = FALSE /\ brkEna' = TRUE
  /\ UNCHANGED <<use, calls, rest, brk, mux, itemVars, semVars, emptyEna, doneEna, doneRaw, txFifo, sym, isr>>

wr_brksem(w) ==
  /\ Goto(w, "wr_brksem", "wr_semgive")
  /\ brkSem /\ brkSem' = FALSE
  /\ UNCHANGED <<use, calls, rest, brk, mux, itemVars, fifoSem, waitFifo, doneSem, intVars, hwVars, isr>>

wr_semgive(w) ==
  /\ Goto(w, "wr_semgive", "wr_last")
  /\ fifoSem' = TRUE
  /\ UNCHANGED <<use, calls, rest, brk, mux, itemVars, waitFifo, brkSem, doneSem, intVars, hwVars, isr>>

\* The last statement of uart_tx_all gives tx_mux, for the second time when
\* there is a ring; FreeRTOS's assertion on its holder only prints.
wr_last(w) ==
  /\ Goto(w, "wr_last", "idle")
  /\ mux' = NoTask
  /\ rest' = [rest EXCEPT ![w] = << >>] /\ brk' = [brk EXCEPT ![w] = FALSE]
  /\ UNCHANGED <<use, calls, itemVars, semVars, intVars, hwVars, isr>>

WriteStep(w) ==
  \/ wr_take(w) \/ wr_event(w) \/ wr_data(w) \/ wr_enable(w) \/ wr_give(w)
  \/ wr_sem(w) \/ wr_fill(w) \/ wr_arm(w) \/ wr_break(w) \/ wr_brksem(w)
  \/ wr_semgive(w) \/ wr_last(w)

-----------------------------------------------------------------------------
(* uart_tx_chars: one byte, if there is room.                              *)

uart_tx_chars(w) ==
  /\ use.ring = 0
  /\ Call(w, "tc_take")
  /\ UNCHANGED <<use, rest, brk, mux, itemVars, semVars, intVars, hwVars, isr>>

tc_take(w) ==
  /\ Take(w, "tc_take", "tc_fill")
  /\ UNCHANGED <<use, calls, rest, brk, itemVars, semVars, intVars, hwVars, isr>>

tc_fill(w) ==
  /\ Goto(w, "tc_fill", "idle")
  /\ txFifo' = IF Len(txFifo) < FifoCap
                 THEN Append(txFifo, [w |-> w, i |-> 1, n |-> 1, b |-> FALSE]) ELSE txFifo
  /\ mux' = NoTask
  /\ UNCHANGED <<use, calls, rest, brk, itemVars, semVars, intVars, txdBrk, sym, isr>>

-----------------------------------------------------------------------------
(* uart_wait_tx_done.                                                      *)

uart_wait_tx_done(w) ==
  /\ use.ring = 0
  /\ Call(w, "wt_take")
  /\ UNCHANGED <<use, rest, brk, mux, itemVars, semVars, intVars, hwVars, isr>>

wt_take(w) ==
  /\ Take(w, "wt_take", "wt_stale")
  /\ UNCHANGED <<use, calls, rest, brk, itemVars, semVars, intVars, hwVars, isr>>

wt_take_timeout(w) ==
  /\ mux # NoTask
  /\ Goto(w, "wt_take", "idle")
  /\ UNCHANGED <<use, calls, rest, brk, mux, itemVars, semVars, intVars, hwVars, isr>>

\* Fault: what an earlier wait left in the semaphore is not taken out.
Stale_kept == doneSem

Stale == FALSE

wt_stale(w) ==
  /\ Goto(w, "wt_stale", "wt_check")
  /\ doneSem' = Stale
  /\ UNCHANGED <<use, calls, rest, brk, mux, itemVars, fifoSem, waitFifo, brkSem, intVars, hwVars, isr>>

wt_check(w) ==
  /\ Goto(w, "wt_check", IF txFifo = << >> THEN "wt_give" ELSE "wt_arm")
  /\ UNCHANGED <<use, calls, rest, brk, mux, itemVars, semVars, intVars, hwVars, isr>>

\* uart_enable_intr_mask clears the flag before it enables the interrupt.
wt_arm(w) ==
  /\ Goto(w, "wt_arm", "wt_wait")
  /\ doneRaw' = FALSE /\ doneEna' = TRUE
  /\ UNCHANGED <<use, calls, rest, brk, mux, itemVars, semVars, emptyEna, brkEna, brkRaw, hwVars, isr>>

wt_wait(w) ==
  /\ Goto(w, "wt_wait", "wt_give")
  /\ doneSem /\ doneSem' = FALSE
  /\ UNCHANGED <<use, calls, rest, brk, mux, itemVars, fifoSem, waitFifo, brkSem, intVars, hwVars, isr>>

\* A time limit that has passed at uart.c:900 wraps round; the wait is then a long one.
wt_wait_timeout(w) ==
  /\ ~doneSem
  /\ Goto(w, "wt_wait", "wt_disarm")
  /\ UNCHANGED <<use, calls, rest, brk, mux, itemVars, semVars, intVars, hwVars, isr>>

wt_disarm(w) ==
  /\ Goto(w, "wt_disarm", "idle")
  /\ doneEna' = FALSE
  /\ mux' = NoTask
  /\ UNCHANGED <<use, calls, rest, brk, itemVars, semVars, emptyEna, brkEna, brkRaw, doneRaw, hwVars, isr>>

wt_give(w) ==
  /\ Goto(w, "wt_give", "idle")
  /\ mux' = NoTask
  /\ UNCHANGED <<use, calls, rest, brk, itemVars, semVars, intVars, hwVars, isr>>

WaitStep(w) ==
  \/ wt_take(w) \/ wt_take_timeout(w) \/ wt_stale(w) \/ wt_check(w) \/ wt_arm(w)
  \/ wt_wait(w) \/ wt_wait_timeout(w) \/ wt_disarm(w) \/ wt_give(w)

Begin(w) == uart_tx_all(w) \/ uart_tx_chars(w) \/ uart_wait_tx_done(w)
Step(w)  == WriteStep(w) \/ tc_take(w) \/ tc_fill(w) \/ WaitStep(w)

Next == Hw \/ Isr \/ \E w \in Writers : Begin(w) \/ Step(w)

Spec == Init /\ [][Next]_vars

\* The transmitter runs, interrupts are taken and a call goes on; a task that
\* waits for the mutex gets it sooner or later (FreeRTOS queues the waiters).
Fairness == WF_vars(Hw) /\ WF_vars(Isr) /\ \A w \in Writers : SF_vars(Step(w))

FairSpec == Spec /\ Fairness

-----------------------------------------------------------------------------
(* Properties.                                                             *)

\* What may follow s on the line: the next byte of the same call, and after its
\* last one the break it asked for; only then another call.
Follows(s, x) ==
  CASE s \in Byte /\ s.i < s.n        -> x = [s EXCEPT !.i = s.i + 1]
    [] s \in Byte /\ s.i = s.n /\ s.b -> x = Break
    [] OTHER                          -> x \in Byte /\ x.i = 1

\* The bytes of a call leave together and in order, then its break, whatever the
\* interleaving of writers, handler and transmitter.
MessageOrder == [][Hw => Follows(sym, sym')]_vars

\* Every write returns and everything handed over is sent, unless the handler
\* spins for a break that it will not notice (HandlerReturns).
WritesFinish ==
  []<>(\/ isr.stuck
       \/ /\ txFifo = << >> /\ ring = << >> /\ cur = << >> /\ ~txdBrk
          /\ \A w \in Writers : pc[w] \notin WriteSteps)

\* Without a ring a wait succeeds only when all that was written has left: not
\* on the semaphore of an earlier wait that timed out as its TX_DONE came.
DoneMeansSent == \A w \in Writers : pc[w] = "wt_give" => txFifo = << >>

\* The "empty" interrupt is never taken without a ring and without a writer that
\* waits for room: what else could stop the handler is only a pending break.
WaiterKnown == isr.stuck => waitBrk

\* The handler returns.
HandlerReturns == ~isr.stuck

=============================================================================
