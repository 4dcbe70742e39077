------------------------------- MODULE UartRx -------------------------------
(***************************************************************************)
(* The receiving half of modified-drivers/uart.c for a port other than the *)
(* DMX port: the interrupt handler empties the hardware FIFO into a ring;  *)
(* when the ring has no room it stashes the bytes, sets rx_buffer_full_flg *)
(* and disables itself, and the task that next frees room puts the stash   *)
(* into the ring and enables it again.  uart_read_bytes and uart_flush of  *)
(* any number of tasks exclude each other by rx_mux, not the handler.  One *)
(* pass of the handler is one action (there is one core), a task's call is *)
(* split at every access the handler can see.                              *)
(*                                                                         *)
(* A byte is a number that counts arrivals modulo Marks: its content is of *)
(* no interest, its identity is.                                           *)
(***************************************************************************)
EXTENDS Integers, Sequences, FiniteSets

CONSTANTS
  Readers, Flushers,   \* tasks that call uart_read_bytes, and uart_flush
  FifoCap,             \* UART_FIFO_LEN
  RingCap,             \* bytes rx_ring_buf holds
  MaxRead,             \* bound: longest read asked for
  Marks,               \* numbers that tell bytes apart
  NoTask               \* rx_mux is free

Tasks == Readers \cup Flushers
Bytes == 0 .. Marks - 1

\* The driver refuses a ring that is not longer than the FIFO.
ASSUME RxAssumption ==
  /\ FifoCap \in Nat \ {0} /\ RingCap \in Nat /\ RingCap >= FifoCap
  /\ MaxRead \in Nat \ {0} /\ Marks \in Nat \ {0}
  /\ IsFiniteSet(Readers) /\ IsFiniteSet(Flushers)
  /\ NoTask \notin Readers \cup Flushers

VARIABLES
  fifo, ovf,           \* receive FIFO; its overflow interrupt is raised
  rxEna,               \* int_ena of RXFIFO_FULL and RXFIFO_TOUT
  ring,                \* bytes in rx_ring_buf that nobody has taken
  head,                \* size of the item at rx_head_ptr (0: none); it takes
                       \* up room until it is returned
  item,                \* the rest of it, from rx_ptr: rx_cur_remain bytes
  stash, fullFlg,      \* rx_data_buf while it waits; rx_buffer_full_flg
  buffered,            \* rx_buffered_len
  mux,                 \* holder of rx_mux
  pc, length, buf,     \* per task: next step, bytes wanted, bytes copied
  next                 \* ghost: number of the next byte

hwVars   == <<fifo, ovf, next>>
ringVars == <<ring, head, item>>
fullVars == <<stash, fullFlg>>
callVars == <<pc, length, buf>>
vars     == <<hwVars, rxEna, ringVars, fullVars, buffered, mux, callVars>>

ReadSteps  == {"rd_take", "rd_loop", "rd_return", "rd_flag", "rd_resend",
               "rd_credit", "rd_clear", "rd_enable", "rd_account"}
FlushSteps == {"fl_take", "fl_disable", "fl_head", "fl_loop",
               "fl_enable", "fl_give"}

TypeOK ==
  /\ fifo \in Seq(Bytes) /\ Len(fifo) <= FifoCap /\ ovf \in BOOLEAN /\ next \in Bytes
  /\ rxEna \in BOOLEAN /\ fullFlg \in BOOLEAN
  /\ ring \in Seq(Bytes) /\ item \in Seq(Bytes) /\ stash \in Seq(Bytes)
  /\ head \in Nat /\ Len(ring) + head <= RingCap /\ Len(stash) <= FifoCap
  /\ buffered \in Int
  /\ mux \in Tasks \cup {NoTask}
  /\ pc \in [Tasks -> ReadSteps \cup FlushSteps \cup {"idle"}]
  /\ length \in [Tasks -> 0 .. MaxRead]
  /\ buf \in [Tasks -> Seq(Bytes)]

\* As uart_driver_install leaves the port.
Init ==
  /\ fifo = << >> /\ ovf = FALSE /\ next = 0 /\ rxEna = TRUE
  /\ ring = << >> /\ head = 0 /\ item = << >>
  /\ stash = << >> /\ fullFlg = FALSE /\ buffered = 0 /\ mux = NoTask
  /\ pc = [t \in Tasks |-> "idle"]
  /\ length = [t \in Tasks |-> 0]
  /\ buf = [t \in Tasks |-> << >>]

-----------------------------------------------------------------------------
(* The ring: a byte buffer of which one item at a time may be out.  An item *)
(* is what can be read without wrapping round: all there is, or a prefix.   *)

Room(r, h) == RingCap - Len(r) - h
Rest(s, n) == SubSeq(s, n + 1, Len(s))

-----------------------------------------------------------------------------
(* Hardware and interrupt handler.                                         *)

ByteArrives ==
  /\ next' = (next + 1) % Marks
  /\ IF Len(fifo) < FifoCap
       THEN fifo' = Append(fifo, next) /\ UNCHANGED ovf
       ELSE ovf' = TRUE /\ UNCHANGED fifo
  /\ UNCHANGED <<rxEna, ringVars, fullVars, buffered, mux, callVars>>

RxPending == rxEna /\ fifo # << >>

\* Fault: the handler reads the FIFO over a waiting stash.
Stashing_blind == TRUE

\* A second batch must not overwrite the stash.
Stashing == ~fullFlg

isr_rx_to_ring ==
  /\ RxPending /\ Stashing /\ Len(fifo) <= Room(ring, head)
  /\ ring' = ring \o fifo
  /\ fifo' = << >>
  /\ buffered' = buffered + Len(fifo)
  /\ UNCHANGED <<ovf, next, rxEna, head, item, fullVars, mux, callVars>>

isr_rx_to_stash ==
  /\ RxPending /\ Stashing /\ Len(fifo) > Room(ring, head)
  /\ stash' = fifo /\ fullFlg' = TRUE
  /\ fifo' = << >>
  /\ rxEna' = FALSE
  /\ UNCHANGED <<ovf, next, ringVars, buffered, mux, callVars>>

isr_rx_full ==
  /\ RxPending /\ ~Stashing
  /\ rxEna' = FALSE
  /\ UNCHANGED <<hwVars, ringVars, fullVars, buffered, mux, callVars>>

\* Overflow is looked at after reception, and resets the FIFO.
isr_rx_ovf ==
  /\ ovf /\ ~RxPending
  /\ ovf' = FALSE /\ fifo' = << >>
  /\ UNCHANGED <<next, rxEna, ringVars, fullVars, buffered, mux, callVars>>

Isr == isr_rx_to_ring \/ isr_rx_to_stash \/ isr_rx_full \/ isr_rx_ovf

-----------------------------------------------------------------------------
(* uart_read_bytes.                                                        *)

Goto(t, from, to) == pc[t] = from /\ pc' = [pc EXCEPT ![t] = to]

uart_read_bytes(t, n) ==
  /\ Goto(t, "idle", "rd_take")
  /\ length' = [length EXCEPT ![t] = n]
  /\ UNCHANGED <<hwVars, rxEna, ringVars, fullVars, buffered, mux, buf>>

rd_take(t) ==
  /\ Goto(t, "rd_take", "rd_loop")
  /\ mux = NoTask /\ mux' = t
  /\ UNCHANGED <<hwVars, rxEna, ringVars, fullVars, buffered, length, buf>>

\* The mutex was not free in time: -1 is returned.
rd_timeout(t) ==
  /\ Goto(t, "rd_take", "idle")
  /\ mux # NoTask
  /\ UNCHANGED <<hwVars, rxEna, ringVars, fullVars, buffered, mux, length, buf>>

rd_receive(t) ==
  /\ pc[t] = "rd_loop" /\ length[t] > 0 /\ item = << >>
  /\ \E k \in 1 .. Len(ring) :
       /\ item' = SubSeq(ring, 1, k) /\ head' = k
       /\ ring' = Rest(ring, k)
  /\ UNCHANGED <<hwVars, rxEna, fullVars, buffered, mux, callVars>>

\* Fault: a byte more than asked for is copied out of the item.
CopyLen_over(n, m) == IF m > n THEN n + 1 ELSE m

CopyLen(n, m) == IF m > n THEN n ELSE m

rd_copy(t) ==
  LET m == CopyLen(length[t], Len(item))
  IN  /\ pc[t] = "rd_loop" /\ length[t] > 0 /\ item # << >>
      /\ buf' = [buf EXCEPT ![t] = @ \o SubSeq(item, 1, m)]
      /\ item' = Rest(item, m)
      /\ length' = [length EXCEPT ![t] = @ - m]
      /\ pc' = [pc EXCEPT ![t] = IF item' = << >> THEN "rd_return" ELSE "rd_loop"]
      /\ UNCHANGED <<hwVars, rxEna, ring, head, fullVars, buffered, mux>>

rd_return(t) ==
  /\ Goto(t, "rd_return", "rd_flag")
  /\ head' = 0
  /\ UNCHANGED <<hwVars, rxEna, ring, item, fullVars, buffered, mux, length, buf>>

\* Fault: a read that has all it wanted leaves without a look at the flag.
StashDue_mid(t) == fullFlg /\ length[t] > 0

StashDue(t) == fullFlg

rd_flag(t) ==
  /\ Goto(t, "rd_flag", IF StashDue(t) THEN "rd_resend" ELSE "rd_loop")
  /\ UNCHANGED <<hwVars, rxEna, ringVars, fullVars, buffered, mux, length, buf>>

\* Fault: the stash overtakes what is in the ring.
WithStash_first(r) == stash \o r

WithStash(r) == r \o stash

\* xRingbufferSend of the stash, with nobody else to make room meanwhile.
rd_resend(t) ==
  LET fits == Len(stash) <= Room(ring, head)
  IN  /\ Goto(t, "rd_resend", IF fits THEN "rd_credit" ELSE "rd_loop")
      /\ ring' = IF fits THEN WithStash(ring) ELSE ring
      /\ UNCHANGED <<hwVars, rxEna, head, item, fullVars, buffered, mux, length, buf>>

\* Fault: the stash that went into the ring is not counted.
Credit_none(n) == n

Credit(n) == n + Len(stash)

rd_credit(t) ==
  /\ Goto(t, "rd_credit", "rd_clear")
  /\ buffered' = Credit(buffered)
  /\ UNCHANGED <<hwVars, rxEna, ringVars, fullVars, mux, length, buf>>

\* rx_data_buf keeps its bytes, but nothing reads them any more.
rd_clear(t) ==
  /\ Goto(t, "rd_clear", "rd_enable")
  /\ fullFlg' = FALSE /\ stash' = << >>
  /\ UNCHANGED <<hwVars, rxEna, ringVars, buffered, mux, length, buf>>

\* Fault: reception is not enabled again.
EnableRx_not == rxEna

EnableRx == TRUE

rd_enable(t) ==
  /\ Goto(t, "rd_enable", "rd_loop")
  /\ rxEna' = EnableRx
  /\ UNCHANGED <<hwVars, ringVars, fullVars, buffered, mux, length, buf>>

\* All that was asked for, or no item in time.
rd_give(t) ==
  /\ Goto(t, "rd_loop", "rd_account")
  /\ length[t] = 0 \/ (item = << >> /\ ring = << >>)
  /\ mux' = NoTask
  /\ UNCHANGED <<hwVars, rxEna, ringVars, fullVars, buffered, length, buf>>

\* rx_buffered_len is corrected after the mutex was given.
rd_account(t) ==
  /\ Goto(t, "rd_account", "idle")
  /\ buffered' = buffered - Len(buf[t])
  /\ buf' = [buf EXCEPT ![t] = << >>]
  /\ length' = [length EXCEPT ![t] = 0]
  /\ UNCHANGED <<hwVars, rxEna, ringVars, fullVars, mux>>

ReadStep(t) ==
  \/ rd_take(t) \/ rd_timeout(t) \/ rd_receive(t) \/ rd_copy(t) \/ rd_return(t)
  \/ rd_flag(t) \/ rd_resend(t) \/ rd_credit(t) \/ rd_clear(t) \/ rd_enable(t)
  \/ rd_give(t) \/ rd_account(t)

-----------------------------------------------------------------------------
(* uart_flush.  Between fl_disable and fl_enable the handler touches only   *)
(* the FIFO, so an iteration of the loop is one step.                       *)

uart_flush(t) ==
  /\ Goto(t, "idle", "fl_take")
  /\ UNCHANGED <<hwVars, rxEna, ringVars, fullVars, buffered, mux, length, buf>>

fl_take(t) ==
  /\ Goto(t, "fl_take", "fl_disable")
  /\ mux = NoTask /\ mux' = t
  /\ UNCHANGED <<hwVars, rxEna, ringVars, fullVars, buffered, length, buf>>

fl_disable(t) ==
  /\ Goto(t, "fl_disable", "fl_head")
  /\ rxEna' = FALSE
  /\ UNCHANGED <<hwVars, ringVars, fullVars, buffered, mux, length, buf>>

\* Fault: the rest of the item a reader left is not subtracted.
Uncount_none(n) == n

Uncount(n) == n - Len(item)

\* The item a reader left half read.
fl_head(t) ==
  /\ Goto(t, "fl_head", "fl_loop")
  /\ buffered' = Uncount(buffered)
  /\ head' = 0 /\ item' = << >>
  /\ UNCHANGED <<hwVars, rxEna, ring, fullVars, mux, length, buf>>

\* The next item is thrown away, and then a stash goes into the ring.
fl_item(t) ==
  /\ pc[t] = "fl_loop"
  /\ \E k \in 1 .. Len(ring) :
       LET rest == Rest(ring, k)
       IN  IF fullFlg /\ Len(stash) <= Room(rest, head)
             THEN /\ ring' = WithStash(rest)
                  /\ buffered' = buffered - k + Len(stash)
                  /\ fullFlg' = FALSE /\ stash' = << >>
             ELSE /\ ring' = rest
                  /\ buffered' = buffered - k
                  /\ UNCHANGED fullVars
  /\ UNCHANGED <<hwVars, rxEna, head, item, mux, callVars>>

\* The ring is empty: uart_reset_fifo, of which the transmit FIFO is left out.
fl_reset(t) ==
  /\ Goto(t, "fl_loop", "fl_enable")
  /\ ring = << >>
  /\ fifo' = << >>
  /\ UNCHANGED <<ovf, next, rxEna, ringVars, fullVars, buffered, mux, length, buf>>

fl_enable(t) ==
  /\ Goto(t, "fl_enable", "fl_give")
  /\ rxEna' = EnableRx
  /\ UNCHANGED <<hwVars, ringVars, fullVars, buffered, mux, length, buf>>

fl_give(t) ==
  /\ Goto(t, "fl_give", "idle")
  /\ mux' = NoTask
  /\ UNCHANGED <<hwVars, rxEna, ringVars, fullVars, buffered, length, buf>>

FlushStep(t) ==
  \/ fl_take(t) \/ fl_disable(t) \/ fl_head(t) \/ fl_item(t) \/ fl_reset(t)
  \/ fl_enable(t) \/ fl_give(t)

Reads(t)   == \E n \in 1 .. MaxRead : uart_read_bytes(t, n)
Step(t)    == ReadStep(t) \/ FlushStep(t)

Next == \/ ByteArrives \/ Isr
        \/ \E t \in Readers : Reads(t)
        \/ \E t \in Flushers : uart_flush(t)
        \/ \E t \in Tasks : Step(t)

Spec == Init /\ [][Next]_vars

\* Interrupts are taken, a call goes on, and a reader reads again and again,
\* as blizzard_listen does.
Fairness == /\ WF_vars(Isr)
            /\ \A t \in Tasks : WF_vars(Step(t))
            /\ \A t \in Readers : SF_vars(Reads(t))

FairSpec == Spec /\ Fairness

-----------------------------------------------------------------------------
(* Properties.                                                             *)

Credited == mux # NoTask /\ pc[mux] \in {"rd_credit", "rd_clear"}

\* Bytes in the order they came in: the stash counts until it is in the ring.
Unread == item \o ring \o (IF fullFlg /\ ~Credited THEN stash ELSE << >>) \o fifo

Flushing == \E t \in Tasks : pc[t] \in FlushSteps

\* Through FIFO, stash, ring and half-read item, whatever the interleaving of
\* handler, readers and a flush, every byte that came reaches one reader, in order
\* and once; it is lost only in a flush or when the FIFO is overrun.
Queue == INSTANCE ByteQueue WITH queue <- Unread, lossy <- (Flushing \/ ovf)
ByteOrder == Queue!QueueSpec

\* The bytes calls in progress have copied, by task and place.
Copied == UNION {{t} \X DOMAIN buf[t] : t \in Tasks}

\* rx_buffered_len is what can be read, plus what the calls in progress have
\* copied and not yet subtracted, less a stash put into the ring and not yet
\* added: with no call in progress uart_get_buffered_data_len is exact.
Accounting ==
  buffered = Len(item) + Len(ring) + Cardinality(Copied)
             - (IF mux # NoTask /\ pc[mux] = "rd_credit" THEN Len(stash) ELSE 0)

\* While bytes are stashed, someone will look at the stash again: the ring still
\* has something to return, or the task that returned it is about to look.
StashIsSeen ==
  fullFlg => \/ head > 0 \/ ring # << >>
             \/ mux # NoTask /\ pc[mux] \in {"rd_flag", "rd_resend", "rd_credit", "rd_clear"}

\* With a reader at work the port never stays deaf: "if we fail to push data to
\* ring buffer, we will have to stash the data, and send next time".
Receiving == []<>(rxEna /\ ~fullFlg)

=============================================================================
