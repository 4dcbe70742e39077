------------------------------ MODULE MCUartRx ------------------------------
(***************************************************************************)
(* TLC instances of UartRx: two readers, or a reader with a flusher.       *)
(***************************************************************************)
EXTENDS UartRx

CONSTANTS r1, r2, f1

OneReader  == {r1}
TwoReaders == {r1, r2}
OneFlusher == {f1}
NoFlusher  == {}

=============================================================================
