------------------------------ MODULE MCUartTx ------------------------------
(***************************************************************************)
(* TLC instances of UartTx: two tasks without a ring, and one task with a  *)
(* ring.                                                                   *)
(***************************************************************************)
EXTENDS UartTx

CONSTANTS a, b

TwoWriters == {a, b}

Direct == [ring |-> 0, chunk |-> 1, tasks |-> {a, b}, breaks |-> BOOLEAN,
           size |-> 3, calls |-> 2]
Ring   == [ring |-> 3, chunk |-> 4, tasks |-> {a}, breaks |-> {FALSE},
           size |-> 5, calls |-> 2]
RingBreak == [ring |-> 3, chunk |-> 2, tasks |-> {a}, breaks |-> {TRUE},
              size |-> 5, calls |-> 1]

SoundUses == {Direct, Ring, RingBreak}
BreakUses == {RingBreak}

=============================================================================
