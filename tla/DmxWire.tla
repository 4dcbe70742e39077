------------------------------ MODULE DmxWire ------------------------------
(***************************************************************************)
(* What a DMX512 transmitter promises the fixtures on its line: once it is *)
(* in step, the line carries a break, then the start code (slot 0), then   *)
(* slots 1 .. MaxSlots-1 in order, then the next break, without end.  The  *)
(* line loses step only while the application is changing the direction.   *)
(***************************************************************************)
EXTENDS Integers

CONSTANT MaxSlots       \* DMX_MAX_SLOTS: the start code and the channels

Break    == -1          \* a break and the mark after it
Unsynced == -3          \* nothing promised about the line

VARIABLES steady,       \* no direction change is under way and it is SEND
          busy,         \* a symbol is being sent
          sym           \* the symbol that last left the line driver

wireVars == <<steady, busy, sym>>

\* The slot or break that must follow the symbol s.
Successor(s) == IF s = MaxSlots - 1 THEN Break ELSE s + 1

WireTypeOK == /\ steady \in BOOLEAN /\ busy \in BOOLEAN
              /\ sym \in {Unsynced, Break} \cup 0 .. MaxSlots - 1

WireInit == steady = FALSE /\ busy = FALSE /\ sym = Unsynced

\* A symbol begins; only its end tells which it is.  Every symbol has an end of
\* its own, so one that is sent twice shows.
Begin == ~busy /\ busy' /\ UNCHANGED <<steady, sym>>
End   == busy /\ ~busy' /\ UNCHANGED steady

\* Out of step the line carries anything.
Noise == End /\ sym = Unsynced /\ UNCHANGED sym

\* The first break after a direction change puts the line in step.
Sync == End /\ steady /\ sym = Unsynced /\ sym' = Break

\* In step, every symbol is followed by its successor.
Carry == End /\ steady /\ sym # Unsynced /\ sym' = Successor(sym)

\* A direction change ends, or a new one begins and the promise lapses.
Settle  == ~steady /\ steady' /\ UNCHANGED <<busy, sym>>
Disturb == steady /\ ~steady' /\ sym' = Unsynced /\ UNCHANGED busy

WireNext == Begin \/ Noise \/ Sync \/ Carry \/ Settle \/ Disturb

WireSpec == WireInit /\ [][WireNext]_wireVars

=============================================================================
