------------------------------- MODULE DmxData -------------------------------
(***************************************************************************)
(* The DMX buffer as dmx.c hands it out, and where its bytes lie in the    *)
(* packets of Art-Net and sACN.  An access is the set of slots it touches; *)
(* slot 0 is the start code.                                               *)
(***************************************************************************)
EXTENDS Integers

DMX_MAX_SLOTS == 513

Slots == 0 .. DMX_MAX_SLOTS - 1

\* setDMXData and getDMXData.
setDMXData(slot) == IF slot >= DMX_MAX_SLOTS THEN {} ELSE {slot}

\* copyToDMX writes, and copyFromDMX reads, what their loop ends with: the assignment
\* is indented like its body and stands behind it.
copyToDMX(start, length) ==
  IF start >= DMX_MAX_SLOTS
    THEN {}
    ELSE {IF start + length < DMX_MAX_SLOTS THEN start + length ELSE DMX_MAX_SLOTS}

\* The slot in byte i of the packets that sendDMXDataArtnet and sendDMXDatasACN send.
ArtnetSlot(i) == 1 + (i - 18)
SacnSlot(i)   == i - 125

-----------------------------------------------------------------------------
(* Properties.                                                             *)

\* Of the slots that a copy is asked for it touches none, whatever its range; it
\* stays within the buffer only where the range ends before the buffer does.
CopyMissesRange ==
  \A start \in 0 .. DMX_MAX_SLOTS, length \in 0 .. DMX_MAX_SLOTS :
    LET touched == copyToDMX(start, length)
    IN  /\ touched \cap (start .. start + length - 1) \cap Slots = {}
        /\ touched \subseteq Slots
             <=> start = DMX_MAX_SLOTS \/ start + length < DMX_MAX_SLOTS

\* Up to the size of its buffer (530 and 638 bytes) an Art-Net frame carries every
\* channel, an sACN packet the start code too, and no byte beyond the DMX buffer.
FramesCarryAll ==
  /\ {ArtnetSlot(i) : i \in 18 .. 529} = Slots \ {0}
  /\ {SacnSlot(i) : i \in 125 .. 637} = Slots

=============================================================================
