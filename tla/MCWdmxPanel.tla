---------------------------- MODULE MCWdmxPanel ----------------------------
(***************************************************************************)
(* TLC instance of WdmxPanel.  TLC also evaluates here, over their whole   *)
(* range, what FormatProofs proves of the DMX buffer and the sliders.      *)
(***************************************************************************)
EXTENDS WdmxPanel

ASSUME BufferAssumption == SlidersApart /\ CopyMissesRange /\ FramesCarryAll

=============================================================================
