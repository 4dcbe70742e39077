----------------------------- MODULE MCDmxUart -----------------------------
(***************************************************************************)
(* TLC instances of DmxUart: the start code and two or three channels are  *)
(* enough for every branch of the handler (first slot, inner slot, last    *)
(* slot, break) and for one slot of misalignment in either direction.      *)
(***************************************************************************)
EXTENDS DmxUart

Send        == {"SEND"}
ReceiveOnly == {"RECEIVE"}
Both        == {"SEND", "RECEIVE"}

=============================================================================
