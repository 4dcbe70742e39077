-------------------------- MODULE MCBlizzardConfig --------------------------
(***************************************************************************)
(* TLC instance of BlizzardConfig: one task changes settings.              *)
(***************************************************************************)
EXTENDS BlizzardConfig

OneClient    == {"blynk"}
ShortEntries == {"right", "wrong", "nowhere"}
AnyReason    == {"AUTH_EXPIRE", "AUTH_FAIL"}

=============================================================================
