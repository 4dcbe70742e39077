--------------------------- MODULE SettingLengths ---------------------------
(***************************************************************************)
(* How long a name and a credential may be: setName of dmx.c, setSSID and  *)
(* setPass of blizzard_connection_manager.c, and the length that           *)
(* populate_all_dmx_nvs_values hands them at the next boot, which counts   *)
(* the terminator.  A string is its number of characters, -1 for one that  *)
(* was refused.                                                            *)
(***************************************************************************)
EXTENDS Integers

NAME_MAX_LENGTH == 64
SSID_MAX_LENGTH == 32

Least(a, b) == IF a < b THEN a ELSE b

\* setName: what is stored of a name of n characters.
setName(n, length) == IF length >= NAME_MAX_LENGTH THEN -1 ELSE Least(n, length)

\* parseArtAddressArtnet, then a restart.
NameSet(n)         == setName(n, 63)
NameAfterBoot(n)   == setName(NameSet(n), NameSet(n) + 1)

\* setSSID and setPass.  A length of 0 stands for the longest.
setSSID(n, length) ==
  IF length - 2 > SSID_MAX_LENGTH
    THEN -1
    ELSE Least(n, IF length = 0 THEN SSID_MAX_LENGTH - 1 ELSE length)

\* start_wifi_manager counts the terminator, as nvs_get_str does.
EntrySet(n)       == setSSID(n, n + 1)
EntryAfterBoot(n) == setSSID(EntrySet(n), EntrySet(n) + 1)

\* The zero bytes in the name fields of a poll reply, for a name of n characters.  The
\* last byte of the short one is set to '/0', which is not zero.
ShortZeros(n) == {i \in 0 .. 17 : i >= n /\ i # 17}
LongZeros(n)  == {i \in 0 .. 63 : i >= n \/ i = 63}

-----------------------------------------------------------------------------
(* Properties.                                                             *)

\* Of the names that ArtAddress can set, those of up to 62 characters are there
\* after a restart, and the longest is lost.
NamesSurvive == \A n \in 0 .. 63 : NameAfterBoot(n) = IF n <= 62 THEN n ELSE -1

\* What the portal stores is stored again at the next boot, and of what is stored
\* the terminator lies within the array of 32 bytes or one or two bytes behind it.
EntriesSurvive ==
  \A n \in 0 .. 63 :
    /\ EntrySet(n) # -1 => EntryAfterBoot(n) = n
    /\ n < SSID_MAX_LENGTH => EntrySet(n) = n
    /\ EntrySet(n) <= SSID_MAX_LENGTH + 1

\* Every long name is terminated, and a short name is not from 17 characters on:
\* "double check its null terminated".
NamesTerminated ==
  \A n \in 0 .. 63 : LongZeros(n) # {} /\ (ShortZeros(n) = {} <=> n >= 17)

=============================================================================
