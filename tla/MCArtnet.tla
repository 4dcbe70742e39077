------------------------------ MODULE MCArtnet ------------------------------
(***************************************************************************)
(* TLC instance of Artnet: two controllers, of which one only polls.  The  *)
(* data packets are for the node's universe and count more channels than   *)
(* the buffer has.                                                         *)
(*                                                                         *)
(* TLC also evaluates here what FormatProofs proves of the packets and the *)
(* settings.                                                               *)
(***************************************************************************)
EXTENDS Artnet, OtherPackets, SettingLengths

CONSTANTS p1, p2, l1, l2

Make(kind, from, u, slots, clear) ==
  [kind |-> kind, from |-> from, uh |-> Hi(u), ul |-> Lo(u), sh |-> Hi(slots),
   sl |-> Lo(slots), clear |-> clear]

TwoPeers == {p1, p2}
TwoLoops == {l1, l2}

Traffic ==
  {Make("poll", p2, 0, 0, FALSE), Make("address", p1, 0, 0, TRUE), Make("dmx", p1, 1, 768, FALSE)}
    \cup {Make(k, p1, 0, 0, FALSE) : k \in {"prog", "other"}}

\* Addresses with all the coincidences that four bytes can have.
Addresses == [0 .. 3 -> {1, 2, 3, 4}]

\* Around every boundary of a low and a high byte.
Sums == {0, 1, 2, 255, 256, 257, 511, 512, 65280, 65535}

ASSUME PacketsAssumption ==
  /\ UniverseKept /\ AddressTold /\ SequenceMoves
  /\ \A field \in Addresses : ProgrammedIsReported(field)
  /\ LayersNest /\ CountTold /\ DiscoveryDecodes
  /\ \A sum \in Sums : ChecksumRead(sum)
  /\ \A count \in Word16, len \in {0, 2, 511, 512} : CountTrusted(count, len)

ASSUME SettingsAssumption == NamesSurvive /\ NamesTerminated /\ EntriesSurvive

=============================================================================
