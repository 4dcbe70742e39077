---------------------------- MODULE OtherPackets ----------------------------
(***************************************************************************)
(* The numbers in the packets of dmx_sACN.c and blizzard_rdm.c.  A byte of *)
(* an RDM discovery response is the set of its bits that are 1.            *)
(***************************************************************************)
EXTENDS ArtnetPackets

MAX_SACN_BUFFER == 638

\* flag_length of a layer that ends with the slots, by the number of its own bytes.
FlagLength(slots, own) == slots + own + 28672

\* createDataPacketsACN.
RootFlags(slots)  == FlagLength(slots, 110)
FrameFlags(slots) == FlagLength(slots, 88)
DmpFlags(slots)   == FlagLength(slots, 11)

\* _dmx_slots_h and _dmx_slots_l, the start code included.
SlotsTold(slots) == Hi(slots + 1) * 256 + (IF slots + 1 # 0 THEN 1 ELSE 0)

\* check_rdm_checksum, of the two bytes received.
check_rdm_checksum(sum, h, l) == sum = Joined(h, l)

Bits == 0 .. 7
xAA  == {1, 3, 5, 7}
x55  == {0, 2, 4, 6}

\* set_rdm_unique_packet sends each byte of the UUID twice.
Doubled(byte) == <<byte \cup xAA, byte \cup x55>>

\* The field of the checksum's high byte: what is written last is the low byte.
ChecksumField(hi, lo) == Doubled(lo)

-----------------------------------------------------------------------------
(* Properties.                                                             *)

\* Each layer of an sACN packet carries the flag 7 and a length in 12 bits, the
\* layers lie within each other as in the packet's struct, and the outermost ends
\* with the buffer when all 512 slots are sent.
LayersNest ==
  /\ \A slots \in 1 .. 512 :
       /\ RootFlags(slots) \div 4096 = 7 /\ DmpFlags(slots) \div 4096 = 7
       /\ RootFlags(slots) - FrameFlags(slots) = 22
       /\ FrameFlags(slots) - DmpFlags(slots) = 77
  /\ 16 + (RootFlags(512) % 4096) = MAX_SACN_BUFFER

\* The count of slots, as the length of its layer gives it, is told for 256 and 512
\* slots; for 255 and 511 one too many is told, and for any other number too few.
CountTold ==
  \A slots \in 1 .. 512 :
    LET count == (DmpFlags(slots) % 4096) - 10
    IN  CASE slots \in {256, 512} -> SlotsTold(slots) = count
          [] slots \in {255, 511} -> SlotsTold(slots) = count + 1
          [] OTHER                -> SlotsTold(slots) < count

\* An RDM packet is accepted only with the sum that it names in its high byte, and a
\* right checksum is refused when its low byte is neither 0 nor 1.
ChecksumRead(sum) ==
  /\ \A h \in Byte8, l \in Byte8 : check_rdm_checksum(sum, h, l) => Hi(sum) = h
  /\ check_rdm_checksum(sum, Hi(sum), Lo(sum)) <=> Lo(sum) <= 1

Common(pair) == pair[1] \cap pair[2]

\* The bits that both copies of a byte have are the byte: a controller reads the UUID
\* back, and for the checksum's high byte the low one.
DiscoveryDecodes ==
  /\ \A byte \in SUBSET Bits : Common(Doubled(byte)) = byte
  /\ \A hi \in SUBSET Bits, lo \in SUBSET Bits : Common(ChecksumField(hi, lo)) = lo

=============================================================================
