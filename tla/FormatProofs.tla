---------------------------- MODULE FormatProofs ----------------------------
(***************************************************************************)
(* What the formats of the device promise, for every value: the numbers in *)
(* the packets of Art-Net, sACN and RDM, the lengths of names and          *)
(* credentials, the colours and sliders of the panel.                      *)
(***************************************************************************)
EXTENDS OtherPackets, SettingLengths, PanelData, TLAPS

\* A word is put together from its bytes again.
LEMMA Bytes ==
  ASSUME NEW u \in Word16
  PROVE  /\ Hi(u) \in Byte8 /\ Lo(u) \in Byte8
         /\ u = Hi(u) * 256 + Lo(u)
  BY DEF Hi, Lo, Word16, Byte8

\* The low byte that is read counts no more than the one that was sent, and
\* exactly as much where that was 0 or 1.
LEMMA LowByte ==
  ASSUME NEW h \in Byte8, NEW l \in Byte8
  PROVE  /\ Joined(h, l) \in Nat
         /\ Joined(h, l) <= h * 256 + l
         /\ l <= 1 <=> Joined(h, l) = h * 256 + l
         /\ Hi(Joined(h, l)) = h
  <1>1. CASE l = 0
    BY <1>1 DEF Joined, Hi, Byte8
  <1>2. CASE l # 0
    <2>1. Joined(h, l) = h * 256 + 1
      BY <1>2 DEF Joined
    <2>2. (h * 256 + 1) \div 256 = h
      BY DEF Byte8
    <2> QED
      BY <1>2, <2>1, <2>2 DEF Hi, Byte8
  <1> QED
    BY <1>1, <1>2

\* Whatever universe a data packet of dmx_artnet.c is for, it is not taken for a
\* universe of another net, and where the low byte is 0 or 1 it is read rightly.
THEOREM UniverseIsKept == UniverseKept
  <1> SUFFICES ASSUME NEW u \in Word16
               PROVE  /\ Hi(Joined(Hi(u), Lo(u))) = Hi(u)
                      /\ Lo(u) <= 1 => Joined(Hi(u), Lo(u)) = u
    BY DEF UniverseKept
  <1>1. /\ Hi(u) \in Byte8 /\ Lo(u) \in Byte8
        /\ u = Hi(u) * 256 + Lo(u)
    BY Bytes
  <1> QED
    BY <1>1, LowByte

\* What parseDMXDataPacketArtnet stores for every count a packet can tell and every
\* number of bytes it can carry: it stays within the DMX buffer exactly if the count is
\* at most 512, and reads behind every packet that carries 255 bytes less than it counts.
THEOREM CountIsTrusted ==
  ASSUME NEW count \in Word16, NEW len \in Nat
  PROVE  CountTrusted(count, len)
  <1>1. /\ Hi(count) \in 0 .. 255 /\ Lo(count) \in 0 .. 255
        /\ count = Hi(count) * 256 + Lo(count)
    BY Bytes DEF Byte8
  <1>2. ASSUME NEW h \in 0 .. 255, NEW l \in 0 .. 255, NEW c, c = h * 256 + l
        PROVE  /\ Joined(h, l) <= 512 <=> c <= 512
               /\ c <= len => Joined(h, l) <= len
               /\ c > len + 254 => Joined(h, l) > len
    BY <1>2 DEF Joined
  <1> QED
    BY <1>1, <1>2, Zenon DEF CountTrusted, SlotsRead

\* The three fields of a poll reply give any universe back.
THEOREM AddressIsTold == AddressTold
  <1> SUFFICES ASSUME NEW u \in Word16
               PROVE  LET a == PollReply(u, NoAddress)
                      IN  u = a.net * 256 + a.sub * 16 + a.sw /\ a.sub \in 0 .. 15
    BY DEF AddressTold
  <1> DEFINE a == PollReply(u, NoAddress)
  <1>1. a.net = Hi(u) /\ a.sub = Lo(u) \div 16 /\ a.sw = u % 16
    BY DEF PollReply
  <1>2. Hi(u) \in 0 .. 255 /\ Lo(u) \in 0 .. 255 /\ u = Hi(u) * 256 + Lo(u)
    BY Bytes DEF Byte8
  <1>3. u % 16 = Lo(u) % 16
    <2>1. PICK h \in 0 .. 255, l \in 0 .. 255 : u = h * 256 + l /\ l = Lo(u)
      BY <1>2
    <2>2. (h * 256 + l) % 16 = l % 16
      OBVIOUS
    <2> QED
      BY <2>1, <2>2
  <1>5. ASSUME NEW l \in 0 .. 255
        PROVE  l = (l \div 16) * 16 + (l % 16) /\ l \div 16 \in 0 .. 15
    OBVIOUS
  <1>6. Lo(u) = (Lo(u) \div 16) * 16 + (Lo(u) % 16) /\ Lo(u) \div 16 \in 0 .. 15
    BY <1>2, <1>5
  <1>7. Lo(u) \div 16 \in Int /\ Lo(u) % 16 \in Int /\ u % 16 \in Int
    BY <1>2 DEF Word16
  <1>8. u = Hi(u) * 256 + (Lo(u) \div 16) * 16 + (u % 16)
    <2>1. \A b, h, l, q, r \in Int :
            b = h * 256 + l /\ l = q * 16 + r => b = h * 256 + q * 16 + r
      OBVIOUS
    <2>2. u \in Int /\ Hi(u) \in Int /\ Lo(u) \in Int
      BY DEF Word16, Hi, Lo
    <2>3. Lo(u) = (Lo(u) \div 16) * 16 + (u % 16)
      BY <1>3, <1>6, Zenon
    <2> QED
      BY <1>2, <1>7, <2>1, <2>2, <2>3
  <1> QED
    BY <1>1, <1>6, <1>8, Zenon

\* What a controller programs with ArtIpProg comes back in the reply to it, and
\* reversed in every poll reply.
THEOREM ProgrammedIsToldBack ==
  ASSUME NEW field \in [0 .. 3 -> Byte8]
  PROVE  ProgrammedIsReported(field)
  <1>1. ProgReplyIP(ProgrammedIP(field)) = field
    BY DEF ProgReplyIP, ProgrammedIP
  <1>2. \A i \in 0 .. 3 : PollReply(0, ProgrammedIP(field)).own_ip[i] = field[3 - i]
    BY DEF PollReply, ProgrammedIP
  <1> QED
    BY <1>1, <1>2 DEF ProgrammedIsReported

\* The lengths that createDataPacketsACN writes nest for every number of slots.
THEOREM LayersDoNest == LayersNest
  BY DEF LayersNest, RootFlags, FrameFlags, DmpFlags, FlagLength, MAX_SACN_BUFFER

\* For which numbers of slots an sACN packet counts its slots rightly.
THEOREM CountIsTold == CountTold
  <1> SUFFICES ASSUME NEW slots \in 1 .. 512
               PROVE  LET count == (DmpFlags(slots) % 4096) - 10
                      IN  CASE slots \in {256, 512} -> SlotsTold(slots) = count
                            [] slots \in {255, 511} -> SlotsTold(slots) = count + 1
                            [] OTHER                -> SlotsTold(slots) < count
    BY DEF CountTold
  <1>1. (DmpFlags(slots) % 4096) - 10 = slots + 1
    BY DEF DmpFlags, FlagLength
  <1>2. SlotsTold(slots) = Hi(slots + 1) * 256 + 1
    BY DEF SlotsTold
  <1>3. Hi(slots + 1) = IF slots < 255 THEN 0 ELSE IF slots < 511 THEN 1 ELSE 2
    BY DEF Hi
  <1> QED
    BY <1>1, <1>2, <1>3

\* How the sequence number of Art-Net and sACN frames goes on.
THEOREM SequenceDoesMove == SequenceMoves
  BY DEF SequenceMoves, NextSequence, Byte8

\* What check_rdm_checksum accepts and refuses, for every sum.
THEOREM ChecksumIsRead ==
  ASSUME NEW sum \in Word16
  PROVE  ChecksumRead(sum)
  <1>1. ASSUME NEW h \in Byte8, NEW l \in Byte8, check_rdm_checksum(sum, h, l)
        PROVE  Hi(sum) = h
    BY <1>1, LowByte DEF check_rdm_checksum
  <1>2. check_rdm_checksum(sum, Hi(sum), Lo(sum)) <=> Lo(sum) <= 1
    BY Bytes, LowByte DEF check_rdm_checksum
  <1> QED
    BY <1>1, <1>2 DEF ChecksumRead

\* A controller reads the UUID of a discovery response back.
THEOREM DiscoveryIsDecoded == DiscoveryDecodes
  BY DEF DiscoveryDecodes, Common, ChecksumField, Doubled, Bits, xAA, x55

\* Which names outlive a restart.
THEOREM NamesDoSurvive == NamesSurvive
  BY DEF NamesSurvive, NameAfterBoot, NameSet, setName, Least, NAME_MAX_LENGTH

\* Which names a poll reply terminates.
THEOREM NamesAreTerminated == NamesTerminated
  <1> SUFFICES ASSUME NEW n \in 0 .. 63
               PROVE  LongZeros(n) # {} /\ (ShortZeros(n) = {} <=> n >= 17)
    BY DEF NamesTerminated
  <1>1. 63 \in LongZeros(n)
    BY DEF LongZeros
  <1>2. n >= 17 => ShortZeros(n) = {}
    BY DEF ShortZeros
  <1>3. n < 17 => n \in ShortZeros(n)
    BY DEF ShortZeros
  <1> QED
    BY <1>1, <1>2, <1>3

\* Credentials are stored again as they were, and how far behind its array the
\* terminator of one can lie.
THEOREM EntriesDoSurvive == EntriesSurvive
  BY DEF EntriesSurvive, EntryAfterBoot, EntrySet, setSSID, Least, SSID_MAX_LENGTH

\* The copies of dmx.c miss every range they are asked for.
THEOREM CopyDoesMiss == CopyMissesRange
  <1> SUFFICES ASSUME NEW start \in 0 .. DMX_MAX_SLOTS, NEW length \in 0 .. DMX_MAX_SLOTS
               PROVE  LET touched == copyToDMX(start, length)
                      IN  /\ touched \cap (start .. start + length - 1) \cap Slots = {}
                          /\ touched \subseteq Slots
                               <=> start = DMX_MAX_SLOTS \/ start + length < DMX_MAX_SLOTS
    BY DEF CopyMissesRange
  <1>1. CASE start = DMX_MAX_SLOTS
    BY <1>1 DEF copyToDMX, DMX_MAX_SLOTS
  <1>2. CASE start # DMX_MAX_SLOTS /\ start + length < DMX_MAX_SLOTS
    <2>1. copyToDMX(start, length) = {start + length}
      BY <1>2 DEF copyToDMX, DMX_MAX_SLOTS
    <2> QED
      BY <1>2, <2>1 DEF Slots, DMX_MAX_SLOTS
  <1>3. CASE start # DMX_MAX_SLOTS /\ ~(start + length < DMX_MAX_SLOTS)
    <2>1. copyToDMX(start, length) = {DMX_MAX_SLOTS}
      BY <1>3 DEF copyToDMX, DMX_MAX_SLOTS
    <2> QED
      BY <1>3, <2>1 DEF Slots, DMX_MAX_SLOTS
  <1> QED
    BY <1>1, <1>2, <1>3

\* Frames of both protocols carry the whole DMX buffer and no more.
THEOREM FramesDoCarryAll == FramesCarryAll
  <1>1. {ArtnetSlot(i) : i \in 18 .. 529} = Slots \ {0}
    <2>1. ASSUME NEW s \in Slots \ {0}
          PROVE  s + 17 \in 18 .. 529 /\ ArtnetSlot(s + 17) = s
      BY DEF ArtnetSlot, Slots, DMX_MAX_SLOTS
    <2>2. ASSUME NEW i \in 18 .. 529
          PROVE  ArtnetSlot(i) \in Slots \ {0}
      BY DEF ArtnetSlot, Slots, DMX_MAX_SLOTS
    <2>3. Slots \ {0} \subseteq {ArtnetSlot(i) : i \in 18 .. 529}
      BY <2>1, Zenon
    <2>4. {ArtnetSlot(i) : i \in 18 .. 529} \subseteq Slots \ {0}
      BY <2>2, Zenon
    <2> QED
      BY <2>3, <2>4, Zenon
  <1>2. {SacnSlot(i) : i \in 125 .. 637} = Slots
    <2>1. ASSUME NEW s \in Slots
          PROVE  s + 125 \in 125 .. 637 /\ SacnSlot(s + 125) = s
      BY DEF SacnSlot, Slots, DMX_MAX_SLOTS
    <2>2. ASSUME NEW i \in 125 .. 637
          PROVE  SacnSlot(i) \in Slots
      BY DEF SacnSlot, Slots, DMX_MAX_SLOTS
    <2>3. Slots \subseteq {SacnSlot(i) : i \in 125 .. 637}
      BY <2>1, Zenon
    <2>4. {SacnSlot(i) : i \in 125 .. 637} \subseteq Slots
      BY <2>2, Zenon
    <2> QED
      BY <2>3, <2>4, Zenon
  <1> QED
    BY <1>1, <1>2 DEF FramesCarryAll

\* The sliders of all pages write different channels, none of them the start code.
THEOREM SlidersAreApart == SlidersApart
  <1>1. ASSUME NEW v \in 0 .. 7, NEW octet \in 0 .. 255
        PROVE  SliderWrites(v, octet) =
                 IF octet < 64 THEN {v + 1 + 8 * octet} ELSE {}
    <2>1. (v + 1 + 8 * octet) % 65536 = v + 1 + 8 * octet
      OBVIOUS
    <2> QED
      BY <2>1 DEF SliderWrites, setDMXData, DMX_MAX_SLOTS
  <1>2. ASSUME NEW v \in 0 .. 7, NEW octet \in 0 .. 255, NEW w \in 0 .. 7,
               NEW page \in 0 .. 255, v # w \/ octet # page
        PROVE  v + 1 + 8 * octet # w + 1 + 8 * page
    BY <1>2
  <1>3. ASSUME NEW v \in 0 .. 7, NEW octet \in 0 .. 255
        PROVE  /\ SliderWrites(v, octet) \subseteq 1 .. DMX_MAX_SLOTS - 1
               /\ octet < 64 => SliderWrites(v, octet) # {}
    <2>1. CASE octet < 64
      <3>1. SliderWrites(v, octet) = {v + 1 + 8 * octet}
        BY <1>1, <2>1
      <3>2. v + 1 + 8 * octet \in 1 .. 512
        BY <2>1
      <3> QED
        BY <3>1, <3>2 DEF DMX_MAX_SLOTS
    <2>2. CASE ~(octet < 64)
      BY <1>1, <2>2
    <2> QED
      BY <2>1, <2>2
  <1>4. ASSUME NEW v \in 0 .. 7, NEW octet \in 0 .. 255, NEW w \in 0 .. 7,
               NEW page \in 0 .. 255, v # w \/ octet # page
        PROVE  SliderWrites(v, octet) \cap SliderWrites(w, page) = {}
    <2>1. /\ SliderWrites(v, octet) \subseteq {v + 1 + 8 * octet}
          /\ SliderWrites(w, page) \subseteq {w + 1 + 8 * page}
      BY <1>1
    <2>2. v + 1 + 8 * octet # w + 1 + 8 * page
      BY <1>2, <1>4
    <2> QED
      BY <2>1, <2>2
  <1> QED
    BY <1>3, <1>4 DEF SlidersApart

\* The two ways of reading the LED agree, and the panel shows what is read but for
\* cyan and magenta.
THEOREM ColorsDoAgree == ColorsAgree
  <1> SUFFICES ASSUME NEW led \in SUBSET Pins
               PROVE  /\ \A c \in Colors :
                           check_wdmx_color(c, led) <=> c = get_wdmx_color(led)
                      /\ LET c == get_wdmx_color(led)
                         IN  update_blynk_wdmx_led(c) =
                               CASE c = "cyan"    -> Lit("magenta")
                                 [] c = "magenta" -> Lit("cyan")
                                 [] OTHER         -> led
    BY DEF ColorsAgree
  <1>1. /\ led = {}                       => get_wdmx_color(led) = "off"
        /\ led = {"red"}                  => get_wdmx_color(led) = "red"
        /\ led = {"blue"}                 => get_wdmx_color(led) = "blue"
        /\ led = {"red", "blue"}          => get_wdmx_color(led) = "magenta"
        /\ led = {"green"}                => get_wdmx_color(led) = "green"
        /\ led = {"red", "green"}         => get_wdmx_color(led) = "yellow"
        /\ led = {"green", "blue"}        => get_wdmx_color(led) = "cyan"
        /\ led = {"red", "green", "blue"} => get_wdmx_color(led) = "white"
    BY DEF get_wdmx_color, Count
  <1>2. led \in {{}, {"red"}, {"blue"}, {"red", "blue"}, {"green"}, {"red", "green"},
                 {"green", "blue"}, {"red", "green", "blue"}}
    BY DEF Pins
  <1>3. \A c \in Colors : check_wdmx_color(c, led) <=> c = get_wdmx_color(led)
    BY <1>1, <1>2 DEF Colors, check_wdmx_color, Lit, Pins
  <1>4. LET c == get_wdmx_color(led)
        IN  update_blynk_wdmx_led(c) =
              CASE c = "cyan"    -> Lit("magenta")
                [] c = "magenta" -> Lit("cyan")
                [] OTHER         -> led
    BY <1>1, <1>2 DEF update_blynk_wdmx_led, Lit, Pins
  <1> QED
    BY <1>3, <1>4

=============================================================================
