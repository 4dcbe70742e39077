---------------------------- MODULE ArtnetPackets ----------------------------
(***************************************************************************)
(* The numbers in an Art-Net packet as dmx_artnet.c writes and reads them. *)
(* An address is the four bytes of IP_ADDRESS, ip[0] to ip[3].             *)
(***************************************************************************)
EXTENDS Integers

Word16 == 0 .. 65535
Byte8  == 0 .. 255

Hi(n) == n \div 256
Lo(n) == n % 256

\* "&& 0xFF" is a truth value: of the low byte only whether it is zero is left.
Joined(h, l) == h * 256 + (IF l # 0 THEN 1 ELSE 0)

\* What createPacketArtnetPollReply says of the universe and the address.
PollReply(universe, ip) ==
  [net |-> Hi(universe), sub |-> Lo(universe) \div 16, sw |-> universe % 16,
   own_ip |-> [i \in 0 .. 3 |-> ip[i]]]

\* _prog_ip of a reply to ArtIpProg.
ProgReplyIP(ip) == [i \in 0 .. 3 |-> ip[3 - i]]

\* What parseProgArtnet hands to setIP.
ProgrammedIP(field) == [i \in 0 .. 3 |-> field[3 - i]]

\* _sequence of the next frame.
NextSequence(n) == IF n = 0 THEN 1 ELSE (n + 1) % 256

-----------------------------------------------------------------------------
(* Properties.                                                             *)

\* A frame is never taken for another net, and one whose universe has 0 or 1 as its
\* low byte is taken for that universe.
UniverseKept ==
  \A u \in Word16 : /\ Hi(Joined(Hi(u), Lo(u))) = Hi(u)
                    /\ Lo(u) <= 1 => Joined(Hi(u), Lo(u)) = u

\* slots of parseDMXDataPacketArtnet for a packet that counts this many.
SlotsRead(count) == Joined(Hi(count), Lo(count))

\* The count is held against neither the buffer nor the len bytes of data that came: the
\* channels of a packet land in the DMX buffer only if it counts at most 512.  A packet
\* that carries what it counts is not read beyond its end; one that is shorter by more
\* than what "&&" drops is.
CountTrusted(count, len) ==
  /\ SlotsRead(count) <= 512 <=> count <= 512
  /\ count <= len => SlotsRead(count) <= len
  /\ count > len + 254 => SlotsRead(count) > len

NoAddress == [i \in 0 .. 3 |-> 0]

\* A controller that puts the parts of a poll reply together gets the universe.
AddressTold ==
  \A u \in Word16 : LET a == PollReply(u, NoAddress)
                    IN  u = a.net * 256 + a.sub * 16 + a.sw /\ a.sub \in 0 .. 15

\* The reply to ArtIpProg repeats the address that the packet asked for, and the
\* poll replies that follow give it the wrong way round.
ProgrammedIsReported(field) ==
  /\ ProgReplyIP(ProgrammedIP(field)) = field
  /\ \A i \in 0 .. 3 : PollReply(0, ProgrammedIP(field)).own_ip[i] = field[3 - i]

\* Two frames that follow each other never have the same number, and the 0 that
\* "no seq 0!" rules out comes after every 255.
SequenceMoves ==
  \A n \in Byte8 : /\ NextSequence(n) # n /\ NextSequence(n) \in Byte8
                    /\ NextSequence(n) = 0 <=> n = 255

=============================================================================
