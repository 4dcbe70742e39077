------------------------------- MODULE Artnet -------------------------------
(***************************************************************************)
(* The Art-Net node of dmx_artnet.c: the task that starts it and changes   *)
(* its direction, the TCP/IP thread that answers packets under the mutex,  *)
(* and the send loops, tasks of their own.  All of them connect, send      *)
(* through and disconnect one UDP control block, ARTNET._udp, without a    *)
(* lock; a connected block takes packets from its remote end only.         *)
(*                                                                         *)
(* Every task may be preempted between any two steps.  The settings that a *)
(* packet changes (parseProgArtnet, setName) and getIP are the client calls *)
(* of BlizzardConfig; what the packets say is in ArtnetPackets.            *)
(***************************************************************************)
EXTENDS ArtnetPackets, FiniteSets

CONSTANTS
  Peers,               \* controllers on the network
  Packets,             \* what they send: see Packet
  OwnUniverse,         \* getOwnUniverse
  Loops,               \* send tasks; bound: as many exist at one time
  MaxStarts, MaxCalls  \* bounds, per boot: calls of startDMXArtnet, of all

\* The kinds recieveDMXArtnet tells apart; "other" has a wrong id or an opcode that
\* nothing is done for.
Kinds == {"dmx", "poll", "prog", "address", "other"}

Packet == [kind : Kinds, from : Peers, uh : Byte8, ul : Byte8, sh : Byte8, sl : Byte8,
           clear : BOOLEAN]

ASSUME ArtnetAssumption ==
  /\ Packets \subseteq Packet
  /\ IsFiniteSet(Loops)
  /\ OwnUniverse \in 0 .. 65535
  /\ MaxStarts \in Nat \ {0} /\ MaxCalls \in Nat
  /\ Peers \cap {"none", "anywhere"} = {}

VARIABLES
  enabled, direction,  \* ARTNET._enabled, _direction
  sendActive,          \* send_active
  mutex,               \* "none" before the first start, then "free" or "taken"
  udp,                 \* ARTNET._udp: the block of the last start, 0 for none
  remote,              \* per block: its remote end
  control,             \* step of the task that calls start and changeDirection
  loop,                \* per send task: its step
  handler, cur,        \* step of recieveDMXArtnet, and its packet
  bufs,                \* packet buffers allocated
  dmx,                 \* highest channel written since the buffer was cleared;
                       \* the buffer ends with 512, the code does not
  starts, calls,       \* calls so far
  crowded,             \* ghost: a loop was made, or the node started, beside a loop
  torn,                \* ghost: a start came between a connect and its disconnect
  mixed                \* ghost: a connect came between another and its disconnect

node     == <<enabled, direction, sendActive, mutex>>
netVars  == <<udp, remote>>
ctlVars  == <<control, starts, calls>>
recvVars == <<handler, cur>>
ghosts   == <<crowded, torn, mixed>>
vars     == <<node, netVars, ctlVars, loop, recvVars, bufs, dmx, ghosts>>

Blocks  == 1 .. MaxStarts
Remotes == Peers \cup {"none", "anywhere"}

\* ART_NET_PORT belongs to the first block: udp_bind refuses a second one.
Port == 1

LoopSteps    == {"none", "created", "check", "connect", "send", "disconnect", "exit"}
HandlerSteps == {"idle", "take", "dispatch", "connect", "send", "disconnect", "free"}
ControlSteps == {"idle", "udp", "create", "wait"}

NoPacket == [kind |-> "none"]

Flags == /\ enabled \in BOOLEAN /\ sendActive \in BOOLEAN
         /\ crowded \in BOOLEAN /\ torn \in BOOLEAN /\ mixed \in BOOLEAN

Steps == /\ direction \in {"SEND", "RECEIVE"}
         /\ mutex \in {"none", "free", "taken"}
         /\ control \in ControlSteps
         /\ loop \in [Loops -> LoopSteps]
         /\ handler \in HandlerSteps

Data == /\ udp \in 0 .. MaxStarts /\ remote \in [Blocks -> Remotes]
        /\ cur \in Packets \cup {NoPacket}
        /\ dmx \in 0 .. Joined(255, 255)
        /\ starts \in 0 .. MaxStarts /\ calls \in 0 .. MaxCalls

TypeOK == Flags /\ Steps /\ Data /\ bufs \in Nat

Init ==
  /\ enabled = FALSE /\ direction = "RECEIVE" /\ sendActive = FALSE /\ mutex = "none"
  /\ udp = 0 /\ remote = [b \in Blocks |-> "none"]
  /\ control = "idle"
  /\ loop = [l \in Loops |-> "none"]
  /\ handler = "idle" /\ cur = NoPacket /\ bufs = 0
  /\ dmx = 0 /\ starts = 0 /\ calls = 0
  /\ crowded = FALSE /\ torn = FALSE /\ mixed = FALSE

-----------------------------------------------------------------------------
(* The controlling task.                                                   *)

Control(from, to) == control = from /\ control' = to

Live     == {l \in Loops : loop[l] # "none"}
Sending  == {l \in Loops : loop[l] \in {"send", "disconnect"}}
Replying == handler \in {"send", "disconnect"}

Call ==
  control = "idle" /\ calls < MaxCalls /\ calls' = calls + 1

\* Bound: nobody asks for more loops than there are.
RoomFor(d) == d = "SEND" => Live # Loops

\* With createPacketArtnet and xSemaphoreCreateMutex.  A node that is enabled is
\* stopped first, which shows as little as a stopDMXArtnet just before does.
startDMXArtnet(d) ==
  /\ Call /\ control' = "udp" /\ RoomFor(d)
  /\ starts < MaxStarts /\ starts' = starts + 1
  /\ direction' = d /\ enabled' = TRUE /\ mutex' = "free"
  /\ crowded' = (crowded \/ Live # {})
  /\ UNCHANGED <<sendActive, netVars, loop, recvVars, bufs, dmx, torn, mixed>>

udp_artnet_init ==
  /\ control = "udp" /\ control' = IF direction = "SEND" THEN "create" ELSE "idle"
  /\ udp' = udp + 1
  /\ torn' = (torn \/ Sending # {} \/ Replying)
  /\ UNCHANGED <<node, remote, starts, calls, loop, recvVars, bufs, dmx,
                 crowded, mixed>>

\* Loops differ in nothing, so any that does not exist will do.
Unused == CHOOSE l \in Loops : l \notin Live

\* xTaskCreatePinnedToCore: the loop exists, and runs some time later.
create_loop ==
  /\ Control("create", "idle")
  /\ loop' = [loop EXCEPT ![Unused] = "created"]
  /\ crowded' = (crowded \/ Live # {})
  /\ UNCHANGED <<node, netVars, starts, calls, recvVars, bufs, dmx, torn,
                 mixed>>

stopDMXArtnet ==
  /\ Call /\ enabled /\ enabled' = FALSE
  /\ UNCHANGED <<direction, sendActive, mutex, netVars, control, starts, loop,
                 recvVars, bufs, dmx, ghosts>>

\* Fault: no new loop is made while one exists.
AfterChange_lazy(d) ==
  IF d = "SEND" THEN IF Live = {} THEN "create" ELSE "idle" ELSE "wait"

AfterChange(d) == IF d = "SEND" THEN "create" ELSE "wait"

\* Before the first start as well: nothing in the code asks whether there was one.
changeDirectionArtnet(d) ==
  /\ Call /\ d # direction /\ RoomFor(d)
  /\ direction' = d /\ control' = AfterChange(d)
  /\ UNCHANGED <<enabled, sendActive, mutex, netVars, starts, loop, recvVars,
                 bufs, dmx, ghosts>>

\* Fault: a change to RECEIVE does not wait for the loop.
LoopsGone_always == TRUE

LoopsGone == ~sendActive

change_waited ==
  /\ Control("wait", "idle")
  /\ LoopsGone
  /\ UNCHANGED <<node, netVars, starts, calls, loop, recvVars, bufs, dmx, ghosts>>

ControlStep == udp_artnet_init \/ create_loop \/ change_waited

ControlCall == \/ stopDMXArtnet
               \/ \E d \in {"SEND", "RECEIVE"} :
                    startDMXArtnet(d) \/ changeDirectionArtnet(d)

-----------------------------------------------------------------------------
(* The send loops.                                                         *)

At(l, from, to) == loop[l] = from /\ loop' = [loop EXCEPT ![l] = to]

\* Fault: the end of a loop is not reported.
Active_after_exit == TRUE

\* send_active when a loop has ended.
Active_after == FALSE

sendArtnetLoop(l) ==
  /\ \/ At(l, "created", "check") /\ sendActive' = TRUE
     \/ At(l, "exit", "none") /\ sendActive' = Active_after
  /\ UNCHANGED <<enabled, direction, mutex, netVars, ctlVars, recvVars, bufs, dmx,
                 ghosts>>

loop_check(l) ==
  /\ \/ At(l, "check", "connect") /\ direction = "SEND"
     \/ At(l, "check", "exit") /\ direction # "SEND"
  /\ UNCHANGED <<node, netVars, ctlVars, recvVars, bufs, dmx, ghosts>>

\* _dest_ip points into the stack frame of udp_artnet_init, which is gone: the
\* address is the broadcast address or whatever took its place.  A disabled node
\* sends nothing.  Without a block, lwIP may refuse the connect.
send_connect(l) ==
  /\ \/ /\ At(l, "connect", "check") /\ ~enabled
        /\ UNCHANGED <<remote, bufs, mixed>>
     \/ /\ At(l, "connect", "send") /\ enabled
        /\ mixed' = (mixed \/ Replying \/ Sending # {})
        /\ bufs' = bufs + 1
        /\ \/ udp = 0 /\ UNCHANGED remote
           \/ udp > 0 /\ remote' = [remote EXCEPT ![udp] = "anywhere"]
  /\ UNCHANGED <<node, udp, ctlVars, recvVars, dmx, crowded, torn>>

\* Without a remote end udp_send fails, which is logged.
udp_send(l) ==
  /\ At(l, "send", "disconnect")
  /\ UNCHANGED <<node, netVars, ctlVars, recvVars, bufs, dmx, ghosts>>

send_disconnect(l) ==
  /\ At(l, "disconnect", "check") /\ udp > 0
  /\ remote' = [remote EXCEPT ![udp] = "none"]
  /\ bufs' = bufs - 1
  /\ UNCHANGED <<node, udp, ctlVars, recvVars, dmx, ghosts>>

\* Everything is as in Init.
Restart ==
  /\ enabled' = FALSE /\ direction' = "RECEIVE" /\ sendActive' = FALSE /\ mutex' = "none"
  /\ udp' = 0 /\ remote' = [b \in Blocks |-> "none"]
  /\ control' = "idle" /\ starts' = 0 /\ calls' = 0
  /\ loop' = [l \in Loops |-> "none"]
  /\ handler' = "idle" /\ cur' = NoPacket /\ bufs' = 0 /\ dmx' = 0
  /\ crowded' = FALSE /\ torn' = FALSE /\ mixed' = FALSE

\* ARTNET._udp is NULL: the direction was changed before a start, which has enabled the
\* node and has not made the block yet.  At the latest udp_disconnect makes the device
\* restart.
null_block(l) ==
  /\ udp = 0
  /\ loop[l] \in {"connect", "send", "disconnect"}
  /\ loop[l] = "connect" => enabled
  /\ Restart

LoopRuns(l) == \/ sendArtnetLoop(l) \/ loop_check(l) \/ send_connect(l)
               \/ udp_send(l) \/ send_disconnect(l)

LoopStep(l) == LoopRuns(l) \/ null_block(l)

-----------------------------------------------------------------------------
(* The TCP/IP thread: recieveDMXArtnet and what it calls.                  *)

Handler(from, to) == handler = from /\ handler' = to

\* What lwIP does with a packet for ART_NET_PORT: a block that is connected does
\* not get what others send.
Delivered(p) == remote[Port] \in {"none", p.from}

udp_input(p) ==
  /\ Handler("idle", IF Delivered(p) THEN "take" ELSE "idle")
  /\ udp > 0
  /\ IF Delivered(p) THEN cur' = p /\ bufs' = bufs + 1 ELSE UNCHANGED <<cur, bufs>>
  /\ UNCHANGED <<node, netVars, ctlVars, loop, dmx, ghosts>>

\* A packet for which the mutex does not come in time is not freed.
recieveDMXArtnet ==
  /\ Handler("take", IF mutex = "free" THEN "dispatch" ELSE "idle")
  /\ IF mutex = "free" THEN mutex' = "taken" /\ UNCHANGED cur
                        ELSE UNCHANGED mutex /\ cur' = NoPacket
  /\ UNCHANGED <<enabled, direction, sendActive, netVars, ctlVars, loop, bufs,
                 dmx, ghosts>>

Highest(a, b) == IF a > b THEN a ELSE b

\* slots of parseDMXDataPacketArtnet, which is held against neither the 512 channels of
\* the buffer nor p->len: what is written beyond channel 512 lands in other data.
Channels(p) == Joined(p.sh, p.sl)

\* parseDMXDataPacketArtnet, in RECEIVE and for this universe.
StoreData ==
  dmx' = IF direction = "RECEIVE" /\ Joined(cur.uh, cur.ul) = OwnUniverse
           THEN Highest(dmx, Channels(cur)) ELSE dmx

\* parseArtAddressArtnet: command 0x90 clears the buffer.
SetAddress == dmx' = IF cur.clear THEN 0 ELSE dmx

Asks == {"poll", "address", "prog"}

dispatch ==
  /\ Handler("dispatch", IF cur.kind \in Asks THEN "connect" ELSE "free")
  /\ \/ cur.kind = "dmx" /\ StoreData
     \/ cur.kind = "address" /\ SetAddress
     \/ cur.kind \notin {"dmx", "address"} /\ UNCHANGED dmx
  /\ UNCHANGED <<node, netVars, ctlVars, loop, cur, bufs, ghosts>>

\* Fault: a reply goes where the frames go.
ReplyTo_dest == "anywhere"

ReplyTo == cur.from

\* Nothing is sent.
NoReply ==
  /\ Handler("connect", "free")
  /\ UNCHANGED <<remote, bufs, mixed>>

ConnectReply ==
  /\ Handler("connect", "send") /\ enabled
  /\ remote' = [remote EXCEPT ![udp] = ReplyTo]
  /\ mixed' = (mixed \/ Sending # {})
  /\ bufs' = bufs + 1

sendPollReplyArtnet ==
  /\ cur.kind # "prog"
  /\ (~enabled /\ NoReply) \/ ConnectReply
  /\ UNCHANGED <<node, udp, ctlVars, loop, cur, dmx, crowded, torn>>

\* There may be no memory for the reply.
sendProgReplyArtnet ==
  /\ cur.kind = "prog"
  /\ NoReply \/ ConnectReply
  /\ UNCHANGED <<node, udp, ctlVars, loop, cur, dmx, crowded, torn>>

\* udp_send of a reply: it goes to the remote end of the block, if there is one.
reply_send ==
  /\ Handler("send", "disconnect")
  /\ UNCHANGED <<node, netVars, ctlVars, loop, cur, bufs, dmx, ghosts>>

\* Fault: the reply's function frees the packet it answers, too.
Freed_twice == bufs - 2

\* Buffers when a reply has been sent.
Freed == bufs - 1

\* Fault: a reply leaves the block connected.
Remote_after_kept == cur.from

\* The remote end when a reply has been sent.
Remote_after == "none"

reply_disconnect ==
  /\ Handler("disconnect", "free")
  /\ remote' = [remote EXCEPT ![udp] = Remote_after]
  /\ bufs' = Freed
  /\ UNCHANGED <<node, udp, ctlVars, loop, cur, dmx, ghosts>>

\* Fault: a packet that is refused leaves by a return of its own.
Mutex_after_return == IF cur.kind = "other" THEN mutex ELSE "free"

\* The mutex when a packet has been handled, on every path.
Mutex_after == "free"

handler_free ==
  /\ Handler("free", "idle")
  /\ cur' = NoPacket /\ bufs' = bufs - 1
  /\ mutex' = Mutex_after
  /\ UNCHANGED <<enabled, direction, sendActive, netVars, ctlVars, loop, dmx, ghosts>>

reply_connect == sendPollReplyArtnet \/ sendProgReplyArtnet

HandlerStep == \/ recieveDMXArtnet \/ dispatch \/ reply_connect \/ reply_send
               \/ reply_disconnect \/ handler_free

Next == \/ ControlStep \/ ControlCall \/ HandlerStep
        \/ \E l \in Loops : LoopStep(l)
        \/ \E p \in Packets : udp_input(p)

Spec == Init /\ [][Next]_vars

\* Tasks run; when the network sends something and who calls is open.
Fairness == /\ WF_vars(ControlStep) /\ WF_vars(HandlerStep)
            /\ \A l \in Loops : WF_vars(LoopStep(l))

FairSpec == Spec /\ Fairness

-----------------------------------------------------------------------------
(* Properties.                                                             *)

\* Between frames and replies the block that packets come to is open to everyone:
\* no peer's connect outlives its reply, however loops and replies overlap.
Listening == ~torn /\ Sending = {} /\ ~Replying => remote[Port] = "none"

One(b) == IF b THEN 1 ELSE 0

\* Every buffer allocated belongs to a packet in hand, a reply or a frame on its way:
\* as every path gives the mutex back, no packet is left behind for want of it.
NoLeak == bufs = One(cur # NoPacket) + One(Replying) + Cardinality(Sending)

\* When changeDirectionArtnet(RECEIVE) has returned no loop is in a frame, unless
\* a loop was made, or the node started, while a loop existed.
QuietInReceive ==
  control = "idle" /\ direction = "RECEIVE" /\ ~crowded
    => \A l \in Loops : loop[l] \in {"none", "created", "check", "exit"}

\* A reply goes to the peer that asked, unless it overlapped a frame or a start.
ReplyToAsker ==
  [][handler = "send" /\ handler' = "disconnect" /\ ~mixed /\ ~torn
       => remote[udp] = cur.from]_vars

\* changeDirectionArtnet(RECEIVE) returns.
ChangeReturns == control = "wait" ~> control = "idle"

\* A node that stays enabled in SEND sends frames for ever.
Transmits ==
  <>[](enabled /\ direction = "SEND" /\ control = "idle")
    => []<>(\E l \in Loops : loop[l] = "disconnect")

=============================================================================
