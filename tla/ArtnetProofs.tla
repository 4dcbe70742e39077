---------------------------- MODULE ArtnetProofs ----------------------------
(***************************************************************************)
(* Proofs about the Art-Net node, for any number of controllers, send      *)
(* loops, starts and calls.  The inductive invariant adds to the           *)
(* properties what ties the tasks together: when there is a mutex and who  *)
(* has it (Begun), that a new loop takes an unused place (Room), that a    *)
(* packet is in hand exactly while the handler runs (InHand), who may have *)
(* connected a block (Held), and, without two loops at once, which loop    *)
(* send_active speaks of (Alone).                                          *)
(***************************************************************************)
EXTENDS Artnet, FiniteSetTheorems, TLAPS

Begun ==
  /\ udp = IF control = "udp" THEN starts - 1 ELSE starts
  /\ udp > 0 \/ control = "udp" => mutex # "none"
  /\ handler # "idle" => udp > 0
  /\ handler \in {"idle", "take"} => mutex # "taken"

Room ==
  (control = "create" \/ (control = "udp" /\ direction = "SEND"))
    => \E l \in Loops : loop[l] = "none"

InHand == cur # NoPacket <=> handler # "idle"

Held ==
  ~torn => \A b \in Blocks :
             remote[b] # "none" => b = udp /\ (Sending # {} \/ Replying)

Quiet == {"none", "created", "check", "exit"}

Alone ==
  /\ control = "create" => direction = "SEND"
  /\ ~crowded =>
       /\ control = "udp" => Live = {}
       /\ \A l, k \in Live : l = k
       /\ \A l \in Live : loop[l] # "created" => sendActive

Answered ==
  handler = "send" /\ ~mixed /\ ~torn => remote[udp] = cur.from /\ Sending = {}

IInv == /\ TypeOK /\ Begun /\ Room /\ InHand /\ NoLeak /\ Held /\ Alone
        /\ QuietInReceive /\ Answered

-----------------------------------------------------------------------------
(* What single values do.                                                  *)

LEMMA LoopsAreFinite == IsFiniteSet(Loops)
  BY ArtnetAssumption DEF ArtnetAssumption

LEMMA BoundsAreNumbers == MaxStarts \in Nat /\ MaxStarts > 0 /\ MaxCalls \in Nat
  BY ArtnetAssumption DEF ArtnetAssumption

LEMMA PacketsAreRecords == \A p \in Packets : p \in Packet
  BY ArtnetAssumption DEF ArtnetAssumption

LEMMA PeersSendPackets == \A p \in Packets : p.from \in Peers
  BY PacketsAreRecords DEF Packet

LEMMA APacketIsThere == \A p \in Packets : p # NoPacket
  <1>1. \A p \in Packet : p.kind # "none"
    BY DEF Packet, Kinds
  <1> QED
    BY <1>1, PacketsAreRecords DEF NoPacket

\* What a packet can make the node store.
LEMMA ChannelsCounted == \A p \in Packets : Channels(p) \in 0 .. Joined(255, 255)
  <1> SUFFICES ASSUME NEW p \in Packets
               PROVE  Channels(p) \in 0 .. Joined(255, 255)
    OBVIOUS
  <1>1. p.sh \in 0 .. 255 /\ p.sl \in 0 .. 255
    BY PacketsAreRecords DEF Packet, Byte8
  <1>2. \A h \in 0 .. 255, l \in 0 .. 255 : Joined(h, l) \in 0 .. Joined(255, 255)
    BY DEF Joined
  <1> QED
    BY <1>1, <1>2 DEF Channels

LEMMA SendingIsFinite == IsFiniteSet(Sending) /\ Cardinality(Sending) \in Nat
  <1>1. Sending \subseteq Loops
    BY DEF Sending
  <1> QED
    BY <1>1, LoopsAreFinite, FS_Subset, FS_CardinalityType

\* The place that create_loop takes was unused.
LEMMA UnusedIsUnused ==
  ASSUME Room, control = "create"
  PROVE  Unused \in Loops /\ loop[Unused] = "none"
  BY DEF Room, Unused, Live

-----------------------------------------------------------------------------

LEMMA InitIInv == Init => IInv
  <1> SUFFICES ASSUME Init
               PROVE  IInv
    OBVIOUS
  <1> USE DEF Init
  <1>1. Sending = {} /\ Live = {} /\ ~Replying
    BY DEF Sending, Live, Replying
  <1>2. Flags /\ Steps
    BY DEF Flags, Steps, ControlSteps, LoopSteps, HandlerSteps
  <1>3. Data
    BY BoundsAreNumbers DEF Data, Blocks, Remotes, Joined
  <1>4. Begun /\ Room /\ InHand
    BY DEF Begun, Room, InHand
  <1>5. NoLeak
    BY <1>1, FS_EmptySet DEF NoLeak, One
  <1>6. Held /\ Alone /\ Answered
    BY <1>1 DEF Held, Alone, Answered, Blocks
  <1>7. QuietInReceive
    BY DEF QuietInReceive
  <1> QED
    BY <1>2, <1>3, <1>4, <1>5, <1>6, <1>7 DEF IInv, TypeOK

-----------------------------------------------------------------------------
(* Every step, part by part of the invariant.                              *)

\* A step, unless the device restarts.
Runs == \/ ControlStep \/ ControlCall \/ HandlerStep
        \/ \E l \in Loops : LoopRuns(l)
        \/ \E p \in Packets : udp_input(p)

LEMMA RunsOrRestarts == Next => Runs \/ Restart
  BY DEF Next, Runs, LoopStep, null_block

LEMMA RestartIInv == Restart => IInv'
  <1>1. Restart => Init'
    BY DEF Restart, Init, Blocks
  <1> QED
    BY <1>1, InitIInv, PTL

LEMMA FlagsKept == Flags /\ [Runs]_vars => Flags'
  <1> SUFFICES ASSUME Flags, [Runs]_vars
               PROVE  Flags'
    OBVIOUS
  <1> USE DEF Flags
  <1>1. CASE ControlStep
    BY <1>1, Zenon DEF ControlStep, udp_artnet_init, create_loop, change_waited,
       node, ghosts
  <1>2. CASE ControlCall
    BY <1>2, Zenon DEF ControlCall, stopDMXArtnet, startDMXArtnet,
       changeDirectionArtnet,
       ghosts
  <1>3. CASE HandlerStep
    BY <1>3, Zenon DEF HandlerStep, recieveDMXArtnet, dispatch, reply_connect,
         sendPollReplyArtnet, sendProgReplyArtnet, NoReply, ConnectReply, reply_send,
       reply_disconnect, handler_free, node, ghosts
  <1>4. ASSUME NEW l \in Loops, LoopRuns(l)
        PROVE  Flags'
    BY <1>4, Zenon DEF LoopRuns, sendArtnetLoop, Active_after, loop_check,
       send_connect,
       udp_send, send_disconnect, node, ghosts
  <1>5. ASSUME NEW p \in Packets, udp_input(p)
        PROVE  Flags'
    BY <1>5, Zenon DEF udp_input, node, ghosts
  <1>6. CASE UNCHANGED vars
    BY <1>6, Zenon DEF vars, node, ghosts
  <1> QED
    BY <1>1, <1>2, <1>3, <1>4, <1>5, <1>6 DEF Runs

LEMMA StepsKept == Steps /\ [Runs]_vars => Steps'
  <1> SUFFICES ASSUME Steps, [Runs]_vars
               PROVE  Steps'
    OBVIOUS
  <1> USE DEF Steps, ControlSteps, LoopSteps, HandlerSteps
  <1>1. CASE ControlStep
    <2>1. CASE udp_artnet_init
      BY <2>1 DEF udp_artnet_init, node, recvVars
    <2>2. CASE create_loop
      BY <2>2 DEF create_loop, Control, node, recvVars
    <2>3. CASE change_waited
      BY <2>3 DEF change_waited, Control, node, recvVars
    <2> QED
      BY <1>1, <2>1, <2>2, <2>3 DEF ControlStep
  <1>2. CASE ControlCall
    <2>1. CASE stopDMXArtnet
      BY <2>1 DEF stopDMXArtnet, recvVars
    <2>2. ASSUME NEW d \in {"SEND", "RECEIVE"}, startDMXArtnet(d)
          PROVE  Steps'
      BY <2>2 DEF startDMXArtnet, Call, recvVars
    <2>3. ASSUME NEW d \in {"SEND", "RECEIVE"}, changeDirectionArtnet(d)
          PROVE  Steps'
      BY <2>3 DEF changeDirectionArtnet, AfterChange, recvVars
    <2> QED
      BY <1>2, <2>1, <2>2, <2>3 DEF ControlCall
  <1>3. CASE HandlerStep
    <2>1. CASE recieveDMXArtnet
      BY <2>1 DEF recieveDMXArtnet, Handler, ctlVars
    <2>2. CASE dispatch
      BY <2>2 DEF dispatch, Handler, node, ctlVars
    <2>3. CASE reply_connect
      BY <2>3 DEF reply_connect,
         sendPollReplyArtnet, sendProgReplyArtnet, NoReply, ConnectReply, Handler,
         node, ctlVars
    <2>4. CASE reply_send \/ reply_disconnect
      BY <2>4 DEF reply_send, reply_disconnect, Handler, node, ctlVars
    <2>5. CASE handler_free
      BY <2>5 DEF handler_free, Mutex_after, Handler, ctlVars
    <2> QED
      BY <1>3, <2>1, <2>2, <2>3, <2>4, <2>5 DEF HandlerStep
  <1>4. ASSUME NEW l \in Loops, LoopRuns(l)
        PROVE  Steps'
    BY <1>4 DEF LoopRuns, sendArtnetLoop, loop_check, send_connect, udp_send,
       send_disconnect, At, node, ctlVars, recvVars
  <1>5. ASSUME NEW p \in Packets, udp_input(p)
        PROVE  Steps'
    BY <1>5 DEF udp_input, Handler, node, ctlVars
  <1>6. CASE UNCHANGED vars
    BY <1>6 DEF vars, node, ctlVars, recvVars
  <1> QED
    BY <1>1, <1>2, <1>3, <1>4, <1>5, <1>6 DEF Runs

LEMMA DataKept == Steps /\ Data /\ Begun /\ InHand /\ [Runs]_vars => Data'
  <1> SUFFICES ASSUME Steps, Data, Begun, InHand, [Runs]_vars
               PROVE  Data'
    OBVIOUS
  <1> USE DEF Data
  <1>1. CASE ControlStep
    <2>1. CASE udp_artnet_init
      <3>1. udp + 1 \in 0 .. MaxStarts
        BY <2>1, BoundsAreNumbers DEF udp_artnet_init, Begun
      <3> QED
        BY <2>1, <3>1 DEF udp_artnet_init, recvVars
    <2>2. CASE create_loop
      BY <2>2 DEF create_loop, netVars, recvVars
    <2>3. CASE change_waited
      BY <2>3 DEF change_waited, netVars, ctlVars, recvVars
    <2> QED
      BY <1>1, <2>1, <2>2, <2>3 DEF ControlStep
  <1>2. CASE ControlCall
    <2>1. CASE stopDMXArtnet
      <3>1. calls' \in 0 .. MaxCalls
        BY <2>1, BoundsAreNumbers DEF stopDMXArtnet, Call
      <3> QED
        BY <2>1, <3>1 DEF stopDMXArtnet, netVars, recvVars
    <2>2. ASSUME NEW d \in {"SEND", "RECEIVE"}, startDMXArtnet(d)
          PROVE  Data'
      <3>1. starts' \in 0 .. MaxStarts /\ calls' \in 0 .. MaxCalls
        BY <2>2, BoundsAreNumbers DEF startDMXArtnet, Call
      <3> QED
        BY <2>2, <3>1 DEF startDMXArtnet, netVars, recvVars
    <2>3. ASSUME NEW d \in {"SEND", "RECEIVE"}, changeDirectionArtnet(d)
          PROVE  Data'
      <3>1. calls' \in 0 .. MaxCalls
        BY <2>3, BoundsAreNumbers DEF changeDirectionArtnet, Call
      <3> QED
        BY <2>3, <3>1 DEF changeDirectionArtnet, netVars, recvVars
    <2> QED
      BY <1>2, <2>1, <2>2, <2>3 DEF ControlCall
  <1>3. CASE HandlerStep
    <2>1. CASE dispatch
      <3>1. cur \in Packets
        BY <2>1 DEF dispatch, Handler, InHand
      <3>2. Channels(cur) \in 0 .. Joined(255, 255) /\ Joined(255, 255) \in Nat
        BY <3>1, ChannelsCounted DEF Joined
      <3>3. dmx' \in 0 .. Joined(255, 255)
        BY <2>1, <3>2 DEF dispatch, StoreData, SetAddress, Highest
      <3> QED
        BY <2>1, <3>3 DEF dispatch, netVars, ctlVars
    <2>2. CASE reply_connect
      <3>1. ReplyTo \in Remotes
        BY <2>2, PeersSendPackets DEF reply_connect,
         sendPollReplyArtnet, sendProgReplyArtnet, NoReply, ConnectReply, Handler,
         InHand, ReplyTo, Remotes
      <3>2. remote' \in [Blocks -> Remotes]
        BY <2>2, <3>1 DEF reply_connect,
         sendPollReplyArtnet, sendProgReplyArtnet, NoReply, ConnectReply
      <3> QED
        BY <2>2, <3>2 DEF reply_connect,
         sendPollReplyArtnet, sendProgReplyArtnet, NoReply, ConnectReply, ctlVars
    <2>3. CASE recieveDMXArtnet
      BY <2>3 DEF recieveDMXArtnet, netVars, ctlVars
    <2>4. CASE reply_send
      BY <2>4 DEF reply_send, netVars, ctlVars
    <2>5. CASE reply_disconnect
      BY <2>5 DEF reply_disconnect, Remote_after, Remotes, ctlVars
    <2>6. CASE handler_free
      BY <2>6 DEF handler_free, netVars, ctlVars
    <2> QED
      BY <1>3, <2>1, <2>2, <2>3, <2>4, <2>5, <2>6 DEF HandlerStep
  <1>4. ASSUME NEW l \in Loops, LoopRuns(l)
        PROVE  Data'
    <2>1. CASE send_connect(l)
      BY <2>1 DEF send_connect, Remotes, ctlVars, recvVars
    <2>2. CASE send_disconnect(l)
      BY <2>2 DEF send_disconnect, Remotes, ctlVars, recvVars
    <2>3. CASE sendArtnetLoop(l) \/ loop_check(l) \/ udp_send(l)
      BY <2>3 DEF sendArtnetLoop, loop_check, udp_send, netVars, ctlVars, recvVars
    <2> QED
      BY <1>4, <2>1, <2>2, <2>3 DEF LoopRuns
  <1>5. ASSUME NEW p \in Packets, udp_input(p)
        PROVE  Data'
    BY <1>5 DEF udp_input, netVars, ctlVars
  <1>6. CASE UNCHANGED vars
    BY <1>6 DEF vars, netVars, ctlVars, recvVars
  <1> QED
    BY <1>1, <1>2, <1>3, <1>4, <1>5, <1>6 DEF Runs

LEMMA BegunKept == Steps /\ Data /\ Begun /\ [Runs]_vars => Begun'
  <1> SUFFICES ASSUME Steps, Data, Begun, [Runs]_vars
               PROVE  Begun'
    OBVIOUS
  <1> USE DEF Begun
  <1>1. CASE ControlStep
    <2>1. CASE udp_artnet_init
      BY <2>1 DEF udp_artnet_init, node, recvVars, Data
    <2>2. CASE create_loop
      BY <2>2 DEF create_loop, Control, node, netVars, recvVars
    <2>3. CASE change_waited
      BY <2>3 DEF change_waited, Control, node, netVars, recvVars
    <2> QED
      BY <1>1, <2>1, <2>2, <2>3 DEF ControlStep
  <1>2. CASE ControlCall
    <2>1. CASE stopDMXArtnet
      BY <2>1 DEF stopDMXArtnet, Call, netVars, recvVars
    <2>2. ASSUME NEW d \in {"SEND", "RECEIVE"}, startDMXArtnet(d)
          PROVE  Begun'
      BY <2>2 DEF startDMXArtnet, Call, netVars, recvVars, Data
    <2>3. ASSUME NEW d \in {"SEND", "RECEIVE"}, changeDirectionArtnet(d)
          PROVE  Begun'
      BY <2>3 DEF changeDirectionArtnet, Call, AfterChange, netVars, recvVars
    <2> QED
      BY <1>2, <2>1, <2>2, <2>3 DEF ControlCall
  <1>3. CASE HandlerStep
    <2>1. CASE recieveDMXArtnet
      BY <2>1 DEF recieveDMXArtnet, Handler, netVars, ctlVars, Steps
    <2>2. CASE dispatch
      BY <2>2 DEF dispatch, Handler, node, netVars, ctlVars
    <2>3. CASE reply_connect
      BY <2>3 DEF reply_connect,
         sendPollReplyArtnet, sendProgReplyArtnet, NoReply, ConnectReply, Handler,
         node, ctlVars
    <2>4. CASE reply_send
      BY <2>4 DEF reply_send, Handler, node, netVars, ctlVars
    <2>5. CASE reply_disconnect
      BY <2>5 DEF reply_disconnect, Handler, node, ctlVars
    <2>6. CASE handler_free
      BY <2>6 DEF handler_free, Mutex_after, Handler, netVars, ctlVars
    <2> QED
      BY <1>3, <2>1, <2>2, <2>3, <2>4, <2>5, <2>6 DEF HandlerStep
  <1>4. ASSUME NEW l \in Loops, LoopRuns(l)
        PROVE  Begun'
    BY <1>4 DEF LoopRuns, sendArtnetLoop, loop_check, send_connect, udp_send,
       send_disconnect, node, netVars, ctlVars, recvVars
  <1>5. ASSUME NEW p \in Packets, udp_input(p)
        PROVE  Begun'
    BY <1>5 DEF udp_input, Handler, node, netVars, ctlVars
  <1>6. CASE UNCHANGED vars
    BY <1>6 DEF vars, node, netVars, ctlVars, recvVars
  <1> QED
    BY <1>1, <1>2, <1>3, <1>4, <1>5, <1>6 DEF Runs

LEMMA RoomKept == Steps /\ Room /\ [Runs]_vars => Room'
  <1> SUFFICES ASSUME Steps, Room, [Runs]_vars
               PROVE  Room'
    OBVIOUS
  <1> USE DEF Room
  <1>1. CASE ControlStep
    <2>1. CASE udp_artnet_init
      BY <2>1 DEF udp_artnet_init
    <2>2. CASE create_loop \/ change_waited
      BY <2>2 DEF create_loop, change_waited, Control
    <2> QED
      BY <1>1, <2>1, <2>2 DEF ControlStep
  <1>2. CASE ControlCall
    <2>0. \A d : RoomFor(d) /\ d = "SEND" => \E l \in Loops : loop[l] = "none"
      BY DEF RoomFor, Live
    <2>1. CASE stopDMXArtnet
      BY <2>1 DEF stopDMXArtnet, Call
    <2>2. ASSUME NEW d \in {"SEND", "RECEIVE"}, startDMXArtnet(d)
          PROVE  Room'
      BY <2>0, <2>2 DEF startDMXArtnet
    <2>3. ASSUME NEW d \in {"SEND", "RECEIVE"}, changeDirectionArtnet(d)
          PROVE  Room'
      BY <2>0, <2>3 DEF changeDirectionArtnet, AfterChange
    <2> QED
      BY <1>2, <2>1, <2>2, <2>3 DEF ControlCall
  <1>3. CASE HandlerStep
    BY <1>3 DEF HandlerStep, recieveDMXArtnet, dispatch, reply_connect,
         sendPollReplyArtnet, sendProgReplyArtnet, NoReply, ConnectReply, reply_send,
       reply_disconnect, handler_free, node, ctlVars
  <1>4. ASSUME NEW l \in Loops, LoopRuns(l)
        PROVE  Room'
    <2>1. control' = control /\ direction' = direction
      BY <1>4 DEF LoopRuns, sendArtnetLoop, loop_check, send_connect, udp_send,
         send_disconnect, node, ctlVars
    <2>2. \A k \in Loops : loop[k] = "none" => loop'[k] = "none"
      BY <1>4 DEF LoopRuns, sendArtnetLoop, loop_check, send_connect, udp_send,
         send_disconnect, At, Steps
    <2> QED
      BY <2>1, <2>2
  <1>5. ASSUME NEW p \in Packets, udp_input(p)
        PROVE  Room'
    BY <1>5 DEF udp_input, node, ctlVars
  <1>6. CASE UNCHANGED vars
    BY <1>6 DEF vars, node, ctlVars
  <1> QED
    BY <1>1, <1>2, <1>3, <1>4, <1>5, <1>6 DEF Runs

LEMMA InHandKept == Steps /\ InHand /\ [Runs]_vars => InHand'
  <1> SUFFICES ASSUME Steps, InHand, [Runs]_vars
               PROVE  InHand'
    OBVIOUS
  <1> USE DEF InHand
  <1>1. CASE ControlStep
    BY <1>1 DEF ControlStep, udp_artnet_init, create_loop, change_waited, recvVars
  <1>2. CASE ControlCall
    BY <1>2 DEF ControlCall, stopDMXArtnet, startDMXArtnet, changeDirectionArtnet,
       recvVars
  <1>3. CASE HandlerStep
    <2>1. CASE recieveDMXArtnet
      BY <2>1 DEF recieveDMXArtnet, Handler
    <2>2. CASE dispatch
      BY <2>2 DEF dispatch, Handler
    <2>3. CASE reply_connect \/ reply_send \/ reply_disconnect
      BY <2>3 DEF reply_connect,
         sendPollReplyArtnet, sendProgReplyArtnet, NoReply, ConnectReply,
         reply_send, reply_disconnect, Handler
    <2>4. CASE handler_free
      BY <2>4 DEF handler_free, Handler
    <2> QED
      BY <1>3, <2>1, <2>2, <2>3, <2>4 DEF HandlerStep
  <1>4. ASSUME NEW l \in Loops, LoopRuns(l)
        PROVE  InHand'
    BY <1>4 DEF LoopRuns, sendArtnetLoop, loop_check, send_connect, udp_send,
       send_disconnect, recvVars
  <1>5. ASSUME NEW p \in Packets, udp_input(p)
        PROVE  InHand'
    BY <1>5, APacketIsThere DEF udp_input, Handler
  <1>6. CASE UNCHANGED vars
    BY <1>6 DEF vars, recvVars
  <1> QED
    BY <1>1, <1>2, <1>3, <1>4, <1>5, <1>6 DEF Runs

\* Which loops are in a frame after a step of a loop, or when one is made.
LEMMA FramesByLoops ==
  ASSUME Steps, NEW l \in Loops
  PROVE  /\ sendArtnetLoop(l) \/ loop_check(l) \/ udp_send(l) => Sending' = Sending
         /\ send_connect(l) =>
              \/ Sending' = Sending /\ UNCHANGED <<remote, bufs, mixed>>
              \/ Sending' = Sending \cup {l} /\ l \notin Sending /\ bufs' = bufs + 1
                 /\ mixed' = (mixed \/ Replying \/ Sending # {})
         /\ send_disconnect(l) => l \in Sending /\ Sending' = Sending \ {l}
  <1> USE DEF Steps, Sending, At
  <1>1. ASSUME sendArtnetLoop(l)
        PROVE  Sending' = Sending
    BY <1>1 DEF sendArtnetLoop
  <1>2. ASSUME loop_check(l) \/ udp_send(l)
        PROVE  Sending' = Sending
    BY <1>2 DEF loop_check, udp_send
  <1>3. ASSUME send_connect(l)
        PROVE  \/ Sending' = Sending /\ UNCHANGED <<remote, bufs, mixed>>
               \/ Sending' = Sending \cup {l} /\ l \notin Sending /\ bufs' = bufs + 1
                  /\ mixed' = (mixed \/ Replying \/ Sending # {})
    <2>1. CASE enabled
      <3>1. Sending' = Sending \cup {l} /\ l \notin Sending
        BY <1>3, <2>1 DEF send_connect
      <3>2. bufs' = bufs + 1 /\ mixed' = (mixed \/ Replying \/ Sending # {})
        BY <1>3, <2>1, Zenon DEF send_connect
      <3> QED
        BY <3>1, <3>2, Zenon
    <2>2. CASE ~enabled
      BY <1>3, <2>2 DEF send_connect
    <2> QED
      BY <2>1, <2>2
  <1>4. ASSUME send_disconnect(l)
        PROVE  l \in Sending /\ Sending' = Sending \ {l}
    BY <1>4 DEF send_disconnect
  <1> QED
    BY <1>1, <1>2, <1>3, <1>4, Zenon

LEMMA FramesByCreate == Steps /\ Room /\ create_loop => Sending' = Sending
  <1> SUFFICES ASSUME Steps, Room, create_loop
               PROVE  Sending' = Sending
    OBVIOUS
  <1>1. Unused \in Loops /\ loop[Unused] = "none"
    BY UnusedIsUnused DEF create_loop, Control
  <1> QED
    BY <1>1 DEF create_loop, Sending, Steps

LEMMA AccountKept ==
  Steps /\ Room /\ Begun /\ InHand /\ bufs \in Nat /\ NoLeak /\ [Runs]_vars => NoLeak'
  <1> SUFFICES ASSUME Steps, Room, Begun, InHand, bufs \in Nat, NoLeak, [Runs]_vars
               PROVE  NoLeak'
    OBVIOUS
  <1> DEFINE packets == One(cur # NoPacket)
             replies == One(Replying)
             frames  == Cardinality(Sending)
  <1>0. /\ bufs = packets + replies + frames
        /\ packets \in Nat /\ replies \in Nat /\ frames \in Nat
    BY SendingIsFinite DEF NoLeak, One
  <1>s. SUFFICES bufs' = packets' + replies' + frames'
    BY DEF NoLeak
  <1>1. CASE ControlStep
    <2>1. CASE create_loop
      BY <2>1, <1>0, FramesByCreate DEF create_loop, Replying, recvVars
    <2>2. CASE udp_artnet_init \/ change_waited
      BY <2>2, <1>0 DEF udp_artnet_init, change_waited, Sending, Replying, recvVars
    <2> QED
      BY <1>1, <2>1, <2>2 DEF ControlStep
  <1>2. CASE ControlCall
    BY <1>2, <1>0 DEF ControlCall, stopDMXArtnet, startDMXArtnet,
       changeDirectionArtnet,
       Sending, Replying, recvVars
  <1>3. CASE HandlerStep
    <2>1. CASE recieveDMXArtnet
      <3>1. mutex = "free"
        BY <2>1 DEF recieveDMXArtnet, Handler, Begun, Steps
      <3> QED
        BY <2>1, <3>1, <1>0 DEF recieveDMXArtnet, Handler, Sending, Replying
    <2>2. CASE dispatch
      BY <2>2, <1>0 DEF dispatch, Handler, Sending, Replying
    <2>3. CASE reply_connect
      BY <2>3, <1>0 DEF reply_connect,
         sendPollReplyArtnet, sendProgReplyArtnet, NoReply, ConnectReply, Handler,
         Sending, Replying, One
    <2>4. CASE reply_send
      BY <2>4, <1>0 DEF reply_send, Handler, Sending, Replying
    <2>5. CASE reply_disconnect
      BY <2>5, <1>0 DEF reply_disconnect, Freed, Handler, Sending, Replying, One
    <2>6. CASE handler_free
      BY <2>6, <1>0 DEF handler_free, Handler, Sending, Replying, One, InHand
    <2> QED
      BY <1>3, <2>1, <2>2, <2>3, <2>4, <2>5, <2>6 DEF HandlerStep
  <1>4. ASSUME NEW l \in Loops, LoopRuns(l)
        PROVE  bufs' = packets' + replies' + frames'
    <2>0. cur' = cur /\ handler' = handler
      BY <1>4 DEF LoopRuns, sendArtnetLoop, loop_check, send_connect, udp_send,
         send_disconnect, recvVars
    <2>1. CASE sendArtnetLoop(l) \/ loop_check(l) \/ udp_send(l)
      <3>1. Sending' = Sending /\ bufs' = bufs
        BY <2>1, FramesByLoops DEF sendArtnetLoop, loop_check, udp_send
      <3> QED
        BY <2>0, <3>1, <1>0 DEF Replying
    <2>2. CASE send_connect(l) /\ Sending' = Sending /\ bufs' = bufs
      BY <2>0, <2>2, <1>0 DEF Replying
    <2>3. CASE Sending' = Sending \cup {l} /\ l \notin Sending /\ bufs' = bufs + 1
      <3>1. frames' = frames + 1
        BY <2>3, SendingIsFinite, FS_AddElement
      <3> QED
        BY <2>0, <2>3, <3>1, <1>0 DEF Replying
    <2>4. CASE send_disconnect(l)
      <3>1. l \in Sending /\ Sending' = Sending \ {l} /\ bufs' = bufs - 1
        BY <2>4, FramesByLoops DEF send_disconnect
      <3>2. frames' = frames - 1
        BY <3>1, SendingIsFinite, FS_RemoveElement
      <3> QED
        BY <2>0, <3>1, <3>2, <1>0 DEF Replying
    <2> QED
      BY <1>4, <2>1, <2>2, <2>3, <2>4, FramesByLoops DEF LoopRuns
  <1>5. ASSUME NEW p \in Packets, udp_input(p)
        PROVE  bufs' = packets' + replies' + frames'
    BY <1>5, <1>0, APacketIsThere DEF udp_input, Handler, InHand, One, Sending,
       Replying
  <1>6. CASE UNCHANGED vars
    BY <1>6, <1>0 DEF vars, recvVars, Sending, Replying
  <1> QED
    BY <1>1, <1>2, <1>3, <1>4, <1>5, <1>6 DEF Runs

LEMMA HeldKept == Steps /\ Data /\ Room /\ Held /\ [Runs]_vars => Held'
  <1> SUFFICES ASSUME Steps, Data, Room, Held, [Runs]_vars
               PROVE  Held'
    OBVIOUS
  <1> USE DEF Held
  <1>1. CASE ControlStep
    <2>1. CASE udp_artnet_init
      BY <2>1 DEF udp_artnet_init, Sending, Replying, recvVars, Blocks
    <2>2. CASE create_loop
      BY <2>2, FramesByCreate DEF create_loop, Replying, netVars, recvVars, Blocks
    <2>3. CASE change_waited
      BY <2>3 DEF change_waited, Sending, Replying, netVars, recvVars, ghosts, Blocks
    <2> QED
      BY <1>1, <2>1, <2>2, <2>3 DEF ControlStep
  <1>2. CASE ControlCall
    BY <1>2 DEF ControlCall, stopDMXArtnet, startDMXArtnet, changeDirectionArtnet,
       Sending, Replying, netVars, recvVars, ghosts, Blocks
  <1>3. CASE HandlerStep
    <2>1. CASE recieveDMXArtnet \/ dispatch \/ handler_free
      BY <2>1 DEF recieveDMXArtnet, dispatch, handler_free, Handler, Sending,
         Replying,
         netVars, ghosts, Blocks
    <2>2. CASE reply_connect
      BY <2>2 DEF reply_connect,
         sendPollReplyArtnet, sendProgReplyArtnet, NoReply, ConnectReply, Handler,
         Sending, Replying, Blocks, Data
    <2>3. CASE reply_send
      BY <2>3 DEF reply_send, Handler, Sending, Replying, netVars, ghosts, Blocks
    <2>4. CASE reply_disconnect
      BY <2>4 DEF reply_disconnect, Remote_after, ghosts, Blocks, Data
    <2> QED
      BY <1>3, <2>1, <2>2, <2>3, <2>4 DEF HandlerStep
  <1>4. ASSUME NEW l \in Loops, LoopRuns(l)
        PROVE  Held'
    <2>0. handler' = handler /\ udp' = udp /\ torn' = torn
      BY <1>4 DEF LoopRuns, sendArtnetLoop, loop_check, send_connect, udp_send,
         send_disconnect, netVars, recvVars, ghosts
    <2>1. CASE sendArtnetLoop(l) \/ loop_check(l) \/ udp_send(l)
      <3>1. Sending' = Sending /\ remote' = remote
        BY <2>1, FramesByLoops DEF sendArtnetLoop, loop_check, udp_send, netVars
      <3> QED
        BY <2>0, <3>1 DEF Replying, Blocks
    <2>2. CASE send_connect(l)
      <3>1. CASE Sending' = Sending /\ remote' = remote
        BY <2>0, <3>1 DEF Replying, Blocks
      <3>2. CASE l \in Sending'
        <4>1. \A b \in Blocks : b # udp => remote'[b] = remote[b]
          BY <2>2 DEF send_connect, Data
        <4>2. Blocks' = Blocks
          BY DEF Blocks
        <4> QED
          BY <2>0, <3>2, <4>1, <4>2
      <3> QED
        BY <2>2, <3>1, <3>2, FramesByLoops
    <2>3. CASE send_disconnect(l)
      BY <2>0, <2>3 DEF send_disconnect, Blocks, Data
    <2> QED
      BY <1>4, <2>1, <2>2, <2>3 DEF LoopRuns
  <1>5. ASSUME NEW p \in Packets, udp_input(p)
        PROVE  Held'
    BY <1>5 DEF udp_input, Handler, Sending, Replying, netVars, ghosts, Blocks
  <1>6. CASE UNCHANGED vars
    BY <1>6 DEF vars, netVars, recvVars, ghosts, Sending, Replying, Blocks
  <1> QED
    BY <1>1, <1>2, <1>3, <1>4, <1>5, <1>6 DEF Runs

LEMMA AnsweredKept ==
  Steps /\ Data /\ Begun /\ Room /\ Answered /\ [Runs]_vars => Answered'
  <1> SUFFICES ASSUME Steps, Data, Begun, Room, Answered, [Runs]_vars
               PROVE  Answered'
    OBVIOUS
  <1> USE DEF Answered
  <1>1. CASE ControlStep
    <2>1. CASE udp_artnet_init
      BY <2>1 DEF udp_artnet_init, Replying, recvVars
    <2>2. CASE create_loop
      BY <2>2, FramesByCreate DEF create_loop, netVars, recvVars
    <2>3. CASE change_waited
      BY <2>3 DEF change_waited, Sending, netVars, recvVars, ghosts
    <2> QED
      BY <1>1, <2>1, <2>2, <2>3 DEF ControlStep
  <1>2. CASE ControlCall
    BY <1>2 DEF ControlCall, stopDMXArtnet, startDMXArtnet, changeDirectionArtnet,
       Sending, netVars, recvVars, ghosts
  <1>3. CASE HandlerStep
    <2>1. CASE reply_connect
      <3>1. udp \in Blocks
        BY <2>1 DEF reply_connect,
         sendPollReplyArtnet, sendProgReplyArtnet, NoReply, ConnectReply, Handler,
         Begun, Data, Blocks
      <3> QED
        BY <2>1, <3>1 DEF reply_connect,
         sendPollReplyArtnet, sendProgReplyArtnet, NoReply, ConnectReply, Handler,
         ReplyTo, Sending, Data
    <2>2. CASE recieveDMXArtnet \/ dispatch \/ reply_send \/ reply_disconnect \/ handler_free
      BY <2>2 DEF recieveDMXArtnet, dispatch, reply_send, reply_disconnect,
         handler_free,
         Handler
    <2> QED
      BY <1>3, <2>1, <2>2 DEF HandlerStep
  <1>4. ASSUME NEW l \in Loops, LoopRuns(l)
        PROVE  Answered'
    <2>0. handler' = handler /\ cur' = cur /\ udp' = udp /\ torn' = torn
      BY <1>4 DEF LoopRuns, sendArtnetLoop, loop_check, send_connect, udp_send,
         send_disconnect, netVars, recvVars, ghosts
    <2>1. CASE sendArtnetLoop(l) \/ loop_check(l) \/ udp_send(l)
      <3>1. Sending' = Sending /\ remote' = remote /\ mixed' = mixed
        BY <2>1, FramesByLoops DEF sendArtnetLoop, loop_check, udp_send, netVars,
           ghosts
      <3> QED
        BY <2>0, <3>1
    <2>2. CASE send_connect(l)
      <3>1. CASE Sending' = Sending /\ remote' = remote /\ mixed' = mixed
        BY <2>0, <3>1
      <3>2. CASE mixed' = (mixed \/ Replying \/ Sending # {})
        BY <2>0, <3>2 DEF Replying
      <3> QED
        BY <2>2, <3>1, <3>2, FramesByLoops
    <2>3. CASE send_disconnect(l)
      BY <2>0, <2>3, FramesByLoops DEF send_disconnect, ghosts
    <2> QED
      BY <1>4, <2>1, <2>2, <2>3 DEF LoopRuns
  <1>5. ASSUME NEW p \in Packets, udp_input(p)
        PROVE  Answered'
    BY <1>5 DEF udp_input, Handler
  <1>6. CASE UNCHANGED vars
    BY <1>6 DEF vars, netVars, recvVars, ghosts, Sending
  <1> QED
    BY <1>1, <1>2, <1>3, <1>4, <1>5, <1>6 DEF Runs

LEMMA AloneKept ==
  Steps /\ Data /\ Room /\ Alone /\ QuietInReceive /\ [Runs]_vars
    => Alone' /\ QuietInReceive'
  <1> SUFFICES ASSUME Steps, Data, Room, Alone, QuietInReceive, [Runs]_vars
               PROVE  Alone' /\ QuietInReceive'
    OBVIOUS
  <1> USE DEF Alone, QuietInReceive, Live
  <1>0. ASSUME UNCHANGED <<control, direction, crowded, sendActive, loop>>
        PROVE  Alone' /\ QuietInReceive'
    BY <1>0
  <1>1. CASE ControlStep
    <2>1. CASE udp_artnet_init
      BY <2>1 DEF udp_artnet_init, node
    <2>2. CASE create_loop
      <3>1. Unused \in Loops /\ loop[Unused] = "none"
        BY <2>2, UnusedIsUnused DEF create_loop, Control
      <3>2. direction' = "SEND" /\ control' = "idle"
        BY <2>2 DEF create_loop, Control, node
      <3>3. /\ loop' = [loop EXCEPT ![Unused] = "created"]
            /\ ~crowded' => \A l \in Loops : loop[l] = "none"
        BY <2>2, Zenon DEF create_loop
      <3>4. ~crowded' => \A l \in Live' : l = Unused /\ loop'[l] = "created"
        BY <3>1, <3>3 DEF Steps
      <3> QED
        BY <3>2, <3>4
    <2>3. CASE change_waited
      <3>1. UNCHANGED <<direction, crowded, sendActive, loop>>
            /\ control = "wait" /\ control' = "idle" /\ ~sendActive
        BY <2>3 DEF change_waited, Control, LoopsGone, node, ghosts
      <3> QED
        BY <3>1
    <2> QED
      BY <1>1, <2>1, <2>2, <2>3 DEF ControlStep
  <1>2. CASE ControlCall
    <2>1. CASE stopDMXArtnet
      BY <2>1, <1>0 DEF stopDMXArtnet, Call, ghosts
    <2>2. ASSUME NEW d \in {"SEND", "RECEIVE"}, startDMXArtnet(d)
          PROVE  Alone' /\ QuietInReceive'
      <3>1. /\ sendActive' = sendActive /\ loop' = loop /\ control' = "udp"
            /\ crowded' = (crowded \/ Live # {})
        BY <2>2 DEF startDMXArtnet
      <3>2. control' # "idle" /\ control' # "create"
        BY <3>1
      <3>3. ~crowded' => Live' = {}
        BY <3>1 DEF Live
      <3> QED
        BY <3>2, <3>3
    <2>3. ASSUME NEW d \in {"SEND", "RECEIVE"}, changeDirectionArtnet(d)
          PROVE  Alone' /\ QuietInReceive'
      <3>1. UNCHANGED <<crowded, sendActive, loop>>
            /\ direction' = d /\ control' = IF d = "SEND" THEN "create" ELSE "wait"
        BY <2>3 DEF changeDirectionArtnet, AfterChange, ghosts
      <3>2. control' \in {"create", "wait"} /\ (control' = "create" => direction' = "SEND")
        BY <3>1
      <3>3. Alone'
        BY <3>1, <3>2
      <3> QED
        BY <3>2, <3>3
    <2> QED
      BY <1>2, <2>1, <2>2, <2>3 DEF ControlCall
  <1>3. CASE HandlerStep
    BY <1>3, <1>0 DEF HandlerStep, recieveDMXArtnet, dispatch, reply_connect,
         sendPollReplyArtnet, sendProgReplyArtnet, NoReply, ConnectReply, reply_send,
       reply_disconnect, handler_free, node, ctlVars, ghosts
  <1>4. ASSUME NEW l \in Loops, LoopRuns(l)
        PROVE  Alone' /\ QuietInReceive'
    <2>0. UNCHANGED <<control, direction, crowded>>
      BY <1>4 DEF LoopRuns, sendArtnetLoop, loop_check, send_connect, udp_send,
         send_disconnect, node, ctlVars, ghosts
    <2>1. CASE sendArtnetLoop(l)
      <3>1. CASE loop[l] = "created"
        <4>1. loop' = [loop EXCEPT ![l] = "check"] /\ sendActive'
          BY <2>1, <3>1 DEF sendArtnetLoop, At
        <4> QED
          BY <2>0, <3>1, <4>1 DEF Steps
      <3>2. CASE loop[l] = "exit"
        <4>1. loop' = [loop EXCEPT ![l] = "none"]
          BY <2>1, <3>2 DEF sendArtnetLoop, At
        <4> QED
          BY <2>0, <3>2, <4>1 DEF Steps
      <3> QED
        BY <2>1, <3>1, <3>2 DEF sendArtnetLoop, At
    <2>2. CASE loop_check(l)
      <3>1. sendActive' = sendActive /\ loop[l] = "check"
            /\ \/ loop' = [loop EXCEPT ![l] = "connect"] /\ direction = "SEND"
               \/ loop' = [loop EXCEPT ![l] = "exit"]
        BY <2>2 DEF loop_check, At, node
      <3> QED
        BY <2>0, <3>1 DEF Steps
    <2>3. CASE send_connect(l) \/ udp_send(l) \/ send_disconnect(l)
      <3>1. sendActive' = sendActive /\ loop[l] \in {"connect", "send", "disconnect"}
            /\ \E to \in {"check", "send", "disconnect"} :
                 loop' = [loop EXCEPT ![l] = to]
        BY <2>3 DEF send_connect, udp_send, send_disconnect, At, node
      <3> QED
        BY <2>0, <3>1 DEF Steps
    <2> QED
      BY <1>4, <2>1, <2>2, <2>3 DEF LoopRuns
  <1>5. ASSUME NEW p \in Packets, udp_input(p)
        PROVE  Alone' /\ QuietInReceive'
    BY <1>5, <1>0 DEF udp_input, node, ctlVars, ghosts
  <1>6. CASE UNCHANGED vars
    BY <1>6, <1>0 DEF vars, node, ctlVars, ghosts
  <1> QED
    BY <1>1, <1>2, <1>3, <1>4, <1>5, <1>6 DEF Runs

LEMMA RunsIInv == IInv /\ [Runs]_vars => IInv'
  <1> SUFFICES ASSUME IInv, [Runs]_vars
               PROVE  IInv'
    OBVIOUS
  <1>1. Flags' /\ Steps' /\ Data'
    BY FlagsKept, StepsKept, DataKept DEF IInv, TypeOK
  <1>2. Begun' /\ Room' /\ InHand' /\ NoLeak'
    BY BegunKept, RoomKept, InHandKept, AccountKept DEF IInv, TypeOK
  <1>3. Held' /\ Alone' /\ QuietInReceive' /\ Answered'
    BY HeldKept, AloneKept, AnsweredKept DEF IInv, TypeOK
  <1>4. bufs' \in Nat
    <2>1. Sending' \subseteq Loops
      BY DEF Sending
    <2>2. IsFiniteSet(Sending')
      BY <2>1, LoopsAreFinite, FS_Subset
    <2>3. Cardinality(Sending') \in Nat
      BY <2>2, FS_CardinalityType
    <2> QED
      BY <1>2, <2>3 DEF NoLeak, One
  <1> QED
    BY <1>1, <1>2, <1>3, <1>4 DEF IInv, TypeOK

LEMMA NextIInv == IInv /\ [Next]_vars => IInv'
  BY RunsIInv, RunsOrRestarts, RestartIInv

LEMMA SpecIInv == Spec => []IInv
  BY InitIInv, NextIInv, PTL DEF Spec

-----------------------------------------------------------------------------

\* Type correctness of the Art-Net node, whatever packets count.  It includes that no
\* number of buffers is negative.  It does not include that channels stay within the
\* DMX buffer, which they do not: CountIsTrusted of FormatProofs says when.
THEOREM ArtnetTypeCorrect == Spec => []TypeOK
  BY SpecIInv, PTL DEF IInv

\* However frames and replies of the tasks overlap on the one control block, it is
\* open to all controllers whenever neither is on its way.
THEOREM NodeListens == Spec => []Listening
  <1>1. IInv => Listening
    BY BoundsAreNumbers DEF IInv, Held, Listening, Blocks, Port
  <1> QED
    BY <1>1, SpecIInv, PTL

\* Every packet buffer belongs to a packet in hand, a reply or a frame.
THEOREM NothingLeaks == Spec => []NoLeak
  BY SpecIInv, PTL DEF IInv

\* After a change to RECEIVE no loop sends, unless a loop was made or the node started
\* beside a loop.
THEOREM ReceiveIsQuiet == Spec => []QuietInReceive
  BY SpecIInv, PTL DEF IInv

\* A reply that overlaps neither a frame nor a start reaches the peer that asked.
THEOREM ReplyReachesAsker == Spec => ReplyToAsker
  <1>1. IInv => (handler = "send" /\ handler' = "disconnect" /\ ~mixed /\ ~torn
                   => remote[udp] = cur.from)
    BY DEF IInv, Answered
  <1> QED
    BY <1>1, SpecIInv, PTL DEF ReplyToAsker

=============================================================================
