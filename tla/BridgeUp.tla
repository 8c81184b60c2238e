-------------------------------- MODULE BridgeUp --------------------------------
(***************************************************************************)
(* The host-bound half of the bridge (src/src/midi_bridge.cpp): collecting *)
(* a device's SysEx packets into RFC 6295 segments, and what a session's   *)
(* or a device's coming and going does to the message being collected and  *)
(* to the host's view of the device.                                       *)
(*                                                                         *)
(* A pass of the MIDI task drains the session, during which sessions end   *)
(* and begin, then runs MidiBridge::tick(), which forwards what the USB    *)
(* client task queued, then healthTick().                                  *)
(*                                                                         *)
(* Bytes are "F0", "F7" (the status bytes that frame SysEx), "F4", "F6"    *)
(* (tune request) and data.                                                *)
(* A USB packet is [cable, bytes, ends]: ends tells CIN 5-7 from CIN 4.    *)
(***************************************************************************)
EXTENDS Integers, Sequences, SequencesExt

CONSTANTS Packets,      \* the packets the device sends
          Bridged,      \* the cables forwarded: one, or all (CABLE_ALL)
          SYSEX_SEG,    \* bytes of a segment, markers included
          USB_BATCH,    \* packets of one tick()
          QueueLen,     \* slots of s_queue
          MaxPackets,   \* bound: packets the devices send
          MaxSession,   \* bound: sessions
          PassSessions, \* bound: session starts and ends within one drain
          MaxAttach,    \* bound: attachments
          PassMoves     \* bound: attaches and detaches between two healthTicks

ASSUME ConstantsAssumption ==
    \* Less than a segment is read in one tick(), so the marker a new session gets after
    \* its first tick() finds no segment sent yet (512 and 128 in the code).
    /\ SYSEX_SEG > 3 * USB_BATCH /\ SYSEX_SEG > 4
    /\ {SYSEX_SEG, USB_BATCH, QueueLen} \subseteq Nat \ {0} /\ Packets # {}
    \* Only an end packet has an F7 for its last byte.  The others of less than three bytes
    \* are the short messages, of which none begins like SysEx.
    /\ \A p \in Packets :
          /\ p.bytes \in Seq({p.bytes[i] : i \in DOMAIN p.bytes}) /\ Len(p.bytes) \in 1 .. 3
          /\ ~p.ends => p.bytes[Len(p.bytes)] # "F7"
          /\ ~p.ends /\ Len(p.bytes) < 3 => p.bytes[1] \notin {"F0", "F7"}

VARIABLES
    pc,         \* MIDI task: "drain", "tick", "batch", "health"
    batch,      \* packets tick() may still read
    \* midi_bridge.cpp
    sysex,      \* s_sysex[0 .. s_sysexLen - 1]
    segmented,  \* s_sysexSegmented: "yes" or "no"
    cable,      \* s_sysexCable
    tickPeer,   \* s_tickPeer: "yes" or "no"
    lastPeer,   \* s_lastPeerState: "yes" or "no"
    lastDev,    \* s_lastDevState: "up" or "down"
    \* rtp_midi.cpp and usb_midi_host.cpp
    session,    \* number of the session up, 0 while s_peerCount = 0
    link,       \* s_connected: "up" or "down"
    inQueue,    \* s_queue
    \* external: the session's first peer
    host,       \* rx: the SysEx being reassembled; last: the last one complete;
                \* faults: what it met that no RFC 6295 sender sends
    told,       \* the device state its last marker gave, "none" before the first
    \* history
    sessions, sessionMoves, attaches, moves, sentPackets,
    unseen,     \* "yes": the session began in the drain that ended the one before it, so
                \* no hasPeer() between them said no
    stream      \* per cable, the bytes read since the last F0

vars   == <<pc, batch, sysex, segmented, cable, tickPeer, lastPeer, lastDev, session, link, inQueue,
            host, told, sessions, sessionMoves, attaches, moves, sentPackets, unseen, stream>>
edges  == <<tickPeer, lastPeer, lastDev, unseen>>
bounds == <<sessions, sessionMoves, attaches, moves, sentPackets>>

Cables  == {p.cable : p \in Packets}
HasPeer == IF session # 0 THEN "yes" ELSE "no"
NewHost == [rx |-> <<>>, last |-> <<>>, faults |-> {}]

Init ==
    /\ pc = "drain" /\ batch = 0 /\ sysex = <<>> /\ segmented = "no"
    /\ cable = CHOOSE c \in Cables : TRUE
    /\ tickPeer = "no" /\ lastPeer = "no" /\ lastDev = "down" /\ session = 0 /\ link = "down"
    /\ inQueue = <<>> /\ host = NewHost /\ told = "none"
    /\ sessions = 0 /\ sessionMoves = 0 /\ attaches = 0 /\ moves = 0 /\ sentPackets = 0
    /\ unseen = "no"
    /\ stream = [c \in Cables |-> <<>>]

-------------------------------------------------------------------------------
(* The session's receiver (RFC 6295 reassembly).                           *)

Marker(dev) == <<"F0", dev, "F7">>
Cancel == <<"F7", "F4">>

Kind(m) == IF m \in {Marker("up"), Marker("down")} THEN "marker"
           ELSE CASE m[1] = "F0" -> "start"
                  [] m[1] = "F7" -> "rest"
                  [] OTHER -> "short"

Fault(h, m) == {Kind(m)} \cap IF h.rx = <<>> THEN {"rest"} ELSE {"marker", "start"}

\* A rest with no start before it is left out.
Takes(h, m) == Kind(m) = "start" \/ (Kind(m) = "rest" /\ h.rx # <<>>)

Receive(h, m) ==
    LET start  == IF m[1] = "F0" THEN <<"F0">> ELSE h.rx
        middle == SubSeq(m, 2, Len(m) - 1)
    IN [rx     |-> IF ~Takes(h, m) THEN h.rx
                   ELSE IF Last(m) = "F0" THEN start \o middle ELSE <<>>,
        last   |-> IF Takes(h, m) /\ Last(m) = "F7"
                   THEN start \o middle \o <<"F7">> ELSE h.last,
        faults |-> h.faults \cup Fault(h, m)]

\* At most three messages leave between two steps.
ReceiveAll(h, ms) ==
    LET first  == IF Len(ms) >= 1 THEN Receive(h, ms[1]) ELSE h
        second == IF Len(ms) >= 2 THEN Receive(first, ms[2]) ELSE first
    IN IF Len(ms) >= 3 THEN Receive(second, ms[3]) ELSE second

\* RtpMidi's senders: nothing leaves without a peer.
Send(ms) == host' = IF session = 0 THEN host ELSE ReceiveAll(host, ms)

-------------------------------------------------------------------------------
(* RtpMidi::tick(): what the session's callbacks leave behind.             *)

FirstPeer ==
    /\ pc = "drain" /\ session = 0
    /\ sessions < MaxSession /\ sessionMoves < PassSessions
    /\ sessions' = sessions + 1 /\ session' = sessions + 1
    /\ sessionMoves' = sessionMoves + 1
    /\ host' = NewHost /\ told' = "none"
    /\ unseen' = tickPeer
    /\ UNCHANGED <<pc, batch, sysex, segmented, cable, tickPeer, lastPeer, lastDev, link, inQueue,
                   attaches, moves, sentPackets, stream>>

LastPeerGone ==
    /\ pc = "drain" /\ session # 0 /\ sessionMoves < PassSessions
    /\ session' = 0
    /\ sessionMoves' = sessionMoves + 1
    /\ UNCHANGED <<pc, batch, sysex, segmented, cable, edges, link, inQueue, host, told, sessions,
                   attaches, moves, sentPackets, stream>>

DrainEnd ==
    /\ pc = "drain"
    /\ pc' = "tick"
    /\ sessionMoves' = 0
    /\ UNCHANGED <<batch, sysex, segmented, cable, edges, session, link, inQueue, host, told, sessions,
                   attaches, moves, sentPackets, stream>>

-------------------------------------------------------------------------------
(* MidiBridge::tick().                                                     *)

PeerEdgeForgotten == FALSE
PeerEdge == HasPeer # tickPeer

\* A session that began or ended discards the message being collected.  With a peer,
\* the queue may have to wait for a token (UplinkPacing).
TickBegin ==
    /\ pc = "tick"
    /\ IF PeerEdge
       THEN sysex' = <<>> /\ segmented' = "no"
       ELSE UNCHANGED <<sysex, segmented>>
    /\ tickPeer' = HasPeer
    /\ \/ pc' = "batch" /\ batch' = USB_BATCH
       \/ session # 0 /\ pc' = "health" /\ UNCHANGED batch
    /\ UNCHANGED <<cable, lastPeer, lastDev, unseen, session, link, inQueue, host, told, bounds, stream>>

\* Of the end packets of one byte (CIN 5) only an F7 is SysEx; the tune request is a
\* message of its own, and any other goes nowhere: the SysEx stays open.
IsSysEx(p) == IF p.ends THEN Len(p.bytes) > 1 \/ p.bytes[1] = "F7" ELSE Len(p.bytes) = 3

Shorts(p) == IF p.ends /\ p.bytes[1] # "F6" THEN <<>> ELSE <<p.bytes>>

\* An end packet without its F7 gets one.
Bytes(p) == IF p.ends /\ Last(p.bytes) # "F7" THEN Append(p.bytes, "F7") ELSE p.bytes

NotAbandoned == <<>>
Abandoned == IF segmented = "yes" THEN <<Cancel>> ELSE <<>>

\* What is collected with the packet, and what of it leaves: a full segment first.
FullLate(all) == Len(all) > SYSEX_SEG + 2
Full(all) == Len(all) > SYSEX_SEG

Collect(before, wasSegmented, p, sent) ==
    LET all   == before \o Bytes(p)
        rest  == IF Full(all) THEN <<"F7">> \o SubSeq(all, SYSEX_SEG + 1, Len(all)) ELSE all
        segs  == IF Full(all) THEN <<Append(SubSeq(all, 1, SYSEX_SEG), "F0")>> ELSE <<>>
    IN /\ Send(sent \o segs \o (IF p.ends THEN <<rest>> ELSE <<>>))
       /\ sysex' = IF p.ends THEN <<>> ELSE rest
       /\ segmented' = IF p.ends THEN "no" ELSE IF Full(all) THEN "yes" ELSE wasSegmented

\* sysexPacket(): a start abandons the message in progress; a packet of no message in
\* progress, or of another cable's, is left out.
OtherMessageAnyCable(p) == sysex = <<>>
OtherMessage(p) == sysex = <<>> \/ p.cable # cable

SysExPacket(p) ==
    IF p.bytes[1] = "F0"
    THEN /\ Collect(<<>>, "no", p, Abandoned)
         /\ cable' = p.cable
    ELSE /\ IF OtherMessage(p)
            THEN UNCHANGED <<sysex, segmented, host>>
            ELSE Collect(sysex, segmented, p, <<>>)
         /\ UNCHANGED cable

\* The reference: what the cable has sent since its last F0.
Streamed(p) ==
    IF ~IsSysEx(p) THEN stream
    ELSE [stream EXCEPT ![p.cable] =
            IF p.bytes[1] = "F0" THEN Bytes(p)
            ELSE IF @ = <<>> \/ Last(@) = "F7" THEN @ ELSE @ \o Bytes(p)]

TickPacket ==
    /\ pc = "batch" /\ batch > 0 /\ inQueue # <<>>
    /\ LET p == Head(inQueue)
       IN IF p.cable \notin Bridged \/ session = 0
          THEN UNCHANGED <<sysex, segmented, cable, host, stream>>
          ELSE /\ stream' = Streamed(p)
               /\ IF IsSysEx(p)
                  THEN SysExPacket(p)
                  ELSE Send(Shorts(p)) /\ UNCHANGED <<sysex, segmented, cable>>
    /\ inQueue' = Tail(inQueue)
    /\ batch' = batch - 1
    /\ UNCHANGED <<pc, edges, session, link, told, bounds>>

TickEnd ==
    /\ pc = "batch"
    /\ batch = 0 \/ inQueue = <<>>
    /\ pc' = "health"
    /\ UNCHANGED <<batch, sysex, segmented, cable, edges, session, link, inQueue, host, told, bounds,
                   stream>>

-------------------------------------------------------------------------------
(* healthTick(): a device edge abandons the message being collected, and   *)
(* then the marker tells the host.                                         *)

HealthSendsMarkerFirst(marker) == marker \o Abandoned
HealthSends(marker) == Abandoned \o marker

DeviceEdge == link # lastDev
TellOnEdge == session # 0 /\ DeviceEdge
Tell == session # 0 /\ (DeviceEdge \/ lastPeer = "no")

HealthTick ==
    /\ pc = "health"
    /\ LET marker == IF Tell THEN <<Marker(link)>> ELSE <<>>
       IN /\ IF DeviceEdge
             THEN Send(HealthSends(marker)) /\ sysex' = <<>> /\ segmented' = "no"
             ELSE Send(marker) /\ UNCHANGED <<sysex, segmented>>
          /\ told' = IF Tell THEN link ELSE told
    /\ lastDev' = link /\ lastPeer' = HasPeer
    /\ moves' = 0
    /\ pc' = "drain"
    /\ UNCHANGED <<batch, cable, tickPeer, unseen, session, link, inQueue, sessions, sessionMoves, attaches,
                   sentPackets, stream>>

-------------------------------------------------------------------------------
(* The USB client task, at any time.                                       *)

\* A packet that finds the queue full is dropped.
DeviceSends(p) ==
    /\ link = "up" /\ sentPackets < MaxPackets
    /\ sentPackets' = sentPackets + 1
    /\ inQueue' = IF Len(inQueue) < QueueLen THEN Append(inQueue, p) ELSE inQueue
    /\ UNCHANGED <<pc, batch, sysex, segmented, cable, edges, session, link, host, told, sessions,
                   sessionMoves, attaches, moves, stream>>

Attach ==
    /\ link = "down" /\ attaches < MaxAttach /\ moves < PassMoves
    /\ link' = "up" /\ attaches' = attaches + 1 /\ moves' = moves + 1
    /\ UNCHANGED <<pc, batch, sysex, segmented, cable, edges, session, inQueue, host, told, sessions,
                   sessionMoves, sentPackets, stream>>

Detach ==
    /\ link = "up" /\ moves < PassMoves
    /\ link' = "down" /\ moves' = moves + 1
    /\ UNCHANGED <<pc, batch, sysex, segmented, cable, edges, session, inQueue, host, told, sessions,
                   sessionMoves, attaches, sentPackets, stream>>

Next ==
    \/ FirstPeer \/ LastPeerGone \/ DrainEnd
    \/ TickBegin \/ TickPacket \/ TickEnd \/ HealthTick
    \/ \E p \in Packets : DeviceSends(p)
    \/ Attach \/ Detach

Spec == Init /\ [][Next]_vars

-------------------------------------------------------------------------------
(* Properties.                                                             *)

\* Every variable has its type; a segment never outgrows its buffer.
TypeOK ==
    /\ pc \in {"drain", "tick", "batch", "health"} /\ batch \in 0 .. USB_BATCH
    /\ Len(sysex) <= SYSEX_SEG /\ cable \in Cables
    /\ {segmented, tickPeer, lastPeer, unseen} \subseteq {"yes", "no"}
    /\ {link, lastDev} \subseteq {"up", "down"} /\ told \in {"none", "up", "down"}
    /\ session \in 0 .. MaxSession /\ Len(inQueue) <= QueueLen
    /\ host.faults \subseteq {"marker", "start", "rest"}

\* A SysEx the host reassembles is, byte for byte, what the bridge read of one cable
\* from an F0 to its end, however many segments it took and whatever other cables sent
\* meanwhile (75-80), also across a session the bridge did not see begin.
WholeMessages ==
    [][host'.last # host.last /\ host'.last # <<>> => host'.last = stream'[cable']]_vars

\* The host is waiting for the rest of a SysEx only while the bridge is collecting it,
\* and exactly then unless its session began unseen: a message given up is cancelled,
\* so the host is neither left waiting nor handed the truncated part (55-58).  Neither a
\* device marker nor another SysEx lands inside an open one (446-450), and the rest of a
\* message begun for an earlier session reaches only one that began unseen (161-162).
HostInStep ==
    /\ host.faults \subseteq (IF unseen = "yes" THEN {"rest"} ELSE {})
    /\ pc \in {"batch", "health"} /\ session # 0 =>
           /\ host.rx # <<>> => segmented = "yes"
           /\ segmented = "yes" /\ unseen = "no" => host.rx # <<>>

\* After healthTick the last marker a host was sent is the device's state, never an
\* older one; and it was sent one, unless its session began unseen (midi_bridge.h:33-37).
HostKnowsDevice ==
    pc = "drain" /\ sessionMoves = 0 /\ moves = 0 /\ session # 0 =>
        /\ told \in {"none", link}
        /\ unseen = "no" => told = link

\* "On a device attach/detach edge, and when the first peer connects [...], sends a
\* one-shot status marker" (midi_bridge.h:33-37): after healthTick a session's first
\* peer has been told something.
FirstPeerTold == pc = "drain" /\ sessionMoves = 0 /\ session # 0 => told # "none"
===============================================================================
