------------------------------- MODULE BridgeDown -------------------------------
(***************************************************************************)
(* The device-bound half of the bridge: the session's peer table           *)
(* (src/src/rtp_midi.cpp) and the SysEx stitching, the surface blanking    *)
(* and the device edge of src/src/midi_bridge.cpp.                         *)
(*                                                                         *)
(* A pass of the MIDI task drains the session (RtpMidi::tick() calls back  *)
(* for each message and each session event), then runs healthTick().  Each *)
(* write of a USB packet may block, so the USB tasks' attach and detach    *)
(* fall between any two writes.                                            *)
(*                                                                         *)
(* Bytes are "F0", "F7", "F4" (any other status byte) and Data.  A packet  *)
(* is the sequence of its bytes; <<"msg">> is a short message's, <<"note">> *)
(* one of blankSurface()'s.  A queued packet is taken to reach the device  *)
(* (UsbTx has that path).                                                  *)
(***************************************************************************)
EXTENDS Integers, Sequences, FiniteSets

CONSTANTS Ssrc,         \* peers' SSRCs
          MAX_PEERS,    \* participants the library keeps
          Data,         \* SysEx data bytes
          Pieces,       \* SysEx pieces the MIDI library hands over
          MaxLen,       \* bound: bytes of one SysEx
          MaxReturned,  \* bound: events counted by s_returned
          MaxAttach,    \* bound: attachments
          PassMoves,    \* bound: attaches and detaches between two healthTicks
          Drops         \* TRUE: the TX queue may be full for the 20 ms of a write

ASSUME ConstantsAssumption ==
    /\ MAX_PEERS \in Nat \ {0} /\ Drops \in BOOLEAN
    /\ {"F0", "F7", "F4", "end"} \cap Data = {}
    /\ Pieces \subseteq Seq(Data \cup {"F0", "F7", "F4"})
    /\ \A p \in Pieces : Len(p) >= 2 /\ p[1] \in {"F0", "F7"}

VARIABLES
    \* rtp_midi.cpp
    peers,     \* s_peerSsrc[0 .. s_peerCount - 1]
    \* midi_bridge.cpp
    body,      \* rtpSysEx(): the bytes left of the piece, "end" for its closing F7
    out,       \* the packets usbSend() or blankSurface() has left to write
    sxPend,    \* s_sxPend[0 .. s_sxPendLen - 1]
    sxOpen,    \* s_sxOpen: "yes" or "no"
    sxOk,      \* s_sxOk: "yes" or "no"
    returned,  \* s_returned
    lastDev,   \* s_lastDevState: "up" or "down"
    \* usb_midi_host.cpp
    link,      \* s_connected: "up" or "down"
    \* external: the AppleMIDI library and the device
    joined,    \* the sessions the library has up
    parser,    \* the SysEx the device is collecting; <<>> at a message boundary
    \* history
    attaches,  \* attachments
    moves,     \* attaches and detaches since the last healthTick
    seg,       \* RFC 6295 reassembly of the pieces: "open" between two segments
    expected,  \* ... and the bytes reassembled
    stray,     \* "yes": the device was sent SysEx data without its F0
    ended      \* "yes": the last session has ended since the latest SysEx began

vars  == <<peers, body, out, sxPend, sxOpen, sxOk, returned, lastDev, link, joined, parser,
           attaches, moves, seg, expected, stray, ended>>
table == <<peers, joined, ended>>
usb   == <<link, attaches, moves>>

Init ==
    /\ peers = <<>> /\ body = <<>> /\ out = <<>> /\ sxPend = <<>> /\ sxOpen = "no"
    /\ sxOk = "yes" /\ returned = 0 /\ lastDev = "down" /\ link = "down" /\ joined = {}
    /\ parser = <<>> /\ attaches = 0 /\ moves = 0 /\ seg = "none" /\ expected = <<>>
    /\ stray = "no" /\ ended = "no"

\* Between two callbacks of the drain.
Idle == body = <<>> /\ out = <<>>

-------------------------------------------------------------------------------
(* UsbMidi::writePacket(), and what the packet does to the device's parser. *)

Ends(p) == p[Len(p)] = "F7"
Short(p) == p \in {<<"msg">>, <<"note">>}
Continues(p) == ~Short(p) /\ p[1] # "F0"

Written(p, ok) ==
    \/ /\ link = "up" /\ ok = "yes"
       /\ parser' = IF Short(p) \/ Ends(p) \/ (Continues(p) /\ parser = <<>>) THEN <<>>
                    ELSE IF p[1] = "F0" THEN p ELSE parser \o p
       /\ stray' = IF Continues(p) /\ parser = <<>> THEN "yes" ELSE stray
    \/ /\ link = "down" \/ Drops
       /\ ok = "no"
       /\ UNCHANGED <<parser, stray>>

Both(a, b) == IF a = "yes" /\ b = "yes" THEN "yes" ELSE "no"
OkLast(a, b) == b
OkSoFar(a, b) == Both(a, b)

\* sxByte(): every third byte sends a packet.
Triple == Len(sxPend) = 2

SxByte(b) ==
    IF Triple
    THEN \E ok \in {"yes", "no"} :
            /\ Written(Append(sxPend, b), ok)
            /\ sxOk' = OkSoFar(sxOk, ok)
            /\ sxPend' = <<>>
    ELSE sxPend' = Append(sxPend, b) /\ UNCHANGED <<sxOk, parser, stray>>

\* sxEnd(): what is pending leaves with the F7.
EndPacket == Append(sxPend, "F7")

SxEnd(ok) == Written(EndPacket, ok) /\ sxPend' = <<>> /\ sxOpen' = "no"

CloseIf(open) ==
    IF open THEN \E ok \in {"yes", "no"} : SxEnd(ok) /\ sxOk' = OkSoFar(sxOk, ok)
    ELSE UNCHANGED <<sxPend, sxOpen, sxOk, parser, stray>>

-------------------------------------------------------------------------------
(* The entry points of the session's MIDI callbacks.  None looks at the     *)
(* peer table: data of an unknown SSRC, or behind its peer's BY, gets here  *)
(* too.                                                                    *)

\* What RFC 6295 puts between a segment's first byte and its closing marker.
Payload(piece) == SubSeq(piece, 2, IF piece[Len(piece)] \in {"F0", "F7"} THEN Len(piece) - 1
                                                                       ELSE Len(piece))

Reassemble(piece) ==
    IF piece[1] = "F0" THEN <<"F0">> \o Payload(piece) ELSE expected \o Payload(piece)

Malformed(piece) ==
    \E i \in 2 .. Len(piece) :
        piece[i] \notin Data /\ ~(i = Len(piece) /\ piece[i] \in {"F0", "F7"})

BodyMarkersKept(piece) == IF Ends(piece) THEN Append(Tail(piece), "end") ELSE Tail(piece)
Body(piece) ==
    CASE piece[Len(piece)] = "F7" -> Append(SubSeq(piece, 2, Len(piece) - 1), "end")
      [] piece[Len(piece)] = "F0" -> SubSeq(piece, 2, Len(piece) - 1)
      [] OTHER -> Tail(piece)

\* rtpSysEx() up to its loop.  A start while one is open closes that one; a
\* continuation with none open is ignored.
SysExBegin(piece) ==
    IF piece[1] = "F0"
    THEN /\ IF sxOpen = "yes"
            THEN \E ok \in {"yes", "no"} : Written(EndPacket, ok)
            ELSE UNCHANGED <<parser, stray>>
         /\ sxOpen' = "yes" /\ sxOk' = "yes" /\ sxPend' = <<"F0">>
         /\ body' = Body(piece)
    ELSE /\ UNCHANGED <<sxOpen, sxOk, sxPend, parser, stray>>
         /\ body' = IF sxOpen = "yes" THEN Body(piece) ELSE body

RtpSysEx(piece) ==
    /\ Idle /\ returned < MaxReturned
    /\ Len(Reassemble(piece)) < MaxLen
    /\ SysExBegin(piece)
    /\ expected' = Reassemble(piece)
    /\ seg' = IF Malformed(piece) \/ Ends(piece) \/ (piece[1] = "F7" /\ seg = "none")
              THEN "none" ELSE "open"
    /\ ended' = IF piece[1] = "F0" THEN "no" ELSE ended
    /\ UNCHANGED <<peers, joined, out, returned, lastDev, usb>>

RtpSysExByte ==
    /\ body # <<>>
    /\ LET b == Head(body)
       IN IF b \in Data
          THEN SxByte(b) /\ body' = Tail(body) /\ UNCHANGED <<sxOpen, returned>>
          ELSE \E ok \in {"yes", "no"} :
                  /\ SxEnd(ok)
                  /\ sxOk' = OkSoFar(sxOk, ok)
                  /\ returned' = IF b = "end" /\ sxOk' = "yes" THEN returned + 1 ELSE returned
                  /\ body' = <<>>
    /\ UNCHANGED <<table, out, lastDev, usb, seg, expected>>

\* usbSend(): any message but SysEx and real-time closes an open SysEx.
RtpShort ==
    /\ Idle /\ returned < MaxReturned
    /\ CloseIf(sxOpen = "yes")
    /\ out' = <<<<"msg">>>>
    /\ seg' = "none"
    /\ UNCHANGED <<table, body, returned, lastDev, usb, expected>>

\* rtpRealTime(): may sit inside a SysEx.
RtpRealTime ==
    /\ Idle /\ returned < MaxReturned
    /\ link = "up"
    /\ returned' = returned + 1
    /\ UNCHANGED <<table, body, out, sxPend, sxOpen, sxOk, lastDev, usb, parser, seg, expected,
                   stray>>

-------------------------------------------------------------------------------
(* Session events.                                                         *)

FindPeer(s) == {i \in 1 .. Len(peers) : peers[i] = s}

\* onPeerConnected(): also for a peer that re-sends its invitation.
PeersWithDuplicate(s) == Append(peers, s)
PeersWith(s) == IF FindPeer(s) # {} \/ Len(peers) = MAX_PEERS THEN peers ELSE Append(peers, s)

PeerConnected(s) ==
    /\ Idle
    /\ s \in joined \/ Cardinality(joined) < MAX_PEERS
    /\ joined' = joined \cup {s}
    /\ peers' = PeersWith(s)
    /\ UNCHANGED <<body, out, sxPend, sxOpen, sxOk, returned, lastDev, usb, parser, seg,
                   expected, stray, ended>>

\* The last entry moves into the gap.
PeersWithout(s) ==
    [j \in 1 .. Len(peers) - 1 |-> IF peers[j] = s THEN peers[Len(peers)] ELSE peers[j]]

\* The deviceConnected() check, then one SysEx and one note for the frames and notes
\* blankSurface() writes.
BlankFrames == <<<<"check">>, <<"F0", "blank", "blank">>, <<"blank", "F7">>, <<"note">>>>

\* blankSurface(): first the SysEx the session left open is closed, and only then is
\* the device looked for.
ClosedIfConnected == sxOpen = "yes" /\ link = "up"
ClosedBeforeBlank == sxOpen = "yes"

BlankSurface ==
    /\ CloseIf(ClosedBeforeBlank)
    /\ out' = BlankFrames
    /\ seg' = "none"

\* onPeerDisconnected(): also for a session that never connected.
PeerDisconnected(s) ==
    /\ Idle
    /\ joined' = joined \ {s}
    /\ ended' = IF joined = {s} THEN "yes" ELSE ended
    /\ IF FindPeer(s) = {}
       THEN UNCHANGED <<peers, out, sxPend, sxOpen, sxOk, parser, stray, seg>>
       ELSE /\ peers' = PeersWithout(s)
            /\ IF peers' = <<>>
               THEN BlankSurface
               ELSE UNCHANGED <<out, sxPend, sxOpen, sxOk, parser, stray, seg>>
    /\ UNCHANGED <<body, returned, lastDev, usb, expected>>

BlankCheck ==
    /\ out # <<>> /\ Head(out) = <<"check">>
    /\ out' = IF link = "up" THEN Tail(out) ELSE <<>>
    /\ UNCHANGED <<table, body, sxPend, sxOpen, sxOk, returned, lastDev, usb, parser, seg, expected,
                   stray>>

WriteOut ==
    /\ out # <<>> /\ Head(out) # <<"check">>
    /\ \E ok \in {"yes", "no"} :
          /\ Written(Head(out), ok)
          /\ returned' = IF Head(out) = <<"msg">> /\ ok = "yes" THEN returned + 1 ELSE returned
    /\ out' = Tail(out)
    /\ UNCHANGED <<table, body, sxPend, sxOpen, sxOk, lastDev, usb, seg, expected>>

-------------------------------------------------------------------------------
(* healthTick() and the USB client task.                                   *)

DeviceEdge == link # lastDev

HealthTick ==
    /\ Idle
    /\ IF DeviceEdge
       THEN sxOpen' = "no" /\ sxPend' = <<>> /\ seg' = "none"
       ELSE UNCHANGED <<sxOpen, sxPend, seg>>
    /\ lastDev' = link
    /\ moves' = 0
    /\ UNCHANGED <<table, body, out, sxOk, returned, link, attaches, parser, expected, stray>>

Attach ==
    /\ link = "down" /\ attaches < MaxAttach /\ moves < PassMoves
    /\ link' = "up" /\ attaches' = attaches + 1 /\ moves' = moves + 1
    /\ parser' = <<>>
    /\ UNCHANGED <<table, body, out, sxPend, sxOpen, sxOk, returned, lastDev, seg, expected, stray>>

Detach ==
    /\ link = "up" /\ moves < PassMoves
    /\ link' = "down" /\ moves' = moves + 1
    /\ parser' = <<>>
    /\ UNCHANGED <<table, body, out, sxPend, sxOpen, sxOk, returned, lastDev, attaches, seg,
                   expected, stray>>

Next ==
    \/ \E piece \in Pieces : RtpSysEx(piece)
    \/ RtpSysExByte \/ RtpShort \/ RtpRealTime
    \/ \E s \in Ssrc : PeerConnected(s) \/ PeerDisconnected(s)
    \/ BlankCheck \/ WriteOut \/ HealthTick \/ Attach \/ Detach

Spec == Init /\ [][Next]_vars

-------------------------------------------------------------------------------
(* Properties.                                                             *)

\* Every variable has its type; between two packets at most two bytes wait.
TypeOK ==
    /\ peers \in Seq(Ssrc) /\ Len(peers) <= MAX_PEERS /\ joined \subseteq Ssrc
    /\ body \in Seq(Data \cup {"F0", "F7", "F4", "end"})
    /\ sxPend \in Seq(Data \cup {"F0"}) /\ Len(sxPend) <= 2
    /\ {sxOpen, sxOk, stray, ended} \subseteq {"yes", "no"} /\ {link, lastDev} \subseteq {"up", "down"}
    /\ returned \in 0 .. MaxReturned /\ attaches \in 0 .. MaxAttach /\ moves \in 0 .. PassMoves
    /\ seg \in {"none", "open"}

\* The peer table holds each session the library has up exactly once, however
\* often the library repeats or invents its callbacks (rtp_midi.cpp:90-98).
PeersAgree ==
    /\ {peers[i] : i \in 1 .. Len(peers)} = joined
    /\ \A i, j \in 1 .. Len(peers) : peers[i] = peers[j] => i = j

\* The device has the whole of the message but what is pending and rest; a short
\* message may be pending as a whole.
Got(rest) == expected \in {parser \o sxPend \o rest, sxPend \o rest}

\* Between the segments of one SysEx the message toward the device stays open, and
\* unless a packet was refused the device has, with what is pending and what is left
\* of the piece, exactly the message's bytes, markers removed (midi_bridge.cpp:279-292).
Stitched ==
    seg = "open" =>
        /\ sxOpen = "yes"
        /\ link = "up" /\ sxOk = "yes" => Got(body)

\* A SysEx is counted as returned only when every byte of it was queued for the one
\* device that was attached all along, and then its F7 (293-296, 391-396).
CountedWhole ==
    [][returned' # returned /\ body # <<>>
           => link = "up" /\ Got(<<>>) /\ parser' = <<>>]_vars

\* A SysEx does not outlive the session it began in: one that is open began after the
\* library's last session ended, so nothing of an earlier session can meet the next
\* one's messages, whether a device is attached or not (538-542); and bytes wait only
\* for a SysEx that is open.
SessionEndsClosed ==
    /\ sxOpen = "yes" => ended = "no"
    /\ sxOpen = "no" => sxPend = <<>>

\* "A device that comes or goes mid-SysEx must not have the rest of that message
\* delivered to whatever is attached next" (446-448): the device is never sent the
\* tail of a SysEx it did not get the start of.
TailNotToNextDevice == stray = "no"
===============================================================================
