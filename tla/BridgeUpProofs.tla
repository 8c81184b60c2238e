----------------------------- MODULE BridgeUpProofs -----------------------------
(***************************************************************************)
(* Proofs about the host-bound half of the bridge, for any device, cables, *)
(* segment, batch and sessions: what a session reassembles is what the     *)
(* bridge read of one cable, the host waits for the rest of a message      *)
(* exactly while the bridge collects it, and it is told of the device.  A  *)
(* session that replaces another within one drain is no edge for tick():   *)
(* its host may get the rest of a message it has no start of, and leaves   *)
(* it out.                                                                 *)
(***************************************************************************)
EXTENDS BridgeUp, SequenceTheorems, TLAPS

Sent == UNION {{p.bytes[i] : i \in DOMAIN p.bytes} : p \in Packets}
Byte == Sent \cup {"F0", "F7", "F4", "up", "down"}

\* The status byte a message begins with here: a later segment's is the F7 marker.
First(seg) == IF seg = "yes" THEN "F7" ELSE "F0"

\* What the host has of the message already, or what it puts before the rest.
Prefix(h, seg) == IF seg = "yes" THEN h.rx ELSE <<"F0">>

\* What the host has of the message so far and what is collected of it after it.
Whole(h, seg, all) == Prefix(h, seg) \o Tail(all)

\* The host h, which has met the faults f, waits for the rest of a message iff a segment
\* has been sent.
Waits(h, f, seg) == h.faults = f /\ h.rx \in Seq(Byte) /\ (h.rx # <<>> <=> seg = "yes")

\* Segments were sent, but to the session before h's.
Lost(h, seg) == seg = "yes" /\ h.rx = <<>>

Types ==
    /\ pc \in {"drain", "tick", "batch", "health"} /\ batch \in 0 .. USB_BATCH
    /\ sysex \in Seq(Byte) /\ segmented \in {"yes", "no"} /\ cable \in Cables
    /\ tickPeer \in {"yes", "no"} /\ lastPeer \in {"yes", "no"}
    /\ link \in {"up", "down"} /\ lastDev \in {"up", "down"} /\ unseen \in {"yes", "no"}
    /\ session \in Nat /\ sessions \in Nat /\ sessionMoves \in Nat /\ moves \in Nat
    /\ inQueue \in Seq(Packets) /\ stream \in [Cables -> Seq(Byte)]

\* What each of the two looks at the peers knows.
Edges ==
    /\ pc \in {"batch", "health"} => tickPeer = HasPeer
    /\ pc \in {"drain", "tick"} => lastPeer = tickPeer
    /\ pc = "drain" /\ sessionMoves = 0 => tickPeer = HasPeer

\* Without a peer nothing is collected; a session's first pass sends no segment, which
\* is what lets its marker go out unasked.
Collecting ==
    /\ tickPeer = "no" => sysex = <<>> /\ segmented = "no"
    /\ sysex # <<>> => sysex[1] = First(segmented)
    /\ session # 0 /\ lastPeer = "no" /\ pc \in {"batch", "health"} => segmented = "no"
    /\ session # 0 /\ lastPeer = "no" /\ pc = "batch" => Len(sysex) <= 3 * (USB_BATCH - batch)

InStep ==
    /\ host.faults \in {{}, {"rest"}} /\ host.rx \in Seq(Byte)
    /\ unseen = "no" => host.faults = {}
    /\ session # 0 => \/ Waits(host, host.faults, segmented)
                      \/ unseen = "yes" /\ Lost(host, segmented)

\* What is collected continues what the host has to what was read of the cable.
Streams ==
    /\ sysex # <<>> => Last(stream[cable]) # "F7" /\ stream[cable] # <<>>
    /\ sysex # <<>> /\ ~Lost(host, segmented) => stream[cable] = Whole(host, segmented, sysex)

Told ==
    /\ lastPeer = "yes" /\ session # 0 => told = lastDev \/ (unseen = "yes" /\ told = "none")
    /\ moves = 0 => link = lastDev

IInv == Types /\ Edges /\ Collecting /\ InStep /\ Streams /\ Told

-------------------------------------------------------------------------------
(* Sequences, packets and constants.                                       *)

LEMMA Constants ==
    /\ SYSEX_SEG \in Nat /\ USB_BATCH \in Nat /\ USB_BATCH > 0
    /\ SYSEX_SEG > 3 * USB_BATCH /\ SYSEX_SEG > 4
BY ConstantsAssumption

LEMMA PacketFacts ==
    ASSUME NEW p \in Packets
    PROVE  /\ p.bytes \in Seq(Byte) /\ Len(p.bytes) \in 1 .. 3
           /\ ~p.ends => p.bytes[Len(p.bytes)] # "F7"
           /\ ~p.ends /\ Len(p.bytes) < 3 => p.bytes[1] \notin {"F0", "F7"}
           /\ p.cable \in Cables
<1>1. {p.bytes[i] : i \in DOMAIN p.bytes} \subseteq Byte
  BY DEF Byte, Sent
<1>2. p.bytes \in Seq(Byte)
  BY <1>1, ConstantsAssumption, SeqMonotonic
<1> QED BY <1>2, ConstantsAssumption DEF Cables

\* A message of a packet's bytes; an end packet's last byte is the F7.
LEMMA BytesFacts ==
    ASSUME NEW p \in Packets
    PROVE  /\ Bytes(p) \in Seq(Byte) /\ Len(Bytes(p)) \in 1 .. 4
           /\ Bytes(p)[1] = p.bytes[1]
           /\ ~p.ends => Bytes(p) = p.bytes
           /\ p.ends <=> Bytes(p)[Len(Bytes(p))] = "F7"
           /\ p.ends /\ p.bytes[1] = "F0" => Len(Bytes(p)) >= 2
<1>1. /\ p.bytes \in Seq(Byte) /\ Len(p.bytes) \in 1 .. 3
      /\ ~p.ends => p.bytes[Len(p.bytes)] # "F7"
  BY PacketFacts
<1>2. CASE p.ends /\ p.bytes[Len(p.bytes)] # "F7"
  <2>1. Bytes(p) = Append(p.bytes, "F7")
    BY <1>2 DEF Bytes, Last
  <2>2. "F7" \in Byte
    BY DEF Byte
  <2>3. PICK b, q : b = p.bytes /\ q = Bytes(p)
    OBVIOUS
  <2>4. /\ q \in Seq(Byte) /\ Len(q) = Len(b) + 1 /\ q[1] = b[1] /\ q[Len(b) + 1] = "F7"
        /\ Len(b) \in 1 .. 3
    BY <1>1, <2>1, <2>2, <2>3
  <2>5. PICK n, k : n = Len(b) /\ k = Len(q)
    OBVIOUS
  <2>7. n \in 1 .. 3 /\ k = n + 1 /\ q[n + 1] = "F7"
    BY <2>4, <2>5
  <2>8. k \in 1 .. 4 /\ k >= 2 /\ q[k] = "F7"
    BY <2>7
  <2>6. p.ends
    BY <1>2
  <2> QED BY <2>3, <2>4, <2>5, <2>6, <2>8
<1>3. CASE p.ends /\ p.bytes[Len(p.bytes)] = "F7"
  <2>1. Bytes(p) = p.bytes
    BY <1>3 DEF Bytes, Last
  <2>2. p.bytes[1] = "F0" => Len(p.bytes) # 1
    BY <1>3
  <2> QED BY <1>1, <1>3, <2>1, <2>2
<1>4. CASE ~p.ends
  <2>1. Bytes(p) = p.bytes
    BY <1>4 DEF Bytes
  <2> QED BY <1>1, <1>4, <2>1
<1> QED BY <1>2, <1>3, <1>4

LEMMA ReceiveOne ==
    ASSUME NEW h, NEW a, NEW b
    PROVE  /\ ReceiveAll(h, <<>>) = h
           /\ ReceiveAll(h, <<a>>) = Receive(h, a)
           /\ ReceiveAll(h, <<a, b>>) = Receive(Receive(h, a), b)
BY DEF ReceiveAll

-------------------------------------------------------------------------------
(* The receiver.                                                           *)

LEMMA MarkerReceived ==
    ASSUME NEW h, NEW met, Waits(h, met, "no"), NEW dev \in {"up", "down"}
    PROVE  Waits(Receive(h, Marker(dev)), met, "no") /\ Receive(h, Marker(dev)).last = h.last
<1>1. PICK m : m = Marker(dev)
  OBVIOUS
<1>2. m \in {Marker("up"), Marker("down")}
  BY <1>1
<1>3. Kind(m) = "marker"
  BY <1>2 DEF Kind
<1>4. h.rx = <<>> /\ h.faults = met
  BY DEF Waits
<1>5. Fault(h, m) = {}
  BY <1>3, <1>4 DEF Fault
<1>6. Receive(h, m) = [rx |-> h.rx, last |-> h.last, faults |-> h.faults \cup Fault(h, m)]
  BY <1>3 DEF Receive, Takes
<1>7. Receive(h, m).rx = h.rx /\ Receive(h, m).last = h.last /\ Receive(h, m).faults = met
  BY <1>4, <1>5, <1>6
<1> QED BY <1>1, <1>4, <1>7 DEF Waits

LEMMA CancelReceived ==
    ASSUME NEW h, NEW met, Waits(h, met, "yes")
    PROVE  Waits(Receive(h, Cancel), met, "no") /\ Receive(h, Cancel).last = h.last
<1>1. Kind(Cancel) = "rest"
  BY DEF Kind, Cancel, Marker
<1>2. Last(Cancel) = "F4"
  BY DEF Last, Cancel
<1>3. h.rx # <<>> /\ h.faults = met
  BY DEF Waits
<1>4. Fault(h, Cancel) = {}
  BY <1>1, <1>3 DEF Fault
<1>5. Receive(h, Cancel) = [rx |-> <<>>, last |-> h.last, faults |-> h.faults \cup Fault(h, Cancel)]
  BY <1>1, <1>2, <1>3 DEF Receive, Takes
<1>6. /\ Receive(h, Cancel).rx = <<>> /\ Receive(h, Cancel).last = h.last
      /\ Receive(h, Cancel).faults = met
  BY <1>3, <1>4, <1>5
<1>7. <<>> \in Seq(Byte)
  OBVIOUS
<1> QED BY <1>6, <1>7 DEF Waits

LEMMA ShortReceived ==
    ASSUME NEW h, NEW m, m[1] \notin {"F0", "F7"}
    PROVE  /\ Receive(h, m).rx = h.rx /\ Receive(h, m).last = h.last
           /\ Receive(h, m).faults = h.faults
<1>1. Kind(m) = "short"
  <2>1. Marker("up")[1] = "F0" /\ Marker("down")[1] = "F0"
    BY DEF Marker
  <2> QED BY <2>1 DEF Kind
<1>2. Fault(h, m) = {}
  BY <1>1 DEF Fault
<1>3. Receive(h, m) = [rx |-> h.rx, last |-> h.last, faults |-> h.faults \cup Fault(h, m)]
  BY <1>1 DEF Receive, Takes
<1> QED BY <1>2, <1>3

\* Of a message it has no start of, a host leaves out every rest, also a cancel.
LEMMA RestLeftOut ==
    ASSUME NEW h, h.rx = <<>>, h.faults \in {{}, {"rest"}}, NEW m, m[1] = "F7"
    PROVE  /\ Receive(h, m).rx = <<>> /\ Receive(h, m).last = h.last
           /\ Receive(h, m).faults \in {{}, {"rest"}}
<1>1. Kind(m) = "rest"
  <2>1. Marker("up")[1] = "F0" /\ Marker("down")[1] = "F0"
    BY DEF Marker
  <2> QED BY <2>1 DEF Kind
<1>2. Receive(h, m) = [rx |-> h.rx, last |-> h.last, faults |-> h.faults \cup Fault(h, m)]
  BY <1>1 DEF Receive, Takes
<1>3. Fault(h, m) = {"rest"}
  BY <1>1 DEF Fault
<1>4. h.faults \cup {"rest"} = {"rest"}
  OBVIOUS
<1> QED BY <1>2, <1>3, <1>4

\* A segment that is not the last.
LEMMA SegmentReceived ==
    ASSUME NEW h, NEW met, NEW seg \in {"yes", "no"}, Waits(h, met, seg),
           NEW x \in Seq(Byte), Len(x) >= 1, x[1] = First(seg)
    PROVE  /\ Waits(Receive(h, Append(x, "F0")), met, "yes")
           /\ Receive(h, Append(x, "F0")).last = h.last
           /\ Receive(h, Append(x, "F0")).rx = Prefix(h, seg) \o Tail(x)
<1>1. PICK m : m = Append(x, "F0")
  OBVIOUS
<1>2. "F0" \in Byte /\ <<"F0">> \in Seq(Byte)
  BY DEF Byte
<1>3. /\ m \in Seq(Byte) /\ Len(m) = Len(x) + 1 /\ m[1] = x[1] /\ m[Len(x) + 1] = "F0"
      /\ Len(x) \in Nat
  BY <1>1, <1>2
<1>4. Last(m) = "F0"
  BY <1>3 DEF Last
<1>5. Kind(m) = IF seg = "yes" THEN "rest" ELSE "start"
  <2>1. m \notin {Marker("up"), Marker("down")}
    <3>1. Last(Marker("up")) = "F7" /\ Last(Marker("down")) = "F7"
      BY DEF Marker, Last
    <3> QED BY <1>4, <3>1
  <2> QED BY <1>3, <2>1 DEF Kind, First
<1>6. SubSeq(m, 2, Len(m) - 1) = Tail(x)
  <2>1. SubSeq(m, 2, Len(m) - 1) = SubSeq(x, 2, Len(x))
    BY <1>1, <1>3
  <2> QED BY <2>1
<1>7. Tail(x) \in Seq(Byte)
  BY <1>3
<1>8. Prefix(h, seg) \in Seq(Byte) /\ Prefix(h, seg) # <<>>
  BY <1>2 DEF Prefix, Waits
<1>9. Prefix(h, seg) \o Tail(x) \in Seq(Byte) /\ Prefix(h, seg) \o Tail(x) # <<>>
  BY <1>7, <1>8, ConcatProperties, ConcatEqualIffEmpty
<1>10. (IF m[1] = "F0" THEN <<"F0">> ELSE h.rx) = Prefix(h, seg)
  BY <1>3 DEF First, Prefix
<1>11. Receive(h, m) = [rx |-> Prefix(h, seg) \o Tail(x), last |-> h.last,
                        faults |-> h.faults \cup Fault(h, m)]
  <2>1. Takes(h, m)
    BY <1>5 DEF Takes, Waits
  <2> QED BY <1>4, <1>6, <1>10, <2>1 DEF Receive
<1>12. Fault(h, m) = {}
  BY <1>5 DEF Fault, Waits
<1>13. PICK r : r = Receive(h, m)
  OBVIOUS
<1>14. r.rx = Prefix(h, seg) \o Tail(x) /\ r.last = h.last /\ r.faults = met
  BY <1>11, <1>12, <1>13 DEF Waits
<1> QED BY <1>1, <1>9, <1>13, <1>14 DEF Waits

\* Three sequences, one behind the other, however they are grouped.
LEMMA Regrouped ==
    ASSUME NEW S
    PROVE  \A s, t, u \in Seq(S) : (s \o t) \o u = s \o (t \o u)
<1> SUFFICES ASSUME NEW s \in Seq(S), NEW t \in Seq(S), NEW u \in Seq(S)
             PROVE  (s \o t) \o u = s \o (t \o u)
  OBVIOUS
<1> QED BY ConcatAssociative

\* What is left of a message after its first byte, put together from its middle and its
\* last byte.
LEMMA MiddleAndLast ==
    ASSUME NEW S, NEW p \in Seq(S), NEW m \in Seq(S), Len(m) >= 2
    PROVE  /\ SubSeq(m, 2, Len(m) - 1) \in Seq(S)
           /\ (p \o SubSeq(m, 2, Len(m) - 1)) \o <<m[Len(m)]>> = p \o Tail(m)
<1>1. Len(m) \in Nat /\ 2 \in 1 .. Len(m) /\ Len(m) \in 2 .. Len(m) /\ Len(m) \in 1 .. Len(m)
  OBVIOUS
<1>2. PICK w : w = SubSeq(m, 2, Len(m) - 1)
  OBVIOUS
<1>3. PICK z : z = <<m[Len(m)]>>
  OBVIOUS
<1>4. m[Len(m)] \in S
  BY <1>1, ElementOfSeq
<1>5. w \in Seq(S) /\ z \in Seq(S)
  BY <1>1, <1>2, <1>3, <1>4
<1>6. SubSeq(m, 2, Len(m)) = w \o z
  BY <1>1, <1>2, <1>3, SubSeqRecursiveSecond
<1>7. Tail(m) = SubSeq(m, 2, Len(m))
  OBVIOUS
<1>8. Tail(m) = w \o z
  BY <1>6, <1>7
<1>9. (p \o w) \o z = p \o (w \o z)
  BY <1>5, Regrouped, SMTT(40)
<1> QED BY <1>2, <1>3, <1>5, <1>8, <1>9

\* The last segment, or a whole message.
LEMMA EndReceived ==
    ASSUME NEW h, NEW met, NEW seg \in {"yes", "no"}, Waits(h, met, seg),
           NEW m \in Seq(Byte), Len(m) >= 2, m[1] = First(seg), m[Len(m)] = "F7"
    PROVE  /\ Waits(Receive(h, m), met, "no")
           /\ Receive(h, m).last \in {h.last, Prefix(h, seg) \o Tail(m)}
<1>1. Last(m) = "F7" /\ Len(m) \in Nat
  BY DEF Last
<1>2. <<"F7">> \in Seq(Byte) /\ <<"F0">> \in Seq(Byte) /\ <<>> \in Seq(Byte)
  BY DEF Byte
<1>3. CASE Kind(m) = "marker"
  <2>1. m[1] = "F0"
    BY <1>3 DEF Kind, Marker
  <2>2. h.rx = <<>> /\ h.faults = met
    BY <2>1 DEF First, Waits
  <2>3. Fault(h, m) = {}
    BY <1>3, <2>2 DEF Fault
  <2>4. Receive(h, m) = [rx |-> h.rx, last |-> h.last, faults |-> h.faults \cup Fault(h, m)]
    BY <1>3 DEF Receive, Takes
  <2>5. PICK r : r = Receive(h, m)
    OBVIOUS
  <2>6. r.rx = <<>> /\ r.last = h.last /\ r.faults = met
    BY <2>2, <2>3, <2>4, <2>5
  <2> QED BY <1>2, <2>5, <2>6 DEF Waits
<1>4. CASE Kind(m) # "marker"
  <2>1. Kind(m) = IF seg = "yes" THEN "rest" ELSE "start"
    BY <1>4 DEF Kind, First
  <2>2. Fault(h, m) = {}
    BY <2>1 DEF Fault, Waits
  <2>3. (IF m[1] = "F0" THEN <<"F0">> ELSE h.rx) = Prefix(h, seg)
    BY DEF First, Prefix
  <2>4. Prefix(h, seg) \in Seq(Byte)
    BY <1>2 DEF Prefix, Waits
  <2>5. PICK w : w = SubSeq(m, 2, Len(m) - 1)
    OBVIOUS
  <2>6. m[Len(m)] = "F7"
    OBVIOUS
  <2>7. (Prefix(h, seg) \o w) \o <<"F7">> = Prefix(h, seg) \o Tail(m)
    <3>1. PICK p : p = Prefix(h, seg)
      OBVIOUS
    <3>2. p \in Seq(Byte)
      BY <2>4, <3>1
    <3>3. (p \o w) \o <<m[Len(m)]>> = p \o Tail(m)
      BY <2>5, <3>2, MiddleAndLast
    <3> QED BY <2>6, <3>1, <3>3
  <2>8. Receive(h, m) = [rx |-> <<>>, last |-> (Prefix(h, seg) \o w) \o <<"F7">>,
                         faults |-> h.faults \cup Fault(h, m)]
    <3>1. Takes(h, m)
      BY <2>1 DEF Takes, Waits
    <3> QED BY <1>1, <2>3, <2>5, <3>1 DEF Receive
  <2>9. PICK r : r = Receive(h, m)
    OBVIOUS
  <2>10. h.faults = met
    BY DEF Waits
  <2>11. r.rx = <<>> /\ r.last = Prefix(h, seg) \o Tail(m) /\ r.faults = met
    <3>1. r = [rx |-> <<>>, last |-> Prefix(h, seg) \o Tail(m), faults |-> met]
      BY <2>2, <2>7, <2>8, <2>9, <2>10
    <3> QED BY <3>1
  <2> QED BY <1>2, <2>9, <2>11 DEF Waits
<1> QED BY <1>3, <1>4

\* A full segment: what the host has then, and what is left, are what there was.
Kept(all) == <<"F7">> \o SubSeq(all, SYSEX_SEG + 1, Len(all))
Segment(all) == Append(SubSeq(all, 1, SYSEX_SEG), "F0")

\* What the cut leaves the host g with, and what stays collected.
CutOf(g, h, met, seg, all) ==
    /\ Waits(g, met, "yes") /\ g.last = h.last
    /\ Kept(all) \in Seq(Byte) /\ Len(Kept(all)) >= 2 /\ Kept(all)[1] = "F7"
    /\ Kept(all)[Len(Kept(all))] = all[Len(all)]
    /\ g.rx \o Tail(Kept(all)) = Prefix(h, seg) \o Tail(all)

LEMMA SegmentCut ==
    ASSUME NEW h, NEW met, NEW seg \in {"yes", "no"}, Waits(h, met, seg),
           NEW all \in Seq(Byte), all[1] = First(seg), Full(all)
    PROVE  CutOf(Receive(h, Segment(all)), h, met, seg, all)
<1>1. PICK n, k : n = Len(all) /\ k = SYSEX_SEG
  OBVIOUS
<1>2. n \in Nat /\ k \in Nat /\ k > 4 /\ n > k
  BY <1>1, Constants DEF Full
<1>3. PICK x, y : x = SubSeq(all, 1, k) /\ y = SubSeq(all, k + 1, n)
  OBVIOUS
<1>4. /\ x \in Seq(Byte) /\ Len(x) = k /\ x[1] = all[1]
  BY <1>1, <1>2, <1>3
<1>5. /\ y \in Seq(Byte) /\ Len(y) = n - k /\ y[n - k] = all[n]
  BY <1>1, <1>2, <1>3
<1>6. PICK t : t = Tail(x)
  OBVIOUS
<1>7. PICK a : a = Tail(all)
  OBVIOUS
<1>8. t \in Seq(Byte) /\ t \o y = a
  <2>1. t = SubSeq(all, 2, k)
    BY <1>1, <1>2, <1>3, <1>4, <1>6
  <2>2. a = SubSeq(all, 2, n)
    BY <1>1, <1>2, <1>7
  <2>3. 2 \in 1 .. Len(all) + 1 /\ k \in 2 - 1 .. Len(all) /\ n \in k .. Len(all)
    BY <1>1, <1>2
  <2>4. SubSeq(all, 2, k) \o SubSeq(all, k + 1, n) = SubSeq(all, 2, n)
    BY <2>3, ConcatAdjacentSubSeq
  <2>5. x # <<>>
    BY <1>2, <1>4
  <2>6. t \in Seq(Byte)
    BY <1>4, <1>6, <2>5, HeadTailProperties
  <2> QED BY <1>3, <2>1, <2>2, <2>4, <2>6
<1>9. PICK s : s = Segment(all)
  OBVIOUS
<1>10. s = Append(x, "F0")
  BY <1>1, <1>3, <1>9 DEF Segment
<1>11. PICK h2 : h2 = Receive(h, s)
  OBVIOUS
<1>12. Waits(h2, met, "yes") /\ h2.last = h.last /\ h2.rx = Prefix(h, seg) \o t
  <2>1. Len(x) >= 1 /\ x[1] = First(seg)
    BY <1>2, <1>4
  <2>2. /\ Waits(Receive(h, Append(x, "F0")), met, "yes")
        /\ Receive(h, Append(x, "F0")).last = h.last
        /\ Receive(h, Append(x, "F0")).rx = Prefix(h, seg) \o Tail(x)
    BY <1>4, <2>1, SegmentReceived
  <2> QED BY <1>6, <1>10, <1>11, <2>2
<1>13. PICK r, f : r = Kept(all) /\ f = <<"F7">>
  OBVIOUS
<1>14. f \in Seq(Byte) /\ Len(f) = 1 /\ f[1] = "F7"
  BY <1>13 DEF Byte
<1>15. r = f \o y
  BY <1>1, <1>3, <1>13 DEF Kept
<1>16. /\ r \in Seq(Byte) /\ Len(r) = 1 + (n - k) /\ r[1] = "F7" /\ r[1 + (n - k)] = y[n - k]
  <2>1. /\ f \o y \in Seq(Byte) /\ Len(f \o y) = Len(f) + Len(y)
        /\ \A i \in 1 .. Len(f) + Len(y) : (f \o y)[i] = IF i <= Len(f) THEN f[i] ELSE y[i - Len(f)]
    BY <1>5, <1>14, ConcatProperties
  <2>2. \A i \in 1 .. 1 + (n - k) : r[i] = IF i <= 1 THEN f[i] ELSE y[i - 1]
    BY <1>5, <1>14, <1>15, <2>1
  <2>3. 1 \in 1 .. 1 + (n - k) /\ 1 + (n - k) \in 1 .. 1 + (n - k) /\ ~(1 + (n - k) <= 1)
    BY <1>2
  <2>4. (1 + (n - k)) - 1 = n - k
    BY <1>2
  <2>5. r[1] = f[1] /\ r[1 + (n - k)] = y[n - k]
    BY <2>2, <2>3, <2>4
  <2> QED BY <1>5, <1>14, <1>15, <2>1, <2>5
<1>17. Tail(r) = y
  <2>1. r # <<>>
    BY <1>2, <1>16
  <2>2. /\ Tail(r) \in Seq(Byte) /\ Len(Tail(r)) = Len(r) - 1
        /\ \A i \in 1 .. Len(Tail(r)) : Tail(r)[i] = r[i + 1]
    BY <1>16, <2>1, HeadTailProperties
  <2>3. Len(Tail(r)) = n - k
    BY <1>2, <1>16, <2>2
  <2>4. /\ \A i \in 1 .. Len(f) + Len(y) : (f \o y)[i] = IF i <= Len(f) THEN f[i] ELSE y[i - Len(f)]
    BY <1>5, <1>14, ConcatProperties
  <2>5. \A i \in 1 .. 1 + (n - k) : r[i] = IF i <= 1 THEN f[i] ELSE y[i - 1]
    BY <1>5, <1>14, <1>15, <2>4
  <2>6. \A i \in 1 .. n - k : r[i + 1] = y[i]
    <3>1. TAKE i \in 1 .. n - k
    <3>2. i + 1 \in 1 .. 1 + (n - k) /\ ~(i + 1 <= 1) /\ (i + 1) - 1 = i
      BY <1>2
    <3> QED BY <2>5, <3>2
  <2>7. \A i \in 1 .. Len(Tail(r)) : Tail(r)[i] = y[i]
    BY <2>2, <2>3, <2>6
  <2> QED BY <1>5, <2>2, <2>3, <2>7, SeqEqual
<1>18. PICK u : u = Prefix(h, seg)
  OBVIOUS
<1>19. u \in Seq(Byte)
  <2>1. <<"F0">> \in Seq(Byte)
    BY DEF Byte
  <2> QED BY <1>18, <2>1 DEF Prefix, Waits
<1>20. (u \o t) \o y = u \o (t \o y)
  <2>1. u \in Seq(Byte) /\ t \in Seq(Byte) /\ y \in Seq(Byte)
    BY <1>5, <1>8, <1>19
  <2> QED BY <2>1, ConcatAssociative
<1>21. h2.rx \o Tail(r) = Prefix(h, seg) \o Tail(all)
  BY <1>7, <1>8, <1>12, <1>17, <1>18, <1>20
<1>22. Len(r) >= 2 /\ r[Len(r)] = all[n]
  BY <1>2, <1>5, <1>16
<1> QED BY <1>1, <1>9, <1>11, <1>12, <1>13, <1>16, <1>21, <1>22 DEF CutOf

-------------------------------------------------------------------------------
(* A packet of the message being collected.                                *)

\* What is collected and sent with a packet that ends the message: the host has all of it.
LEMMA CollectedEnd ==
    ASSUME NEW h, NEW met, NEW seg \in {"yes", "no"}, Waits(h, met, seg),
           NEW all \in Seq(Byte), all[1] = First(seg), Len(all) >= 2, all[Len(all)] = "F7"
    PROVE  /\ Full(all) => LET h2 == Receive(Receive(h, Segment(all)), Kept(all))
                           IN Waits(h2, met, "no") /\ h2.last \in {h.last, Whole(h, seg, all)}
           /\ ~Full(all) => LET h2 == Receive(h, all)
                            IN Waits(h2, met, "no") /\ h2.last \in {h.last, Whole(h, seg, all)}
<1>1. CASE ~Full(all)
  BY <1>1, EndReceived DEF Whole
<1>2. CASE Full(all)
  <2>1. PICK g, r : g = Receive(h, Segment(all)) /\ r = Kept(all)
    OBVIOUS
  <2>2. /\ Waits(g, met, "yes") /\ g.last = h.last
        /\ r \in Seq(Byte) /\ Len(r) >= 2 /\ r[1] = "F7" /\ r[Len(r)] = all[Len(all)]
        /\ g.rx \o Tail(r) = Prefix(h, seg) \o Tail(all)
    <3>1. CutOf(Receive(h, Segment(all)), h, met, seg, all)
      BY <1>2, SegmentCut
    <3> QED BY <2>1, <3>1 DEF CutOf
  <2>3. r[1] = First("yes") /\ r[Len(r)] = "F7"
    BY <2>2 DEF First
  <2>4. Waits(Receive(g, r), met, "no") /\ Receive(g, r).last \in {g.last, Prefix(g, "yes") \o Tail(r)}
    BY <2>2, <2>3, EndReceived
  <2>5. Prefix(g, "yes") = g.rx
    BY DEF Prefix
  <2> QED BY <1>2, <2>1, <2>2, <2>4, <2>5 DEF Whole
<1> QED BY <1>1, <1>2

\* What Collect sends, received.
LEMMA SentReceived ==
    ASSUME NEW h, NEW a, NEW b
    PROVE  /\ ReceiveAll(h, <<>> \o <<>> \o <<>>) = h
           /\ ReceiveAll(h, <<>> \o <<a>> \o <<>>) = Receive(h, a)
           /\ ReceiveAll(h, <<>> \o <<>> \o <<a>>) = Receive(h, a)
           /\ ReceiveAll(h, <<a>> \o <<>> \o <<>>) = Receive(h, a)
           /\ ReceiveAll(h, <<>> \o <<a>> \o <<b>>) = Receive(Receive(h, a), b)
           /\ ReceiveAll(h, <<a>> \o <<>> \o <<b>>) = Receive(Receive(h, a), b)
<1>1. PICK u, v, e : u = <<a>> /\ v = <<b>> /\ e = <<>>
  OBVIOUS
<1>2. u \in Seq({a, b}) /\ v \in Seq({a, b}) /\ <<>> \in Seq({a, b})
  BY <1>1
<1>3. e \o e = e /\ e \o u = u /\ u \o e = u
  BY <1>1, <1>2, ConcatEmptySeq
<1>4. u \o v = <<a, b>>
  <2>1. PICK w : w = <<a, b>>
    OBVIOUS
  <2>2. w \in Seq({a, b}) /\ Len(w) = 2 /\ w[1] = a /\ w[2] = b
    BY <2>1
  <2>3. Len(u) = 1 /\ Len(v) = 1 /\ u[1] = a /\ v[1] = b
    BY <1>1
  <2>4. /\ u \o v \in Seq({a, b}) /\ Len(u \o v) = Len(u) + Len(v)
        /\ \A i \in 1 .. Len(u) + Len(v) : (u \o v)[i] = IF i <= Len(u) THEN u[i] ELSE v[i - Len(u)]
    BY <1>2, ConcatProperties
  <2>5. (u \o v)[1] = a /\ (u \o v)[2] = b
    BY <2>3, <2>4
  <2>6. PICK c : c = u \o v
    OBVIOUS
  <2>7. c \in Seq({a, b}) /\ Len(c) = Len(w) /\ \A i \in 1 .. Len(c) : c[i] = w[i]
    BY <2>2, <2>3, <2>4, <2>5, <2>6
  <2>8. c = w
    BY <2>2, <2>7, SeqEqual
  <2> QED BY <2>1, <2>6, <2>8
<1>5. /\ e \o e \o e = e /\ e \o u \o e = u /\ e \o e \o u = u
      /\ u \o e \o e = u /\ e \o u \o v = <<a, b>> /\ u \o e \o v = <<a, b>>
  <2>1. (e \o e) \o e = e /\ (e \o e) \o u = u /\ (e \o u) \o e = u /\ (u \o e) \o e = u
    BY <1>3
  <2>2. (e \o u) \o v = <<a, b>>
    BY <1>3, <1>4
  <2>3. (u \o e) \o v = <<a, b>>
    BY <1>3, <1>4
  <2> QED BY <2>1, <2>2, <2>3
<1>6. /\ ReceiveAll(h, e) = h /\ ReceiveAll(h, u) = Receive(h, a)
      /\ ReceiveAll(h, <<a, b>>) = Receive(Receive(h, a), b)
  BY <1>1, ReceiveOne
<1>7. /\ ReceiveAll(h, e \o e \o e) = h /\ ReceiveAll(h, e \o u \o e) = Receive(h, a)
      /\ ReceiveAll(h, e \o e \o u) = Receive(h, a) /\ ReceiveAll(h, u \o e \o e) = Receive(h, a)
      /\ ReceiveAll(h, e \o u \o v) = Receive(Receive(h, a), b)
      /\ ReceiveAll(h, u \o e \o v) = Receive(Receive(h, a), b)
  BY <1>5, <1>6
<1> QED BY <1>1, <1>7, Zenon

\* The packet p makes w of the message being collected.
Collects(p, met, w) ==
    /\ sysex' \in Seq(Byte) /\ segmented' \in {"yes", "no"} /\ Waits(host', met, segmented')
    /\ p.ends => sysex' = <<>> /\ segmented' = "no" /\ host'.last \in {host.last, w}
    /\ ~p.ends => /\ host'.last = host.last
                  /\ sysex' # <<>> /\ sysex'[1] = First(segmented')
                  /\ Whole(host', segmented', sysex') = w

LEMMA Continues ==
    ASSUME session # 0, NEW p \in Packets, segmented \in {"yes", "no"},
           NEW met, Waits(host, met, segmented),
           sysex \in Seq(Byte), sysex # <<>>, sysex[1] = First(segmented),
           Collect(sysex, segmented, p, <<>>)
    PROVE  Collects(p, met, Whole(host, segmented, sysex \o Bytes(p)))
<1>1. PICK all, b : all = sysex \o Bytes(p) /\ b = Bytes(p)
  OBVIOUS
<1>2. b \in Seq(Byte) /\ Len(b) \in 1 .. 4 /\ (p.ends <=> b[Len(b)] = "F7")
  BY <1>1, BytesFacts
<1>3. PICK n, k : n = Len(sysex) /\ k = Len(b)
  OBVIOUS
<1>4. n \in Nat /\ n > 0 /\ k \in 1 .. 4
  BY <1>2, <1>3
<1>5. /\ all \in Seq(Byte) /\ Len(all) = n + k
      /\ \A i \in 1 .. n + k : all[i] = IF i <= n THEN sysex[i] ELSE b[i - n]
  BY <1>1, <1>2, <1>3, ConcatProperties
<1>6. all[1] = First(segmented) /\ all[Len(all)] = b[k] /\ Len(all) >= 2
  <2>1. 1 \in 1 .. n + k /\ 1 <= n /\ n + k \in 1 .. n + k /\ ~(n + k <= n) /\ (n + k) - n = k
    BY <1>4
  <2> QED BY <1>4, <1>5, <2>1
<1>7. PICK w : w = Whole(host, segmented, all)
  OBVIOUS
<1>8. CASE p.ends
  <2>1. all[Len(all)] = "F7"
    BY <1>2, <1>3, <1>6, <1>8
  <2>2. sysex' = <<>> /\ segmented' = "no"
    BY <1>8 DEF Collect
  <2>3. Waits(host', met, "no") /\ host'.last \in {host.last, w}
    <3>1. CASE Full(all)
      <4>1. host' = ReceiveAll(host, <<>> \o <<Segment(all)>> \o <<Kept(all)>>)
        BY <1>1, <1>8, <3>1 DEF Collect, Send, Segment, Kept
      <4>2. host' = Receive(Receive(host, Segment(all)), Kept(all))
        BY <4>1, SentReceived
      <4> QED BY <1>5, <1>6, <1>7, <2>1, <3>1, <4>2, CollectedEnd
    <3>2. CASE ~Full(all)
      <4>1. host' = ReceiveAll(host, <<>> \o <<>> \o <<all>>)
        BY <1>1, <1>8, <3>2 DEF Collect, Send
      <4>2. host' = Receive(host, all)
        BY <4>1, SentReceived
      <4> QED BY <1>5, <1>6, <1>7, <2>1, <3>2, <4>2, CollectedEnd
    <3> QED BY <3>1, <3>2
  <2>4. <<>> \in Seq(Byte)
    OBVIOUS
  <2> QED BY <1>1, <1>7, <1>8, <2>2, <2>3, <2>4 DEF Collects
<1>9. CASE ~p.ends
  <2>1. CASE Full(all)
    <3>1. host' = ReceiveAll(host, <<>> \o <<Segment(all)>> \o <<>>)
      BY <1>1, <1>9, <2>1 DEF Collect, Send, Segment
    <3>2. host' = Receive(host, Segment(all))
      BY <3>1, SentReceived
    <3>3. sysex' = Kept(all) /\ segmented' = "yes"
      BY <1>1, <1>9, <2>1 DEF Collect, Kept
    <3>4. /\ Waits(host', met, "yes") /\ host'.last = host.last
          /\ sysex' \in Seq(Byte) /\ Len(sysex') >= 2 /\ sysex'[1] = "F7"
          /\ host'.rx \o Tail(sysex') = Prefix(host, segmented) \o Tail(all)
      <4>1. CutOf(Receive(host, Segment(all)), host, met, segmented, all)
        BY <1>5, <1>6, <2>1, SegmentCut
      <4> QED BY <3>2, <3>3, <4>1 DEF CutOf
    <3>5. Whole(host', segmented', sysex') = w
      BY <1>7, <3>3, <3>4 DEF Whole, Prefix
    <3>6. sysex' # <<>>
      BY <3>4
    <3> QED BY <1>1, <1>7, <1>9, <3>3, <3>4, <3>5, <3>6 DEF Collects, First
  <2>2. CASE ~Full(all)
    <3>1. host' = ReceiveAll(host, <<>> \o <<>> \o <<>>)
      BY <1>1, <1>9, <2>2 DEF Collect, Send
    <3>2. host' = host
      BY <3>1, SentReceived
    <3>3. sysex' = all /\ segmented' = segmented
      BY <1>1, <1>9, <2>2 DEF Collect
    <3>4. all # <<>>
      BY <1>5, <1>6
    <3> QED BY <1>1, <1>5, <1>6, <1>7, <1>9, <3>2, <3>3, <3>4 DEF Collects
  <2> QED BY <2>1, <2>2
<1> QED BY <1>8, <1>9

\* Of a message whose start its session did not see, the host gets nothing.
LEMMA LostContinues ==
    ASSUME session # 0, NEW p \in Packets, Lost(host, segmented),
           host.faults \in {{}, {"rest"}},
           sysex \in Seq(Byte), sysex # <<>>, sysex[1] = "F7",
           Collect(sysex, segmented, p, <<>>)
    PROVE  /\ sysex' \in Seq(Byte) /\ segmented' \in {"yes", "no"}
           /\ host'.rx = <<>> /\ host'.last = host.last /\ host'.faults \in {{}, {"rest"}}
           /\ p.ends => sysex' = <<>> /\ segmented' = "no"
           /\ ~p.ends => segmented' = "yes" /\ sysex' # <<>> /\ sysex'[1] = "F7"
<1>1. PICK all, b : all = sysex \o Bytes(p) /\ b = Bytes(p)
  OBVIOUS
<1>2. b \in Seq(Byte) /\ Len(b) \in 1 .. 4
  BY <1>1, BytesFacts
<1>3. all \in Seq(Byte) /\ Len(all) >= 1 /\ all[1] = "F7"
  <2>1. /\ Len(all) = Len(sysex) + Len(b) /\ all \in Seq(Byte)
        /\ \A i \in 1 .. Len(sysex) + Len(b) : all[i] = IF i <= Len(sysex) THEN sysex[i]
                                                                         ELSE b[i - Len(sysex)]
    BY <1>1, <1>2, ConcatProperties
  <2>2. Len(sysex) \in Nat /\ Len(sysex) >= 1
    OBVIOUS
  <2>3. PICK n, k : n = Len(sysex) /\ k = Len(b)
    OBVIOUS
  <2>4. 1 \in 1 .. n + k /\ 1 <= n /\ n + k >= 1
    BY <1>2, <2>2, <2>3
  <2> QED BY <2>1, <2>3, <2>4
<1>4. ASSUME Full(all)
      PROVE  /\ Kept(all) \in Seq(Byte) /\ Kept(all) # <<>> /\ Kept(all)[1] = "F7"
             /\ Segment(all)[1] = "F7"
  <2>1. PICK n, k : n = Len(all) /\ k = SYSEX_SEG
    OBVIOUS
  <2>2. n \in Nat /\ k \in Nat /\ k > 4 /\ n > k
    BY <1>3, <1>4, <2>1, Constants DEF Full
  <2>3. PICK x, y, o : x = SubSeq(all, 1, k) /\ y = SubSeq(all, k + 1, n) /\ o = <<"F7">>
    OBVIOUS
  <2>4. x \in Seq(Byte) /\ Len(x) = k /\ x[1] = all[1] /\ y \in Seq(Byte)
    BY <1>3, <2>1, <2>2, <2>3
  <2>5. o \in Seq(Byte) /\ Len(o) = 1 /\ o[1] = "F7"
    BY <2>3 DEF Byte
  <2>6. /\ o \o y \in Seq(Byte) /\ Len(o \o y) = Len(o) + Len(y)
        /\ \A i \in 1 .. Len(o) + Len(y) : (o \o y)[i] = IF i <= Len(o) THEN o[i] ELSE y[i - Len(o)]
    <3>1. o \in Seq(Byte) /\ y \in Seq(Byte)
      BY <2>4, <2>5
    <3> QED BY <3>1, ConcatProperties
  <2>7. Len(y) \in Nat /\ 1 \in 1 .. 1 + Len(y)
    BY <2>4
  <2>8. o \o y \in Seq(Byte) /\ Len(o \o y) >= 1 /\ (o \o y)[1] = "F7"
    BY <2>5, <2>6, <2>7
  <2>9. Kept(all) = o \o y
    BY <2>1, <2>3 DEF Kept
  <2>10. Segment(all) = Append(x, "F0") /\ Append(x, "F0")[1] = x[1]
    <3>1. 1 \in 1 .. Len(x)
      BY <2>2, <2>4
    <3>2. Append(x, "F0")[1] = x[1]
      BY <2>4, <3>1
    <3> QED BY <2>1, <2>3, <3>2 DEF Segment
  <2> QED BY <1>3, <2>4, <2>8, <2>9, <2>10
<1>5. host.rx = <<>> /\ segmented = "yes"
  BY DEF Lost
<1>6. ASSUME NEW m, m[1] = "F7"
      PROVE  /\ Receive(host, m).rx = <<>> /\ Receive(host, m).last = host.last
             /\ Receive(host, m).faults \in {{}, {"rest"}}
  BY <1>5, <1>6, RestLeftOut
<1>7. ASSUME NEW m, NEW n, m[1] = "F7", n[1] = "F7"
      PROVE  LET h2 == Receive(Receive(host, m), n)
             IN h2.rx = <<>> /\ h2.last = host.last /\ h2.faults \in {{}, {"rest"}}
  <2>1. PICK h : h = Receive(host, m)
    OBVIOUS
  <2>2. h.rx = <<>> /\ h.last = host.last /\ h.faults \in {{}, {"rest"}}
    BY <1>6, <1>7, <2>1
  <2> QED BY <1>7, <2>1, <2>2, RestLeftOut
<1>8. CASE p.ends
  <2>1. sysex' = <<>> /\ segmented' = "no" /\ <<>> \in Seq(Byte)
    BY <1>8 DEF Collect
  <2>2. CASE Full(all)
    <3>1. host' = ReceiveAll(host, <<>> \o <<Segment(all)>> \o <<Kept(all)>>)
      BY <1>1, <1>8, <2>2 DEF Collect, Send, Segment, Kept
    <3>2. host' = Receive(Receive(host, Segment(all)), Kept(all))
      BY <3>1, SentReceived
    <3> QED BY <1>4, <1>7, <1>8, <2>1, <2>2, <3>2
  <2>3. CASE ~Full(all)
    <3>1. host' = ReceiveAll(host, <<>> \o <<>> \o <<all>>)
      BY <1>1, <1>8, <2>3 DEF Collect, Send
    <3>2. host' = Receive(host, all)
      BY <3>1, SentReceived
    <3> QED BY <1>3, <1>6, <1>8, <2>1, <3>2
  <2> QED BY <2>2, <2>3
<1>9. CASE ~p.ends
  <2>1. CASE Full(all)
    <3>1. host' = ReceiveAll(host, <<>> \o <<Segment(all)>> \o <<>>)
      BY <1>1, <1>9, <2>1 DEF Collect, Send, Segment
    <3>2. host' = Receive(host, Segment(all))
      BY <3>1, SentReceived
    <3>3. sysex' = Kept(all) /\ segmented' = "yes"
      BY <1>1, <1>9, <2>1 DEF Collect, Kept
    <3> QED BY <1>4, <1>6, <1>9, <2>1, <3>2, <3>3
  <2>2. CASE ~Full(all)
    <3>1. host' = ReceiveAll(host, <<>> \o <<>> \o <<>>)
      BY <1>1, <1>9, <2>2 DEF Collect, Send
    <3>2. host' = host
      BY <3>1, SentReceived
    <3>3. sysex' = all /\ segmented' = segmented
      BY <1>1, <1>9, <2>2 DEF Collect
    <3>4. all # <<>>
      BY <1>3
    <3> QED BY <1>3, <1>5, <1>9, <3>2, <3>3, <3>4
  <2> QED BY <2>1, <2>2
<1> QED BY <1>8, <1>9

\* sysexAbandon(), received.
AfterAbandon(h, seg) == IF seg = "yes" THEN Receive(h, Cancel) ELSE h

LEMMA AbandonReceived ==
    ASSUME NEW h, NEW seg \in {"yes", "no"}, h.faults \in {{}, {"rest"}},
           Waits(h, h.faults, seg) \/ Lost(h, seg)
    PROVE  LET g == AfterAbandon(h, seg)
           IN /\ Waits(g, g.faults, "no") /\ g.last = h.last /\ g.faults \in {{}, {"rest"}}
              /\ ~Lost(h, seg) => g.faults = h.faults
<1>1. PICK g : g = AfterAbandon(h, seg)
  OBVIOUS
<1>2. CASE seg = "no"
  BY <1>2 DEF AfterAbandon, Lost
<1>3. CASE seg = "yes" /\ Waits(h, h.faults, seg)
  <2>1. Waits(h, h.faults, "yes")
    BY <1>3
  <2>2. Waits(Receive(h, Cancel), h.faults, "no") /\ Receive(h, Cancel).last = h.last
    BY <2>1, CancelReceived
  <2>3. g = Receive(h, Cancel)
    BY <1>1, <1>3 DEF AfterAbandon
  <2>4. Waits(g, h.faults, "no") /\ g.last = h.last
    BY <2>2, <2>3
  <2> QED BY <1>1, <2>4 DEF Waits
<1>4. CASE Lost(h, seg)
  <2>1. g = Receive(h, Cancel)
    BY <1>1, <1>4 DEF AfterAbandon, Lost
  <2>2. Cancel[1] = "F7" /\ h.rx = <<>>
    BY <1>4 DEF Cancel, Lost
  <2>3. g.rx = <<>> /\ g.last = h.last /\ g.faults \in {{}, {"rest"}}
    BY <2>1, <2>2, RestLeftOut
  <2>4. <<>> \in Seq(Byte)
    OBVIOUS
  <2> QED BY <1>1, <1>4, <2>3, <2>4 DEF Waits
<1> QED BY <1>2, <1>3, <1>4

LEMMA Starts ==
    ASSUME session # 0, NEW p \in Packets, segmented \in {"yes", "no"},
           NEW g, g = AfterAbandon(host, segmented),
           NEW met, Waits(g, met, "no"), g.last = host.last,
           p.bytes[1] = "F0", Collect(<<>>, "no", p, Abandoned)
    PROVE  Collects(p, met, Bytes(p)) /\ sysex' \in {<<>>, Bytes(p)} /\ segmented' = "no"
<1>1. PICK all : all = Bytes(p)
  OBVIOUS
<1>2. /\ all \in Seq(Byte) /\ Len(all) \in 1 .. 4 /\ all[1] = "F0"
      /\ p.ends => Len(all) >= 2 /\ all[Len(all)] = "F7"
  BY <1>1, BytesFacts
<1>3. <<>> \o Bytes(p) = all
  BY <1>1, <1>2
<1>4. ~Full(all)
  <2>1. PICK n : n = Len(all)
    OBVIOUS
  <2>2. n \in 1 .. 4
    BY <1>2, <2>1
  <2>3. ~(n > SYSEX_SEG)
    BY <2>2, Constants
  <2> QED BY <2>1, <2>3 DEF Full
<1>5. Whole(host, "no", all) = all
  <2>1. all # <<>> /\ Len(all) \in Nat
    BY <1>2
  <2>2. all = <<all[1]>> \o Tail(all)
    <3>1. 1 \in 1 .. Len(all) /\ Len(all) \in 1 .. Len(all)
      BY <1>2
    <3>2. SubSeq(all, 1, Len(all)) = <<all[1]>> \o SubSeq(all, 1 + 1, Len(all))
      BY <1>2, <3>1, SubSeqRecursiveFirst
    <3>3. SubSeq(all, 1, Len(all)) = all
      BY <1>2, SubSeqFull
    <3>4. Tail(all) = SubSeq(all, 2, Len(all))
      BY <1>2, <2>1, TailIsSubSeq
    <3> QED BY <3>2, <3>3, <3>4
  <2>3. Whole(host, "no", all) = <<"F0">> \o Tail(all)
    BY DEF Whole, Prefix
  <2>4. <<"F0">> = <<all[1]>>
    BY <1>2
  <2> QED BY <2>2, <2>3, <2>4
<1>6. g = IF segmented = "yes" THEN Receive(host, Cancel) ELSE host
  BY DEF AfterAbandon
<1>7. Waits(g, met, "no") /\ g.last = host.last
  OBVIOUS
<1>8. Whole(g, "no", all) = all
  BY <1>5 DEF Whole, Prefix
<1>9. CASE p.ends
  <2>1. sysex' = <<>> /\ segmented' = "no"
    BY <1>9 DEF Collect
  <2>2. host' = Receive(g, all)
    <3>1. CASE segmented = "yes"
      <4>1. host' = ReceiveAll(host, <<Cancel>> \o <<>> \o <<all>>)
        BY <1>3, <1>4, <1>9, <3>1 DEF Collect, Send, Abandoned
      <4> QED BY <1>6, <3>1, <4>1, SentReceived
    <3>2. CASE segmented = "no"
      <4>1. host' = ReceiveAll(host, <<>> \o <<>> \o <<all>>)
        BY <1>3, <1>4, <1>9, <3>2 DEF Collect, Send, Abandoned
      <4> QED BY <1>6, <3>2, <4>1, SentReceived
    <3> QED BY <3>1, <3>2
  <2>3. all[1] = First("no") /\ Len(all) >= 2 /\ all[Len(all)] = "F7"
    BY <1>2, <1>9 DEF First
  <2>4. Waits(Receive(g, all), met, "no") /\ Receive(g, all).last \in {g.last, Whole(g, "no", all)}
    BY <1>2, <1>4, <1>7, <2>3, CollectedEnd
  <2>5. <<>> \in Seq(Byte)
    OBVIOUS
  <2> QED BY <1>1, <1>7, <1>8, <1>9, <2>1, <2>2, <2>4, <2>5 DEF Collects
<1>10. CASE ~p.ends
  <2>1. sysex' = all /\ segmented' = "no"
    BY <1>3, <1>4, <1>10 DEF Collect
  <2>2. host' = g
    <3>1. CASE segmented = "yes"
      <4>1. host' = ReceiveAll(host, <<Cancel>> \o <<>> \o <<>>)
        BY <1>3, <1>4, <1>10, <3>1 DEF Collect, Send, Abandoned
      <4> QED BY <1>6, <3>1, <4>1, SentReceived
    <3>2. CASE segmented = "no"
      <4>1. host' = ReceiveAll(host, <<>> \o <<>> \o <<>>)
        BY <1>3, <1>4, <1>10, <3>2 DEF Collect, Send, Abandoned
      <4> QED BY <1>6, <3>2, <4>1, SentReceived
    <3> QED BY <3>1, <3>2
  <2>3. all # <<>> /\ all[1] = First("no")
    BY <1>2 DEF First
  <2> QED BY <1>1, <1>2, <1>7, <1>8, <1>10, <2>1, <2>2, <2>3 DEF Collects
<1> QED BY <1>9, <1>10

-------------------------------------------------------------------------------
(* What a cable has sent.                                                  *)

LEMMA StreamedFacts ==
    ASSUME stream \in [Cables -> Seq(Byte)], NEW p \in Packets, IsSysEx(p)
    PROVE  /\ Streamed(p) \in [Cables -> Seq(Byte)]
           /\ \A c \in Cables : c # p.cable => Streamed(p)[c] = stream[c]
           /\ p.bytes[1] = "F0" => Streamed(p)[p.cable] = Bytes(p)
           /\ p.bytes[1] # "F0" /\ stream[p.cable] # <<>> /\ Last(stream[p.cable]) # "F7"
              => Streamed(p)[p.cable] = stream[p.cable] \o Bytes(p)
<1>1. p.cable \in Cables /\ Bytes(p) \in Seq(Byte)
  BY PacketFacts, BytesFacts
<1>2. PICK d, b : d = p.cable /\ b = Bytes(p)
  OBVIOUS
<1>3. PICK s : s = stream[d]
  OBVIOUS
<1>4. s \in Seq(Byte) /\ b \in Seq(Byte) /\ d \in Cables
  BY <1>1, <1>2, <1>3
<1>5. PICK v : v = IF p.bytes[1] = "F0" THEN b
                   ELSE IF s = <<>> \/ Last(s) = "F7" THEN s ELSE s \o b
  OBVIOUS
<1>6. v \in Seq(Byte)
  BY <1>4, <1>5, ConcatProperties
<1>7. Streamed(p) = [stream EXCEPT ![d] = v]
  BY <1>2, <1>3, <1>5 DEF Streamed
<1>8. /\ [stream EXCEPT ![d] = v] \in [Cables -> Seq(Byte)]
      /\ [stream EXCEPT ![d] = v][d] = v
      /\ \A c \in Cables : c # d => [stream EXCEPT ![d] = v][c] = stream[c]
  BY <1>4, <1>6
<1> QED BY <1>2, <1>3, <1>5, <1>7, <1>8

\* What is collected goes on being what the cable sent.
LEMMA WholeGrows ==
    ASSUME NEW h, NEW met, NEW seg \in {"yes", "no"}, Waits(h, met, seg),
           NEW x \in Seq(Byte), x # <<>>, NEW b \in Seq(Byte)
    PROVE  Whole(h, seg, x \o b) = Whole(h, seg, x) \o b /\ Whole(h, seg, x) # <<>>
<1>1. PICK u, t : u = Prefix(h, seg) /\ t = Tail(x)
  OBVIOUS
<1>2. u \in Seq(Byte) /\ u # <<>>
  <2>1. <<"F0">> \in Seq(Byte) /\ <<"F0">> # <<>>
    BY DEF Byte
  <2> QED BY <1>1, <2>1 DEF Prefix, Waits
<1>3. /\ t \in Seq(Byte) /\ Len(t) = Len(x) - 1
      /\ \A i \in 1 .. Len(t) : t[i] = x[i + 1]
  BY <1>1, HeadTailProperties
<1>4. PICK n, k : n = Len(x) /\ k = Len(b)
  OBVIOUS
<1>5. n \in Nat /\ n > 0 /\ k \in Nat /\ Len(t) = n - 1
  BY <1>3, <1>4
<1>6. PICK all : all = x \o b
  OBVIOUS
<1>7. /\ all \in Seq(Byte) /\ Len(all) = n + k
      /\ \A i \in 1 .. n + k : all[i] = IF i <= n THEN x[i] ELSE b[i - n]
  BY <1>4, <1>6, ConcatProperties
<1>8. all # <<>>
  BY <1>5, <1>7
<1>9. PICK a : a = Tail(all)
  OBVIOUS
<1>10. a \in Seq(Byte) /\ Len(a) = (n + k) - 1 /\ \A i \in 1 .. Len(a) : a[i] = all[i + 1]
  BY <1>7, <1>8, <1>9, HeadTailProperties
<1>11. PICK c : c = t \o b
  OBVIOUS
<1>12. /\ c \in Seq(Byte) /\ Len(c) = (n - 1) + k
       /\ \A i \in 1 .. (n - 1) + k : c[i] = IF i <= n - 1 THEN t[i] ELSE b[i - (n - 1)]
  BY <1>3, <1>4, <1>5, <1>11, ConcatProperties
<1>13. Len(a) = Len(c)
  BY <1>5, <1>10, <1>12
<1>14. \A i \in 1 .. Len(a) : a[i] = c[i]
  <2>1. TAKE i \in 1 .. Len(a)
  <2>2. i \in 1 .. (n + k) - 1 /\ i + 1 \in 1 .. n + k
    BY <1>5, <1>10
  <2>3. a[i] = all[i + 1]
    BY <1>10
  <2>4. CASE i <= n - 1
    <3>1. i \in 1 .. Len(t) /\ i + 1 <= n
      BY <1>5, <2>2, <2>4
    <3>2. c[i] = t[i] /\ t[i] = x[i + 1]
      BY <1>3, <1>5, <1>12, <2>2, <2>4, <3>1
    <3> QED BY <1>7, <2>2, <2>3, <3>1, <3>2
  <2>5. CASE ~(i <= n - 1)
    <3>1. ~(i + 1 <= n) /\ (i + 1) - n = i - (n - 1) /\ i \in 1 .. (n - 1) + k
      BY <1>5, <2>2, <2>5
    <3>2. c[i] = b[i - (n - 1)]
      BY <1>12, <2>5, <3>1
    <3>3. all[i + 1] = b[(i + 1) - n]
      BY <1>7, <2>2, <3>1
    <3> QED BY <2>3, <3>1, <3>2, <3>3
  <2> QED BY <2>4, <2>5
<1>15. a = c
  BY <1>10, <1>12, <1>13, <1>14, SeqEqual
<1>16. (u \o t) \o b = u \o (t \o b)
  <2>1. u \in Seq(Byte) /\ t \in Seq(Byte) /\ b \in Seq(Byte)
    BY <1>2, <1>3
  <2> QED BY <2>1, ConcatAssociative
<1>17. u \o t # <<>>
  BY <1>2, <1>3, ConcatEqualIffEmpty
<1>18. Whole(h, seg, x) = u \o t
  BY <1>1 DEF Whole
<1>19. Whole(h, seg, x \o b) = u \o (t \o b)
  BY <1>1, <1>6, <1>9, <1>11, <1>15 DEF Whole
<1> QED BY <1>16, <1>17, <1>18, <1>19

\* Joined to what is not empty, the bytes of a packet that does not end the message leave
\* it without its F7.
LEMMA LastByte ==
    ASSUME NEW s \in Seq(Byte), NEW p \in Packets
    PROVE  /\ Last(s \o Bytes(p)) = Last(Bytes(p))
           /\ ~p.ends => Last(Bytes(p)) # "F7"
<1>1. PICK b : b = Bytes(p)
  OBVIOUS
<1>2. b \in Seq(Byte) /\ Len(b) \in 1 .. 4 /\ (p.ends <=> b[Len(b)] = "F7")
  BY <1>1, BytesFacts
<1>3. PICK n, k : n = Len(s) /\ k = Len(b)
  OBVIOUS
<1>4. n \in Nat /\ k \in 1 .. 4
  BY <1>2, <1>3
<1>5. /\ Len(s \o b) = n + k
      /\ \A i \in 1 .. n + k : (s \o b)[i] = IF i <= n THEN s[i] ELSE b[i - n]
  BY <1>2, <1>3, ConcatProperties
<1>6. n + k \in 1 .. n + k /\ ~(n + k <= n) /\ (n + k) - n = k
  BY <1>4
<1>7. (s \o b)[n + k] = b[k]
  BY <1>5, <1>6
<1> QED BY <1>1, <1>2, <1>3, <1>5, <1>7 DEF Last

-------------------------------------------------------------------------------
(* The invariant.                                                          *)

LEMMA InitInv == Init => IInv
<1> SUFFICES ASSUME Init PROVE IInv
  OBVIOUS
<1>1. (CHOOSE c \in Cables : TRUE) \in Cables
  BY ConstantsAssumption DEF Cables
<1>2. <<>> \in Seq(Byte) /\ <<>> \in Seq(Packets)
  OBVIOUS
<1>3. Types
  <2>1. [c \in Cables |-> <<>>] \in [Cables -> Seq(Byte)]
    BY <1>2
  <2> QED BY <1>1, <1>2, <2>1, Constants DEF Init, Types
<1>4. Edges /\ Collecting /\ Streams /\ Told
  BY DEF Init, Edges, Collecting, Streams, Told, HasPeer
<1>5. InStep
  <2>1. <<>> \in Seq(Byte)
    OBVIOUS
  <2> QED BY <2>1 DEF Init, InStep, NewHost
<1> QED BY <1>3, <1>4, <1>5 DEF IInv

LEMMA SessionStep ==
    ASSUME IInv, FirstPeer \/ LastPeerGone \/ DrainEnd
    PROVE  IInv'
<1> USE DEF IInv, edges, bounds
<1>1. CASE FirstPeer
  <2>1. /\ session = 0 /\ pc = "drain" /\ session' # 0 /\ pc' = "drain" /\ sessionMoves' # 0
        /\ host' = NewHost /\ told' = "none" /\ unseen' = tickPeer
        /\ UNCHANGED <<batch, sysex, segmented, cable, tickPeer, lastPeer, lastDev, link, inQueue,
                       moves, stream>>
    BY <1>1 DEF FirstPeer, Types
  <2>2. lastPeer = tickPeer /\ tickPeer \in {"yes", "no"} /\ segmented \in {"yes", "no"}
    BY <2>1 DEF Edges, Types
  <2>3. Types'
    BY <1>1 DEF FirstPeer, Types
  <2>4. Edges'
    BY <2>1, <2>2 DEF Edges
  <2>5. Collecting'
    BY <2>1 DEF Collecting
  <2>6. host'.faults = {} /\ host'.rx = <<>> /\ <<>> \in Seq(Byte)
    BY <2>1 DEF NewHost
  <2>7. InStep'
    <3>1. segmented = "yes" => tickPeer = "yes"
      BY <2>2 DEF Collecting
    <3>2. CASE segmented = "no"
      BY <2>1, <2>6, <3>2 DEF InStep, Waits
    <3>3. CASE segmented = "yes"
      BY <2>1, <2>6, <3>1, <3>3 DEF InStep, Lost
    <3> QED BY <2>2, <3>2, <3>3
  <2>8. Streams'
    <3>1. CASE segmented = "no"
      BY <2>1, <3>1 DEF Streams, Lost, Whole, Prefix
    <3>2. CASE segmented = "yes"
      BY <2>1, <2>6, <3>2 DEF Streams, Lost
    <3> QED BY <2>2, <3>1, <3>2
  <2>9. Told'
    BY <2>1, <2>2 DEF Told
  <2> QED BY <2>3, <2>4, <2>5, <2>7, <2>8, <2>9
<1>2. CASE LastPeerGone
  <2>1. session' = 0 /\ pc' = "drain" /\ pc = "drain"
    BY <1>2 DEF LastPeerGone
  <2>2. Types' /\ sessionMoves' # 0
    BY <1>2 DEF LastPeerGone, Types
  <2>3. Edges'
    BY <1>2, <2>1, <2>2 DEF LastPeerGone, Edges
  <2>4. Collecting' /\ InStep'
    BY <1>2, <2>1 DEF LastPeerGone, Collecting, InStep
  <2>5. Streams' /\ Told'
    BY <1>2, <2>1 DEF LastPeerGone, Streams, Told, Lost, Whole, Prefix
  <2> QED BY <2>2, <2>3, <2>4, <2>5
<1>3. CASE DrainEnd
  <2>1. Types' /\ pc' = "tick" /\ pc = "drain"
    BY <1>3 DEF DrainEnd, Types
  <2>2. Edges' /\ Collecting'
    BY <1>3, <2>1 DEF DrainEnd, Edges, Collecting
  <2>3. InStep' /\ Streams' /\ Told'
    BY <1>3, <2>1 DEF DrainEnd, InStep, Streams, Told, Waits, Lost, Whole, Prefix
  <2> QED BY <2>1, <2>2, <2>3
<1> QED BY <1>1, <1>2, <1>3

LEMMA TickBeginStep ==
    ASSUME IInv, TickBegin
    PROVE  IInv'
<1> USE DEF IInv, edges, bounds
<1>1. /\ pc = "tick" /\ pc' \in {"batch", "health"} /\ tickPeer' = HasPeer
      /\ HasPeer \in {"yes", "no"} /\ tickPeer' = HasPeer'
      /\ batch' \in 0 .. USB_BATCH /\ (pc' = "batch" => batch' = USB_BATCH)
      /\ UNCHANGED <<cable, lastPeer, lastDev, unseen, session, link, inQueue, host, told, stream>>
      /\ UNCHANGED <<sessions, sessionMoves, moves>>
  BY Constants DEF TickBegin, HasPeer, Types
<1>2. lastPeer = tickPeer
  BY <1>1 DEF Edges
<1>3. \/ sysex' = <<>> /\ segmented' = "no" /\ HasPeer # tickPeer
      \/ sysex' = sysex /\ segmented' = segmented /\ HasPeer = tickPeer
  BY DEF TickBegin, PeerEdge
<1>4. (session # 0 <=> HasPeer = "yes") /\ (session = 0 <=> HasPeer = "no")
  BY DEF HasPeer
<1>5. Types'
  <2>1. sysex' \in Seq(Byte) /\ segmented' \in {"yes", "no"}
    <3>1. <<>> \in Seq(Byte)
      OBVIOUS
    <3>2. CASE sysex' = <<>> /\ segmented' = "no"
      BY <3>1, <3>2
    <3>3. CASE sysex' = sysex /\ segmented' = segmented
      BY <3>3 DEF Types
    <3> QED BY <1>3, <3>2, <3>3
  <2>2. tickPeer' \in {"yes", "no"} /\ pc' \in {"drain", "tick", "batch", "health"}
    BY <1>1
  <2>3. /\ cable' \in Cables /\ lastPeer' \in {"yes", "no"} /\ unseen' \in {"yes", "no"}
        /\ link' \in {"up", "down"} /\ lastDev' \in {"up", "down"}
        /\ session' \in Nat /\ sessions' \in Nat /\ sessionMoves' \in Nat /\ moves' \in Nat
    BY <1>1 DEF Types
  <2>4. inQueue' \in Seq(Packets) /\ stream' \in [Cables -> Seq(Byte)]
    BY <1>1 DEF Types
  <2> QED BY <1>1, <2>1, <2>2, <2>3, <2>4 DEF Types
<1>6. Edges'
  BY <1>1 DEF Edges
<1>7. tickPeer' = "no" => sysex' = <<>> /\ segmented' = "no"
  BY <1>1, <1>3 DEF Collecting
<1>8. session # 0 /\ lastPeer = "no" => sysex' = <<>> /\ segmented' = "no"
  BY <1>2, <1>3, <1>4
<1>9. Collecting'
  <2>1. sysex' # <<>> => sysex'[1] = First(segmented')
    BY <1>3 DEF Collecting
  <2>2. 0 <= 3 * (USB_BATCH - USB_BATCH) /\ Len(<<>>) = 0
    BY Constants
  <2>3. session' # 0 /\ lastPeer' = "no" /\ pc' = "batch" => Len(sysex') <= 3 * (USB_BATCH - batch')
    BY <1>1, <1>8, <2>2
  <2> QED BY <1>1, <1>7, <1>8, <2>1, <2>3 DEF Collecting
<1>10. InStep'
  <2>1. session # 0 => segmented' = segmented
    BY <1>3, <1>4 DEF Collecting, Types
  <2> QED BY <1>1, <2>1 DEF InStep, Waits, Lost
<1>11. Streams' /\ Told'
  BY <1>1, <1>3 DEF Streams, Told, Lost, Whole, Prefix
<1> QED BY <1>5, <1>6, <1>9, <1>10, <1>11

\* What the host knows of the message.
Hears(h, seg) ==
    /\ h.faults \in {{}, {"rest"}} /\ h.rx \in Seq(Byte)
    /\ unseen = "no" => h.faults = {}
    /\ Waits(h, h.faults, seg) \/ (unseen = "yes" /\ Lost(h, seg))

\* A packet of SysEx with a peer, and what has been read of the cable by it.
LEMMA SysExStep ==
    ASSUME IInv, session # 0, pc = "batch", NEW p \in Packets, IsSysEx(p),
           SysExPacket(p), stream' = Streamed(p)
    PROVE  /\ sysex' \in Seq(Byte) /\ segmented' \in {"yes", "no"} /\ cable' \in Cables
           /\ stream' \in [Cables -> Seq(Byte)]
           /\ Hears(host', segmented')
           /\ sysex' # <<>> => /\ sysex'[1] = First(segmented')
                               /\ Last(stream'[cable']) # "F7" /\ stream'[cable'] # <<>>
           /\ sysex' # <<>> /\ ~Lost(host', segmented')
                  => stream'[cable'] = Whole(host', segmented', sysex')
           /\ host'.last # host.last => host'.last = stream'[cable']
<1> USE DEF IInv
<1>1. /\ sysex \in Seq(Byte) /\ segmented \in {"yes", "no"} /\ cable \in Cables
      /\ stream \in [Cables -> Seq(Byte)] /\ p.cable \in Cables /\ unseen \in {"yes", "no"}
  BY PacketFacts DEF Types
<1>2. Hears(host, segmented)
  BY DEF InStep, Hears
<1>3. stream' \in [Cables -> Seq(Byte)]
  BY <1>1, StreamedFacts
<1>4. CASE p.bytes[1] = "F0"
  <2>1. Collect(<<>>, "no", p, Abandoned) /\ cable' = p.cable
    BY <1>4 DEF SysExPacket
  <2>2. PICK g : g = AfterAbandon(host, segmented)
    OBVIOUS
  <2>3. /\ Waits(g, g.faults, "no") /\ g.last = host.last /\ g.faults \in {{}, {"rest"}}
        /\ ~Lost(host, segmented) => g.faults = host.faults
    BY <1>1, <1>2, <2>2, AbandonReceived DEF Hears
  <2>4. Collects(p, g.faults, Bytes(p)) /\ segmented' = "no"
    BY <1>1, <1>4, <2>1, <2>2, <2>3, Starts
  <2>5. Waits(host', g.faults, segmented') /\ host'.faults = g.faults /\ host'.rx \in Seq(Byte)
    BY <2>4 DEF Collects, Waits
  <2>6. unseen = "no" => g.faults = {}
    <3>1. unseen = "no" => ~Lost(host, segmented) /\ host.faults = {}
      BY <1>2 DEF Hears, Waits, Lost
    <3> QED BY <2>3, <3>1
  <2>7. Hears(host', segmented')
    BY <2>3, <2>5, <2>6 DEF Hears
  <2>8. stream'[cable'] = Bytes(p)
    BY <1>1, <1>4, <2>1, StreamedFacts
  <2>9. (~p.ends => Last(Bytes(p)) # "F7") /\ Bytes(p) # <<>>
    BY BytesFacts DEF Last
  <2> QED BY <1>1, <1>3, <2>1, <2>3, <2>4, <2>7, <2>8, <2>9 DEF Collects
<1>5. CASE p.bytes[1] # "F0" /\ OtherMessage(p)
  <2>1. UNCHANGED <<sysex, segmented, host, cable>>
    BY <1>5 DEF SysExPacket
  <2>2. sysex # <<>> => stream'[cable'] = stream[cable]
    <3>1. sysex # <<>> => cable # p.cable
      BY <1>5 DEF OtherMessage
    <3> QED BY <1>1, <2>1, <3>1, StreamedFacts
  <2>3. Hears(host', segmented')
    BY <1>2, <2>1 DEF Hears, Waits, Lost
  <2> QED BY <1>1, <1>3, <2>1, <2>2, <2>3 DEF Collecting, Streams, Lost, Whole, Prefix
<1>6. ASSUME p.bytes[1] # "F0", ~OtherMessage(p)
      PROVE  /\ Collect(sysex, segmented, p, <<>>) /\ cable' = cable
             /\ sysex # <<>> /\ p.cable = cable /\ sysex[1] = First(segmented)
             /\ Last(stream[cable]) # "F7" /\ stream[cable] # <<>>
             /\ stream'[cable'] = stream[cable] \o Bytes(p)
             /\ stream'[cable'] # <<>> /\ (~p.ends => Last(stream'[cable']) # "F7")
  <2>1. /\ Collect(sysex, segmented, p, <<>>) /\ cable' = cable
        /\ sysex # <<>> /\ p.cable = cable
    BY <1>6 DEF SysExPacket, OtherMessage
  <2>2. sysex[1] = First(segmented) /\ Last(stream[cable]) # "F7" /\ stream[cable] # <<>>
    BY <2>1 DEF Collecting, Streams
  <2>3. PICK v, b : v = stream[cable] /\ b = Bytes(p)
    OBVIOUS
  <2>4. v \in Seq(Byte) /\ b \in Seq(Byte)
    BY <1>1, <2>3, BytesFacts
  <2>5. stream'[cable'] = v \o b
    BY <1>1, <1>6, <2>1, <2>2, <2>3, StreamedFacts
  <2>6. ~p.ends => Last(v \o b) # "F7"
    BY <2>3, <2>4, LastByte
  <2>7. v \o b # <<>>
    BY <2>2, <2>3, <2>4, ConcatEqualIffEmpty
  <2> QED BY <2>1, <2>2, <2>3, <2>5, <2>6, <2>7
<1>7. CASE p.bytes[1] # "F0" /\ ~OtherMessage(p) /\ Waits(host, host.faults, segmented)
  <2>1. PICK b, v, met : /\ b = Bytes(p) /\ v = Whole(host, segmented, sysex)
                         /\ met = host.faults
    OBVIOUS
  <2>2. b \in Seq(Byte) /\ Waits(host, met, segmented) /\ ~Lost(host, segmented)
    BY <1>7, <2>1, BytesFacts DEF Waits, Lost
  <2>3. /\ Collect(sysex, segmented, p, <<>>) /\ cable' = cable
        /\ sysex # <<>> /\ sysex[1] = First(segmented)
        /\ stream'[cable'] = stream[cable] \o Bytes(p)
        /\ stream'[cable'] # <<>> /\ (~p.ends => Last(stream'[cable']) # "F7")
    BY <1>6, <1>7
  <2>4. stream[cable] = v
    BY <2>1, <2>2, <2>3 DEF Streams
  <2>5. Whole(host, segmented, sysex \o b) = v \o b
    BY <1>1, <2>1, <2>2, <2>3, WholeGrows
  <2>6. Collects(p, met, v \o b)
    <3>1. Collects(p, met, Whole(host, segmented, sysex \o Bytes(p)))
      BY <1>1, <2>2, <2>3, Continues
    <3> QED BY <2>1, <2>5, <3>1
  <2>7. Waits(host', met, segmented') /\ host'.faults = met /\ host'.rx \in Seq(Byte)
    BY <2>6 DEF Collects, Waits
  <2>8. Hears(host', segmented')
    BY <1>2, <2>1, <2>7 DEF Hears
  <2>9. stream'[cable'] = v \o b
    BY <2>1, <2>3, <2>4
  <2> QED BY <1>1, <1>3, <2>3, <2>6, <2>8, <2>9 DEF Collects
<1>8. CASE p.bytes[1] # "F0" /\ ~OtherMessage(p) /\ unseen = "yes" /\ Lost(host, segmented)
  <2>1. /\ Collect(sysex, segmented, p, <<>>) /\ cable' = cable
        /\ sysex # <<>> /\ sysex[1] = First(segmented)
        /\ stream'[cable'] # <<>> /\ (~p.ends => Last(stream'[cable']) # "F7")
    BY <1>6, <1>8
  <2>2. sysex[1] = "F7"
    BY <1>8, <2>1 DEF First, Lost
  <2>3. /\ sysex' \in Seq(Byte) /\ segmented' \in {"yes", "no"}
        /\ host'.rx = <<>> /\ host'.last = host.last /\ host'.faults \in {{}, {"rest"}}
        /\ p.ends => sysex' = <<>> /\ segmented' = "no"
        /\ ~p.ends => segmented' = "yes" /\ sysex' # <<>> /\ sysex'[1] = "F7"
    BY <1>1, <1>2, <1>8, <2>1, <2>2, LostContinues DEF Hears
  <2>4. Waits(host', host'.faults, segmented') \/ Lost(host', segmented')
    <3>1. <<>> \in Seq(Byte)
      OBVIOUS
    <3> QED BY <2>3, <3>1 DEF Waits, Lost
  <2>5. Hears(host', segmented')
    <3>1. <<>> \in Seq(Byte)
      OBVIOUS
    <3> QED BY <1>8, <2>3, <2>4, <3>1 DEF Hears
  <2>6. sysex' # <<>> => Lost(host', segmented') /\ sysex'[1] = First(segmented')
    BY <2>3 DEF Lost, First
  <2> QED BY <1>1, <1>3, <2>1, <2>3, <2>5, <2>6
<1> QED BY <1>2, <1>4, <1>5, <1>7, <1>8 DEF Hears

\* A session's first pass fills no segment.
LEMMA FirstPass ==
    ASSUME IInv, session # 0, lastPeer = "no", pc = "batch", batch > 0,
           NEW p \in Packets, IsSysEx(p), SysExPacket(p)
    PROVE  segmented' = "no" /\ Len(sysex') <= 3 * (USB_BATCH - (batch - 1))
<1> USE DEF IInv
<1>1. PICK n, k, c : n = Len(sysex) /\ k = USB_BATCH /\ c = batch
  OBVIOUS
<1>2. /\ n \in Nat /\ k \in Nat /\ c \in Nat /\ c > 0 /\ n <= 3 * (k - c) /\ c <= k
      /\ sysex \in Seq(Byte) /\ segmented = "no"
  <2>1. sysex \in Seq(Byte) /\ batch \in 0 .. USB_BATCH
    BY DEF Types
  <2>2. segmented = "no" /\ Len(sysex) <= 3 * (USB_BATCH - batch)
    BY DEF Collecting
  <2> QED BY <1>1, <2>1, <2>2, Constants
<1>3. PICK b, m : b = Bytes(p) /\ m = Len(b)
  OBVIOUS
<1>4. b \in Seq(Byte) /\ m \in 1 .. 4 /\ (~p.ends => m <= 3)
  BY <1>3, BytesFacts, PacketFacts
<1>5. Len(<<>>) <= 3 * (k - (c - 1)) /\ n <= 3 * (k - (c - 1))
  BY <1>2
<1>6. CASE p.bytes[1] = "F0"
  <2>1. Collect(<<>>, "no", p, Abandoned)
    BY <1>6 DEF SysExPacket
  <2>2. <<>> \o Bytes(p) = b
    BY <1>3, <1>4
  <2>3. ~(m > SYSEX_SEG)
    BY <1>4, Constants
  <2>4. p.ends => sysex' = <<>> /\ segmented' = "no"
    BY <2>1 DEF Collect
  <2>5. ~p.ends => sysex' = b /\ segmented' = "no"
    BY <1>3, <2>1, <2>2, <2>3 DEF Collect, Full
  <2>6. ~p.ends => m <= 3 * (k - (c - 1))
    BY <1>2, <1>4
  <2> QED BY <1>1, <1>3, <1>5, <2>4, <2>5, <2>6
<1>7. CASE p.bytes[1] # "F0" /\ OtherMessage(p)
  <2>1. sysex' = sysex /\ segmented' = segmented
    BY <1>7 DEF SysExPacket
  <2> QED BY <1>1, <1>2, <1>5, <2>1
<1>8. CASE p.bytes[1] # "F0" /\ ~OtherMessage(p)
  <2>1. Collect(sysex, segmented, p, <<>>)
    BY <1>8 DEF SysExPacket
  <2>2. PICK all : all = sysex \o b
    OBVIOUS
  <2>3. Len(all) = n + m
    BY <1>1, <1>2, <1>3, <1>4, <2>2
  <2>4. ~p.ends => n + m <= 3 * (k - (c - 1)) /\ ~(n + m > SYSEX_SEG)
    BY <1>1, <1>2, <1>4, Constants
  <2>5. p.ends => sysex' = <<>> /\ segmented' = "no"
    BY <2>1 DEF Collect
  <2>6. ~p.ends => sysex' = all /\ segmented' = "no"
    BY <1>2, <1>3, <2>1, <2>2, <2>3, <2>4 DEF Collect, Full
  <2> QED BY <1>1, <1>5, <2>3, <2>4, <2>5, <2>6
<1> QED BY <1>6, <1>7, <1>8

LEMMA TickPacketStep ==
    ASSUME IInv, TickPacket
    PROVE  IInv' /\ (host'.last # host.last => host'.last = stream'[cable'])
<1> USE DEF IInv, edges, bounds
<1>1. PICK p : p = Head(inQueue)
  OBVIOUS
<1>2. /\ pc = "batch" /\ pc' = "batch" /\ batch > 0 /\ batch' = batch - 1
      /\ inQueue # <<>> /\ inQueue' = Tail(inQueue)
      /\ UNCHANGED <<tickPeer, lastPeer, lastDev, unseen, session, link, told, sessions, sessionMoves,
                     moves>>
  BY DEF TickPacket
<1>3. p \in Packets /\ inQueue' \in Seq(Packets)
  BY <1>1, <1>2 DEF Types
<1>4. batch \in Nat /\ batch' \in 0 .. USB_BATCH /\ USB_BATCH \in Nat
  BY <1>2, Constants DEF Types
<1>5. /\ tickPeer' \in {"yes", "no"} /\ lastPeer' \in {"yes", "no"} /\ unseen' \in {"yes", "no"}
      /\ pc' \in {"drain", "tick", "batch", "health"}
      /\ link' \in {"up", "down"} /\ lastDev' \in {"up", "down"}
      /\ session' \in Nat /\ sessions' \in Nat /\ sessionMoves' \in Nat /\ moves' \in Nat
  BY <1>2 DEF Types
<1>6. Edges' /\ Told' /\ tickPeer = HasPeer
  BY <1>2 DEF Edges, Told, HasPeer
<1>7. CASE p.cable \notin Bridged \/ session = 0
  <2>1. UNCHANGED <<sysex, segmented, cable, host, stream>>
    BY <1>1, <1>7 DEF TickPacket
  <2>2. Types'
    BY <1>3, <1>4, <1>5, <2>1 DEF Types
  <2>3. Collecting'
    <3>1. session # 0 /\ lastPeer = "no" => segmented = "no" /\ Len(sysex) <= 3 * (USB_BATCH - batch)
      BY <1>2 DEF Collecting
    <3>2. PICK n : n = Len(sysex)
      OBVIOUS
    <3>3. n \in Nat
      BY <3>2 DEF Types
    <3>4. n <= 3 * (USB_BATCH - batch) => n <= 3 * (USB_BATCH - (batch - 1))
      BY <1>4, <3>3
    <3> QED BY <1>2, <2>1, <3>1, <3>2, <3>4 DEF Collecting
  <2>4. InStep' /\ Streams'
    BY <1>2, <2>1 DEF InStep, Streams, Waits, Lost, Whole, Prefix
  <2> QED BY <1>6, <2>1, <2>2, <2>3, <2>4
<1>8. CASE ~(p.cable \notin Bridged \/ session = 0) /\ ~IsSysEx(p)
  <2>1. UNCHANGED <<sysex, segmented, cable>> /\ stream' = stream /\ Send(Shorts(p))
    BY <1>1, <1>8 DEF TickPacket, Streamed
  <2>4. host'.rx = host.rx /\ host'.last = host.last /\ host'.faults = host.faults
    <3>1. CASE Shorts(p) = <<>>
      BY <1>8, <2>1, <3>1, ReceiveOne DEF Send
    <3>2. CASE Shorts(p) = <<p.bytes>> /\ p.bytes[1] \notin {"F0", "F7"}
      <4>1. host' = Receive(host, p.bytes)
        BY <1>8, <2>1, <3>2, ReceiveOne DEF Send
      <4> QED BY <3>2, <4>1, ShortReceived
    <3>3. p.bytes[1] \notin {"F0", "F7"} \/ Shorts(p) = <<>>
      BY <1>3, <1>8, PacketFacts DEF IsSysEx, Shorts
    <3> QED BY <3>1, <3>2, <3>3 DEF Shorts
  <2>5. Types'
    BY <1>3, <1>4, <1>5, <2>1 DEF Types
  <2>6. Collecting'
    <3>1. session # 0 /\ lastPeer = "no" => segmented = "no" /\ Len(sysex) <= 3 * (USB_BATCH - batch)
      BY <1>2 DEF Collecting
    <3>2. PICK n : n = Len(sysex)
      OBVIOUS
    <3>3. n \in Nat
      BY <3>2 DEF Types
    <3>4. n <= 3 * (USB_BATCH - batch) => n <= 3 * (USB_BATCH - (batch - 1))
      BY <1>4, <3>3
    <3> QED BY <1>2, <2>1, <3>1, <3>2, <3>4 DEF Collecting
  <2>7. InStep' /\ Streams'
    BY <1>2, <2>1, <2>4 DEF InStep, Streams, Waits, Lost, Whole, Prefix
  <2> QED BY <1>6, <2>4, <2>5, <2>6, <2>7
<1>9. CASE ~(p.cable \notin Bridged \/ session = 0) /\ IsSysEx(p)
  <2>1. SysExPacket(p) /\ stream' = Streamed(p) /\ session # 0
    BY <1>1, <1>9 DEF TickPacket
  <2>2. /\ sysex' \in Seq(Byte) /\ segmented' \in {"yes", "no"} /\ cable' \in Cables
        /\ stream' \in [Cables -> Seq(Byte)]
        /\ Hears(host', segmented')
        /\ sysex' # <<>> => /\ sysex'[1] = First(segmented')
                            /\ Last(stream'[cable']) # "F7" /\ stream'[cable'] # <<>>
        /\ sysex' # <<>> /\ ~Lost(host', segmented')
               => stream'[cable'] = Whole(host', segmented', sysex')
        /\ host'.last # host.last => host'.last = stream'[cable']
    BY <1>2, <1>3, <1>9, <2>1, SysExStep
  <2>3. Types'
    BY <1>3, <1>4, <1>5, <2>2 DEF Types
  <2>4. Collecting'
    <3>1. lastPeer = "no" => segmented' = "no" /\ Len(sysex') <= 3 * (USB_BATCH - (batch - 1))
      BY <1>2, <1>3, <1>9, <2>1, FirstPass
    <3>2. tickPeer' = "yes"
      BY <1>2, <1>6, <2>1 DEF HasPeer
    <3> QED BY <1>2, <2>2, <3>1, <3>2 DEF Collecting
  <2>5. InStep' /\ Streams'
    BY <1>2, <2>2 DEF InStep, Hears, Streams, Waits, Lost, Whole, Prefix
  <2> QED BY <1>6, <2>2, <2>3, <2>4, <2>5
<1> QED BY <1>7, <1>8, <1>9

LEMMA HealthTickStep ==
    ASSUME IInv, HealthTick
    PROVE  IInv' /\ host'.last = host.last
<1> USE DEF IInv, edges, bounds
<1>1. /\ pc = "health" /\ pc' = "drain" /\ lastDev' = link /\ lastPeer' = HasPeer /\ moves' = 0
      /\ told' = IF Tell THEN link ELSE told
      /\ UNCHANGED <<batch, cable, tickPeer, unseen, session, link, inQueue, sessions, sessionMoves,
                     stream>>
  BY DEF HealthTick
<1>2. tickPeer = HasPeer /\ (session # 0 <=> HasPeer = "yes") /\ HasPeer \in {"yes", "no"}
  BY <1>1 DEF Edges, HasPeer
<1>3. link \in {"up", "down"} /\ segmented \in {"yes", "no"} /\ sysex \in Seq(Byte)
  BY DEF Types
<1>4. \/ DeviceEdge /\ sysex' = <<>> /\ segmented' = "no"
      \/ ~DeviceEdge /\ sysex' = sysex /\ segmented' = segmented
  BY DEF HealthTick
<1>5. Types'
  <2>1. sysex' \in Seq(Byte) /\ segmented' \in {"yes", "no"}
    <3>1. <<>> \in Seq(Byte)
      OBVIOUS
    <3>2. CASE sysex' = <<>> /\ segmented' = "no"
      BY <3>1, <3>2
    <3>3. CASE sysex' = sysex /\ segmented' = segmented
      BY <1>3, <3>3
    <3> QED BY <1>4, <3>2, <3>3
  <2>2. /\ pc' \in {"drain", "tick", "batch", "health"} /\ moves' \in Nat
        /\ lastPeer' \in {"yes", "no"} /\ lastDev' \in {"up", "down"}
    BY <1>1, <1>2, <1>3
  <2>3. /\ batch' \in 0 .. USB_BATCH /\ cable' \in Cables /\ tickPeer' \in {"yes", "no"}
        /\ unseen' \in {"yes", "no"}
        /\ link' \in {"up", "down"} /\ session' \in Nat /\ sessions' \in Nat /\ sessionMoves' \in Nat
    BY <1>1 DEF Types
  <2>4. inQueue' \in Seq(Packets) /\ stream' \in [Cables -> Seq(Byte)]
    BY <1>1 DEF Types
  <2> QED BY <2>1, <2>2, <2>3, <2>4 DEF Types
<1>6. Edges'
  BY <1>1, <1>2 DEF Edges, HasPeer
<1>7. Collecting'
  BY <1>1, <1>4 DEF Collecting
<1>8. Told'
  <2>1. session # 0 /\ ~Tell => /\ link = lastDev
                                /\ told = lastDev \/ (unseen = "yes" /\ told = "none")
    BY <1>3 DEF Tell, DeviceEdge, Told, Types
  <2> QED BY <1>1, <2>1 DEF Told, Tell
<1>9. CASE session = 0
  <2>1. host' = host
    BY <1>9 DEF HealthTick, Send
  <2>2. sysex' = <<>> /\ segmented' = "no"
    BY <1>2, <1>4, <1>9 DEF Collecting
  <2>3. InStep' /\ Streams'
    BY <1>1, <1>9, <2>1, <2>2 DEF InStep, Streams, Lost
  <2> QED BY <1>5, <1>6, <1>7, <1>8, <2>1, <2>3
<1>10. CASE session # 0 /\ DeviceEdge
  <2>1. Hears(host, segmented)
    BY <1>10 DEF InStep, Hears
  <2>2. host' = ReceiveAll(host, Abandoned \o <<Marker(link)>>)
    BY <1>10 DEF HealthTick, Send, HealthSends, Tell
  <2>3. PICK g : g = AfterAbandon(host, segmented)
    OBVIOUS
  <2>4. /\ Waits(g, g.faults, "no") /\ g.last = host.last /\ g.faults \in {{}, {"rest"}}
        /\ ~Lost(host, segmented) => g.faults = host.faults
    BY <1>3, <2>1, <2>3, AbandonReceived DEF Hears
  <2>5. host' = Receive(g, Marker(link))
    <3>1. CASE segmented = "yes"
      <4>1. host' = ReceiveAll(host, <<Cancel>> \o <<Marker(link)>>)
        BY <2>2, <3>1 DEF Abandoned
      <4>2. <<Cancel>> \o <<>> = <<Cancel>>
        <5>1. <<Cancel>> \in Seq({Cancel})
          OBVIOUS
        <5> QED BY <5>1, ConcatEmptySeq
      <4>3. ReceiveAll(host, <<Cancel>> \o <<>> \o <<Marker(link)>>)
              = Receive(Receive(host, Cancel), Marker(link))
        BY SentReceived
      <4>4. host' = Receive(Receive(host, Cancel), Marker(link))
        BY <4>1, <4>2, <4>3
      <4> QED BY <2>3, <3>1, <4>4 DEF AfterAbandon
    <3>2. CASE segmented = "no"
      <4>1. <<>> \o <<Marker(link)>> = <<Marker(link)>>
        <5>1. <<Marker(link)>> \in Seq({Marker(link)})
          OBVIOUS
        <5> QED BY <5>1, ConcatEmptySeq
      <4>2. host' = ReceiveAll(host, <<Marker(link)>>)
        BY <2>2, <3>2, <4>1 DEF Abandoned
      <4> QED BY <2>3, <3>2, <4>2, ReceiveOne DEF AfterAbandon
    <3> QED BY <1>3, <3>1, <3>2
  <2>6. Waits(host', g.faults, "no") /\ host'.last = host.last
    BY <1>3, <2>4, <2>5, MarkerReceived
  <2>7. sysex' = <<>> /\ segmented' = "no"
    BY <1>4, <1>10
  <2>8. unseen = "no" => g.faults = {}
    <3>1. unseen = "no" => ~Lost(host, segmented) /\ host.faults = {}
      BY <2>1 DEF Hears, Waits, Lost
    <3> QED BY <2>4, <3>1
  <2>9. host'.faults = g.faults /\ host'.rx \in Seq(Byte) /\ Waits(host', host'.faults, "no")
    BY <2>6 DEF Waits
  <2>10. InStep'
    BY <1>1, <2>4, <2>7, <2>8, <2>9 DEF InStep, Waits
  <2>11. Streams'
    BY <2>7 DEF Streams
  <2> QED BY <1>5, <1>6, <1>7, <1>8, <2>6, <2>10, <2>11
<1>11. CASE session # 0 /\ ~DeviceEdge
  <2>1. Hears(host, segmented) /\ sysex' = sysex /\ segmented' = segmented
    BY <1>4, <1>11 DEF InStep, Hears
  <2>2. CASE lastPeer = "no"
    <3>1. segmented = "no"
      BY <1>1, <1>11, <2>2 DEF Collecting
    <3>2. host' = ReceiveAll(host, <<Marker(link)>>)
      BY <1>11, <2>2 DEF HealthTick, Send, Tell
    <3>3. host' = Receive(host, Marker(link))
      BY <3>2, ReceiveOne
    <3>4. PICK met : met = host.faults
      OBVIOUS
    <3>5. Waits(host, met, "no")
      BY <2>1, <3>1, <3>4 DEF Hears, Lost
    <3>6. Waits(host', met, "no") /\ host'.last = host.last
      BY <1>3, <3>3, <3>5, MarkerReceived
    <3>7. host'.faults = met /\ host'.rx \in Seq(Byte) /\ Waits(host', host'.faults, "no")
      BY <3>6 DEF Waits
    <3>8. InStep'
      BY <1>1, <2>1, <3>1, <3>4, <3>7 DEF InStep, Hears, Waits
    <3>9. Streams'
      BY <1>1, <2>1, <3>1 DEF Streams, Lost, Whole, Prefix
    <3> QED BY <1>5, <1>6, <1>7, <1>8, <3>6, <3>8, <3>9
  <2>3. CASE lastPeer # "no"
    <3>1. host' = ReceiveAll(host, <<>>)
      BY <1>11, <2>3 DEF HealthTick, Send, Tell
    <3>2. host' = host
      BY <3>1, ReceiveOne
    <3>3. InStep' /\ Streams'
      BY <1>1, <2>1, <3>2 DEF InStep, Streams, Waits, Lost, Whole, Prefix
    <3> QED BY <1>5, <1>6, <1>7, <1>8, <3>2, <3>3
  <2> QED BY <2>2, <2>3
<1> QED BY <1>9, <1>10, <1>11

LEMMA OtherStep ==
    ASSUME IInv, TickEnd \/ (\E p \in Packets : DeviceSends(p)) \/ Attach \/ Detach
    PROVE  IInv'
<1> USE DEF IInv, edges, bounds
<1>1. /\ UNCHANGED <<batch, sysex, segmented, cable, tickPeer, lastPeer, lastDev, unseen, session, host, told,
                     stream>>
      /\ UNCHANGED <<sessions, sessionMoves>>
      /\ \/ pc' = pc
         \/ pc = "batch" /\ pc' = "health"
  BY DEF TickEnd, DeviceSends, Attach, Detach
<1>2. link' \in {"up", "down"} /\ moves' \in Nat /\ (moves' = 0 => link' = lastDev)
  BY DEF TickEnd, DeviceSends, Attach, Detach, Types, Told
<1>3. inQueue' \in Seq(Packets)
  <2>1. CASE \E p \in Packets : DeviceSends(p)
    <3>1. PICK p \in Packets : DeviceSends(p)
      BY <2>1
    <3>2. Append(inQueue, p) \in Seq(Packets) /\ inQueue \in Seq(Packets)
      BY AppendProperties DEF Types
    <3> QED BY <3>1, <3>2 DEF DeviceSends
  <2>2. CASE TickEnd \/ Attach \/ Detach
    BY <2>2 DEF TickEnd, Attach, Detach, Types
  <2> QED BY <2>1, <2>2
<1>4. Types'
  <2>1. /\ pc' \in {"drain", "tick", "batch", "health"} /\ batch' \in 0 .. USB_BATCH
        /\ sysex' \in Seq(Byte) /\ segmented' \in {"yes", "no"} /\ cable' \in Cables
        /\ tickPeer' \in {"yes", "no"} /\ lastPeer' \in {"yes", "no"} /\ lastDev' \in {"up", "down"}
        /\ unseen' \in {"yes", "no"}
    BY <1>1 DEF Types
  <2>2. /\ session' \in Nat /\ sessions' \in Nat /\ sessionMoves' \in Nat
        /\ stream' \in [Cables -> Seq(Byte)]
    BY <1>1 DEF Types
  <2> QED BY <1>2, <1>3, <2>1, <2>2 DEF Types
<1>5. Edges' /\ Collecting'
  BY <1>1 DEF Edges, Collecting, HasPeer
<1>6. InStep' /\ Streams'
  BY <1>1 DEF InStep, Streams, Waits, Lost, Whole, Prefix
<1>7. Told'
  BY <1>1, <1>2 DEF Told
<1> QED BY <1>4, <1>5, <1>6, <1>7

LEMMA StutterStep == ASSUME IInv, UNCHANGED vars PROVE IInv'
<1>1. Types' /\ Edges' /\ Collecting'
  BY DEF IInv, vars, Types, Edges, Collecting, HasPeer
<1>2. InStep' /\ Streams' /\ Told'
  BY DEF IInv, vars, InStep, Streams, Told, Waits, Lost, Whole, Prefix
<1> QED BY <1>1, <1>2 DEF IInv

LEMMA Inductive == ASSUME IInv, [Next]_vars PROVE IInv'
<1>1. CASE FirstPeer \/ LastPeerGone \/ DrainEnd
  BY <1>1, SessionStep
<1>2. CASE TickBegin
  BY <1>2, TickBeginStep
<1>3. CASE TickPacket
  BY <1>3, TickPacketStep
<1>4. CASE HealthTick
  BY <1>4, HealthTickStep
<1>5. CASE TickEnd \/ (\E p \in Packets : DeviceSends(p)) \/ Attach \/ Detach
  BY <1>5, OtherStep
<1>6. CASE UNCHANGED vars
  BY <1>6, StutterStep
<1> QED BY <1>1, <1>2, <1>3, <1>4, <1>5, <1>6 DEF Next

-------------------------------------------------------------------------------
(* The theorems.                                                           *)

THEOREM Invariant == Spec => []IInv
<1>1. IInv /\ [Next]_vars => IInv'
  BY Inductive
<1> QED BY InitInv, <1>1, PTL DEF Spec

\* A host waits for the rest of a SysEx exactly while the bridge is collecting it, and
\* nothing it gets is out of place; one whose session replaced another within a drain
\* may get the rest of a message begun before it, and nothing else (tick(),
\* sysexPacket(), healthTick()).
THEOREM HostWaits == Spec => []HostInStep
<1>1. IInv => HostInStep
  BY DEF IInv, InStep, Types, Waits, Lost, HostInStep
<1> QED BY Invariant, <1>1, PTL

\* After healthTick the host's last marker is the device's state; only a session that
\* replaced another within a drain may have had none yet.
THEOREM HostTold == Spec => []HostKnowsDevice
<1>1. IInv => HostKnowsDevice
  BY DEF IInv, Told, Edges, Types, HasPeer, HostKnowsDevice
<1> QED BY Invariant, <1>1, PTL

\* A SysEx the host reassembles is, byte for byte, what was read of one cable.
THEOREM HostGetsWhole == Spec => WholeMessages
<1>1. ASSUME IInv, [Next]_vars
      PROVE  [host'.last # host.last /\ host'.last # <<>> => host'.last = stream'[cable']]_vars
  <2>1. CASE FirstPeer
    BY <2>1 DEF FirstPeer, NewHost
  <2>2. CASE TickPacket
    BY <1>1, <2>2, TickPacketStep
  <2>3. CASE HealthTick
    BY <1>1, <2>3, HealthTickStep
  <2>4. CASE LastPeerGone \/ DrainEnd \/ TickBegin \/ TickEnd
    BY <2>4 DEF LastPeerGone, DrainEnd, TickBegin, TickEnd
  <2>5. CASE (\E p \in Packets : DeviceSends(p)) \/ Attach \/ Detach
    BY <2>5 DEF DeviceSends, Attach, Detach
  <2> QED BY <1>1, <2>1, <2>2, <2>3, <2>4, <2>5 DEF Next
<1> QED BY <1>1, Invariant, PTL DEF Spec, WholeMessages

===============================================================================
