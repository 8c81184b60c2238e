---------------------------- MODULE BridgeDownProofs ----------------------------
(***************************************************************************)
(* Proofs about the device-bound half of the bridge, for any peers, pieces *)
(* and data and any table size: the peer table follows the library's       *)
(* sessions, a SysEx reaches the device whole or is not counted, and none  *)
(* outlives the session it began in.                                       *)
(***************************************************************************)
EXTENDS BridgeDown, SequenceTheorems, FiniteSetTheorems, TLAPS

Byte == Data \cup {"F0", "F7", "F4"}
Sent == Byte \cup {"check", "msg", "note", "blank"}

Types ==
    /\ peers \in Seq(Ssrc) /\ joined \subseteq Ssrc
    /\ body \in Seq(Byte \cup {"end"})
    /\ \A i \in 1 .. Len(body) : body[i] = "end" => i = Len(body)
    /\ out \in Seq(Seq(Sent))
    /\ sxPend \in Seq(Data \cup {"F0"}) /\ Len(sxPend) <= 2
    /\ sxOpen \in {"yes", "no"} /\ sxOk \in {"yes", "no"}
    /\ link \in {"up", "down"} /\ lastDev \in {"up", "down"} /\ moves \in Nat
    /\ parser \in Seq(Sent) /\ expected \in Seq(Byte) /\ seg \in {"none", "open"}

\* The guard of a join counts sessions, that of the table entries: they are as many.
Table ==
    /\ PeersAgree
    /\ IsFiniteSet(joined) /\ Cardinality(joined) = Len(peers)

\* What is open while a piece is streamed, while packets are written, and between.
Callbacks ==
    /\ body # <<>> => sxOpen = "yes" /\ out = <<>>
    /\ out # <<>> => seg = "none" /\ sxOpen = "no"
    /\ sxOpen = "no" => sxPend = <<>>

\* The reassembly is open between two segments exactly while the stitching is; a piece
\* that ends the message, or that breaks off in a stray byte, closes it.
Segments ==
    /\ body = <<>> => (sxOpen = "yes" <=> seg = "open")
    /\ seg = "open" => \A i \in 1 .. Len(body) : body[i] \in Data
    /\ seg = "none" /\ body # <<>> => \E i \in 1 .. Len(body) : body[i] \notin Data

\* A SysEx that is open began after the last session's end.
Fresh == sxOpen = "yes" => ended = "no"

IInv == Types /\ Table /\ Callbacks /\ Segments /\ Fresh

-------------------------------------------------------------------------------
(* The helpers.                                                            *)

LEMMA BytesApart == "F0" \notin Data /\ "F7" \notin Data /\ "F4" \notin Data /\ "end" \notin Data
BY ConstantsAssumption

LEMMA PieceFacts ==
    ASSUME NEW piece \in Pieces
    PROVE  /\ piece \in Seq(Byte) /\ Len(piece) \in Nat /\ Len(piece) >= 2
           /\ piece[1] \in {"F0", "F7"}
           /\ Payload(piece) \in Seq(Byte)
<1>1. piece \in Seq(Byte) /\ Len(piece) >= 2 /\ piece[1] \in {"F0", "F7"}
  BY ConstantsAssumption DEF Byte
<1>2. Len(piece) \in Nat
  BY <1>1
<1>3. SubSeq(piece, 2, Len(piece) - 1) \in Seq(Byte) /\ SubSeq(piece, 2, Len(piece)) \in Seq(Byte)
  <2>1. \A i \in 2 .. Len(piece) : piece[i] \in Byte
    BY <1>1
  <2> QED BY <1>1, <1>2, <2>1, SubSeqProperties
<1> QED BY <1>1, <1>2, <1>3 DEF Payload

\* A piece's body is its payload and, for a piece that ends the message, the end.
LEMMA BodyFacts ==
    ASSUME NEW piece \in Pieces
    PROVE  /\ Body(piece) = IF Ends(piece) THEN Append(Payload(piece), "end") ELSE Payload(piece)
           /\ Body(piece) \in Seq(Byte \cup {"end"})
           /\ \A i \in 1 .. Len(Body(piece)) : Body(piece)[i] = "end" => i = Len(Body(piece))
<1>1. /\ piece \in Seq(Byte) /\ Len(piece) \in Nat /\ Len(piece) >= 2
      /\ Payload(piece) \in Seq(Byte)
  BY PieceFacts
<1>2. Tail(piece) = SubSeq(piece, 2, Len(piece))
  BY <1>1
<1>3. Body(piece) = IF Ends(piece) THEN Append(Payload(piece), "end") ELSE Payload(piece)
  <2>1. CASE piece[Len(piece)] = "F7"
    BY <2>1 DEF Body, Ends, Payload
  <2>2. CASE piece[Len(piece)] = "F0"
    BY <2>2 DEF Body, Ends, Payload
  <2>3. CASE piece[Len(piece)] \notin {"F0", "F7"}
    BY <1>2, <2>3 DEF Body, Ends, Payload
  <2> QED BY <2>1, <2>2, <2>3
<1>4. PICK q : q = Payload(piece)
  OBVIOUS
<1>5. q \in Seq(Byte) /\ \A i \in 1 .. Len(q) : q[i] # "end"
  BY <1>1, <1>4, BytesApart DEF Byte
<1>6. CASE Ends(piece)
  <2>1. Body(piece) = Append(q, "end")
    BY <1>3, <1>4, <1>6
  <2>2. /\ Append(q, "end") \in Seq(Byte \cup {"end"}) /\ Len(Append(q, "end")) = Len(q) + 1
        /\ \A i \in 1 .. Len(q) : Append(q, "end")[i] = q[i]
    BY <1>5
  <2>3. PICK r : r = Append(q, "end")
    OBVIOUS
  <2>4. /\ r \in Seq(Byte \cup {"end"}) /\ Len(r) = Len(q) + 1 /\ Len(q) \in Nat
        /\ \A i \in 1 .. Len(q) : r[i] # "end"
    BY <1>5, <2>2, <2>3
  <2>5. \A i \in 1 .. Len(r) : r[i] = "end" => i = Len(r)
    BY <2>4
  <2>6. Body(piece) = r
    BY <2>1, <2>3
  <2>7. Body(piece) = IF Ends(piece) THEN Append(Payload(piece), "end") ELSE Payload(piece)
    BY <1>3
  <2> QED BY <2>4, <2>5, <2>6, <2>7
<1>7. CASE ~Ends(piece)
  <2>1. Body(piece) = q
    BY <1>3, <1>4, <1>7
  <2> QED BY <1>3, <1>5, <2>1
<1> QED BY <1>6, <1>7

LEMMA WrittenTypes ==
    ASSUME parser \in Seq(Sent), NEW p \in Seq(Sent), NEW ok, Written(p, ok)
    PROVE  /\ parser' \in Seq(Sent)
           /\ ok \in {"yes", "no"}
           /\ ok = "yes" => link = "up"
           /\ link = "down" => parser' = parser
<1>1. parser \o p \in Seq(Sent) /\ <<>> \in Seq(Sent)
  OBVIOUS
<1> QED BY <1>1 DEF Written

LEMMA EndPacketTypes ==
    ASSUME Types
    PROVE  EndPacket \in Seq(Sent) /\ Ends(EndPacket)
<1>1. sxPend \in Seq(Sent)
  BY DEF Types, Sent, Byte
<1>2. EndPacket \in Seq(Sent)
  BY <1>1 DEF EndPacket, Sent, Byte
<1>3. EndPacket[Len(EndPacket)] = "F7"
  BY <1>1 DEF EndPacket
<1> QED BY <1>2, <1>3 DEF Ends

LEMMA BothYes ==
    ASSUME NEW a, NEW b
    PROVE  /\ OkSoFar(a, b) \in {"yes", "no"}
           /\ OkSoFar(a, b) = "yes" <=> (a = "yes" /\ b = "yes")
BY DEF OkSoFar, Both

LEMMA BlankTypes == BlankFrames \in Seq(Seq(Sent))
<1>1. /\ <<"check">> \in Seq(Sent) /\ <<"F0", "blank", "blank">> \in Seq(Sent)
      /\ <<"blank", "F7">> \in Seq(Sent) /\ <<"note">> \in Seq(Sent)
  BY DEF Sent, Byte
<1> QED BY <1>1 DEF BlankFrames

\* The loop of rtpSysEx(): what is left of the piece.
LEMMA TailFacts ==
    ASSUME Types, body # <<>>
    PROVE  /\ Head(body) = body[1] /\ Len(body) \in Nat /\ Len(body) >= 1
           /\ Tail(body) \in Seq(Byte \cup {"end"}) /\ Len(Tail(body)) = Len(body) - 1
           /\ \A i \in 1 .. Len(Tail(body)) : Tail(body)[i] = body[i + 1]
           /\ \A i \in 1 .. Len(Tail(body)) : Tail(body)[i] = "end" => i = Len(Tail(body))
<1>1. body \in Seq(Byte \cup {"end"}) /\ \A i \in 1 .. Len(body) : body[i] = "end" => i = Len(body)
  BY DEF Types
<1>2. /\ Head(body) = body[1] /\ Len(body) \in Nat /\ Len(body) >= 1
      /\ Tail(body) \in Seq(Byte \cup {"end"}) /\ Len(Tail(body)) = Len(body) - 1
      /\ \A i \in 1 .. Len(Tail(body)) : Tail(body)[i] = body[i + 1]
  BY <1>1
<1>3. ASSUME NEW i \in 1 .. Len(Tail(body)), Tail(body)[i] = "end"
      PROVE  i = Len(Tail(body))
  <2>1. i + 1 \in 1 .. Len(body) /\ body[i + 1] = "end"
    BY <1>2, <1>3
  <2>2. i + 1 = Len(body)
    BY <1>1, <2>1
  <2>3. PICK n \in Nat : n = Len(body)
    BY <1>2
  <2>4. i \in Int /\ i + 1 = n
    BY <2>2, <2>3
  <2>5. i = n - 1
    BY <2>4
  <2>6. Len(Tail(body)) = n - 1
    BY <1>2, <2>3
  <2> QED BY <2>5, <2>6
<1> QED BY <1>2, <1>3

-------------------------------------------------------------------------------
(* The streaming of a piece.                                               *)

Open == Types /\ Callbacks /\ Segments

LEMMA RtpSysExStep ==
    ASSUME Open, NEW piece \in Pieces, RtpSysEx(piece)
    PROVE  Open'
<1> USE DEF Open
<1>1. /\ piece \in Seq(Byte) /\ Len(piece) \in Nat /\ Len(piece) >= 2
      /\ piece[1] \in {"F0", "F7"} /\ Payload(piece) \in Seq(Byte)
  BY PieceFacts
<1>2. /\ Body(piece) = IF Ends(piece) THEN Append(Payload(piece), "end") ELSE Payload(piece)
      /\ Body(piece) \in Seq(Byte \cup {"end"})
      /\ \A i \in 1 .. Len(Body(piece)) : Body(piece)[i] = "end" => i = Len(Body(piece))
  BY BodyFacts
<1>3. /\ body = <<>> /\ out = <<>>
      /\ SysExBegin(piece) /\ expected' = Reassemble(piece)
      /\ seg' = IF Malformed(piece) \/ Ends(piece) \/ (piece[1] = "F7" /\ seg = "none")
                THEN "none" ELSE "open"
      /\ UNCHANGED <<peers, joined, out, returned, lastDev, usb>>
  BY DEF RtpSysEx, Idle
<1>4. parser' \in Seq(Sent)
  <2>1. CASE \E ok \in {"yes", "no"} : Written(EndPacket, ok)
    BY <2>1, WrittenTypes, EndPacketTypes DEF Types
  <2>2. CASE parser' = parser
    BY <2>2 DEF Types
  <2> QED BY <1>3, <2>1, <2>2 DEF SysExBegin
<1>5. expected' \in Seq(Byte)
  <2>1. <<"F0">> \o Payload(piece) \in Seq(Byte) /\ expected \o Payload(piece) \in Seq(Byte)
    BY <1>1 DEF Types, Byte
  <2> QED BY <1>3, <2>1 DEF Reassemble
<1>6. \/ /\ sxOpen' = "yes" /\ body' = Body(piece)
         /\ \/ piece[1] = "F0" /\ sxOk' = "yes" /\ sxPend' = <<"F0">>
            \/ piece[1] = "F7" /\ sxOpen = "yes" /\ sxOk' = sxOk /\ sxPend' = sxPend
      \/ piece[1] = "F7" /\ sxOpen = "no" /\ UNCHANGED <<sxOpen, sxOk, sxPend, body>>
  BY <1>1, <1>3 DEF SysExBegin, Types
<1>7. Types'
  <2>1. <<"F0">> \in Seq(Data \cup {"F0"}) /\ Len(<<"F0">>) <= 2
    OBVIOUS
  <2>2. /\ body' \in Seq(Byte \cup {"end"})
        /\ \A i \in 1 .. Len(body') : body'[i] = "end" => i = Len(body')
    BY <1>2, <1>6 DEF Types
  <2>3. sxPend' \in Seq(Data \cup {"F0"}) /\ Len(sxPend') <= 2
    BY <1>6, <2>1 DEF Types
  <2>4. sxOpen' \in {"yes", "no"} /\ sxOk' \in {"yes", "no"} /\ seg' \in {"none", "open"}
    BY <1>3, <1>6 DEF Types
  <2> QED BY <1>3, <1>4, <1>5, <2>2, <2>3, <2>4 DEF Types, usb
<1>8. Callbacks'
  BY <1>3, <1>6 DEF Callbacks
<1>9. Segments'
  <2>1. CASE piece[1] = "F7" /\ sxOpen = "no" /\ UNCHANGED <<sxOpen, sxOk, sxPend, body>>
    <3>1. seg = "none" /\ seg' = "none"
      BY <1>3, <2>1 DEF Segments, Types
    <3> QED BY <1>3, <2>1, <3>1 DEF Segments
  <2>2. CASE /\ sxOpen' = "yes" /\ body' = Body(piece)
             /\ piece[1] = "F0" \/ sxOpen = "yes"
    <3>1. piece[1] = "F0" \/ seg = "open"
      BY <1>3, <2>2 DEF Segments
    <3>2. seg' = IF Malformed(piece) \/ Ends(piece) THEN "none" ELSE "open"
      BY <1>3, <3>1
    <3>3. PICK b, p, m, n : /\ b = Body(piece) /\ p = Payload(piece)
                            /\ m = Len(piece) /\ n = Len(p)
      OBVIOUS
    <3>4. /\ \A i \in 1 .. n : p[i] = piece[i + 1]
          /\ n = IF piece[m] \in {"F0", "F7"} THEN m - 2 ELSE m - 1
      <4>1. \A k \in 0 .. m : /\ k >= 1 => Len(SubSeq(piece, 2, k)) = k - 1
                              /\ \A i \in 1 .. k - 1 : SubSeq(piece, 2, k)[i] = piece[i + 1]
        BY <1>1, <3>3
      <4>2. CASE piece[m] \in {"F0", "F7"}
        <5>1. p = SubSeq(piece, 2, m - 1)
          BY <3>3, <4>2 DEF Payload
        <5>2. m - 1 \in 0 .. m /\ m - 1 >= 1
          BY <1>1, <3>3
        <5> QED BY <1>1, <3>3, <4>1, <4>2, <5>1, <5>2
      <4>3. CASE piece[m] \notin {"F0", "F7"}
        <5>1. p = SubSeq(piece, 2, m)
          BY <3>3, <4>3 DEF Payload
        <5>2. m \in 0 .. m /\ m >= 1
          BY <1>1, <3>3
        <5> QED BY <1>1, <3>3, <4>1, <4>3, <5>1, <5>2
      <4> QED BY <4>2, <4>3
    <3>5. m \in Nat /\ m >= 2 /\ n \in Nat
      BY <1>1, <3>3
    <3>6. CASE Malformed(piece)
      <4>1. PICK i \in 2 .. m : /\ piece[i] \notin Data
                                /\ ~(i = m /\ piece[i] \in {"F0", "F7"})
        BY <3>3, <3>6 DEF Malformed
      <4>2. i - 1 \in 1 .. n /\ p[i - 1] = piece[i]
        BY <3>4, <3>5, <4>1
      <4>3. \E k \in 1 .. Len(b) : b[k] \notin Data
        <5>1. CASE Ends(piece)
          <6>1. b = Append(p, "end")
            BY <1>2, <3>3, <5>1
          <6>2. Len(b) = n + 1 /\ b[i - 1] = p[i - 1]
            BY <1>1, <3>3, <4>2, <6>1
          <6> QED BY <3>5, <4>1, <4>2, <6>2
        <5>2. CASE ~Ends(piece)
          <6>1. b = p
            BY <1>2, <3>3, <5>2
          <6> QED BY <3>3, <4>1, <4>2, <6>1
        <5> QED BY <5>1, <5>2
      <4>4. b # <<>>
        BY <4>3
      <4> QED BY <2>2, <3>2, <3>3, <3>6, <4>3, <4>4 DEF Segments
    <3>7. CASE ~Malformed(piece) /\ Ends(piece)
      <4>1. b = Append(p, "end") /\ p \in Seq(Byte)
        BY <1>1, <1>2, <3>3, <3>7
      <4>2. b # <<>> /\ Len(b) = n + 1 /\ b[n + 1] = "end"
        BY <3>3, <4>1
      <4>3. \E k \in 1 .. Len(b) : b[k] \notin Data
        BY <3>5, <4>2, BytesApart
      <4> QED BY <2>2, <3>2, <3>3, <3>7, <4>2, <4>3 DEF Segments
    <3>8. CASE ~Malformed(piece) /\ ~Ends(piece)
      <4>1. b = p /\ piece[m] # "F7"
        BY <1>2, <3>3, <3>8 DEF Ends
      <4>2. ASSUME NEW i \in 1 .. n
            PROVE  p[i] \in Data
        <5>1. i + 1 \in 2 .. m /\ p[i] = piece[i + 1]
          BY <3>4, <3>5
        <5>2. piece[i + 1] \in Data \/ (i + 1 = m /\ piece[i + 1] \in {"F0", "F7"})
          BY <3>3, <3>8, <5>1 DEF Malformed
        <5>3. ~(i + 1 = m /\ piece[i + 1] \in {"F0", "F7"})
          BY <3>4, <3>5
        <5> QED BY <5>1, <5>2, <5>3
      <4> QED BY <2>2, <3>2, <3>3, <3>8, <4>1, <4>2 DEF Segments
    <3> QED BY <3>6, <3>7, <3>8
  <2> QED BY <1>6, <2>1, <2>2
<1> QED BY <1>7, <1>8, <1>9

LEMMA RtpSysExByteStep ==
    ASSUME Open, RtpSysExByte
    PROVE  Open'
<1> USE DEF Open
<1>1. /\ body # <<>> /\ sxOpen = "yes" /\ out = <<>>
      /\ UNCHANGED <<table, out, lastDev, usb, seg, expected>>
  BY DEF RtpSysExByte, Callbacks
<1>2. /\ Head(body) = body[1] /\ Len(body) \in Nat /\ Len(body) >= 1
      /\ Tail(body) \in Seq(Byte \cup {"end"}) /\ Len(Tail(body)) = Len(body) - 1
      /\ \A i \in 1 .. Len(Tail(body)) : Tail(body)[i] = body[i + 1]
      /\ \A i \in 1 .. Len(Tail(body)) : Tail(body)[i] = "end" => i = Len(Tail(body))
  BY <1>1, TailFacts
<1>3. CASE Head(body) \in Data
  <2>1. SxByte(Head(body)) /\ body' = Tail(body) /\ UNCHANGED <<sxOpen, returned>>
    BY <1>3 DEF RtpSysExByte
  <2>2. Append(sxPend, Head(body)) \in Seq(Sent)
    BY <1>3 DEF Types, Sent, Byte
  <2>3. ASSUME Triple PROVE (Types /\ Callbacks)'
    <3>1. PICK ok \in {"yes", "no"} : /\ Written(Append(sxPend, Head(body)), ok)
                                      /\ sxOk' = OkSoFar(sxOk, ok) /\ sxPend' = <<>>
      BY <2>1, <2>3 DEF SxByte
    <3>2. parser' \in Seq(Sent)
      BY <2>2, <3>1, WrittenTypes DEF Types
    <3>3. sxOk' \in {"yes", "no"} /\ sxPend' \in Seq(Data \cup {"F0"}) /\ Len(sxPend') <= 2
      BY <3>1, BothYes
    <3>4. Types'
      BY <1>1, <1>2, <2>1, <3>2, <3>3 DEF Types, table, usb
    <3>5. Callbacks'
      BY <1>1, <2>1 DEF Callbacks, table
    <3> QED BY <3>4, <3>5
  <2>4. ASSUME ~Triple PROVE (Types /\ Callbacks)'
    <3>1. sxPend' = Append(sxPend, Head(body)) /\ UNCHANGED <<sxOk, parser, stray>>
      BY <2>1, <2>4 DEF SxByte
    <3>2. sxPend' \in Seq(Data \cup {"F0"}) /\ Len(sxPend') <= 2
      <4>1. sxPend \in Seq(Data \cup {"F0"}) /\ Len(sxPend) \in Nat /\ Len(sxPend) <= 1
        <5>1. sxPend \in Seq(Data \cup {"F0"}) /\ Len(sxPend) <= 2 /\ Len(sxPend) # 2
          BY <2>4 DEF Types, Triple
        <5>2. PICK k \in Nat : k = Len(sxPend)
          BY <5>1, LenProperties
        <5>3. k <= 1
          BY <5>1, <5>2
        <5> QED BY <5>1, <5>2, <5>3
      <4>2. Len(sxPend') = Len(sxPend) + 1 /\ sxPend' \in Seq(Data \cup {"F0"})
        BY <1>3, <3>1, <4>1
      <4> QED BY <4>1, <4>2
    <3>3. Types'
      BY <1>1, <1>2, <2>1, <3>1, <3>2 DEF Types, table, usb
    <3>4. Callbacks'
      BY <1>1, <2>1 DEF Callbacks, table
    <3> QED BY <3>3, <3>4
  <2>5. Segments'
    <3>0. PICK t, n, m : t = body' /\ n = Len(body) /\ m = Len(body')
      OBVIOUS
    <3>a. /\ n \in Nat /\ m = n - 1 /\ n >= 1
          /\ \A i \in 1 .. m : t[i] = body[i + 1]
      BY <1>2, <2>1, <3>0
    <3>1. CASE seg = "open"
      <4>0. \A i \in 1 .. n : body[i] \in Data
        BY <3>0, <3>1 DEF Segments
      <4>1. \A i \in 1 .. m : t[i] \in Data
        BY <3>a, <4>0
      <4> QED BY <1>1, <2>1, <3>0, <3>1, <4>1 DEF Segments
    <3>2. CASE seg = "none"
      <4>1. PICK i \in 1 .. n : body[i] \notin Data
        BY <1>1, <3>0, <3>2 DEF Segments
      <4>2. i # 1
        BY <1>2, <1>3, <4>1
      <4>3. i - 1 \in 1 .. m /\ (i - 1) + 1 = i
        BY <3>a, <4>1, <4>2
      <4>4. t[i - 1] \notin Data
        BY <3>a, <4>1, <4>3
      <4>5. body' # <<>>
        BY <3>0, <4>3
      <4> QED BY <1>1, <2>1, <3>0, <3>2, <4>3, <4>4, <4>5 DEF Segments
    <3> QED BY <3>1, <3>2 DEF Types
  <2> QED BY <2>3, <2>4, <2>5
<1>4. CASE Head(body) \notin Data
  <2>1. PICK ok \in {"yes", "no"} : SxEnd(ok) /\ sxOk' = OkSoFar(sxOk, ok) /\ body' = <<>>
    BY <1>4 DEF RtpSysExByte
  <2>2. parser' \in Seq(Sent) /\ sxPend' = <<>> /\ sxOpen' = "no"
    BY <2>1, WrittenTypes, EndPacketTypes DEF SxEnd, Types
  <2>3. Types'
    <3>1. sxOk' \in {"yes", "no"} /\ sxPend' \in Seq(Data \cup {"F0"}) /\ Len(sxPend') <= 2
      BY <2>1, <2>2, BothYes
    <3> QED BY <1>1, <2>1, <2>2, <3>1 DEF Types, table, usb
  <2>4. Callbacks'
    BY <1>1, <2>1, <2>2 DEF Callbacks, table
  <2>5. seg = "none"
    <3>1. body[1] \notin Data
      BY <1>2, <1>4
    <3>2. PICK n : n = Len(body)
      OBVIOUS
    <3>3. n \in Nat /\ n >= 1
      BY <1>2, <3>2
    <3>4. 1 \in 1 .. n
      BY <3>3
    <3> QED BY <3>1, <3>2, <3>4 DEF Types, Segments
  <2>6. Segments'
    BY <1>1, <2>1, <2>2, <2>5 DEF Segments
  <2> QED BY <2>3, <2>4, <2>6
<1> QED BY <1>3, <1>4

\* usbSend() and blankSurface(), which close what is open.
LEMMA Closing ==
    ASSUME Types, sxOpen = "no" => sxPend = <<>>, CloseIf(sxOpen = "yes")
    PROVE  /\ sxOpen' = "no" /\ sxPend' = <<>> /\ sxOk' \in {"yes", "no"}
           /\ parser' \in Seq(Sent) /\ (link = "down" => parser' = parser)
<1>1. CASE sxOpen = "yes"
  <2>1. PICK ok \in {"yes", "no"} : SxEnd(ok) /\ sxOk' = OkSoFar(sxOk, ok)
    BY <1>1 DEF CloseIf
  <2> QED BY <2>1, WrittenTypes, EndPacketTypes, BothYes DEF SxEnd, Types
<1>2. CASE sxOpen = "no"
  BY <1>2 DEF Types, CloseIf
<1> QED BY <1>1, <1>2 DEF Types

LEMMA RtpShortStep ==
    ASSUME Open, RtpShort
    PROVE  Open'
<1> USE DEF Open
<1>1. /\ sxOpen' = "no" /\ sxPend' = <<>> /\ sxOk' \in {"yes", "no"} /\ parser' \in Seq(Sent)
  BY Closing DEF RtpShort, Callbacks
<1>2. /\ body = <<>> /\ body' = <<>> /\ out' = <<<<"msg">>>> /\ seg' = "none"
      /\ UNCHANGED <<table, body, returned, lastDev, usb, expected>>
  BY DEF RtpShort, Idle
<1>3. <<<<"msg">>>> \in Seq(Seq(Sent))
  BY DEF Sent
<1>4. Types'
  BY <1>1, <1>2, <1>3 DEF Types, table, usb
<1>5. Callbacks' /\ Segments'
  BY <1>1, <1>2 DEF Callbacks, Segments, table
<1> QED BY <1>4, <1>5

LEMMA PeerDisconnectedStep ==
    ASSUME Open, NEW s \in Ssrc, PeerDisconnected(s)
    PROVE  Open'
<1> USE DEF Open
<1>1. body = <<>> /\ out = <<>> /\ UNCHANGED <<body, returned, lastDev, usb, expected>>
  BY DEF PeerDisconnected, Idle
<1>2. joined' \subseteq Ssrc
  BY DEF PeerDisconnected, Types
<1>3. CASE FindPeer(s) = {}
  <2>1. UNCHANGED <<peers, out, sxPend, sxOpen, sxOk, parser, stray, seg>>
    BY <1>3 DEF PeerDisconnected
  <2> QED BY <1>1, <1>2, <2>1 DEF Types, Callbacks, Segments, usb
<1>4. CASE FindPeer(s) # {}
  <2>1. peers' = PeersWithout(s)
    BY <1>4 DEF PeerDisconnected
  <2>2. peers' \in Seq(Ssrc)
    <3>1. peers \in Seq(Ssrc) /\ Len(peers) \in Nat /\ Len(peers) >= 1
      BY <1>4 DEF FindPeer, Types
    <3>2. \A j \in 1 .. Len(peers) - 1 :
             (IF peers[j] = s THEN peers[Len(peers)] ELSE peers[j]) \in Ssrc
      BY <3>1
    <3>3. PeersWithout(s) \in [1 .. Len(peers) - 1 -> Ssrc]
      BY <3>2 DEF PeersWithout
    <3> QED BY <2>1, <3>1, <3>3, IsASeq
  <2>3. CASE peers' = <<>>
    <3>1. BlankSurface
      BY <1>4, <2>3 DEF PeerDisconnected
    <3>2. /\ sxOpen' = "no" /\ sxPend' = <<>> /\ sxOk' \in {"yes", "no"} /\ parser' \in Seq(Sent)
      BY <3>1, Closing DEF BlankSurface, ClosedBeforeBlank, Callbacks
    <3>3. out' = BlankFrames /\ seg' = "none"
      BY <3>1 DEF BlankSurface
    <3>4. Types'
      BY <1>1, <1>2, <2>2, <3>2, <3>3, BlankTypes DEF Types, usb
    <3>5. Callbacks' /\ Segments'
      BY <1>1, <3>2, <3>3 DEF Callbacks, Segments
    <3> QED BY <3>4, <3>5
  <2>4. CASE peers' # <<>>
    <3>1. UNCHANGED <<out, sxPend, sxOpen, sxOk, parser, stray, seg>>
      BY <1>4, <2>4 DEF PeerDisconnected
    <3> QED BY <1>1, <1>2, <2>2, <2>4, <3>1 DEF Types, Callbacks, Segments, usb
  <2> QED BY <2>3, <2>4
<1> QED BY <1>3, <1>4

LEMMA PeerConnectedStep ==
    ASSUME Open, NEW s \in Ssrc, PeerConnected(s)
    PROVE  Open'
<1> USE DEF Open
<1>1. /\ joined' = joined \cup {s} /\ peers' = PeersWith(s)
      /\ UNCHANGED <<body, out, sxPend, sxOpen, sxOk, returned, lastDev, usb, parser, seg,
                     expected, stray, ended>>
  BY DEF PeerConnected
<1>2. PeersWith(s) \in Seq(Ssrc)
  <2>1. Append(peers, s) \in Seq(Ssrc) /\ peers \in Seq(Ssrc)
    <3>1. peers \in Seq(Ssrc)
      BY DEF Types
    <3> QED BY <3>1, AppendProperties
  <2>2. PeersWith(s) \in {peers, Append(peers, s)}
    BY DEF PeersWith
  <2> QED BY <2>1, <2>2
<1>3. Types'
  BY <1>1, <1>2 DEF Types, usb
<1>4. Callbacks' /\ Segments'
  BY <1>1, <1>2 DEF Callbacks, Segments
<1> QED BY <1>3, <1>4

LEMMA WriteOutStep ==
    ASSUME Open, WriteOut
    PROVE  Open'
<1> USE DEF Open
<1>1. /\ out # <<>> /\ out' = Tail(out)
      /\ UNCHANGED <<table, body, sxPend, sxOpen, sxOk, lastDev, usb, seg, expected>>
  BY DEF WriteOut
<1>2. Head(out) \in Seq(Sent) /\ Tail(out) \in Seq(Seq(Sent))
  BY <1>1 DEF Types
<1>3. parser' \in Seq(Sent)
  BY <1>2, WrittenTypes DEF WriteOut, Types
<1>4. Types'
  BY <1>1, <1>2, <1>3 DEF Types, table, usb
<1>5. Callbacks' /\ Segments'
  BY <1>1 DEF Callbacks, Segments, table
<1> QED BY <1>4, <1>5

LEMMA OtherStep ==
    ASSUME Open, RtpRealTime \/ BlankCheck \/ HealthTick \/ Attach \/ Detach \/ UNCHANGED vars
    PROVE  Open'
<1> USE DEF Open
<1>1. CASE RtpRealTime
  BY <1>1 DEF RtpRealTime, Types, Callbacks, Segments, table, usb
<1>2. CASE BlankCheck
  <2>1. out' \in Seq(Seq(Sent)) /\ (out' # <<>> => out # <<>>)
    BY <1>2 DEF BlankCheck, Types
  <2> QED BY <1>2, <2>1 DEF BlankCheck, Types, Callbacks, Segments, table, usb
<1>3. CASE HealthTick
  <2>1. /\ body = <<>> /\ body' = <<>> /\ out = <<>> /\ lastDev' = link /\ moves' = 0
        /\ UNCHANGED <<table, body, out, sxOk, returned, link, attaches, parser, expected, stray>>
    BY <1>3 DEF HealthTick, Idle
  <2>2. \/ sxOpen' = "no" /\ sxPend' = <<>> /\ seg' = "none"
        \/ UNCHANGED <<sxOpen, sxPend, seg>>
    BY <1>3 DEF HealthTick
  <2>3. Types'
    <3>1. <<>> \in Seq(Data \cup {"F0"}) /\ Len(<<>>) <= 2
      OBVIOUS
    <3> QED BY <2>1, <2>2, <3>1 DEF Types, table
  <2> QED BY <2>1, <2>2, <2>3 DEF Callbacks, Segments, table
<1>4. CASE Attach
  BY <1>4 DEF Attach, Types, Callbacks, Segments, table
<1>5. CASE Detach
  BY <1>5 DEF Detach, Types, Callbacks, Segments, table
<1>6. CASE UNCHANGED vars
  BY <1>6 DEF vars, Types, Callbacks, Segments, table, usb
<1> QED BY <1>1, <1>2, <1>3, <1>4, <1>5, <1>6

LEMMA OpenStep == Open /\ [Next]_vars => Open'
BY RtpSysExStep, RtpSysExByteStep, RtpShortStep, PeerConnectedStep, PeerDisconnectedStep,
   WriteOutStep, OtherStep DEF Next

-------------------------------------------------------------------------------
(* The peer table.                                                         *)

LEMMA TableStep == Types /\ Table /\ [Next]_vars => Table'
<1> SUFFICES ASSUME Types, Table, [Next]_vars PROVE Table'
  OBVIOUS
<1>1. peers \in Seq(Ssrc) /\ Len(peers) \in Nat
  BY DEF Types
<1>2. /\ {peers[i] : i \in 1 .. Len(peers)} = joined
      /\ \A i, j \in 1 .. Len(peers) : peers[i] = peers[j] => i = j
      /\ IsFiniteSet(joined) /\ Cardinality(joined) = Len(peers)
  BY DEF Table, PeersAgree
<1>3. CASE UNCHANGED <<peers, joined>>
  BY <1>3 DEF Table, PeersAgree
<1>4. ASSUME NEW s \in Ssrc, PeerConnected(s)
      PROVE  Table'
  <2>1. /\ s \in joined \/ Cardinality(joined) < MAX_PEERS
        /\ joined' = joined \cup {s} /\ peers' = PeersWith(s)
    BY <1>4 DEF PeerConnected
  <2>2. CASE s \in joined
    <3>1. FindPeer(s) # {}
      BY <1>2, <2>2 DEF FindPeer
    <3> QED BY <2>1, <2>2, <3>1 DEF PeersWith, Table, PeersAgree
  <2>3. CASE s \notin joined
    <3>1. FindPeer(s) = {}
      BY <1>2, <2>3 DEF FindPeer
    <3>2. Len(peers) # MAX_PEERS
      BY <1>2, <2>1, <2>3, ConstantsAssumption
    <3>3. peers' = Append(peers, s)
      BY <2>1, <3>1, <3>2 DEF PeersWith
    <3>4. PICK n, p : n = Len(peers) /\ p = peers'
      OBVIOUS
    <3>5. /\ n \in Nat /\ Len(p) = n + 1 /\ p[n + 1] = s
          /\ \A i \in 1 .. n : p[i] = peers[i] /\ peers[i] \in joined
      BY <1>1, <1>2, <3>3, <3>4
    <3>6. \A i \in 1 .. n + 1 : i = n + 1 \/ i \in 1 .. n
      BY <3>5
    <3>7. {p[i] : i \in 1 .. n + 1} = joined \cup {s}
      <4>1. 1 .. n + 1 = (1 .. n) \cup {n + 1}
        BY <3>5
      <4>2. joined = {peers[i] : i \in 1 .. n}
        BY <1>2, <3>4
      <4>3. joined \cup {s} \subseteq {p[i] : i \in 1 .. n + 1}
        BY <3>5, <4>1, <4>2
      <4>4. {p[i] : i \in 1 .. n + 1} \subseteq joined \cup {s}
        BY <3>5, <3>6
      <4> QED BY <4>3, <4>4
    <3>8. ASSUME NEW i \in 1 .. n + 1, NEW j \in 1 .. n + 1, p[i] = p[j]
          PROVE  i = j
      <4>1. CASE i \in 1 .. n /\ j \in 1 .. n
        BY <1>2, <3>4, <3>5, <3>8, <4>1
      <4>2. CASE i = n + 1 /\ j \in 1 .. n
        BY <2>3, <3>5, <3>8, <4>2
      <4>3. CASE i \in 1 .. n /\ j = n + 1
        BY <2>3, <3>5, <3>8, <4>3
      <4> QED BY <3>6, <4>1, <4>2, <4>3
    <3>9. IsFiniteSet(joined') /\ Cardinality(joined') = n + 1
      BY <1>2, <2>1, <2>3, <3>4, FS_AddElement
    <3> QED BY <2>1, <3>4, <3>5, <3>7, <3>8, <3>9 DEF Table, PeersAgree
  <2> QED BY <2>2, <2>3
<1>5. ASSUME NEW s \in Ssrc, PeerDisconnected(s)
      PROVE  Table'
  <2>1. joined' = joined \ {s}
    BY <1>5 DEF PeerDisconnected
  <2>2. CASE FindPeer(s) = {}
    <3>1. s \notin joined
      BY <1>2, <2>2 DEF FindPeer
    <3>2. UNCHANGED <<peers, joined>>
      BY <1>5, <2>1, <2>2, <3>1 DEF PeerDisconnected
    <3> QED BY <1>3, <3>2
  <2>3. CASE FindPeer(s) # {}
    <3>1. PICK k \in 1 .. Len(peers) : peers[k] = s
      BY <2>3 DEF FindPeer
    <3>2. peers' = PeersWithout(s)
      BY <1>5, <2>3 DEF PeerDisconnected
    <3>3. PICK n, p : n = Len(peers) /\ p = peers'
      OBVIOUS
    <3>4. /\ n \in Nat /\ n >= 1 /\ k \in 1 .. n /\ k \in Nat
          /\ p = [j \in 1 .. n - 1 |-> IF peers[j] = s THEN peers[n] ELSE peers[j]]
      BY <1>1, <3>1, <3>2, <3>3 DEF PeersWithout
    <3>5. \A j \in 1 .. n : peers[j] = s <=> j = k
      BY <1>2, <3>1, <3>3
    <3>6. Len(p) = n - 1
      <4>1. p \in Seq({peers[i] : i \in 1 .. n}) /\ n - 1 \in Nat
        <5>1. \A j \in 1 .. n - 1 :
                 (IF peers[j] = s THEN peers[n] ELSE peers[j]) \in {peers[i] : i \in 1 .. n}
          BY <3>4
        <5>2. p \in [1 .. n - 1 -> {peers[i] : i \in 1 .. n}]
          BY <3>4, <5>1
        <5> QED BY <3>4, <5>2, IsASeq
      <4>2. DOMAIN p = 1 .. n - 1
        BY <3>4
      <4> QED BY <4>1, <4>2, LenProperties
    \* Where the j-th entry was.
    <3> DEFINE at(j) == IF j = k THEN n ELSE j
    <3>7. \A j \in 1 .. n - 1 : at(j) \in 1 .. n /\ at(j) # k /\ p[j] = peers[at(j)]
      BY <3>4, <3>5
    <3>8. {p[j] : j \in 1 .. n - 1} = joined \ {s}
      <4>1. ASSUME NEW j \in 1 .. n - 1
            PROVE  p[j] \in joined \ {s}
        <5>1. p[j] = peers[at(j)] /\ at(j) \in 1 .. n /\ at(j) # k
          BY <3>7
        <5> QED BY <1>2, <3>3, <3>5, <5>1
      <4>2. ASSUME NEW x \in joined \ {s}
            PROVE  \E j \in 1 .. n - 1 : p[j] = x
        <5>1. PICK i \in 1 .. n : peers[i] = x
          BY <1>2, <3>3
        <5>2. i # k
          BY <3>1, <5>1
        <5>3. CASE i = n
          <6>1. k \in 1 .. n - 1 /\ at(k) = n
            BY <3>4, <5>2, <5>3
          <6> QED BY <3>7, <5>1, <5>3, <6>1
        <5>4. CASE i # n
          <6>1. i \in 1 .. n - 1 /\ at(i) = i
            BY <3>4, <5>2, <5>4
          <6> QED BY <3>7, <5>1, <6>1
        <5> QED BY <5>3, <5>4
      <4> QED BY <4>1, <4>2
    <3>9. ASSUME NEW i \in 1 .. n - 1, NEW j \in 1 .. n - 1, p[i] = p[j]
          PROVE  i = j
      <4>1. at(i) = at(j)
        BY <1>2, <3>3, <3>7, <3>9
      <4> QED BY <3>4, <4>1
    <3>10. IsFiniteSet(joined') /\ Cardinality(joined') = n - 1
      <4>1. s \in joined
        BY <1>2, <3>1
      <4> QED BY <1>2, <2>1, <3>3, <4>1, FS_RemoveElement
    <3>11. Len(peers') = n - 1 /\ {peers'[j] : j \in 1 .. n - 1} = joined'
      BY <2>1, <3>3, <3>6, <3>8
    <3>12. \A i, j \in 1 .. n - 1 : peers'[i] = peers'[j] => i = j
      BY <3>3, <3>9
    <3> QED BY <3>10, <3>11, <3>12 DEF Table, PeersAgree
  <2> QED BY <2>2, <2>3
<1> QED BY <1>3, <1>4, <1>5 DEF Next, vars, table, RtpSysEx, RtpSysExByte, RtpShort, RtpRealTime,
        BlankCheck, WriteOut, HealthTick, Attach, Detach

-------------------------------------------------------------------------------

\* The one session left is the one entry left: its end empties the table, and that
\* closes an open SysEx.
LEMMA FreshStep == Types /\ Table /\ Fresh /\ [Next]_vars => Fresh'
<1> SUFFICES ASSUME Types, Table, Fresh, [Next]_vars PROVE Fresh'
  OBVIOUS
<1>1. CASE UNCHANGED ended /\ (sxOpen' = "yes" => sxOpen = "yes")
  BY <1>1 DEF Fresh
<1>2. ASSUME NEW piece \in Pieces, RtpSysEx(piece)
      PROVE  Fresh'
  BY <1>2, PieceFacts DEF RtpSysEx, SysExBegin, Fresh
<1>3. CASE RtpSysExByte
  BY <1>1, <1>3 DEF RtpSysExByte, SxEnd, table
<1>4. CASE RtpShort
  BY <1>1, <1>4 DEF RtpShort, CloseIf, SxEnd, table
<1>5. ASSUME NEW s \in Ssrc, PeerDisconnected(s)
      PROVE  Fresh'
  <2>1. CASE joined = {s}
    <3>1. peers \in Seq(Ssrc) /\ Len(peers) = 1 /\ peers[1] = s
      <4>1. Cardinality({s}) = 1
        BY FS_Singleton
      <4>2. peers \in Seq(Ssrc) /\ Len(peers) = 1
        BY <2>1, <4>1 DEF Types, Table
      <4>3. peers[1] \in joined
        BY <4>2 DEF Table, PeersAgree
      <4> QED BY <2>1, <4>2, <4>3
    <3>2. 1 \in FindPeer(s)
      BY <3>1 DEF FindPeer
    <3>3. PeersWithout(s) = <<>>
      <4>1. Len(peers) - 1 = 0 /\ 1 .. Len(peers) - 1 = {}
        BY <3>1
      <4>2. PeersWithout(s) \in [1 .. 0 -> Ssrc]
        BY <4>1 DEF PeersWithout
      <4>3. PeersWithout(s) \in Seq(Ssrc) /\ Len(PeersWithout(s)) = 0
        <5>1. PeersWithout(s) \in Seq(Ssrc) /\ DOMAIN PeersWithout(s) = 1 .. 0
          BY <4>2, IsASeq
        <5> QED BY <5>1, LenProperties
      <4> QED BY <4>3, EmptySeq
    <3>4. BlankSurface
      BY <1>5, <3>2, <3>3 DEF PeerDisconnected
    <3>5. sxOpen' # "yes"
      BY <3>4 DEF BlankSurface, ClosedBeforeBlank, CloseIf, SxEnd
    <3> QED BY <3>5 DEF Fresh
  <2>2. CASE joined # {s}
    <3>1. ended' = ended
      BY <1>5, <2>2 DEF PeerDisconnected
    <3>2. sxOpen' = "yes" => sxOpen = "yes"
      BY <1>5 DEF PeerDisconnected, BlankSurface, CloseIf, SxEnd
    <3> QED BY <1>1, <3>1, <3>2
  <2> QED BY <2>1, <2>2
<1>6. CASE HealthTick
  BY <1>1, <1>6 DEF HealthTick, table
<1> QED BY <1>1, <1>2, <1>3, <1>4, <1>5, <1>6 DEF Next, vars, table, PeerConnected, RtpRealTime,
        BlankCheck, WriteOut, Attach, Detach

LEMMA InitInvariant == Init => IInv
<1> SUFFICES ASSUME Init PROVE IInv
  OBVIOUS
<1> USE DEF Init
<1>1. Types
  BY DEF Types
<1>2. Table
  <2>1. IsFiniteSet(joined) /\ Cardinality(joined) = 0
    BY FS_EmptySet
  <2> QED BY <2>1 DEF Table, PeersAgree
<1>3. Callbacks /\ Segments /\ Fresh
  BY DEF Callbacks, Segments, Fresh
<1> QED BY <1>1, <1>2, <1>3 DEF IInv

THEOREM Invariant == Spec => []IInv
<1>1. IInv /\ [Next]_vars => IInv'
  BY OpenStep, TableStep, FreshStep DEF IInv, Open
<1> QED BY InitInvariant, <1>1, PTL DEF Spec

\* The peer table holds each of the library's sessions once, for any table size and
\* any order of its callbacks (rtp_midi.cpp:90-98).
THEOREM PeersFollow == Spec => []PeersAgree
<1>1. IInv => PeersAgree
  BY DEF IInv, Table
<1> QED BY Invariant, <1>1, PTL

\* A SysEx that is open began after the last session's end, whichever callbacks the
\* library repeats or invents and whether or not the data came from a peer of the
\* table (midi_bridge.cpp:538-542).
THEOREM EndsClosed == Spec => []SessionEndsClosed
<1>1. IInv => SessionEndsClosed
  BY DEF IInv, Callbacks, Fresh, SessionEndsClosed
<1> QED BY Invariant, <1>1, PTL

-------------------------------------------------------------------------------
(* Whole messages.  A device that comes and goes within one pass is not    *)
(* noticed (the models' PassMoves); with one move a pass, HealthTick sees  *)
(* each.                                                                   *)

\* A detached device's parser is gone, and HealthTick has seen every move but one.
Moves ==
    /\ link = "down" => parser = <<>>
    /\ moves = IF link = lastDev THEN 0 ELSE 1

\* With what is pending and rest, the message is whole: either all of it is still
\* here, or the device has the beginning.
Good(rest) ==
    \/ sxPend # <<>> /\ sxPend[1] = "F0" /\ expected = sxPend \o rest
    \/ /\ parser # <<>> /\ expected = parser \o sxPend \o rest
       /\ sxPend # <<>> => sxPend[1] \in Data

\* The device was detached since the last HealthTick.
Gone == link = "down" /\ lastDev = "up"

Whole ==
    sxOpen = "yes" /\ sxOk = "yes" /\ ~Gone =>
        \A d \in Seq(Data) : body = d \/ body = Append(d, "end") => Good(d)

WInv == IInv /\ Moves /\ Whole

LEMMA MovesStep == PassMoves \in {0, 1} /\ IInv /\ Moves /\ [Next]_vars => Moves'
<1> SUFFICES ASSUME PassMoves \in {0, 1}, Types, Callbacks, Moves, [Next]_vars PROVE Moves'
  BY DEF IInv
<1>1. ASSUME UNCHANGED usb, lastDev' = lastDev, link = "down" => parser' = parser
      PROVE  Moves'
  BY <1>1 DEF Moves, usb
<1>2. ASSUME NEW piece \in Pieces, RtpSysEx(piece)
      PROVE  Moves'
  <2>1. link = "down" => parser' = parser
    BY <1>2, EndPacketTypes, WrittenTypes DEF RtpSysEx, SysExBegin, Types
  <2> QED BY <1>1, <1>2, <2>1 DEF RtpSysEx
<1>3. CASE RtpSysExByte
  <2>1. link = "down" => parser' = parser
    <3>1. CASE Head(body) \in Data
      <4>1. Append(sxPend, Head(body)) \in Seq(Sent)
        BY <3>1 DEF Types, Sent, Byte
      <4> QED BY <1>3, <3>1, <4>1, WrittenTypes DEF RtpSysExByte, SxByte, Types
    <3>2. CASE Head(body) \notin Data
      BY <1>3, <3>2, EndPacketTypes, WrittenTypes DEF RtpSysExByte, SxEnd, Types
    <3> QED BY <3>1, <3>2
  <2> QED BY <1>1, <1>3, <2>1 DEF RtpSysExByte
<1>4. CASE RtpShort
  <2>1. link = "down" => parser' = parser
    BY <1>4, Closing DEF RtpShort, Callbacks
  <2> QED BY <1>1, <1>4, <2>1 DEF RtpShort
<1>5. ASSUME NEW s \in Ssrc, PeerDisconnected(s)
      PROVE  Moves'
  <2>1. link = "down" => parser' = parser
    <3>1. CASE BlankSurface
      BY <3>1, Closing DEF BlankSurface, ClosedBeforeBlank, Callbacks
    <3>2. CASE parser' = parser
      BY <3>2
    <3> QED BY <1>5, <3>1, <3>2 DEF PeerDisconnected
  <2> QED BY <1>1, <1>5, <2>1 DEF PeerDisconnected
<1>6. CASE WriteOut
  <2>1. Head(out) \in Seq(Sent)
    BY <1>6 DEF WriteOut, Types
  <2>2. link = "down" => parser' = parser
    BY <1>6, <2>1, WrittenTypes DEF WriteOut, Types
  <2> QED BY <1>1, <1>6, <2>2 DEF WriteOut
<1>7. CASE RtpRealTime \/ BlankCheck \/ \E s \in Ssrc : PeerConnected(s)
  BY <1>1, <1>7 DEF RtpRealTime, BlankCheck, PeerConnected
<1>10. CASE UNCHANGED vars
  BY <1>10 DEF vars, usb, Moves
<1>8. CASE HealthTick
  BY <1>8 DEF HealthTick, Moves
<1>9. CASE Attach \/ Detach
  BY <1>9 DEF Attach, Detach, Moves, Types
<1> QED BY <1>2, <1>3, <1>4, <1>5, <1>6, <1>7, <1>8, <1>9, <1>10 DEF Next

LEMMA AppendUnique ==
    ASSUME NEW S, NEW p \in Seq(S), NEW q \in Seq(S), NEW e
    PROVE  /\ Append(p, e) = Append(q, e) => p = q
           /\ Append(p, e) = q => e \in S
<1>1. /\ Len(p) \in Nat /\ Len(q) \in Nat
      /\ Append(p, e) \in Seq(S \cup {e}) /\ Append(q, e) \in Seq(S \cup {e})
      /\ Len(Append(p, e)) = Len(p) + 1 /\ Append(p, e)[Len(p) + 1] = e
      /\ Len(Append(q, e)) = Len(q) + 1
      /\ \A i \in 1 .. Len(p) : Append(p, e)[i] = p[i]
      /\ \A i \in 1 .. Len(q) : Append(q, e)[i] = q[i]
  <2>1. p \in Seq(S \cup {e}) /\ q \in Seq(S \cup {e})
    BY SeqMonotonic
  <2> QED BY <2>1, LenProperties, AppendProperties
<1>2. ASSUME Append(p, e) = Append(q, e)
      PROVE  p = q
  <2>1. Len(p) = Len(q)
    BY <1>1, <1>2
  <2>2. \A i \in 1 .. Len(p) : p[i] = q[i]
    BY <1>1, <1>2, <2>1
  <2> QED BY <2>1, <2>2, SeqEqual
<1>3. ASSUME Append(p, e) = q
      PROVE  e \in S
  <2>1. Len(p) + 1 \in 1 .. Len(q) /\ q[Len(p) + 1] = e
    BY <1>1, <1>3
  <2> QED BY <2>1, ElementOfSeq
<1> QED BY <1>2, <1>3

\* A packet of three bytes that does not end the SysEx.
LEMMA TripleWritten ==
    ASSUME Types, Triple, NEW b \in Data, Written(Append(sxPend, b), "yes")
    PROVE  parser' = IF sxPend[1] = "F0" THEN Append(sxPend, b)
                     ELSE IF parser = <<>> THEN <<>> ELSE parser \o Append(sxPend, b)
<1>1. sxPend \in Seq(Data \cup {"F0"}) /\ Len(sxPend) = 2
  BY DEF Types, Triple
<1>2. PICK p : p = Append(sxPend, b)
  OBVIOUS
<1>3. Len(p) = 3 /\ p[1] = sxPend[1] /\ p[3] = b
  BY <1>1, <1>2
<1>4. ~Short(p)
  <2>1. Len(<<"msg">>) = 1 /\ Len(<<"note">>) = 1
    OBVIOUS
  <2> QED BY <1>3, <2>1 DEF Short
<1>5. ~Ends(p)
  BY <1>3, BytesApart DEF Ends
<1>6. Continues(p) <=> p[1] # "F0"
  BY <1>4 DEF Continues
<1>7. parser' = IF Short(p) \/ Ends(p) \/ (Continues(p) /\ parser = <<>>) THEN <<>>
                ELSE IF p[1] = "F0" THEN p ELSE parser \o p
  BY <1>2 DEF Written
<1> QED BY <1>2, <1>3, <1>4, <1>5, <1>6, <1>7

LEMMA ByteWhole ==
    ASSUME Open, Whole, RtpSysExByte
    PROVE  Whole'
<1>1. CASE Head(body) \notin Data
  BY <1>1 DEF RtpSysExByte, SxEnd, Whole
<1>2. CASE Head(body) \in Data
  <2> SUFFICES ASSUME sxOpen' = "yes", sxOk' = "yes", ~Gone',
                      NEW d \in Seq(Data), body' = d \/ body' = Append(d, "end")
               PROVE  Good(d)'
    BY DEF Whole
  <2>1. /\ body # <<>> /\ SxByte(Head(body)) /\ body' = Tail(body)
        /\ sxOpen' = sxOpen /\ expected' = expected /\ lastDev' = lastDev /\ link' = link
    BY <1>2 DEF RtpSysExByte, usb
  <2>2. PICK b \in Data : b = Head(body)
    BY <1>2
  <2> DEFINE T == Sent \cup {"end"}
             c == <<b>> \o d
  <2>3. /\ parser \in Seq(T) /\ sxPend \in Seq(T) /\ d \in Seq(T) /\ b \in T /\ body \in Seq(T)
        /\ sxPend \in Seq(Data \cup {"F0"})
    <3>1. /\ parser \in Seq(Sent) /\ sxPend \in Seq(Data \cup {"F0"})
          /\ body \in Seq(Byte \cup {"end"})
      BY DEF Open, Types
    <3>2. /\ Sent \subseteq T /\ Data \cup {"F0"} \subseteq T /\ Byte \cup {"end"} \subseteq T
          /\ Data \subseteq T
      BY DEF Sent, Byte
    <3>3. parser \in Seq(T) /\ sxPend \in Seq(T) /\ d \in Seq(T) /\ body \in Seq(T)
      BY <3>1, <3>2, SeqMonotonic
    <3> QED BY <3>1, <3>2, <3>3
  <2>4. c \in Seq(Data) /\ (body = c \/ body = Append(c, "end"))
    <3>1. body = <<b>> \o Tail(body)
      BY <2>1, <2>2, <2>3
    <3>2. <<b>> \o Append(d, "end") = Append(<<b>> \o d, "end")
      OBVIOUS
    <3>3. <<b>> \o d \in Seq(Data)
      OBVIOUS
    <3> QED BY <2>1, <3>1, <3>2, <3>3
  <2>5. sxOk = "yes" /\ ~Gone
    <3>1. sxOk = "yes"
      BY <2>1, BothYes DEF SxByte
    <3> QED BY <2>1, <3>1 DEF Gone
  <2>6. Good(c)
    BY <2>1, <2>4, <2>5 DEF Whole
  <2>7. /\ sxPend \o c = Append(sxPend, b) \o d
        /\ parser \o sxPend \o c = (parser \o Append(sxPend, b)) \o d
    <3>0. PICK U, p, q : U = T /\ p = parser /\ q = sxPend
      OBVIOUS
    <3>a. p \in Seq(U) /\ q \in Seq(U) /\ d \in Seq(U) /\ b \in U
      BY <2>3, <3>0
    <3>1. q \o (<<b>> \o d) = Append(q, b) \o d
      <4>1. <<b>> \in Seq(U) /\ Append(q, b) = q \o <<b>>
        BY <3>a
      <4>2. q \o (<<b>> \o d) = (q \o <<b>>) \o d
        BY <3>a, <4>1, ConcatAssociative
      <4> QED BY <4>1, <4>2
    <3>2. (p \o q) \o (<<b>> \o d) = (p \o Append(q, b)) \o d
      <4>1. <<b>> \in Seq(U) /\ p \o q \in Seq(U)
        BY <3>a, ConcatProperties
      <4>2. Append(q, b) = q \o <<b>>
        BY <3>a
      <4>3. (p \o q) \o (<<b>> \o d) = ((p \o q) \o <<b>>) \o d
        BY <3>a, <4>1, ConcatAssociative
      <4>4. (p \o q) \o <<b>> = p \o (q \o <<b>>)
        BY <3>a, <4>1, ConcatAssociative
      <4> QED BY <4>2, <4>3, <4>4
    <3> HIDE DEF T
    <3> QED BY <3>0, <3>1, <3>2
  <2>8. CASE ~Triple
    <3>1. sxPend' = Append(sxPend, b) /\ parser' = parser
      BY <2>1, <2>2, <2>8 DEF SxByte
    <3>2. sxPend' # <<>> /\ (sxPend # <<>> => sxPend'[1] = sxPend[1]) /\ (sxPend = <<>> => sxPend'[1] = b)
      BY <2>3, <3>1
    <3> HIDE DEF c
    <3>3. CASE sxPend # <<>> /\ sxPend[1] = "F0" /\ expected = sxPend \o c
      BY <2>1, <2>7, <3>1, <3>2, <3>3 DEF Good
    <3>4. CASE /\ parser # <<>> /\ expected = parser \o sxPend \o c
               /\ sxPend # <<>> => sxPend[1] \in Data
      BY <2>1, <2>2, <2>7, <3>1, <3>2, <3>4 DEF Good
    <3> QED BY <2>6, <3>3, <3>4 DEF Good
  <2>9. CASE Triple
    <3>1. Written(Append(sxPend, b), "yes") /\ sxPend' = <<>>
      <4>1. PICK ok \in {"yes", "no"} : /\ Written(Append(sxPend, b), ok)
                                        /\ sxOk' = OkSoFar(sxOk, ok) /\ sxPend' = <<>>
        BY <2>1, <2>2, <2>9 DEF SxByte
      <4>2. ok = "yes"
        BY <4>1, BothYes
      <4> QED BY <4>1, <4>2
    <3>2. parser' = IF sxPend[1] = "F0" THEN Append(sxPend, b)
                    ELSE IF parser = <<>> THEN <<>> ELSE parser \o Append(sxPend, b)
      BY <2>9, <3>1, TripleWritten DEF Open
    <3>3. Append(sxPend, b) # <<>> /\ sxPend # <<>> /\ Append(sxPend, b) \in Seq(T)
          /\ parser \o Append(sxPend, b) \in Seq(T)
      <4>1. sxPend # <<>>
        BY <2>9 DEF Triple
      <4> QED BY <2>3, <4>1
    <3> HIDE DEF c, T
    <3>4. CASE sxPend[1] = "F0" /\ expected = sxPend \o c
      <4>1. parser' = Append(sxPend, b)
        BY <3>2, <3>4
      <4>2. parser' \o <<>> = parser'
        BY <3>3, <4>1, ConcatEmptySeq
      <4> QED BY <2>1, <2>7, <3>1, <3>3, <3>4, <4>1, <4>2 DEF Good
    <3>5. CASE parser # <<>> /\ expected = parser \o sxPend \o c /\ sxPend[1] \in Data
      <4>1. parser' = parser \o Append(sxPend, b)
        BY <3>2, <3>5, BytesApart
      <4>2. parser' # <<>>
        BY <2>3, <3>3, <3>5, <4>1, ConcatEqualIffEmpty
      <4>3. parser' \o <<>> = parser'
        BY <3>3, <4>1, ConcatEmptySeq
      <4> QED BY <2>1, <2>7, <3>1, <3>5, <4>1, <4>2, <4>3 DEF Good
    <3> QED BY <2>6, <3>3, <3>4, <3>5 DEF Good
  <2> QED BY <2>8, <2>9
<1> QED BY <1>1, <1>2

\* The bytes of a piece that ends, or does not end, the message.
LEMMA PieceBody ==
    ASSUME NEW piece \in Pieces, NEW d \in Seq(Data),
           Body(piece) = d \/ Body(piece) = Append(d, "end")
    PROVE  d = Payload(piece)
<1>1. /\ Payload(piece) \in Seq(Byte)
      /\ Body(piece) = IF Ends(piece) THEN Append(Payload(piece), "end") ELSE Payload(piece)
  BY PieceFacts, BodyFacts
<1>2. d \in Seq(Byte) /\ "end" \notin Byte
  <2>1. Data \subseteq Byte
    BY DEF Byte
  <2> QED BY <2>1, SeqMonotonic, BytesApart DEF Byte
<1>3. CASE Ends(piece)
  <2>1. Body(piece) = Append(Payload(piece), "end")
    BY <1>1, <1>3
  <2>2. Body(piece) # d
    BY <1>1, <1>2, <2>1, AppendUnique
  <2> QED BY <1>1, <1>2, <2>1, <2>2, AppendUnique
<1>4. CASE ~Ends(piece)
  <2>1. Body(piece) = Payload(piece)
    BY <1>1, <1>4
  <2>2. Append(d, "end") # Payload(piece)
    BY <1>1, <1>2, AppendUnique
  <2> QED BY <2>1, <2>2
<1> QED BY <1>3, <1>4

LEMMA PieceWhole ==
    ASSUME Open, Whole, NEW piece \in Pieces, RtpSysEx(piece)
    PROVE  Whole'
<1> SUFFICES ASSUME sxOpen' = "yes", sxOk' = "yes", ~Gone',
                    NEW d \in Seq(Data), body' = d \/ body' = Append(d, "end")
             PROVE  Good(d)'
  BY DEF Whole
<1>1. /\ body = <<>> /\ SysExBegin(piece) /\ expected' = Reassemble(piece)
      /\ lastDev' = lastDev /\ link' = link /\ piece[1] \in {"F0", "F7"}
      /\ Payload(piece) \in Seq(Byte)
  BY PieceFacts DEF RtpSysEx, Idle, usb
<1>2. CASE piece[1] = "F0"
  <2>1. sxPend' = <<"F0">> /\ body' = Body(piece)
    BY <1>1, <1>2 DEF SysExBegin
  <2>2. d = Payload(piece)
    BY <2>1, PieceBody
  <2>3. expected' = <<"F0">> \o d
    BY <1>1, <1>2, <2>2 DEF Reassemble
  <2> QED BY <2>1, <2>3 DEF Good
<1>3. CASE piece[1] # "F0"
  <2>1. /\ UNCHANGED <<sxOpen, sxOk, sxPend, parser, stray>> /\ sxOpen = "yes"
        /\ body' = Body(piece) /\ expected' = expected \o Payload(piece)
    BY <1>1, <1>3 DEF SysExBegin, Reassemble
  <2>2. d = Payload(piece)
    BY <2>1, PieceBody
  <2>3. Good(<<>>)
    <3>1. <<>> \in Seq(Data) /\ ~Gone
      BY <1>1 DEF Gone
    <3> QED BY <1>1, <2>1, <3>1 DEF Whole
  <2> DEFINE T == Sent
  <2>4. parser \in Seq(T) /\ sxPend \in Seq(T) /\ d \in Seq(T)
    <3>1. parser \in Seq(Sent) /\ sxPend \in Seq(Data \cup {"F0"})
      BY DEF Open, Types
    <3>2. Data \cup {"F0"} \subseteq Sent /\ Data \subseteq Sent
      BY DEF Sent, Byte
    <3> QED BY <3>1, <3>2, SeqMonotonic
  <2>5. parser \o sxPend \in Seq(T)
    BY <2>4, ConcatProperties
  <2>6. sxPend \o <<>> = sxPend /\ (parser \o sxPend) \o <<>> = parser \o sxPend
    BY <2>4, <2>5, ConcatEmptySeq
  <2>7. \/ sxPend # <<>> /\ sxPend[1] = "F0" /\ expected = sxPend
        \/ /\ parser # <<>> /\ expected = parser \o sxPend
           /\ sxPend # <<>> => sxPend[1] \in Data
    BY <2>3, <2>6 DEF Good
  <2>8. sxPend' = sxPend /\ parser' = parser /\ expected' = expected \o d
    BY <2>1, <2>2
  <2> QED BY <2>7, <2>8 DEF Good
<1> QED BY <1>2, <1>3

LEMMA WholeStep == PassMoves \in {0, 1} /\ WInv /\ [Next]_vars => Whole'
<1> SUFFICES ASSUME PassMoves \in {0, 1}, Open, Moves, Whole, [Next]_vars PROVE Whole'
  BY DEF WInv, IInv, Open
<1>1. ASSUME UNCHANGED <<body, sxPend, sxOpen, sxOk, parser, expected>>, Gone => Gone'
      PROVE  Whole'
  BY <1>1 DEF Whole, Good
<1>2. ASSUME sxOpen' = "no"
      PROVE  Whole'
  BY <1>2 DEF Whole
<1>3. CASE RtpShort
  <2>1. sxOpen' = "no"
    BY <1>3, Closing DEF RtpShort, Open, Callbacks
  <2> QED BY <1>2, <2>1
<1>4. ASSUME NEW s \in Ssrc, PeerDisconnected(s)
      PROVE  Whole'
  <2>1. UNCHANGED <<body, expected, lastDev, link>>
    BY <1>4 DEF PeerDisconnected, usb
  <2>2. CASE BlankSurface
    <3>1. sxOpen' = "no"
      BY <2>2, Closing DEF BlankSurface, ClosedBeforeBlank, Open, Callbacks
    <3> QED BY <1>2, <3>1
  <2>3. CASE UNCHANGED <<out, sxPend, sxOpen, sxOk, parser, stray, seg>>
    BY <1>1, <2>1, <2>3 DEF Gone
  <2> QED BY <1>4, <2>2, <2>3 DEF PeerDisconnected
<1>5. ASSUME NEW s \in Ssrc, PeerConnected(s)
      PROVE  Whole'
  BY <1>1, <1>5 DEF PeerConnected, usb, Gone
<1>6. CASE RtpRealTime \/ BlankCheck
  BY <1>1, <1>6 DEF RtpRealTime, BlankCheck, usb, Gone
<1>7. CASE WriteOut
  <2>1. sxOpen' = "no"
    BY <1>7 DEF WriteOut, Open, Callbacks
  <2> QED BY <1>2, <2>1
<1>8. CASE HealthTick
  <2>1. CASE DeviceEdge
    BY <1>2, <1>8, <2>1 DEF HealthTick
  <2>2. CASE ~DeviceEdge
    <3>1. UNCHANGED <<body, sxPend, sxOpen, sxOk, parser, expected>> /\ ~Gone
      BY <1>8, <2>2 DEF HealthTick, DeviceEdge, Gone
    <3> QED BY <1>1, <3>1
  <2> QED BY <2>1, <2>2
<1>9. CASE Attach
  <2>1. moves = 0 /\ link = "down"
    BY <1>9 DEF Attach, Moves
  <2>2. lastDev = "down" /\ parser = <<>>
    BY <2>1 DEF Moves
  <2>3. UNCHANGED <<body, sxPend, sxOpen, sxOk, parser, expected>> /\ ~Gone
    BY <1>9, <2>2 DEF Attach, Gone
  <2> QED BY <1>1, <2>3
<1>10. CASE Detach
  <2>1. moves = 0 /\ link = "up"
    BY <1>10 DEF Detach, Moves
  <2>2. lastDev = "up"
    BY <2>1 DEF Moves
  <2>3. Gone'
    BY <1>10, <2>2 DEF Detach, Gone
  <2> QED BY <2>3 DEF Whole
<1>11. CASE UNCHANGED vars
  <2>1. UNCHANGED <<body, sxPend, sxOpen, sxOk, parser, expected, link, lastDev>>
    BY <1>11 DEF vars, usb
  <2> QED BY <1>1, <2>1 DEF Gone
<1> QED BY <1>3, <1>4, <1>5, <1>6, <1>7, <1>8, <1>9, <1>10, <1>11, PieceWhole, ByteWhole DEF Next

LEMMA WholeInvariant == ASSUME PassMoves \in {0, 1} PROVE Spec => []WInv
<1>1. Init => Moves /\ Whole
  BY DEF Init, Moves, Whole
<1>2. WInv /\ [Next]_vars => Moves' /\ Whole'
  BY MovesStep, WholeStep DEF WInv
<1>3. Spec => [](Moves /\ Whole)
  <2>1. Init /\ [][Next]_vars /\ []IInv => [](Moves /\ Whole)
    BY <1>1, <1>2, PTL DEF WInv
  <2> QED BY Invariant, <2>1, PTL DEF Spec
<1> QED BY <1>3, Invariant, PTL DEF WInv

LEMMA GoodGot ==
    ASSUME NEW rest, Good(rest)
    PROVE  Got(rest)
BY DEF Good, Got

\* Between two segments the message is open, and what the device has, what is pending
\* and what is left of the piece are exactly its bytes (midi_bridge.cpp:279-292).
THEOREM StitchedWhole == ASSUME PassMoves \in {0, 1} PROVE Spec => []Stitched
<1>1. WInv => Stitched
  <2> SUFFICES ASSUME WInv, seg = "open"
               PROVE  sxOpen = "yes" /\ (link = "up" /\ sxOk = "yes" => Got(body))
    BY DEF Stitched
  <2>1. sxOpen = "yes" /\ body \in Seq(Data)
    <3>1. sxOpen = "yes" /\ \A i \in 1 .. Len(body) : body[i] \in Data
      BY DEF WInv, IInv, Callbacks, Segments
    <3>2. body \in Seq(Byte \cup {"end"})
      BY DEF WInv, IInv, Types
    <3>3. Len(body) \in Nat /\ body \in [1 .. Len(body) -> Data]
      BY <3>1, <3>2, LenProperties
    <3> QED BY <3>1, <3>3, SeqDef
  <2>2. link = "up" /\ sxOk = "yes" => Good(body)
    BY <2>1 DEF WInv, Whole, Gone
  <2> QED BY <2>1, <2>2, GoodGot
<1> QED BY <1>1, WholeInvariant, PTL

\* A SysEx counted as returned was queued whole, for a device that was attached all
\* along, and is closed (midi_bridge.cpp:293-296, 391-396).
THEOREM ReturnedWhole == ASSUME PassMoves \in {0, 1} PROVE Spec => CountedWhole
<1>1. WInv /\ [Next]_vars =>
        [returned' # returned /\ body # <<>> => link = "up" /\ Got(<<>>) /\ parser' = <<>>]_vars
  <2> SUFFICES ASSUME WInv, [Next]_vars, returned' # returned, body # <<>>
               PROVE  link = "up" /\ Got(<<>>) /\ parser' = <<>>
    OBVIOUS
  <2>1. Types /\ out = <<>> /\ sxOpen = "yes"
    BY DEF WInv, IInv, Callbacks
  <2>2. RtpSysExByte
    BY <2>1 DEF Next, vars, RtpSysEx, RtpShort, RtpRealTime, PeerConnected, PeerDisconnected,
       BlankCheck, WriteOut, HealthTick, Attach, Detach, Idle
  <2>3. PICK ok \in {"yes", "no"} : /\ SxEnd(ok) /\ sxOk' = OkSoFar(sxOk, ok)
                                    /\ Head(body) = "end" /\ sxOk' = "yes"
    BY <2>2 DEF RtpSysExByte
  <2>4. ok = "yes" /\ sxOk = "yes"
    BY <2>3, BothYes
  <2>5. link = "up" /\ parser' = <<>>
    BY <2>1, <2>3, <2>4, EndPacketTypes DEF SxEnd, Written
  <2>6. body = Append(<<>>, "end")
    <3>1. body \in Seq(Byte \cup {"end"}) /\ Len(body) \in Nat /\ Len(body) >= 1 /\ body[1] = "end"
      BY <2>1, <2>3, TailFacts DEF Types
    <3>2. Len(body) = 1
      <4>1. PICK n \in Nat : n = Len(body)
        BY <3>1
      <4>2. 1 \in 1 .. n
        BY <3>1, <4>1
      <4> QED BY <2>1, <3>1, <4>1, <4>2 DEF Types
    <3>3. body = <<"end">>
      BY <3>1, <3>2
    <3> QED BY <3>3
  <2>7. Good(<<>>)
    <3>1. ~Gone /\ <<>> \in Seq(Data)
      BY <2>5 DEF Gone
    <3> QED BY <2>1, <2>4, <2>6, <3>1 DEF WInv, Whole
  <2> QED BY <2>5, <2>7, GoodGot
<1> QED BY <1>1, WholeInvariant, PTL DEF Spec, CountedWhole

===============================================================================
