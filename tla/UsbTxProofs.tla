----------------------------- MODULE UsbTxProofs -----------------------------
(***************************************************************************)
(* What UsbTx says of its packets, proved for every queue length, transfer *)
(* size and number of packets and attachments: each one written is         *)
(* accounted for, they go out in the order written, and only to the device *)
(* they were written for.                                                  *)
(***************************************************************************)
EXTENDS UsbTx, SequenceTheorems, TLAPS

Rising(s) == \A i, j \in 1 .. Len(s) : i < j => s[i] < s[j]
Before(s, t) == \A i \in 1 .. Len(s), j \in 1 .. Len(t) : s[i] < t[j]
Within(s, lo, hi) == \A i \in 1 .. Len(s) : lo < s[i] /\ s[i] <= hi

-------------------------------------------------------------------------------
(* Sequences.                                                              *)

\* A rising sequence cut in two.
LEMMA Split ==
    ASSUME NEW q \in Seq(Nat), NEW k \in 0 .. Len(q)
    PROVE  LET a == SubSeq(q, 1, k)
               b == SubSeq(q, k + 1, Len(q))
           IN /\ a \in Seq(Nat) /\ b \in Seq(Nat)
              /\ Len(a) = k /\ Len(b) = Len(q) - k
              /\ Rising(q) => Rising(a) /\ Rising(b) /\ Before(a, b)
              /\ \A lo, hi \in Nat : Within(q, lo, hi) => Within(a, lo, hi) /\ Within(b, lo, hi)
              /\ \A t \in Seq(Nat) : Before(t, q) => Before(t, a) /\ Before(t, b)
<1> DEFINE a == SubSeq(q, 1, k)
           b == SubSeq(q, k + 1, Len(q))
<1>1. Len(q) \in Nat /\ k \in Nat /\ \A i \in 1 .. Len(q) : q[i] \in Nat
  BY LenProperties, ElementOfSeq
<1>2. /\ a \in Seq(Nat) /\ Len(a) = k
      /\ \A i \in 1 .. Len(a) : i \in 1 .. Len(q) /\ a[i] = q[i] /\ a[i] \in Nat
  <2>1. \A i \in 1 .. k : q[i] \in Nat
    BY <1>1
  <2>2. /\ a \in Seq(Nat)
        /\ Len(a) = IF 1 <= k THEN k - 1 + 1 ELSE 0
        /\ \A i \in 1 .. k - 1 + 1 : a[i] = q[1 + i - 1]
    BY <1>1, <2>1, SubSeqProperties
  <2> QED
    BY <1>1, <2>2
<1>3. /\ b \in Seq(Nat) /\ Len(b) = Len(q) - k
      /\ \A i \in 1 .. Len(b) : k + i \in 1 .. Len(q) /\ b[i] = q[k + i] /\ b[i] \in Nat
  <2>1. \A i \in k + 1 .. Len(q) : q[i] \in Nat
    BY <1>1
  <2>2. /\ b \in Seq(Nat)
        /\ Len(b) = IF k + 1 <= Len(q) THEN Len(q) - (k + 1) + 1 ELSE 0
        /\ \A i \in 1 .. Len(q) - (k + 1) + 1 : b[i] = q[(k + 1) + i - 1]
    BY <1>1, <2>1, SubSeqProperties
  <2> QED
    BY <1>1, <2>2
<1> HIDE DEF a, b
<1>4. Rising(q) => Rising(a) /\ Rising(b) /\ Before(a, b)
  <2>1. ASSUME Rising(q), NEW i \in 1 .. Len(a), NEW j \in 1 .. Len(a), i < j
        PROVE  a[i] < a[j]
    <3>1. i \in 1 .. Len(q) /\ j \in 1 .. Len(q) /\ a[i] = q[i] /\ a[j] = q[j]
      BY <1>2
    <3> QED
      BY <2>1, <3>1 DEF Rising
  <2>2. ASSUME Rising(q), NEW i \in 1 .. Len(b), NEW j \in 1 .. Len(b), i < j
        PROVE  b[i] < b[j]
    <3>1. /\ k + i \in 1 .. Len(q) /\ k + j \in 1 .. Len(q) /\ k + i < k + j
          /\ b[i] = q[k + i] /\ b[j] = q[k + j]
      <4>1. k + i \in 1 .. Len(q) /\ b[i] = q[k + i]
        BY <1>3
      <4>2. k + j \in 1 .. Len(q) /\ b[j] = q[k + j]
        BY <1>3
      <4>3. k + i < k + j
        <5>1. Len(b) \in Nat /\ i \in Int /\ j \in Int /\ i < j
          BY <1>3, <2>2, LenProperties
        <5> QED BY <1>1, <5>1
      <4> QED BY <4>1, <4>2, <4>3
    <3>2. \A m, n \in 1 .. Len(q) : m < n => q[m] < q[n]
      BY <2>2 DEF Rising
    <3>3. q[k + i] < q[k + j]
      BY <3>1, <3>2
    <3> QED
      BY <3>1, <3>3, Zenon
  <2>3. ASSUME Rising(q), NEW i \in 1 .. Len(a), NEW j \in 1 .. Len(b)
        PROVE  a[i] < b[j]
    <3>1. /\ i \in 1 .. Len(q) /\ k + j \in 1 .. Len(q) /\ i < k + j
          /\ a[i] = q[i] /\ b[j] = q[k + j]
      <4>1. i \in 1 .. Len(q) /\ a[i] = q[i]
        BY <1>2
      <4>2. k + j \in 1 .. Len(q) /\ b[j] = q[k + j]
        BY <1>3
      <4>3. i < k + j
        <5>1. Len(a) = k /\ i \in 1 .. k /\ j >= 1 /\ j \in Int
          BY <1>2
        <5> QED BY <1>1, <5>1
      <4> QED BY <4>1, <4>2, <4>3
    <3>2. \A m, n \in 1 .. Len(q) : m < n => q[m] < q[n]
      BY <2>3 DEF Rising
    <3>3. q[i] < q[k + j]
      BY <3>1, <3>2
    <3> QED
      BY <3>1, <3>3, Zenon
  <2> QED
    BY <2>1, <2>2, <2>3 DEF Rising, Before
<1>5. \A lo, hi \in Nat : Within(q, lo, hi) => Within(a, lo, hi) /\ Within(b, lo, hi)
  BY <1>2, <1>3 DEF Within
<1>6. \A t \in Seq(Nat) : Before(t, q) => Before(t, a) /\ Before(t, b)
  BY <1>2, <1>3 DEF Before
<1> QED
  BY <1>2, <1>3, <1>4, <1>5, <1>6 DEF a, b

\* What holds of the empty sequence.
LEMMA Empty ==
    /\ <<>> \in Seq(Nat) /\ Len(<<>>) = 0
    /\ Rising(<<>>)
    /\ \A t : Before(<<>>, t) /\ Before(t, <<>>)
    /\ \A lo, hi : Within(<<>>, lo, hi)
BY DEF Rising, Before, Within

\* Two sequences one behind the other.
LEMMA Joined ==
    ASSUME NEW a \in Seq(Nat), NEW b \in Seq(Nat)
    PROVE  /\ a \o b \in Seq(Nat) /\ Len(a \o b) = Len(a) + Len(b)
           /\ Rising(a) /\ Rising(b) /\ Before(a, b) => Rising(a \o b)
           /\ \A t \in Seq(Nat) : Before(a, t) /\ Before(b, t) => Before(a \o b, t)
           /\ \A lo, hi \in Nat : Within(a, lo, hi) /\ Within(b, lo, hi) => Within(a \o b, lo, hi)
<1>1. Len(a) \in Nat /\ Len(b) \in Nat
  BY LenProperties
<1>2. /\ a \o b \in Seq(Nat) /\ Len(a \o b) = Len(a) + Len(b)
      /\ \A i \in 1 .. Len(a) + Len(b) :
            (a \o b)[i] = IF i <= Len(a) THEN a[i] ELSE b[i - Len(a)]
  BY ConcatProperties
<1> DEFINE c == a \o b
<1>3. /\ c \in Seq(Nat) /\ Len(c) = Len(a) + Len(b)
      /\ \A i \in 1 .. Len(c) : i <= Len(a) => i \in 1 .. Len(a) /\ c[i] = a[i]
      /\ \A i \in 1 .. Len(c) : i > Len(a) => i - Len(a) \in 1 .. Len(b) /\ c[i] = b[i - Len(a)]
  BY <1>1, <1>2
<1> HIDE DEF c
<1>4. ASSUME Rising(a), Rising(b), Before(a, b), NEW i \in 1 .. Len(c), NEW j \in 1 .. Len(c), i < j
      PROVE  c[i] < c[j]
  <2>0. i \in Int /\ j \in Int /\ i < j
    BY <1>1, <1>3, <1>4
  <2>1. CASE j <= Len(a)
    <3>1. i \in 1 .. Len(a) /\ j \in 1 .. Len(a) /\ c[i] = a[i] /\ c[j] = a[j]
      <4>1. i <= Len(a)
        BY <1>1, <2>0, <2>1
      <4> QED BY <1>3, <2>1, <4>1
    <3> QED
      BY <1>4, <3>1 DEF Rising
  <2>2. CASE i <= Len(a) /\ j > Len(a)
    <3>1. i \in 1 .. Len(a) /\ c[i] = a[i] /\ j - Len(a) \in 1 .. Len(b) /\ c[j] = b[j - Len(a)]
      BY <1>3, <2>2
    <3>2. a[i] < b[j - Len(a)]
      BY <1>4, <3>1 DEF Before
    <3> QED
      BY <3>1, <3>2
  <2>3. CASE i > Len(a)
    <3>1. /\ i - Len(a) \in 1 .. Len(b) /\ j - Len(a) \in 1 .. Len(b) /\ i - Len(a) < j - Len(a)
          /\ c[i] = b[i - Len(a)] /\ c[j] = b[j - Len(a)]
      <4>1. j > Len(a) /\ i - Len(a) < j - Len(a)
        BY <1>1, <2>0, <2>3
      <4>2. i - Len(a) \in 1 .. Len(b) /\ c[i] = b[i - Len(a)]
        BY <1>3, <2>3
      <4>3. j - Len(a) \in 1 .. Len(b) /\ c[j] = b[j - Len(a)]
        BY <1>3, <4>1
      <4> QED BY <4>1, <4>2, <4>3
    <3> QED
      BY <1>4, <3>1 DEF Rising
  <2> QED
    BY <1>1, <2>0, <2>1, <2>2, <2>3
<1>5. ASSUME NEW t \in Seq(Nat), Before(a, t), Before(b, t), NEW i \in 1 .. Len(c), NEW j \in 1 .. Len(t)
      PROVE  c[i] < t[j]
  <2>1. CASE i <= Len(a)
    BY <1>1, <1>3, <1>5, <2>1 DEF Before
  <2>2. CASE i > Len(a)
    BY <1>1, <1>3, <1>5, <2>2 DEF Before
  <2> QED
    BY <1>1, <1>3, <2>1, <2>2
<1>6. ASSUME NEW lo \in Nat, NEW hi \in Nat, Within(a, lo, hi), Within(b, lo, hi), NEW i \in 1 .. Len(c)
      PROVE  lo < c[i] /\ c[i] <= hi
  <2>1. CASE i <= Len(a)
    BY <1>1, <1>3, <1>6, <2>1 DEF Within
  <2>2. CASE i > Len(a)
    BY <1>1, <1>3, <1>6, <2>2 DEF Within
  <2> QED
    BY <1>1, <1>3, <2>1, <2>2
<1>7. Rising(a) /\ Rising(b) /\ Before(a, b) => Rising(c)
  BY <1>4 DEF Rising
<1>8. \A t \in Seq(Nat) : Before(a, t) /\ Before(b, t) => Before(c, t)
  BY <1>5 DEF Before
<1>9. \A lo, hi \in Nat : Within(a, lo, hi) /\ Within(b, lo, hi) => Within(c, lo, hi)
  BY <1>6 DEF Within
<1> QED
  BY <1>3, <1>7, <1>8, <1>9 DEF c

-------------------------------------------------------------------------------
(* The invariant.                                                          *)

\* The last packet that has reached the queue or been dropped.
Limit == IF writePc = "idle" THEN written ELSE written - 1

Parts(h, f, q) ==
    /\ h \in Seq(Nat) /\ Len(h) <= Mps
    /\ f \in Seq(Nat) /\ Len(f) <= Mps
    /\ q \in Seq(Nat) /\ Len(q) <= QueueLen
    /\ h = <<>> \/ f = <<>>
    /\ Rising(h) /\ Rising(f) /\ Rising(q)
    /\ Before(h, q) /\ Before(f, q)

AllWithin(h, f, q, lo, hi) == Within(h, lo, hi) /\ Within(f, lo, hi) /\ Within(q, lo, hi)

\* While a device is being attached, nothing is left to go out but what the queue and
\* a refused submit hold, and nobody is writing.
Attaching ==
    /\ "addr" \in flags => link = "down" /\ writePc = "idle" /\ flight = <<>>
    /\ clientPc = "attach" => "addr" \in flags

Counted ==
    Limit = done + lost + dropped + Len(held) + Len(flight) + Len(queue)

Inv ==
    /\ TypeOK
    /\ Parts(held, flight, queue)
    /\ sent \in 0 .. Limit /\ base \in 0 .. Limit
    /\ AllWithin(held, flight, queue, sent, Limit)
    /\ AllWithin(held, flight, queue, base, Limit)
    /\ Attaching
    /\ Counted

LEMMA InitInv == Init => Inv
<1> SUFFICES ASSUME Init PROVE Inv
  OBVIOUS
<1>1. Parts(held, flight, queue) /\ AllWithin(held, flight, queue, sent, Limit)
      /\ AllWithin(held, flight, queue, base, Limit)
  BY ConstantsAssumption, Empty DEF Init, Parts, AllWithin
<1>2. TypeOK
  BY ConstantsAssumption, Empty DEF Init, TypeOK
<1> QED
  BY <1>1, <1>2, Empty DEF Init, Inv, Limit, Attaching, Counted

-------------------------------------------------------------------------------
(* serviceTx().                                                            *)

\* What it moves between the queue, a refused submit and the transfer stays as it was.
Moved(h, q, h2, f2, q2) ==
    /\ Parts(h2, f2, q2)
    /\ Len(h2) + Len(f2) + Len(q2) = Len(h) + Len(q)
    /\ \A lo, hi \in Nat : AllWithin(h, <<>>, q, lo, hi) => AllWithin(h2, f2, q2, lo, hi)

LEMMA SubmitMoves ==
    ASSUME Parts(held, <<>>, queue), NEW p, Submit(p)
    PROVE  Moved(held, queue, held', flight', queue') /\ halted' \in {"yes", "no"}
<1> DEFINE k == IF Len(queue) < Mps THEN Len(queue) ELSE Mps
           a == SubSeq(queue, 1, k)
           b == SubSeq(queue, k + 1, Len(queue))
<1>1. Len(held) \in Nat /\ Len(queue) \in Nat /\ Mps \in Nat \ {0} /\ QueueLen \in Nat
  BY ConstantsAssumption, LenProperties DEF Parts
<1>2. k \in 0 .. Len(queue) /\ k <= Mps
  BY <1>1
<1> HIDE DEF k
<1>3. /\ a \in Seq(Nat) /\ b \in Seq(Nat)
      /\ Len(a) = k /\ Len(b) = Len(queue) - k
      /\ Rising(a) /\ Rising(b) /\ Before(a, b) /\ Before(held, b)
      /\ \A lo, hi \in Nat : Within(queue, lo, hi) => Within(a, lo, hi) /\ Within(b, lo, hi)
  BY <1>1, <1>2, Split DEF Parts
<1>4. TakenFresh(queue) = a
  BY DEF TakenFresh, k
<1>5. held = <<>> => QueueAfter = b /\ ToSubmit = a
  BY <1>3, <1>4 DEF QueueAfter, ToSubmit
<1>6. held # <<>> => QueueAfter = queue /\ ToSubmit = held
  BY DEF QueueAfter, ToSubmit
<1> HIDE DEF a, b
<1>7. CASE ToSubmit = <<>>
  <2>1. held' = held /\ flight' = <<>> /\ queue' = queue /\ halted' = "no"
    BY <1>7 DEF Submit
  <2> QED
    BY <1>1, <2>1, Empty DEF Moved
<1>8. CASE ToSubmit # <<>> /\ held = <<>>
  <2>1. /\ queue' = b
        /\ (held' = a /\ flight' = <<>>) \/ (held' = <<>> /\ flight' = a)
        /\ halted' \in {"yes", "no"}
    <3>1. CASE p = "ok" /\ device = "on"
      BY <1>5, <1>8, <3>1 DEF Submit
    <3>2. CASE ~(p = "ok" /\ device = "on")
      BY <1>5, <1>8, <3>2 DEF Submit
    <3> QED
      BY <3>1, <3>2
  <2>2. Parts(a, <<>>, b) /\ Parts(<<>>, a, b)
    BY <1>1, <1>2, <1>3, Empty DEF Parts
  <2>3. \A lo, hi \in Nat : AllWithin(<<>>, <<>>, queue, lo, hi)
                => AllWithin(a, <<>>, b, lo, hi) /\ AllWithin(<<>>, a, b, lo, hi)
    BY <1>3, Empty DEF AllWithin
  <2>4. Len(a) + 0 + Len(b) = 0 + Len(queue) /\ 0 + Len(a) + Len(b) = 0 + Len(queue)
    BY <1>1, <1>2, <1>3
  <2> QED
    BY <1>8, <2>1, <2>2, <2>3, <2>4, Empty DEF Moved
<1>9. CASE ToSubmit # <<>> /\ held # <<>>
  <2>1. /\ queue' = queue
        /\ (held' = held /\ flight' = <<>>) \/ (held' = <<>> /\ flight' = held)
        /\ halted' \in {"yes", "no"}
    <3>1. CASE p = "ok" /\ device = "on"
      BY <1>6, <1>9, <3>1 DEF Submit
    <3>2. CASE ~(p = "ok" /\ device = "on")
      BY <1>6, <1>9, <3>2 DEF Submit
    <3> QED
      BY <3>1, <3>2
  <2>2. Parts(held, <<>>, queue) /\ Parts(<<>>, held, queue)
    BY Empty DEF Parts
  <2>3. \A lo, hi \in Nat : AllWithin(held, <<>>, queue, lo, hi) => AllWithin(<<>>, held, queue, lo, hi)
    BY Empty DEF AllWithin
  <2> QED
    BY <1>1, <2>1, <2>2, <2>3, Empty DEF Moved
<1> QED
  BY <1>7, <1>8, <1>9

LEMMA ServiceMoves ==
    ASSUME Parts(held, <<>>, queue), halted \in {"yes", "no"}, pipe \in {"ok", "halted"}, ServiceTx
    PROVE  /\ Moved(held, queue, held', flight', queue')
           /\ link = "down" => flight' = <<>>
           /\ halted' \in {"yes", "no"} /\ pipe' \in {"ok", "halted"}
<1>1. CASE flight' = <<>> /\ UNCHANGED <<queue, held, halted, pipe>>
  <2>1. Len(held) \in Nat /\ Len(queue) \in Nat
    BY LenProperties DEF Parts
  <2> QED
    BY <1>1, <2>1, Empty DEF Moved
<1>2. CASE link # "down" /\ \E p \in {"ok", pipe} : pipe' = p /\ Submit(p)
  BY <1>2, SubmitMoves
<1>3. CASE link # "down" /\ Submit(pipe) /\ UNCHANGED pipe
  BY <1>3, SubmitMoves
<1> QED
  BY <1>1, <1>2, <1>3 DEF ServiceTx

-------------------------------------------------------------------------------
(* The steps.                                                              *)

LEMMA Weaken ==
    ASSUME NEW s \in Seq(Nat), NEW lo \in Nat, NEW hi \in Nat, NEW hi2 \in Nat,
           Within(s, lo, hi), hi <= hi2
    PROVE  Within(s, lo, hi2)
BY ElementOfSeq DEF Within

\* A sequence with a greater number behind it.
LEMMA Appended ==
    ASSUME NEW q \in Seq(Nat), NEW n \in Nat, NEW lo \in Nat, lo < n, NEW b \in Nat, b < n,
           Rising(q), Within(q, lo, n - 1), Within(q, b, n - 1)
    PROVE  LET r == Append(q, n)
           IN /\ r \in Seq(Nat) /\ Len(r) = Len(q) + 1
              /\ Rising(r) /\ Within(r, lo, n) /\ Within(r, b, n)
              /\ \A t \in Seq(Nat) : Before(t, q) /\ Within(t, lo, n - 1) => Before(t, r)
<1> DEFINE r == Append(q, n)
<1>1. Len(q) \in Nat /\ \A i \in 1 .. Len(q) : q[i] \in Nat
  BY LenProperties, ElementOfSeq
<1>2. /\ r \in Seq(Nat) /\ Len(r) = Len(q) + 1
      /\ \A i \in 1 .. Len(r) : (i \in 1 .. Len(q) /\ r[i] = q[i]) \/ (i = Len(q) + 1 /\ r[i] = n)
  BY <1>1, AppendProperties
<1> HIDE DEF r
<1>3. \A x \in Nat : x < n /\ Within(q, x, n - 1) => Within(r, x, n)
  <2> SUFFICES ASSUME NEW x \in Nat, x < n, Within(q, x, n - 1), NEW i \in 1 .. Len(r)
               PROVE  x < r[i] /\ r[i] <= n
    BY DEF Within
  <2>1. CASE i \in 1 .. Len(q) /\ r[i] = q[i]
    <3>1. q[i] \in Nat /\ x < q[i] /\ q[i] <= n - 1
      BY <1>1, <2>1 DEF Within
    <3> QED
      BY <2>1, <3>1
  <2>2. CASE r[i] = n
    BY <2>2
  <2> QED
    BY <1>2, <2>1, <2>2
<1>4. Rising(r)
  <2> SUFFICES ASSUME NEW i \in 1 .. Len(r), NEW j \in 1 .. Len(r), i < j
               PROVE  r[i] < r[j]
    BY DEF Rising
  <2>1. i \in 1 .. Len(q) /\ r[i] = q[i]
    <3>1. Len(r) = Len(q) + 1 /\ i < Len(q) + 1
      BY <1>1, <1>2
    <3> QED BY <1>2, <3>1
  <2>2. CASE j \in 1 .. Len(q) /\ r[j] = q[j]
    BY <2>1, <2>2 DEF Rising
  <2>3. CASE r[j] = n
    <3>1. q[i] \in Nat /\ q[i] <= n - 1
      BY <1>1, <2>1 DEF Within
    <3> QED
      BY <2>1, <2>3, <3>1
  <2> QED
    BY <1>2, <2>2, <2>3
<1>5. \A t \in Seq(Nat) : Before(t, q) /\ Within(t, lo, n - 1) => Before(t, r)
  <2> SUFFICES ASSUME NEW t \in Seq(Nat), Before(t, q), Within(t, lo, n - 1),
                      NEW i \in 1 .. Len(t), NEW j \in 1 .. Len(r)
               PROVE  t[i] < r[j]
    BY DEF Before
  <2>1. t[i] \in Nat /\ t[i] <= n - 1
    BY ElementOfSeq DEF Within
  <2>2. CASE j \in 1 .. Len(q) /\ r[j] = q[j]
    BY <2>2 DEF Before
  <2>3. CASE r[j] = n
    BY <2>1, <2>3
  <2> QED
    BY <1>2, <2>2, <2>3
<1> QED
  BY <1>2, <1>3, <1>4, <1>5 DEF r

\* The parts of Inv that the packets are in, together.
Packets ==
    /\ Parts(held, flight, queue)
    /\ sent \in 0 .. Limit /\ base \in 0 .. Limit
    /\ AllWithin(held, flight, queue, sent, Limit)
    /\ AllWithin(held, flight, queue, base, Limit)
    /\ Counted

packetVars == <<writePc, written, dropped, queue, held, flight, done, lost, base, sent>>

LEMMA PacketsStay == Packets /\ UNCHANGED packetVars => Packets'
BY DEF packetVars, Packets, Parts, AllWithin, Within, Rising, Before, Counted, Limit

\* writePacket(): what is queued comes after all there is.
LEMMA WriteKeeps ==
    ASSUME TypeOK, Packets, WriteCall \/ MidiStep
    PROVE  Packets' /\ TypeOK'
<1>1. /\ written \in Nat /\ Len(held) \in Nat /\ Len(flight) \in Nat /\ Len(queue) \in Nat
      /\ {done, lost, dropped} \subseteq Nat /\ QueueLen \in Nat /\ Limit \in Nat
  <2>1. Len(held) \in Nat /\ Len(flight) \in Nat /\ Len(queue) \in Nat
    BY LenProperties DEF TypeOK
  <2>2. written \in Nat /\ {done, lost, dropped} \subseteq Nat
    BY DEF TypeOK
  <2>3. Limit \in Nat
    <3>1. sent \in 0 .. Limit /\ Limit \in Int
      BY <2>2 DEF Packets, Limit
    <3> QED BY <3>1
  <2>4. QueueLen \in Nat
    BY ConstantsAssumption
  <2> QED BY <2>1, <2>2, <2>3, <2>4
<1>2. CASE WriteCall
  <2>1. Limit' = Limit
    BY <1>1, <1>2 DEF WriteCall, Limit
  <2>2. Packets'
    BY <1>2, <2>1 DEF WriteCall, Packets, Parts, AllWithin, Within, Rising, Before, Counted
  <2> QED
    BY <1>1, <1>2, <2>2 DEF WriteCall, TypeOK, usb
<1>3. CASE WriteWait
  <2>1. Limit' = Limit
    BY <1>1, <1>3 DEF WriteWait, Limit
  <2>2. Packets'
    BY <1>3, <2>1 DEF WriteWait, Packets, Parts, AllWithin, Within, Rising, Before, Counted
  <2> QED
    BY <1>1, <1>3, <2>2 DEF WriteWait, TypeOK, usb
<1>4. CASE WriteDropped
  <2>1. Limit' = Limit + 1 /\ Limit' \in Nat
    BY <1>1, <1>4 DEF WriteDropped, Limit
  <2>2. UNCHANGED <<held, flight, queue, sent, base, done, lost>> /\ dropped' = dropped + 1
    BY <1>4 DEF WriteDropped
  <2>3. Parts(held, flight, queue)'
    BY <2>2 DEF Packets, Parts, Rising, Before
  <2>4. AllWithin(held, flight, queue, sent, Limit)' /\ AllWithin(held, flight, queue, base, Limit)'
    <3>1. sent \in Nat /\ base \in Nat /\ Limit <= Limit'
      BY <1>1, <2>1 DEF Packets
    <3>2. /\ Within(held, sent, Limit') /\ Within(flight, sent, Limit') /\ Within(queue, sent, Limit')
          /\ Within(held, base, Limit') /\ Within(flight, base, Limit') /\ Within(queue, base, Limit')
      BY <1>1, <2>1, <3>1, Weaken DEF Packets, Parts, AllWithin
    <3> QED
      BY <2>2, <3>2 DEF AllWithin, Within
  <2>5. Counted' /\ sent' \in 0 .. Limit' /\ base' \in 0 .. Limit'
    <3>1. PICK l : l = Limit'
      OBVIOUS
    <3>2. l = Limit + 1 /\ Limit \in Nat
      BY <1>1, <2>1, <3>1
    <3>3. sent \in 0 .. l /\ base \in 0 .. l
      BY <3>2 DEF Packets
    <3>4. l = done + lost + (dropped + 1) + Len(held) + Len(flight) + Len(queue)
      <4>1. Limit = done + lost + dropped + Len(held) + Len(flight) + Len(queue)
        BY DEF Packets, Counted
      <4> QED BY <1>1, <3>2, <4>1
    <3>5. Counted'
      BY <2>2, <3>1, <3>4 DEF Counted
    <3> QED BY <2>2, <3>1, <3>3, <3>5
  <2> QED
    BY <1>1, <1>4, <2>3, <2>4, <2>5 DEF WriteDropped, TypeOK, usb, Packets
<1>5. CASE WriteQueued
  <2>1. Limit' = written /\ Limit = written - 1
    BY <1>1, <1>5 DEF WriteQueued, Limit
  <2>2. UNCHANGED <<held, flight, sent, base, done, lost, dropped>> /\ queue' = Append(queue, written)
    BY <1>5 DEF WriteQueued
  <2>3. /\ queue' \in Seq(Nat) /\ Len(queue') = Len(queue) + 1
        /\ Rising(queue') /\ Within(queue', sent, written) /\ Within(queue', base, written)
        /\ Before(held, queue') /\ Before(flight, queue')
    <3>1. sent \in Nat /\ sent < written /\ base \in Nat /\ base < written
      BY <1>1, <2>1 DEF Packets
    <3> QED
      BY <1>1, <2>1, <2>2, <3>1, Appended DEF Packets, Parts, AllWithin
  <2>4. Len(queue') <= QueueLen
    BY <1>1, <1>5, <2>3 DEF WriteQueued, Full, Packets, Parts
  <2>5. Parts(held, flight, queue)'
    BY <2>2, <2>3, <2>4 DEF Packets, Parts, Rising, Before
  <2>6. Within(held, sent, written) /\ Within(flight, sent, written)
        /\ Within(held, base, written) /\ Within(flight, base, written)
    <3>1. sent \in Nat /\ base \in Nat /\ written - 1 \in Nat
      BY <1>1, <2>1 DEF Packets
    <3> QED
      BY <1>1, <2>1, <3>1, Weaken DEF Packets, Parts, AllWithin
  <2>7. AllWithin(held, flight, queue, sent, Limit)' /\ AllWithin(held, flight, queue, base, Limit)'
    BY <2>1, <2>2, <2>3, <2>6 DEF AllWithin
  <2>8. Counted' /\ sent' \in 0 .. Limit' /\ base' \in 0 .. Limit'
    <3>1. PICK l, q : l = Limit' /\ q = Len(queue')
      OBVIOUS
    <3>2. l = Limit + 1 /\ q = Len(queue) + 1
      BY <1>1, <2>1, <2>3, <3>1
    <3>3. sent \in 0 .. l /\ base \in 0 .. l
      BY <1>1, <3>2 DEF Packets
    <3>4. l = done + lost + dropped + Len(held) + Len(flight) + q
      <4>1. Limit = done + lost + dropped + Len(held) + Len(flight) + Len(queue)
        BY DEF Packets, Counted
      <4> QED BY <1>1, <3>2, <4>1
    <3>5. Counted'
      BY <2>2, <3>1, <3>4 DEF Counted
    <3> QED BY <2>2, <3>1, <3>3, <3>5
  <2> QED
    BY <1>1, <1>5, <2>3, <2>4, <2>5, <2>7, <2>8 DEF WriteQueued, TypeOK, usb, Packets
<1> QED
  BY <1>2, <1>3, <1>4, <1>5 DEF MidiStep

\* serviceTx(), with nothing in flight any more, keeps what it moves.
LEMMA MovedKeeps ==
    ASSUME Packets, TypeOK, NEW lo \in Nat,
           AllWithin(held, <<>>, queue, lo, Limit), AllWithin(held, <<>>, queue, base, Limit),
           lo <= Limit,
           Moved(held, queue, held', flight', queue'),
           UNCHANGED <<writePc, written, dropped, lost, base>>,
           sent' = lo, done' + Len(held) + Len(queue) = done + Len(held) + Len(flight) + Len(queue),
           done' \in Nat
    PROVE  Packets'
<1>0. Limit \in Int /\ base \in 0 .. Limit
  <2>1. written \in Nat
    BY DEF TypeOK
  <2>2. Limit \in Int
    BY <2>1 DEF Limit
  <2>3. base \in 0 .. Limit
    BY DEF Packets
  <2> QED BY <2>2, <2>3
<1>1. /\ Len(held) \in Nat /\ Len(flight) \in Nat /\ Len(queue) \in Nat
      /\ done \in Nat /\ lost \in Nat /\ dropped \in Nat
      /\ Limit \in Nat /\ Limit' = Limit /\ base \in Nat
      /\ lost' = lost /\ dropped' = dropped
  <2>1. Len(held) \in Nat /\ Len(flight) \in Nat /\ Len(queue) \in Nat
    BY LenProperties DEF TypeOK
  <2>2. done \in Nat /\ lost \in Nat /\ dropped \in Nat
    BY DEF TypeOK
  <2>3. Limit' = Limit
    BY DEF Limit
  <2>4. Limit \in Nat /\ base \in Nat
    BY <1>0
  <2> QED
    BY <2>1, <2>2, <2>3, <2>4
<1>2. /\ Parts(held', flight', queue')
      /\ Len(held') + Len(flight') + Len(queue') = Len(held) + Len(queue)
      /\ AllWithin(held', flight', queue', lo, Limit)
      /\ AllWithin(held', flight', queue', base, Limit)
  BY <1>1 DEF Moved
<1>3. Len(held') \in Nat /\ Len(flight') \in Nat /\ Len(queue') \in Nat
  BY <1>2, LenProperties DEF Parts
<1>4. Counted'
  <2>1. Limit = done + lost + dropped + Len(held) + Len(flight) + Len(queue)
    BY DEF Packets, Counted
  <2>2. /\ done' + Len(held) + Len(queue) = done + Len(held) + Len(flight) + Len(queue)
        /\ Len(held') + Len(flight') + Len(queue') = Len(held) + Len(queue)
    BY <1>2
  <2>3. done' + lost + dropped + Len(held') + Len(flight') + Len(queue')
            = done + lost + dropped + Len(held) + Len(flight) + Len(queue)
    <3>1. PICK e, g, m, n : /\ e = done' /\ g = Len(held') /\ m = Len(flight') /\ n = Len(queue')
      OBVIOUS
    <3>2. /\ e \in Nat /\ g \in Nat /\ m \in Nat /\ n \in Nat
      BY <1>3, <3>1
    <3>3. /\ e + Len(held) + Len(queue) = done + Len(held) + Len(flight) + Len(queue)
          /\ g + m + n = Len(held) + Len(queue)
      BY <2>2, <3>1
    <3>4. e + lost + dropped + g + m + n = done + lost + dropped + Len(held) + Len(flight) + Len(queue)
      <4>1. PICK a, b, c, d : a = Len(held) /\ b = Len(flight) /\ c = Len(queue) /\ d = done
        OBVIOUS
      <4>2. a \in Nat /\ b \in Nat /\ c \in Nat /\ d \in Nat
        BY <1>1, <4>1
      <4>3. e + a + c = d + a + b + c /\ g + m + n = a + c
        BY <3>3, <4>1
      <4>4. e = d + b
        BY <3>2, <4>2, <4>3
      <4>5. PICK x, y : x = lost /\ y = dropped
        OBVIOUS
      <4>6. x \in Nat /\ y \in Nat
        BY <1>1, <4>5
      <4>7. e + x + y + g + m + n = d + x + y + a + b + c
        BY <3>2, <4>2, <4>3, <4>4, <4>6
      <4> QED BY <4>1, <4>5, <4>7
    <3> QED
      BY <3>1, <3>4
  <2>4. Limit' = done' + lost' + dropped' + Len(held') + Len(flight') + Len(queue')
    BY <1>1, <2>1, <2>3, Zenon
  <2> QED
    BY <2>4 DEF Counted
<1>5. Parts(held, flight, queue)'
  BY <1>2 DEF Parts, Rising, Before
<1>6. AllWithin(held, flight, queue, sent, Limit)' /\ AllWithin(held, flight, queue, base, Limit)'
  BY <1>1, <1>2 DEF AllWithin, Within
<1>7. sent' \in 0 .. Limit' /\ base' \in 0 .. Limit'
  BY <1>1 DEF Packets
<1> QED
  BY <1>4, <1>5, <1>6, <1>7 DEF Packets

\* Without the transfer, the rest is as it should be.
LEMMA WithoutFlight ==
    ASSUME Packets, TypeOK
    PROVE  /\ Parts(held, <<>>, queue)
           /\ AllWithin(held, <<>>, queue, sent, Limit) /\ AllWithin(held, <<>>, queue, base, Limit)
BY Empty, ConstantsAssumption DEF Packets, Parts, AllWithin

LEMMA TxCompletedKeeps ==
    ASSUME Packets, TypeOK, TxCompleted
    PROVE  Packets' /\ TypeOK' /\ (link = "down" => flight' = <<>>)
<1> DEFINE last == flight[Len(flight)]
<1>1. flight # <<>> /\ held = <<>> /\ flight \in Seq(Nat) /\ Len(flight) \in Nat \ {0}
  BY EmptySeq DEF TxCompleted, Packets, Parts
<1>2. /\ Len(flight) \in 1 .. Len(flight) /\ last \in Nat /\ last <= Limit /\ Limit \in Nat
  BY <1>1, ElementOfSeq DEF Packets, AllWithin, Within, Limit, TypeOK
<1>3. Within(queue, last, Limit)
  BY <1>1, <1>2 DEF Packets, Parts, Before, AllWithin, Within
<1>4. AllWithin(held, <<>>, queue, last, Limit)
  BY <1>1, <1>3, Empty DEF AllWithin
<1>5. /\ Moved(held, queue, held', flight', queue')
      /\ link = "down" => flight' = <<>>
      /\ halted' \in {"yes", "no"} /\ pipe' \in {"ok", "halted"}
  BY WithoutFlight, ServiceMoves DEF TxCompleted, TypeOK
<1>6. /\ UNCHANGED <<writePc, written, dropped, lost, base>>
      /\ sent' = last /\ done' = done + Len(flight)
  BY DEF TxCompleted, midi
<1>7. done \in Nat /\ Len(held) \in Nat /\ Len(queue) \in Nat
  BY LenProperties DEF TypeOK
<1>8. Packets'
  <2>1. /\ done' \in Nat
        /\ done' + Len(held) + Len(queue) = done + Len(held) + Len(flight) + Len(queue)
    BY <1>1, <1>6, <1>7
  <2>2. AllWithin(held, <<>>, queue, base, Limit)
    BY WithoutFlight
  <2> HIDE DEF last
  <2> QED
    BY <1>2, <1>4, <1>5, <1>6, <2>1, <2>2, MovedKeeps
<1>9. TypeOK'
  <2>1. /\ held' \in Seq(Nat) /\ Len(held') <= Mps
        /\ flight' \in Seq(Nat) /\ Len(flight') <= Mps
        /\ queue' \in Seq(Nat) /\ Len(queue') <= QueueLen
    BY <1>8 DEF Packets, Parts
  <2>2. done' \in Nat /\ sent' \in Nat
    BY <1>1, <1>2, <1>6, <1>7
  <2> QED
    BY <1>5, <2>1, <2>2 DEF TypeOK, TxCompleted, midi
<1> QED
  BY <1>5, <1>8, <1>9

LEMMA ServiceKeeps ==
    ASSUME Packets, TypeOK, Service
    PROVE  Packets' /\ TypeOK' /\ (link = "down" /\ flight = <<>> => flight' = <<>>)
<1>1. reset' \in {"pending", "none"} /\ device' \in {"none", "on", "gone"}
  BY DEF Service, Escalate, ResetTimeout, ResetPort, TypeOK
<1>2. CASE flight # <<>>
  <2>1. UNCHANGED packetVars /\ UNCHANGED <<halted, pipe>>
    BY <1>2 DEF Service, packetVars, midi
  <2>2. Packets'
    BY <2>1, PacketsStay
  <2> QED
    BY <1>1, <1>2, <2>1, <2>2 DEF TypeOK, Service, packetVars
<1>3. CASE flight = <<>>
  <2>1. ServiceTx
    BY <1>3 DEF Service
  <2>2. /\ Moved(held, queue, held', flight', queue')
        /\ link = "down" => flight' = <<>>
        /\ halted' \in {"yes", "no"} /\ pipe' \in {"ok", "halted"}
    BY <2>1, WithoutFlight, ServiceMoves DEF TypeOK
  <2>3. UNCHANGED <<writePc, written, dropped, lost, base, sent, done>>
    BY DEF Service, midi
  <2>4. done \in Nat /\ Len(held) \in Nat /\ Len(queue) \in Nat /\ Len(flight) = 0
        /\ sent \in Nat /\ sent <= Limit
    BY <1>3, LenProperties, Empty DEF TypeOK, Packets, Limit
  <2>5. Packets'
    <3>1. done' \in Nat
          /\ done' + Len(held) + Len(queue) = done + Len(held) + Len(flight) + Len(queue)
      BY <2>3, <2>4
    <3> QED
      BY <2>2, <2>3, <2>4, <3>1, WithoutFlight, MovedKeeps
  <2> QED
    BY <1>1, <2>2, <2>3, <2>5 DEF TypeOK, Service, Packets, Parts
<1> QED
  BY <1>2, <1>3

LEMMA TxFailedKeeps ==
    ASSUME Packets, TypeOK, TxFailed
    PROVE  Packets' /\ TypeOK' /\ flight' = <<>>
<1>1. /\ UNCHANGED <<writePc, written, dropped, held, queue, done, base, sent>>
      /\ lost' = lost + Len(flight) /\ flight' = <<>>
  BY DEF TxFailed, LostInFlight, midi
<1>2. Limit' = Limit
  BY <1>1 DEF Limit
<1>3. /\ Len(held) \in Nat /\ Len(flight) \in Nat /\ Len(queue) \in Nat
      /\ done \in Nat /\ lost \in Nat /\ dropped \in Nat
  BY LenProperties DEF TypeOK
<1>4. Counted'
  <2>1. Limit = done + lost + dropped + Len(held) + Len(flight) + Len(queue)
    BY DEF Packets, Counted
  <2>2. Limit = done + (lost + Len(flight)) + dropped + Len(held) + 0 + Len(queue)
    BY <1>3, <2>1
  <2> QED
    BY <1>1, <1>2, <2>2, Empty DEF Counted
<1>5. Parts(held, <<>>, queue)' /\ AllWithin(held, <<>>, queue, sent, Limit)'
      /\ AllWithin(held, <<>>, queue, base, Limit)'
  BY <1>1, <1>2, WithoutFlight DEF Parts, AllWithin, Within, Rising, Before
<1>6. Packets'
  BY <1>1, <1>2, <1>4, <1>5 DEF Packets, Parts, AllWithin, Within, Rising, Before
<1>7. TypeOK'
  <2>1. lost' \in Nat /\ flight' \in Seq(Nat) /\ Len(flight') <= Mps
    BY <1>1, <1>3, Empty, ConstantsAssumption
  <2> QED
    BY <1>1, <2>1 DEF TxFailed, TypeOK, midi
<1> QED
  BY <1>1, <1>6, <1>7

\* What is queued and held is discarded, with nothing in flight.
LEMMA Emptied ==
    ASSUME Packets, TypeOK, flight = <<>>,
           queue' = <<>>, held' = <<>>, flight' = <<>>,
           UNCHANGED <<writePc, written, dropped, done, sent>>,
           lost' = lost + Len(held) + Len(queue),
           base' \in 0 .. Limit
    PROVE  Packets' /\ lost' \in Nat
<1>1. /\ Len(held) \in Nat /\ Len(flight) = 0 /\ Len(queue) \in Nat
      /\ done \in Nat /\ lost \in Nat /\ dropped \in Nat
  BY LenProperties, Empty DEF TypeOK
<1>2. Limit' = Limit
  BY DEF Limit
<1>3. Counted'
  <2>1. Limit = done + lost + dropped + Len(held) + Len(flight) + Len(queue)
    BY DEF Packets, Counted
  <2>2. Limit = done + (lost + Len(held) + Len(queue)) + dropped + 0 + 0 + 0
    BY <1>1, <2>1
  <2> QED
    BY <1>2, <2>2, Empty DEF Counted
<1>4. Parts(<<>>, <<>>, <<>>) /\ \A lo, hi : AllWithin(<<>>, <<>>, <<>>, lo, hi)
  BY Empty, ConstantsAssumption DEF Parts, AllWithin
<1>5. Parts(held', flight', queue')
  BY <1>4
<1>6. AllWithin(held', flight', queue', sent', Limit') /\ AllWithin(held', flight', queue', base', Limit')
  BY <1>4
<1>7. sent' \in 0 .. Limit' /\ base' \in 0 .. Limit'
  BY <1>2 DEF Packets
<1>8. Packets'
  BY <1>3, <1>5, <1>6, <1>7 DEF Packets, Parts, AllWithin, Within, Rising, Before
<1> QED
  BY <1>1, <1>8

LEMMA DetachKeeps ==
    ASSUME Packets, TypeOK, DetachFinish
    PROVE  Packets' /\ TypeOK'
<1>1. /\ flight = <<>> /\ queue' = <<>> /\ held' = <<>> /\ flight' = <<>>
      /\ UNCHANGED <<writePc, written, dropped, done, sent, base>>
      /\ lost' = lost + Len(held) + Len(queue)
  BY DEF DetachFinish, LostByDiscard, midi
<1>2. base' \in 0 .. Limit
  BY <1>1 DEF Packets
<1>3. Packets' /\ lost' \in Nat
  BY <1>1, <1>2, Emptied
<1>4. TypeOK'
  <2>1. /\ queue' \in Seq(Nat) /\ Len(queue') <= QueueLen
        /\ held' \in Seq(Nat) /\ Len(held') <= Mps
    BY <1>1, Empty, ConstantsAssumption
  <2> QED
    BY <1>1, <1>3, <2>1 DEF DetachFinish, AfterDetach, TypeOK, midi, usb
<1> QED
  BY <1>3, <1>4

LEMMA ConnectKeeps ==
    ASSUME Packets, TypeOK, Attaching, AttachConnect
    PROVE  Packets' /\ TypeOK'
<1>1. /\ flight = <<>> /\ writePc = "idle"
      /\ queue' = <<>> /\ held' = <<>> /\ flight' = <<>>
      /\ UNCHANGED <<writePc, written, dropped, done, sent>>
      /\ base' = written
  BY DEF AttachConnect, Attaching, QueueAtAttach, midi
<1>2. lost' = lost + Len(held) + Len(queue)
  <2>1. lost' = lost + Len(held) + Len(queue) - 0
    BY <1>1, Empty DEF AttachConnect
  <2> QED
    BY <2>1, LenProperties DEF TypeOK
<1>3. base' \in 0 .. Limit
  BY <1>1 DEF TypeOK, Limit
<1>4. Packets' /\ lost' \in Nat
  BY <1>1, <1>2, <1>3, Emptied
<1>5. TypeOK'
  <2>1. /\ queue' \in Seq(Nat) /\ Len(queue') <= QueueLen
        /\ held' \in Seq(Nat) /\ Len(held') <= Mps
    BY <1>1, Empty, ConstantsAssumption
  <2> QED
    BY <1>1, <1>4, <2>1 DEF AttachConnect, TypeOK, midi
<1> QED
  BY <1>4, <1>5

\* The steps that touch no packet.
LEMMA RestKeeps ==
    ASSUME Packets, TypeOK,
           DevGoneEvent \/ NewDevEvent \/ Unplug \/ PassBegin \/ AttachFail \/ UNCHANGED vars
    PROVE  Packets' /\ TypeOK'
<1>1. UNCHANGED packetVars
  BY DEF DevGoneEvent, NewDevEvent, Unplug, PassBegin, AttachFail, vars, packetVars, midi, usb
<1>2. TypeOK'
  BY DEF DevGoneEvent, NewDevEvent, Unplug, PassBegin, AttachFail, vars, midi, usb, TypeOK, AfterDetach
<1> QED
  BY <1>1, <1>2, PacketsStay

\* A device is attached only once the last one is off the bus.
LEMMA AttachingKeeps ==
    ASSUME Packets, TypeOK, Attaching, [Next]_vars
    PROVE  Attaching'
<1>1. CASE WriteCall
  BY <1>1 DEF WriteCall, Attaching
<1>2. CASE MidiStep
  BY <1>2 DEF MidiStep, WriteQueued, WriteWait, WriteDropped, Attaching
<1>3. CASE TxCompleted
  BY <1>3, TxCompletedKeeps DEF TxCompleted, Attaching, midi
<1>4. CASE TxFailed
  BY <1>4 DEF TxFailed, Attaching, midi
<1>5. CASE DevGoneEvent
  BY <1>5 DEF DevGoneEvent, Attaching, midi
<1>6. CASE NewDevEvent
  BY <1>6 DEF NewDevEvent, InEvents, Attaching, midi
<1>7. CASE Unplug
  BY <1>7 DEF Unplug, Attaching, midi
<1>8. CASE PassBegin
  BY <1>8 DEF PassBegin, AfterDetach, Attaching, midi
<1>9. CASE DetachFinish
  BY <1>9 DEF DetachFinish, AfterDetach, Attaching, midi
<1>10. CASE AttachFail
  BY <1>10 DEF AttachFail, Attaching, midi
<1>11. CASE AttachConnect
  BY <1>11 DEF AttachConnect, Attaching, midi
<1>12. CASE Service
  BY <1>12, ServiceKeeps DEF Service, Attaching, midi
<1>13. CASE UNCHANGED vars
  BY <1>13 DEF vars, Attaching
<1> QED
  BY <1>1, <1>2, <1>3, <1>4, <1>5, <1>6, <1>7, <1>8, <1>9, <1>10, <1>11, <1>12, <1>13
  DEF Next, UsbStep, ClientStep

LEMMA Step == Inv /\ [Next]_vars => Inv'
<1> SUFFICES ASSUME Inv, [Next]_vars PROVE Inv'
  OBVIOUS
<1>1. Packets /\ TypeOK /\ Attaching
  BY DEF Inv, Packets
<1>2. Packets' /\ TypeOK'
  <2>1. CASE WriteCall \/ MidiStep
    BY <1>1, <2>1, WriteKeeps
  <2>2. CASE TxCompleted
    BY <1>1, <2>2, TxCompletedKeeps
  <2>3. CASE TxFailed
    BY <1>1, <2>3, TxFailedKeeps
  <2>4. CASE DetachFinish
    BY <1>1, <2>4, DetachKeeps
  <2>5. CASE AttachConnect
    BY <1>1, <2>5, ConnectKeeps
  <2>6. CASE Service
    BY <1>1, <2>6, ServiceKeeps
  <2>7. CASE DevGoneEvent \/ NewDevEvent \/ Unplug \/ PassBegin \/ AttachFail \/ UNCHANGED vars
    BY <1>1, <2>7, RestKeeps
  <2> QED
    BY <2>1, <2>2, <2>3, <2>4, <2>5, <2>6, <2>7 DEF Next, UsbStep, ClientStep
<1>3. Attaching'
  BY <1>1, AttachingKeeps
<1> QED
  BY <1>2, <1>3 DEF Inv, Packets

THEOREM Invariant == Spec => []Inv
<1> QED
  BY InitInv, Step, PTL DEF Spec

-------------------------------------------------------------------------------
(* What follows.                                                           *)

\* Every variable has its type.
THEOREM TypeCorrect == Spec => []TypeOK
<1>1. Inv => TypeOK
  BY DEF Inv
<1> QED
  BY <1>1, Invariant, PTL

\* What is outstanding, in one sequence: the parts in order, and the packet being
\* written above all of them.
LEMMA OutstandingRises ==
    ASSUME Inv
    PROVE  /\ Outstanding \in Seq(Nat) /\ Rising(Outstanding)
           /\ Len(Outstanding) = Len(held) + Len(flight) + Len(queue) + Len(Pending)
           /\ Within(Outstanding, sent, written)
<1>1. /\ held \in Seq(Nat) /\ flight \in Seq(Nat) /\ queue \in Seq(Nat)
      /\ Rising(held) /\ Rising(flight) /\ Rising(queue)
      /\ Before(held, flight) /\ Before(held, queue) /\ Before(flight, queue)
  BY Empty DEF Inv, Parts
<1>2. written \in Nat /\ sent \in Nat /\ sent <= Limit /\ Limit \in Nat /\ Limit <= written
  BY DEF Inv, TypeOK, Limit
<1>3. /\ Pending \in Seq(Nat) /\ Rising(Pending) /\ Within(Pending, Limit, written)
  <2>1. CASE writePc = "idle"
    BY <2>1, Empty DEF Pending
  <2>2. CASE writePc # "idle"
    <3>1. /\ Pending = <<written>> /\ Limit = written - 1
          /\ Pending \in Seq(Nat) /\ Len(Pending) = 1 /\ Pending[1] = written
      BY <1>2, <2>2 DEF Pending, Limit
    <3>2. \A i \in 1 .. Len(Pending) : i = 1
      BY <3>1
    <3> QED
      BY <1>2, <3>1, <3>2 DEF Rising, Within
  <2> QED
    BY <2>1, <2>2
<1>4. /\ Within(held, sent, Limit) /\ Within(flight, sent, Limit) /\ Within(queue, sent, Limit)
  BY DEF Inv, AllWithin
<1>5. \A s \in Seq(Nat) : Within(s, sent, Limit) => Before(s, Pending)
  <2> SUFFICES ASSUME NEW s \in Seq(Nat), Within(s, sent, Limit),
                      NEW i \in 1 .. Len(s), NEW j \in 1 .. Len(Pending)
               PROVE  s[i] < Pending[j]
    BY DEF Before
  <2>1. s[i] \in Nat /\ Pending[j] \in Nat /\ s[i] <= Limit /\ Limit < Pending[j]
    BY <1>3, ElementOfSeq DEF Within
  <2> QED
    BY <1>2, <2>1
<1>6. Within(Pending, sent, written)
  <2>1. \A j \in 1 .. Len(Pending) : Pending[j] \in Nat
    BY <1>3, ElementOfSeq
  <2> QED
    BY <1>2, <1>3, <2>1 DEF Within
<1> DEFINE a == held \o flight
           b == a \o queue
<1>7. /\ a \in Seq(Nat) /\ Len(a) = Len(held) + Len(flight) /\ Rising(a)
      /\ Before(a, queue) /\ Within(a, sent, Limit)
  BY <1>1, <1>2, <1>4, Joined
<1> HIDE DEF a
<1>8. /\ b \in Seq(Nat) /\ Len(b) = Len(a) + Len(queue) /\ Rising(b) /\ Within(b, sent, Limit)
  BY <1>1, <1>2, <1>4, <1>7, Joined
<1> HIDE DEF b
<1>9. Before(b, Pending) /\ Within(b, sent, written)
  BY <1>2, <1>5, <1>8, Weaken
<1>10. /\ b \o Pending \in Seq(Nat) /\ Len(b \o Pending) = Len(b) + Len(Pending)
       /\ Rising(b \o Pending) /\ Within(b \o Pending, sent, written)
  BY <1>2, <1>3, <1>6, <1>8, <1>9, Joined
<1>11. Outstanding = b \o Pending
  BY DEF Outstanding, a, b
<1> QED
  BY <1>7, <1>8, <1>10, <1>11

\* Each packet written is delivered, lost, dropped or still to be sent, whatever transfer
\* errors, refused submits and detaches come between.
THEOREM EachAccounted == Spec => []Accounted
<1>1. ASSUME Inv PROVE Accounted
  <2>1. /\ Len(held) \in Nat /\ Len(flight) \in Nat /\ Len(queue) \in Nat
        /\ done \in Nat /\ lost \in Nat /\ dropped \in Nat /\ written \in Nat
    BY <1>1, LenProperties DEF Inv, TypeOK
  <2>2. Limit = done + lost + dropped + Len(held) + Len(flight) + Len(queue)
    BY <1>1 DEF Inv, Counted
  <2>3. written = Limit + Len(Pending) /\ Len(Pending) \in Nat
    BY <2>1, Empty DEF Pending, Limit
  <2>4. Len(Outstanding) = Len(held) + Len(flight) + Len(queue) + Len(Pending)
    BY <1>1, OutstandingRises
  <2> QED
    BY <2>1, <2>2, <2>3, <2>4 DEF Accounted
<1> QED
  BY <1>1, Invariant, PTL

\* Packets go out in the order written, none twice.
THEOREM OrderKept == Spec => []InOrder
<1>1. Inv => InOrder
  BY OutstandingRises DEF InOrder, Rising, Within
<1> QED
  BY <1>1, Invariant, PTL

\* None goes to a device that came after it was written.
THEOREM NoneForTheNext == Spec => []OnlyToItsDevice
<1>1. ASSUME Inv PROVE OnlyToItsDevice
  <2>1. \A i \in 1 .. Len(flight) : flight[i] \in Nat /\ base < flight[i]
    BY <1>1, ElementOfSeq DEF Inv, TypeOK, AllWithin, Within
  <2>2. base \in Nat
    BY <1>1 DEF Inv, TypeOK
  <2> QED
    BY <2>1, <2>2 DEF OnlyToItsDevice
<1> QED
  BY <1>1, Invariant, PTL
===============================================================================
