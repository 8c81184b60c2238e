----------------------------- MODULE MidiTaskProofs -----------------------------
(***************************************************************************)
(* The MIDI task's pass implements UplinkPacing, so its bounds hold of the *)
(* pass as well; and for every period of the heartbeat and the snapshot,   *)
(* every length of a pass and every width of millis(): a heartbeat's stop  *)
(* freezes the recorder exactly once, and a reset of the totals is shown.  *)
(***************************************************************************)
EXTENDS MidiTask, TLAPS

-------------------------------------------------------------------------------
(***************************************************************************)
(* For every size of the bucket and every width of millis(): the token     *)
(* bucket never overflows or underflows, bounds the datagrams of every     *)
(* window, and refuses no poll for longer than UPLINK_TOKEN_MS.            *)
(*                                                                         *)
(* The inductive invariant is a budget: from the first poll of a window,   *)
(* each datagram that left and each token still there has been paid for by *)
(* the burst or by the time up to the last refill.                         *)
(***************************************************************************)

T == UPLINK_TOKEN_MS

\* The stored time is refillAt modulo Wrap, and refillAt is no later than the poll.
Anchored ==
    /\ refillMs = refillAt % Wrap
    /\ refillAt <= polled /\ polled <= now /\ mark <= now
    /\ pc = "refill" => refillAt = polled - Elapsed
    /\ pc # "idle" => mark <= polled
    /\ pc = "drain" => tokens > 0

Budget ==
    sent > 0 \/ pc = "drain" => (sent + tokens) * T - refillAt <= UPLINK_BURST * T - mark

\* While a poll has been refused since a datagram could last leave.
Held ==
    /\ waiting # None =>
        /\ pc # "drain"
        /\ pc = "idle" => tokens = 0 /\ polled - refillAt < T
        /\ tokens = 0 => refillAt <= waiting
    /\ waiting # None \/ pc = "refill" => now - polled <= MaxGap

IInv == TypeOK /\ Anchored /\ Budget /\ Held

-------------------------------------------------------------------------------
(* Arithmetic modulo Wrap.                                                 *)

LEMMA WrapType == Wrap \in Nat \ {0} /\ T \in Nat \ {0} /\ T < Wrap
BY ConstantsAssumption DEF T

\* A number is its quotient and remainder.
LEMMA DivMod ==
    ASSUME NEW n \in Nat
    PROVE  n \div Wrap \in Int /\ n % Wrap \in 0 .. Wrap - 1 /\ n = Wrap * (n \div Wrap) + (n % Wrap)
BY WrapType, SMT

\* ... in one way only.
LEMMA ModUnique ==
    ASSUME NEW q \in Int, NEW r \in 0 .. Wrap - 1, NEW x \in Int, x = Wrap * q + r
    PROVE  x % Wrap = r
BY WrapType, SMT

LEMMA Multiples ==
    ASSUME NEW a \in Int, NEW b \in Int, a < b
    PROVE  Wrap * a + Wrap <= Wrap * b
<1>1. b = a + 1 + (b - a - 1)
  OBVIOUS
<1>2. Wrap * (b - a - 1) >= 0
  BY WrapType, SMT
<1> QED BY <1>1, <1>2, WrapType, SMT

\* Unsigned subtraction of two stored times.
LEMMA Difference ==
    ASSUME NEW a \in 0 .. Wrap - 1, NEW b \in 0 .. Wrap - 1
    PROVE  (a - b) % Wrap = IF a >= b THEN a - b ELSE a - b + Wrap
<1>1. CASE a >= b
  BY <1>1, WrapType, SMT
<1>2. CASE a < b
  <2>1. a - b + Wrap \in 0 .. Wrap - 1
    BY <1>2, WrapType, SMT
  <2>2. a - b = Wrap * (-1) + (a - b + Wrap)
    BY WrapType, SMT
  <2> QED BY <1>2, <2>1, <2>2, ModUnique, WrapType, SMT
<1> QED BY <1>1, <1>2

\* What unsigned subtraction finds between a stored time x and the time n leads back
\* to the last time congruent to x: x itself, unless Wrap or more have passed.
LEMMA Latest ==
    ASSUME NEW n \in Nat, NEW x \in Nat, x <= n
    PROVE  LET e == ((n % Wrap) - (x % Wrap)) % Wrap
           IN /\ e \in 0 .. Wrap - 1
              /\ x <= n - e
              /\ (n - e) % Wrap = x % Wrap
              /\ n - x < Wrap => e = n - x
<1> DEFINE qn == n \div Wrap  rn == n % Wrap  qx == x \div Wrap  rx == x % Wrap
<1>1. qn \in Int /\ rn \in 0 .. Wrap - 1 /\ n = Wrap * qn + rn
  BY DivMod, WrapType
<1>2. qx \in Int /\ rx \in 0 .. Wrap - 1 /\ x = Wrap * qx + rx
  BY DivMod, WrapType
<1> HIDE DEF qn, rn, qx, rx
<1> DEFINE Leads(e) == /\ e \in 0 .. Wrap - 1 /\ x <= n - e /\ (n - e) % Wrap = rx
                       /\ n - x < Wrap => e = n - x
<1>3. ASSUME rn >= rx PROVE Leads(rn - rx)
  <2>2. (n - (rn - rx)) % Wrap = rx
    <3>1. n - (rn - rx) = Wrap * qn + rx
      BY <1>1, <1>2, WrapType
    <3> QED BY <3>1, <1>1, <1>2, ModUnique, WrapType
  <2>3. qx <= qn
    <3>1. CASE qn < qx
      BY <3>1, <1>1, <1>2, Multiples, WrapType, SMT
    <3> QED BY <3>1, <1>1, <1>2
  <2>4. Wrap * qx <= Wrap * qn
    <3>1. CASE qx < qn
      BY <3>1, <1>1, <1>2, Multiples, WrapType, SMT
    <3>2. CASE qx = qn
      BY <3>2, <1>1, <1>2, WrapType, SMT
    <3> QED BY <3>1, <3>2, <2>3, <1>1, <1>2
  <2>5. x <= n - (rn - rx)
    BY <2>4, <1>1, <1>2, WrapType
  <2>6. n - x < Wrap => rn - rx = n - x
    <3>1. CASE qx < qn
      BY <3>1, <1>3, <1>1, <1>2, Multiples, WrapType, SMT
    <3>2. CASE qx = qn
      BY <3>2, <1>1, <1>2, WrapType, SMT
    <3> QED BY <3>1, <3>2, <2>3, <1>1, <1>2
  <2> QED BY <2>2, <2>5, <2>6, <1>1, <1>2, <1>3, WrapType
<1>4. ASSUME rn < rx PROVE Leads(rn - rx + Wrap)
  <2>2. (n - (rn - rx + Wrap)) % Wrap = rx
    <3>1. n - (rn - rx + Wrap) = Wrap * (qn - 1) + rx
      BY <1>1, <1>2, WrapType, SMT
    <3> QED BY <3>1, <1>1, <1>2, WrapType, ModUnique
  <2>3. qx < qn
    <3>1. CASE qn < qx
      BY <3>1, <1>1, <1>2, Multiples, WrapType, SMT
    <3>2. CASE qn = qx
      BY <3>2, <1>1, <1>2, <1>4, WrapType, SMT
    <3> QED BY <3>1, <3>2, <1>1, <1>2
  <2>4. Wrap * qx + Wrap <= Wrap * qn
    BY <2>3, <1>1, <1>2, Multiples
  <2>5. x <= n - (rn - rx + Wrap)
    BY <2>4, <1>1, <1>2, WrapType
  <2>6. n - x < Wrap => rn - rx + Wrap = n - x
    <3>1. Wrap * (qx + 1) = Wrap * qx + Wrap
      BY <1>2, WrapType, SMT
    <3>2. CASE qx + 1 < qn
      <4>1. Wrap * (qx + 1) + Wrap <= Wrap * qn
        BY <3>2, <1>1, <1>2, Multiples
      <4> QED BY <4>1, <3>1, <1>4, <1>1, <1>2, WrapType, SMT
    <3>3. CASE qx + 1 = qn
      BY <3>3, <3>1, <1>1, <1>2, WrapType, SMT
    <3> QED BY <3>2, <3>3, <2>3, <1>1, <1>2
  <2> QED BY <2>2, <2>5, <2>6, <1>1, <1>2, <1>4, WrapType
<1> HIDE DEF Leads
<1>5. (rn - rx) % Wrap = IF rn >= rx THEN rn - rx ELSE rn - rx + Wrap
  BY <1>1, <1>2, Difference
<1>6. Leads((rn - rx) % Wrap)
  BY <1>1, <1>2, <1>3, <1>4, <1>5
<1> QED BY <1>6 DEF rn, rx, Leads

LEMMA AddModulo ==
    ASSUME NEW x \in Nat, NEW k \in Nat
    PROVE  ((x % Wrap) + k) % Wrap = (x + k) % Wrap
<1> DEFINE q == x \div Wrap  r == x % Wrap
<1>1. q \in Int /\ r \in 0 .. Wrap - 1 /\ x = Wrap * q + r
  BY DivMod, WrapType
<1> HIDE DEF q, r
<1>2. r + k \in Nat
  BY <1>1, WrapType
<1> DEFINE q2 == (r + k) \div Wrap  r2 == (r + k) % Wrap
<1>3. q2 \in Int /\ r2 \in 0 .. Wrap - 1 /\ r + k = Wrap * q2 + r2
  BY <1>2, DivMod, WrapType
<1> HIDE DEF q2, r2
<1>4. x + k = Wrap * (q + q2) + r2
  BY <1>1, <1>3, WrapType, SMT
<1>5. (x + k) % Wrap = r2
  BY <1>1, <1>3, <1>4, ModUnique, WrapType
<1> QED BY <1>5 DEF r, r2

\* Tokens as milliseconds.
LEMMA Tokens ==
    /\ \A a \in Nat : a * T \in Nat /\ (a + 1) * T = a * T + T
    /\ \A a, b \in Nat : a <= b => a * T <= b * T
BY WrapType, SMT

-------------------------------------------------------------------------------
(* The inductive invariant.                                                *)

LEMMA InitInvariant == Init => IInv
<1> SUFFICES ASSUME Init PROVE IInv
  OBVIOUS
<1>1. TypeOK
  BY ConstantsAssumption, WrapType DEF Init, TypeOK, None
<1>2. 0 % Wrap = 0
  BY WrapType, SMT
<1>3. Anchored /\ Budget /\ Held
  BY <1>2, ConstantsAssumption DEF Init, Anchored, Budget, Held
<1> QED BY <1>1, <1>3 DEF IInv

\* The unsigned subtraction of a poll, as the history sees it.
LEMMA PollTime ==
    ASSUME IInv
    PROVE  /\ Since(now) \in 0 .. Wrap - 1
           /\ refillAt <= now - Since(now)
           /\ refillMs = (now - Since(now)) % Wrap
           /\ now - refillAt < Wrap => Since(now) = now - refillAt
<1>1. now \in Nat /\ refillAt \in Nat /\ refillAt <= now /\ refillMs = refillAt % Wrap
  BY DEF IInv, TypeOK, Anchored
<1> QED BY <1>1, Latest DEF Since

LEMMA PollStep == IInv /\ Poll => IInv'
<1> SUFFICES ASSUME IInv, Poll PROVE IInv'
  OBVIOUS
<1> USE WrapType
<1>1. now - Since(now) \in Nat
  BY PollTime DEF IInv, TypeOK
<1>2. TypeOK'
  BY <1>1 DEF IInv, TypeOK, Poll
<1>3. Elapsed' = Since(now)
  BY DEF Elapsed, Since, Poll
<1>4. Anchored'
  <2>1. refillMs' = refillAt' % Wrap
    BY PollTime DEF Poll
  <2>2. refillAt' <= polled' /\ polled' <= now' /\ mark' <= now' /\ mark' <= polled'
    BY PollTime DEF Poll, IInv, TypeOK, Anchored
  <2>3. refillAt' = polled' - Elapsed'
    BY <1>3 DEF Poll
  <2> QED BY <2>1, <2>2, <2>3 DEF Poll, Anchored
<1>5. Budget'
  <2>1. refillAt <= refillAt' /\ UNCHANGED <<sent, tokens, mark>> /\ pc' = "refill"
    BY PollTime DEF Poll
  <2>2. CASE sent > 0
    <3>1. (sent + tokens) * T - refillAt <= UPLINK_BURST * T - mark
      BY <2>2 DEF IInv, Budget
    <3>2. (sent + tokens) * T \in Nat /\ UPLINK_BURST * T \in Nat
      BY Tokens, ConstantsAssumption DEF IInv, TypeOK
    <3>3. refillAt \in Nat /\ refillAt' \in Nat /\ mark \in Nat
      BY <1>2 DEF IInv, TypeOK
    <3> QED BY <2>1, <3>1, <3>2, <3>3 DEF Budget
  <2>3. CASE ~(sent > 0)
    BY <2>1, <2>3 DEF Budget
  <2> QED BY <2>2, <2>3
<1>6. Held'
  <2>1. now' - polled' <= MaxGap
    BY ConstantsAssumption DEF Poll, IInv, TypeOK
  <2>2. ASSUME waiting # None, tokens = 0 PROVE refillAt' <= waiting
    <3>1. polled - refillAt < T /\ refillAt <= waiting /\ now - polled <= MaxGap
      BY <2>2 DEF IInv, Held, Poll
    <3>2. now - refillAt < Wrap
      BY <3>1, ConstantsAssumption DEF T, IInv, TypeOK
    <3>3. now \in Nat /\ refillAt \in Nat
      BY DEF IInv, TypeOK
    <3> QED BY <3>1, <3>2, <3>3, PollTime DEF Poll
  <2> QED BY <2>1, <2>2 DEF Held, Poll
<1> QED BY <1>2, <1>4, <1>5, <1>6 DEF IInv

LEMMA RefillStep == IInv /\ Refill => IInv'
<1> SUFFICES ASSUME IInv, Refill PROVE IInv'
  OBVIOUS
<1> USE WrapType
<1>1. /\ tokens \in 0 .. UPLINK_BURST - 1 /\ Elapsed >= T /\ pc = "refill"
      /\ refillAt = polled - Elapsed /\ refillMs = refillAt % Wrap
      /\ {polled, refillAt, sent, mark, now} \subseteq Nat
  BY ConstantsAssumption DEF IInv, TypeOK, Anchored, Refill, TokenDue, T
<1>2. Elapsed \in 0 .. Wrap - 1
  <2>1. polled % Wrap \in 0 .. Wrap - 1 /\ refillMs \in 0 .. Wrap - 1
    BY <1>1, DivMod DEF IInv, TypeOK
  <2> QED BY <2>1, Difference DEF Elapsed, Since
<1>3. refillMs' = refillAt' % Wrap /\ refillAt' = refillAt + T
  BY <1>1, AddModulo DEF Refill, T
<1>4. refillAt' \in Nat /\ refillAt' <= polled /\ polled - refillAt' < Wrap
  BY <1>1, <1>2, <1>3
<1>5. TypeOK'
  <2>1. refillMs' \in 0 .. Wrap - 1
    BY <1>3, <1>4, DivMod
  <2>2. tokens' \in 0 .. UPLINK_BURST
    BY <1>1, ConstantsAssumption DEF Refill
  <2> QED BY <2>1, <2>2, <1>4 DEF IInv, TypeOK, Refill
<1>6. Anchored'
  <2>1. Elapsed' = ((polled % Wrap) - (refillAt' % Wrap)) % Wrap
    BY <1>3 DEF Elapsed, Since, Refill
  <2>2. Elapsed' = polled - refillAt'
    BY <2>1, <1>1, <1>4, Latest
  <2>3. refillAt' = polled' - Elapsed'
    BY <2>2, <1>1, <1>4 DEF Refill
  <2> QED BY <2>3, <1>3, <1>4, <1>1 DEF IInv, Anchored, Refill
<1>7. Budget'
  <2>1. tokens' = tokens + 1 /\ UNCHANGED <<sent, mark>> /\ pc' = "refill"
    BY <1>1 DEF Refill
  <2>2. (sent + tokens + 1) * T = (sent + tokens) * T + T /\ (sent + tokens) * T \in Nat
    BY <1>1, Tokens
  <2>3. sent' + tokens' = sent + tokens + 1
    BY <2>1, <1>1
  <2>4. UPLINK_BURST * T \in Nat
    BY Tokens, ConstantsAssumption
  <2>5. sent > 0 => (sent + tokens) * T - refillAt <= UPLINK_BURST * T - mark
    BY DEF IInv, Budget
  <2> QED BY <2>1, <2>2, <2>3, <2>4, <2>5, <1>1, <1>3 DEF Budget
<1>8. Held'
  BY <1>1 DEF IInv, Held, Refill
<1> QED BY <1>5, <1>6, <1>7, <1>8 DEF IInv

LEMMA RefillEndStep == IInv /\ RefillEnd => IInv'
<1> SUFFICES ASSUME IInv, RefillEnd PROVE IInv'
  OBVIOUS
<1> USE WrapType
<1>1. /\ tokens \in 0 .. UPLINK_BURST /\ pc = "refill"
      /\ refillAt = polled - Elapsed /\ mark <= polled /\ refillAt <= polled
      /\ {polled, refillAt, sent, mark, now} \subseteq Nat
      /\ UNCHANGED <<now, polled, tokens, mark, sent>> /\ UPLINK_BURST \in 1 .. 255
  BY ConstantsAssumption DEF IInv, TypeOK, Anchored, RefillEnd
<1>2. /\ tokens = UPLINK_BURST => refillMs' = polled % Wrap /\ refillAt' = polled
      /\ tokens < UPLINK_BURST => /\ refillMs' = refillMs /\ refillAt' = refillAt
                                 /\ polled - refillAt < T
  <2>1. Elapsed \in 0 .. Wrap - 1
    <3>1. polled % Wrap \in 0 .. Wrap - 1 /\ refillMs \in 0 .. Wrap - 1
      BY <1>1, DivMod DEF IInv, TypeOK
    <3> QED BY <3>1, Difference DEF Elapsed, Since
  <2> QED BY <2>1, <1>1 DEF RefillEnd, Restart, TokenDue, T
<1>3. refillMs' = refillAt' % Wrap /\ refillAt' \in Nat /\ refillAt <= refillAt' /\ refillAt' <= polled
  BY <1>1, <1>2 DEF IInv, Anchored
<1>4. TypeOK'
  <2>1. refillMs' \in 0 .. Wrap - 1
    BY <1>3, DivMod
  <2>2. pc' \in {"idle", "drain"} /\ waiting' \in Nat \cup {None}
    BY <1>1 DEF RefillEnd, IInv, TypeOK
  <2> QED BY <2>1, <2>2, <1>1, <1>3 DEF IInv, TypeOK
<1>5. Anchored'
  BY <1>1, <1>3 DEF IInv, Anchored, RefillEnd, Granted
<1>6. Budget'
  <2>1. UPLINK_BURST * T \in Nat /\ tokens * T \in Nat /\ (sent + tokens) * T \in Nat
    BY <1>1, Tokens
  <2>2. CASE sent > 0
    <3>1. (sent + tokens) * T - refillAt <= UPLINK_BURST * T - mark
      BY <2>2 DEF IInv, Budget
    <3>2. (sent + tokens) * T - refillAt' <= UPLINK_BURST * T - mark
      BY <3>1, <2>1, <1>1, <1>3
    <3> QED BY <3>2, <1>1 DEF Budget
  <2>3. CASE sent = 0
    <3>1. tokens * T - refillAt' <= UPLINK_BURST * T - mark
      <4>1. CASE tokens = UPLINK_BURST
        BY <4>1, <2>1, <1>1, <1>2
      <4>2. CASE tokens < UPLINK_BURST
        <5>1. (tokens + 1) * T <= UPLINK_BURST * T
          BY <4>2, <1>1, Tokens
        <5>2. (tokens + 1) * T = tokens * T + T
          BY <1>1, Tokens
        <5>3. refillAt' = refillAt /\ polled - refillAt < T
          BY <4>2, <1>1, <1>2
        <5> QED BY <5>1, <5>2, <5>3, <2>1, <1>1
      <4> QED BY <4>1, <4>2, <1>1
    <3>2. sent' + tokens' = tokens /\ sent' = sent /\ mark' = mark
      BY <2>3, <1>1
    <3> QED BY <3>1, <3>2 DEF Budget
  <2> QED BY <2>2, <2>3, <1>1
<1>7. Held'
  <2>1. CASE tokens > 0
    <3>1. waiting' = None /\ pc' = "drain"
      BY <2>1 DEF RefillEnd, Granted
    <3> QED BY <3>1 DEF Held
  <2>2. CASE tokens = 0
    <3>1. pc' = "idle" /\ refillAt' = refillAt /\ polled - refillAt < T
      BY <2>2, <1>1, <1>2 DEF RefillEnd, Granted
    <3>2. refillAt <= waiting'
      BY <2>2, <1>1 DEF RefillEnd, Granted, IInv, Held
    <3>3. now - polled <= MaxGap
      BY <1>1 DEF IInv, Held
    <3> QED BY <2>2, <3>1, <3>2, <3>3, <1>1 DEF Held
  <2> QED BY <2>1, <2>2, <1>1
<1> QED BY <1>4, <1>5, <1>6, <1>7 DEF IInv

LEMMA SpendStep == IInv /\ Spend => IInv'
<1> SUFFICES ASSUME IInv, Spend PROVE IInv'
  OBVIOUS
<1> USE WrapType
<1>1. /\ tokens \in 1 .. UPLINK_BURST /\ UPLINK_BURST <= 255 /\ pc = "drain" /\ pc' = "idle"
      /\ {polled, refillAt, sent, mark, now} \subseteq Nat
  BY ConstantsAssumption DEF IInv, TypeOK, Anchored, Spend
<1>2. tokens' = tokens - 1
  <2>1. tokens - 1 \in 0 .. 254 /\ tokens' = (tokens - 1) % 256
    BY <1>1, ConstantsAssumption DEF Spend
  <2> QED BY <2>1, SMT
<1>3. TypeOK'
  BY <1>1, <1>2, ConstantsAssumption DEF IInv, TypeOK, Spend
<1>4. Anchored'
  BY <1>1 DEF IInv, Anchored, Spend
<1>5. Budget'
  <2>1. (sent + tokens) * T - refillAt <= UPLINK_BURST * T - mark
    BY <1>1 DEF IInv, Budget
  <2>2. sent' + tokens' = sent + tokens
    BY <1>1, <1>2 DEF Spend
  <2> QED BY <2>1, <2>2 DEF Budget, Spend
<1>6. Held'
  BY <1>1 DEF IInv, Held, Spend
<1> QED BY <1>3, <1>4, <1>5, <1>6 DEF IInv

\* Steps that leave the bucket alone.
LEMMA OtherStep == IInv /\ (TimePasses \/ Mark \/ NothingToSend \/ PeerLeaves \/ UNCHANGED vars) => IInv'
<1> SUFFICES ASSUME IInv, TimePasses \/ Mark \/ NothingToSend \/ PeerLeaves \/ UNCHANGED vars PROVE IInv'
  OBVIOUS
<1>1. CASE TimePasses
  <2>1. now' = now + 1 /\ UNCHANGED <<pc, polled, tokens, refillMs, refillAt, mark, sent, waiting>>
    BY <1>1 DEF TimePasses
  <2>2. TypeOK'
    BY <2>1 DEF IInv, TypeOK
  <2>3. Anchored'
    BY <2>1 DEF IInv, TypeOK, Anchored, Elapsed, Since
  <2>4. Held'
    BY <1>1, <2>1, ConstantsAssumption DEF TimePasses, IInv, TypeOK, Held
  <2> QED BY <2>1, <2>2, <2>3, <2>4 DEF IInv, Budget
<1>2. CASE Mark
  <2>1. TypeOK' /\ Anchored'
    BY <1>2 DEF Mark, IInv, TypeOK, Anchored
  <2>2. Budget' /\ Held'
    BY <1>2 DEF Mark, IInv, Budget, Held
  <2> QED BY <2>1, <2>2 DEF IInv
<1>3. CASE NothingToSend
  <2>1. TypeOK' /\ Anchored'
    BY <1>3 DEF NothingToSend, IInv, TypeOK, Anchored
  <2>2. Budget' /\ Held'
    BY <1>3 DEF NothingToSend, IInv, Budget, Held
  <2> QED BY <2>1, <2>2 DEF IInv
<1>4. CASE PeerLeaves
  <2>1. TypeOK' /\ Anchored'
    BY <1>4 DEF PeerLeaves, IInv, TypeOK, Anchored
  <2>2. Budget' /\ Held'
    BY <1>4 DEF PeerLeaves, IInv, Budget, Held
  <2> QED BY <2>1, <2>2 DEF IInv
<1>5. CASE UNCHANGED vars
  BY <1>5 DEF vars, IInv, TypeOK, Anchored, Elapsed, Since, Budget, Held
<1> QED BY <1>1, <1>2, <1>3, <1>4, <1>5

\* The budget is kept from the start of any window on.
THEOREM Invariant == Spec => []IInv
<1>1. IInv /\ [Next]_vars => IInv'
  BY PollStep, RefillStep, RefillEndStep, SpendStep, OtherStep DEF Next
<1> QED BY InitInvariant, <1>1, PTL DEF Spec

-------------------------------------------------------------------------------
(* Theorems.                                                               *)

\* s_upTokens stays within the burst: the unsigned decrement of a pass that bridged
\* something never wraps, and no quiet spell overfills the bucket.
THEOREM TypeCorrect == Spec => []TypeOK
<1>1. IInv => TypeOK
  BY DEF IInv
<1> QED BY <1>1, Invariant, PTL

\* No window of any length sees more datagrams than the burst and one per
\* UPLINK_TOKEN_MS, whenever millis() wraps.
THEOREM Paced == Spec => []PacingBound
<1>1. IInv => PacingBound
  <2> SUFFICES ASSUME IInv PROVE PacingBound
    OBVIOUS
  <2>1. /\ {refillAt, sent, mark, now} \subseteq Nat /\ tokens \in Nat /\ mark <= now
        /\ refillAt <= now /\ UPLINK_BURST \in Nat
    BY ConstantsAssumption DEF IInv, TypeOK, Anchored
  <2>2. sent * T <= (sent + tokens) * T /\ (sent + tokens) * T \in Nat /\ sent * T \in Nat
        /\ UPLINK_BURST * T \in Nat
    <3>1. sent \in Nat /\ sent + tokens \in Nat /\ sent <= sent + tokens
      BY <2>1
    <3>2. sent * T \in Nat /\ (sent + tokens) * T \in Nat /\ UPLINK_BURST * T \in Nat
      BY <2>1, <3>1, Tokens, Zenon
    <3>3. sent * T <= (sent + tokens) * T
      BY <3>1, Tokens, Zenon
    <3> QED BY <3>2, <3>3
  <2>3. CASE sent > 0
    <3>1. (sent + tokens) * T - refillAt <= UPLINK_BURST * T - mark
      BY <2>3 DEF IInv, Budget
    <3>2. sent * T <= UPLINK_BURST * T + (now - mark)
      BY <3>1, <2>1, <2>2
    <3> QED BY <3>2 DEF PacingBound, T
  <2>4. CASE sent = 0
    <3>1. sent * T = 0
      BY <2>4, WrapType, SMT
    <3>2. sent * T <= UPLINK_BURST * T + (now - mark)
      BY <3>1, <2>1, <2>2
    <3> QED BY <3>2 DEF PacingBound, T
  <2> QED BY <2>1, <2>3, <2>4
<1> QED BY <1>1, Invariant, PTL

\* A message the bucket holds back is let through by the first pass that comes
\* UPLINK_TOKEN_MS or more after the one that held it back.
THEOREM WaitBounded == Spec => []WaitBound
<1>1. IInv => WaitBound
  <2> SUFFICES ASSUME IInv, pc = "idle", waiting # None PROVE polled - waiting < T
    BY DEF WaitBound, T
  <2>1. refillAt <= waiting /\ polled - refillAt < T
    BY DEF IInv, Held
  <2>2. refillAt \in Nat /\ polled \in Nat /\ waiting \in Nat
    BY DEF IInv, TypeOK
  <2> QED BY <2>1, <2>2, WrapType
<1> QED BY <1>1, Invariant, PTL

-------------------------------------------------------------------------------
(* Refinement.                                                             *)

\* Every step of the pass is a step of the bucket or leaves it alone.
LEMMA StepRefines == [TaskNext]_allVars => [Next]_vars
<1> SUFFICES ASSUME [TaskNext]_allVars PROVE [Next]_vars
  OBVIOUS
<1>1. CASE Clock
  BY <1>1 DEF Clock, Next
<1>2. CASE Window
  BY <1>2 DEF Window, Next
<1>3. CASE Bridge
  BY <1>3 DEF Bridge, Next
<1>4. CASE Session
  BY <1>4 DEF Session, Next, vars, uplink
<1>5. CASE ResetStats \/ Rest \/ WaitEnds \/ PassBegin \/ HealthTick \/ Publish \/ UNCHANGED allVars
  BY <1>5 DEF ResetStats, Rest, WaitEnds, PassBegin, HealthTick, Publish, allVars, vars, uplink
<1> QED BY <1>1, <1>2, <1>3, <1>4, <1>5 DEF TaskNext, Pass

\* The MIDI task's use of the bucket is what UplinkPacing describes.
THEOREM Refines == TaskSpec => Spec
<1>1. TaskInit => Init
  BY DEF TaskInit
<1> QED BY <1>1, StepRefines, PTL DEF TaskSpec, Spec

\* In any window of the task's life, peers coming and going, no more datagrams leave
\* than the burst and one per UPLINK_TOKEN_MS.
THEOREM TaskPaced == TaskSpec => []PacingBound
BY Refines, Paced, PTL

\* While a peer is there, no pass that long after the first refused one is refused.
THEOREM TaskWaitBounded == TaskSpec => []WaitBound
BY Refines, WaitBounded, PTL

-------------------------------------------------------------------------------
(* The inductive invariant.                                                *)

TaskType ==
    /\ task \in {"rest", "blocked", "woken", "session", "bridge", "health", "publish"}
    /\ {now, looked} \subseteq Nat /\ looked <= now /\ now - looked <= MaxGap
    /\ snap \in {"none", "fresh", "stale"} /\ totals \in {"fresh", "stale"}
    /\ {resetReq, beaten, stopped, peer} \subseteq {"yes", "no"}
    /\ lastSent \in Nat \cup {None} /\ lastSent <= looked
    /\ fired \in Nat

\* What the flags say of the silence since the last heartbeat.
Silence ==
    /\ lastSent = None => beaten = "no" /\ stopped = "no" /\ fired = 0
    /\ lastSent # None =>
        /\ beaten = "yes" /\ lastBeat = lastSent % Wrap
        /\ (stopped = "yes") = (looked - lastSent > HEARTBEAT_STOP_MS)
        /\ lastSent # looked => fired = IF stopped = "yes" THEN 1 ELSE 0

\* A snapshot from before the reset is replaced in this pass.
Taken == resetReq = "no" /\ snap = "stale"

DueSince(b) ==
    /\ lastSnap = (b - SNAPSHOT_MS) % Wrap
    /\ b <= now
    /\ IF task = "publish" THEN looked - b <= MaxGap ELSE looked <= b

Due ==
    /\ resetReq = "no" => totals = "fresh"
    /\ Taken => /\ task \in {"session", "bridge", "health", "publish"}
                /\ \E b \in Nat : DueSince(b)

TaskInv == TaskType /\ Silence /\ Due

LEMMA TaskConstants ==
    /\ {HEARTBEAT_MS, HEARTBEAT_STOP_MS, SNAPSHOT_MS} \subseteq Nat \ {0}
    /\ HEARTBEAT_MS <= HEARTBEAT_STOP_MS
    /\ HEARTBEAT_STOP_MS + MaxGap < Wrap /\ SNAPSHOT_MS + 2 * MaxGap < Wrap
    /\ MaxGap \in Nat /\ Wrap \in Nat \ {0}
BY TaskAssumption, ConstantsAssumption, WrapType

\* Unsigned subtraction finds the age of a stamp taken less than Wrap ago.
LEMMA AgeOfStamp ==
    ASSUME NEW x \in Nat, now \in Nat, x <= now, now - x < Wrap
    PROVE  Age(x % Wrap) = now - x
BY Latest DEF Age

\* ... and of the one applyReset() makes up, which may lie before 0.
LEMMA AgeOfReset ==
    ASSUME NEW b \in Nat, now \in Nat, b <= now, now - b + SNAPSHOT_MS < Wrap
    PROVE  Age((b - SNAPSHOT_MS) % Wrap) = now - b + SNAPSHOT_MS
<1>1. /\ SNAPSHOT_MS \in Nat /\ Wrap \in Nat \ {0} /\ SNAPSHOT_MS < Wrap
  BY TaskConstants
<1>2. b - SNAPSHOT_MS + Wrap \in Nat
  BY <1>1
<1> DEFINE x == b - SNAPSHOT_MS + Wrap  n == now + Wrap
<1>3. x \in Nat /\ n \in Nat /\ x <= n /\ n - x < Wrap /\ n - x = now - b + SNAPSHOT_MS
  BY <1>1, <1>2
<1>4. x % Wrap = (b - SNAPSHOT_MS) % Wrap
  <2>1. x \div Wrap \in Int /\ x % Wrap \in 0 .. Wrap - 1 /\ x = Wrap * (x \div Wrap) + (x % Wrap)
    BY <1>3, DivMod
  <2> DEFINE q == x \div Wrap  r == x % Wrap
  <2>2. q - 1 \in Int /\ b - SNAPSHOT_MS \in Int /\ b - SNAPSHOT_MS = Wrap * (q - 1) + r
    <3> HIDE DEF q, r
    <3>1. q \in Int /\ r \in 0 .. Wrap - 1 /\ x = Wrap * q + r
      BY <2>1 DEF q, r
    <3>2. Wrap * (q - 1) = Wrap * q - Wrap
      BY <3>1, <1>1, SMT
    <3> QED BY <3>1, <3>2, <1>1
  <2> QED BY <2>1, <2>2, ModUnique
<1>5. n % Wrap = now % Wrap
  <2>1. now \div Wrap \in Int /\ now % Wrap \in 0 .. Wrap - 1 /\ now = Wrap * (now \div Wrap) + (now % Wrap)
    BY DivMod
  <2> DEFINE q == now \div Wrap  r == now % Wrap
  <2>2. q + 1 \in Int /\ n \in Int /\ n = Wrap * (q + 1) + r
    <3> HIDE DEF q, r
    <3>1. q \in Int /\ r \in 0 .. Wrap - 1 /\ now = Wrap * q + r
      BY <2>1 DEF q, r
    <3>2. Wrap * (q + 1) = Wrap * q + Wrap
      BY <3>1, <1>1, SMT
    <3> QED BY <3>1, <3>2, <1>1
  <2> QED BY <2>1, <2>2, ModUnique
<1> HIDE DEF x, n
<1>6. ((n % Wrap) - (x % Wrap)) % Wrap = n - x
  BY <1>3, Latest
<1> QED BY <1>3, <1>4, <1>5, <1>6 DEF Age

LEMMA TaskInitInv == TaskInit => TaskInv
<1> SUFFICES ASSUME TaskInit PROVE TaskInv
  OBVIOUS
<1>1. TaskType
  BY TaskConstants DEF TaskInit, Init, TaskType, None
<1>2. Silence /\ Due
  BY DEF TaskInit, Silence, Due, Taken
<1> QED BY <1>1, <1>2 DEF TaskInv

\* Steps that neither look, nor publish, nor take a reset.
LEMMA ElsewhereStep ==
    ASSUME TaskInv, Clock \/ Window \/ Rest \/ WaitEnds \/ ResetStats \/ Session \/ Bridge \/ UNCHANGED allVars
    PROVE  TaskInv'
<1> USE TaskConstants
<1>1. UNCHANGED health /\ lastSnap' = lastSnap
  BY DEF Clock, Window, Rest, WaitEnds, ResetStats, Session, Bridge, allVars, taskVars, figures
<1>2. now' = now \/ (now' = now + 1 /\ now - looked < MaxGap)
  BY DEF Clock, TimePasses, Window, Mark, Rest, WaitEnds, ResetStats, Session, Bridge, PeerLeaves,
         Poll, Refill, RefillEnd, Spend, NothingToSend, allVars
<1>3. TaskType'
  <2>1. UNCHANGED <<looked, lastSent, fired, beaten, stopped>>
    BY <1>1 DEF health
  <2>2. /\ task' \in {"rest", "blocked", "woken", "session", "bridge", "health", "publish"}
        /\ peer' \in {"yes", "no"}
        /\ snap' \in {"none", "fresh", "stale"} /\ totals' \in {"fresh", "stale"} /\ resetReq' \in {"yes", "no"}
    BY DEF TaskInv, TaskType, Clock, Window, Rest, WaitEnds, ResetStats, Session, Bridge, allVars,
           taskVars, figures
  <2>3. now' \in Nat /\ looked' \in Nat /\ looked' <= now' /\ now' - looked' <= MaxGap
    BY <1>2, <2>1 DEF TaskInv, TaskType
  <2> QED BY <2>1, <2>2, <2>3 DEF TaskInv, TaskType
<1>4. Silence'
  BY <1>1 DEF health, TaskInv, Silence
<1>5. Due'
  <2> SUFFICES ASSUME resetReq' = "no"
               PROVE  /\ totals' = "fresh"
                      /\ Taken' => /\ task' \in {"session", "bridge", "health", "publish"}
                                   /\ \E b \in Nat : DueSince(b)'
    BY DEF Due, Taken
  <2>0. resetReq = "no" /\ totals' = totals /\ snap' = snap
    BY DEF Clock, Window, Rest, WaitEnds, ResetStats, Session, Bridge, allVars, taskVars, figures
  <2>1. totals' = "fresh"
    BY <2>0 DEF TaskInv, Due
  <2>2. SUFFICES ASSUME Taken
                 PROVE  /\ task' \in {"session", "bridge", "health", "publish"}
                        /\ \E b \in Nat : DueSince(b)'
    BY <2>0, <2>1 DEF Taken
  <2>3. task' \in {"session", "bridge", "health", "publish"} /\ (task' = "publish" => task = "publish")
        /\ (task = "publish" => task' = "publish")
    BY <2>2 DEF TaskInv, Due, Clock, Window, Rest, WaitEnds, ResetStats, Session, Bridge, allVars,
                taskVars
  <2>4. PICK b \in Nat : DueSince(b)
    BY <2>2 DEF TaskInv, Due
  <2>5. DueSince(b)'
    <3>1. looked' = looked
      BY <1>1 DEF health
    <3>2. b <= now'
      BY <2>4, <1>2 DEF DueSince, TaskInv, TaskType
    <3> QED BY <2>3, <2>4, <1>1, <3>1, <3>2 DEF DueSince
  <2> QED BY <2>3, <2>5
<1> QED BY <1>3, <1>4, <1>5 DEF TaskInv

LEMMA PassBeginStep == TaskInv /\ PassBegin => TaskInv'
<1> SUFFICES ASSUME TaskInv, PassBegin PROVE TaskInv'
  OBVIOUS
<1>1. UNCHANGED <<now, health, snap, peer>> /\ task' = "session"
  BY DEF PassBegin
<1>2. TaskType'
  BY <1>1 DEF PassBegin, health, TaskInv, TaskType
<1>3. Silence'
  BY <1>1 DEF health, TaskInv, Silence
<1>4. ASSUME Taken' PROVE DueSince(now)'
  <2>1. resetReq = "yes"
    BY <1>1, <1>4 DEF Taken, TaskInv, Due, TaskType, PassBegin
  <2>2. lastSnap' = (now - SNAPSHOT_MS) % Wrap
    BY <2>1 DEF PassBegin, SnapDueAtOnce
  <2> QED BY <1>1, <2>2 DEF DueSince, health, TaskInv, TaskType
<1>5. Due'
  <2>1. now' = now /\ now \in Nat
    BY <1>1 DEF TaskInv, TaskType
  <2>2. totals' = "fresh"
    BY DEF PassBegin, TaskInv, TaskType, Due
  <2> QED BY <1>1, <1>4, <2>1, <2>2 DEF Due
<1> QED BY <1>2, <1>3, <1>5 DEF TaskInv

LEMMA PublishStep == TaskInv /\ Publish => TaskInv'
<1> SUFFICES ASSUME TaskInv, Publish PROVE TaskInv'
  OBVIOUS
<1> USE TaskConstants
<1>1. UNCHANGED <<now, health, peer, resetReq, totals>> /\ task' = "rest"
  BY DEF Publish
<1>2. snap' \in {snap, totals}
  BY DEF Publish
<1>3. TaskType'
  BY <1>1, <1>2 DEF health, TaskInv, TaskType
<1>4. Silence'
  BY <1>1 DEF health, TaskInv, Silence
<1>5. ASSUME Taken PROVE snap' = "fresh"
  <2>1. PICK b \in Nat : DueSince(b)
    BY <1>5 DEF TaskInv, Due
  <2>2. b <= now /\ now - b <= 2 * MaxGap /\ lastSnap = (b - SNAPSHOT_MS) % Wrap
    BY <2>1 DEF Publish, DueSince, TaskInv, TaskType
  <2>3. now - b + SNAPSHOT_MS < Wrap
    BY <2>2 DEF TaskInv, TaskType
  <2>4. Age(lastSnap) = now - b + SNAPSHOT_MS
    BY <2>2, <2>3, AgeOfReset DEF TaskInv, TaskType
  <2>5. SnapDue
    BY <2>2, <2>4 DEF SnapDue, TaskInv, TaskType
  <2> QED BY <1>5, <2>5 DEF Publish, TaskInv, Due, Taken
<1>6. ~Taken'
  <2>1. CASE Taken
    BY <2>1, <1>5 DEF Taken
  <2>2. CASE ~Taken
    BY <2>2, <1>1, <1>2 DEF Taken, TaskInv, Due
  <2> QED BY <2>1, <2>2
<1> QED BY <1>1, <1>3, <1>4, <1>6 DEF TaskInv, Due

\* What a look finds, given what the flags say.
LEMMA LookFinds ==
    ASSUME TaskInv, lastSent # None
    PROVE  /\ stopped = "no" => Age(lastBeat) = now - lastSent
           /\ StopUnseen <=> (stopped = "no" /\ now - lastSent > HEARTBEAT_STOP_MS)
           /\ (IF lastSent = looked THEN 0 ELSE fired) = IF stopped = "yes" THEN 1 ELSE 0
<1> USE TaskConstants
<1>1. ASSUME stopped = "no" PROVE Age(lastBeat) = now - lastSent
  <2>1. lastSent \in Nat /\ now \in Nat /\ lastSent <= now /\ now - lastSent < Wrap
    BY <1>1 DEF TaskInv, TaskType, Silence
  <2>2. lastBeat = lastSent % Wrap
    BY DEF TaskInv, Silence
  <2> QED BY <2>1, <2>2, AgeOfStamp
<1>2. StopUnseen <=> (stopped = "no" /\ now - lastSent > HEARTBEAT_STOP_MS)
  <2>1. beaten = "yes"
    BY DEF TaskInv, Silence
  <2>2. CASE stopped = "no"
    BY <2>1, <2>2, <1>1 DEF StopUnseen
  <2>3. CASE stopped # "no"
    BY <2>3 DEF StopUnseen
  <2> QED BY <2>2, <2>3
<1>3. lastSent = looked => stopped = "no"
  BY DEF TaskInv, TaskType, Silence
<1>4. (IF lastSent = looked THEN 0 ELSE fired) = IF stopped = "yes" THEN 1 ELSE 0
  BY <1>3 DEF TaskInv, TaskType, Silence
<1> QED BY <1>1, <1>2, <1>4

\* What the look leaves in fired.
LEMMA LookFires ==
    ASSUME TaskInv, HealthTick
    PROVE  fired' = IF lastSent # None /\ peer = "yes" /\ now - lastSent > HEARTBEAT_STOP_MS
                    THEN 1 ELSE 0
<1> USE TaskConstants
<1>1. CASE NoPeer
  BY <1>1 DEF NoPeer
<1>2. CASE lastSent = None /\ ~NoPeer
  <2>1. fired = 0 /\ Triggers = 0 /\ lastSent # looked
    BY <1>2 DEF TaskInv, TaskType, Silence, Triggers, StopUnseen, None
  <2> QED BY <1>2, <2>1 DEF HealthTick, NotDue, Beat, BeatHeld, Fired
<1>3. CASE lastSent # None /\ NotDue
  <2>1. stopped = "no" => now - lastSent < HEARTBEAT_MS
    BY <1>3, LookFinds DEF NotDue, BeatDue, TaskInv, TaskType
  <2>2. stopped = "yes" => now - lastSent > HEARTBEAT_STOP_MS
    BY <1>3 DEF TaskInv, TaskType, Silence
  <2>3. stopped \in {"yes", "no"} /\ peer = "yes" /\ fired' = IF lastSent = looked THEN 0 ELSE fired
    BY <1>3 DEF NotDue, TaskInv, TaskType
  <2>4. (now - lastSent > HEARTBEAT_STOP_MS) = (stopped = "yes")
    BY <1>3, <2>1, <2>2, <2>3 DEF TaskInv, TaskType
  <2>5. fired' = IF stopped = "yes" THEN 1 ELSE 0
    BY <1>3, <2>3, LookFinds
  <2> QED BY <1>3, <2>3, <2>4, <2>5
<1>4. CASE lastSent # None /\ (Beat \/ BeatHeld)
  <2>1. peer = "yes" /\ fired' = Fired
    BY <1>4 DEF Beat, BeatHeld
  <2>2. stopped = "yes" => now - lastSent > HEARTBEAT_STOP_MS
    BY <1>4 DEF TaskInv, TaskType, Silence
  <2>3. stopped \in {"yes", "no"}
    BY DEF TaskInv, TaskType
  <2>4. fired' = (IF stopped = "yes" THEN 1 ELSE 0) + Triggers
    BY <1>4, <2>1, LookFinds DEF Fired
  <2>5. StopUnseen <=> (stopped = "no" /\ now - lastSent > HEARTBEAT_STOP_MS)
    BY <1>4, LookFinds
  <2>6. CASE stopped = "yes"
    <3>1. Triggers = 0
      BY <2>5, <2>6 DEF Triggers
    <3> QED BY <1>4, <2>1, <2>2, <2>4, <2>6, <3>1
  <2>7. CASE stopped = "no"
    <3>1. Triggers = IF now - lastSent > HEARTBEAT_STOP_MS THEN 1 ELSE 0
      BY <2>5, <2>7 DEF Triggers
    <3> QED BY <1>4, <2>1, <2>4, <2>7, <3>1
  <2> QED BY <2>3, <2>6, <2>7
<1> QED BY <1>1, <1>2, <1>3, <1>4 DEF HealthTick

LEMMA HealthStep == TaskInv /\ HealthTick => TaskInv'
<1> SUFFICES ASSUME TaskInv, HealthTick PROVE TaskInv'
  OBVIOUS
<1> USE TaskConstants
<1>1. /\ task' = "publish" /\ looked' = now /\ UNCHANGED <<now, peer, resetReq, totals, snap, lastSnap>>
      /\ now \in Nat /\ task = "health"
  BY DEF HealthTick, figures, TaskInv, TaskType
<1>2. fired' \in Nat
  BY LookFires
<1>3. lastSent' \in {None, lastSent, now}
  BY DEF HealthTick, NoPeer, NotDue, Beat, BeatHeld
<1>4. beaten' \in {"yes", "no"} /\ stopped' \in {"yes", "no"}
  BY DEF HealthTick, NoPeer, NotDue, Beat, BeatHeld, StoppedWhenHeld, TaskInv, TaskType
<1>5. TaskType'
  <2>1. lastSent' \in Nat \cup {None} /\ lastSent' <= now
    BY <1>1, <1>3 DEF TaskInv, TaskType, None
  <2>2. peer' \in {"yes", "no"} /\ resetReq' \in {"yes", "no"}
        /\ snap' \in {"none", "fresh", "stale"} /\ totals' \in {"fresh", "stale"}
    BY <1>1 DEF TaskInv, TaskType
  <2> QED BY <1>1, <1>2, <1>4, <2>1, <2>2 DEF TaskType
<1>6. Silence'
  <2>1. CASE NoPeer
    BY <2>1 DEF NoPeer, Silence
  <2>2. CASE Beat
    <3>1. /\ lastSent' = now /\ lastBeat' = now % Wrap /\ beaten' = "yes" /\ stopped' = "no"
          /\ now # None
      BY <2>2, <1>1 DEF Beat, None
    <3> QED BY <3>1, <1>1 DEF Silence
  <2>3. CASE (NotDue \/ BeatHeld) /\ lastSent = None
    <3>1. lastSent' = None /\ beaten' = "no" /\ stopped' = "no"
      BY <2>3 DEF NotDue, BeatHeld, StoppedWhenHeld, StopUnseen, TaskInv, Silence
    <3> QED BY <3>1, <2>3, LookFires DEF Silence
  <2>4. CASE (NotDue \/ BeatHeld) /\ lastSent # None
    <3>1. UNCHANGED <<lastSent, beaten, lastBeat>> /\ peer = "yes"
      BY <2>4 DEF NotDue, BeatHeld
    <3>2. (stopped' = "yes") = (now - lastSent > HEARTBEAT_STOP_MS)
      <4>1. stopped = "yes" => now - lastSent > HEARTBEAT_STOP_MS
        BY <2>4 DEF TaskInv, TaskType, Silence
      <4>2. CASE BeatHeld
        <5>1. StopUnseen <=> (stopped = "no" /\ now - lastSent > HEARTBEAT_STOP_MS)
          BY <2>4, LookFinds
        <5>2. stopped' = IF StopUnseen THEN "yes" ELSE stopped
          BY <4>2 DEF BeatHeld, StoppedWhenHeld
        <5>3. stopped \in {"yes", "no"}
          BY DEF TaskInv, TaskType
        <5>4. CASE stopped = "yes"
          BY <5>2, <5>4, <4>1
        <5>5. CASE stopped = "no"
          BY <5>1, <5>2, <5>5
        <5> QED BY <5>3, <5>4, <5>5
      <4>3. CASE NotDue
        <5>1. stopped' = stopped /\ (stopped = "no" => now - lastSent < HEARTBEAT_MS)
          BY <4>3, <2>4, LookFinds DEF NotDue, BeatDue, TaskInv, TaskType
        <5> QED BY <5>1, <4>1, <2>4 DEF TaskInv, TaskType
      <4> QED BY <2>4, <4>2, <4>3
    <3>3. fired' = IF now - lastSent > HEARTBEAT_STOP_MS THEN 1 ELSE 0
      BY <2>4, <3>1, LookFires
    <3> QED BY <3>1, <3>2, <3>3, <2>4, <1>1 DEF Silence, TaskInv
  <2> QED BY <2>1, <2>2, <2>3, <2>4 DEF HealthTick
<1>7. Due'
  <2> SUFFICES ASSUME Taken' PROVE \E b \in Nat : DueSince(b)'
    BY <1>1 DEF Due, TaskInv
  <2>1. Taken
    BY <1>1 DEF Taken
  <2>2. PICK b \in Nat : DueSince(b)
    BY <2>1 DEF TaskInv, Due
  <2>3. DueSince(b)'
    BY <1>1, <2>2 DEF DueSince, TaskInv, TaskType
  <2> QED BY <2>3
<1> QED BY <1>5, <1>6, <1>7 DEF TaskInv

THEOREM TaskInvariant == TaskSpec => []TaskInv
<1>1. TaskInv /\ [TaskNext]_allVars => TaskInv'
  BY ElsewhereStep, PassBeginStep, PublishStep, HealthStep DEF TaskNext, Pass
<1> QED BY TaskInitInv, <1>1, PTL DEF TaskSpec

-------------------------------------------------------------------------------
(* Theorems.                                                               *)

\* Within a session, a silence of more than HEARTBEAT_STOP_MS is one trigger, whether
\* the device or the task is to blame, and when millis() wraps meanwhile.
THEOREM StopsFreeze == TaskSpec => StopsFreezeOnce
<1>1. ASSUME TaskInv, [TaskNext]_allVars, task = "health", task' = "publish"
      PROVE  HealthTick
  BY <1>1 DEF TaskNext, Pass, Clock, Window, ResetStats, Rest, WaitEnds, PassBegin, Session, Bridge,
              Publish, allVars, taskVars
<1>2. TaskInv /\ [TaskNext]_allVars =>
        [task = "health" /\ task' = "publish" =>
           fired' = IF lastSent # None /\ peer = "yes" /\ now - lastSent > HEARTBEAT_STOP_MS
                    THEN 1 ELSE 0]_allVars
  BY <1>1, LookFires
<1> QED BY <1>2, TaskInvariant, PTL DEF TaskSpec, StopsFreezeOnce

\* A reset the task has taken is in the snapshot by the end of the pass.
THEOREM ResetIsShown == TaskSpec => []ResetShown
<1>1. TaskInv => ResetShown
  BY DEF TaskInv, Due, Taken, ResetShown
<1> QED BY <1>1, TaskInvariant, PTL
===============================================================================
