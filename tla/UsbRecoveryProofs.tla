---------------------------- MODULE UsbRecoveryProofs ----------------------------
(***************************************************************************)
(* For every number of transfers and every threshold: what one device left *)
(* behind is never held against the next; resets of one spell of trouble   *)
(* are as far apart as the backoff says; and a blip of the port does not   *)
(* make the watchdog forget its own.                                       *)
(*                                                                         *)
(* NothingHeldAgainstTheNext is inductive as it stands: with the link down *)
(* and the drain over, no transfer is out that could come back with an     *)
(* error, and escalate() has nothing to start from.  The other two need to *)
(* know what the streaks and ages have to do with each other: SpellCounted *)
(* and AbsenceBegins.                                                      *)
(***************************************************************************)
EXTENDS UsbRecovery, WellFoundedInduction, TLAPS

\* The port's own moves touch nothing of the client but its flags.
LEMMA PortKeeps == NothingHeldAgainstTheNext /\ PortStep => NothingHeldAgainstTheNext'
<1> SUFFICES ASSUME NothingHeldAgainstTheNext, PortStep PROVE NothingHeldAgainstTheNext'
  OBVIOUS
<1>1. UNCHANGED <<link, pc, errCount, wanted, pending, rxActive, rxParked, txAge, txHalted>>
  BY DEF PortStep, PlugIn, Unplug, PortResetFails, NewDevEvent, DevGoneEvent, client, transfers,
         errors, resets
<1> QED BY <1>1 DEF NothingHeldAgainstTheNext

\* A transfer comes back only while one is out.
LEMMA TransferKeeps == NothingHeldAgainstTheNext /\ TransferStep => NothingHeldAgainstTheNext'
<1> SUFFICES ASSUME NothingHeldAgainstTheNext, TransferStep, (link = "down" /\ pc # "drain")'
             PROVE  FALSE
  BY DEF NothingHeldAgainstTheNext
<1>1. UNCHANGED <<link, pc>>
  BY DEF TransferStep, RxError, RxCanceled, RxNoDevice, TxCompleted, TxError, TxNoDevice, client
<1>2. rxActive = 0 /\ txAge = Not
  BY <1>1 DEF NothingHeldAgainstTheNext
<1>3. rxActive > 0 \/ txAge # Not
  BY DEF TransferStep, RxError, RxCanceled, RxNoDevice, TxCompleted, TxError, TxNoDevice
<1> QED BY <1>2, <1>3

\* A pass without a device: what was clear stays clear.
LEMMA ServiceKeeps == NothingHeldAgainstTheNext /\ Service => NothingHeldAgainstTheNext'
<1> SUFFICES ASSUME NothingHeldAgainstTheNext, Service, link' = "down"
             PROVE  NothingHeldAgainstTheNext'
  BY DEF NothingHeldAgainstTheNext
<1>1. link = "down" /\ pc = "service" /\ errCount' = errCount
  BY DEF Service
<1>2. errCount = 0 /\ wanted = "no" /\ pending = "no"
      /\ rxActive = 0 /\ rxParked = 0 /\ txAge = Not /\ txHalted = "no"
  BY <1>1 DEF NothingHeldAgainstTheNext
<1>3. rxActive' = 0 /\ rxParked' = 0
  BY <1>1, <1>2 DEF Service, RecoverRx
<1>4. txAge' = Not /\ txHalted' = "no"
  BY <1>1, <1>2 DEF Service, ServiceTx
<1>5. ~Trouble
  BY <1>1 DEF Trouble
<1>6. wanted' = "no" /\ pending' = "no"
  BY <1>2, <1>5 DEF Service, NoReset, Reset
<1> QED BY <1>1, <1>2, <1>3, <1>4, <1>6 DEF NothingHeldAgainstTheNext

LEMMA ClientKeeps == NothingHeldAgainstTheNext /\ ClientStep => NothingHeldAgainstTheNext'
<1> SUFFICES ASSUME NothingHeldAgainstTheNext, ClientStep PROVE NothingHeldAgainstTheNext'
  OBVIOUS
<1>1. CASE PassBegin
  <2> SUFFICES ASSUME (link = "down" /\ pc # "drain")' PROVE NothingHeldAgainstTheNext'
    BY DEF NothingHeldAgainstTheNext
  <2>1. /\ link = "down" /\ pc = "events"
        /\ UNCHANGED <<errCount, wanted, pending, rxActive, rxParked, txHalted>>
    BY <1>1 DEF PassBegin
  <2>2. txAge = Not
    BY <2>1 DEF NothingHeldAgainstTheNext
  <2>3. txAge' = Not
    BY <1>1, <2>2 DEF PassBegin, Stay, UnitEnds, Older
  <2> QED BY <2>1, <2>3 DEF NothingHeldAgainstTheNext
\* detachDevice() clears the rest once the transfers are back.
<1>2. CASE DetachFinish
  BY <1>2 DEF DetachFinish, WantedAfterDetach, ErrorsAfterDetach, NothingHeldAgainstTheNext
<1>3. CASE AttachFail
  <2>1. link' = link /\ pc = "attach" /\ UNCHANGED <<transfers, errors, resets>>
    BY <1>3 DEF AttachFail
  <2> QED BY <2>1 DEF transfers, errors, resets, NothingHeldAgainstTheNext
<1>4. CASE AttachConnect
  BY <1>4 DEF AttachConnect, NothingHeldAgainstTheNext
<1> QED BY <1>1, <1>2, <1>3, <1>4, ServiceKeeps DEF ClientStep

\* A port is never reset, nor a pipe deaf or halted, for what a device did that has
\* been detached, errors of its drained transfers included.
THEOREM NothingHeld == Spec => []NothingHeldAgainstTheNext
<1>1. Init => NothingHeldAgainstTheNext
  BY DEF Init, NothingHeldAgainstTheNext
<1>2. NothingHeldAgainstTheNext /\ [Next]_vars => NothingHeldAgainstTheNext'
  <2>1. ASSUME NothingHeldAgainstTheNext, UNCHANGED vars PROVE NothingHeldAgainstTheNext'
    BY <2>1 DEF vars, client, transfers, errors, resets, NothingHeldAgainstTheNext
  <2> QED BY <2>1, PortKeeps, TransferKeeps, ClientKeeps DEF Next
<1> QED BY <1>1, <1>2, PTL DEF Spec
-------------------------------------------------------------------------------
(* The backoff of the port resets.  It is forgiven when there has been no  *)
(* trouble for RESET_CALM; then a spell has ended too, but the streak may  *)
(* go on for want of an attachment: it is never less than the resets of    *)
(* the spell.                                                              *)

SpellCounted ==
    /\ spell \in 0 .. ResetStreaks /\ resetStreak \in 0 .. ResetStreaks /\ spell <= resetStreak
    /\ troubleAge \in Nat /\ resetAge \in Nat
    /\ troubleAge > RESET_CALM => spell = 0

LEMMA Thresholds ==
    /\ RESET_CALM \in Nat /\ RESET_GAP_MAX \in Nat /\ RESET_GAP_MAX > 0
    /\ ResetStreaks \in Nat /\ RetryStreaks \in Nat /\ ABSENT_SETTLE \in Nat
BY RecoveryAssumption DEF ResetStreaks, RetryStreaks


\* A set of numbers has a least one: what holds of the gaps is proved by the least streak
\* at which it would not.
LEMMA LeastOf ==
    ASSUME NEW T, T \subseteq Nat, T # {}
    PROVE  \E x \in T : \A y \in T : x <= y
<1>1. PICK x \in T : \A y \in T : <<y, x>> \notin OpToRel(<, Nat)
  BY WFMin, NatLessThanWellFounded
<1>2. \A a, b \in Nat : <<a, b>> \in OpToRel(<, Nat) <=> a < b
  BY DEF OpToRel
<1>3. \A y \in T : ~(y < x)
  BY <1>1, <1>2
<1> QED BY <1>3

\* The doubling, up to any streak.
NextGap(gap, n) ==
    IF n = 0 THEN 0 ELSE IF n = 1 THEN RESET_GAP_MIN ELSE AtMost(2 * gap, RESET_GAP_MAX)

GapsTo(n) ==
    \E f : f = [i \in 0 .. n |-> IF i = 0 THEN 0
                                 ELSE IF i = 1 THEN RESET_GAP_MIN
                                 ELSE AtMost(2 * f[i - 1], RESET_GAP_MAX)]

LEMMA GapsOfNone == GapsTo(0)
<1>1. PICK f : f = [i \in 0 .. 0 |-> 0]
  OBVIOUS
<1>2. f = [i \in 0 .. 0 |-> IF i = 0 THEN 0
                            ELSE IF i = 1 THEN RESET_GAP_MIN
                            ELSE AtMost(2 * f[i - 1], RESET_GAP_MAX)]
  BY <1>1
<1> QED BY <1>2 DEF GapsTo

LEMMA GapsOfNext == ASSUME NEW n \in Nat, GapsTo(n) PROVE GapsTo(n + 1)
<1>1. PICK f : f = [i \in 0 .. n |-> IF i = 0 THEN 0
                                     ELSE IF i = 1 THEN RESET_GAP_MIN
                                     ELSE AtMost(2 * f[i - 1], RESET_GAP_MAX)]
  BY DEF GapsTo
<1>2. f = [i \in 0 .. n |-> NextGap(f[i - 1], i)]
  BY <1>1 DEF NextGap
<1>3. PICK e : e = [i \in 0 .. n + 1 |-> IF i <= n THEN f[i] ELSE NextGap(f[n], i)]
  OBVIOUS
<1>4. ASSUME NEW i \in 0 .. n + 1
      PROVE  e[i] = NextGap(e[i - 1], i)
  <2>1. CASE i = 0
    BY <1>2, <1>3, <2>1 DEF NextGap
  <2>2. CASE i # 0 /\ i <= n
    <3>1. i \in 0 .. n /\ i - 1 \in 0 .. n + 1 /\ i - 1 <= n
      BY <2>2
    <3>2. e[i] = f[i] /\ e[i - 1] = f[i - 1]
      BY <1>3, <2>2, <3>1
    <3>3. f[i] = NextGap(f[i - 1], i)
      BY <1>2, <3>1
    <3> QED BY <3>2, <3>3
  <2>3. CASE i = n + 1
    <3>1. i - 1 = n /\ n \in 0 .. n + 1 /\ ~(i <= n)
      BY <2>3
    <3>2. e[i] = NextGap(f[n], i) /\ e[i - 1] = f[n]
      BY <1>3, <3>1
    <3> QED BY <3>1, <3>2
  <2> QED BY <2>1, <2>2, <2>3
<1>5. e = [i \in 0 .. n + 1 |-> NextGap(e[i - 1], i)]
  BY <1>3, <1>4
<1>6. e = [i \in 0 .. n + 1 |-> IF i = 0 THEN 0
                                ELSE IF i = 1 THEN RESET_GAP_MIN
                                ELSE AtMost(2 * e[i - 1], RESET_GAP_MAX)]
  BY <1>5 DEF NextGap
<1> QED BY <1>6 DEF GapsTo

LEMMA GapsOfAll == \A n \in Nat : GapsTo(n)
<1> DEFINE T == {n \in Nat : ~GapsTo(n)}
<1> SUFFICES ASSUME T # {} PROVE FALSE
  OBVIOUS
<1>1. PICK x \in T : \A y \in T : x <= y
  BY LeastOf
<1>2. x # 0
  BY GapsOfNone
<1>3. x - 1 \in Nat /\ GapsTo(x - 1)
  BY <1>1, <1>2
<1>4. GapsTo((x - 1) + 1)
  BY <1>3, GapsOfNext
<1> QED BY <1>1, <1>4

LEMMA GapIs == \A n \in 0 .. ResetStreaks : ResetGap[n] = NextGap(ResetGap[n - 1], n)
<1>1. \E f : f = [streak \in 0 .. ResetStreaks |->
                    IF streak = 0 THEN 0
                    ELSE IF streak = 1 THEN RESET_GAP_MIN
                    ELSE AtMost(2 * f[streak - 1], RESET_GAP_MAX)]
  BY Thresholds, GapsOfAll DEF GapsTo
<1>2. ResetGap = CHOOSE f : f = [streak \in 0 .. ResetStreaks |->
                    IF streak = 0 THEN 0
                    ELSE IF streak = 1 THEN RESET_GAP_MIN
                    ELSE AtMost(2 * f[streak - 1], RESET_GAP_MAX)]
  BY DEF ResetGap
<1>3. ResetGap = [streak \in 0 .. ResetStreaks |->
                    IF streak = 0 THEN 0
                    ELSE IF streak = 1 THEN RESET_GAP_MIN
                    ELSE AtMost(2 * ResetGap[streak - 1], RESET_GAP_MAX)]
  BY <1>1, <1>2
<1> QED BY <1>3 DEF NextGap

\* A gap is no more than the maximum, and no less than the one before it.
GapGrown(n) ==
    /\ ResetGap[n] \in 0 .. RESET_GAP_MAX
    /\ n > 0 => ResetGap[n - 1] <= ResetGap[n]

LEMMA GapGrows ==
    ASSUME NEW n \in 0 .. ResetStreaks, n > 0 => GapGrown(n - 1)
    PROVE  GapGrown(n)
<1>0. RESET_GAP_MIN \in Nat /\ RESET_GAP_MAX \in Nat /\ RESET_GAP_MIN <= RESET_GAP_MAX
  BY RecoveryAssumption
<1>1. PICK g, h : g = ResetGap[n] /\ h = ResetGap[n - 1]
  OBVIOUS
<1>2. g = NextGap(h, n)
  BY <1>1, GapIs
<1>3. CASE n = 0
  BY <1>0, <1>1, <1>2, <1>3 DEF NextGap, GapGrown
<1>4. CASE n = 1
  <2>1. 0 \in 0 .. ResetStreaks /\ n - 1 = 0
    BY <1>4, Thresholds
  <2>2. h = 0
    BY <1>1, <2>1, GapIs DEF NextGap
  <2>3. g = RESET_GAP_MIN
    BY <1>2, <1>4 DEF NextGap
  <2> QED BY <1>0, <1>1, <2>2, <2>3 DEF GapGrown
<1>5. CASE n > 1
  <2>1. h \in 0 .. RESET_GAP_MAX
    BY <1>1, <1>5 DEF GapGrown
  <2>2. g = AtMost(2 * h, RESET_GAP_MAX)
    BY <1>2, <1>5 DEF NextGap
  <2>3. g \in 0 .. RESET_GAP_MAX /\ h <= g
    BY <1>0, <2>1, <2>2 DEF AtMost
  <2> QED BY <1>1, <2>3 DEF GapGrown
<1> QED BY <1>3, <1>4, <1>5, Thresholds

LEMMA GapsGrowOn == \A n \in 0 .. ResetStreaks : GapGrown(n)
<1> DEFINE T == {n \in 0 .. ResetStreaks : ~GapGrown(n)}
<1> SUFFICES ASSUME T # {} PROVE FALSE
  OBVIOUS
<1>1. T \subseteq Nat
  BY Thresholds
<1>2. PICK x \in T : \A y \in T : x <= y
  <2> HIDE DEF T
  <2> QED BY <1>1, LeastOf
<1>3. x \in 0 .. ResetStreaks /\ (x > 0 => GapGrown(x - 1))
  BY <1>1, <1>2, Thresholds
<1> QED BY <1>2, <1>3, GapGrows

LEMMA GapsGrow ==
    ASSUME NEW m \in 0 .. ResetStreaks, NEW n \in 0 .. ResetStreaks, m <= n
    PROVE  ResetGap[m] \in Nat /\ ResetGap[n] \in Nat /\ ResetGap[m] <= ResetGap[n]
<1> DEFINE T == {i \in m .. ResetStreaks : ResetGap[m] > ResetGap[i]}
<1>0. \A i \in m .. ResetStreaks : i \in 0 .. ResetStreaks /\ ResetGap[i] \in Nat
  BY GapsGrowOn, Thresholds DEF GapGrown
<1>1. T = {}
  <2> SUFFICES ASSUME T # {} PROVE FALSE
    OBVIOUS
  <2>1. T \subseteq Nat
    BY Thresholds
  <2>2. PICK x \in T : \A y \in T : x <= y
    <3> HIDE DEF T
    <3> QED BY <2>1, LeastOf
  <2>3. x \in m .. ResetStreaks /\ ResetGap[m] > ResetGap[x]
    BY <2>2
  <2>4. x # m /\ x - 1 \in m .. ResetStreaks
    BY <1>0, <2>3, Thresholds
  <2>5. x - 1 \notin T
    BY <2>1, <2>2, <2>4, Thresholds
  <2>6. PICK a, b, c : a = ResetGap[m] /\ b = ResetGap[x - 1] /\ c = ResetGap[x]
    OBVIOUS
  <2>7. a \in Nat /\ b \in Nat /\ c \in Nat
    BY <1>0, <2>3, <2>4, <2>6, Thresholds
  <2>8. ~(a > b) /\ a > c
    BY <2>3, <2>4, <2>5, <2>6
  <2>9. b <= c
    <3>1. x \in 0 .. ResetStreaks /\ x > 0
      BY <1>0, <2>3, <2>4, Thresholds
    <3> QED BY <2>6, <3>1, GapsGrowOn DEF GapGrown
  <2> QED BY <2>7, <2>8, <2>9
<1>2. m \in m .. ResetStreaks /\ n \in m .. ResetStreaks
  BY Thresholds
<1>3. n \notin T
  BY <1>1
<1>4. ~(ResetGap[m] > ResetGap[n])
  BY <1>2, <1>3
<1>5. PICK a, b : a = ResetGap[m] /\ b = ResetGap[n]
  OBVIOUS
<1>6. a \in Nat /\ b \in Nat
  BY <1>0, <1>2, <1>5
<1>7. ~(a > b)
  BY <1>4, <1>5
<1>8. a <= b
  BY <1>6, <1>7
<1> QED BY <1>5, <1>6, <1>8

LEMMA OlderGrows ==
    ASSUME NEW age \in Nat, NEW limit \in Nat
    PROVE  Older(age, limit) \in Nat /\ (limit > 0 => Older(age, limit) > 0)
BY DEF Older, AtMost, Not

\* Only the end of a unit and the end of a pass touch it, and trouble, which ends calm.
LEMMA SpellKept == SpellCounted /\ [Next]_vars => SpellCounted'
<1> SUFFICES ASSUME SpellCounted, [Next]_vars PROVE SpellCounted'
  OBVIOUS
<1>1. CASE UNCHANGED <<troubleAge, resetAge, resetStreak, spell>>
  BY <1>1 DEF SpellCounted
<1>2. CASE troubleAge' = 0 /\ UNCHANGED <<resetAge, resetStreak, spell>>
  BY <1>2, Thresholds DEF SpellCounted
<1>3. CASE UnitEnds /\ resetStreak' = resetStreak
  <2>1. /\ troubleAge' \in Nat /\ resetAge' \in Nat
    BY <1>3, Thresholds, OlderGrows DEF UnitEnds, SpellCounted
  <2>2. spell' = IF troubleAge' > RESET_CALM THEN 0 ELSE spell
    BY <1>3 DEF UnitEnds
  <2> QED BY <1>3, <2>1, <2>2, Thresholds DEF SpellCounted
<1>4. CASE Service /\ NoReset
  <2>1. spell' = spell /\ resetAge' = resetAge /\ (troubleAge' = 0 \/ troubleAge' = troubleAge)
    BY <1>4 DEF NoReset
  <2>2. resetStreak' = resetStreak \/ (resetStreak' = 0 /\ Forgiven)
    BY <1>4 DEF NoReset
  <2>3. Forgiven => spell = 0
    BY DEF Forgiven, SpellCounted
  <2> QED BY <2>1, <2>2, <2>3, Thresholds DEF SpellCounted
<1>5. CASE Service /\ Reset
  <2>1. /\ resetAge' = 0 /\ troubleAge' = 0
        /\ resetStreak' = AtMost(resetStreak + 1, ResetStreaks)
        /\ spell' = AtMost(spell + 1, ResetStreaks)
    BY <1>5 DEF Reset
  <2> QED BY <2>1, Thresholds DEF SpellCounted, AtMost
<1>6. CASE PortStep
  BY <1>1, <1>6 DEF PortStep, PlugIn, Unplug, PortResetFails, NewDevEvent, DevGoneEvent, errors, resets
<1>7. CASE TransferStep
  BY <1>1, <1>2, <1>7 DEF TransferStep, RxError, RxCanceled, RxNoDevice, TxCompleted, TxError,
     TxNoDevice, NoteEpError, errors, resets
<1>8. CASE PassBegin
  BY <1>1, <1>3, <1>8 DEF PassBegin, Stay
<1>9. CASE DetachFinish \/ AttachFail \/ AttachConnect
  BY <1>1, <1>9 DEF DetachFinish, AttachFail, AttachConnect, errors, resets
<1>10. CASE Service
  BY <1>4, <1>5, <1>10 DEF Service
<1>11. CASE UNCHANGED vars
  BY <1>1, <1>11 DEF vars, errors, resets
<1> QED BY <1>6, <1>7, <1>8, <1>9, <1>10, <1>11 DEF Next, ClientStep

LEMMA SpellInit == Init => SpellCounted
BY Thresholds DEF Init, SpellCounted

\* A port is reset again only after the gap that the resets of the spell have earned,
\* across detaches, attaches and resets that did not take hold.
THEOREM BackedOffResets == Spec => ResetsBackOff
<1>1. ASSUME SpellCounted, [Next]_vars, pending = "no", pending' = "yes"
      PROVE  resetAge >= ResetGap[spell]
  <2>1. Service /\ Reset
    <3>1. ~(PortStep \/ TransferStep \/ UNCHANGED vars)
      BY <1>1 DEF PortStep, PlugIn, Unplug, PortResetFails, NewDevEvent, DevGoneEvent, TransferStep,
         RxError, RxCanceled, RxNoDevice, TxCompleted, TxError, TxNoDevice, resets, vars
    <3>2. ~(PassBegin \/ DetachFinish \/ AttachFail \/ AttachConnect)
      BY <1>1 DEF PassBegin, DetachFinish, AttachFail, AttachConnect, resets
    <3>3. ~(Service /\ NoReset)
      BY <1>1 DEF NoReset
    <3> QED BY <1>1, <3>1, <3>2, <3>3 DEF Next, ClientStep, Service
  <2>2. resetAge >= ResetGap[resetStreak]
    BY <2>1 DEF Reset, BackedOff
  <2>3. PICK a, b : a = ResetGap[spell] /\ b = ResetGap[resetStreak]
    OBVIOUS
  <2>4. a \in Nat /\ b \in Nat /\ a <= b
    BY <1>1, <2>3, Thresholds, GapsGrow DEF SpellCounted
  <2> QED BY <1>1, <2>2, <2>3, <2>4 DEF SpellCounted
<1>2. SpellCounted /\ [Next]_vars => [pending = "no" /\ pending' = "yes" => resetAge >= ResetGap[spell]]_vars
  BY <1>1
<1> QED BY <1>2, SpellInit, SpellKept, PTL DEF Spec, ResetsBackOff

-------------------------------------------------------------------------------
(* The watchdog's backoff.  While the port reads empty for a recovery,     *)
(* its absence has only just begun: a reset is of an attached device and   *)
(* a retry of one that is present, and either ends with the unit.          *)

AbsenceBegins ==
    /\ resetAge \in Nat /\ retryStreak \in 0 .. RetryStreaks
    /\ Recovering => absentAge = Not \/ absentAge = 0
    /\ link = "up" => absentAge = Not \/ (pc = "service" /\ looked = "no")

LEMMA LookBegins ==
    ASSUME AbsenceBegins, Service
    PROVE  /\ absentAge' \in {absentAge, Not} \/ (absentAge = Not /\ absentAge' = 0)
           /\ retryStreak' \in 0 .. RetryStreaks
           /\ retryStreak' >= retryStreak \/ link = "up" \/ plug = "out"
           /\ link = "up" => absentAge' = Not
           /\ recovering' = "yes" => recovering = "yes" \/ absentAge' = Not
<1>0. retryStreak \in 0 .. RetryStreaks /\ RetryStreaks \in Nat
  BY Thresholds DEF AbsenceBegins
<1>1. CASE looked = "yes" /\ UNCHANGED watchdog
  BY <1>0, <1>1 DEF watchdog, AbsenceBegins
<1>2. CASE Look
  <2>1. CASE LookAttached
    BY <1>0, <2>1 DEF LookAttached
  <2>2. CASE LookEmpty
    <3>1. /\ link = "down" /\ "out" \in Reads /\ recovering' = recovering
          /\ absentAge' = IF absentAge = Not THEN 0 ELSE absentAge
          /\ retryStreak' = StreakAfterAbsence(absentAge')
      BY <2>2 DEF LookEmpty
    <3>2. retryStreak' = retryStreak \/ (retryStreak' = 0 /\ absentAge' > ABSENT_SETTLE)
      BY <3>1 DEF StreakAfterAbsence
    <3>3. CASE plug = "out"
      BY <1>0, <3>1, <3>2, <3>3
    <3>4. CASE plug # "out"
      <4>1. Recovering
        BY <3>1, <3>4 DEF Reads
      <4>2. absentAge' = 0
        BY <3>1, <4>1 DEF AbsenceBegins
      <4>3. ~(absentAge' > ABSENT_SETTLE)
        BY <4>2, Thresholds
      <4> QED BY <1>0, <3>1, <3>2, <4>3
    <3> QED BY <3>3, <3>4
  <2>3. CASE LookNoRetry
    BY <1>0, <2>3 DEF LookNoRetry, LookPresent
  <2>4. CASE Retry
    <3>1. absentAge' = Not /\ retryStreak' = AtMost(retryStreak + 1, RetryStreaks) /\ link = "down"
      BY <2>4 DEF Retry, LookPresent
    <3>2. retryStreak' \in 0 .. RetryStreaks /\ retryStreak' >= retryStreak
      BY <1>0, <3>1 DEF AtMost
    <3> QED BY <3>1, <3>2
  <2> QED BY <1>2, <2>1, <2>2, <2>3, <2>4 DEF Look
<1> QED BY <1>1, <1>2 DEF Service

LEMMA AbsenceKept == AbsenceBegins /\ [Next]_vars => AbsenceBegins'
<1> SUFFICES ASSUME AbsenceBegins, [Next]_vars PROVE AbsenceBegins'
  OBVIOUS
<1>1. CASE PortStep \/ TransferStep \/ UNCHANGED vars
  <2>1. UNCHANGED <<pc, link, resetAge, looked, recovering, absentAge, retryStreak>>
    BY <1>1 DEF PortStep, PlugIn, Unplug, PortResetFails, NewDevEvent, DevGoneEvent, TransferStep,
       RxError, RxCanceled, RxNoDevice, TxCompleted, TxError, TxNoDevice, resets, watchdog, client, vars
  <2> QED BY <2>1 DEF AbsenceBegins, Recovering
<1>2. CASE PassBegin
  <2>1. pc = "events" /\ retryStreak' = retryStreak /\ (link' = "up" => link = "up")
    BY <1>2 DEF PassBegin
  <2>2. link = "up" => absentAge = Not
    BY <2>1 DEF AbsenceBegins
  <2>3. CASE Stay
    <3>1. UNCHANGED <<resetAge, recovering, absentAge>>
      BY <2>3 DEF Stay
    <3> QED BY <2>1, <2>2, <3>1 DEF AbsenceBegins, Recovering
  <2>4. CASE UnitEnds
    <3>1. /\ resetAge' = Older(resetAge, RESET_GAP_MAX) /\ recovering' = "no"
          /\ absentAge' = Older(absentAge, ABSENT_SETTLE + 1)
      BY <2>4 DEF UnitEnds
    <3>2. resetAge' \in Nat /\ resetAge' > 0
      BY <3>1, Thresholds, OlderGrows DEF AbsenceBegins
    <3>3. absentAge = Not => absentAge' = Not
      BY <3>1 DEF Older
    <3>4. ~Recovering'
      BY <3>1, <3>2 DEF Recovering
    <3> QED BY <2>1, <2>2, <3>2, <3>3, <3>4 DEF AbsenceBegins
  <2> QED BY <1>2, <2>3, <2>4 DEF PassBegin
<1>3. CASE DetachFinish \/ AttachFail
  <2>1. UNCHANGED <<link, resetAge, looked, recovering, absentAge, retryStreak>>
    BY <1>3 DEF DetachFinish, AttachFail, resets, watchdog
  <2>2. pc # "service"
    BY <1>3 DEF DetachFinish, AttachFail
  <2> QED BY <2>1, <2>2 DEF AbsenceBegins, Recovering
<1>4. CASE AttachConnect
  <2>1. UNCHANGED <<resetAge, recovering, absentAge, retryStreak>> /\ pc' = "service" /\ looked' = "no"
    BY <1>4 DEF AttachConnect, resets
  <2> QED BY <2>1 DEF AbsenceBegins, Recovering
<1>5. CASE Service
  <2>1. /\ absentAge' \in {absentAge, Not} \/ (absentAge = Not /\ absentAge' = 0)
        /\ retryStreak' \in 0 .. RetryStreaks
        /\ link = "up" => absentAge' = Not
        /\ recovering' = "yes" => recovering = "yes" \/ absentAge' = Not
    BY <1>5, LookBegins
  <2>2. link' = link
    BY <1>5 DEF Service
  <2>3. resetAge' = resetAge \/ (resetAge' = 0 /\ link = "up")
    BY <1>5 DEF Service, NoReset, Reset, Trouble
  <2>4. resetAge' \in Nat
    BY <2>3 DEF AbsenceBegins
  <2>5. Recovering' => absentAge' = Not \/ absentAge' = 0
    <3>1. CASE link = "up"
      BY <2>1, <3>1
    <3>2. CASE link # "up"
      <4>1. Recovering' => Recovering \/ absentAge' = Not
        BY <2>1, <2>3, <3>2 DEF Recovering
      <4> QED BY <2>1, <4>1 DEF AbsenceBegins
    <3> QED BY <3>1, <3>2
  <2> QED BY <2>1, <2>2, <2>4, <2>5 DEF AbsenceBegins
<1> QED BY <1>1, <1>2, <1>3, <1>4, <1>5 DEF Next, ClientStep

LEMMA AbsenceInit == Init => AbsenceBegins
BY Thresholds DEF Init, AbsenceBegins, Recovering

\* The blip of a port recovery, the watchdog's own retry's included, never gives its
\* backoff up: only an attachment does, or a device pulled out.
THEOREM BlipsForgiveNothing == Spec => BlipForgivesNothing
<1>1. ASSUME AbsenceBegins, [Next]_vars, retryStreak' < retryStreak PROVE link = "up" \/ plug = "out"
  <2>1. retryStreak \in Nat
    BY <1>1, Thresholds DEF AbsenceBegins
  <2>2. retryStreak' # retryStreak
    BY <1>1, <2>1
  <2>3. ~(PortStep \/ TransferStep \/ UNCHANGED vars)
    BY <2>2 DEF PortStep, PlugIn, Unplug, PortResetFails, NewDevEvent, DevGoneEvent, TransferStep,
       RxError, RxCanceled, RxNoDevice, TxCompleted, TxError, TxNoDevice, watchdog, vars
  <2>4. ~(PassBegin \/ DetachFinish \/ AttachFail \/ AttachConnect)
    BY <2>2 DEF PassBegin, DetachFinish, AttachFail, AttachConnect, watchdog
  <2>5. Service
    BY <1>1, <2>3, <2>4 DEF Next, ClientStep
  <2>6. retryStreak' \in Nat /\ (retryStreak' >= retryStreak \/ link = "up" \/ plug = "out")
    BY <1>1, <2>5, LookBegins, Thresholds
  <2> QED BY <1>1, <2>1, <2>6
<1>2. AbsenceBegins /\ [Next]_vars => [retryStreak' < retryStreak => link = "up" \/ plug = "out"]_vars
  BY <1>1
<1> QED BY <1>2, AbsenceInit, AbsenceKept, PTL DEF Spec, BlipForgivesNothing

===============================================================================
