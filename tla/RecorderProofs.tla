----------------------------- MODULE RecorderProofs -----------------------------
(***************************************************************************)
(* Proofs about the flight recorder, for any number of tasks and triggers, *)
(* any ring and any clock: its types, that times rise with the record      *)
(* numbers, that nothing is stored once a freeze is due, and that the      *)
(* newest FREEZE record names the trigger the status page shows.  A step   *)
(* is one of four kinds to these: it stores nothing; it stores an ordinary *)
(* record, a FREEZE record, or ARM.                                        *)
(*                                                                         *)
(* Then about reading it: that the remembered epochs give every record     *)
(* held its full time, what a raw and a text download and seqAt() hold to  *)
(* while the ring moves, and that the decoder gets the times of a raw file *)
(* back.  The times hold while the clock has had no more high halves than  *)
(* are remembered: MaxTime < EPOCHS * WRAP, 12.7 days in the code.         *)
(***************************************************************************)
EXTENDS RecorderDownload, SequenceTheorems, WellFoundedInduction, TLAPS

Args == Triggers \cup {"none", "manual"}
Entry == [at : Nat, kind : Kinds, arg : Args]
RecType == [seq : Nat, t : 0 .. WRAP - 1, kind : Kinds, arg : Args, high : Nat]
EpochType == [firstSeq : Nat, high : Nat]

RingOK ==
    /\ now \in Nat /\ seq \in Nat /\ epochCount \in Nat
    /\ ring \in [0 .. Capacity - 1 -> RecType]
    /\ epochs \in [0 .. EPOCHS - 1 -> EpochType]
    /\ log \in Seq(Entry) /\ Len(log) = seq /\ seq > 0

ControlOK ==
    /\ frozen \in {"yes", "no"} /\ trigger \in Args /\ freezeUs \in Nat
    /\ putting \in [Tasks -> {NotPutting} \cup [at : Nat]]
    /\ pc \in {"idle", "tick"} /\ lastTime \in Nat /\ lastSec \in Nat

\* No record is of the future.
StoredBefore == \A s \in 1 .. seq : log[s].at <= now

\* The records of the last Capacity numbers, a form that needs no cases.
Holds == \A s \in 1 .. seq : seq < s + Capacity => ring[s % Capacity] = Stored(s)

IInv ==
    /\ RingOK /\ ControlOK /\ Holds
    /\ StoredBefore /\ TimesRise /\ NothingAfterFreeze /\ FreezeRecordTells

-------------------------------------------------------------------------------
(* The constants, and what storing a record does.                          *)

LEMMA Constants ==
    /\ Capacity \in Nat /\ Capacity > 0 /\ WRAP \in Nat /\ WRAP > 0
    /\ EPOCHS \in Nat /\ EPOCHS > 0 /\ FREEZE_DELAY \in Nat
BY RecorderAssumption

LEMMA ModBound == \A a \in Nat, n \in Nat : n > 0 => a % n \in 0 .. n - 1 /\ a \div n \in Nat
BY SMT

\* Two numbers less than Capacity apart have slots of their own.
LEMMA SlotsApart ==
    ASSUME NEW n \in Nat, n > 0, NEW a \in Nat, NEW b \in Nat, a < b, b < a + n
    PROVE  a % n # b % n
<1> SUFFICES ASSUME a % n = b % n PROVE FALSE
  OBVIOUS
<1>1. PICK q \in Int, r \in Int : a = n * q + r /\ r = (a % n)
  <2>1. a = n * (a \div n) + (a % n) /\ a \div n \in Int /\ (a % n) \in Int
    BY SMT
  <2> QED BY <2>1
<1>2. PICK p \in Int, s \in Int : b = n * p + s /\ s = (b % n)
  <2>1. b = n * (b \div n) + (b % n) /\ b \div n \in Int /\ (b % n) \in Int
    BY SMT
  <2> QED BY <2>1
<1>3. b - a = n * (p - q)
  BY <1>1, <1>2
<1>4. 0 < n * (p - q) /\ n * (p - q) < n
  BY <1>3
<1>5. p - q >= 1 \/ p - q <= 0
  OBVIOUS
<1>6. CASE p - q >= 1
  BY <1>4, <1>6
<1>7. CASE p - q <= 0
  BY <1>4, <1>7
<1> QED BY <1>5, <1>6, <1>7

LEMMA RecTyped ==
    ASSUME NEW s \in Nat, NEW at \in Nat, NEW kind \in Kinds, NEW arg \in Args
    PROVE  Rec(s, at, kind, arg) \in RecType
<1>1. at % WRAP \in 0 .. WRAP - 1 /\ at \div WRAP \in Nat
  BY Constants, ModBound
<1>2. (IF kind \in {"TIME", "ARM", "FREEZE"} THEN at \div WRAP ELSE 0) \in Nat
  BY <1>1
<1> QED BY <1>1, <1>2 DEF Rec, RecType

LEMMA EntryAt ==
    ASSUME RingOK, NEW s \in 1 .. seq
    PROVE  log[s] \in Entry /\ log[s].at \in Nat
<1>1. log \in Seq(Entry) /\ Len(log) = seq
  BY DEF RingOK
<1>2. log[s] \in Entry
  BY <1>1
<1> QED BY <1>2 DEF Entry

\* Storing a record keeps the ring's types and appends one entry, of this moment.
LEMMA WriteDoes ==
    ASSUME RingOK, NEW kind \in Kinds, NEW arg \in Args, NEW called, Write(kind, arg, called),
           now' \in Nat
    PROVE  /\ RingOK'
           /\ seq' = seq + 1
           /\ \A s \in 1 .. seq : log'[s] = log[s]
           /\ log'[seq + 1] = [at |-> now, kind |-> kind, arg |-> arg]
<1>1. seq \in Nat /\ now \in Nat /\ epochCount \in Nat /\ log \in Seq(Entry) /\ Len(log) = seq
  BY DEF RingOK
<1>2. seq' = seq + 1 /\ log' = Append(log, [at |-> now, kind |-> kind, arg |-> arg])
  BY DEF Write, Stamp
<1>3. [at |-> now, kind |-> kind, arg |-> arg] \in Entry
  BY <1>1 DEF Entry
<1>4. log' \in Seq(Entry) /\ Len(log') = seq'
  BY <1>1, <1>2, <1>3
<1>5. \A s \in 1 .. seq : log'[s] = log[s]
  BY <1>1, <1>2
<1>6. log'[seq + 1] = [at |-> now, kind |-> kind, arg |-> arg]
  BY <1>1, <1>2
<1>7. ring' \in [0 .. Capacity - 1 -> RecType]
  <2>1. Rec(seq + 1, now, kind, arg) \in RecType
    BY <1>1, RecTyped
  <2>2. ring' = [ring EXCEPT ![(seq + 1) % Capacity] = Rec(seq + 1, now, kind, arg)]
    BY DEF Write, Stamp
  <2>3. ring \in [0 .. Capacity - 1 -> RecType]
    BY DEF RingOK
  <2> QED BY <2>1, <2>2, <2>3
<1>8. epochs' \in [0 .. EPOCHS - 1 -> EpochType] /\ epochCount' \in Nat
  <2>1. epochs \in [0 .. EPOCHS - 1 -> EpochType]
    BY DEF RingOK
  <2>2. CASE NewEpoch(now \div WRAP)
    <3>1. epochs' = [epochs EXCEPT ![epochCount % EPOCHS] =
                                     [firstSeq |-> seq + 1, high |-> now \div WRAP]]
          /\ epochCount' = epochCount + 1
      BY <2>2 DEF Write, Stamp
    <3>2. now \div WRAP \in Nat
      BY <1>1, Constants, ModBound
    <3>3. [firstSeq |-> seq + 1, high |-> now \div WRAP] \in EpochType
      BY <1>1, <3>2 DEF EpochType
    <3>4. epochs' \in [0 .. EPOCHS - 1 -> EpochType]
      BY <2>1, <3>1, <3>3
    <3> QED BY <1>1, <3>1, <3>4
  <2>3. CASE ~NewEpoch(now \div WRAP)
    BY <1>1, <2>1, <2>3 DEF Write, Stamp
  <2> QED BY <2>2, <2>3
<1> QED BY <1>1, <1>2, <1>4, <1>5, <1>6, <1>7, <1>8 DEF RingOK

LEMMA WriteHolds ==
    ASSUME RingOK, Holds, NEW kind \in Kinds, NEW arg \in Args, NEW called,
           Write(kind, arg, called), now' \in Nat
    PROVE  Holds'
<1>1. /\ seq' = seq + 1
      /\ \A s \in 1 .. seq : log'[s] = log[s]
      /\ log'[seq + 1] = [at |-> now, kind |-> kind, arg |-> arg]
  BY WriteDoes
<1>2. ring' = [ring EXCEPT ![(seq + 1) % Capacity] = Rec(seq + 1, now, kind, arg)]
  BY DEF Write, Stamp
<1>3. ring \in [0 .. Capacity - 1 -> RecType] /\ seq \in Nat
  BY DEF RingOK
<1>4. (seq + 1) % Capacity \in 0 .. Capacity - 1
  BY <1>3, Constants, ModBound
<1> SUFFICES ASSUME NEW s \in 1 .. seq', seq' < s + Capacity
             PROVE  ring'[s % Capacity] = Stored(s)'
  BY DEF Holds
<1>5. CASE s = seq + 1
  <2>1. ring'[(seq + 1) % Capacity] = Rec(seq + 1, now, kind, arg)
    BY <1>2, <1>3, <1>4
  <2>2. Stored(s)' = Rec(seq + 1, now, kind, arg)
    BY <1>1, <1>5 DEF Stored, Rec
  <2> QED BY <1>5, <2>1, <2>2
<1>6. CASE s # seq + 1
  <2>1. s \in 1 .. seq /\ seq < s + Capacity
    BY <1>1, <1>3, <1>6, Constants
  <2>2. ring[s % Capacity] = Stored(s)
    BY <2>1 DEF Holds
  <2>3. s % Capacity # (seq + 1) % Capacity
    <3>1. s \in Nat /\ seq + 1 \in Nat /\ s < seq + 1 /\ seq + 1 < s + Capacity
      BY <1>1, <1>3, <2>1
    <3> QED BY <3>1, SlotsApart, Constants
  <2>4. ring'[s % Capacity] = ring[s % Capacity]
    <3>1. s % Capacity \in 0 .. Capacity - 1
      BY <2>1, Constants, ModBound
    <3> QED BY <1>2, <1>3, <2>3, <3>1
  <2>5. Stored(s)' = Stored(s)
    BY <1>1, <2>1 DEF Stored, Rec
  <2> QED BY <2>2, <2>4, <2>5
<1> QED BY <1>5, <1>6

-------------------------------------------------------------------------------
(* The four kinds of step.                                                 *)

Nothing ==
    /\ UNCHANGED ringVars
    /\ UNCHANGED <<trigger, freezeUs>>
    /\ now' \in Nat /\ now <= now'

Ordinary ==
    /\ \E kind \in {"EVENT", "TIME"}, called \in Int : Write(kind, "none", called)
    /\ UNCHANGED <<trigger, freezeUs, now>>
    /\ ~FreezeDue

Freezing ==
    /\ \E t \in Triggers \cup {"manual"} : Write("FREEZE", t, now) /\ trigger' = t
    /\ now' \in Nat /\ now <= now'
    /\ freezeUs' \in Nat /\ now <= freezeUs'

Arming ==
    /\ Write("ARM", "none", now)
    /\ trigger' = "none" /\ freezeUs' = 0 /\ now' = now

LEMMA TriggerKinds ==
    ASSUME RingOK, ControlOK, NEW t \in Triggers \cup {"manual"},
           TriggerRefused(t) \/ TriggerStored(t)
    PROVE  (Nothing \/ Freezing) /\ frozen' \in {"yes", "no"} /\ UNCHANGED putting
<1>1. CASE TriggerRefused(t)
  BY <1>1 DEF TriggerRefused, Nothing, RingOK
<1>2. CASE TriggerStored(t)
  <2>1. PICK later \in {now, now + 1} :
            now' = later /\ freezeUs' = IF t = "manual" THEN later ELSE later + FREEZE_DELAY
    BY <1>2 DEF TriggerStored
  <2>2. now' \in Nat /\ now <= now' /\ freezeUs' \in Nat /\ now <= freezeUs'
    BY <2>1, Constants DEF RingOK
  <2>3. Write("FREEZE", t, now) /\ trigger' = t /\ UNCHANGED putting
    BY <1>2 DEF TriggerStored
  <2>4. frozen' \in {"yes", "no"}
    BY <1>2 DEF TriggerStored
  <2> QED BY <2>2, <2>3, <2>4 DEF Freezing
<1> QED BY <1>1, <1>2

\* Every step is of one of the four kinds, and leaves frozen and the loop task's own
\* state what they may be.
LEMMA StepKinds ==
    ASSUME RingOK, ControlOK, [Next]_vars
    PROVE  /\ Nothing \/ Ordinary \/ Freezing \/ Arming
           /\ frozen' \in {"yes", "no"}
           /\ putting' \in [Tasks -> {NotPutting} \cup [at : Nat]]
           /\ pc' \in {"idle", "tick"} /\ lastTime' \in Nat /\ lastSec' \in Nat
<1> USE DEF ControlOK
<1> now \in Nat
  BY DEF RingOK
<1>1. CASE UNCHANGED vars
  BY <1>1 DEF vars, Nothing, ringVars, freezeVars, loopVars
<1>2. ASSUME NEW k \in Tasks, PutCall(k)
      PROVE  /\ Nothing
             /\ frozen' = frozen /\ UNCHANGED loopVars
             /\ putting' \in [Tasks -> {NotPutting} \cup [at : Nat]]
  <2>1. [at |-> now] \in [at : Nat]
    OBVIOUS
  <2>2. putting' = [putting EXCEPT ![k] = [at |-> now]]
    BY <1>2 DEF PutCall
  <2>3. putting' \in [Tasks -> {NotPutting} \cup [at : Nat]]
    BY <2>1, <2>2
  <2> QED BY <1>2, <2>3 DEF PutCall, Nothing, freezeVars
<1>3. ASSUME NEW k \in Tasks, PutStore(k)
      PROVE  /\ Nothing \/ Ordinary
             /\ frozen' \in {"yes", "no"} /\ UNCHANGED loopVars
             /\ putting' \in [Tasks -> {NotPutting} \cup [at : Nat]]
  <2>1. putting' \in [Tasks -> {NotPutting} \cup [at : Nat]]
    BY <1>3 DEF PutStore
  <2>2. CASE Stopped /\ frozen' = "yes" /\ UNCHANGED ringVars
    BY <1>3, <2>1, <2>2 DEF PutStore, Nothing
  <2>3. CASE ~Stopped /\ Write("EVENT", "none", putting[k].at) /\ UNCHANGED frozen
    <3>1. putting[k].at \in Int
      <4>1. putting[k] \in [at : Nat]
        BY <1>3 DEF PutStore
      <4> QED BY <4>1
    <3>2. Ordinary
      BY <1>3, <2>3, <3>1 DEF PutStore, Ordinary, Stopped
    <3> QED BY <1>3, <2>1, <2>3, <3>2 DEF PutStore
  <2> QED BY <1>3, <2>2, <2>3 DEF PutStore
<1>4. ASSUME NEW t \in Triggers \cup {"manual"}, Trigger(t)
      PROVE  /\ Nothing \/ Freezing
             /\ frozen' \in {"yes", "no"} /\ UNCHANGED loopVars /\ UNCHANGED putting
  BY <1>4, TriggerKinds DEF Trigger
<1>5. CASE Arm
  <2>1. Arming
    BY <1>5 DEF Arm, Arming
  <2> QED BY <1>5, <2>1 DEF Arm, loopVars
<1>6. CASE TickTime
  <2>1. CASE TimeDue /\ Stopped /\ frozen' = "yes" /\ UNCHANGED ringVars
    BY <1>6, <2>1 DEF TickTime, Nothing
  <2>2. CASE TimeDue /\ ~Stopped /\ Write("TIME", "none", now) /\ UNCHANGED frozen
    <3>1. Ordinary
      BY <1>6, <2>2 DEF TickTime, Ordinary, Stopped
    <3> QED BY <1>6, <2>2, <3>1 DEF TickTime
  <2>3. CASE ~TimeDue
    BY <1>6, <2>3 DEF TickTime, Nothing
  <2> QED BY <1>6, <2>1, <2>2, <2>3 DEF TickTime
<1>7. CASE TickSecond
  BY <1>7 DEF TickSecond, FrozenByTick, Nothing
<1>8. CASE TimePasses
  BY <1>8 DEF TimePasses, Nothing, freezeVars, loopVars
<1> QED BY <1>1, <1>2, <1>3, <1>4, <1>5, <1>6, <1>7, <1>8
        DEF Next, AnyTask, LoopTask, FreezeNow, loopVars

-------------------------------------------------------------------------------
(* What each kind of step keeps.                                           *)

LEMMA NothingKeeps == ASSUME IInv, Nothing PROVE RingOK' /\ Holds' /\ (trigger' \in Args /\ freezeUs' \in Nat)
    /\ StoredBefore' /\ TimesRise' /\ NothingAfterFreeze' /\ FreezeRecordTells'
<1>1. seq' = seq /\ log' = log /\ trigger' = trigger /\ freezeUs' = freezeUs
  BY DEF Nothing, ringVars
<1>2. RingOK'
  BY DEF IInv, RingOK, Nothing, ringVars
<1>5. Holds'
  BY <1>1 DEF IInv, Holds, Stored, Rec, Nothing, ringVars
<1>3. StoredBefore'
  <2> SUFFICES ASSUME NEW s \in 1 .. seq PROVE log[s].at <= now'
    BY <1>1 DEF StoredBefore
  <2>1. log[s].at \in Nat
    BY EntryAt DEF IInv
  <2> QED BY <2>1 DEF IInv, StoredBefore, Nothing, RingOK
<1>4. TimesRise' /\ NothingAfterFreeze' /\ FreezeRecordTells'
  BY <1>1 DEF IInv, TimesRise, NothingAfterFreeze, FreezeRecordTells
<1> QED BY <1>1, <1>2, <1>3, <1>4, <1>5 DEF IInv, ControlOK

\* The times of a log one entry longer, of this moment.
LEMMA TimesOfWrite ==
    ASSUME IInv, NEW kind \in Kinds, NEW arg \in Args, NEW called, Write(kind, arg, called),
           now' \in Nat, now <= now'
    PROVE  /\ StoredBefore' /\ TimesRise'
           /\ \A s \in 1 .. seq' : log'[s].at \in Nat /\ log'[s].at <= now
<1>1. /\ seq' = seq + 1 /\ seq \in Nat /\ now \in Nat
      /\ \A s \in 1 .. seq : log'[s] = log[s]
      /\ log'[seq + 1].at = now
  <2>1. RingOK
    BY DEF IInv
  <2>2. /\ seq' = seq + 1
        /\ \A s \in 1 .. seq : log'[s] = log[s]
        /\ log'[seq + 1] = [at |-> now, kind |-> kind, arg |-> arg]
    BY <2>1, WriteDoes
  <2> QED BY <2>1, <2>2 DEF RingOK
<1>2. \A s \in 1 .. seq : log[s].at \in Nat /\ log[s].at <= now
  BY EntryAt DEF IInv, StoredBefore
<1>3. \A s \in 1 .. seq' : log'[s].at \in Nat /\ log'[s].at <= now
  BY <1>1, <1>2
<1>4. StoredBefore'
  BY <1>1, <1>3 DEF StoredBefore
<1>5. TimesRise'
  <2> SUFFICES ASSUME NEW r \in 1 .. seq', NEW s \in 1 .. seq', r <= s
               PROVE  log'[r].at <= log'[s].at
    BY DEF TimesRise
  <2>1. CASE s = seq + 1
    BY <1>1, <1>3, <2>1
  <2>2. CASE s # seq + 1
    <3>1. r \in 1 .. seq /\ s \in 1 .. seq
      BY <1>1, <2>2
    <3>2. log[r].at <= log[s].at
      BY <3>1 DEF IInv, TimesRise
    <3> QED BY <1>1, <3>1, <3>2
  <2> QED BY <2>1, <2>2
<1> QED BY <1>3, <1>4, <1>5

LEMMA OrdinaryKeeps == ASSUME IInv, Ordinary PROVE RingOK' /\ Holds' /\ (trigger' \in Args /\ freezeUs' \in Nat)
    /\ StoredBefore' /\ TimesRise' /\ NothingAfterFreeze' /\ FreezeRecordTells'
<1>1. PICK kind \in {"EVENT", "TIME"}, called \in Int : Write(kind, "none", called)
  BY DEF Ordinary
<1>2. kind \in Kinds /\ "none" \in Args /\ trigger' = trigger /\ freezeUs' = freezeUs /\ now' = now
  BY DEF Kinds, Args, Ordinary
<1>3. now \in Nat /\ seq \in Nat /\ freezeUs \in Nat
  BY DEF IInv, RingOK, ControlOK
<1>8. Holds'
  BY <1>1, <1>2, <1>3, WriteHolds DEF IInv
<1>4. /\ RingOK' /\ seq' = seq + 1
      /\ \A s \in 1 .. seq : log'[s] = log[s]
      /\ log'[seq + 1] = [at |-> now, kind |-> kind, arg |-> "none"]
  BY <1>1, <1>2, <1>3, WriteDoes DEF IInv
<1>5. StoredBefore' /\ TimesRise' /\ \A s \in 1 .. seq' : log'[s].at \in Nat /\ log'[s].at <= now
  BY <1>1, <1>2, <1>3, TimesOfWrite
<1>6. NothingAfterFreeze'
  <2> SUFFICES ASSUME trigger # "none", NEW s \in 1 .. seq' PROVE log'[s].at <= freezeUs
    BY <1>2 DEF NothingAfterFreeze
  <2>1. now < freezeUs
    BY <1>3 DEF Ordinary, FreezeDue
  <2>2. log'[s].at \in Nat /\ log'[s].at <= now
    BY <1>5
  <2> QED BY <1>3, <2>1, <2>2
<1>7. FreezeRecordTells'
  <2> SUFFICES ASSUME NEW s \in 1 .. seq',
                      \A r \in s + 1 .. seq' : log'[r].kind # "ARM" /\ log'[r].kind # "FREEZE"
               PROVE  /\ log'[s].kind = "FREEZE" => trigger = log'[s].arg
                      /\ log'[s].kind = "ARM" => trigger = "none"
    BY <1>2 DEF FreezeRecordTells
  <2>1. CASE s = seq + 1
    BY <1>4, <2>1
  <2>2. CASE s # seq + 1
    <3>1. s \in 1 .. seq
      BY <1>3, <1>4, <2>2
    <3>2. \A r \in s + 1 .. seq : log[r].kind # "ARM" /\ log[r].kind # "FREEZE"
      BY <1>3, <1>4, <3>1
    <3> QED BY <1>4, <3>1, <3>2 DEF IInv, FreezeRecordTells
  <2> QED BY <2>1, <2>2
<1> QED BY <1>2, <1>4, <1>5, <1>6, <1>7, <1>8 DEF IInv, ControlOK

\* A FREEZE or ARM record is the newest of its kinds, and says what trigger is.
LEMMA MarkTells ==
    ASSUME IInv, NEW kind \in {"FREEZE", "ARM"}, NEW arg \in Args, Write(kind, arg, now),
           now' \in Nat, trigger' = arg, kind = "ARM" => arg = "none"
    PROVE  FreezeRecordTells'
<1>1. kind \in Kinds
  BY DEF Kinds
<1>2. /\ seq' = seq + 1 /\ seq \in Nat
      /\ log'[seq + 1] = [at |-> now, kind |-> kind, arg |-> arg]
  BY <1>1, WriteDoes DEF IInv, RingOK
<1> SUFFICES ASSUME NEW s \in 1 .. seq',
                    \A r \in s + 1 .. seq' : log'[r].kind # "ARM" /\ log'[r].kind # "FREEZE"
             PROVE  /\ log'[s].kind = "FREEZE" => trigger' = log'[s].arg
                    /\ log'[s].kind = "ARM" => trigger' = "none"
  BY DEF FreezeRecordTells
<1>3. s = seq + 1
  <2> SUFFICES ASSUME s # seq + 1 PROVE FALSE
    OBVIOUS
  <2>1. seq + 1 \in s + 1 .. seq'
    BY <1>2
  <2>2. log'[seq + 1].kind = kind
    BY <1>2
  <2> QED BY <2>1, <2>2
<1> QED BY <1>2, <1>3

LEMMA FreezingKeeps == ASSUME IInv, Freezing PROVE RingOK' /\ Holds' /\ (trigger' \in Args /\ freezeUs' \in Nat)
    /\ StoredBefore' /\ TimesRise' /\ NothingAfterFreeze' /\ FreezeRecordTells'
<1>1. PICK t \in Triggers \cup {"manual"} : Write("FREEZE", t, now) /\ trigger' = t
  BY DEF Freezing
<1>2. "FREEZE" \in Kinds /\ t \in Args /\ now' \in Nat /\ now <= now' /\ freezeUs' \in Nat /\ now <= freezeUs'
  BY DEF Kinds, Args, Freezing
<1>3. RingOK' /\ Holds'
  BY <1>1, <1>2, WriteDoes, WriteHolds DEF IInv
<1>4. StoredBefore' /\ TimesRise' /\ \A s \in 1 .. seq' : log'[s].at \in Nat /\ log'[s].at <= now
  BY <1>1, <1>2, TimesOfWrite
<1>5. NothingAfterFreeze'
  <2> SUFFICES ASSUME NEW s \in 1 .. seq' PROVE log'[s].at <= freezeUs'
    BY DEF NothingAfterFreeze
  <2>1. log'[s].at \in Nat /\ log'[s].at <= now
    BY <1>4
  <2>2. now \in Nat
    BY DEF IInv, RingOK
  <2> QED BY <1>2, <2>1, <2>2
<1>6. FreezeRecordTells'
  BY <1>1, <1>2, MarkTells
<1> QED BY <1>1, <1>2, <1>3, <1>4, <1>5, <1>6

LEMMA ArmingKeeps == ASSUME IInv, Arming PROVE RingOK' /\ Holds' /\ (trigger' \in Args /\ freezeUs' \in Nat)
    /\ StoredBefore' /\ TimesRise' /\ NothingAfterFreeze' /\ FreezeRecordTells'
<1>1. "ARM" \in Kinds /\ "none" \in Args /\ now' \in Nat /\ now <= now'
  BY DEF Kinds, Args, Arming, IInv, RingOK
<1>2. Write("ARM", "none", now) /\ trigger' = "none" /\ freezeUs' = 0
  BY DEF Arming
<1>3. RingOK' /\ Holds'
  BY <1>1, <1>2, WriteDoes, WriteHolds DEF IInv
<1>4. StoredBefore' /\ TimesRise'
  BY <1>1, <1>2, TimesOfWrite
<1>5. NothingAfterFreeze'
  BY <1>2 DEF NothingAfterFreeze
<1>6. FreezeRecordTells'
  BY <1>1, <1>2, MarkTells
<1> QED BY <1>1, <1>2, <1>3, <1>4, <1>5, <1>6

-------------------------------------------------------------------------------
(* The invariant, and what follows.                                        *)

LEMMA InitHolds == Init => IInv
<1> SUFFICES ASSUME Init PROVE IInv
  OBVIOUS
<1> USE DEF Init
<1>1. log = <<[at |-> 0, kind |-> "BOOT", arg |-> "none"],
              [at |-> 0, kind |-> "TIME", arg |-> "none"]>>
  OBVIOUS
<1>2. "none" \in Args /\ "BOOT" \in Kinds /\ "TIME" \in Kinds
  BY DEF Args, Kinds
<1>3. [at |-> 0, kind |-> "BOOT", arg |-> "none"] \in Entry
      /\ [at |-> 0, kind |-> "TIME", arg |-> "none"] \in Entry
  BY <1>2 DEF Entry
<1>4. log \in Seq(Entry) /\ Len(log) = 2 /\ log[1].at = 0 /\ log[2].at = 0
      /\ log[1].kind = "BOOT" /\ log[2].kind = "TIME"
  BY <1>1, <1>3
<1>5. ring \in [0 .. Capacity - 1 -> RecType]
  <2>1. Rec(1, 0, "BOOT", "none") \in RecType /\ Rec(2, 0, "TIME", "none") \in RecType
    BY <1>2, RecTyped
  <2>2. 0 \in 0 .. WRAP - 1
    BY Constants
  <2>3. Empty \in RecType
    BY <1>2, <2>2 DEF Empty, RecType
  <2> QED BY <2>1, <2>3
<1>6. epochs \in [0 .. EPOCHS - 1 -> EpochType]
  BY DEF EpochType
<1>7. RingOK
  BY <1>4, <1>5, <1>6 DEF RingOK
<1>8. ControlOK
  BY <1>2 DEF ControlOK
<1>9. 1 .. seq = {1, 2}
  OBVIOUS
<1>10. StoredBefore /\ TimesRise
  BY <1>4, <1>9 DEF StoredBefore, TimesRise
<1>11. NothingAfterFreeze
  BY DEF NothingAfterFreeze
<1>12. FreezeRecordTells
  BY <1>4, <1>9 DEF FreezeRecordTells
<1>13. Holds
  <2>1. 0 \in 0 .. 0 /\ seq = 2
    OBVIOUS
  <2>2. 2 % Capacity \in 0 .. Capacity - 1 /\ 1 % Capacity \in 0 .. Capacity - 1
    BY Constants, ModBound
  <2>3. ring[2 % Capacity] = Rec(2, 0, "TIME", "none")
    BY <2>2
  <2>4. seq < 1 + Capacity => 1 % Capacity # 2 % Capacity
    <3>1. ASSUME seq < 1 + Capacity PROVE 1 % Capacity # 2 % Capacity
      <4>1. 1 \in Nat /\ 2 \in Nat /\ 1 < 2 /\ 2 < 1 + Capacity
        BY <3>1
      <4> QED BY <4>1, Constants, SlotsApart
    <3> QED BY <3>1
  <2>5. seq < 1 + Capacity => ring[1 % Capacity] = Rec(1, 0, "BOOT", "none")
    BY <2>2, <2>4
  <2>6. Stored(1) = Rec(1, 0, "BOOT", "none") /\ Stored(2) = Rec(2, 0, "TIME", "none")
    BY <1>1 DEF Stored
  <2> QED BY <1>9, <2>3, <2>5, <2>6 DEF Holds
<1> QED BY <1>7, <1>8, <1>10, <1>11, <1>12, <1>13 DEF IInv

LEMMA StepKeeps == IInv /\ [Next]_vars => IInv'
<1> SUFFICES ASSUME IInv, [Next]_vars PROVE IInv'
  OBVIOUS
<1>1. RingOK /\ ControlOK
  BY DEF IInv
<1>2. /\ Nothing \/ Ordinary \/ Freezing \/ Arming
      /\ frozen' \in {"yes", "no"}
      /\ putting' \in [Tasks -> {NotPutting} \cup [at : Nat]]
      /\ pc' \in {"idle", "tick"} /\ lastTime' \in Nat /\ lastSec' \in Nat
  BY <1>1, StepKinds
<1>3. RingOK' /\ Holds' /\ (trigger' \in Args /\ freezeUs' \in Nat)
      /\ StoredBefore' /\ TimesRise' /\ NothingAfterFreeze' /\ FreezeRecordTells'
  BY <1>2, NothingKeeps, OrdinaryKeeps, FreezingKeeps, ArmingKeeps
<1>4. ControlOK'
  BY <1>2, <1>3 DEF ControlOK
<1> QED BY <1>3, <1>4 DEF IInv

\* The strengthened invariant holds of every state the recorder reaches.
THEOREM Invariant == Spec => []IInv
BY InitHolds, StepKeeps, PTL DEF Spec

\* Types, and the length of the log, whatever the tasks and the loop task do.
THEOREM TypeCorrect == Spec => []TypeOK
<1>1. IInv => TypeOK
  BY DEF IInv, RingOK, ControlOK, TypeOK, RecType, EpochType, Entry, Args
<1> QED BY <1>1, Invariant, PTL

\* The ring holds the newest Capacity records, each in its slot.
THEOREM RingHolds == Spec => []RingHoldsNewest
<1>1. IInv => RingHoldsNewest
  <2> SUFFICES ASSUME IInv, NEW s \in Oldest .. seq PROVE ring[s % Capacity] = Stored(s)
    BY DEF RingHoldsNewest
  <2> seq \in Nat /\ Capacity \in Nat /\ Capacity > 0
    BY Constants DEF IInv, RingOK
  <2>1. seq > 0
    BY DEF IInv, RingOK
  <2>2. s \in 1 .. seq /\ seq < s + Capacity
    BY <2>1 DEF Oldest
  <2> QED BY <2>2 DEF IInv, Holds
<1> QED BY <1>1, Invariant, PTL

\* A frozen ring stays as it is until ARM is stored in the step that resumes it.
THEOREM FrozenStays == Spec => FrozenUntilArmed
<1>1. IInv /\ [Next]_vars =>
        [frozen = "yes" /\ <<ring, seq, frozen>>' # <<ring, seq, frozen>> =>
           /\ frozen' = "no" /\ trigger' = "none"
           /\ seq' = seq + 1 /\ ring'[seq' % Capacity].kind = "ARM"]_vars
  <2> SUFFICES ASSUME IInv, Next, frozen = "yes", <<ring, seq, frozen>>' # <<ring, seq, frozen>>
               PROVE  /\ frozen' = "no" /\ trigger' = "none"
                      /\ seq' = seq + 1 /\ ring'[seq' % Capacity].kind = "ARM"
    OBVIOUS
  <2>1. CASE Arm
    <3>1. Write("ARM", "none", now) /\ frozen' = "no" /\ trigger' = "none"
      BY <2>1 DEF Arm
    <3>2. seq' = seq + 1
          /\ ring' = [ring EXCEPT ![(seq + 1) % Capacity] = Rec(seq + 1, now, "ARM", "none")]
      BY <3>1 DEF Write, Stamp
    <3>3. (seq + 1) % Capacity \in 0 .. Capacity - 1 /\ ring \in [0 .. Capacity - 1 -> RecType]
      BY Constants, ModBound DEF IInv, RingOK
    <3>4. ring'[(seq + 1) % Capacity] = Rec(seq + 1, now, "ARM", "none")
      BY <3>2, <3>3
    <3>5. ring'[seq' % Capacity].kind = "ARM"
      BY <3>2, <3>4 DEF Rec
    <3> QED BY <3>1, <3>2, <3>5
  <2>2. ASSUME NEW t, Trigger(t) PROVE FALSE
    BY <2>2 DEF Trigger, TriggerRefused, TriggerStored, Taken
  <2>3. ASSUME NEW k \in Tasks, PutCall(k) \/ PutStore(k) PROVE FALSE
    BY <2>3 DEF PutCall, PutStore, Stopped, ringVars, freezeVars
  <2>4. CASE TickTime
    BY <2>4 DEF TickTime, Stopped, ringVars
  <2>5. CASE TickSecond
    BY <2>5 DEF TickSecond, FrozenByTick, ringVars
  <2>6. CASE TimePasses
    BY <2>6 DEF TimePasses, ringVars, freezeVars
  <2> QED BY <2>1, <2>2, <2>3, <2>4, <2>5, <2>6 DEF Next, AnyTask, LoopTask, FreezeNow
<1> QED BY <1>1, Invariant, PTL DEF Spec, FrozenUntilArmed

\* Times rise with seq across all tasks: the clock is read under the lock.
THEOREM TimesRiseWithSeq == Spec => []TimesRise
<1>1. IInv => TimesRise
  BY DEF IInv
<1> QED BY <1>1, Invariant, PTL

\* Whoever meets a freeze that is due, nothing is stored past it.
THEOREM FreezeHolds == Spec => []NothingAfterFreeze
<1>1. IInv => NothingAfterFreeze
  BY DEF IInv
<1> QED BY <1>1, Invariant, PTL

\* The newest FREEZE or ARM record in the log says what the status page says.
THEOREM RecordTells == Spec => []FreezeRecordTells
<1>1. IInv => FreezeRecordTells
  BY DEF IInv
<1> QED BY <1>1, Invariant, PTL
-------------------------------------------------------------------------------
(* The clock's high halves.                                                *)

High(s) == TimeOf(s) \div WRAP

\* The epochs remembered, numbered from the first one there was.
FirstKept == IF epochCount > EPOCHS THEN epochCount - EPOCHS ELSE 0
Kepts == FirstKept .. epochCount - 1
E(e) == epochs[e % EPOCHS]

\* An epoch begins at a record; the records since are those of its high half or a later one.
EpochsMark ==
    \A e \in Kepts :
        /\ E(e).firstSeq \in 1 .. seq
        /\ \A s \in 1 .. seq : s >= E(e).firstSeq <=> High(s) >= E(e).high

EpochsRise == \A d, e \in Kepts : d < e => E(d).high < E(e).high

Remembered(s) == s >= E(FirstKept).firstSeq
EpochsCover == \A s \in 1 .. seq : Remembered(s) => \E e \in Kepts : E(e).high = High(s)

\* No more epochs than high halves there have been, and the first begins with record 1.
EpochsCount ==
    /\ epochCount > 0 /\ now <= MaxTime
    /\ FirstKept = 0 => E(0).firstSeq = 1
    /\ epochCount - 1 <= E(epochCount - 1).high

EInv == EpochsMark /\ EpochsRise /\ EpochsCover /\ EpochsCount

LEMMA DivMod ==
    ASSUME NEW a \in Nat, NEW n \in Nat, n > 0
    PROVE  a = (a \div n) * n + (a % n)
BY SMT

LEMMA DivMonotonic ==
    ASSUME NEW a \in Nat, NEW b \in Nat, NEW n \in Nat, n > 0, a <= b
    PROVE  a \div n <= b \div n
<1>1. PICK q \in Int, r \in Int : a = n * q + r /\ r \in 0 .. n - 1 /\ q = a \div n
  <2>1. a = n * (a \div n) + (a % n) /\ a \div n \in Int /\ (a % n) \in 0 .. n - 1
    BY SMT
  <2> QED BY <2>1
<1>2. PICK p \in Int, s \in Int : b = n * p + s /\ s \in 0 .. n - 1 /\ p = b \div n
  <2>1. b = n * (b \div n) + (b % n) /\ b \div n \in Int /\ (b % n) \in 0 .. n - 1
    BY SMT
  <2> QED BY <2>1
<1> SUFFICES ASSUME q >= p + 1 PROVE FALSE
  BY <1>1, <1>2
<1>3. n * (q - p) >= n
  BY SMT
<1>4. n * q - n * p = n * (q - p)
  BY SMT
<1>5. n * q + r <= n * p + s
  BY <1>1, <1>2
<1> QED BY <1>1, <1>2, <1>3, <1>4, <1>5

\* A step stores one record, of this moment, or none.
LEMMA StoresOne ==
    ASSUME IInv, [Next]_vars
    PROVE  /\ now' \in Nat /\ now <= now'
           /\ \/ UNCHANGED ringVars
              \/ \E kind \in Kinds, arg \in Args, called \in Int : Write(kind, arg, called)
<1>1. Nothing \/ Ordinary \/ Freezing \/ Arming
  BY StepKinds DEF IInv
<1>2. now \in Nat
  BY DEF IInv, RingOK
<1>3. {"EVENT", "TIME", "FREEZE", "ARM"} \subseteq Kinds /\ "none" \in Args
  BY DEF Kinds, Args
<1>4. CASE Nothing
  BY <1>4 DEF Nothing
<1>5. CASE Ordinary
  BY <1>2, <1>3, <1>5 DEF Ordinary
<1>6. CASE Freezing
  <2>1. PICK t \in Triggers \cup {"manual"} : Write("FREEZE", t, now)
    BY <1>6 DEF Freezing
  <2> QED BY <1>2, <1>3, <1>6, <2>1 DEF Freezing, Args
<1>7. CASE Arming
  BY <1>2, <1>3, <1>7 DEF Arming
<1> QED BY <1>1, <1>4, <1>5, <1>6, <1>7

\* What has been stored stays stored.
LEMMA LogGrows ==
    ASSUME IInv, [Next]_vars
    PROVE  /\ seq \in Nat /\ seq' \in Nat /\ seq <= seq'
           /\ \A s \in 1 .. seq : log'[s] = log[s] /\ Stored(s)' = Stored(s)
<1>1. seq \in Nat /\ RingOK
  BY DEF IInv, RingOK
<1>2. CASE UNCHANGED ringVars
  BY <1>1, <1>2 DEF ringVars, Stored, Rec
<1>3. CASE \E kind \in Kinds, arg \in Args, called \in Int : Write(kind, arg, called)
  <2>1. PICK kind \in Kinds, arg \in Args, called \in Int : Write(kind, arg, called)
    BY <1>3
  <2>2. seq' = seq + 1 /\ \A s \in 1 .. seq : log'[s] = log[s]
    BY <1>1, <2>1, StoresOne, WriteDoes
  <2> QED BY <1>1, <2>2 DEF Stored, Rec
<1> QED BY <1>2, <1>3, StoresOne

LEMMA OldestGrows ==
    ASSUME IInv, [Next]_vars
    PROVE  Oldest \in 1 .. seq /\ Oldest' \in 1 .. seq' /\ Oldest <= Oldest'
<1>1. seq \in Nat /\ seq > 0 /\ seq' \in Nat /\ seq <= seq'
  BY LogGrows DEF IInv, RingOK
<1>2. PICK m, n, o, p : m = seq /\ n = seq' /\ o = Oldest /\ p = Oldest'
  OBVIOUS
<1>3. o = IF m >= Capacity THEN m - Capacity + 1 ELSE 1
  BY <1>1, <1>2 DEF Oldest
<1>4. p = IF n >= Capacity THEN n - Capacity + 1 ELSE 1
  BY <1>1, <1>2 DEF Oldest
<1>5. m \in Nat /\ m > 0 /\ n \in Nat /\ m <= n
  BY <1>1, <1>2
<1>6. o \in 1 .. m /\ p \in 1 .. n /\ o <= p
  BY <1>3, <1>4, <1>5, Constants
<1> QED BY <1>2, <1>6

LEMMA ClockBound == ASSUME now <= MaxTime, now \in Nat, [Next]_vars PROVE now' <= MaxTime
<1>1. MaxTime \in Nat
  BY RecorderAssumption
<1>2. ASSUME NEW t, Trigger(t) PROVE now' <= MaxTime
  BY <1>2 DEF Trigger, TriggerRefused, TriggerStored
<1>3. ASSUME NEW k, PutCall(k) \/ PutStore(k) PROVE now' <= MaxTime
  BY <1>3 DEF PutCall, PutStore
<1>4. CASE Arm \/ TickTime \/ TickSecond
  BY <1>4 DEF Arm, TickTime, TickSecond
<1>5. CASE TimePasses
  BY <1>1, <1>5 DEF TimePasses
<1>6. CASE UNCHANGED vars
  BY <1>6 DEF vars
<1> QED BY <1>2, <1>3, <1>4, <1>5, <1>6 DEF Next, AnyTask, LoopTask, FreezeNow

\* The newest epoch has the highest half of all records so far.
LEMMA NewestEpoch ==
    ASSUME IInv, EInv
    PROVE  /\ epochCount \in Nat /\ FirstKept \in Nat /\ epochCount - 1 \in Kepts /\ FirstKept \in Kepts
           /\ \A e \in Kepts : e \in Nat /\ epochCount <= e + EPOCHS
           /\ \A e \in Kepts : E(e).high <= E(epochCount - 1).high /\ E(FirstKept).high <= E(e).high
           /\ \A e \in Kepts : E(e).high \in Nat /\ E(e).firstSeq \in Nat
           /\ \A s \in 1 .. seq : High(s) \in Nat /\ High(s) <= E(epochCount - 1).high
           /\ E(epochCount - 1).high <= now \div WRAP
<1>1. /\ epochCount \in Nat /\ epochCount > 0 /\ seq \in Nat /\ now \in Nat
      /\ epochs \in [0 .. EPOCHS - 1 -> EpochType]
  BY DEF IInv, RingOK, EInv, EpochsCount
<1>2. /\ FirstKept \in Nat /\ epochCount - 1 \in Kepts /\ FirstKept \in Kepts
      /\ \A e \in Kepts : e \in Nat /\ epochCount <= e + EPOCHS /\ FirstKept <= e /\ e <= epochCount - 1
  BY <1>1, Constants DEF FirstKept, Kepts
<1>3. \A e \in Kepts : E(e).high \in Nat /\ E(e).firstSeq \in Nat
  <2> SUFFICES ASSUME NEW e \in Kepts PROVE E(e).high \in Nat /\ E(e).firstSeq \in Nat
    OBVIOUS
  <2>1. e % EPOCHS \in 0 .. EPOCHS - 1
    BY <1>2, Constants, ModBound
  <2>2. epochs[e % EPOCHS] \in EpochType
    BY <1>1, <2>1
  <2> QED BY <2>2 DEF EpochType, E
<1>4. \A e \in Kepts : E(e).high <= E(epochCount - 1).high /\ E(FirstKept).high <= E(e).high
  <2> SUFFICES ASSUME NEW e \in Kepts
               PROVE  E(e).high <= E(epochCount - 1).high /\ E(FirstKept).high <= E(e).high
    OBVIOUS
  <2>1. e < epochCount - 1 => E(e).high < E(epochCount - 1).high
    BY <1>2 DEF EInv, EpochsRise
  <2>2. FirstKept < e => E(FirstKept).high < E(e).high
    BY <1>2 DEF EInv, EpochsRise
  <2>3. (e < epochCount - 1 \/ e = epochCount - 1) /\ (FirstKept < e \/ FirstKept = e)
    BY <1>1, <1>2
  <2>4. PICK h, g, f : h = E(e).high /\ g = E(epochCount - 1).high /\ f = E(FirstKept).high
    OBVIOUS
  <2>5. h \in Nat /\ g \in Nat /\ f \in Nat
    BY <1>2, <1>3, <2>4
  <2>6. (h < g \/ h = g) /\ (f < h \/ f = h)
    BY <2>1, <2>2, <2>3, <2>4
  <2>7. h <= g /\ f <= h
    BY <2>5, <2>6
  <2> QED BY <2>4, <2>7
<1>5. \A s \in 1 .. seq : TimeOf(s) \in Nat /\ TimeOf(s) <= now
  BY EntryAt DEF IInv, StoredBefore, TimeOf
<1>6. \A s \in 1 .. seq : High(s) \in Nat /\ High(s) <= now \div WRAP
  BY <1>1, <1>5, Constants, ModBound, DivMonotonic DEF High
<1>7. \A s \in 1 .. seq : High(s) <= E(epochCount - 1).high
  <2> SUFFICES ASSUME NEW s \in 1 .. seq PROVE High(s) <= E(epochCount - 1).high
    OBVIOUS
  <2>1. CASE Remembered(s)
    <3>1. PICK e \in Kepts : E(e).high = High(s)
      BY <2>1 DEF EInv, EpochsCover
    <3> QED BY <1>4, <3>1
  <2>2. CASE ~Remembered(s)
    <3>1. ~(High(s) >= E(FirstKept).high)
      BY <1>2, <2>2 DEF EInv, EpochsMark, Remembered
    <3>2. PICK h, g, f : h = High(s) /\ g = E(epochCount - 1).high /\ f = E(FirstKept).high
      OBVIOUS
    <3>3. h \in Nat /\ g \in Nat /\ f \in Nat /\ f <= g /\ ~(h >= f)
      BY <1>2, <1>3, <1>4, <1>6, <3>1, <3>2
    <3>4. h <= g
      BY <3>3
    <3> QED BY <3>2, <3>4
  <2> QED BY <2>1, <2>2
<1>8. E(epochCount - 1).high <= now \div WRAP
  <2>1. PICK s : s = E(epochCount - 1).firstSeq
    OBVIOUS
  <2>2. s \in 1 .. seq /\ High(s) >= E(epochCount - 1).high
    <3>1. s \in 1 .. seq
      BY <1>2, <2>1 DEF EInv, EpochsMark
    <3>2. s >= E(epochCount - 1).firstSeq
      BY <2>1, <3>1
    <3> QED BY <1>2, <3>1, <3>2 DEF EInv, EpochsMark
  <2>3. now \div WRAP \in Nat
    BY <1>1, Constants, ModBound
  <2>4. PICK h, g, n : h = High(s) /\ g = E(epochCount - 1).high /\ n = now \div WRAP
    OBVIOUS
  <2>5. h \in Nat /\ g \in Nat /\ n \in Nat /\ h >= g /\ h <= n
    BY <1>2, <1>3, <1>6, <2>2, <2>3, <2>4
  <2>6. g <= n
    BY <2>5
  <2> QED BY <2>4, <2>6
<1> QED BY <1>1, <1>2, <1>3, <1>4, <1>6, <1>7, <1>8

\* fullTime() of a record whose epoch is remembered is the time it was stored at.
LEMMA FullTimeRight ==
    ASSUME IInv, EInv, NEW s \in Oldest .. seq, Remembered(s)
    PROVE  FullTime(s) = TimeOf(s)
<1>0. /\ epochCount \in Nat /\ FirstKept \in Nat /\ seq \in Nat /\ seq > 0 /\ epochCount - 1 \in Kepts
      /\ \A e \in Kepts : e \in Nat /\ E(e).high \in Nat /\ E(e).firstSeq \in Nat
  BY NewestEpoch DEF IInv, RingOK
<1>1. s \in 1 .. seq /\ seq < s + Capacity
  BY <1>0, Constants DEF Oldest
<1>2. TimeOf(s) \in Nat /\ High(s) \in Nat
  BY <1>1, EntryAt, Constants, ModBound DEF IInv, TimeOf, High
<1>3. ring[s % Capacity].t = TimeOf(s) % WRAP
  <2>1. ring[s % Capacity] = Stored(s)
    BY <1>1 DEF IInv, Holds
  <2> QED BY <2>1 DEF Stored, Rec, TimeOf
<1>4. PICK e \in Kepts : E(e).high = High(s)
  BY <1>1 DEF EInv, EpochsCover
<1>5. Kept = epochCount - FirstKept
  BY <1>0, Constants DEF Kept, FirstKept
<1>6. \A i \in 0 .. Kept - 1 : Epoch(i) = E(epochCount - 1 - i) /\ epochCount - 1 - i \in Kepts
  <2> SUFFICES ASSUME NEW i \in 0 .. Kept - 1
               PROVE  Epoch(i) = E(epochCount - 1 - i) /\ epochCount - 1 - i \in Kepts
    OBVIOUS
  <2>1. epochCount - 1 - i \in Kepts
    BY <1>0, <1>5 DEF Kepts
  <2> QED BY <2>1 DEF Epoch, E
<1>7. PICK b : b = {i \in 0 .. Kept - 1 : s >= Epoch(i).firstSeq}
  OBVIOUS
<1>8. PICK k : k = epochCount - 1 - e
  OBVIOUS
<1>9. k \in 0 .. Kept - 1 /\ epochCount - 1 - k = e
  BY <1>0, <1>4, <1>5, <1>8 DEF Kepts
<1>10. k \in b
  <2>1. s >= E(e).firstSeq
    <3>1. High(s) >= E(e).high
      BY <1>2, <1>4
    <3> QED BY <1>1, <1>4, <3>1 DEF EInv, EpochsMark
  <2> QED BY <1>6, <1>7, <1>9, <2>1
<1>11. \A j \in b : k <= j
  <2> SUFFICES ASSUME NEW j \in b, j < k PROVE FALSE
    BY <1>7, <1>9, <1>5, <1>0
  <2>1. PICK d : d = epochCount - 1 - j
    OBVIOUS
  <2>2. d \in Kepts /\ e < d /\ s >= E(d).firstSeq
    <3>1. j \in 0 .. Kept - 1 /\ s >= Epoch(j).firstSeq
      BY <1>7
    <3>2. d \in Kepts /\ Epoch(j) = E(d)
      BY <1>6, <2>1, <3>1
    <3>3. e < d
      BY <1>0, <1>5, <1>9, <2>1, <3>1
    <3> QED BY <3>1, <3>2, <3>3
  <2>3. High(s) >= E(d).high
    BY <1>1, <2>2 DEF EInv, EpochsMark
  <2>4. E(e).high < E(d).high
    BY <1>4, <2>2 DEF EInv, EpochsRise
  <2> QED BY <1>0, <1>2, <1>4, <2>2, <2>3, <2>4
<1>12. PICK i : i = CHOOSE m \in b : \A j \in b : m <= j
  OBVIOUS
<1>13. i \in b /\ \A j \in b : i <= j
  BY <1>10, <1>11, <1>12
<1>14. i = k
  <2>1. i \in 0 .. Kept - 1 /\ Kept \in Int
    BY <1>0, <1>5, <1>7, <1>13
  <2> QED BY <1>9, <1>10, <1>11, <1>13, <2>1
<1>15. HighFor(s) = Epoch(i).high
  <2>1. b # {}
    BY <1>10
  <2> QED BY <1>7, <1>12, <2>1 DEF HighFor
<1>16. HighFor(s) = High(s)
  BY <1>4, <1>6, <1>9, <1>14, <1>15
<1>17. FullTime(s) = High(s) * WRAP + (TimeOf(s) % WRAP)
  BY <1>3, <1>16 DEF FullTime
<1> QED BY <1>2, <1>17, DivMod, Constants DEF High

LEMMA InitEpochs == Init => EInv
<1> SUFFICES ASSUME Init PROVE EInv
  OBVIOUS
<1>1. epochCount = 1 /\ seq = 2 /\ now = 0 /\ FirstKept = 0 /\ Kepts = {0}
  BY Constants DEF Init, FirstKept, Kepts
<1>2. E(0) = [firstSeq |-> 1, high |-> 0]
  BY Constants DEF Init, E
<1>3. \A s \in 1 .. seq : High(s) = 0
  <2>1. \A s \in 1 .. 2 : TimeOf(s) = 0
    BY DEF Init, TimeOf
  <2>2. 0 \div WRAP = 0
    BY Constants, SMT
  <2> QED BY <1>1, <2>1, <2>2 DEF High
<1>4. EpochsMark /\ EpochsRise /\ EpochsCover
  BY <1>1, <1>2, <1>3 DEF EpochsMark, EpochsRise, EpochsCover
<1>5. EpochsCount
  BY <1>1, <1>2, RecorderAssumption DEF EpochsCount
<1> QED BY <1>4, <1>5 DEF EInv

\* A new epoch is higher than all before it.
LEMMA EpochsKept ==
    ASSUME IInv, EInv, NEW kind \in Kinds, NEW arg \in Args, NEW called \in Int,
           Write(kind, arg, called), now' \in Nat, now' <= MaxTime
    PROVE  EInv'
<1>1. /\ epochCount \in Nat /\ FirstKept \in Nat /\ epochCount - 1 \in Kepts /\ FirstKept \in Kepts
      /\ \A e \in Kepts : e \in Nat /\ epochCount <= e + EPOCHS
      /\ \A e \in Kepts : E(e).high <= E(epochCount - 1).high /\ E(FirstKept).high <= E(e).high
      /\ \A e \in Kepts : E(e).high \in Nat /\ E(e).firstSeq \in Nat
      /\ \A s \in 1 .. seq : High(s) \in Nat /\ High(s) <= E(epochCount - 1).high
      /\ E(epochCount - 1).high <= now \div WRAP
  BY NewestEpoch
<1>0. PICK z : z = seq + 1
  OBVIOUS
<1>2. /\ seq \in Nat /\ seq > 0 /\ seq' = z /\ z = seq + 1 /\ now \in Nat
      /\ \A s \in 1 .. seq : TimeOf(s)' = TimeOf(s)
      /\ TimeOf(z)' = now
  <2>1. /\ seq' = seq + 1
        /\ \A s \in 1 .. seq : log'[s] = log[s]
        /\ log'[seq + 1] = [at |-> now, kind |-> kind, arg |-> arg]
    BY WriteDoes DEF IInv
  <2> QED BY <1>0, <2>1 DEF IInv, RingOK, TimeOf
<1>3. PICK n, g : n = now \div WRAP /\ g = E(epochCount - 1).high
  OBVIOUS
<1>4. n \in Nat /\ g \in Nat /\ g <= n
  BY <1>1, <1>2, <1>3, Constants, ModBound
<1>5. (\A s \in 1 .. seq : High(s)' = High(s)) /\ High(z)' = n
  BY <1>2, <1>3 DEF High
<1>6. NewEpoch(n) <=> g # n
  <2>1. epochCount # 0 /\ Epoch(0) = E(epochCount - 1)
    BY <1>1 DEF EInv, EpochsCount, Epoch, E
  <2> QED BY <1>3, <2>1 DEF NewEpoch
<1>7. CASE g = n
  <2>1. epochs' = epochs /\ epochCount' = epochCount
    BY <1>3, <1>6, <1>7 DEF Write, Stamp
  <2>2. FirstKept' = FirstKept /\ Kepts' = Kepts /\ \A e \in Int : E(e)' = E(e)
    BY <2>1 DEF FirstKept, Kepts, E
  <2>3. EpochsMark'
    <3> SUFFICES ASSUME NEW e \in Kepts
                 PROVE  /\ E(e).firstSeq \in 1 .. z
                        /\ \A s \in 1 .. z : s >= E(e).firstSeq <=> High(s)' >= E(e).high
      BY <1>1, <1>2, <2>2 DEF EpochsMark
    <3>1. /\ E(e).firstSeq \in 1 .. seq
          /\ \A s \in 1 .. seq : s >= E(e).firstSeq <=> High(s) >= E(e).high
      BY DEF EInv, EpochsMark
    <3>2. z >= E(e).firstSeq /\ n >= E(e).high
      BY <1>1, <1>2, <1>3, <1>4, <1>7, <3>1
    <3>3. \A s \in 1 .. z : s \in 1 .. seq \/ s = z
      BY <1>2
    <3> QED BY <1>2, <1>5, <3>1, <3>2, <3>3
  <2>4. EpochsRise'
    BY <1>1, <2>2 DEF EInv, EpochsRise
  <2>5. EpochsCover'
    <3> SUFFICES ASSUME NEW s \in 1 .. z, s >= E(FirstKept).firstSeq
                 PROVE  \E e \in Kepts : E(e).high = High(s)'
      BY <1>1, <1>2, <2>2 DEF EpochsCover, Remembered
    <3>1. CASE s = z
      BY <1>1, <1>3, <1>5, <1>7, <3>1
    <3>2. CASE s # z
      <4>1. s \in 1 .. seq
        BY <1>2, <3>2
      <4> QED BY <1>5, <4>1 DEF EInv, EpochsCover, Remembered
    <3> QED BY <3>1, <3>2
  <2>6. EpochsCount'
    BY <1>1, <2>1, <2>2 DEF EInv, EpochsCount
  <2> QED BY <2>3, <2>4, <2>5, <2>6 DEF EInv
<1>8. CASE g # n
  <2>0. PICK c : c = epochCount
    OBVIOUS
  <2>1. /\ epochs' = [epochs EXCEPT ![c % EPOCHS] = [firstSeq |-> z, high |-> n]]
        /\ epochCount' = c + 1 /\ c \in Nat /\ c > 0
    BY <1>1, <1>2, <1>3, <1>6, <1>8, <2>0 DEF Write, Stamp, EInv, EpochsCount
  <2>2. E(c)' = [firstSeq |-> z, high |-> n]
    <3>1. c % EPOCHS \in 0 .. EPOCHS - 1 /\ epochs \in [0 .. EPOCHS - 1 -> EpochType]
      BY <2>1, Constants, ModBound DEF IInv, RingOK
    <3>2. epochs'[c % EPOCHS] = [firstSeq |-> z, high |-> n]
      BY <2>1, <3>1
    <3> QED BY <3>2 DEF E
  <2>3. /\ FirstKept' \in Nat /\ FirstKept <= FirstKept' /\ FirstKept' <= c
        /\ Kepts' = FirstKept' .. c
        /\ \A e \in Kepts' : e # c => e \in Kepts /\ c < e + EPOCHS
    <3>1. FirstKept' = IF c + 1 > EPOCHS THEN c + 1 - EPOCHS ELSE 0
      BY <2>1, Constants DEF FirstKept
    <3>2. FirstKept = IF c > EPOCHS THEN c - EPOCHS ELSE 0
      BY <2>0, Constants DEF FirstKept
    <3>3. Kepts' = FirstKept' .. c + 1 - 1 /\ Kepts = FirstKept .. c - 1
      BY <2>0, <2>1 DEF Kepts
    <3>4. PICK f, h : f = FirstKept /\ h = FirstKept'
      OBVIOUS
    <3>5. f \in Nat /\ h \in Nat /\ f <= h /\ h <= c
      BY <2>1, <3>1, <3>2, <3>4, Constants
    <3>6. \A e \in h .. c + 1 - 1 : e # c => e \in f .. c - 1 /\ c < e + EPOCHS
      BY <2>1, <3>1, <3>4, <3>5, Constants
    <3>7. h .. c + 1 - 1 = h .. c
      BY <2>1, <3>5
    <3> QED BY <3>3, <3>4, <3>5, <3>6, <3>7
  <2>4. \A e \in Kepts' : e # c => E(e)' = E(e)
    <3> SUFFICES ASSUME NEW e \in Kepts', e # c PROVE E(e)' = E(e)
      OBVIOUS
    <3>1. e \in Nat /\ e < c /\ c < e + EPOCHS
      BY <1>1, <2>0, <2>1, <2>3 DEF Kepts
    <3>2. e % EPOCHS # c % EPOCHS
      BY <2>1, <3>1, SlotsApart, Constants
    <3>3. e % EPOCHS \in 0 .. EPOCHS - 1 /\ epochs \in [0 .. EPOCHS - 1 -> EpochType]
      BY <3>1, Constants, ModBound DEF IInv, RingOK
    <3>4. epochs'[e % EPOCHS] = epochs[e % EPOCHS]
      BY <2>1, <3>2, <3>3
    <3> QED BY <3>4 DEF E
  <2>5. \A e \in Kepts : E(e).high < n
    <3> SUFFICES ASSUME NEW e \in Kepts PROVE E(e).high < n
      OBVIOUS
    <3>1. E(e).high \in Nat /\ E(e).high <= g
      BY <1>1, <1>3
    <3> QED BY <1>4, <1>8, <3>1
  <2>6. EpochsMark'
    <3> SUFFICES ASSUME NEW e \in Kepts'
                 PROVE  /\ E(e)'.firstSeq \in 1 .. z
                        /\ \A s \in 1 .. z : s >= E(e)'.firstSeq <=> High(s)' >= E(e)'.high
      BY <1>2 DEF EpochsMark
    <3>1. CASE e = c
      <4>1. E(e)'.firstSeq = z /\ E(e)'.high = n
        BY <2>2, <3>1
      <4>2. \A s \in 1 .. seq : ~(High(s)' >= n)
        <5> SUFFICES ASSUME NEW s \in 1 .. seq PROVE ~(High(s)' >= n)
          OBVIOUS
        <5>1. High(s)' = High(s) /\ High(s) \in Nat /\ High(s) <= g
          BY <1>1, <1>3, <1>5
        <5>2. PICK h : h = High(s)
          OBVIOUS
        <5>3. h \in Nat /\ h <= g
          BY <5>1, <5>2
        <5>4. ~(h >= n)
          BY <1>4, <1>8, <5>3
        <5> QED BY <5>1, <5>2, <5>4
      <4>3. \A s \in 1 .. z : s = z \/ (s \in 1 .. seq /\ ~(s >= z))
        BY <1>2
      <4>4. z >= z /\ n >= n /\ z \in 1 .. z
        BY <1>2, <1>4
      <4> QED BY <1>5, <4>1, <4>2, <4>3, <4>4
    <3>2. CASE e # c
      <4>1. e \in Kepts /\ E(e)' = E(e)
        BY <2>3, <2>4, <3>2
      <4>2. /\ E(e).firstSeq \in 1 .. seq
            /\ \A s \in 1 .. seq : s >= E(e).firstSeq <=> High(s) >= E(e).high
        BY <4>1 DEF EInv, EpochsMark
      <4>3. E(e).high \in Nat /\ E(e).high < n
        BY <1>1, <2>5, <4>1
      <4>4. n >= E(e).high /\ z >= E(e).firstSeq /\ E(e).firstSeq \in 1 .. z
        BY <1>2, <1>4, <4>2, <4>3
      <4>5. \A s \in 1 .. z : s = z \/ s \in 1 .. seq
        BY <1>2
      <4> QED BY <1>5, <4>1, <4>2, <4>4, <4>5
    <3> QED BY <3>1, <3>2
  <2>7. EpochsRise'
    <3> SUFFICES ASSUME NEW d \in Kepts', NEW e \in Kepts', d < e
                 PROVE  E(d)'.high < E(e)'.high
      BY DEF EpochsRise
    <3>1. d # c
      BY <2>1, <2>3
    <3>2. d \in Kepts /\ E(d)' = E(d)
      BY <2>3, <2>4, <3>1
    <3>3. CASE e = c
      BY <2>2, <2>5, <3>2, <3>3
    <3>4. CASE e # c
      <4>1. e \in Kepts /\ E(e)' = E(e)
        BY <2>3, <2>4, <3>4
      <4> QED BY <3>2, <4>1 DEF EInv, EpochsRise
    <3> QED BY <3>3, <3>4
  <2>8. EpochsCover'
    <3> SUFFICES ASSUME NEW s \in 1 .. z, s >= E(FirstKept)'.firstSeq
                 PROVE  \E e \in Kepts' : E(e)'.high = High(s)'
      BY <1>2 DEF EpochsCover, Remembered
    <3>1. c \in Kepts' /\ FirstKept' \in Kepts'
      BY <2>1, <2>3
    <3>2. CASE s = z
      BY <1>5, <2>2, <3>1, <3>2
    <3>3. CASE s # z
      <4>1. s \in 1 .. seq
        BY <1>2, <3>3
      <4>2. PICK f : f = FirstKept'
        OBVIOUS
      <4>3. E(FirstKept)' = E(f)'
        BY <4>2 DEF E
      <4>4. f # c
        BY <1>2, <2>2, <4>1, <4>3
      <4>5. f \in Kepts /\ E(f)' = E(f) /\ s >= E(f).firstSeq
        BY <2>3, <2>4, <3>1, <4>2, <4>3, <4>4
      <4>6. High(s) >= E(f).high
        BY <4>1, <4>5 DEF EInv, EpochsMark
      <4>7. Remembered(s)
        <5>1. PICK h, a, b : h = High(s) /\ a = E(f).high /\ b = E(FirstKept).high
          OBVIOUS
        <5>2. h \in Nat /\ a \in Nat /\ b \in Nat /\ h >= a /\ b <= a
          BY <1>1, <4>1, <4>5, <4>6, <5>1
        <5>3. h >= b
          BY <5>2
        <5> QED BY <1>1, <4>1, <5>1, <5>3 DEF EInv, EpochsMark, Remembered
      <4>8. PICK e \in Kepts : E(e).high = High(s)
        BY <4>1, <4>7 DEF EInv, EpochsCover
      <4>9. ~(e < f)
        <5>1. e < f => E(e).high < E(f).high
          BY <4>5 DEF EInv, EpochsRise
        <5>2. PICK h, a : h = High(s) /\ a = E(f).high
          OBVIOUS
        <5>3. h \in Nat /\ a \in Nat /\ h >= a /\ (e < f => h < a)
          BY <1>1, <4>1, <4>5, <4>6, <4>8, <5>1, <5>2
        <5> QED BY <5>3
      <4>10. e \in Kepts' /\ e # c
        <5>1. e \in FirstKept .. c - 1 /\ f \in FirstKept .. c - 1
          BY <2>0, <4>5 DEF Kepts
        <5> QED BY <1>1, <2>1, <2>3, <4>2, <4>9, <5>1
      <4> QED BY <1>5, <2>4, <4>1, <4>8, <4>10
    <3> QED BY <3>2, <3>3
  <2>9. EpochsCount'
    <3>1. epochCount' > 0 /\ epochCount' - 1 = c
      BY <2>1
    <3>2. E(epochCount - 1)'.high = n
      BY <2>2, <3>1 DEF E
    <3>3. c - 1 <= g
      BY <1>3, <2>0 DEF EInv, EpochsCount
    <3>4. c <= n
      BY <1>4, <1>8, <2>1, <3>3
    <3>5. FirstKept' = 0 => E(0)'.firstSeq = 1
      <4> SUFFICES ASSUME FirstKept' = 0 PROVE E(0)'.firstSeq = 1
        OBVIOUS
      <4>1. FirstKept = 0 /\ 0 \in Kepts' /\ 0 # c
        BY <1>1, <2>1, <2>3
      <4> QED BY <2>4, <4>1 DEF EInv, EpochsCount
    <3> QED BY <3>1, <3>2, <3>4, <3>5 DEF EpochsCount
  <2> QED BY <2>6, <2>7, <2>8, <2>9 DEF EInv
<1> QED BY <1>7, <1>8

LEMMA EpochsStep == ASSUME IInv, EInv, [Next]_vars PROVE EInv'
<1>1. now' \in Nat /\ now' <= MaxTime
  <2>1. now' \in Nat /\ now \in Nat /\ now <= MaxTime
    BY StoresOne DEF EInv, EpochsCount, IInv, RingOK
  <2> QED BY <2>1, ClockBound
<1>2. CASE UNCHANGED ringVars
  <2>1. /\ UNCHANGED <<seq, epochs, epochCount, log>>
    BY <1>2 DEF ringVars
  <2>2. EpochsMark' /\ EpochsRise' /\ EpochsCover'
    BY <2>1 DEF EInv, EpochsMark, EpochsRise, EpochsCover, Remembered, High, TimeOf, Kepts, FirstKept, E
  <2>3. EpochsCount'
    BY <1>1, <2>1 DEF EInv, EpochsCount, FirstKept, E
  <2> QED BY <2>2, <2>3 DEF EInv
<1>3. CASE \E kind \in Kinds, arg \in Args, called \in Int : Write(kind, arg, called)
  BY <1>1, <1>3, EpochsKept
<1> QED BY <1>2, <1>3, StoresOne

\* fullTime() is exact as long as the record's epoch is remembered, whatever freezes and
\* wraps of the clock there have been.
FullTimesRight == \A s \in Oldest .. seq : Remembered(s) => FullTime(s) = TimeOf(s)

THEOREM FullTimes == Spec => []FullTimesRight
<1>1. IInv /\ EInv /\ [Next]_vars => (IInv /\ EInv)'
  BY StepKeeps, EpochsStep
<1>2. Init => IInv /\ EInv
  BY InitHolds, InitEpochs
<1>3. IInv /\ EInv => FullTimesRight
  BY FullTimeRight DEF FullTimesRight
<1> QED BY <1>1, <1>2, <1>3, PTL DEF Spec

\* Within EPOCHS wraps of the clock every record's is (12.7 days, recorder.cpp:26-27).
LEMMA AllRemembered ==
    ASSUME MaxTime < EPOCHS * WRAP, IInv, EInv, NEW s \in Oldest .. seq
    PROVE  FullTime(s) = TimeOf(s)
<1>1. /\ epochCount \in Nat /\ epochCount - 1 \in Kepts /\ now \in Nat /\ MaxTime \in Nat
      /\ E(epochCount - 1).high <= now \div WRAP /\ E(epochCount - 1).high \in Nat
      /\ seq \in Nat /\ seq > 0
  BY NewestEpoch, RecorderAssumption DEF IInv, RingOK
<1>2. PICK q : q = now \div WRAP
  OBVIOUS
<1>3. q \in Nat /\ now = q * WRAP + (now % WRAP) /\ (now % WRAP) \in Nat
  BY <1>1, <1>2, Constants, ModBound, DivMod
<1>4. q * WRAP < EPOCHS * WRAP
  <2>1. now < EPOCHS * WRAP
    BY <1>1, Constants DEF EInv, EpochsCount
  <2>2. PICK a, b : a = q * WRAP /\ b = EPOCHS * WRAP
    OBVIOUS
  <2>3. a \in Nat /\ b \in Nat
    BY <1>3, <2>2, Constants
  <2> QED BY <1>1, <1>3, <2>1, <2>2, <2>3
<1>5. q < EPOCHS
  <2> SUFFICES ASSUME q >= EPOCHS PROVE FALSE
    BY <1>3, Constants
  <2>1. (q - EPOCHS) * WRAP >= 0
    BY <1>3, Constants
  <2>2. q * WRAP - EPOCHS * WRAP = (q - EPOCHS) * WRAP
    BY <1>3, Constants
  <2> QED BY <1>3, <1>4, <2>1, <2>2, Constants
<1>6. epochCount <= EPOCHS
  BY <1>1, <1>2, <1>3, <1>5, Constants DEF EInv, EpochsCount
<1>7. FirstKept = 0 /\ E(FirstKept).firstSeq = 1
  BY <1>1, <1>6, Constants DEF FirstKept, EInv, EpochsCount
<1>8. Remembered(s)
  <2>1. s \in Nat /\ s >= 1
    BY <1>1, Constants DEF Oldest
  <2> QED BY <1>7, <2>1 DEF Remembered
<1> QED BY <1>8, FullTimeRight

-------------------------------------------------------------------------------
(* The downloads.                                                          *)

\* What a download has, field by field; its times are not needed here.
DlTypes ==
    /\ dl = [mode |-> dl.mode, first |-> dl.first, firstUs |-> dl.firstUs, from |-> dl.from,
             next |-> dl.next, end |-> dl.end]
    /\ dl.mode \in {"none", "raw", "text"}
    /\ dl.from \in Nat /\ dl.next \in Nat /\ dl.end \in Nat

WebTypes ==
    /\ web \in {"idle", "raw", "text", "search"}
    /\ st \in [oldest : Nat, seq : Nat, arg : Nat]
    /\ search \in [lo : Nat, hi : Nat, found : Nat, us : Nat]

\* What status() told is of the past, and the ring only moves on.
Looked == st.oldest <= Oldest /\ st.seq <= seq /\ dl.end <= seq + 1

\* What a raw download has sent.
RawSent ==
    Raw =>
        /\ out \in Seq(RecType) /\ dl.from <= dl.next
        /\ \A i \in 1 .. Len(out) : /\ out[i] = Stored(out[i].seq)
                                    /\ out[i].seq \in 1 .. dl.end - 1
                                    /\ out[i].seq \in dl.from .. dl.next - 1
        /\ \A i \in 2 .. Len(out) : out[i - 1].seq < out[i].seq
        /\ \A s \in dl.from .. dl.next - 1 :
              s >= Oldest => \E i \in 1 .. Len(out) : out[i].seq = s

DInv == DlTypes /\ WebTypes /\ Looked /\ RawSent

LEMMA IsRecorderStep == [DownloadNext]_allVars => [Next]_vars
<1>1. RecorderStep => Next
  BY DEF RecorderStep, Next
<1>2. (\E since \in Sinces : RawRequest(since)) \/ (\E max \in Maxes : RawHeader(max))
      \/ (\E window \in Windows : TextRequest(window)) => UNCHANGED vars
  BY DEF RawRequest, RawHeader, TextRequest
<1>3. SearchBegin \/ SearchTurn \/ TextStart \/ Pump \/ DownloadEnd => UNCHANGED vars
  BY DEF SearchBegin, SearchTurn, TextStart, Pump, DownloadEnd
<1>4. UNCHANGED allVars => UNCHANGED vars
  BY DEF allVars
<1> QED BY <1>1, <1>2, <1>3, <1>4 DEF DownloadNext

\* A copy is of the records as they were stored.
LEMMA CopiedStored ==
    ASSUME IInv, NEW a \in Nat, NEW b \in Nat, a >= Oldest, b <= seq + 1
    PROVE  /\ Copied(a, b) \in Seq(RecType)
           /\ Len(Copied(a, b)) = IF b > a THEN b - a ELSE 0
           /\ \A i \in 1 .. Len(Copied(a, b)) :
                 Copied(a, b)[i] = Stored(a + i - 1) /\ Copied(a, b)[i].seq = a + i - 1
<1>1. seq \in Nat /\ seq > 0 /\ ring \in [0 .. Capacity - 1 -> RecType]
  BY DEF IInv, RingOK
<1>2. PICK n : n = IF b > a THEN b - a ELSE 0
  OBVIOUS
<1>3. n \in Nat /\ 1 .. b - a = 1 .. n
  BY <1>2
<1>4. PICK c : c = Copied(a, b)
  OBVIOUS
<1>5. \A i \in 1 .. n : a + i - 1 \in Nat /\ a + i - 1 \in 1 .. seq /\ seq < (a + i - 1) + Capacity
  BY <1>1, <1>2, Constants DEF Oldest
<1>6. \A i \in 1 .. n : ring[(a + i - 1) % Capacity] \in RecType
  <2> SUFFICES ASSUME NEW i \in 1 .. n PROVE ring[(a + i - 1) % Capacity] \in RecType
    OBVIOUS
  <2>1. (a + i - 1) % Capacity \in 0 .. Capacity - 1
    BY <1>5, Constants, ModBound
  <2> QED BY <1>1, <2>1
<1>7. c = [i \in 1 .. n |-> ring[(a + i - 1) % Capacity]]
  BY <1>3, <1>4 DEF Copied
<1>8. c \in [1 .. n -> RecType]
  BY <1>6, <1>7
<1>9. c \in Seq(RecType) /\ Len(c) = n
  BY <1>3, <1>8, IsASeq
<1>10. \A i \in 1 .. n : c[i] = Stored(a + i - 1) /\ c[i].seq = a + i - 1
  <2> SUFFICES ASSUME NEW i \in 1 .. n
               PROVE  c[i] = Stored(a + i - 1) /\ c[i].seq = a + i - 1
    OBVIOUS
  <2>1. PICK s : s = a + i - 1
    OBVIOUS
  <2>2. c[i] = ring[s % Capacity]
    BY <1>7, <2>1
  <2>3. ring[s % Capacity] = Stored(s)
    BY <1>5, <2>1 DEF IInv, Holds
  <2> QED BY <2>1, <2>2, <2>3 DEF Stored, Rec
<1> QED BY <1>2, <1>4, <1>9, <1>10

\* read(from, max) copies from the ring what it says.
LEMMA ReadBounds ==
    ASSUME IInv, NEW from \in Nat, NEW max \in Nat
    PROVE  /\ ReadStart(from) \in Nat /\ ReadStart(from) >= Oldest /\ ReadStart(from) >= from
           /\ ReadStart(from) = from \/ ReadStart(from) = Oldest
           /\ ReadNext(from, max) \in Nat /\ ReadNext(from, max) <= seq + 1
           /\ ReadNext(from, max) <= ReadStart(from) + max
           /\ from <= seq /\ max > 0 => ReadNext(from, max) > ReadStart(from)
<1>1. seq \in Nat /\ seq > 0
  BY DEF IInv, RingOK
<1>2. PICK o : o = Oldest
  OBVIOUS
<1>3. o \in 1 .. seq
  BY <1>1, <1>2, Constants DEF Oldest
<1>4. PICK r : r = ReadStart(from)
  OBVIOUS
<1>5. r = IF from < o THEN o ELSE from
  BY <1>1, <1>2, <1>3, <1>4 DEF ReadStart, AtLeast
<1>6. PICK x : x = ReadNext(from, max)
  OBVIOUS
<1>7. x = IF r + max > seq + 1 THEN seq + 1 ELSE r + max
  BY <1>4, <1>6 DEF ReadNext, AtMost
<1> QED BY <1>1, <1>2, <1>3, <1>4, <1>5, <1>6, <1>7

\* A step that sends nothing.
LEMMA QuietKeepsRaw ==
    ASSUME IInv, DInv, [Next]_vars, UNCHANGED <<dl, out>>
    PROVE  RawSent' /\ DlTypes' /\ dl'.end <= seq' + 1
<1>1. /\ seq \in Nat /\ seq' \in Nat /\ seq <= seq' /\ Oldest \in Nat /\ Oldest' \in Nat /\ Oldest <= Oldest'
      /\ \A s \in 1 .. seq : Stored(s)' = Stored(s)
  BY LogGrows, OldestGrows
<1>2. DlTypes' /\ dl'.end <= seq' + 1
  BY <1>1 DEF DInv, DlTypes, Looked
<1>3. RawSent'
  <2> SUFFICES ASSUME Raw PROVE RawSent'
    BY DEF RawSent, Raw
  <2>1. /\ out \in Seq(RecType) /\ dl.from <= dl.next
        /\ \A i \in 1 .. Len(out) : /\ out[i] = Stored(out[i].seq)
                                    /\ out[i].seq \in 1 .. dl.end - 1
                                    /\ out[i].seq \in dl.from .. dl.next - 1
        /\ \A i \in 2 .. Len(out) : out[i - 1].seq < out[i].seq
        /\ \A s \in dl.from .. dl.next - 1 :
              s >= Oldest => \E i \in 1 .. Len(out) : out[i].seq = s
    BY DEF DInv, RawSent
  <2>2. \A i \in 1 .. Len(out) : out[i].seq \in 1 .. seq
    BY <1>1, <2>1 DEF DInv, DlTypes, Looked
  <2>3. \A i \in 1 .. Len(out) : (out[i] = Stored(out[i].seq))'
    <3> SUFFICES ASSUME NEW i \in 1 .. Len(out) PROVE (out[i] = Stored(out[i].seq))'
      OBVIOUS
    <3>1. PICK s : s = out[i].seq
      OBVIOUS
    <3>2. out[i] = Stored(s) /\ Stored(s)' = Stored(s)
      BY <1>1, <2>1, <2>2, <3>1
    <3>3. out'[i] = out[i] /\ out'[i].seq = s
      BY <3>1
    <3>4. Stored(out[i].seq)' = Stored(s)'
      BY <3>3 DEF Stored
    <3> QED BY <3>2, <3>3, <3>4
  <2>4. \A s \in dl.from .. dl.next - 1 : s >= Oldest' => s >= Oldest
    BY <1>1 DEF DInv, DlTypes
  <2>5. \A s \in dl.from .. dl.next - 1 :
            s >= Oldest' => \E i \in 1 .. Len(out) : out[i].seq = s
    BY <2>1, <2>4
  <2>6. dl' = dl /\ out' = out
    OBVIOUS
  <2> QED BY <2>1, <2>3, <2>5, <2>6 DEF RawSent
<1> QED BY <1>2, <1>3

\* A chunk of the raw file.
LEMMA FillRawSends ==
    ASSUME IInv, DInv, Pump, NEW want \in Want, FillRaw(want)
    PROVE  RawSent'
<1>1. /\ Raw /\ dl.from \in Nat /\ dl.next \in Nat /\ dl.end \in Nat /\ dl.next < dl.end
      /\ dl.end <= seq + 1 /\ dl.from <= dl.next
  BY DEF FillRaw, Raw, Pump, DInv, DlTypes, Looked, RawSent
<1>2. /\ out \in Seq(RecType)
      /\ \A i \in 1 .. Len(out) : /\ out[i] = Stored(out[i].seq)
                                  /\ out[i].seq \in 1 .. dl.end - 1
                                  /\ out[i].seq \in dl.from .. dl.next - 1
      /\ \A i \in 2 .. Len(out) : out[i - 1].seq < out[i].seq
      /\ \A s \in dl.from .. dl.next - 1 :
            s >= Oldest => \E i \in 1 .. Len(out) : out[i].seq = s
  BY <1>1 DEF DInv, RawSent
<1>3. PICK o : o = Oldest
  OBVIOUS
<1>4. seq \in Nat /\ seq > 0 /\ o \in 1 .. seq
  <2>1. seq \in Nat /\ seq > 0
    BY DEF IInv, RingOK
  <2> QED BY <1>3, <2>1, Constants DEF Oldest
<1>5. want \in Nat /\ want > 0
  BY DEF Want
<1>6. PICK first : first = ReadStart(dl.next)
  OBVIOUS
<1>7. PICK next : next = ReadNext(dl.next, want)
  OBVIOUS
<1>8. PICK after : after = CopyEnd(next)
  OBVIOUS
<1>9. /\ first \in Nat /\ first >= o /\ first >= dl.next /\ (first = dl.next \/ first = o)
      /\ next \in Nat /\ next <= seq + 1 /\ next > first
  <2>1. PICK m : m = dl.next
    OBVIOUS
  <2>2. m \in Nat /\ m <= seq
    BY <1>1, <1>4, <2>1
  <2>3. /\ ReadStart(m) \in Nat /\ ReadStart(m) >= Oldest /\ ReadStart(m) >= m
        /\ ReadStart(m) = m \/ ReadStart(m) = Oldest
        /\ ReadNext(m, want) \in Nat /\ ReadNext(m, want) <= seq + 1
        /\ ReadNext(m, want) > ReadStart(m)
    BY <1>5, <2>2, ReadBounds
  <2> QED BY <1>3, <1>6, <1>7, <2>1, <2>3
<1>10. after \in Nat /\ after <= dl.end /\ after <= seq + 1 /\ after > dl.next
  BY <1>1, <1>4, <1>8, <1>9 DEF CopyEnd, AtMost
<1>11. PICK c : c = Copied(first, after)
  OBVIOUS
<1>12. PICK n : n = IF after > first THEN after - first ELSE 0
  OBVIOUS
<1>13. /\ n \in Nat /\ c \in Seq(RecType) /\ Len(c) = n
       /\ \A i \in 1 .. n : c[i] = Stored(first + i - 1) /\ c[i].seq = first + i - 1
  <2>1. Oldest <= first /\ after <= seq + 1
    BY <1>3, <1>4, <1>9, <1>10
  <2>2. /\ Copied(first, after) \in Seq(RecType)
        /\ Len(Copied(first, after)) = IF after > first THEN after - first ELSE 0
        /\ \A i \in 1 .. Len(Copied(first, after)) :
              /\ Copied(first, after)[i] = Stored(first + i - 1)
              /\ Copied(first, after)[i].seq = first + i - 1
    BY <1>9, <1>10, <2>1, CopiedStored
  <2>3. n \in Nat
    BY <1>9, <1>10, <1>12
  <2> QED BY <1>11, <1>12, <2>2, <2>3
<1>14. out' = out \o c /\ dl' = [dl EXCEPT !.next = after] /\ UNCHANGED vars
  BY <1>6, <1>7, <1>8, <1>11 DEF FillRaw, Pump
<1>15. dl'.from = dl.from /\ dl'.next = after /\ dl'.end = dl.end /\ dl'.mode = dl.mode
  BY <1>14 DEF DInv, DlTypes
<1>16. PICK m : m = Len(out)
  OBVIOUS
<1>17. m \in Nat
  BY <1>2, <1>16, LenProperties
<1>18. /\ out' \in Seq(RecType) /\ Len(out') = m + n
       /\ \A i \in 1 .. m + n : out'[i] = IF i <= m THEN out[i] ELSE c[i - m]
  <2>1. out \in Seq(RecType) /\ c \in Seq(RecType)
    BY <1>2, <1>13
  <2>2. /\ out \o c \in Seq(RecType) /\ Len(out \o c) = Len(out) + Len(c)
        /\ \A i \in 1 .. Len(out) + Len(c) :
              (out \o c)[i] = IF i <= Len(out) THEN out[i] ELSE c[i - Len(out)]
    BY <2>1, ConcatProperties
  <2> QED BY <1>13, <1>14, <1>16, <2>2
<1>19. \A i \in 1 .. m : out'[i] = out[i]
  BY <1>17, <1>18, <1>13
<1>20. \A i \in m + 1 .. m + n : /\ out'[i] = Stored(first + i - m - 1)
                                 /\ out'[i].seq = first + i - m - 1
  <2> SUFFICES ASSUME NEW i \in m + 1 .. m + n
               PROVE  out'[i] = Stored(first + i - m - 1) /\ out'[i].seq = first + i - m - 1
    OBVIOUS
  <2>1. i \in 1 .. m + n /\ ~(i <= m) /\ i - m \in 1 .. n
    BY <1>13, <1>17
  <2>2. out'[i] = c[i - m]
    BY <1>18, <2>1
  <2>3. first + (i - m) - 1 = first + i - m - 1
    BY <1>9, <1>17, <2>1
  <2> QED BY <1>13, <2>1, <2>2, <2>3
<1>21. \A s \in Nat : Stored(s)' = Stored(s)
  BY <1>14 DEF vars, ringVars, Stored
<1>22. \A i \in 1 .. m + n : (out[i] = Stored(out[i].seq))' /\ out'[i].seq \in 1 .. dl.end - 1
                             /\ out'[i].seq \in dl.from .. after - 1
  <2> SUFFICES ASSUME NEW i \in 1 .. m + n
               PROVE  /\ (out[i] = Stored(out[i].seq))' /\ out'[i].seq \in 1 .. dl.end - 1
                      /\ out'[i].seq \in dl.from .. after - 1
    OBVIOUS
  <2>0. PICK s : s = out'[i].seq
    OBVIOUS
  <2>1. CASE i <= m
    <3>1. i \in 1 .. m /\ out'[i] = out[i]
      BY <1>17, <1>19, <2>1
    <3>2. out[i] = Stored(s) /\ s \in 1 .. dl.end - 1 /\ s \in dl.from .. dl.next - 1
      BY <1>2, <1>16, <2>0, <3>1
    <3>3. s \in dl.from .. after - 1
      BY <1>1, <1>10, <3>2
    <3>4. Stored(out[i].seq)' = Stored(s)'
      BY <2>0 DEF Stored
    <3>5. Stored(s)' = Stored(s)
      BY <1>1, <1>21, <3>2
    <3> QED BY <2>0, <3>1, <3>2, <3>3, <3>4, <3>5
  <2>2. CASE ~(i <= m)
    <3>1. i \in m + 1 .. m + n /\ n > 0
      BY <1>13, <1>17, <2>2
    <3>2. s = first + i - m - 1 /\ out'[i] = Stored(first + i - m - 1)
      BY <1>20, <2>0, <3>1
    <3>3. s \in 1 .. dl.end - 1 /\ s \in dl.from .. after - 1 /\ s \in Nat
      BY <1>1, <1>4, <1>9, <1>10, <1>12, <1>17, <3>1, <3>2
    <3>4. Stored(out[i].seq)' = Stored(s)'
      BY <2>0 DEF Stored
    <3>5. out'[i] = Stored(s)
      BY <3>2
    <3> QED BY <1>21, <2>0, <3>3, <3>4, <3>5
  <2> QED BY <2>1, <2>2
<1>23. \A i \in 2 .. m + n : out'[i - 1].seq < out'[i].seq
  <2> SUFFICES ASSUME NEW i \in 2 .. m + n PROVE out'[i - 1].seq < out'[i].seq
    OBVIOUS
  <2>1. PICK a, b : a = out'[i - 1].seq /\ b = out'[i].seq
    OBVIOUS
  <2>2. CASE i <= m
    BY <1>2, <1>16, <1>17, <1>19, <2>2
  <2>3. CASE i = m + 1
    <3>1. i - 1 \in 1 .. m /\ i \in m + 1 .. m + n
      BY <1>13, <1>17, <2>3
    <3>2. a = out[i - 1].seq /\ a \in dl.from .. dl.next - 1
      BY <1>2, <1>16, <1>19, <2>1, <3>1
    <3>3. b = first
      BY <1>9, <1>17, <1>20, <2>1, <2>3, <3>1
    <3> QED BY <1>1, <1>9, <2>1, <3>2, <3>3
  <2>4. CASE i > m + 1
    <3>1. i - 1 \in m + 1 .. m + n /\ i \in m + 1 .. m + n
      BY <1>13, <1>17, <2>4
    <3>2. a = first + (i - 1) - m - 1 /\ b = first + i - m - 1
      BY <1>20, <2>1, <3>1
    <3> QED BY <1>9, <1>17, <2>1, <3>1, <3>2
  <2> QED BY <1>13, <1>17, <2>2, <2>3, <2>4
<1>24. \A s \in dl.from .. after - 1 : s >= o => \E i \in 1 .. m + n : out'[i].seq = s
  <2> SUFFICES ASSUME NEW s \in dl.from .. after - 1, s >= o
               PROVE  \E i \in 1 .. m + n : out'[i].seq = s
    OBVIOUS
  <2>1. CASE s < dl.next
    <3>1. s \in dl.from .. dl.next - 1
      BY <1>1, <1>10, <2>1
    <3>2. PICK i \in 1 .. m : out[i].seq = s
      BY <1>2, <1>3, <1>16, <3>1
    <3> QED BY <1>13, <1>17, <1>19, <3>2
  <2>2. CASE ~(s < dl.next)
    <3>1. PICK i : i = m + (s - first) + 1
      OBVIOUS
    <3>2. i \in m + 1 .. m + n /\ i \in 1 .. m + n /\ first + i - m - 1 = s
      BY <1>1, <1>4, <1>9, <1>10, <1>12, <1>17, <2>2, <3>1
    <3> QED BY <1>20, <3>2
  <2> QED BY <1>1, <1>10, <2>1, <2>2
<1>25. Oldest' = o
  BY <1>3, <1>14 DEF vars, ringVars, Oldest
<1>26. dl'.from <= dl'.next
  BY <1>1, <1>10, <1>15
<1> QED
  BY <1>15, <1>18, <1>22, <1>23, <1>24, <1>25, <1>26 DEF RawSent

LEMMA OldestHeld == ASSUME IInv PROVE seq \in Nat /\ Oldest \in 1 .. seq
<1>1. seq \in Nat /\ seq > 0
  BY DEF IInv, RingOK
<1> QED BY <1>1, Constants DEF Oldest

LEMMA WebUnmoved ==
    ASSUME UNCHANGED vars
    PROVE  seq' = seq /\ Oldest' = Oldest
BY DEF vars, ringVars, Oldest

LEMMA SearchTypes ==
    ASSUME IInv, DInv, SearchTurn
    PROVE  WebTypes' /\ Looked'
<1>1. /\ web = "search" /\ st \in [oldest : Nat, seq : Nat, arg : Nat]
      /\ search \in [lo : Nat, hi : Nat, found : Nat, us : Nat]
      /\ search.lo <= search.hi
      /\ UNCHANGED <<vars, web, st, dl, out, downloads>>
  BY DEF SearchTurn, DInv, WebTypes
<1>2. PICK lo, hi : lo = search.lo /\ hi = search.hi
  OBVIOUS
<1>3. lo \in Nat /\ hi \in Nat /\ lo <= hi
  BY <1>1, <1>2
<1>4. PICK mid : mid = lo + (hi - lo) \div 2
  OBVIOUS
<1>5. mid \in Nat
  <2>1. (hi - lo) \in Nat
    BY <1>3
  <2>2. PICK half : half = (hi - lo) \div 2
    OBVIOUS
  <2>3. half \in Nat
    BY <2>1, <2>2, ModBound
  <2>4. mid = lo + half
    BY <1>4, <2>2
  <2> QED BY <1>3, <2>3, <2>4
<1>6. seq \in Nat /\ Oldest \in 1 .. seq
  BY OldestHeld
<1>7. search' = IF mid < Oldest THEN [search EXCEPT !.lo = LoAfterMiss]
                ELSE IF NotAfter(mid)
                THEN [search EXCEPT !.found = mid, !.lo = mid + 1]
                ELSE [search EXCEPT !.hi = mid - 1]
  BY <1>2, <1>4 DEF SearchTurn
<1>8. search' \in [lo : Nat, hi : Nat, found : Nat, us : Nat]
  <2>1. CASE mid < Oldest
    <3>1. LoAfterMiss \in Nat
      BY ReadBounds DEF LoAfterMiss
    <3> QED BY <1>1, <1>7, <2>1, <3>1
  <2>2. CASE ~(mid < Oldest)
    <3>1. mid - 1 \in Nat /\ mid + 1 \in Nat
      BY <1>5, <1>6, <2>2
    <3>2. CASE NotAfter(mid)
      BY <1>1, <1>5, <1>7, <2>2, <3>1, <3>2
    <3>3. CASE ~NotAfter(mid)
      BY <1>1, <1>5, <1>7, <2>2, <3>1, <3>3
    <3> QED BY <3>2, <3>3
  <2> QED BY <2>1, <2>2
<1>9. WebTypes'
  BY <1>1, <1>8 DEF WebTypes
<1>10. Looked'
  BY <1>1, WebUnmoved DEF DInv, Looked
<1> QED BY <1>9, <1>10

LEMMA HeaderStarts ==
    ASSUME IInv, DInv, NEW max \in Maxes, RawHeader(max)
    PROVE  DInv'
<1>1. /\ st \in [oldest : Nat, seq : Nat, arg : Nat] /\ st.seq <= seq
      /\ search \in [lo : Nat, hi : Nat, found : Nat, us : Nat]
      /\ UNCHANGED <<vars, st, search, downloads>>
  BY DEF RawHeader, DInv, WebTypes, Looked
<1>2. seq \in Nat /\ max \in Nat
  BY DownloadAssumption DEF IInv, RingOK
<1>3. PICK from0 : from0 = AtMost(AtLeast(st.arg, st.oldest), st.seq + 1)
  OBVIOUS
<1>4. PICK end : end = AtMost(st.seq + 1, from0 + max)
  OBVIOUS
<1>5. PICK from : from = IF from0 < end THEN ReadNext(from0, 1) - 1 ELSE from0
  OBVIOUS
<1>6. PICK us : us = IF from0 < end THEN FullTime(from) ELSE 0
  OBVIOUS
<1>7. Start("raw", from, us, from, end)
  BY <1>3, <1>4, <1>5, <1>6 DEF RawHeader
<1>8. /\ from0 \in Nat /\ end \in Nat /\ end <= seq + 1
  <2>1. PICK a, b, c : a = st.arg /\ b = st.oldest /\ c = st.seq
    OBVIOUS
  <2>2. a \in Nat /\ b \in Nat /\ c \in Nat /\ c <= seq
    BY <1>1, <2>1
  <2>3. from0 = AtMost(AtLeast(a, b), c + 1)
    BY <1>3, <2>1
  <2>4. AtLeast(a, b) \in Nat
    BY <2>2 DEF AtLeast
  <2>5. from0 \in Nat
    BY <2>2, <2>3, <2>4 DEF AtMost
  <2>6. end = AtMost(c + 1, from0 + max)
    BY <1>4, <2>1
  <2> QED BY <1>2, <2>2, <2>5, <2>6 DEF AtMost
<1>9. from \in Nat
  <2>1. CASE from0 < end
    <3>1. from0 <= seq
      BY <1>2, <1>8, <2>1
    <3>2. /\ ReadStart(from0) \in Nat /\ ReadNext(from0, 1) \in Nat
          /\ ReadNext(from0, 1) > ReadStart(from0)
      BY <1>8, <3>1, ReadBounds
    <3> QED BY <1>5, <2>1, <3>2
  <2>2. CASE ~(from0 < end)
    BY <1>5, <1>8, <2>2
  <2> QED BY <2>1, <2>2
<1>10. /\ dl' = [mode |-> "raw", first |-> from, firstUs |-> us, from |-> from, next |-> from,
                 end |-> end]
       /\ out' = <<>> /\ web' = "idle"
  BY <1>7 DEF Start
<1>11. DlTypes'
  BY <1>8, <1>9, <1>10 DEF DlTypes
<1>12. WebTypes'
  BY <1>1, <1>10 DEF WebTypes
<1>13. Looked'
  BY <1>1, <1>8, <1>10, WebUnmoved DEF DInv, Looked
<1>14. RawSent'
  <2>1. <<>> \in Seq(RecType) /\ Len(<<>>) = 0
    OBVIOUS
  <2>2. dl'.from = from /\ dl'.next = from
    BY <1>10
  <2>3. dl'.from .. dl'.next - 1 = {} /\ dl'.from <= dl'.next
    BY <1>9, <2>2
  <2> QED BY <1>10, <2>1, <2>3 DEF RawSent
<1> QED BY <1>11, <1>12, <1>13, <1>14 DEF DInv

LEMMA TextStarts ==
    ASSUME IInv, DInv, TextStart
    PROVE  DInv'
<1>1. /\ st \in [oldest : Nat, seq : Nat, arg : Nat] /\ st.seq <= seq
      /\ search \in [lo : Nat, hi : Nat, found : Nat, us : Nat]
      /\ UNCHANGED <<vars, st, search, downloads>>
  BY DEF TextStart, DInv, WebTypes, Looked
<1>2. PICK from : from = AtLeast(search.found + 1, st.oldest)
  OBVIOUS
<1>3. from \in Nat
  <2>1. PICK a, b : a = search.found + 1 /\ b = st.oldest
    OBVIOUS
  <2>2. a \in Nat /\ b \in Nat
    BY <1>1, <2>1
  <2> QED BY <1>2, <2>1, <2>2 DEF AtLeast
<1>4. /\ dl' = [mode |-> "text", first |-> 0, firstUs |-> 0, from |-> from, next |-> from,
                end |-> st.seq + 1]
      /\ out' = <<>> /\ web' = "idle"
  BY <1>2 DEF TextStart, Start
<1>5. DlTypes'
  BY <1>1, <1>3, <1>4 DEF DlTypes
<1>6. WebTypes'
  BY <1>1, <1>4 DEF WebTypes
<1>7. seq \in Nat /\ dl'.end <= seq + 1
  <2>1. seq \in Nat
    BY DEF IInv, RingOK
  <2> QED BY <1>1, <1>4, <2>1
<1>8. Looked'
  BY <1>1, <1>7, WebUnmoved DEF DInv, Looked
<1>9. RawSent'
  BY <1>4 DEF RawSent, Raw
<1> QED BY <1>5, <1>6, <1>8, <1>9 DEF DInv

\* A request is only let in when there is no download.
LEMMA RequestAsks ==
    ASSUME IInv, DInv, NEW kind \in {"raw", "text"}, NEW arg \in Nat, Request(kind, arg),
           UNCHANGED <<vars, search, dl, out>>
    PROVE  DInv'
<1>1. web' = kind /\ st' = [oldest |-> Oldest, seq |-> seq, arg |-> arg]
  BY DEF Request
<1>2. seq \in Nat /\ Oldest \in 1 .. seq
  BY OldestHeld
<1>3. RawSent' /\ DlTypes' /\ dl'.end <= seq' + 1
  BY QuietKeepsRaw
<1>4. WebTypes'
  BY <1>1, <1>2 DEF DInv, WebTypes
<1>5. st'.oldest = Oldest /\ st'.seq = seq
  BY <1>1
<1>6. Looked'
  BY <1>2, <1>3, <1>5, WebUnmoved DEF Looked
<1> QED BY <1>3, <1>4, <1>6 DEF DInv

LEMMA WindowStarts ==
    ASSUME IInv, NEW window \in Windows PROVE WindowStart(window) \in Nat
<1>1. window \in Nat /\ now \in Nat /\ freezeUs \in Nat
  BY DownloadAssumption DEF IInv, RingOK, ControlOK
<1>2. PICK a : a = IF frozen = "yes" THEN freezeUs ELSE now
  OBVIOUS
<1>3. a \in Nat /\ WindowStart(window) = AtLeast(a - window, 0)
  BY <1>1, <1>2 DEF WindowStart
<1> QED BY <1>1, <1>3 DEF AtLeast

LEMMA PumpSends == ASSUME IInv, DInv, Pump PROVE DInv'
<1>1. UNCHANGED <<vars, web, st, search, downloads>>
  BY DEF Pump
<1>2. PICK want \in Want : FillRaw(want) \/ FillText(want)
  BY DEF Pump
<1>3. want \in Nat /\ dl.next \in Nat /\ dl.end \in Nat /\ dl.from \in Nat
  BY DEF Want, DInv, DlTypes
<1>4. PICK next : next = ReadNext(dl.next, want)
  OBVIOUS
<1>5. next \in Nat
  BY <1>3, <1>4, ReadBounds
<1>6. PICK after \in Nat : dl' = [dl EXCEPT !.next = after]
  <2>1. CASE FillRaw(want)
    BY <1>3, <1>4, <1>5, <2>1 DEF FillRaw, CopyEnd, AtMost
  <2>2. CASE FillText(want)
    BY <1>4, <1>5, <2>2 DEF FillText
  <2> QED BY <1>2, <2>1, <2>2
<1>7. DlTypes' /\ dl'.end = dl.end /\ dl'.mode = dl.mode
  BY <1>6 DEF DInv, DlTypes
<1>8. WebTypes'
  BY <1>1 DEF DInv, WebTypes
<1>9. Looked'
  BY <1>1, <1>7, WebUnmoved DEF DInv, Looked
<1>10. RawSent'
  <2>1. CASE FillRaw(want)
    BY <2>1, FillRawSends
  <2>2. CASE FillText(want)
    BY <1>7, <2>2 DEF FillText, RawSent, Raw
  <2> QED BY <1>2, <2>1, <2>2
<1> QED BY <1>7, <1>8, <1>9, <1>10 DEF DInv

LEMMA DownloadStep == ASSUME IInv, DInv, [DownloadNext]_allVars PROVE DInv'
<1>0. [Next]_vars
  BY IsRecorderStep
<1>1. CASE RecorderStep \/ UNCHANGED allVars
  <2>1. UNCHANGED <<web, st, search, dl, out>>
    BY <1>1 DEF RecorderStep, webVars, allVars
  <2>2. RawSent' /\ DlTypes' /\ dl'.end <= seq' + 1
    BY <1>0, <2>1, QuietKeepsRaw
  <2>3. WebTypes'
    BY <2>1 DEF DInv, WebTypes
  <2>4. /\ seq \in Nat /\ seq' \in Nat /\ seq <= seq' /\ Oldest \in Nat /\ Oldest' \in Nat
        /\ Oldest <= Oldest'
    BY <1>0, LogGrows, OldestGrows
  <2>5. st.oldest \in Nat /\ st.seq \in Nat
    BY DEF DInv, WebTypes
  <2>6. Looked'
    BY <2>1, <2>2, <2>4, <2>5 DEF DInv, Looked
  <2> QED BY <2>2, <2>3, <2>6 DEF DInv
<1>2. ASSUME NEW since \in Sinces, RawRequest(since) PROVE DInv'
  <2>1. since \in Nat
    BY DownloadAssumption
  <2> QED BY <1>2, <2>1, RequestAsks DEF RawRequest
<1>3. ASSUME NEW max \in Maxes, RawHeader(max) PROVE DInv'
  BY <1>3, HeaderStarts
<1>4. ASSUME NEW window \in Windows, TextRequest(window) PROVE DInv'
  BY <1>4, WindowStarts, RequestAsks DEF TextRequest
<1>5. CASE SearchBegin
  <2>1. UNCHANGED <<vars, st, dl, out, downloads>> /\ web' = "search"
    BY <1>5 DEF SearchBegin
  <2>2. seq \in Nat /\ Oldest \in 1 .. seq
    BY OldestHeld
  <2>3. search' = [lo |-> Oldest, hi |-> seq, found |-> Oldest - 1, us |-> st.arg]
    BY <1>5 DEF SearchBegin
  <2>4. st.arg \in Nat /\ Oldest - 1 \in Nat
    BY <2>2 DEF DInv, WebTypes
  <2>5. WebTypes'
    BY <2>1, <2>2, <2>3, <2>4 DEF DInv, WebTypes
  <2>6. RawSent' /\ DlTypes' /\ dl'.end <= seq' + 1
    BY <2>1, QuietKeepsRaw
  <2>7. Looked'
    BY <2>1, <2>6, WebUnmoved DEF DInv, Looked
  <2> QED BY <2>5, <2>6, <2>7 DEF DInv
<1>6. CASE SearchTurn
  <2>1. UNCHANGED <<vars, dl, out>>
    BY <1>6 DEF SearchTurn
  <2> QED BY <1>6, <2>1, SearchTypes, QuietKeepsRaw DEF DInv
<1>7. CASE TextStart
  BY <1>7, TextStarts
<1>8. CASE Pump
  BY <1>8, PumpSends
<1>9. CASE DownloadEnd
  <2>1. /\ dl' = Idle /\ out' = <<>> /\ search' = NoSearch /\ UNCHANGED <<vars, web>>
        /\ st' = [st EXCEPT !.oldest = 0, !.seq = 0, !.arg = 0]
    BY <1>9 DEF DownloadEnd
  <2>2. DlTypes' /\ RawSent' /\ dl'.end = 1
    BY <2>1 DEF DlTypes, RawSent, Raw, Idle
  <2>3. WebTypes' /\ st'.oldest = 0 /\ st'.seq = 0
    BY <2>1 DEF DInv, WebTypes, NoSearch
  <2>4. seq \in Nat /\ Oldest \in 1 .. seq
    BY OldestHeld
  <2>5. Looked'
    BY <2>1, <2>2, <2>3, <2>4, WebUnmoved DEF Looked
  <2> QED BY <2>2, <2>3, <2>5 DEF DInv
<1> QED
  BY <1>1, <1>2, <1>3, <1>4, <1>5, <1>6, <1>7, <1>8, <1>9 DEF DownloadNext

LEMMA InitDownload == DownloadInit => IInv /\ DInv
<1> SUFFICES ASSUME DownloadInit PROVE IInv /\ DInv
  OBVIOUS
<1>1. IInv
  BY InitHolds DEF DownloadInit
<1>2. seq \in Nat /\ Oldest \in 1 .. seq
  BY <1>1, OldestHeld
<1>3. DlTypes /\ RawSent /\ dl.end = 1
  BY DEF DownloadInit, DlTypes, RawSent, Raw, Idle
<1>4. WebTypes /\ st.oldest = 0 /\ st.seq = 0
  BY DEF DownloadInit, WebTypes, NoSearch
<1>5. Looked
  BY <1>2, <1>3, <1>4 DEF Looked
<1> QED BY <1>1, <1>3, <1>4, <1>5 DEF DInv

\* However the ring moves between two looks of a raw download, the file is of the records
\* of its range, each once, in order and as stored, but for those overwritten before they
\* could be sent.
THEOREM RawIsWhole == DownloadSpec => []RawWhole
<1>1. IInv /\ DInv /\ [DownloadNext]_allVars => (IInv /\ DInv)'
  BY IsRecorderStep, StepKeeps, DownloadStep
<1>2. IInv /\ DInv => RawWhole
  <2> SUFFICES ASSUME IInv, DInv, Raw
               PROVE  /\ \A i \in 1 .. Len(out) :
                            /\ out[i] = Stored(out[i].seq)
                            /\ out[i].seq \in dl.from .. dl.end - 1
                            /\ i > 1 => out[i - 1].seq < out[i].seq
                      /\ \A s \in dl.from .. dl.next - 1 :
                            s >= Oldest => \E i \in 1 .. Len(out) : out[i].seq = s
    BY DEF RawWhole
  <2>1. /\ out \in Seq(RecType) /\ dl.from <= dl.next
        /\ \A i \in 1 .. Len(out) : /\ out[i] = Stored(out[i].seq)
                                    /\ out[i].seq \in 1 .. dl.end - 1
                                    /\ out[i].seq \in dl.from .. dl.next - 1
        /\ \A i \in 2 .. Len(out) : out[i - 1].seq < out[i].seq
        /\ \A s \in dl.from .. dl.next - 1 :
              s >= Oldest => \E i \in 1 .. Len(out) : out[i].seq = s
    BY DEF DInv, RawSent
  <2>2. dl.from \in Nat /\ dl.end \in Nat /\ dl.next \in Nat
    BY DEF DInv, DlTypes
  <2>3. ASSUME NEW i \in 1 .. Len(out) PROVE out[i].seq \in dl.from .. dl.end - 1
    <3>1. PICK s : s = out[i].seq
      OBVIOUS
    <3>2. s \in 1 .. dl.end - 1 /\ s \in dl.from .. dl.next - 1
      BY <2>1, <3>1
    <3> QED BY <2>2, <3>1, <3>2
  <2>4. ASSUME NEW i \in 1 .. Len(out), i > 1 PROVE out[i - 1].seq < out[i].seq
    <3>1. Len(out) \in Nat
      BY <2>1, LenProperties
    <3>2. i \in 2 .. Len(out)
      BY <2>4, <3>1
    <3> QED BY <2>1, <3>2
  <2> QED BY <2>1, <2>3, <2>4
<1> QED BY <1>1, <1>2, InitDownload, PTL DEF DownloadSpec

-------------------------------------------------------------------------------
(* seqAt() and the text download, while every epoch is remembered.         *)

LineType == [lost : {0}, rec : RecType, us : Nat]
LostType == [lost : Nat \ {0}]

\* What the search knows: found is of a record overwritten or not after us; all above hi
\* that were there when it began are after us; and between found and lo there is none but
\* the oldest, which a miss has stepped over.
SearchKnows ==
    web = "search" =>
        /\ search.us = st.arg /\ search.hi <= seq /\ st.oldest <= search.lo
        /\ search.found < Oldest \/ (search.found <= seq /\ TimeOf(search.found) <= search.us)
        /\ search.found = search.lo - 1 \/ (search.lo <= Oldest + 1 /\ Oldest > st.oldest)
        /\ \A s \in search.hi + 1 .. st.seq : TimeOf(s) > search.us

\* What a text download has sent; before its end the last line is of the record before next.
LinesTrue ==
    \A i \in 1 .. Len(out) :
        out[i].lost = 0 => /\ out[i] \in LineType
                           /\ out[i].rec = Stored(out[i].rec.seq)
                           /\ out[i].us = TimeOf(out[i].rec.seq)
                           /\ out[i].rec.seq \in 1 .. dl.end - 1
LinesAdjacent ==
    \A i \in 2 .. Len(out) :
        out[i].lost = 0 /\ out[i - 1].lost = 0 => out[i].rec.seq = out[i - 1].rec.seq + 1
GapsMarked ==
    \A i \in 3 .. Len(out) :
        out[i].lost = 0 /\ out[i - 1].lost > 0 =>
            /\ out[i - 2].lost = 0
            /\ out[i].rec.seq = out[i - 2].rec.seq + 1 + out[i - 1].lost
\* A gap before the first line, since where the download began.
LeadMarked ==
    /\ Len(out) = 0 => dl.next = dl.from
    /\ \A i \in 1 .. Len(out) :
          /\ i = 1 /\ out[i].lost = 0 => out[i].rec.seq = dl.from
          /\ i = 2 /\ out[i].lost = 0 /\ out[i - 1].lost > 0 =>
                out[i].rec.seq = dl.from + out[i - 1].lost
NoneMissed ==
    \A s \in 1 .. dl.next - 1 :
        (s < dl.end /\ s >= Oldest /\ TimeOf(s) > st.arg) =>
            \E i \in 1 .. Len(out) : out[i].lost = 0 /\ out[i].rec.seq = s
LastBeforeNext ==
    dl.next < dl.end /\ Len(out) > 0 =>
        out[Len(out)].lost = 0 /\ out[Len(out)].rec.seq = dl.next - 1

TextSent ==
    Text => /\ out \in Seq(LineType \cup LostType)
            /\ LinesTrue /\ LinesAdjacent /\ GapsMarked /\ LeadMarked /\ NoneMissed /\ LastBeforeNext

LEMMA TimesTyped == ASSUME IInv PROVE \A s \in 1 .. seq : TimeOf(s) \in Nat
BY EntryAt DEF IInv, TimeOf

LEMMA QuietKeepsSearch ==
    ASSUME IInv, DInv, SearchKnows, [Next]_vars, UNCHANGED <<web, st, search>>
    PROVE  SearchKnows'
<1> SUFFICES ASSUME web = "search" PROVE SearchKnows'
  BY DEF SearchKnows
<1>1. /\ seq \in Nat /\ seq' \in Nat /\ seq <= seq' /\ Oldest \in 1 .. seq /\ Oldest' \in 1 .. seq'
      /\ Oldest <= Oldest'
      /\ \A s \in 1 .. seq : TimeOf(s)' = TimeOf(s)
  BY LogGrows, OldestGrows DEF TimeOf
<1>2. PICK f, lo, hi, us, o, n : /\ f = search.found /\ lo = search.lo /\ hi = search.hi
                                 /\ us = search.us /\ o = st.oldest /\ n = st.seq
  OBVIOUS
<1>3. /\ f \in Nat /\ lo \in Nat /\ hi \in Nat /\ us \in Nat /\ o \in Nat /\ n \in Nat /\ n <= seq
      /\ us = st.arg /\ hi <= seq /\ o <= lo
      /\ f < Oldest \/ (f <= seq /\ TimeOf(f) <= us)
      /\ f = lo - 1 \/ (lo <= Oldest + 1 /\ Oldest > o)
      /\ \A s \in hi + 1 .. n : TimeOf(s) > us
  BY <1>2 DEF SearchKnows, DInv, WebTypes, Looked
<1>4. f < Oldest' \/ (f <= seq' /\ TimeOf(f)' <= us)
  BY <1>1, <1>3
<1>5. ASSUME NEW s \in hi + 1 .. n PROVE TimeOf(s)' > us
  <2>1. s \in 1 .. seq
    BY <1>1, <1>3
  <2> QED BY <1>1, <1>3, <2>1
<1>6. /\ search'.us = us /\ search'.hi = hi /\ search'.lo = lo /\ search'.found = f
      /\ st'.arg = us /\ st'.oldest = o /\ st'.seq = n /\ web' = "search"
  BY <1>2, <1>3
<1>7. hi <= seq'
  BY <1>1, <1>3
<1>8. TimeOf(search.found)' = TimeOf(f)'
  BY <1>6 DEF TimeOf
<1>9. f = lo - 1 \/ (lo <= Oldest' + 1 /\ Oldest' > o)
  <2>1. PICK a, b : a = Oldest /\ b = Oldest'
    OBVIOUS
  <2>2. a \in Nat /\ b \in Nat /\ a <= b /\ lo \in Nat /\ o \in Nat
    BY <1>1, <1>3, <2>1
  <2>3. f = lo - 1 \/ (lo <= a + 1 /\ a > o)
    BY <1>3, <2>1
  <2>4. f = lo - 1 \/ (lo <= b + 1 /\ b > o)
    BY <2>2, <2>3
  <2> QED BY <2>1, <2>4
<1> QED BY <1>3, <1>4, <1>5, <1>6, <1>7, <1>8, <1>9 DEF SearchKnows

LEMMA TurnKeepsSearch ==
    ASSUME MaxTime < EPOCHS * WRAP, IInv, EInv, DInv, SearchKnows, SearchTurn
    PROVE  SearchKnows'
<1>1. web = "search" /\ search.lo <= search.hi /\ UNCHANGED <<vars, web, st, dl, out, downloads>>
  BY DEF SearchTurn
<1>2. PICK f, lo, hi, us, o, n : /\ f = search.found /\ lo = search.lo /\ hi = search.hi
                                 /\ us = search.us /\ o = st.oldest /\ n = st.seq
  OBVIOUS
<1>3. /\ f \in Nat /\ lo \in Nat /\ hi \in Nat /\ us \in Nat /\ o \in Nat /\ n \in Nat /\ n <= seq
      /\ us = st.arg /\ hi <= seq /\ lo <= hi /\ o <= lo
      /\ f < Oldest \/ (f <= seq /\ TimeOf(f) <= us)
      /\ f = lo - 1 \/ (lo <= Oldest + 1 /\ Oldest > o)
      /\ \A s \in hi + 1 .. n : TimeOf(s) > us
  BY <1>1, <1>2 DEF SearchKnows, DInv, WebTypes, Looked
<1>4. seq \in Nat /\ Oldest \in 1 .. seq
  BY OldestHeld
<1>5. seq' = seq /\ Oldest' = Oldest /\ \A s \in Nat : TimeOf(s)' = TimeOf(s)
  BY <1>1, WebUnmoved DEF vars, ringVars, TimeOf
<1>6. PICK mid : mid = lo + (hi - lo) \div 2
  OBVIOUS
<1>7. mid \in lo .. hi
  <2>1. (hi - lo) \in Nat
    BY <1>3
  <2>2. PICK half : half = (hi - lo) \div 2
    OBVIOUS
  <2>3. half \in Nat /\ half <= hi - lo
    BY <2>1, <2>2, SMT
  <2> QED BY <1>3, <1>6, <2>2, <2>3
<1>8. search' = IF mid < Oldest THEN [search EXCEPT !.lo = LoAfterMiss]
                ELSE IF NotAfter(mid)
                THEN [search EXCEPT !.found = mid, !.lo = mid + 1]
                ELSE [search EXCEPT !.hi = mid - 1]
  BY <1>2, <1>6 DEF SearchTurn
<1>9. search \in [lo : Nat, hi : Nat, found : Nat, us : Nat]
  BY DEF DInv, WebTypes
<1>10. web' = "search" /\ st'.arg = us /\ st'.oldest = o /\ st'.seq = n
  BY <1>1, <1>2, <1>3
<1>11. \A s \in hi + 1 .. n : TimeOf(s)' > us
  <2>1. \A s \in hi + 1 .. n : s \in Nat
    BY <1>3
  <2> QED BY <1>3, <1>5, <2>1
<1>12. CASE mid < Oldest
  <2>0. LoAfterMiss = Oldest + 1
    BY <1>4 DEF LoAfterMiss, ReadNext, ReadStart, AtLeast, AtMost
  <2>1. /\ search'.found = f /\ search'.hi = hi /\ search'.us = us
        /\ search'.lo = Oldest + 1
    BY <1>2, <1>8, <1>9, <1>12, <2>0
  <2>2. Oldest > o /\ o <= Oldest + 1
    BY <1>3, <1>4, <1>7, <1>12
  <2>3. TimeOf(search.found)' = TimeOf(f)
    BY <1>3, <1>5, <2>1 DEF TimeOf
  <2>4. Oldest + 1 <= Oldest + 1
    BY <1>4
  <2> QED BY <1>3, <1>5, <1>10, <1>11, <2>1, <2>2, <2>3, <2>4 DEF SearchKnows
<1>13. CASE ~(mid < Oldest)
  <2>1. mid \in Oldest .. seq
    BY <1>3, <1>4, <1>7, <1>13
  <2>2. FullTime(mid) = TimeOf(mid)
    BY <2>1, AllRemembered
  <2>3. TimeOf(mid) \in Nat
    <3>1. mid \in 1 .. seq
      BY <1>4, <2>1
    <3> QED BY <3>1, TimesTyped
  <2>4. NotAfter(mid) <=> TimeOf(mid) <= us
    BY <1>2, <2>2 DEF NotAfter
  <2>5. CASE TimeOf(mid) <= us
    <3>1. /\ search'.found = mid /\ search'.hi = hi /\ search'.us = us
          /\ search'.lo = mid + 1
      BY <1>2, <1>8, <1>9, <1>13, <2>4, <2>5
    <3>2. TimeOf(search.found)' = TimeOf(mid)
      BY <1>4, <1>5, <2>1, <3>1 DEF TimeOf
    <3>3. o <= mid + 1 /\ mid <= seq /\ mid = (mid + 1) - 1
      BY <1>3, <1>4, <1>7, <2>1
    <3> QED BY <1>3, <1>5, <1>10, <1>11, <2>5, <3>1, <3>2, <3>3 DEF SearchKnows
  <2>6. CASE ~(TimeOf(mid) <= us)
    <3>1. /\ search'.found = f /\ search'.hi = mid - 1 /\ search'.us = us
          /\ search'.lo = lo
      BY <1>2, <1>8, <1>9, <1>13, <2>4, <2>6
    <3>2. TimeOf(search.found)' = TimeOf(f)
      BY <1>3, <1>5, <3>1 DEF TimeOf
    <3>3. \A s \in mid .. n : TimeOf(s)' > us
      <4> SUFFICES ASSUME NEW s \in mid .. n PROVE TimeOf(s)' > us
        OBVIOUS
      <4>1. s \in 1 .. seq /\ mid \in 1 .. seq /\ mid <= s
        BY <1>3, <1>4, <2>1
      <4>2. TimeOf(mid) <= TimeOf(s)
        BY <4>1 DEF IInv, TimesRise, TimeOf
      <4>3. TimeOf(s) \in Nat
        BY <4>1, TimesTyped
      <4>4. TimeOf(s)' = TimeOf(s)
        BY <1>5, <4>1
      <4> QED BY <1>3, <2>3, <2>6, <4>2, <4>3, <4>4
    <3>4. (mid - 1) + 1 = mid /\ mid - 1 <= seq
      BY <1>4, <2>1
    <3> QED BY <1>3, <1>5, <1>10, <3>1, <3>2, <3>3, <3>4 DEF SearchKnows
  <2> QED BY <2>5, <2>6
<1> QED BY <1>12, <1>13

LEMMA BeginKnows ==
    ASSUME IInv, DInv, SearchBegin
    PROVE  SearchKnows'
<1>1. /\ UNCHANGED <<vars, st, dl, out, downloads>>
      /\ search' = [lo |-> Oldest, hi |-> seq, found |-> Oldest - 1, us |-> st.arg]
  BY DEF SearchBegin
<1>2. seq \in Nat /\ Oldest \in 1 .. seq
  BY OldestHeld
<1>3. seq' = seq /\ Oldest' = Oldest
  BY <1>1, WebUnmoved
<1>4. /\ search'.lo = Oldest /\ search'.hi = seq /\ search'.found = Oldest - 1
      /\ search'.us = st.arg /\ st' = st
  BY <1>1
<1>5. st.oldest \in Nat /\ st.seq \in Nat /\ st.oldest <= Oldest /\ st.seq <= seq
  BY DEF DInv, WebTypes, Looked
<1>6. seq + 1 .. st.seq = {}
  BY <1>2, <1>5
<1>7. \A s \in search'.hi + 1 .. st'.seq : TimeOf(s)' > search'.us
  BY <1>4, <1>6
<1>8. search'.found < Oldest'
  BY <1>2, <1>3, <1>4, <1>5
<1>9. search'.found = search'.lo - 1 /\ st'.oldest <= search'.lo /\ search'.hi <= seq'
  BY <1>2, <1>3, <1>4, <1>5
<1> QED BY <1>4, <1>7, <1>8, <1>9 DEF SearchKnows

LEMMA StepKeepsSearch ==
    ASSUME MaxTime < EPOCHS * WRAP, IInv, EInv, DInv, SearchKnows, [DownloadNext]_allVars
    PROVE  SearchKnows'
<1>0. [Next]_vars
  BY IsRecorderStep
<1>1. CASE RecorderStep \/ UNCHANGED allVars
  <2>1. UNCHANGED <<web, st, search>>
    BY <1>1 DEF RecorderStep, webVars, allVars
  <2> QED BY <1>0, <2>1, QuietKeepsSearch
<1>2. CASE (\E since \in Sinces : RawRequest(since)) \/ (\E window \in Windows : TextRequest(window))
  BY <1>2 DEF RawRequest, TextRequest, Request, SearchKnows
<1>3. CASE \E max \in Maxes : RawHeader(max)
  BY <1>3 DEF RawHeader, Start, SearchKnows
<1>4. CASE SearchBegin
  BY <1>4, BeginKnows
<1>5. CASE SearchTurn
  BY <1>5, TurnKeepsSearch
<1>6. CASE TextStart
  BY <1>6 DEF TextStart, Start, SearchKnows
<1>7. CASE Pump \/ DownloadEnd
  BY <1>7 DEF Pump, DownloadEnd, SearchKnows
<1> QED
  BY <1>1, <1>2, <1>3, <1>4, <1>5, <1>6, <1>7 DEF DownloadNext

LEMMA KnowsExact == ASSUME IInv, DInv, SearchKnows PROVE SearchExact
<1> SUFFICES ASSUME Found
             PROVE  /\ \A s \in AtOrBefore :
                         s <= st.seq => s <= search.found \/ (s = Oldest /\ Oldest > st.oldest)
                    /\ search.found >= Oldest => search.found \in AtOrBefore
  BY DEF SearchExact
<1>1. PICK f, lo, hi, us, o, n : /\ f = search.found /\ lo = search.lo /\ hi = search.hi
                                 /\ us = search.us /\ o = st.oldest /\ n = st.seq
  OBVIOUS
<1>2. /\ f \in Nat /\ lo \in Nat /\ hi \in Nat /\ us \in Nat /\ o \in Nat /\ n \in Nat /\ n <= seq
      /\ lo > hi
      /\ f < Oldest \/ (f <= seq /\ TimeOf(f) <= us)
      /\ f = lo - 1 \/ (lo <= Oldest + 1 /\ Oldest > o)
      /\ \A s \in hi + 1 .. n : TimeOf(s) > us
  BY <1>1 DEF Found, SearchKnows, DInv, WebTypes, Looked
<1>3. seq \in Nat /\ Oldest \in 1 .. seq
  BY OldestHeld
<1>4. \A s \in 1 .. seq : TimeOf(s) \in Nat
  BY TimesTyped
<1>5. ASSUME NEW s \in AtOrBefore, s <= n PROVE s <= f \/ (s = Oldest /\ Oldest > o)
  <2>1. s \in Oldest .. seq /\ TimeOf(s) <= us
    BY <1>1, <1>5 DEF AtOrBefore
  <2>2. s \in 1 .. seq
    BY <1>3, <2>1
  <2>3. ~(s \in hi + 1 .. n)
    BY <1>2, <1>4, <2>1, <2>2
  <2>4. s < lo
    BY <1>2, <1>5, <2>2, <2>3
  <2> QED BY <1>2, <1>3, <2>1, <2>4
<1>6. ASSUME f >= Oldest PROVE f \in AtOrBefore
  <2>1. f \in Oldest .. seq /\ TimeOf(f) <= us
    BY <1>2, <1>3, <1>6
  <2> QED BY <1>1, <2>1 DEF AtOrBefore
<1> QED BY <1>1, <1>5, <1>6

LEMMA QuietKeepsText ==
    ASSUME IInv, DInv, TextSent, [Next]_vars, UNCHANGED <<dl, out>>, Text => UNCHANGED st
    PROVE  TextSent'
<1> SUFFICES ASSUME Text PROVE TextSent'
  BY DEF TextSent, Text
<1>1. /\ seq \in Nat /\ seq' \in Nat /\ seq <= seq' /\ Oldest \in 1 .. seq /\ Oldest' \in 1 .. seq'
      /\ Oldest <= Oldest'
      /\ \A s \in 1 .. seq : TimeOf(s)' = TimeOf(s) /\ Stored(s)' = Stored(s)
  BY LogGrows, OldestGrows DEF TimeOf
<1>2. /\ out \in Seq(LineType \cup LostType)
      /\ LinesTrue /\ LinesAdjacent /\ GapsMarked /\ LeadMarked /\ NoneMissed /\ LastBeforeNext
  BY DEF TextSent
<1>3. dl.next \in Nat /\ dl.end \in Nat /\ dl.end <= seq + 1
  BY DEF DInv, DlTypes, Looked
<1>4. dl' = dl /\ out' = out /\ st' = st
  OBVIOUS
<1>5. LinesTrue'
  <2> SUFFICES ASSUME NEW i \in 1 .. Len(out), out[i].lost = 0
               PROVE  /\ out[i] \in LineType
                      /\ (out[i].rec = Stored(out[i].rec.seq))'
                      /\ (out[i].us = TimeOf(out[i].rec.seq))'
                      /\ out[i].rec.seq \in 1 .. dl.end - 1
    BY <1>4 DEF LinesTrue, LineType, RecType
  <2>1. PICK s : s = out[i].rec.seq
    OBVIOUS
  <2>2. out[i] \in LineType /\ out[i].rec = Stored(s) /\ out[i].us = TimeOf(s) /\ s \in 1 .. dl.end - 1
    BY <1>2, <2>1 DEF LinesTrue
  <2>3. s \in 1 .. seq
    BY <1>1, <1>3, <2>2
  <2>4. Stored(s)' = Stored(s) /\ TimeOf(s)' = TimeOf(s)
    BY <1>1, <2>3
  <2>5. Stored(out[i].rec.seq)' = Stored(s)' /\ TimeOf(out[i].rec.seq)' = TimeOf(s)'
    BY <1>4, <2>1 DEF Stored, TimeOf
  <2> QED BY <1>4, <2>1, <2>2, <2>4, <2>5
<1>6. LinesAdjacent' /\ GapsMarked' /\ LeadMarked' /\ LastBeforeNext'
  BY <1>2, <1>4 DEF LinesAdjacent, GapsMarked, LeadMarked, LastBeforeNext
<1>7. NoneMissed'
  <2> SUFFICES ASSUME NEW s \in 1 .. dl.next - 1, s < dl.end, s >= Oldest', TimeOf(s)' > st.arg
               PROVE  \E i \in 1 .. Len(out) : out[i].lost = 0 /\ out[i].rec.seq = s
    BY <1>4 DEF NoneMissed, TimeOf
  <2>1. s \in 1 .. seq /\ s >= Oldest
    BY <1>1, <1>3
  <2> QED BY <1>1, <1>2, <2>1 DEF NoneMissed
<1> QED BY <1>2, <1>4, <1>5, <1>6, <1>7 DEF TextSent

\* A text download starts after the last record at or before its window.
LEMMA StartMissesNone ==
    ASSUME IInv, DInv, SearchKnows, TextStart
    PROVE  TextSent'
<1>1. web = "search" /\ UNCHANGED <<vars, st, search, downloads>>
  BY DEF TextStart
<1>2. PICK from : from = AtLeast(search.found + 1, st.oldest)
  OBVIOUS
<1>3. PICK f, o, n, us : f = search.found /\ o = st.oldest /\ n = st.seq /\ us = search.us
  OBVIOUS
<1>4. /\ f \in Nat /\ o \in Nat /\ n \in Nat /\ n <= seq /\ o <= Oldest /\ us \in Nat /\ us = st.arg
      /\ f < Oldest \/ (f <= seq /\ TimeOf(f) <= us)
  BY <1>1, <1>3 DEF SearchKnows, DInv, WebTypes, Looked
<1>5. from \in Nat /\ (from = f + 1 \/ from = o)
  BY <1>2, <1>3, <1>4 DEF AtLeast
<1>6. dl'.from = from /\ dl'.next = from /\ dl'.end = n + 1 /\ out' = <<>> /\ st' = st
  BY <1>1, <1>2, <1>3 DEF TextStart, Start
<1>7. seq \in Nat /\ Oldest \in 1 .. seq
  BY OldestHeld
<1>8. Oldest' = Oldest /\ \A s \in Nat : TimeOf(s)' = TimeOf(s)
  BY <1>1, WebUnmoved DEF vars, ringVars, TimeOf
<1>9. NoneMissed'
  <2> SUFFICES ASSUME NEW s \in 1 .. from - 1, s >= Oldest, TimeOf(s) > us PROVE FALSE
    <3>1. \A s \in 1 .. from - 1 : ~(s >= Oldest' /\ TimeOf(s)' > st'.arg)
      BY <1>4, <1>5, <1>6, <1>8
    <3> QED BY <1>6, <3>1 DEF NoneMissed, TimeOf
  <2>1. s <= f
    BY <1>4, <1>5, <1>7
  <2>2. f <= seq /\ TimeOf(f) <= us /\ s \in 1 .. seq /\ f \in 1 .. seq
    BY <1>4, <1>7, <2>1
  <2>3. TimeOf(s) <= TimeOf(f)
    BY <2>1, <2>2 DEF IInv, TimesRise, TimeOf
  <2> QED BY <1>4, <2>2, <2>3, TimesTyped
<1>10. <<>> \in Seq(LineType \cup LostType) /\ Len(<<>>) = 0
  OBVIOUS
<1>11. LinesTrue' /\ LinesAdjacent' /\ GapsMarked' /\ LeadMarked' /\ LastBeforeNext'
  BY <1>6, <1>10 DEF LinesTrue, LinesAdjacent, GapsMarked, LeadMarked, LastBeforeNext
<1> QED BY <1>6, <1>9, <1>10, <1>11 DEF TextSent

\* A line of the text, and where the lines of a chunk come to stand behind a lost mark.
LEMMA LineTrue ==
    ASSUME MaxTime < EPOCHS * WRAP, IInv, EInv, NEW s \in Oldest .. seq
    PROVE  Line(s) \in LineType /\ Line(s).lost = 0 /\ Line(s).rec = Stored(s)
           /\ Line(s).rec.seq = s /\ Line(s).us = TimeOf(s)
<1>1. seq \in Nat /\ Oldest \in 1 .. seq /\ s \in 1 .. seq /\ s \in Nat
  BY OldestHeld
<1>2. seq < s + Capacity
  BY <1>1, Constants DEF Oldest
<1>3. ring[s % Capacity] = Stored(s)
  BY <1>1, <1>2 DEF IInv, Holds
<1>4. ring[s % Capacity] \in RecType
  <2>1. s % Capacity \in 0 .. Capacity - 1
    BY <1>1, Constants, ModBound
  <2> QED BY <2>1 DEF IInv, RingOK
<1>5. FullTime(s) = TimeOf(s) /\ TimeOf(s) \in Nat
  BY <1>1, AllRemembered, TimesTyped
<1>6. Line(s) = [lost |-> 0, rec |-> Stored(s), us |-> TimeOf(s)]
  BY <1>3, <1>5 DEF Line
<1>7. Stored(s).seq = s
  BY DEF Stored, Rec
<1>8. Line(s) \in LineType
  BY <1>3, <1>4, <1>5, <1>6 DEF LineType
<1> QED BY <1>6, <1>7, <1>8

\* A chunk of text: k marks of lost records and the n lines from first, of what read()
\* copied up to after.
Chunk(first, after, k, n) ==
    /\ dl' = [dl EXCEPT !.next = after] /\ vars' = vars /\ st' = st
    /\ first >= dl.next /\ first >= Oldest /\ (first = dl.next \/ first = Oldest)
    /\ after > first /\ after <= seq + 1
    /\ k = IF first > dl.next THEN 1 ELSE 0
    /\ (n = 0 /\ first >= dl.end) \/ (n > 0 /\ first + n <= dl.end /\ first + n <= after)
    /\ first + n = after \/ first + n = dl.end \/ n = 0
    /\ out' \in Seq(LineType \cup LostType) /\ Len(out') = Len(out) + k + n
    /\ \A i \in 1 .. Len(out) : out'[i] = out[i]
    /\ k = 1 => out'[Len(out) + 1].lost = first - dl.next
    /\ \A i \in 1 .. n : out'[Len(out) + k + i] = Line(first + i - 1)

LEMMA ChunkStands ==
    ASSUME MaxTime < EPOCHS * WRAP, IInv, EInv, DInv, TextSent, Pump, NEW want \in Want, FillText(want)
    PROVE  \E first, after, k, n \in Nat : Chunk(first, after, k, n)
<1>1. PICK m, end : m = dl.next /\ end = dl.end
  OBVIOUS
<1>2. m \in Nat /\ end \in Nat /\ m < end /\ end <= seq + 1
  BY <1>1 DEF Pump, DInv, DlTypes, Looked
<1>3. seq \in Nat /\ Oldest \in 1 .. seq
  BY OldestHeld
<1>4. want \in Nat /\ want > 0
  BY DEF Want
<1>5. PICK first, after : first = ReadStart(m) /\ after = ReadNext(m, want)
  OBVIOUS
<1>6. /\ first \in Nat /\ first >= m /\ first >= Oldest /\ (first = m \/ first = Oldest)
      /\ after \in Nat /\ after > first /\ after <= seq + 1
  <2>1. m <= seq
    BY <1>2, <1>3
  <2>2. /\ ReadStart(m) \in Nat /\ ReadStart(m) >= Oldest /\ ReadStart(m) >= m
        /\ ReadStart(m) = m \/ ReadStart(m) = Oldest
        /\ ReadNext(m, want) \in Nat /\ ReadNext(m, want) <= seq + 1
        /\ ReadNext(m, want) > ReadStart(m)
    BY <1>2, <1>4, <2>1, ReadBounds
  <2> QED BY <1>5, <2>2
<1>7. PICK k : k = IF first > m THEN 1 ELSE 0
  OBVIOUS
<1>8. PICK n : n = Lines(first, after)
  OBVIOUS
<1>9. /\ n \in Nat
      /\ (n = 0 /\ first >= end) \/ (n > 0 /\ first + n <= end /\ first + n <= after)
      /\ first + n = after \/ first + n = end \/ n = 0
  <2>1. PICK a : a = AtMost(after, end)
    OBVIOUS
  <2>2. a = IF after > end THEN end ELSE after
    BY <2>1 DEF AtMost
  <2>3. n = (IF a < first THEN first ELSE a) - first
    BY <1>1, <1>8, <2>1 DEF Lines, AtLeast
  <2> QED BY <1>2, <1>6, <2>2, <2>3
<1>10. PICK p : p = LostLine(first - m)
  OBVIOUS
<1>11. /\ p \in Seq(LineType \cup LostType) /\ Len(p) = k /\ k \in Nat
       /\ k = 1 => p[1].lost = first - m
  <2>1. CASE first > m
    <3>1. PICK d : d = first - m
      OBVIOUS
    <3>2. d \in Nat \ {0}
      BY <1>2, <1>6, <2>1, <3>1
    <3>3. p = <<[lost |-> d]>>
      BY <1>10, <3>1, <3>2 DEF LostLine
    <3>4. [lost |-> d] \in LineType \cup LostType
      BY <3>2 DEF LostType
    <3> QED BY <1>7, <2>1, <3>1, <3>3, <3>4
  <2>2. CASE ~(first > m)
    <3>1. ~(first - m > 0)
      BY <1>2, <1>6, <2>2
    <3>2. p = <<>>
      BY <1>10, <3>1 DEF LostLine
    <3>3. <<>> \in Seq(LineType \cup LostType) /\ Len(<<>>) = 0
      OBVIOUS
    <3> QED BY <1>7, <2>2, <3>2, <3>3
  <2> QED BY <2>1, <2>2
<1>12. PICK c : c = [i \in 1 .. n |-> Line(first + i - 1)]
  OBVIOUS
<1>13. /\ c \in Seq(LineType \cup LostType) /\ Len(c) = n
       /\ \A i \in 1 .. n : c[i] = Line(first + i - 1)
  <2>1. \A i \in 1 .. n : first + i - 1 \in Oldest .. seq
    BY <1>2, <1>3, <1>6, <1>9
  <2>2. \A i \in 1 .. n : Line(first + i - 1) \in LineType
    BY <2>1, LineTrue
  <2>3. c \in [1 .. n -> LineType \cup LostType]
    BY <1>12, <2>2
  <2>4. c \in Seq(LineType \cup LostType) /\ Len(c) = n
    BY <1>9, <2>3, IsASeq
  <2> QED BY <1>12, <2>4
<1>14. out \in Seq(LineType \cup LostType)
  BY DEF FillText, TextSent, Text
<1>15. out' = out \o p \o c /\ dl' = [dl EXCEPT !.next = after] /\ vars' = vars /\ st' = st
  BY <1>1, <1>5, <1>8, <1>10, <1>12 DEF FillText, Pump
<1>16. PICK q : q = out \o p
  OBVIOUS
<1>17. /\ q \in Seq(LineType \cup LostType) /\ Len(q) = Len(out) + k
       /\ \A i \in 1 .. Len(out) + Len(p) : q[i] = IF i <= Len(out) THEN out[i] ELSE p[i - Len(out)]
  BY <1>11, <1>14, <1>16, ConcatProperties
<1>18. /\ q \o c \in Seq(LineType \cup LostType) /\ Len(q \o c) = Len(q) + Len(c)
       /\ \A i \in 1 .. Len(q) + Len(c) : (q \o c)[i] = IF i <= Len(q) THEN q[i] ELSE c[i - Len(q)]
  BY <1>13, <1>17, ConcatProperties
<1>19. out' = q \o c
  BY <1>15, <1>16
<1>20. PICK l : l = Len(out)
  OBVIOUS
<1>21. l \in Nat
  BY <1>14, <1>20, LenProperties
<1>22. /\ out' \in Seq(LineType \cup LostType) /\ Len(out') = l + k + n
       /\ \A i \in 1 .. l + k + n : out'[i] = IF i <= l + k THEN q[i] ELSE c[i - (l + k)]
  BY <1>13, <1>17, <1>18, <1>19, <1>20
<1>23. \A i \in 1 .. l : out'[i] = out[i]
  <2>1. \A i \in 1 .. l : /\ i \in 1 .. l + k + n /\ i <= l + k /\ i <= l /\ i \in 1 .. l + k
    BY <1>9, <1>11, <1>21
  <2> QED BY <1>11, <1>17, <1>20, <1>22, <2>1
<1>24. k = 1 => out'[l + 1].lost = first - m
  <2> SUFFICES ASSUME k = 1 PROVE out'[l + 1].lost = first - m
    OBVIOUS
  <2>1. l + 1 \in 1 .. l + k + n /\ l + 1 <= l + k /\ l + 1 \in 1 .. l + k /\ ~(l + 1 <= l)
        /\ (l + 1) - l = 1
    BY <1>9, <1>21
  <2>2. out'[l + 1] = q[l + 1]
    BY <1>22, <2>1
  <2>3. q[l + 1] = p[1]
    BY <1>11, <1>17, <1>20, <2>1
  <2> QED BY <1>11, <2>2, <2>3
<1>25. \A i \in 1 .. n : out'[l + k + i] = Line(first + i - 1)
  <2> SUFFICES ASSUME NEW i \in 1 .. n PROVE out'[l + k + i] = Line(first + i - 1)
    OBVIOUS
  <2>1. l + k + i \in 1 .. l + k + n /\ ~(l + k + i <= l + k) /\ (l + k + i) - (l + k) = i
    BY <1>9, <1>11, <1>21
  <2>2. out'[l + k + i] = c[i]
    BY <1>22, <2>1
  <2> QED BY <1>13, <2>2
<1>26. /\ dl' = [dl EXCEPT !.next = after] /\ vars' = vars /\ st' = st
       /\ first >= dl.next /\ first >= Oldest /\ (first = dl.next \/ first = Oldest)
       /\ after > first /\ after <= seq + 1
       /\ k = IF first > dl.next THEN 1 ELSE 0
  BY <1>1, <1>6, <1>7, <1>15
<1>27. /\ (n = 0 /\ first >= dl.end) \/ (n > 0 /\ first + n <= dl.end /\ first + n <= after)
       /\ first + n = after \/ first + n = dl.end \/ n = 0
  BY <1>1, <1>9
<1>28. /\ out' \in Seq(LineType \cup LostType) /\ Len(out') = Len(out) + k + n
       /\ \A i \in 1 .. Len(out) : out'[i] = out[i]
       /\ k = 1 => out'[Len(out) + 1].lost = first - dl.next
       /\ \A i \in 1 .. n : out'[Len(out) + k + i] = Line(first + i - 1)
  BY <1>1, <1>20, <1>22, <1>23, <1>24, <1>25
<1>29. first \in Nat /\ after \in Nat /\ k \in Nat /\ n \in Nat
  BY <1>6, <1>9, <1>11
<1>30. Chunk(first, after, k, n)
  BY <1>26, <1>27, <1>28 DEF Chunk
<1> QED BY <1>29, <1>30

LEMMA ChunkKeepsText ==
    ASSUME MaxTime < EPOCHS * WRAP, IInv, EInv, DInv, TextSent, Text, dl.next < dl.end,
           NEW first \in Nat, NEW after \in Nat, NEW k \in Nat, NEW n \in Nat,
           Chunk(first, after, k, n)
    PROVE  TextSent'
<1>1. PICK m, end, l : m = dl.next /\ end = dl.end /\ l = Len(out)
  OBVIOUS
<1>2. m \in Nat /\ end \in Nat /\ m < end /\ end <= seq + 1
  BY <1>1 DEF DInv, DlTypes, Looked
<1>3. /\ out \in Seq(LineType \cup LostType)
      /\ LinesTrue /\ LinesAdjacent /\ GapsMarked /\ LeadMarked /\ NoneMissed /\ LastBeforeNext
  BY DEF TextSent
<1>4. l \in Nat
  BY <1>1, <1>3, LenProperties
<1>5. seq \in Nat /\ Oldest \in 1 .. seq
  BY OldestHeld
<1>6. /\ first >= m /\ first >= Oldest /\ (first = m \/ first = Oldest)
      /\ after > first /\ after <= seq + 1
      /\ k = IF first > m THEN 1 ELSE 0
      /\ (n = 0 /\ first >= end) \/ (n > 0 /\ first + n <= end /\ first + n <= after)
      /\ first + n = after \/ first + n = end \/ n = 0
      /\ out' \in Seq(LineType \cup LostType) /\ Len(out') = l + k + n
      /\ \A i \in 1 .. l : out'[i] = out[i]
      /\ k = 1 => out'[l + 1].lost = first - m
      /\ \A i \in 1 .. n : out'[l + k + i] = Line(first + i - 1)
      /\ vars' = vars /\ st' = st
  BY <1>1 DEF Chunk
<1>7. dl'.next = after /\ dl'.end = end /\ dl'.mode = dl.mode /\ dl'.from = dl.from
  BY <1>1 DEF Chunk, DInv, DlTypes
<1>8. /\ Oldest' = Oldest
      /\ \A s \in Nat : TimeOf(s)' = TimeOf(s) /\ Stored(s)' = Stored(s)
  BY <1>6, WebUnmoved DEF vars, ringVars, TimeOf, Stored
\* The new lines, by their place.
<1>9. \A i \in l + k + 1 .. l + k + n :
         /\ out'[i] \in LineType /\ out'[i].lost = 0
         /\ out'[i].rec.seq = first + (i - l - k) - 1
         /\ out'[i].rec.seq \in Oldest .. seq /\ out'[i].rec.seq \in 1 .. end - 1
         /\ out'[i].rec = Stored(out'[i].rec.seq) /\ out'[i].us = TimeOf(out'[i].rec.seq)
  <2> SUFFICES ASSUME NEW i \in l + k + 1 .. l + k + n
               PROVE  /\ out'[i] \in LineType /\ out'[i].lost = 0
                      /\ out'[i].rec.seq = first + (i - l - k) - 1
                      /\ out'[i].rec.seq \in Oldest .. seq /\ out'[i].rec.seq \in 1 .. end - 1
                      /\ out'[i].rec = Stored(out'[i].rec.seq)
                      /\ out'[i].us = TimeOf(out'[i].rec.seq)
    OBVIOUS
  <2>1. PICK j : j = i - l - k
    OBVIOUS
  <2>2. j \in 1 .. n /\ i = l + k + j
    BY <1>4, <2>1
  <2>3. PICK s : s = first + j - 1
    OBVIOUS
  <2>4. s \in Oldest .. seq /\ s \in 1 .. end - 1
    <3>1. /\ first \in Nat /\ n \in Nat /\ first >= Oldest /\ after <= seq + 1
          /\ first + n <= end /\ first + n <= after
      BY <1>6, <2>2
    <3>2. PICK o : o = Oldest
      OBVIOUS
    <3>3. o \in Nat /\ o >= 1 /\ seq \in Nat /\ after \in Nat
      BY <1>5, <3>2
    <3>4. s \in Nat /\ s >= first /\ s < first + n
      BY <2>2, <2>3, <3>1
    <3> QED BY <1>2, <3>1, <3>2, <3>3, <3>4
  <2>5. out'[i] = Line(s)
    BY <1>6, <2>2, <2>3
  <2>6. /\ Line(s) \in LineType /\ Line(s).lost = 0 /\ Line(s).rec = Stored(s)
        /\ Line(s).rec.seq = s /\ Line(s).us = TimeOf(s)
    BY <2>4, LineTrue
  <2> QED BY <2>1, <2>3, <2>4, <2>5, <2>6
<1>10. k = 0 \/ k = 1
  BY <1>2, <1>6
<1>11. k = 1 => out'[l + 1].lost = first - m /\ first - m > 0
  BY <1>2, <1>6
<1>12. k = 0 => first = m
  BY <1>2, <1>6
<1>13. LinesTrue'
  <2> SUFFICES ASSUME NEW i \in 1 .. l + k + n, out'[i].lost = 0
               PROVE  /\ out'[i] \in LineType
                      /\ (out[i].rec = Stored(out[i].rec.seq))'
                      /\ (out[i].us = TimeOf(out[i].rec.seq))'
                      /\ out'[i].rec.seq \in 1 .. end - 1
    BY <1>6, <1>7 DEF LinesTrue, LineType, RecType
  <2>1. PICK s : s = out'[i].rec.seq
    OBVIOUS
  <2>2. /\ out'[i] \in LineType /\ out'[i].rec = Stored(s) /\ out'[i].us = TimeOf(s)
        /\ s \in 1 .. end - 1
    <3>1. CASE i <= l
      <4>1. i \in 1 .. l /\ out'[i] = out[i]
        BY <1>4, <1>6, <3>1
      <4>2. out[i].lost = 0
        BY <4>1
      <4> QED BY <1>1, <1>3, <2>1, <4>1, <4>2 DEF LinesTrue
    <3>2. CASE i = l + k /\ k = 1
      BY <1>2, <1>11, <3>2
    <3>3. CASE i > l + k
      <4>1. i \in l + k + 1 .. l + k + n
        BY <1>4, <3>3
      <4> QED BY <1>9, <2>1, <4>1
    <3> QED BY <1>4, <1>10, <3>1, <3>2, <3>3
  <2>3. Stored(s)' = Stored(s) /\ TimeOf(s)' = TimeOf(s)
    BY <1>2, <1>8, <2>2
  <2>4. Stored(out[i].rec.seq)' = Stored(s)' /\ TimeOf(out[i].rec.seq)' = TimeOf(s)'
    BY <2>1 DEF Stored, TimeOf
  <2> QED BY <2>1, <2>2, <2>3, <2>4
<1>14. l > 0 => out[l].lost = 0 /\ out[l].rec.seq = m - 1
  BY <1>1, <1>2, <1>3 DEF LastBeforeNext
<1>15. LinesAdjacent'
  <2> SUFFICES ASSUME NEW i \in 2 .. l + k + n, out'[i].lost = 0, out'[i - 1].lost = 0
               PROVE  out'[i].rec.seq = out'[i - 1].rec.seq + 1
    BY <1>6 DEF LinesAdjacent
  <2>1. CASE i <= l
    <3>1. i \in 1 .. l /\ i - 1 \in 1 .. l /\ i \in 2 .. l
      BY <1>4, <2>1
    <3>2. out'[i] = out[i] /\ out'[i - 1] = out[i - 1]
      BY <1>6, <3>1
    <3>3. out[i].lost = 0 /\ out[i - 1].lost = 0
      BY <3>2
    <3> QED BY <1>1, <1>3, <3>1, <3>2, <3>3 DEF LinesAdjacent
  <2>2. CASE i = l + 1 /\ k = 0
    <3>1. i - 1 = l /\ l \in 1 .. l /\ l > 0
      BY <1>4, <2>2
    <3>2. out'[i - 1] = out[l]
      BY <1>6, <3>1
    <3>3. i \in l + k + 1 .. l + k + n
      BY <1>4, <2>2
    <3>4. out'[i].rec.seq = first + (i - l - k) - 1
      BY <1>9, <3>3
    <3>5. PICK a, b : a = out'[i].rec.seq /\ b = out'[i - 1].rec.seq
      OBVIOUS
    <3>6. a = m /\ b = m - 1
      BY <1>2, <1>4, <1>12, <1>14, <2>2, <3>1, <3>2, <3>4, <3>5
    <3> QED BY <1>2, <3>5, <3>6
  <2>3. CASE k = 1 /\ (i = l + 1 \/ i = l + 2)
    <3>1. i = l + 1 \/ i - 1 = l + 1
      BY <1>4, <2>3
    <3> QED BY <1>2, <1>11, <2>3, <3>1
  <2>4. CASE i > l + k + 1
    <3>1. i \in l + k + 1 .. l + k + n /\ i - 1 \in l + k + 1 .. l + k + n
      BY <1>4, <2>4
    <3>2. PICK a, b : a = out'[i].rec.seq /\ b = out'[i - 1].rec.seq
      OBVIOUS
    <3>3. a = first + (i - l - k) - 1 /\ b = first + ((i - 1) - l - k) - 1
      BY <1>9, <3>1, <3>2
    <3>4. a = b + 1
      BY <1>4, <3>1, <3>3
    <3> QED BY <3>2, <3>4
  <2> QED BY <1>4, <1>10, <2>1, <2>2, <2>3, <2>4
<1>16. GapsMarked'
  <2> SUFFICES ASSUME NEW i \in 3 .. l + k + n, out'[i].lost = 0, out'[i - 1].lost > 0
               PROVE  /\ out'[i - 2].lost = 0
                      /\ out'[i].rec.seq = out'[i - 2].rec.seq + 1 + out'[i - 1].lost
    BY <1>6 DEF GapsMarked
  <2>1. CASE i <= l
    <3>1. i \in 1 .. l /\ i - 1 \in 1 .. l /\ i - 2 \in 1 .. l /\ i \in 3 .. l
      BY <1>4, <2>1
    <3>2. out'[i] = out[i] /\ out'[i - 1] = out[i - 1] /\ out'[i - 2] = out[i - 2]
      BY <1>6, <3>1
    <3>3. out[i].lost = 0 /\ out[i - 1].lost > 0
      BY <3>2
    <3> QED BY <1>1, <1>3, <3>1, <3>2, <3>3 DEF GapsMarked
  <2>2. CASE i = l + 1 /\ k = 0
    <3>1. i - 1 = l /\ l \in 1 .. l /\ l > 0
      BY <1>4, <2>2
    <3>2. out'[i - 1] = out[l] /\ out[l].lost = 0
      BY <1>6, <1>14, <3>1
    <3> QED BY <3>2
  <2>3. CASE i = l + 1 /\ k = 1
    BY <1>2, <1>11, <2>3
  <2>4. CASE i = l + 2 /\ k = 1
    <3>1. i - 1 = l + 1 /\ i - 2 = l /\ l \in 1 .. l /\ l > 0
      BY <1>4, <2>4
    <3>2. out'[i - 2] = out[l] /\ out[l].lost = 0 /\ out[l].rec.seq = m - 1
      BY <1>6, <1>14, <3>1
    <3>3. i \in l + k + 1 .. l + k + n
      BY <1>4, <2>4
    <3>4. PICK a, b, d : a = out'[i].rec.seq /\ b = out'[i - 2].rec.seq /\ d = out'[i - 1].lost
      OBVIOUS
    <3>5. a = first + (i - l - k) - 1 /\ b = m - 1 /\ d = first - m
      BY <1>9, <1>11, <2>4, <3>1, <3>2, <3>3, <3>4
    <3>6. a = b + 1 + d
      BY <1>2, <1>4, <2>4, <3>5
    <3> QED BY <3>2, <3>4, <3>6
  <2>5. CASE i > l + k + 1
    <3>1. i - 1 \in l + k + 1 .. l + k + n
      BY <1>4, <2>5
    <3>2. out'[i - 1].lost = 0
      BY <1>9, <3>1
    <3> QED BY <3>2
  <2> QED BY <1>4, <1>10, <2>1, <2>2, <2>3, <2>4, <2>5
<1>17. NoneMissed'
  <2> SUFFICES ASSUME NEW s \in 1 .. after - 1, s < end, s >= Oldest, TimeOf(s)' > st'.arg
               PROVE  \E i \in 1 .. l + k + n : out'[i].lost = 0 /\ out'[i].rec.seq = s
    BY <1>6, <1>7, <1>8 DEF NoneMissed, TimeOf
  <2>1. TimeOf(s) > st.arg
    BY <1>6, <1>8
  <2>2. CASE s < m
    <3>1. s \in 1 .. dl.next - 1 /\ s < dl.end
      BY <1>1, <1>2, <2>2
    <3>2. PICK i \in 1 .. l : out[i].lost = 0 /\ out[i].rec.seq = s
      BY <1>1, <1>3, <2>1, <3>1 DEF NoneMissed
    <3>3. i \in 1 .. l + k + n
      BY <1>4, <3>2
    <3>4. out'[i] = out[i]
      BY <1>6, <3>2
    <3>5. out'[i].lost = 0 /\ out'[i].rec.seq = s
      BY <3>2, <3>4
    <3> QED BY <3>3, <3>5
  <2>3. CASE ~(s < m)
    <3>1. PICK i : i = l + k + (s - first) + 1
      OBVIOUS
    <3>2. s >= first /\ s < first + n
      <4>1. PICK o : o = Oldest
        OBVIOUS
      <4>2. s >= o /\ o \in 1 .. seq /\ (first = m \/ first = o)
        BY <1>5, <1>6, <4>1
      <4>3. s >= first
        BY <1>2, <2>3, <4>2
      <4>4. s < after /\ s < end
        OBVIOUS
      <4>5. /\ (n = 0 /\ first >= end) \/ n > 0
            /\ first + n = after \/ first + n = end \/ n = 0
        BY <1>6
      <4>6. n > 0
        BY <1>2, <4>3, <4>4, <4>5
      <4>7. s < first + n
        BY <4>4, <4>5, <4>6
      <4> QED BY <4>3, <4>7
    <3>3. i \in l + k + 1 .. l + k + n /\ i \in 1 .. l + k + n /\ first + (i - l - k) - 1 = s
      BY <1>4, <3>1, <3>2
    <3> QED BY <1>9, <3>3
  <2> QED BY <1>2, <2>2, <2>3
<1>18. LastBeforeNext'
  <2> SUFFICES ASSUME after < end
               PROVE  out'[l + k + n].lost = 0 /\ out'[l + k + n].rec.seq = after - 1
    BY <1>6, <1>7 DEF LastBeforeNext
  <2>1. n > 0 /\ first + n = after
    BY <1>2, <1>6
  <2>2. PICK i : i = l + k + n
    OBVIOUS
  <2>3. i \in l + k + 1 .. l + k + n /\ first + (i - l - k) - 1 = after - 1
    BY <1>4, <2>1, <2>2
  <2> QED BY <1>9, <2>2, <2>3
<1>19. LeadMarked'
  <2>1. l = 0 => m = dl.from
    BY <1>1, <1>3 DEF LeadMarked
  <2>2. k = 1 \/ n > 0
    BY <1>2, <1>6
  <2>3. l + k + n # 0
    BY <1>4, <1>10, <2>2
  <2>4. ASSUME NEW i \in 1 .. l + k + n, i = 1, out'[i].lost = 0
        PROVE  out'[i].rec.seq = dl.from
    <3>1. CASE l > 0
      <4>1. i \in 1 .. l /\ out'[i] = out[i]
        BY <1>4, <1>6, <2>4, <3>1
      <4>2. out[i].lost = 0
        BY <2>4, <4>1
      <4> QED BY <1>1, <1>3, <2>4, <4>1, <4>2 DEF LeadMarked
    <3>2. CASE l = 0 /\ k = 1
      BY <1>2, <1>11, <2>4, <3>2
    <3>3. CASE l = 0 /\ k = 0
      <4>1. i \in l + k + 1 .. l + k + n
        BY <2>4, <3>3
      <4>2. out'[i].rec.seq = first + (i - l - k) - 1
        BY <1>9, <4>1
      <4> QED BY <1>2, <1>12, <2>1, <2>4, <3>3, <4>2
    <3> QED BY <1>4, <1>10, <3>1, <3>2, <3>3
  <2>5. ASSUME NEW i \in 1 .. l + k + n, i = 2, out'[i].lost = 0, out'[i - 1].lost > 0
        PROVE  out'[i].rec.seq = dl.from + out'[i - 1].lost
    <3>1. CASE l > 1
      <4>1. i \in 1 .. l /\ i - 1 \in 1 .. l
        BY <1>4, <2>5, <3>1
      <4>2. out'[i] = out[i] /\ out'[i - 1] = out[i - 1]
        BY <1>6, <4>1
      <4>3. out[i].lost = 0 /\ out[i - 1].lost > 0
        BY <2>5, <4>2
      <4> QED BY <1>1, <1>3, <2>5, <4>1, <4>2, <4>3 DEF LeadMarked
    <3>2. CASE l = 1
      <4>1. l \in 1 .. l /\ i - 1 = l
        BY <2>5, <3>2
      <4>2. out'[i - 1] = out[l] /\ out[l].lost = 0
        BY <1>6, <1>14, <3>2, <4>1
      <4> QED BY <2>5, <4>2
    <3>3. CASE l = 0 /\ k = 0
      <4>1. i - 1 \in l + k + 1 .. l + k + n
        BY <2>5, <3>3
      <4>2. out'[i - 1].lost = 0
        BY <1>9, <4>1
      <4> QED BY <2>5, <4>2
    <3>4. CASE l = 0 /\ k = 1
      <4>1. i \in l + k + 1 .. l + k + n /\ i - 1 = l + 1
        BY <2>5, <3>4
      <4>2. PICK a, d : a = out'[i].rec.seq /\ d = out'[i - 1].lost
        OBVIOUS
      <4>3. a = first + (i - l - k) - 1 /\ d = first - m
        BY <1>9, <1>11, <3>4, <4>1, <4>2
      <4>4. a = m + d
        BY <1>2, <2>5, <3>4, <4>3
      <4> QED BY <2>1, <3>4, <4>2, <4>4
    <3> QED BY <1>4, <1>10, <3>1, <3>2, <3>3, <3>4
  <2> QED BY <1>6, <1>7, <2>3, <2>4, <2>5 DEF LeadMarked
<1> QED BY <1>6, <1>13, <1>15, <1>16, <1>17, <1>18, <1>19 DEF TextSent

LEMMA StepKeepsText ==
    ASSUME MaxTime < EPOCHS * WRAP, IInv, EInv, DInv, SearchKnows, TextSent,
           [DownloadNext]_allVars
    PROVE  TextSent'
<1>0. [Next]_vars
  BY IsRecorderStep
<1>1. CASE RecorderStep \/ UNCHANGED allVars
  <2>1. UNCHANGED <<st, dl, out>>
    BY <1>1 DEF RecorderStep, webVars, allVars
  <2> QED BY <1>0, <2>1, QuietKeepsText
<1>2. CASE (\E since \in Sinces : RawRequest(since)) \/ (\E window \in Windows : TextRequest(window))
  <2>1. UNCHANGED <<dl, out>> /\ ~Text
    BY <1>2 DEF RawRequest, TextRequest, Request, Allowed, Text
  <2> QED BY <1>0, <2>1, QuietKeepsText
<1>3. CASE \E max \in Maxes : RawHeader(max)
  BY <1>3 DEF RawHeader, Start, TextSent, Text
<1>4. CASE SearchBegin \/ SearchTurn
  <2>1. UNCHANGED <<st, dl, out>>
    BY <1>4 DEF SearchBegin, SearchTurn
  <2> QED BY <1>0, <2>1, QuietKeepsText
<1>5. CASE TextStart
  BY <1>5, StartMissesNone
<1>6. CASE Pump
  <2>1. PICK want \in Want : FillRaw(want) \/ FillText(want)
    BY <1>6 DEF Pump
  <2>2. CASE FillRaw(want)
    <3>1. dl.mode = "raw" /\ dl'.mode = dl.mode
      BY <2>2 DEF FillRaw, DInv, DlTypes
    <3> QED BY <3>1 DEF TextSent, Text
  <2>3. CASE FillText(want)
    <3>1. PICK first, after, k, n \in Nat : Chunk(first, after, k, n)
      BY <1>6, <2>3, ChunkStands
    <3>2. Text /\ dl.next < dl.end
      BY <1>6, <2>3 DEF FillText, Text, Pump
    <3> QED BY <3>1, <3>2, ChunkKeepsText
  <2> QED BY <2>1, <2>2, <2>3
<1>7. CASE DownloadEnd
  BY <1>7 DEF DownloadEnd, Idle, TextSent, Text
<1> QED
  BY <1>1, <1>2, <1>3, <1>4, <1>5, <1>6, <1>7 DEF DownloadNext

\* What the runs check of it.
LEMMA SentTrue == ASSUME TextSent PROVE TextTrue
<1> SUFFICES ASSUME Text PROVE TextTrue
  BY DEF TextTrue
<1>1. /\ out \in Seq(LineType \cup LostType)
      /\ LinesTrue /\ LinesAdjacent /\ GapsMarked /\ LeadMarked /\ NoneMissed
  BY DEF TextSent
<1>2. Len(out) \in Nat
  BY <1>1, LenProperties
<1>3. ASSUME NEW i \in 1 .. Len(out), i > 1, out[i].lost = 0, out[i - 1].lost = 0
      PROVE  out[i].rec.seq = out[i - 1].rec.seq + 1
  <2>1. i \in 2 .. Len(out)
    BY <1>2, <1>3
  <2> QED BY <1>1, <1>3, <2>1 DEF LinesAdjacent
<1>4. ASSUME NEW i \in 1 .. Len(out), i > 2, out[i].lost = 0, out[i - 1].lost > 0
      PROVE  out[i].rec.seq = out[i - 2].rec.seq + 1 + out[i - 1].lost
  <2>1. i \in 3 .. Len(out)
    BY <1>2, <1>4
  <2> QED BY <1>1, <1>4, <2>1 DEF GapsMarked
<1> QED BY <1>1, <1>3, <1>4 DEF TextTrue, LinesTrue, LeadMarked, NoneMissed

TInv == SearchKnows /\ TextSent

LEMMA DownloadInvariant ==
    ASSUME MaxTime < EPOCHS * WRAP
    PROVE  DownloadSpec => [](IInv /\ DInv /\ EInv /\ TInv)
<1>1. DownloadInit => IInv /\ DInv /\ EInv /\ TInv
  BY InitDownload, InitEpochs DEF DownloadInit, Idle, TInv, SearchKnows, TextSent, Text
<1>2. (IInv /\ DInv /\ EInv /\ TInv) /\ [DownloadNext]_allVars => (IInv /\ DInv /\ EInv /\ TInv)'
  <2> SUFFICES ASSUME IInv, DInv, EInv, TInv, [DownloadNext]_allVars
               PROVE  IInv' /\ DInv' /\ EInv' /\ TInv'
    OBVIOUS
  <2>1. [Next]_vars
    BY IsRecorderStep
  <2>2. IInv' /\ EInv'
    BY <2>1, StepKeeps, EpochsStep
  <2>3. DInv'
    BY DownloadStep
  <2>4. SearchKnows' /\ TextSent'
    BY StepKeepsSearch, StepKeepsText DEF TInv
  <2> QED BY <2>2, <2>3, <2>4 DEF TInv
<1> QED BY <1>1, <1>2, PTL DEF DownloadSpec

\* Whatever is overwritten while seqAt() searches, what it finds is at or before its time,
\* and of the records it began with it misses none at or before but at most the oldest.
THEOREM SearchIsExact ==
    ASSUME MaxTime < EPOCHS * WRAP
    PROVE  DownloadSpec => []SearchExact
<1>1. IInv /\ DInv /\ EInv /\ TInv => SearchExact
  BY KnowsExact DEF TInv
<1> QED BY <1>1, DownloadInvariant, PTL

\* A text download's lines are records as stored, with their times, in order; every gap
\* is marked with the number lost, and no record of its window that is held is missed,
\* whatever was overwritten while seqAt() searched and the page was sent.
THEOREM TextIsTrue ==
    ASSUME MaxTime < EPOCHS * WRAP
    PROVE  DownloadSpec => []TextTrue
<1>1. IInv /\ DInv /\ EInv /\ TInv => TextTrue
  BY SentTrue DEF TInv
<1> QED BY <1>1, DownloadInvariant, PTL

-------------------------------------------------------------------------------
(* The times the decoder gives a raw file's records.  An EVENT follows the *)
(* record before it by less than the clock's low half, since while nothing *)
(* is frozen TIME records come often enough and after a freeze ARM is the  *)
(* first; the header has the time of the record the file begins with.      *)

Anchored ==
    /\ lastTime <= now
    /\ frozen = "no" => log[seq].at >= lastTime /\ now - log[seq].at <= TIME_EVERY + LateBy
    /\ \A s \in 1 .. seq : log[s].kind = "BOOT" => log[s].at = 0
    /\ \A s \in 2 .. seq : log[s].kind = "EVENT" => log[s].at - log[s - 1].at < WRAP

HeaderTells ==
    Raw /\ dl.first < dl.end => dl.first \in Nat \ {0} /\ dl.firstUs = TimeOf(dl.first)

LEMMA Often ==
    /\ TIME_EVERY \in Nat /\ LateBy \in Nat /\ TIME_EVERY + LateBy < WRAP /\ TIME_EVERY > 0
BY RecorderAssumption

\* What a step does to the records and to the clock, as far as Anchored tells.
StoresNone ==
    /\ UNCHANGED <<seq, log>> /\ lastTime <= lastTime' /\ lastTime' <= now'
    /\ frozen' = "no" => /\ frozen = "no" /\ lastTime' = lastTime
                         /\ now' = now \/ now' - lastTime <= TIME_EVERY + LateBy
StoresAt(kind) ==
    /\ seq' = seq + 1 /\ log'[seq + 1].at = now /\ log'[seq + 1].kind = kind
    /\ \A s \in 1 .. seq : log'[s] = log[s]
    /\ now' \in {now, now + 1} /\ lastTime' \in {lastTime, now}
    /\ kind # "BOOT" /\ (kind = "EVENT" => frozen = "no")

LEMMA StoresNow ==
    ASSUME IInv, NEW kind \in Kinds \ {"BOOT"}, NEW arg \in Args, NEW called, Write(kind, arg, called),
           now' \in {now, now + 1}, lastTime' \in {lastTime, now}, kind = "EVENT" => frozen = "no"
    PROVE  StoresAt(kind)
<1>1. now \in Nat /\ now' \in Nat /\ RingOK
  BY DEF IInv, RingOK
<1>2. /\ seq' = seq + 1 /\ \A s \in 1 .. seq : log'[s] = log[s]
      /\ log'[seq + 1] = [at |-> now, kind |-> kind, arg |-> arg]
  BY <1>1, WriteDoes
<1> QED BY <1>2 DEF StoresAt

LEMMA TriggerStores ==
    ASSUME IInv, Anchored, NEW t \in Triggers \cup {"manual"}, Trigger(t)
    PROVE  StoresNone \/ \E kind \in Kinds : StoresAt(kind)
<1>0. now \in Nat /\ lastTime \in Nat /\ lastTime <= now
  BY DEF IInv, RingOK, ControlOK, Anchored
<1>1. lastTime' = lastTime
  BY DEF Trigger, loopVars
<1>2. CASE TriggerRefused(t)
  <2>1. UNCHANGED <<now, ringVars>> /\ frozen' = "yes"
    BY <1>2 DEF TriggerRefused
  <2> QED BY <1>0, <1>1, <2>1 DEF StoresNone, ringVars
<1>3. CASE TriggerStored(t)
  <2>1. Write("FREEZE", t, now) /\ now' \in {now, now + 1}
    BY <1>3 DEF TriggerStored
  <2>2. StoresAt("FREEZE")
    BY <1>1, <2>1, StoresNow DEF Kinds, Args
  <2> QED BY <2>2 DEF Kinds
<1> QED BY <1>2, <1>3 DEF Trigger

LEMMA StoresOrNot ==
    ASSUME IInv, Anchored, [Next]_vars
    PROVE  StoresNone \/ \E kind \in Kinds : StoresAt(kind)
<1>0. /\ now \in Nat /\ lastTime \in Nat /\ lastTime <= now /\ frozen \in {"yes", "no"}
      /\ {"EVENT", "ARM", "TIME"} \subseteq Kinds \ {"BOOT"} /\ "none" \in Args
  BY DEF IInv, RingOK, ControlOK, Anchored, Kinds, Args
<1>1. CASE UNCHANGED <<now, ringVars, lastTime>> /\ (frozen' = "no" => frozen = "no")
  BY <1>0, <1>1 DEF StoresNone, ringVars
<1>2. ASSUME NEW k \in Tasks, PutCall(k) PROVE StoresNone
  BY <1>1, <1>2, <1>0 DEF PutCall, freezeVars, loopVars, StoresNone, ringVars
<1>3. ASSUME NEW k \in Tasks, PutStore(k) PROVE StoresNone \/ \E kind \in Kinds : StoresAt(kind)
  <2>1. now' = now /\ lastTime' = lastTime
    BY <1>3 DEF PutStore, loopVars
  <2>2. CASE Stopped /\ frozen' = "yes" /\ UNCHANGED ringVars
    BY <1>0, <2>1, <2>2 DEF StoresNone, ringVars
  <2>3. CASE ~Stopped /\ Write("EVENT", "none", putting[k].at)
    <3>1. frozen = "no"
      BY <1>0, <2>3 DEF Stopped
    <3>2. StoresAt("EVENT")
      BY <1>0, <2>1, <2>3, <3>1, StoresNow
    <3> QED BY <1>0, <3>2
  <2> QED BY <1>3, <2>2, <2>3 DEF PutStore
<1>4. ASSUME NEW t \in Triggers \cup {"manual"}, Trigger(t)
      PROVE  StoresNone \/ \E kind \in Kinds : StoresAt(kind)
  BY <1>4, TriggerStores
<1>5. CASE Arm
  <2>1. Write("ARM", "none", now) /\ now' = now /\ lastTime' = lastTime
    BY <1>5 DEF Arm, loopVars
  <2>2. StoresAt("ARM")
    BY <1>0, <2>1, StoresNow
  <2> QED BY <1>0, <2>2
<1>6. CASE TickTime
  <2>1. now' = now
    BY <1>6 DEF TickTime
  <2>2. CASE TimeDue /\ lastTime' = now /\ frozen' = "yes" /\ UNCHANGED ringVars
    BY <1>0, <2>1, <2>2 DEF StoresNone, ringVars
  <2>3. CASE TimeDue /\ lastTime' = now /\ Write("TIME", "none", now)
    <3>1. StoresAt("TIME")
      BY <1>0, <2>1, <2>3, StoresNow
    <3> QED BY <1>0, <3>1
  <2>4. CASE ~TimeDue /\ UNCHANGED <<lastTime, frozen, ringVars>>
    BY <1>1, <2>1, <2>4
  <2> QED BY <1>6, <2>2, <2>3, <2>4 DEF TickTime
<1>7. CASE TickSecond
  <2>1. UNCHANGED <<now, ringVars, lastTime>> /\ (frozen' = frozen \/ frozen' = FrozenByTick)
    BY <1>7 DEF TickSecond
  <2> QED BY <1>0, <1>1, <2>1 DEF FrozenByTick
<1>8. CASE TimePasses
  <2>1. /\ now' = now + 1 /\ now - lastTime < TIME_EVERY + LateBy
        /\ UNCHANGED <<seq, log, frozen, lastTime>>
    BY <1>8 DEF TimePasses, ringVars, freezeVars, loopVars
  <2> QED BY <1>0, <2>1, Often DEF StoresNone
<1>9. CASE UNCHANGED vars
  BY <1>1, <1>9 DEF vars, freezeVars, loopVars
<1> QED BY <1>2, <1>3, <1>4, <1>5, <1>6, <1>7, <1>8, <1>9
        DEF Next, AnyTask, LoopTask, FreezeNow

LEMMA AnchoredStep == ASSUME IInv, Anchored, [Next]_vars PROVE Anchored'
<1>0. /\ now \in Nat /\ lastTime \in Nat /\ lastTime <= now /\ seq \in Nat /\ seq > 0
      /\ \A s \in 1 .. seq : log[s].at \in Nat /\ log[s].at <= now
  BY EntryAt DEF IInv, RingOK, ControlOK, StoredBefore, Anchored
<1>1. now' \in Nat /\ lastTime' \in Nat
  BY StoresOne, StepKinds DEF IInv
<1>2. CASE StoresNone
  <2>1. seq' = seq /\ log' = log /\ lastTime' <= now'
    BY <1>2 DEF StoresNone
  <2>2. ASSUME frozen' = "no"
        PROVE  log[seq].at >= lastTime' /\ now' - log[seq].at <= TIME_EVERY + LateBy
    <3>1. /\ frozen = "no" /\ lastTime' = lastTime
          /\ now' = now \/ now' - lastTime <= TIME_EVERY + LateBy
      BY <1>2, <2>2 DEF StoresNone
    <3>2. PICK at : at = log[seq].at
      OBVIOUS
    <3>3. at \in Nat /\ at >= lastTime /\ now - at <= TIME_EVERY + LateBy
      BY <1>0, <3>1, <3>2 DEF Anchored
    <3> QED BY <1>0, <1>1, <3>1, <3>2, <3>3, Often
  <2> QED BY <2>1, <2>2 DEF Anchored
<1>3. ASSUME NEW kind \in Kinds, StoresAt(kind) PROVE Anchored'
  <2>1. /\ seq' = seq + 1 /\ log'[seq + 1].at = now /\ log'[seq + 1].kind = kind
        /\ \A s \in 1 .. seq : log'[s] = log[s]
        /\ now' \in {now, now + 1} /\ lastTime' \in {lastTime, now}
        /\ kind # "BOOT" /\ (kind = "EVENT" => frozen = "no")
    BY <1>3 DEF StoresAt
  <2>2. lastTime' <= now'
    BY <1>0, <2>1
  <2>3. log'[seq'].at >= lastTime' /\ now' - log'[seq'].at <= TIME_EVERY + LateBy
    <3>1. log'[seq'].at = now
      BY <2>1
    <3>2. now >= lastTime'
      <4>1. lastTime' = lastTime \/ lastTime' = now
        BY <2>1
      <4> QED BY <1>0, <4>1
    <3>3. now' - now <= TIME_EVERY + LateBy
      <4>1. now' = now \/ now' = now + 1
        BY <2>1
      <4> QED BY <1>0, <4>1, Often
    <3> QED BY <3>1, <3>2, <3>3
  <2>4. ASSUME NEW s \in 1 .. seq', log'[s].kind = "BOOT" PROVE log'[s].at = 0
    <3>1. s \in 1 .. seq
      BY <1>0, <2>1, <2>4
    <3> QED BY <2>1, <2>4, <3>1 DEF Anchored
  <2>5. ASSUME NEW s \in 2 .. seq', log'[s].kind = "EVENT" PROVE log'[s].at - log'[s - 1].at < WRAP
    <3>1. CASE s = seq + 1
      <4>1. frozen = "no" /\ s - 1 = seq
        BY <1>0, <2>1, <2>5, <3>1
      <4>2. PICK at : at = log[seq].at
        OBVIOUS
      <4>3. at \in Nat /\ now - at <= TIME_EVERY + LateBy
        BY <1>0, <4>1, <4>2 DEF Anchored
      <4>4. log'[s - 1] = log[seq] /\ log'[s].at = now
        BY <1>0, <2>1, <3>1, <4>1
      <4> QED BY <1>0, <4>2, <4>3, <4>4, Often, Constants
    <3>2. CASE s # seq + 1
      <4>1. s \in 2 .. seq /\ s \in 1 .. seq /\ s - 1 \in 1 .. seq
        BY <1>0, <2>1, <3>2
      <4>2. log'[s] = log[s] /\ log'[s - 1] = log[s - 1]
        BY <2>1, <4>1
      <4> QED BY <2>5, <4>1, <4>2 DEF Anchored
    <3> QED BY <3>1, <3>2
  <2> QED BY <2>2, <2>3, <2>4, <2>5 DEF Anchored
<1> QED BY <1>2, <1>3, StoresOrNot

LEMMA AnchoredInit == Init => Anchored
<1> SUFFICES ASSUME Init PROVE Anchored
  OBVIOUS
<1>1. /\ seq = 2 /\ now = 0 /\ lastTime = 0
      /\ log = <<[at |-> 0, kind |-> "BOOT", arg |-> "none"],
                 [at |-> 0, kind |-> "TIME", arg |-> "none"]>>
  BY DEF Init
<1>2. log[1].at = 0 /\ log[2].at = 0 /\ log[1].kind = "BOOT" /\ log[2].kind = "TIME"
  BY <1>1
<1>3. \A s \in 1 .. seq : s = 1 \/ s = 2
  BY <1>1
<1>4. \A s \in 1 .. seq : log[s].at = 0
  BY <1>2, <1>3
<1>5. \A s \in 2 .. seq : s = 2
  BY <1>1
<1> QED BY <1>1, <1>2, <1>4, <1>5, Often DEF Anchored

LEMMA HeaderStays ==
    ASSUME IInv, DInv, HeaderTells, [Next]_vars, dl'.mode = dl.mode, dl'.first = dl.first,
           dl'.end = dl.end, dl'.firstUs = dl.firstUs
    PROVE  HeaderTells'
<1> SUFFICES ASSUME Raw, dl.first < dl.end PROVE HeaderTells'
  BY DEF HeaderTells, Raw
<1>1. PICK s, e : s = dl.first /\ e = dl.end
  OBVIOUS
<1>2. s \in Nat /\ s > 0 /\ e \in Nat /\ s < e /\ e <= seq + 1 /\ dl.firstUs = TimeOf(s)
  BY <1>1 DEF HeaderTells, DInv, DlTypes, Looked
<1>3. /\ seq \in Nat
      /\ \A r \in 1 .. seq : TimeOf(r)' = TimeOf(r)
  BY LogGrows DEF TimeOf
<1>4. TimeOf(s)' = TimeOf(s)
  BY <1>2, <1>3
<1>5. TimeOf(dl.first)' = TimeOf(s)'
  BY <1>1 DEF TimeOf
<1> QED BY <1>1, <1>2, <1>4, <1>5 DEF HeaderTells

\* The record the header is about is copied, wherever the ring has moved to.
LEMMA HeaderRead ==
    ASSUME MaxTime < EPOCHS * WRAP, IInv, EInv, DInv, NEW max \in Maxes, RawHeader(max)
    PROVE  HeaderTells'
<1>1. st \in [oldest : Nat, seq : Nat, arg : Nat] /\ st.seq <= seq /\ UNCHANGED vars
  BY DEF RawHeader, DInv, WebTypes, Looked
<1>2. seq \in Nat /\ Oldest \in 1 .. seq /\ max \in Nat
  BY OldestHeld, DownloadAssumption
<1>3. PICK from0 : from0 = AtMost(AtLeast(st.arg, st.oldest), st.seq + 1)
  OBVIOUS
<1>4. PICK end : end = AtMost(st.seq + 1, from0 + max)
  OBVIOUS
<1>5. PICK from : from = IF from0 < end THEN ReadNext(from0, 1) - 1 ELSE from0
  OBVIOUS
<1>6. dl'.first = from /\ dl'.end = end
      /\ dl'.firstUs = IF from0 < end THEN FullTime(from) ELSE 0
  BY <1>3, <1>4, <1>5 DEF RawHeader, Start
<1>7. from0 \in Nat /\ end \in Nat /\ end <= seq + 1
  <2>1. PICK a, b, c : a = st.arg /\ b = st.oldest /\ c = st.seq
    OBVIOUS
  <2>2. a \in Nat /\ b \in Nat /\ c \in Nat /\ c <= seq
    BY <1>1, <2>1
  <2>3. AtLeast(a, b) \in Nat
    BY <2>2 DEF AtLeast
  <2>4. from0 \in Nat
    BY <1>3, <2>1, <2>2, <2>3 DEF AtMost
  <2>5. end = AtMost(c + 1, from0 + max)
    BY <1>4, <2>1
  <2> QED BY <1>2, <2>2, <2>4, <2>5 DEF AtMost
<1>8. CASE from0 < end
  <2>1. from0 <= seq
    BY <1>2, <1>7, <1>8
  <2>2. PICK a, b : a = ReadStart(from0) /\ b = ReadNext(from0, 1)
    OBVIOUS
  <2>3. a \in Nat /\ a >= Oldest /\ b \in Nat /\ b <= seq + 1 /\ b > a /\ b <= a + 1
    BY <1>7, <2>1, <2>2, ReadBounds
  <2>4. from = b - 1
    BY <1>5, <1>8, <2>2
  <2>5. from \in Oldest .. seq /\ from \in Nat \ {0}
    BY <1>2, <2>3, <2>4
  <2>6. dl'.firstUs = TimeOf(from)
    BY <1>6, <1>8, <2>5, AllRemembered
  <2>7. TimeOf(dl.first)' = TimeOf(from)
    BY <1>1, <1>6 DEF TimeOf, vars, ringVars
  <2> QED BY <1>6, <2>5, <2>6, <2>7 DEF HeaderTells
<1>9. CASE ~(from0 < end)
  BY <1>5, <1>6, <1>9 DEF HeaderTells
<1> QED BY <1>8, <1>9

LEMMA HeaderStep ==
    ASSUME MaxTime < EPOCHS * WRAP, IInv, EInv, DInv, HeaderTells, [DownloadNext]_allVars
    PROVE  HeaderTells'
<1>0. [Next]_vars
  BY IsRecorderStep
<1>1. CASE dl' = dl
  BY <1>0, <1>1, HeaderStays
<1>2. CASE RecorderStep \/ UNCHANGED allVars
  BY <1>1, <1>2 DEF RecorderStep, webVars, allVars
<1>3. CASE \/ \E since \in Sinces : RawRequest(since)
           \/ \E window \in Windows : TextRequest(window)
           \/ SearchBegin \/ SearchTurn
  BY <1>1, <1>3 DEF RawRequest, TextRequest, SearchBegin, SearchTurn
<1>4. ASSUME NEW max \in Maxes, RawHeader(max) PROVE HeaderTells'
  BY <1>4, HeaderRead
<1>5. CASE TextStart
  BY <1>5 DEF TextStart, Start, HeaderTells, Raw
<1>6. CASE Pump
  <2>1. PICK want \in Want : FillRaw(want) \/ FillText(want)
    BY <1>6 DEF Pump
  <2>2. \E after : dl' = [dl EXCEPT !.next = after]
    BY <2>1 DEF FillRaw, FillText
  <2>3. dl'.mode = dl.mode /\ dl'.first = dl.first /\ dl'.end = dl.end /\ dl'.firstUs = dl.firstUs
    BY <2>2 DEF DInv, DlTypes
  <2> QED BY <1>0, <2>3, HeaderStays
<1>7. CASE DownloadEnd
  BY <1>7 DEF DownloadEnd, Idle, HeaderTells, Raw
<1> QED
  BY <1>2, <1>3, <1>4, <1>5, <1>6, <1>7 DEF DownloadNext

-------------------------------------------------------------------------------
(* The decoder's recursion.  What holds of it is proved by the least       *)
(* number at which it would not.                                           *)

LEMMA LeastOf ==
    ASSUME NEW T, T \subseteq Nat, T # {}
    PROVE  \E x \in T : \A y \in T : x <= y
<1>1. PICK x \in T : \A y \in T : <<y, x>> \notin OpToRel(<, Nat)
  BY WFMin, NatLessThanWellFounded
<1>2. \A a, b \in Nat : <<a, b>> \in OpToRel(<, Nat) <=> a < b
  BY DEF OpToRel
<1>3. \A y \in T : ~(y < x)
  BY <1>1, <1>2
<1> QED BY <1>3

HighsTo(n) ==
    \E f : f = [i \in 0 .. n |-> IF i = 0 THEN dl.firstUs \div WRAP ELSE HighAfter(f[i - 1], i)]

LEMMA HighsOfNone == HighsTo(0)
<1>1. PICK f : f = [i \in 0 .. 0 |-> dl.firstUs \div WRAP]
  OBVIOUS
<1>2. f = [i \in 0 .. 0 |-> IF i = 0 THEN dl.firstUs \div WRAP ELSE HighAfter(f[i - 1], i)]
  BY <1>1
<1> QED BY <1>2 DEF HighsTo

LEMMA HighsOfNext == ASSUME NEW n \in Nat, HighsTo(n) PROVE HighsTo(n + 1)
<1>1. PICK f : f = [i \in 0 .. n |-> IF i = 0 THEN dl.firstUs \div WRAP ELSE HighAfter(f[i - 1], i)]
  BY DEF HighsTo
<1>2. PICK e : e = [i \in 0 .. n + 1 |-> IF i <= n THEN f[i] ELSE HighAfter(f[n], i)]
  OBVIOUS
<1>3. ASSUME NEW i \in 0 .. n + 1
      PROVE  e[i] = IF i = 0 THEN dl.firstUs \div WRAP ELSE HighAfter(e[i - 1], i)
  <2>1. CASE i = 0
    BY <1>1, <1>2, <2>1
  <2>2. CASE i # 0 /\ i <= n
    <3>1. i \in 0 .. n /\ i - 1 \in 0 .. n + 1 /\ i - 1 <= n
      BY <2>2
    <3>2. e[i] = f[i] /\ e[i - 1] = f[i - 1]
      BY <1>2, <2>2, <3>1
    <3>3. f[i] = HighAfter(f[i - 1], i)
      BY <1>1, <2>2, <3>1
    <3> QED BY <2>2, <3>2, <3>3
  <2>3. CASE i = n + 1
    <3>1. i - 1 = n /\ n \in 0 .. n + 1 /\ ~(i <= n) /\ i # 0
      BY <2>3
    <3>2. e[i] = HighAfter(f[n], i) /\ e[i - 1] = f[n]
      BY <1>2, <3>1
    <3> QED BY <3>1, <3>2
  <2> QED BY <2>1, <2>2, <2>3
<1>4. e = [i \in 0 .. n + 1 |-> IF i = 0 THEN dl.firstUs \div WRAP ELSE HighAfter(e[i - 1], i)]
  BY <1>2, <1>3
<1> QED BY <1>4 DEF HighsTo

LEMMA HighsOfAll == \A n \in Nat : HighsTo(n)
<1> DEFINE T == {n \in Nat : ~HighsTo(n)}
<1> SUFFICES ASSUME T # {} PROVE FALSE
  OBVIOUS
<1>1. PICK x \in T : \A y \in T : x <= y
  BY LeastOf
<1>2. x # 0
  BY HighsOfNone
<1>3. x - 1 \in Nat /\ HighsTo(x - 1)
  BY <1>1, <1>2
<1>4. HighsTo((x - 1) + 1)
  BY <1>3, HighsOfNext
<1> QED BY <1>1, <1>4

LEMMA HighAtIs ==
    ASSUME Len(out) \in Nat
    PROVE  \A i \in 0 .. Len(out) :
              HighAt[i] = IF i = 0 THEN dl.firstUs \div WRAP ELSE HighAfter(HighAt[i - 1], i)
<1>1. \E f : f = [i \in 0 .. Len(out) |->
                    IF i = 0 THEN dl.firstUs \div WRAP ELSE HighAfter(f[i - 1], i)]
  BY HighsOfAll DEF HighsTo
<1>2. HighAt = CHOOSE f : f = [i \in 0 .. Len(out) |->
                    IF i = 0 THEN dl.firstUs \div WRAP ELSE HighAfter(f[i - 1], i)]
  BY DEF HighAt
<1>3. HighAt = [i \in 0 .. Len(out) |->
                    IF i = 0 THEN dl.firstUs \div WRAP ELSE HighAfter(HighAt[i - 1], i)]
  BY <1>1, <1>2
<1> QED BY <1>3

\* A clock's low half that is less than before has wrapped once, if less than one wrap
\* has gone by.
LEMMA WrapsOnce ==
    ASSUME NEW a \in Nat, NEW b \in Nat, NEW w \in Nat, w > 0, a <= b, b - a < w
    PROVE  b \div w = IF (b % w) < (a % w) THEN a \div w + 1 ELSE a \div w
<1>1. PICK q, r, p, s : /\ q = a \div w /\ r = (a % w) /\ p = b \div w /\ s = (b % w)
  OBVIOUS
<1>2. q \in Nat /\ r \in 0 .. w - 1 /\ p \in Nat /\ s \in 0 .. w - 1
  BY <1>1, ModBound
<1>3. a = q * w + r /\ b = p * w + s
  BY <1>1, DivMod
<1>4. q <= p
  BY <1>1, DivMonotonic
<1>5. PICK k \in Nat : p = q + k
  <2>1. p - q \in Nat /\ p = q + (p - q)
    BY <1>2, <1>4
  <2> QED BY <2>1
<1>6. p * w = q * w + k * w
  BY <1>2, <1>5
<1>7. PICK kw, qw : kw = k * w /\ qw = q * w
  OBVIOUS
<1>8. kw \in Nat /\ qw \in Nat
  BY <1>2, <1>7
<1>9. b - a = kw + s - r
  BY <1>2, <1>3, <1>6, <1>7, <1>8
<1>10. k = 0 \/ k = 1
  <2>1. CASE k >= 2
    <3>1. PICK j \in Nat : k = j + 2
      <4>1. k - 2 \in Nat /\ k = (k - 2) + 2
        BY <2>1
      <4> QED BY <4>1
    <3>2. kw = j * w + 2 * w
      BY <1>7, <3>1
    <3>3. PICK jw : jw = j * w
      OBVIOUS
    <3>4. jw \in Nat
      BY <3>3
    <3>5. kw >= 2 * w
      BY <3>2, <3>3, <3>4
    <3> QED BY <1>2, <1>8, <1>9, <3>5
  <2> QED BY <2>1
<1>11. CASE k = 0
  <2>1. kw = 0 /\ p = q
    BY <1>2, <1>5, <1>7, <1>11
  <2>2. ~(s < r)
    BY <1>2, <1>9, <2>1
  <2> QED BY <1>1, <2>1, <2>2
<1>12. CASE k = 1
  <2>1. kw = w /\ p = q + 1
    BY <1>2, <1>5, <1>7, <1>12
  <2>2. s < r
    BY <1>2, <1>9, <2>1
  <2> QED BY <1>1, <2>1, <2>2
<1> QED BY <1>10, <1>11, <1>12

\* What a raw file's record is, told from the log.
LEMMA SentIs ==
    ASSUME IInv, DInv, Raw, NEW i \in 1 .. Len(out), NEW s, s = out[i].seq
    PROVE  /\ s \in 1 .. seq /\ s \in Nat
           /\ log[s].kind \in Kinds /\ log[s].at \in Nat
           /\ out[i].kind = log[s].kind /\ out[i].t = (log[s].at % WRAP)
           /\ log[s].kind \in {"TIME", "ARM", "FREEZE"} => out[i].high = log[s].at \div WRAP
<1>1. out[i] = Stored(s) /\ s \in 1 .. dl.end - 1
  BY DEF DInv, RawSent
<1>2. dl.end \in Nat /\ dl.end <= seq + 1 /\ seq \in Nat
  BY DEF DInv, DlTypes, Looked, IInv, RingOK
<1>3. s \in 1 .. seq
  BY <1>1, <1>2
<1>4. log[s] \in Entry /\ log[s].at \in Nat
  BY <1>3, EntryAt DEF IInv
<1> QED BY <1>1, <1>2, <1>3, <1>4 DEF Entry, Stored, Rec

\* The high half is right at a record the decoder anchors on.
LEMMA HighAnchored ==
    ASSUME IInv, DInv, Anchored, HeaderTells, Raw, NEW i \in 1 .. Len(out), Anchors(i)
    PROVE  HighAt[i] = High(out[i].seq)
<1>0. out \in Seq(RecType) /\ Len(out) \in Nat
  BY LenProperties DEF DInv, RawSent
<1>1. PICK s : s = out[i].seq
  OBVIOUS
<1>2. /\ s \in 1 .. seq /\ s \in Nat
      /\ log[s].kind \in Kinds /\ log[s].at \in Nat
      /\ out[i].kind = log[s].kind /\ out[i].t = (log[s].at % WRAP)
      /\ log[s].kind \in {"TIME", "ARM", "FREEZE"} => out[i].high = log[s].at \div WRAP
  BY <1>1, SentIs
<1>3. HighAt[i] = HighAfter(HighAt[i - 1], i)
  <2>1. i \in 0 .. Len(out) /\ i # 0
    BY <1>0
  <2> QED BY <1>0, <2>1, HighAtIs
<1>4. High(out[i].seq) = log[s].at \div WRAP
  BY <1>1 DEF High, TimeOf
<1>5. CASE log[s].kind \in {"TIME", "ARM", "FREEZE"}
  <2>1. HighAfter(HighAt[i - 1], i) = out[i].high
    BY <1>2, <1>5 DEF HighAfter
  <2> QED BY <1>2, <1>3, <1>4, <1>5, <2>1
<1>6. CASE log[s].kind = "BOOT"
  <2>1. HighAfter(HighAt[i - 1], i) = 0
    BY <1>2, <1>6 DEF HighAfter
  <2>2. log[s].at = 0
    BY <1>2, <1>6 DEF Anchored
  <2>3. 0 \div WRAP = 0
    BY Constants
  <2> QED BY <1>3, <1>4, <2>1, <2>2, <2>3
<1>7. CASE log[s].kind = "EVENT"
  <2>1. i = 1 /\ (s = dl.first \/ dl.firstUs \div WRAP = TimeOf(s) \div WRAP)
    BY <1>1, <1>2, <1>7 DEF Anchors
  <2>2. HighAfter(HighAt[i - 1], i) = HighAt[0]
    BY <1>2, <1>7, <2>1 DEF HighAfter
  <2>3. HighAt[0] = dl.firstUs \div WRAP
    <3>1. 0 \in 0 .. Len(out)
      BY <1>0
    <3> QED BY <1>0, <3>1, HighAtIs
  <2>4. s < dl.end
    <3>1. s \in 1 .. dl.end - 1 /\ dl.end \in Nat
      BY <1>1 DEF DInv, RawSent, DlTypes
    <3> QED BY <3>1
  <2>5. dl.firstUs \div WRAP = log[s].at \div WRAP
    BY <2>1, <2>4 DEF HeaderTells, TimeOf
  <2> QED BY <1>3, <1>4, <2>2, <2>3, <2>5
<1> QED BY <1>2, <1>5, <1>6, <1>7 DEF Kinds

\* It is right at an EVENT if it was at the record before it, the gap between them being
\* short.
LEMMA HighCarried ==
    ASSUME IInv, DInv, Anchored, Raw, NEW i \in 2 .. Len(out), GapShort(i),
           out[i].kind = "EVENT", HighAt[i - 1] = High(out[i - 1].seq)
    PROVE  HighAt[i] = High(out[i].seq)
<1>0. out \in Seq(RecType) /\ Len(out) \in Nat
  BY LenProperties DEF DInv, RawSent
<1>1. PICK s : s = out[i].seq
  OBVIOUS
<1>2. /\ s \in 1 .. seq /\ s \in Nat
      /\ log[s].kind \in Kinds /\ log[s].at \in Nat
      /\ out[i].kind = log[s].kind /\ out[i].t = (log[s].at % WRAP)
      /\ log[s].kind \in {"TIME", "ARM", "FREEZE"} => out[i].high = log[s].at \div WRAP
  <2>1. i \in 1 .. Len(out)
    BY <1>0
  <2> QED BY <1>1, <2>1, SentIs
<1>3. HighAt[i] = HighAfter(HighAt[i - 1], i)
  <2>1. i \in 0 .. Len(out) /\ i # 0
    BY <1>0
  <2> QED BY <1>0, <2>1, HighAtIs
<1>4. High(out[i].seq) = log[s].at \div WRAP
  BY <1>1 DEF High, TimeOf
<1>5. log[s].kind = "EVENT"
  BY <1>2
<1>6. i \in 2 .. Len(out) /\ i - 1 \in 1 .. Len(out)
  BY <1>0
<1>7. PICK p : p = out[i - 1].seq
  OBVIOUS
<1>8. /\ p \in 1 .. seq /\ p \in Nat /\ log[p].at \in Nat
      /\ out[i - 1].t = (log[p].at % WRAP)
  BY <1>6, <1>7, SentIs
<1>9. p < s
  BY <1>1, <1>6, <1>7 DEF DInv, RawSent
<1>10. PICK a, b : a = log[p].at /\ b = log[s].at
  OBVIOUS
<1>11. a \in Nat /\ b \in Nat /\ a <= b
  <2>1. p <= s
    BY <1>2, <1>8, <1>9
  <2>2. log[p].at <= log[s].at
    BY <1>2, <1>8, <2>1 DEF IInv, TimesRise
  <2> QED BY <1>2, <1>8, <1>10, <2>2
<1>12. b - a < WRAP
  <2>1. CASE s = p + 1
    <3>1. s \in 2 .. seq /\ s - 1 = p
      BY <1>2, <1>8, <2>1
    <3> QED BY <1>5, <1>10, <3>1 DEF Anchored
  <2>2. CASE s # p + 1
    BY <1>1, <1>6, <1>7, <1>10, <2>2 DEF GapShort, TimeOf
  <2> QED BY <2>1, <2>2
<1>13. b \div WRAP = IF (b % WRAP) < (a % WRAP) THEN a \div WRAP + 1 ELSE a \div WRAP
  BY <1>11, <1>12, Constants, WrapsOnce
<1>14. HighAt[i - 1] = a \div WRAP
  BY <1>7, <1>10 DEF High, TimeOf
<1>15. PICK u, v : u = out[i].t /\ v = out[i - 1].t
  OBVIOUS
<1>16. u = (b % WRAP) /\ v = (a % WRAP)
  BY <1>2, <1>8, <1>10, <1>15
<1>17. HighAfter(HighAt[i - 1], i) = IF u < v THEN HighAt[i - 1] + 1 ELSE HighAt[i - 1]
  BY <1>2, <1>5, <1>6, <1>15 DEF HighAfter
<1> QED BY <1>3, <1>4, <1>10, <1>13, <1>14, <1>16, <1>17

\* So it is at every record with an anchor before it and no long gap since: the least one
\* at which it is not would be the anchor, or follow one at which it is.
LEMMA HighsDecoded ==
    ASSUME IInv, DInv, Anchored, HeaderTells, Raw, NEW i \in 1 .. Len(out), AnchorBefore(i)
    PROVE  HighAt[i] = High(out[i].seq)
<1>0. out \in Seq(RecType) /\ Len(out) \in Nat
  BY LenProperties DEF DInv, RawSent
<1>1. PICK k \in 1 .. i : Anchors(k) /\ \A j \in k + 1 .. i : GapShort(j)
  BY DEF AnchorBefore
<1> DEFINE T == {j \in k .. i : HighAt[j] # High(out[j].seq)}
<1> SUFFICES ASSUME T # {} PROVE FALSE
  <2>1. i \in k .. i
    BY <1>0, <1>1
  <2> QED BY <2>1
<1>2. T \subseteq Nat
  BY <1>0, <1>1
<1>3. PICK x \in T : \A y \in T : x <= y
  <2> HIDE DEF T
  <2> QED BY <1>2, LeastOf
<1>4. x \in k .. i /\ x \in 1 .. Len(out) /\ HighAt[x] # High(out[x].seq)
  BY <1>0, <1>1, <1>3
<1>5. ~Anchors(x)
  BY <1>4, HighAnchored
<1>6. x \in k + 1 .. i /\ x \in 2 .. Len(out)
  BY <1>0, <1>1, <1>4, <1>5
<1>7. x - 1 \in k .. i /\ x - 1 \notin T
  BY <1>0, <1>1, <1>2, <1>3, <1>6
<1>8. HighAt[x - 1] = High(out[x - 1].seq)
  BY <1>7
<1>9. out[x].kind = "EVENT"
  <2>1. out[x].kind \in Kinds
    <3>1. PICK s : s = out[x].seq
      OBVIOUS
    <3> QED BY <1>4, <3>1, SentIs
  <2> QED BY <1>5, <2>1 DEF Anchors, Kinds
<1>10. GapShort(x)
  BY <1>1, <1>6
<1> QED BY <1>4, <1>6, <1>8, <1>9, <1>10, HighCarried

LEMMA DecodedRight ==
    ASSUME IInv, DInv, Anchored, HeaderTells
    PROVE  TimesDecoded
<1> SUFFICES ASSUME Raw, NEW i \in 1 .. Len(out), AnchorBefore(i)
             PROVE  Decoded[i] = TimeOf(out[i].seq)
  BY DEF TimesDecoded
<1>1. PICK s : s = out[i].seq
  OBVIOUS
<1>2. log[s].at \in Nat /\ out[i].t = (log[s].at % WRAP)
  BY <1>1, SentIs
<1>3. HighAt[i] = log[s].at \div WRAP
  BY <1>1, HighsDecoded DEF High, TimeOf
<1>4. Decoded[i] = HighAt[i] * WRAP + out[i].t
  BY DEF Decoded
<1>5. PICK a : a = log[s].at
  OBVIOUS
<1>6. a = (a \div WRAP) * WRAP + (a % WRAP)
  BY <1>2, <1>5, Constants, DivMod
<1> QED BY <1>1, <1>2, <1>3, <1>4, <1>5, <1>6 DEF TimeOf

\* full_times() gives a record of a raw file the time it was stored at, if an anchor comes
\* before it and no gap between the two is as long as the clock's low half.
THEOREM TimesAreDecoded ==
    ASSUME MaxTime < EPOCHS * WRAP
    PROVE  DownloadSpec => []TimesDecoded
<1>1. DownloadInit => Anchored /\ HeaderTells
  BY AnchoredInit DEF DownloadInit, Idle, HeaderTells, Raw
<1>2. /\ IInv /\ DInv /\ EInv /\ TInv
      /\ Anchored /\ HeaderTells
      /\ [DownloadNext]_allVars
      => Anchored' /\ HeaderTells'
  BY IsRecorderStep, AnchoredStep, HeaderStep
<1>3. IInv /\ DInv /\ Anchored /\ HeaderTells => TimesDecoded
  BY DecodedRight
<1> QED BY <1>1, <1>2, <1>3, DownloadInvariant, PTL DEF DownloadSpec

===============================================================================
