-------------------------------- MODULE Recorder --------------------------------
(***************************************************************************)
(* The flight recorder (src/src/recorder.cpp): a ring of the newest        *)
(* records, written by any task under one spinlock, with the triggers that *)
(* freeze it FREEZE_DELAY later and arm(), which resumes it.  One action   *)
(* is what runs under the lock in one go, so a task's preparation of a     *)
(* record and its storing are two actions.  A record is the code's Rec:    *)
(* its number, the low half of its time, kind, arg, and the high half of   *)
(* the clock in the kinds the decoder anchors on.                          *)
(*                                                                         *)
(* Bounds: MaxSeq records, MaxTime of clock.  The clock's low half has     *)
(* WRAP values (2^32 us in the code).  Status figures (refused, perSec,    *)
(* triggerUs) are left out.                                                *)
(***************************************************************************)
EXTENDS Integers, Sequences

CONSTANTS
    Tasks,          \* that put records, besides the loop task
    Triggers,       \* the rtrig setting: the automatic triggers switched on
    Buttons,        \* of the status page that are pressed: "freeze", "arm"
    Capacity,       \* records in the ring
    WRAP,           \* of the clock's low half
    EPOCHS,         \* high halves remembered
    FREEZE_DELAY,   \* from an automatic trigger to the freeze
    TIME_EVERY,     \* between two TIME records
    SEC,            \* between two looks of tick() at a freeze that is due
    LateBy,         \* how late the loop task may be for a TIME record
    MaxSeq, MaxTime

ASSUME RecorderAssumption ==
    /\ {Capacity, WRAP, EPOCHS, FREEZE_DELAY, TIME_EVERY, SEC} \subseteq Nat \ {0}
    /\ {MaxSeq, MaxTime, LateBy} \subseteq Nat
    /\ "none" \notin Triggers /\ "manual" \notin Triggers
    /\ TIME_EVERY + LateBy < WRAP

VARIABLES
    now,        \* esp_timer_get_time()
    ring, seq,  \* s_ring, s_seq
    epochs, epochCount,           \* s_epochs, s_epochCount
    frozen, trigger, freezeUs,    \* s_frozen, s_trigger, s_freezeUs
    putting,    \* per task: the record it is about to store, and since when
    pc,         \* the loop task
    lastTime, lastSec,            \* s_lastTimeMs, s_lastSecMs
    log         \* for the properties: every record stored, with its full time

ringVars == <<ring, seq, epochs, epochCount, log>>
freezeVars == <<frozen, trigger, freezeUs>>
loopVars == <<pc, lastTime, lastSec>>
vars == <<now, ringVars, freezeVars, putting, loopVars>>

Kinds == {"BOOT", "TIME", "FREEZE", "ARM", "EVENT"}
NotPutting == [at |-> -1]
Empty == [seq |-> 0, t |-> 0, kind |-> "BOOT", arg |-> "none", high |-> 0]

RecArmUnanchored(s, at, kind, arg) ==
    [seq |-> s, t |-> at % WRAP, kind |-> kind, arg |-> arg,
     high |-> IF kind \in {"TIME", "FREEZE"} THEN at \div WRAP ELSE 0]

\* The record storeLocked() makes: TIME, ARM and FREEZE carry the clock's high half.
Rec(s, at, kind, arg) ==
    [seq |-> s, t |-> at % WRAP, kind |-> kind, arg |-> arg,
     high |-> IF kind \in {"TIME", "ARM", "FREEZE"} THEN at \div WRAP ELSE 0]

OldestLate == IF seq = 0 THEN 0 ELSE IF seq > Capacity THEN seq - Capacity ELSE 1
Oldest == IF seq = 0 THEN 0 ELSE IF seq >= Capacity THEN seq - Capacity + 1 ELSE 1

-------------------------------------------------------------------------------
(* storeLocked() and the high half of the clock.                           *)

Kept == IF epochCount < EPOCHS THEN epochCount ELSE EPOCHS
Epoch(i) == epochs[(epochCount - 1 - i) % EPOCHS]

\* highForLocked(): the newest epoch that had begun by record s, else the oldest kept.
HighFor(s) ==
    LET begun == {i \in 0 .. Kept - 1 : s >= Epoch(i).firstSeq}
    IN IF begun # {} THEN Epoch(CHOOSE i \in begun : \A j \in begun : i <= j).high
       ELSE IF Kept > 0 THEN Epoch(Kept - 1).high ELSE 0

NewEpoch(high) == epochCount = 0 \/ Epoch(0).high # high
FreezeDue == trigger # "none" /\ now >= freezeUs
StoppedIfFrozen == frozen = "yes"
StoppedIfLate == trigger # "none" /\ now > freezeUs
Stopped == frozen = "yes" \/ FreezeDue

\* The clock is read under the lock, by whoever called.
StampAtCall(called) == called
Stamp(called) == now

Write(kind, arg, called) ==
    LET at == Stamp(called)
        s  == seq + 1
    IN /\ seq' = s
       /\ ring' = [ring EXCEPT ![s % Capacity] = Rec(s, at, kind, arg)]
       /\ log' = Append(log, [at |-> at, kind |-> kind, arg |-> arg])
       /\ IF NewEpoch(at \div WRAP)
          THEN /\ epochs' = [epochs EXCEPT ![epochCount % EPOCHS] =
                                               [firstSeq |-> s, high |-> at \div WRAP]]
               /\ epochCount' = epochCount + 1
          ELSE UNCHANGED <<epochs, epochCount>>

\* The state begin() leaves: BOOT and the first TIME record.
Init ==
    /\ now = 0 /\ seq = 2
    /\ ring = [i \in 0 .. Capacity - 1 |->
                 IF i = 2 % Capacity THEN Rec(2, 0, "TIME", "none")
                 ELSE IF i = 1 % Capacity THEN Rec(1, 0, "BOOT", "none") ELSE Empty]
    /\ log = <<[at |-> 0, kind |-> "BOOT", arg |-> "none"],
               [at |-> 0, kind |-> "TIME", arg |-> "none"]>>
    /\ epochs = [i \in 0 .. EPOCHS - 1 |-> [firstSeq |-> IF i = 0 THEN 1 ELSE 0, high |-> 0]]
    /\ epochCount = 1
    /\ frozen = "no" /\ trigger = "none" /\ freezeUs = 0
    /\ putting = [k \in Tasks |-> NotPutting]
    /\ pc = "idle" /\ lastTime = 0 /\ lastSec = 0

-------------------------------------------------------------------------------
(* Records and triggers, from any task.                                    *)

PutCall(k) ==
    /\ putting[k] = NotPutting
    /\ putting' = [putting EXCEPT ![k] = [at |-> now]]
    /\ UNCHANGED <<now, ringVars, freezeVars, loopVars>>

PutStore(k) ==
    /\ putting[k] # NotPutting
    /\ putting' = [putting EXCEPT ![k] = NotPutting]
    /\ \/ /\ Stopped
          /\ frozen' = "yes"
          /\ UNCHANGED ringVars
       \/ /\ ~Stopped /\ seq < MaxSeq
          /\ Write("EVENT", "none", putting[k].at)
          /\ UNCHANGED frozen
    /\ UNCHANGED <<now, trigger, freezeUs, loopVars>>

\* A trigger while one is pending counts only if it is "freeze now".
Taken(t) == frozen = "no" /\ (trigger = "none" \/ t = "manual")

\* Its own FREEZE record may be what finds that the pending freeze is due.  The clock
\* is read again for the freeze: it may have moved on.
TriggerRefusedYetSet(t) ==
    /\ Taken(t) /\ FreezeDue
    /\ frozen' = "yes" /\ trigger' = t
    /\ UNCHANGED <<now, freezeUs, ringVars, putting>>

TriggerRefused(t) ==
    /\ Taken(t) /\ FreezeDue
    /\ frozen' = "yes"
    /\ UNCHANGED <<now, trigger, freezeUs, ringVars, putting>>

TriggerStored(t) ==
    /\ Taken(t) /\ ~FreezeDue /\ seq < MaxSeq
    /\ Write("FREEZE", t, now)
    /\ \E later \in {now, now + 1} :
          /\ later <= MaxTime
          /\ now' = later
          /\ freezeUs' = IF t = "manual" THEN later ELSE later + FREEZE_DELAY
    /\ trigger' = t
    /\ frozen' = IF t = "manual" THEN "yes" ELSE "no"
    /\ UNCHANGED putting

Trigger(t) == (TriggerRefused(t) \/ TriggerStored(t)) /\ UNCHANGED loopVars

-------------------------------------------------------------------------------
(* The loop task: tick() takes the lock twice; arm() and "freeze now" are  *)
(* web requests.                                                           *)

FreezeNow == "freeze" \in Buttons /\ pc = "idle" /\ Trigger("manual")

\* ARM is stored before the lock is let go.
Arm ==
    /\ "arm" \in Buttons /\ pc = "idle" /\ seq < MaxSeq
    /\ frozen' = "no" /\ trigger' = "none" /\ freezeUs' = 0
    /\ Write("ARM", "none", now)
    /\ UNCHANGED <<now, putting, loopVars>>

TimeDue == now - lastTime >= TIME_EVERY

TickTime ==
    /\ pc = "idle"
    /\ pc' = "tick"
    /\ IF TimeDue
       THEN /\ lastTime' = now
            /\ \/ Stopped /\ frozen' = "yes" /\ UNCHANGED ringVars
               \/ ~Stopped /\ seq < MaxSeq /\ Write("TIME", "none", now) /\ UNCHANGED frozen
       ELSE UNCHANGED <<lastTime, frozen, ringVars>>
    /\ UNCHANGED <<now, trigger, freezeUs, putting, lastSec>>

FrozenByTick == IF FreezeDue THEN "yes" ELSE frozen

TickSecond ==
    /\ pc = "tick"
    /\ pc' = "idle"
    /\ IF now - lastSec >= SEC
       THEN lastSec' = now /\ frozen' = FrozenByTick
       ELSE UNCHANGED <<lastSec, frozen>>
    /\ UNCHANGED <<now, trigger, freezeUs, ringVars, putting, lastTime>>

\* The loop task is never later than LateBy for a TIME record.
TimePasses ==
    /\ now < MaxTime
    /\ now - lastTime < TIME_EVERY + LateBy
    /\ now' = now + 1
    /\ UNCHANGED <<ringVars, freezeVars, putting, loopVars>>

AnyTask ==
    \/ \E k \in Tasks : PutCall(k) \/ PutStore(k)
    \/ \E t \in Triggers : Trigger(t)

LoopTask == FreezeNow \/ Arm \/ TickTime \/ TickSecond

Next == AnyTask \/ LoopTask \/ TimePasses

Spec == Init /\ [][Next]_vars

-------------------------------------------------------------------------------
(* Properties.                                                             *)

\* Every variable has its type; log is as long as seq says.
TypeOK ==
    /\ now \in Nat /\ seq \in Nat /\ epochCount \in Nat
    /\ ring \in [0 .. Capacity - 1 -> [seq : Nat, t : 0 .. WRAP - 1, kind : Kinds,
                                       arg : Triggers \cup {"none", "manual"}, high : Nat]]
    /\ epochs \in [0 .. EPOCHS - 1 -> [firstSeq : Nat, high : Nat]]
    /\ frozen \in {"yes", "no"}
    /\ trigger \in Triggers \cup {"none", "manual"} /\ freezeUs \in Nat
    /\ putting \in [Tasks -> {NotPutting} \cup [at : Nat]]
    /\ pc \in {"idle", "tick"} /\ lastTime \in Nat /\ lastSec \in Nat
    /\ log \in Seq([at : Nat, kind : Kinds, arg : Triggers \cup {"none", "manual"}])
    /\ Len(log) = seq

\* The record numbered s, as it was stored.
Stored(s) == Rec(s, log[s].at, log[s].kind, log[s].arg)

\* Every number from the oldest to the newest is the ring's, and its slot holds that
\* record as it was stored: what read() and status() rely on.
RingHoldsNewest == \A s \in Oldest .. seq : ring[s % Capacity] = Stored(s)

\* Times rise with seq across all tasks (recorder.h:17-21): what seqAt()'s search and
\* the decoder depend on.
TimesRise == \A r, s \in 1 .. seq : r <= s => log[r].at <= log[s].at

\* Recording stops FREEZE_DELAY after the trigger, whichever of put(), trigger() and
\* tick() notices, and the moments around the glitch are what the ring keeps: nothing
\* is stored once the freeze is due.
NothingAfterFreeze ==
    trigger # "none" => \A s \in 1 .. seq : log[s].at <= freezeUs

\* What the status page names as the reason is the newest FREEZE record since the ring
\* was armed, and with none pending there is none: a reader of the ring finds it.
FreezeRecordTells ==
    LET Since(s) == \A r \in s + 1 .. seq : log[r].kind # "ARM" /\ log[r].kind # "FREEZE"
    IN \A s \in 1 .. seq :
          Since(s) => /\ log[s].kind = "FREEZE" => trigger = log[s].arg
                      /\ log[s].kind = "ARM" => trigger = "none"

\* A frozen ring does not change until it is armed, and the first record after the
\* freeze is ARM, the decoder's anchor (190-202).
FrozenUntilArmed ==
    [][frozen = "yes" /\ <<ring, seq, frozen>>' # <<ring, seq, frozen>> =>
         /\ frozen' = "no" /\ trigger' = "none"
         /\ seq' = seq + 1 /\ ring'[seq' % Capacity].kind = "ARM"]_vars
===============================================================================
