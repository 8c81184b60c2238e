-------------------------------- MODULE MidiTask --------------------------------
(***************************************************************************)
(* A pass of the MIDI task (src/src/midi_task.cpp): the web page's reset   *)
(* of the totals, the session, the bridge with its token bucket            *)
(* (UplinkPacing), the heartbeat with the freeze it asks of the flight     *)
(* recorder when it stops (healthTick()), and the snapshot for the page.   *)
(*                                                                         *)
(* Time may pass between any two steps; MaxGap also bounds it between two  *)
(* looks of healthTick().  Whether a pass begins with a wait (it may not,  *)
(* while notifications are pending, for MAX_BUSY_PASSES at a time) is left *)
(* open.  A peer that leaves and one that joins within one drain are no    *)
(* change here (BridgeUp has what that does); SysEx and markers are in     *)
(* BridgeDown and BridgeUp.                                                *)
(***************************************************************************)
EXTENDS UplinkPacing

CONSTANTS HEARTBEAT_MS, HEARTBEAT_STOP_MS, SNAPSHOT_MS

ASSUME TaskAssumption ==
    /\ {HEARTBEAT_MS, HEARTBEAT_STOP_MS, SNAPSHOT_MS} \subseteq Nat \ {0}
    /\ HEARTBEAT_MS <= HEARTBEAT_STOP_MS
    /\ HEARTBEAT_STOP_MS + MaxGap < Wrap /\ SNAPSHOT_MS + 2 * MaxGap < Wrap

VARIABLES
    task,       \* "rest", "blocked" (waiting), "woken", "session", "bridge", "health", "publish"
    peer,       \* RtpMidi::hasPeer(): "yes" or "no"
    \* the totals
    resetReq,   \* s_resetReq: "yes" or "no"
    totals,     \* s_passes etc.: "stale" if they hold anything from before the last reset
                \* asked for, else "fresh"
    snap,       \* s_snap: the same, "none" before the first
    lastSnap,   \* s_lastSnapMs
    \* healthTick()
    lastBeat,   \* s_lastBeatMs
    beaten,     \* s_beatThisSession: "yes" or "no"
    stopped,    \* s_stopTriggered: "yes" or "no"
    \* history
    looked,     \* when healthTick() last ran
    lastSent,   \* when it last sent a heartbeat to this session, or None
    fired       \* triggers since the last heartbeat before that look

uplink == <<pc, polled, tokens, refillMs, refillAt, mark, sent, waiting>>
figures == <<resetReq, totals, snap, lastSnap>>
health == <<lastBeat, beaten, stopped, looked, lastSent, fired>>
taskVars == <<task, peer, figures, health>>
allVars == <<now, uplink, taskVars>>

TaskInit ==
    /\ Init
    /\ task = "rest" /\ peer = "no"
    /\ resetReq = "no" /\ totals = "fresh" /\ snap = "none" /\ lastSnap = 0
    /\ lastBeat = 0 /\ beaten = "no" /\ stopped = "no"
    /\ looked = 0 /\ lastSent = None /\ fired = 0

Age(stamp) == ((now % Wrap) - stamp) % Wrap

Clock ==
    /\ TimePasses
    /\ now - looked < MaxGap
    /\ UNCHANGED taskVars

Window == Mark /\ UNCHANGED taskVars

-------------------------------------------------------------------------------
(* The web page, on the loop task: it runs while the MIDI task waits, also *)
(* for room in the USB queue, in the middle of a pass.                     *)

ResetStats ==
    /\ task \in {"blocked", "session"}
    /\ resetReq' = "yes"
    /\ totals' = "stale"
    /\ snap' = IF snap = "none" THEN "none" ELSE "stale"
    /\ UNCHANGED <<now, uplink, task, peer, lastSnap, health>>

-------------------------------------------------------------------------------
(* run().                                                                  *)

Rest ==
    /\ task = "rest" /\ task' \in {"blocked", "woken"}
    /\ UNCHANGED <<now, uplink, peer, figures, health>>

WaitEnds ==
    /\ task = "blocked" /\ task' = "woken"
    /\ UNCHANGED <<now, uplink, peer, figures, health>>

\* applyReset(): the zeroed totals are published in this pass.
SnapAsBefore == lastSnap
SnapDueAtOnce == (now - SNAPSHOT_MS) % Wrap

PassBegin ==
    /\ task = "woken" /\ task' = "session"
    /\ IF resetReq = "yes"
       THEN resetReq' = "no" /\ totals' = "fresh" /\ lastSnap' = SnapDueAtOnce
       ELSE UNCHANGED <<resetReq, totals, lastSnap>>
    /\ UNCHANGED <<now, uplink, peer, snap, health>>

\* RtpMidi::tick(): peers join and leave.
Session ==
    /\ task = "session"
    /\ peer' \in {"yes", "no"}
    /\ IF peer' = "yes"
       THEN task' = "bridge" /\ UNCHANGED <<now, uplink>>
       ELSE task' = "health" /\ PeerLeaves
    /\ UNCHANGED <<figures, health>>

\* MidiBridge::tick() with a peer.
Bridge ==
    /\ task = "bridge"
    /\ Poll \/ Refill \/ RefillEnd \/ Spend \/ NothingToSend
    /\ task' = IF pc' = "idle" THEN "health" ELSE "bridge"
    /\ UNCHANGED <<peer, figures, health>>

-------------------------------------------------------------------------------
(* healthTick().                                                           *)

BeatDue == Age(lastBeat) >= HEARTBEAT_MS

\* A heartbeat that stopped, not one that never started.
StopUnseen == beaten = "yes" /\ stopped = "no" /\ Age(lastBeat) > HEARTBEAT_STOP_MS
Triggers == IF StopUnseen THEN 1 ELSE 0
Fired == (IF lastSent = looked THEN 0 ELSE fired) + Triggers

NoPeer ==
    /\ peer = "no"
    /\ beaten' = "no" /\ stopped' = "no"
    /\ lastSent' = None /\ fired' = 0
    /\ UNCHANGED lastBeat

NotDue ==
    /\ peer = "yes" /\ ~BeatDue
    /\ fired' = IF lastSent = looked THEN 0 ELSE fired
    /\ UNCHANGED <<lastBeat, beaten, stopped, lastSent>>

\* The device is healthy; late, this is a stop as well.
Beat ==
    /\ peer = "yes" /\ BeatDue
    /\ fired' = Fired
    /\ lastBeat' = now % Wrap /\ beaten' = "yes" /\ stopped' = "no"
    /\ lastSent' = now

\* The device is not.
StoppedAsBefore == stopped
StoppedWhenHeld == IF StopUnseen THEN "yes" ELSE stopped

BeatHeld ==
    /\ peer = "yes" /\ BeatDue
    /\ fired' = Fired
    /\ stopped' = StoppedWhenHeld
    /\ UNCHANGED <<lastBeat, beaten, lastSent>>

HealthTick ==
    /\ task = "health" /\ task' = "publish"
    /\ looked' = now
    /\ NoPeer \/ NotDue \/ Beat \/ BeatHeld
    /\ UNCHANGED <<now, uplink, peer, figures>>

-------------------------------------------------------------------------------
\* publishSnapshot()
SnapDue == snap = "none" \/ Age(lastSnap) >= SNAPSHOT_MS

Publish ==
    /\ task = "publish" /\ task' = "rest"
    /\ IF SnapDue
       THEN snap' = totals /\ lastSnap' = now % Wrap
       ELSE UNCHANGED <<snap, lastSnap>>
    /\ UNCHANGED <<now, uplink, peer, resetReq, totals, health>>

Pass == Rest \/ WaitEnds \/ PassBegin \/ Session \/ Bridge \/ HealthTick \/ Publish

TaskNext == Clock \/ Window \/ ResetStats \/ Pass

TaskSpec == TaskInit /\ [][TaskNext]_allVars

-------------------------------------------------------------------------------
(* Properties.                                                             *)

\* A heartbeat that stops for more than HEARTBEAT_STOP_MS within a session freezes the
\* recorder once, and nothing else of it does (416-418): held because of the device, or
\* late because the task was held up, or both, but never one that has not begun.
StopsFreezeOnce ==
    [][task = "health" /\ task' = "publish" =>
         fired' = IF lastSent # None /\ peer = "yes" /\ now - lastSent > HEARTBEAT_STOP_MS
                  THEN 1 ELSE 0]_allVars

\* "Publish the zeroed window at once" (63): whenever the page asks for a reset, also in
\* the middle of a pass, a pass that has taken it ends with totals that hold nothing from
\* before it.
ResetShown == resetReq = "no" /\ task \in {"rest", "blocked"} => snap # "stale"
===============================================================================
