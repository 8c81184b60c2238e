------------------------------ MODULE UsbRecovery ------------------------------
(***************************************************************************)
(* How the USB host keeps a device working (src/src/usb_midi_host.cpp):    *)
(* the IN transfers and their recovery from errors, the OUT transfer as    *)
(* far as it can fail or stick, escalation to a port reset with its        *)
(* backoff, detach and attach, and the watchdog that retries a device that *)
(* is on the port but was never enumerated.  UsbTx has the packets.        *)
(*                                                                         *)
(* Times are kept as ages: how many units ago s_lastResetMs etc. were      *)
(* taken, -1 for the code's 0 ("not"), no longer counted once no threshold *)
(* tells them apart; so nothing here is bounded but the constants.  A unit *)
(* is longer than a pass (50 ms), the retry gaps (20 ms, 1 s) and          *)
(* WATCHDOG_PERIOD_MS: a retry inside its gap is a retry that was refused, *)
(* and the watchdog looks in some passes: in one per unit at least, and in *)
(* that of an attach.                                                      *)
(* Claimed devices have an IN endpoint.                                    *)
(***************************************************************************)
EXTENDS Integers

CONSTANTS NUM_RX_TRANSFERS,
          EP_ERRORS_TO_RESET, EP_ERROR_WINDOW,
          TX_WEDGE_RESET, RESET_GONE_TIMEOUT,
          RESET_GAP_MIN, RESET_GAP_MAX, RESET_CALM,
          ENUM_GRACE, ENUM_RETRY_MAX, ABSENT_SETTLE

ASSUME RecoveryAssumption ==
    /\ {NUM_RX_TRANSFERS, EP_ERRORS_TO_RESET, RESET_GAP_MIN, ENUM_GRACE} \subseteq Nat \ {0}
    /\ {EP_ERROR_WINDOW, TX_WEDGE_RESET, RESET_GONE_TIMEOUT, RESET_CALM, ABSENT_SETTLE} \subseteq Nat
    /\ RESET_GAP_MAX \in Nat /\ RESET_GAP_MIN <= RESET_GAP_MAX
    /\ ENUM_RETRY_MAX \in Nat /\ ENUM_GRACE <= ENUM_RETRY_MAX

Not == -1

VARIABLES
    pc,         \* clientPass(): "events", "drain", "attach", "service"
    link,       \* s_device and s_connected: "up" or "down"
    flags,      \* s_pendingGone ("gone"), s_pendingAddr ("addr")
    rxActive,   \* IN transfers in flight: s_rxActive
    rxParked,   \* how many s_rxParked are set
    txAge,      \* s_txSubmitMs; Not: no OUT transfer in flight
    txHalted,   \* s_txHalted, and the OUT pipe: "yes" or "no"
    errCount, errAge,                 \* s_epErrCount, s_epErrWindowMs
    wanted, pending,                  \* s_resetWanted, s_resetPending: "yes" or "no"
    troubleAge, resetAge, resetStreak,
    looked,     \* the watchdog has looked in this unit: "yes" or "no"
    unenumAge, absentAge, settled, retryStreak,
    \* USB stack, port and device (external)
    plug,       \* "in" or "out"
    enabled,    \* the port, once reset by the hub driver: "yes" or "no"
    dev,        \* "none", "on" (enumerated), "gone", "told" (DEV_GONE reported)
    inPipe,     \* "ok" or "halted"
    \* history
    recovering, \* the watchdog's retry is in this unit: "yes" or "no"
    spell       \* resets since things were last calm

client == <<pc, link, flags>>
transfers == <<rxActive, rxParked, txAge, txHalted, inPipe>>
errors == <<errCount, errAge, wanted, troubleAge>>
resets == <<pending, resetAge, resetStreak, spell>>
watchdog == <<looked, recovering, unenumAge, absentAge, settled, retryStreak>>
port == <<plug, enabled, dev>>
vars == <<client, transfers, errors, resets, watchdog, port>>

AtMost(a, b) == IF a < b THEN a ELSE b
Older(age, limit) == IF age = Not THEN Not ELSE AtMost(age + 1, limit)

\* Streaks past these make no difference: a gap has grown to its maximum by then.
ResetStreaks == RESET_GAP_MAX
RetryStreaks == ENUM_RETRY_MAX - 1

\* None at first, then RESET_GAP_MIN_MS << (streak - 1), up to the maximum.
ResetGap[streak \in 0 .. ResetStreaks] ==
    IF streak = 0 THEN 0
    ELSE IF streak = 1 THEN RESET_GAP_MIN
    ELSE AtMost(2 * ResetGap[streak - 1], RESET_GAP_MAX)

\* ENUM_GRACE_MS << streak, up to the maximum.
RetryWait(streak) == AtMost(ENUM_GRACE * 2 ^ streak, ENUM_RETRY_MAX)

Init ==
    /\ pc = "events" /\ link = "down" /\ flags = {}
    /\ rxActive = 0 /\ rxParked = 0 /\ txAge = Not /\ txHalted = "no"
    /\ inPipe = "ok"
    /\ errCount = 0 /\ errAge = 0 /\ wanted = "no" /\ troubleAge = 0
    /\ pending = "no" /\ resetAge = RESET_GAP_MAX /\ resetStreak = 0 /\ spell = 0
    /\ looked = "no" /\ recovering = "no" /\ unenumAge = Not /\ absentAge = Not /\ settled = "no" /\ retryStreak = 0
    /\ plug \in {"in", "out"} /\ enabled = "yes" /\ dev = "none"

-------------------------------------------------------------------------------
(* The port and the device.                                                *)

PlugIn ==
    /\ plug = "out"
    /\ plug' = "in"
    /\ UNCHANGED <<enabled, dev, client, transfers, errors, resets, watchdog>>

\* Opened by the client: the stack keeps it until the client has closed it.
Opened == link = "up" \/ pc \in {"attach", "drain"}
Disconnected == IF dev = "on" THEN IF Opened THEN "gone" ELSE "none" ELSE dev

Unplug ==
    /\ plug = "in"
    /\ plug' = "out" /\ enabled' = "yes" /\ dev' = Disconnected
    /\ UNCHANGED <<client, transfers, errors, resets, watchdog>>

\* The hub driver's reset of the device fails: the port is left disabled.
PortResetFails ==
    /\ plug = "in" /\ dev = "none" /\ enabled = "yes"
    /\ enabled' = "no"
    /\ UNCHANGED <<plug, dev, client, transfers, errors, resets, watchdog>>

InEvents == pc \in {"events", "drain"}

NewDevEvent ==
    /\ InEvents
    /\ plug = "in" /\ dev = "none" /\ enabled = "yes"
    /\ dev' = "on" /\ flags' = flags \cup {"addr"}
    /\ UNCHANGED <<pc, link, plug, enabled, transfers, errors, resets, watchdog>>

DevGoneEvent ==
    /\ InEvents
    /\ dev = "gone"
    /\ dev' = "told" /\ flags' = flags \cup {"gone"}
    /\ UNCHANGED <<pc, link, plug, enabled, transfers, errors, resets, watchdog>>

-------------------------------------------------------------------------------
(* Transfers that come back: onTransferDone(), onTxDone().  An error that  *)
(* was still in the stack may be handed over after DEV_GONE, and in the    *)
(* drain of detachDevice().                                                *)

\* Errors inside the window count on, the first after it starts a new one.
NewWindow == errCount = 0 \/ errAge > EP_ERROR_WINDOW

NoteEpError ==
    LET n == IF NewWindow THEN 1 ELSE AtMost(errCount + 1, EP_ERRORS_TO_RESET)
    IN /\ errCount' = n
       /\ errAge' = IF NewWindow THEN 0 ELSE errAge
       /\ wanted' = IF n = EP_ERRORS_TO_RESET THEN "yes" ELSE wanted
       /\ troubleAge' = 0

\* Parked, to be resubmitted, unless the device is gone.
ParkedUnlessCanceled == IF link = "up" /\ inPipe = "ok" THEN rxParked + 1 ELSE rxParked
Parked == IF link = "up" THEN rxParked + 1 ELSE rxParked

RxError ==
    /\ InEvents
    /\ rxActive > 0 /\ inPipe = "ok"
    /\ rxActive' = rxActive - 1 /\ rxParked' = Parked
    /\ inPipe' = "halted"
    /\ NoteEpError
    /\ UNCHANGED <<client, txAge, txHalted, resets, watchdog, port>>

\* Behind an error: the others come back canceled, or completed before it and are
\* refused when resubmitted.
RxCanceled ==
    /\ InEvents
    /\ rxActive > 0 /\ inPipe = "halted"
    /\ rxActive' = rxActive - 1 /\ rxParked' = Parked
    /\ UNCHANGED <<client, txAge, txHalted, inPipe, errors, resets, watchdog, port>>

RxNoDevice ==
    /\ InEvents
    /\ rxActive > 0 /\ dev \in {"gone", "told"}
    /\ rxActive' = rxActive - 1
    /\ UNCHANGED <<client, rxParked, txAge, txHalted, inPipe, errors, resets, watchdog, port>>

\* A submit of the OUT transfer, if there is anything to send.
SubmitTx ==
    \/ txAge' = Not /\ txHalted' = "no"
    \/ IF dev = "on" THEN txAge' = 0 /\ txHalted' = "no" ELSE txAge' = Not /\ txHalted' = "yes"

\* The device took it, and serviceTx() sends what else there is.
TxCompleted ==
    /\ InEvents
    /\ txAge # Not /\ dev = "on"
    /\ SubmitTx
    /\ UNCHANGED <<client, rxActive, rxParked, inPipe, errors, resets, watchdog, port>>

TxError ==
    /\ InEvents
    /\ txAge # Not
    /\ txAge' = Not /\ txHalted' = "yes"
    /\ NoteEpError
    /\ UNCHANGED <<client, rxActive, rxParked, inPipe, resets, watchdog, port>>

TxNoDevice ==
    /\ InEvents
    /\ txAge # Not /\ dev \in {"gone", "told"}
    /\ txAge' = Not
    /\ UNCHANGED <<client, rxActive, rxParked, txHalted, inPipe, errors, resets, watchdog, port>>

-------------------------------------------------------------------------------
(* clientPass().                                                           *)

AfterDetach == IF "addr" \in flags THEN "attach" ELSE "service"

\* handle_events() has waited, and a unit may have ended meanwhile.
Stay == UNCHANGED <<txAge, errAge, troubleAge, resetAge, spell, unenumAge, absentAge, looked, recovering>>

UnitEnds ==
    /\ looked = "yes" /\ looked' = "no"
    /\ txAge' = Older(txAge, TX_WEDGE_RESET + 1)
    /\ errAge' = Older(errAge, EP_ERROR_WINDOW + 1)
    /\ troubleAge' = Older(troubleAge, RESET_CALM + 1)
    /\ resetAge' = Older(resetAge, RESET_GAP_MAX)
    /\ unenumAge' = Older(unenumAge, ENUM_RETRY_MAX)
    /\ absentAge' = Older(absentAge, ABSENT_SETTLE + 1)
    /\ recovering' = "no"
    /\ spell' = IF troubleAge' > RESET_CALM THEN 0 ELSE spell

PassBegin ==
    /\ pc = "events"
    /\ Stay \/ UnitEnds
    /\ IF "gone" \in flags
       THEN pc' = "drain" /\ link' = "down" /\ flags' = flags \ {"gone"}
       ELSE pc' = AfterDetach /\ UNCHANGED <<link, flags>>
    /\ UNCHANGED <<rxActive, rxParked, txHalted, inPipe, errCount, wanted, pending, resetStreak,
                   settled, retryStreak, port>>

\* detachDevice() once its transfers have come back.
WantedAfterDetachKept == wanted
WantedAfterDetach == "no"

ErrorsAfterDetachKept == errCount
ErrorsAfterDetach == 0

DetachFinish ==
    /\ pc = "drain"
    /\ rxActive = 0 /\ txAge = Not
    /\ rxParked' = 0 /\ txHalted' = "no"
    /\ pending' = "no" /\ wanted' = WantedAfterDetach /\ errCount' = ErrorsAfterDetach
    /\ dev' = "none"
    /\ pc' = AfterDetach
    /\ UNCHANGED <<link, flags, rxActive, txAge, inPipe, errAge, troubleAge, resetAge, resetStreak, spell, watchdog, plug, enabled>>

\* The device cannot be opened or has no interface to claim: it is closed again.
AttachFail ==
    /\ pc = "attach"
    /\ flags' = flags \ {"addr"}
    /\ dev' = IF dev = "on" THEN "on" ELSE "none"
    /\ pc' = "service"
    /\ UNCHANGED <<link, transfers, errors, resets, watchdog, plug, enabled>>

\* Submits n transfers of the IN pipe: all of them, unless the device is gone or an
\* error of the first has halted the pipe before the others.
SubmitRx(n, pipe) ==
    \E k \in 0 .. n :
        /\ rxActive' = rxActive + k
        /\ IF pipe = "ok" /\ dev = "on"
           THEN /\ k > 0 \/ n = 0
                /\ inPipe' = IF k < n THEN "halted" ELSE "ok"
           ELSE k = 0 /\ inPipe' = pipe
        /\ rxParked' = IF pc = "attach" THEN 0 ELSE rxParked - k

\* A transfer refused here is not parked: nothing submits it until the next attach.
AttachConnect ==
    /\ pc = "attach"
    /\ dev # "none"
    /\ link' = "up" /\ flags' = flags \ {"addr"}
    /\ SubmitRx(NUM_RX_TRANSFERS, "ok")
    /\ pc' = "service"
    /\ looked' = "no"
    /\ UNCHANGED <<txAge, txHalted, errCount, errAge, wanted, troubleAge, resets, recovering,
                   unenumAge, absentAge, settled, retryStreak, port>>

\* A clear lifts a halt, or not; it does nothing else.
RecoverRx ==
    IF link = "up" /\ rxParked > 0
    THEN \E pipe \in {inPipe} \cup IF dev = "on" THEN {"ok"} ELSE {} : SubmitRx(rxParked, pipe)
    ELSE UNCHANGED <<rxActive, rxParked, inPipe>>

ServiceTx ==
    \/ link = "up" /\ txAge = Not /\ SubmitTx
    \/ /\ link = "down" \/ txAge # Not \/ txHalted = "yes"
       /\ UNCHANGED <<txAge, txHalted>>

-------------------------------------------------------------------------------
(* escalate() and enumWatchdog(), the end of the pass.                     *)

\* injectPortError(): to the stack an unplug.  It may not take hold.
PortError == dev' \in {dev, Disconnected}

Stuck == txAge > TX_WEDGE_RESET
Trouble == link = "up" /\ pending = "no" /\ (wanted = "yes" \/ Stuck)

\* The backoff is forgiven once there has been no trouble for RESET_CALM.
ForgivenSinceReset == resetStreak > 0 /\ resetAge > RESET_CALM
Forgiven == resetStreak > 0 /\ troubleAge > RESET_CALM
BackedOff == resetAge >= ResetGap[resetStreak]

\* A reset DEV_GONE never followed does not block the next.
PendingForGood == "yes"
PendingAfter == IF resetAge > RESET_GONE_TIMEOUT THEN "no" ELSE "yes"

NoReset ==
    /\ ~(Trouble /\ BackedOff)
    /\ pending' = IF pending = "yes" THEN PendingAfter ELSE "no"
    /\ resetStreak' = IF link = "up" /\ pending = "no" /\ ~Trouble /\ Forgiven
                      THEN 0 ELSE resetStreak
    /\ troubleAge' = IF Trouble THEN 0 ELSE troubleAge
    /\ UNCHANGED <<wanted, resetAge, spell, dev>>

Reset ==
    /\ Trouble /\ BackedOff
    /\ wanted' = "no" /\ pending' = "yes"
    /\ resetAge' = 0 /\ troubleAge' = 0
    /\ resetStreak' = AtMost(resetStreak + 1, ResetStreaks)
    /\ spell' = AtMost(spell + 1, ResetStreaks)
    /\ PortError

\* The root port reads as empty when nothing is plugged in, and for a moment while the
\* hub driver recovers it from an error.
Recovering == resetAge = 0 \/ recovering = "yes"
Reads == {plug} \cup IF Recovering THEN {"out"} ELSE {}

LookAttached ==
    /\ link = "up"
    /\ retryStreak' = 0 /\ unenumAge' = Not /\ absentAge' = Not /\ settled' = "no"
    /\ UNCHANGED recovering

\* Gone for real, not the blip of a recovery: the next device starts afresh.
StreakWhenAbsent(age) == 0
StreakAfterAbsence(age) == IF settled = "no" /\ age > ABSENT_SETTLE THEN 0 ELSE retryStreak

LookEmpty ==
    /\ link = "down" /\ "out" \in Reads
    /\ unenumAge' = Not
    /\ absentAge' = IF absentAge = Not THEN 0 ELSE absentAge
    /\ settled' = IF absentAge' > ABSENT_SETTLE THEN "yes" ELSE settled
    /\ retryStreak' = StreakAfterAbsence(absentAge')
    /\ UNCHANGED recovering

LookPresent ==
    /\ link = "down" /\ plug = "in"
    /\ absentAge' = Not /\ settled' = "no"

RetryDueUntilLongest ==
    unenumAge # Not /\ unenumAge >= RetryWait(retryStreak) /\ retryStreak < RetryStreaks
RetryDue == unenumAge # Not /\ unenumAge >= RetryWait(retryStreak)

\* Enumerated, but not claimed; or just found; or waiting, or its port disabled.
LookNoRetry ==
    /\ LookPresent
    /\ \/ dev # "none" /\ unenumAge' = Not
       \/ dev = "none" /\ unenumAge = Not /\ unenumAge' = 0
       \/ /\ dev = "none" /\ unenumAge # Not
          /\ ~RetryDue \/ enabled = "no"
          /\ UNCHANGED unenumAge
    /\ UNCHANGED <<retryStreak, recovering>>

Retry ==
    /\ LookPresent
    /\ dev = "none" /\ enabled = "yes" /\ RetryDue
    /\ retryStreak' = AtMost(retryStreak + 1, RetryStreaks)
    /\ unenumAge' = Not
    /\ recovering' = "yes"

Look == looked' = "yes" /\ (LookAttached \/ LookEmpty \/ LookNoRetry \/ Retry)

\* Whether the OUT transfer is stuck is the same before and after serviceTx().
Service ==
    /\ pc = "service"
    /\ pc' = "events"
    /\ RecoverRx /\ ServiceTx
    /\ NoReset \/ Reset
    /\ Look \/ (looked = "yes" /\ UNCHANGED watchdog)
    /\ UNCHANGED <<link, flags, errCount, errAge, plug, enabled>>

-------------------------------------------------------------------------------
PortStep == PlugIn \/ Unplug \/ PortResetFails \/ NewDevEvent \/ DevGoneEvent
TransferStep == RxError \/ RxCanceled \/ RxNoDevice \/ TxCompleted \/ TxError \/ TxNoDevice
ClientStep == PassBegin \/ DetachFinish \/ AttachFail \/ AttachConnect \/ Service

Next == PortStep \/ TransferStep \/ ClientStep

Spec == Init /\ [][Next]_vars

\* The client task runs and time passes.  The stack returns what it flushed or what a
\* gone device had, and reports the device gone.  A present device's halted pipe can be
\* cleared, though not every time, and a reset takes hold, though not every one.
Fairness ==
    /\ WF_vars(ClientStep) /\ SF_vars(PassBegin /\ UnitEnds)
    /\ SF_vars(RxCanceled) /\ SF_vars(RxNoDevice) /\ SF_vars(TxNoDevice) /\ SF_vars(DevGoneEvent)
    /\ SF_vars(Service /\ inPipe = "halted" /\ inPipe' = "ok" /\ rxParked > 0)
    /\ SF_vars(Service /\ Reset /\ dev = "on" /\ dev' = "gone")

FairSpec == Spec /\ Fairness

-------------------------------------------------------------------------------
(* Properties.                                                             *)

\* Every variable has its type; the transfers are no more than were allocated.
TypeOK ==
    /\ pc \in {"events", "drain", "attach", "service"}
    /\ link \in {"up", "down"} /\ flags \subseteq {"gone", "addr"}
    /\ {rxActive, rxParked} \subseteq 0 .. NUM_RX_TRANSFERS
    /\ rxActive + rxParked <= NUM_RX_TRANSFERS
    /\ txAge \in Not .. TX_WEDGE_RESET + 1 /\ txHalted \in {"yes", "no"}
    /\ inPipe \in {"ok", "halted"}
    /\ errCount \in 0 .. EP_ERRORS_TO_RESET
    /\ errAge \in 0 .. EP_ERROR_WINDOW + 1
    /\ {wanted, pending, looked, recovering, settled, enabled} \subseteq {"yes", "no"}
    /\ troubleAge \in 0 .. RESET_CALM + 1
    /\ resetAge \in 0 .. RESET_GAP_MAX /\ {resetStreak, spell} \subseteq 0 .. ResetStreaks
    /\ unenumAge \in Not .. ENUM_RETRY_MAX /\ absentAge \in Not .. ABSENT_SETTLE + 1
    /\ retryStreak \in 0 .. RetryStreaks
    /\ plug \in {"in", "out"} /\ dev \in {"none", "on", "gone", "told"}

\* "Backs off 10 s, 20 s, ... so a device that never recovers is not reset
\* continuously" (1020-1024): only RESET_CALM without an error and without a stuck
\* transfer, across detaches and attaches and resets that did not take hold, starts the
\* backoff again, and a wedge that merely outlasts a long gap is no calm (1051-1053).
ResetsBackOff ==
    [][pending = "no" /\ pending' = "yes" => resetAge >= ResetGap[spell]]_vars

\* A port is reset for what the device on it did: nothing the one before it left, errors
\* of the transfers drained after it had gone included, is there for the next.
NothingHeldAgainstTheNext ==
    link = "down" /\ pc # "drain" =>
        /\ errCount = 0 /\ wanted = "no" /\ pending = "no"
        /\ rxActive = 0 /\ rxParked = 0 /\ txAge = Not /\ txHalted = "no"

\* The watchdog's backoff is given up for an attachment or a device that was pulled out,
\* never for the blip of a port recovery, its own retry's included (976-978).
BlipForgivesNothing ==
    [][retryStreak' < retryStreak => link = "up" \/ plug = "out"]_vars

\* While a device is attached, input that has stopped starts again: an error, the
\* transfers canceled behind it, a refused resubmit or a failed clear never leave the
\* board deaf until a replug (248-255).
InputResumes == link = "up" /\ rxActive = 0 ~> rxActive > 0 \/ link = "down"

\* An escalation that was asked for, or an OUT transfer the device does not take, comes
\* to an end, through backoff and resets that never take hold.
TroubleEnds == wanted = "yes" \/ Stuck ~> wanted = "no" /\ ~Stuck

\* A device that stays on an enabled port without being enumerated is retried for ever.
NotGivenUp ==
    []<><<Service /\ Retry>>_vars \/ []<>~(plug = "in" /\ dev = "none" /\ enabled = "yes")
===============================================================================
