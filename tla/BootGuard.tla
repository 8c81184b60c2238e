------------------------------- MODULE BootGuard ---------------------------------
(***************************************************************************)
(* The boot guard (src/src/boot_guard.cpp) over two firmware slots, and    *)
(* the upload that writes the slot that is not running (web_ui.cpp).  Its  *)
(* tally of crashed boots is in the flash; every write of it may fail, and *)
(* the power may be cut between any two steps.                             *)
(*                                                                         *)
(* The slots, the selected one, and what Update does with them are the     *)
(* library's (Arduino's Update over ESP-IDF): canRollBack() looks for an   *)
(* image's first byte, selecting a slot verifies the whole image.  A "bad" *)
(* image verifies and starts, and crashes or hangs before its first loop() *)
(* pass.  Bounds: FAIL_CAP for the uint8_t tally, which saturates there,   *)
(* MAX_FAILED_BOOTS for the crashes the property counts.                   *)
(***************************************************************************)
EXTENDS Integers

CONSTANTS MAX_FAILED_BOOTS, FAIL_CAP

ASSUME BootGuardAssumption ==
    /\ MAX_FAILED_BOOTS \in Nat \ {0}
    /\ FAIL_CAP \in Nat /\ MAX_FAILED_BOOTS < FAIL_CAP

Slot == {1, 2}
Other(s) == 3 - s
Image == {"good", "bad", "torn", "blank"}
Starts(image) == image \in {"good", "bad"}

VARIABLES
    slot, boot, flashFails,     \* the flash: images, selected slot, the tally
    why,                        \* esp_reset_reason() of the next boot, till read
    running, fails, stable,     \* the image that runs, s_fails, stable
    phase,                      \* where the loop task is
    crashes                     \* for the properties: since the tally was cleared

guardVars == <<slot, boot, flashFails, why, running, fails, stable, phase, crashes>>

GuardTypeOK ==
    /\ slot \in [Slot -> Image] /\ boot \in Slot /\ running \in Slot
    /\ {flashFails, fails} \subseteq 0..FAIL_CAP
    /\ crashes \in 0..MAX_FAILED_BOOTS
    /\ why \in {"power", "crash", "restart", "read"} /\ stable \in {"yes", "no"}
    /\ phase \in {"off", "count", "full", "rollback", "setup", "run",
                  "upload", "verify", "flashed", "restart"}

GuardInit ==
    /\ slot \in [Slot -> {"good", "blank"}] /\ slot[1] = "good"
    /\ boot = 1 /\ running = 1 /\ phase = "off" /\ why = "power"
    /\ flashFails = 0 /\ fails = 0 /\ stable = "no" /\ crashes = 0

-------------------------------------------------------------------------------
Off(reason) == phase' = "off" /\ why' = reason /\ fails' = 0 /\ stable' = "no"

\* setFailCount(n): s_fails is what the flash is taken to hold.  At most one
\* call in a step; whether the write works is up to the flash.
SetFailCount(n) ==
    /\ fails' = n
    /\ \/ n # fails /\ flashFails' = n
       \/ UNCHANGED flashFails
Tallied == flashFails' = fails'

\* The tally cleared, in the flash: the crashes before it count no more.
Clear ==
    /\ SetFailCount(0)
    /\ crashes' = IF flashFails' = 0 THEN 0 ELSE crashes

\* crashed(): a panic or a watchdog, not a power-on, brownout or restart.
CrashedOrCut == why \in {"crash", "power"}
Crashed == why = "crash"

BootsAnew ==
    /\ phase = "off"
    /\ running' = boot /\ why' = "read"
    /\ flashFails' = IF Crashed THEN flashFails ELSE 0
    /\ fails' = flashFails'
    /\ phase' = IF Crashed THEN "count" ELSE "setup"
    /\ UNCHANGED <<slot, boot, stable, crashes>>

\* begin(), to the test of the reset reason.
Boots ==
    /\ phase = "off"
    /\ running' = boot /\ fails' = flashFails /\ why' = "read"
    /\ phase' = IF Crashed THEN "count" ELSE "setup"
    /\ UNCHANGED <<slot, boot, flashFails, stable, crashes>>

CountedUp == IF fails < FAIL_CAP THEN fails + 1 ELSE fails

Counts ==
    /\ phase = "count"
    /\ SetFailCount(CountedUp)
    /\ phase' = IF CountedUp >= MAX_FAILED_BOOTS THEN "full" ELSE "setup"
    /\ UNCHANGED <<slot, boot, why, running, stable, crashes>>

\* Update.canRollBack(): the other slot has what looks like an image.  The tally
\* is cleared either way, before the slot is switched.
Full ==
    /\ phase = "full"
    /\ Clear
    /\ phase' = IF slot[Other(running)] = "blank" THEN "setup" ELSE "rollback"
    /\ UNCHANGED <<slot, boot, why, running, stable>>

\* Update.rollBack() and the restart; nobody looks at whether it worked.
RollsBack ==
    /\ phase = "rollback"
    /\ \/ Starts(slot[Other(running)]) /\ boot' = Other(running)
       \/ UNCHANGED boot
    /\ Off("restart")
    /\ UNCHANGED <<slot, flashFails, running, crashes>>

-------------------------------------------------------------------------------
\* markStable(), from tick() after 30 s or before a deliberate restart.
MarkStable ==
    /\ stable' = "yes"
    /\ IF stable = "yes" THEN UNCHANGED <<fails, flashFails, crashes>> ELSE Clear

Tick ==
    /\ phase = "run" /\ stable = "no"
    /\ MarkStable
    /\ UNCHANGED <<slot, boot, why, running, phase>>

\* The upload, within one loop() pass.  The first block erases the other slot's
\* image; the first byte of the new one is written last, when all of it is there.
UploadStarts ==
    /\ phase = "run" /\ phase' = "upload"
    /\ slot' = [slot EXCEPT ![Other(running)] = "blank"]
    /\ UNCHANGED <<boot, flashFails, why, running, fails, stable, crashes>>

UploadAborts ==
    /\ phase = "upload" /\ phase' = "run"
    /\ UNCHANGED <<slot, boot, flashFails, why, running, fails, stable, crashes>>

UploadEnds(image) ==
    /\ phase = "upload" /\ phase' = "verify"
    /\ slot' = [slot EXCEPT ![Other(running)] = image]
    /\ UNCHANGED <<boot, flashFails, why, running, fails, stable, crashes>>

\* Update.end() selects the slot if the image verifies.
Activates ==
    /\ phase = "verify"
    /\ IF Starts(slot[Other(running)])
       THEN boot' = Other(running) /\ phase' = "flashed"
       ELSE phase' = "run" /\ UNCHANGED boot
    /\ UNCHANGED <<slot, flashFails, why, running, fails, stable, crashes>>

\* handleUpdatePost(), handleRebootPost(), saveAndReboot(): they end alike.
MarkedRestart(from) ==
    /\ phase = from /\ phase' = "restart"
    /\ MarkStable
    /\ UNCHANGED <<slot, boot, why, running>>

Restarts ==
    /\ phase = "restart"
    /\ Off("restart")
    /\ UNCHANGED <<slot, boot, flashFails, running, crashes>>

\* wipeAll(): its second half, which s_fails does not follow.
WipeGuard ==
    /\ phase = "run" /\ phase' = "restart"
    /\ \/ flashFails' = 0 /\ crashes' = 0
       \/ UNCHANGED <<flashFails, crashes>>
    /\ UNCHANGED <<slot, boot, why, running, fails, stable>>

-------------------------------------------------------------------------------
\* A panic or a watchdog, after begin().
Crashes ==
    /\ phase \in {"setup", "run", "upload", "verify", "flashed", "restart"}
    /\ Off("crash")
    /\ crashes' = IF crashes < MAX_FAILED_BOOTS THEN crashes + 1 ELSE crashes
    /\ UNCHANGED <<slot, boot, flashFails, running>>

PowerCut ==
    /\ ~ (phase = "off" /\ why = "power")
    /\ Off("power")
    /\ UNCHANGED <<slot, boot, flashFails, running, crashes>>

-------------------------------------------------------------------------------
\* The firmware is rolled back for crashes only: when begin() takes the tally as
\* full, that many runs ended in a crash since it was last cleared in the flash,
\* however many power cuts and restarts came between (boot_guard.cpp:49-54).
RollbackEarned == phase = "full" => crashes >= MAX_FAILED_BOOTS
===============================================================================
