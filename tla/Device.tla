--------------------------------- MODULE Device ----------------------------------
(***************************************************************************)
(* The device over its life: boots, settings saved and wiped, firmware     *)
(* uploaded, crashes and power cuts -- Config and BootGuard over one flash *)
(* and one loop task (src/src/main.cpp, web_ui.cpp).  setup() counts the   *)
(* boot before it loads the settings; everything the loop task does for a  *)
(* request it does within one pass.                                        *)
(***************************************************************************)
EXTENDS Config, BootGuard

vars == <<configVars, guardVars>>

DeviceTypeOK == ConfigTypeOK /\ GuardTypeOK

Init == ConfigInit /\ GuardInit

\* setup() after BootGuard::begin(): a bad image does not get through it.
SetsUp ==
    /\ phase = "setup" /\ slot[running] = "good" /\ phase' = "run"
    /\ Load
    /\ UNCHANGED <<slot, boot, flashFails, why, running, fails, stable, crashes>>

LoopIdle == doing = "nothing"

BeginStep ==
    \/ (Boots \/ Counts \/ Full) /\ UNCHANGED configVars
    \/ RollsBack /\ ConfigLost

\* Requests, and the reset button held for 10 s.
SavesSettings ==
    /\ phase = "run"
    /\ \E given \in [Keys -> Value \cup {Unset}] : Save(given)
    /\ UNCHANGED guardVars
StoreStep == (WriteKey \/ ReadBack \/ SaveFailed \/ EraseKey \/ Erased) /\ UNCHANGED guardVars
SaveAndReboot ==
    /\ doing = "saved"
    /\ MarkedRestart("run") /\ Answered
FactoryReset == phase = "run" /\ WipeAll /\ UNCHANGED guardVars
ResetAndReboot ==
    /\ doing = "wiped"
    /\ WipeGuard /\ Answered

LoopStep ==
    /\ LoopIdle
    /\ \/ Tick \/ UploadStarts \/ UploadAborts \/ Activates
       \/ \E image \in {"good", "bad", "torn"} : UploadEnds(image)
       \/ MarkedRestart("run") \/ MarkedRestart("flashed")
    /\ UNCHANGED configVars

Stops == (Restarts \/ Crashes \/ PowerCut) /\ ConfigLost

Next ==
    \/ BeginStep \/ SetsUp
    \/ SavesSettings \/ StoreStep \/ SaveAndReboot
    \/ FactoryReset \/ ResetAndReboot
    \/ LoopStep \/ Stops

Spec == Init /\ [][Next]_vars

\* A device left on goes through its steps; a crash loop ends only if the power
\* is not cut, and the flash does not fail, at the same step each time.
FairSpec ==
    /\ Spec
    /\ WF_vars(BeginStep \/ SetsUp)
    /\ SF_vars(slot[running] = "bad" /\ Crashes /\ ConfigLost)
    /\ SF_vars(Boots /\ Crashed /\ UNCHANGED configVars)
    /\ SF_vars(Counts /\ Tallied /\ UNCHANGED configVars)
    /\ SF_vars(Full /\ UNCHANGED configVars)
    /\ SF_vars(RollsBack /\ boot' # boot /\ ConfigLost)

-------------------------------------------------------------------------------
\* An image that crashes or hangs before its web interface is up is left for the
\* other slot's, if that one holds a good image -- through power cuts, tally writes
\* that fail and a rollback that is cut short (boot_guard.cpp:58-67).
CrashLoopEnds ==
    (slot[running] = "bad" /\ slot[Other(running)] = "good") ~> slot[running] = "good"
===============================================================================
