------------------------------ MODULE DeviceProofs -------------------------------
(***************************************************************************)
(* For every number of settings, every set of values and every limit of    *)
(* crashed boots: the device's types, that what was promised of the        *)
(* settings is what the next boot loads, and that only crashes roll the    *)
(* firmware back.  And of the WiFi link, which the same loop task keeps,   *)
(* that its attempts back off.                                             *)
(***************************************************************************)
EXTENDS Device, WifiNet, TLAPS

\* While keys are written nothing is promised, and the keys written without a
\* fault hold what they are to hold.
Ongoing ==
    /\ doing \in {"write", "restore", "wipe"} => owed = "no"
    /\ doing # "nothing" => phase = "run"
    /\ doing = "restore" /\ faults = "none" =>
           \A k \in Keys : k < key => stored[k] = values[k]
    /\ doing = "wipe" /\ faults = "none" => \A k \in Keys : k < key => stored[k] = Unset

ConfigInv == ConfigTypeOK /\ Ongoing /\ KeepsPromise

\* The crashes since the tally was cleared cover the tally: the one counted, and
\* the one still to be counted.
Covers(n) == n <= crashes \/ crashes = MAX_FAILED_BOOTS
Covered ==
    /\ Covers(flashFails)
    /\ why = "crash" => Covers(flashFails + 1)
    /\ phase = "count" => Covers(flashFails + 1) /\ fails = flashFails
    /\ phase # "off" => why = "read"

GuardInv == GuardTypeOK /\ Covered /\ RollbackEarned

USE DEF Keys, Slot

-------------------------------------------------------------------------------
\* A step is one of the store's, of the guard's, or stops them both.
StoreOnly ==
    \/ WriteKey \/ ReadBack \/ SaveFailed \/ EraseKey \/ Erased
    \/ \E given \in [Keys -> Value \cup {Unset}] : phase = "run" /\ Save(given)
    \/ phase = "run" /\ WipeAll
GuardOnly ==
    \/ Boots \/ Counts \/ Full \/ Tick \/ UploadStarts \/ UploadAborts \/ Activates
    \/ \E image \in {"good", "bad", "torn"} : UploadEnds(image)
    \/ MarkedRestart("run") \/ MarkedRestart("flashed")
Resets == RollsBack \/ Restarts \/ Crashes \/ PowerCut

LEMMA StepKinds ==
    ASSUME Next, Ongoing
    PROVE  \/ StoreOnly /\ UNCHANGED guardVars
           \/ GuardOnly /\ doing = "nothing" /\ UNCHANGED configVars
           \/ GuardOnly /\ Answered
           \/ WipeGuard /\ Answered
           \/ SetsUp
           \/ Resets /\ ConfigLost
<1>1. CASE BeginStep
  <2>1. CASE (Boots \/ Counts \/ Full) /\ UNCHANGED configVars
    BY <2>1 DEF GuardOnly, Boots, Counts, Full, Ongoing
  <2>2. CASE RollsBack /\ ConfigLost
    BY <2>2 DEF Resets
  <2> QED BY <1>1, <2>1, <2>2 DEF BeginStep
<1>2. CASE SavesSettings
  BY <1>2 DEF SavesSettings, StoreOnly
<1>3. CASE StoreStep
  BY <1>3 DEF StoreStep, StoreOnly
<1>4. CASE SaveAndReboot
  BY <1>4 DEF SaveAndReboot, GuardOnly
<1>5. CASE FactoryReset
  BY <1>5 DEF FactoryReset, StoreOnly
<1>6. CASE ResetAndReboot
  BY <1>6 DEF ResetAndReboot
<1>7. CASE LoopStep
  BY <1>7 DEF LoopStep, LoopIdle, GuardOnly
<1>8. CASE Stops
  BY <1>8 DEF Stops, Resets
<1> QED BY <1>1, <1>2, <1>3, <1>4, <1>5, <1>6, <1>7, <1>8 DEF Next

-------------------------------------------------------------------------------
\* The settings that load() makes of the flash are ones it accepts.
LEMMA LoadedTyped ==
    ASSUME ConfigAssumption, stored \in [Keys -> Value \cup {Unset}]
    PROVE  Loaded \in Settings
BY DEF Loaded, ReadStored, Settings, ConfigAssumption

LEMMA DefaultTyped ==
    ASSUME ConfigAssumption
    PROVE  Default \in Settings
BY DEF Settings, ConfigAssumption

\* What is stored whole, and accepted, is what load() makes of it.
LEMMA LoadsWhole ==
    ASSUME ConfigAssumption, NEW v \in Settings, \A k \in Keys : ReadStored[k] = v[k]
    PROVE  Loaded = v
BY DEF Loaded, Settings

-------------------------------------------------------------------------------
(* The settings store.                                                     *)

LEMMA ConfigInvInit == ASSUME ConfigAssumption, Init PROVE ConfigInv
<1>1. Default \in Settings
  BY DefaultTyped
<1>2. ConfigTypeOK
  BY <1>1 DEF Init, ConfigInit, ConfigTypeOK, ConfigAssumption
<1>3. Ongoing /\ KeepsPromise
  BY DEF Init, ConfigInit, Ongoing, KeepsPromise
<1> QED BY <1>2, <1>3 DEF ConfigInv

LEMMA ConfigTypeStep ==
    ASSUME ConfigAssumption, ConfigInv, Next
    PROVE  ConfigTypeOK'
<1> USE DEF ConfigTypeOK
<1>a. ConfigTypeOK /\ Ongoing /\ Default \in Settings /\ Loaded \in Settings
  BY DefaultTyped, LoadedTyped DEF ConfigInv
<1>1. CASE StoreOnly
  <2>1. CASE WriteKey
    <3>1. stored' \in [Keys -> Value \cup {Unset}] /\ faults' \in {"none", "some"}
      BY <1>a, <2>1 DEF WriteKey, PutWorks, PutFails, Written, Settings
    <3> QED BY <1>a, <2>1, <3>1 DEF WriteKey
  <2>2. CASE ReadBack
    BY <1>a, <2>2 DEF ReadBack, Promises, ConfigAssumption
  <2>3. CASE SaveFailed
    BY <1>a, <2>3 DEF SaveFailed, Promises, PromisesNothing, ConfigAssumption
  <2>4. CASE EraseKey
    <3>1. stored' \in [Keys -> Value \cup {Unset}]
      BY <1>a, <2>4 DEF EraseKey
    <3> QED BY <1>a, <2>4, <3>1 DEF EraseKey, ConfigAssumption
  <2>5. CASE Erased
    BY <1>a, <2>5 DEF Erased, Promises, PromisesNothing, ConfigAssumption
  <2>6. ASSUME NEW given \in [Keys -> Value \cup {Unset}], Save(given) PROVE ConfigTypeOK'
    BY <1>a, <2>6 DEF Save, PromisesNothing, ConfigAssumption
  <2>7. CASE WipeAll
    BY <1>a, <2>7 DEF WipeAll, PromisesNothing, ConfigAssumption
  <2> QED BY <1>1, <2>1, <2>2, <2>3, <2>4, <2>5, <2>6, <2>7 DEF StoreOnly
<1>2. CASE UNCHANGED configVars \/ Answered
  BY <1>a, <1>2 DEF configVars, Answered
<1>3. CASE SetsUp
  BY <1>a, <1>3 DEF SetsUp, Load, Promises
<1>4. CASE ConfigLost
  BY <1>a, <1>4 DEF ConfigLost, ConfigAssumption
<1> QED BY <1>a, <1>1, <1>2, <1>3, <1>4, StepKinds

LEMMA PhaseStep ==
    ASSUME Ongoing, Next
    PROVE  doing' # "nothing" => phase' = "run"
<1>1. CASE StoreOnly /\ UNCHANGED guardVars
  BY <1>1 DEF StoreOnly, WriteKey, ReadBack, SaveFailed, EraseKey, Erased, Save, WipeAll,
              Ongoing, guardVars
<1>2. CASE doing = "nothing" /\ UNCHANGED configVars
  BY <1>2 DEF configVars
<1>3. CASE Answered \/ ConfigLost
  BY <1>3 DEF Answered, ConfigLost
<1>4. CASE SetsUp
  BY <1>4 DEF SetsUp, Load, Ongoing
<1> QED BY <1>1, <1>2, <1>3, <1>4, StepKinds

LEMMA OngoingStep ==
    ASSUME ConfigAssumption, ConfigInv, Next
    PROVE  Ongoing'
<1>a. ConfigTypeOK /\ Ongoing
  BY DEF ConfigInv
<1>b. doing' # "nothing" => phase' = "run"
  BY <1>a, PhaseStep
<1>c. (doing \in {"write", "restore", "wipe"} => owed = "no")'
  <2>1. CASE StoreOnly
    BY <1>a, <2>1 DEF StoreOnly, WriteKey, ReadBack, SaveFailed, EraseKey, Erased, Save, WipeAll,
                PromisesNothing, Ongoing
  <2>2. CASE UNCHANGED configVars
    BY <1>a, <2>2 DEF configVars, Ongoing
  <2>3. CASE Answered \/ ConfigLost
    BY <2>3 DEF Answered, ConfigLost
  <2>4. CASE SetsUp
    BY <1>a, <2>4 DEF SetsUp, Load, Ongoing
  <2> QED BY <1>a, <2>1, <2>2, <2>3, <2>4, StepKinds
<1>d. (doing = "restore" /\ faults = "none" =>
           \A k \in Keys : k < key => stored[k] = values[k])'
  <2>1. CASE WriteKey
    <3>1. SUFFICES ASSUME doing = "restore", faults' = "none",
                          NEW k \in Keys, k < key + 1
                   PROVE  stored'[k] = values[k]
      BY <2>1 DEF WriteKey
    <3>2. stored' = [stored EXCEPT ![key] = values[key]] /\ faults = "none"
      BY <2>1, <3>1 DEF WriteKey, PutWorks, PutFails, Written
    <3>3. CASE k = key
      BY <1>a, <2>1, <3>2, <3>3 DEF WriteKey, ConfigTypeOK
    <3>4. CASE k # key
      <4>1. k < key
        BY <1>a, <3>1, <3>4 DEF ConfigTypeOK, ConfigAssumption
      <4> QED BY <1>a, <3>1, <3>2, <3>4, <4>1 DEF Ongoing, ConfigTypeOK
    <3> QED BY <3>3, <3>4
  <2>2. CASE ReadBack
    BY <1>a, <2>2 DEF ReadBack, ConfigAssumption
  <2>3. CASE SaveFailed \/ EraseKey \/ Erased \/ WipeAll
        \/ \E given \in [Keys -> Value \cup {Unset}] : phase = "run" /\ Save(given)
    BY <2>3 DEF SaveFailed, EraseKey, Erased, WipeAll, Save
  <2>4. CASE UNCHANGED configVars
    BY <1>a, <2>4 DEF configVars, Ongoing
  <2>5. CASE Answered \/ ConfigLost
    BY <2>5 DEF Answered, ConfigLost
  <2>6. CASE SetsUp
    BY <1>a, <2>6 DEF SetsUp, Load, Ongoing
  <2> QED BY <1>a, <2>1, <2>2, <2>3, <2>4, <2>5, <2>6, StepKinds DEF StoreOnly
<1>e. (doing = "wipe" /\ faults = "none" => \A k \in Keys : k < key => stored[k] = Unset)'
  <2>1. CASE EraseKey
    <3>1. SUFFICES ASSUME faults' = "none", NEW k \in Keys, k < key'
                   PROVE  stored'[k] = Unset
      OBVIOUS
    <3>2. stored' = [stored EXCEPT ![key] = Unset] /\ faults = "none" /\ key' = key + 1
      BY <2>1, <3>1 DEF EraseKey
    <3>3. CASE k = key
      BY <1>a, <3>2, <3>3 DEF ConfigTypeOK
    <3>4. CASE k # key
      <4>1. k < key
        BY <1>a, <3>1, <3>2, <3>4 DEF ConfigTypeOK, ConfigAssumption
      <4> QED BY <1>a, <2>1, <3>1, <3>2, <3>4, <4>1 DEF Ongoing, ConfigTypeOK, EraseKey
    <3> QED BY <3>3, <3>4
  <2>2. CASE WipeAll
    BY <1>a, <2>2 DEF WipeAll, ConfigAssumption
  <2>3. CASE SaveFailed \/ WriteKey \/ Erased \/ ReadBack
        \/ \E given \in [Keys -> Value \cup {Unset}] : phase = "run" /\ Save(given)
    BY <2>3 DEF SaveFailed, WriteKey, Erased, ReadBack, Save
  <2>4. CASE UNCHANGED configVars
    BY <1>a, <2>4 DEF configVars, Ongoing
  <2>5. CASE Answered \/ ConfigLost
    BY <2>5 DEF Answered, ConfigLost
  <2>6. CASE SetsUp
    BY <1>a, <2>6 DEF SetsUp, Load, Ongoing
  <2> QED BY <1>a, <2>1, <2>2, <2>3, <2>4, <2>5, <2>6, StepKinds DEF StoreOnly
<1> QED BY <1>b, <1>c, <1>d, <1>e DEF Ongoing

\* load() reads the flash alone.
LEMMA SameFlash == ASSUME stored' = stored PROVE Loaded' = Loaded
BY DEF Loaded, ReadStored

LEMMA PromiseStep ==
    ASSUME ConfigAssumption, ConfigInv, Next
    PROVE  KeepsPromise'
<1>a. ConfigTypeOK /\ Ongoing /\ KeepsPromise
  BY DEF ConfigInv
<1>b. ASSUME UNCHANGED <<stored, promised, owed>> PROVE KeepsPromise'
  BY <1>a, <1>b, SameFlash DEF KeepsPromise
<1>1. CASE StoreOnly
  <2>1. CASE WriteKey \/ EraseKey
    BY <1>a, <2>1 DEF WriteKey, EraseKey, Ongoing, KeepsPromise
  <2>2. CASE ReadBack
    <3>1. CASE SameSettings
      <4>1. Loaded = target
        BY <1>a, <3>1, LoadsWhole DEF SameSettings, ConfigTypeOK
      <4> QED BY <2>2, <3>1, <4>1, SameFlash DEF ReadBack, Promises, KeepsPromise
    <3>2. CASE ~ SameSettings
      BY <1>b, <2>2, <3>2 DEF ReadBack
    <3> QED BY <3>1, <3>2
  <2>3. CASE SaveFailed
    <3>1. CASE faults = "none"
      <4>1. \A k \in Keys : stored[k] = values[k]
        BY <1>a, <2>3, <3>1 DEF SaveFailed, Ongoing, ConfigAssumption
      <4>2. \A k \in Keys : values[k] # Unset
        BY <1>a DEF ConfigTypeOK, Settings, ConfigAssumption
      <4>3. \A k \in Keys : ReadStored[k] = values[k]
        BY <4>1, <4>2 DEF ReadStored
      <4>4. Loaded = values
        BY <1>a, <4>3, LoadsWhole DEF ConfigTypeOK
      <4> QED BY <2>3, <3>1, <4>4, SameFlash DEF SaveFailed, Promises, KeepsPromise
    <3>2. CASE faults # "none"
      BY <2>3, <3>2 DEF SaveFailed, PromisesNothing, KeepsPromise
    <3> QED BY <3>1, <3>2
  <2>4. CASE Erased
    <3>1. CASE faults = "none"
      <4>1. \A k \in Keys : stored[k] = Unset
        BY <1>a, <2>4, <3>1 DEF Erased, Ongoing, ConfigAssumption
      <4>2. \A k \in Keys : ReadStored[k] = Default[k]
        BY <4>1 DEF ReadStored
      <4>3. Loaded = Default
        BY <4>2, LoadsWhole, DefaultTyped
      <4> QED BY <2>4, <3>1, <4>3, SameFlash DEF Erased, Promises, KeepsPromise
    <3>2. CASE faults # "none"
      BY <2>4, <3>2 DEF Erased, PromisesNothing, KeepsPromise
    <3> QED BY <3>1, <3>2
  <2>5. CASE WipeAll \/ \E given \in [Keys -> Value \cup {Unset}] : phase = "run" /\ Save(given)
    BY <2>5 DEF WipeAll, Save, PromisesNothing, KeepsPromise
  <2> QED BY <1>1, <2>1, <2>2, <2>3, <2>4, <2>5 DEF StoreOnly
<1>2. CASE UNCHANGED configVars \/ Answered \/ ConfigLost
  BY <1>b, <1>2 DEF configVars, Answered, ConfigLost
<1>3. CASE SetsUp
  BY <1>3, SameFlash DEF SetsUp, Load, Promises, KeepsPromise
<1> QED BY <1>a, <1>1, <1>2, <1>3, StepKinds

-------------------------------------------------------------------------------
(* The boot guard.                                                         *)

LEMMA GuardInvInit == ASSUME BootGuardAssumption, Init PROVE GuardInv
<1>1. GuardTypeOK
  BY DEF Init, GuardInit, GuardTypeOK, Image, BootGuardAssumption
<1>2. Covered /\ RollbackEarned
  BY DEF Init, GuardInit, Covered, Covers, RollbackEarned
<1> QED BY <1>1, <1>2 DEF GuardInv

\* What a step of the guard does to the flash and the tally.
LEMMA TallyTyped ==
    ASSUME BootGuardAssumption, GuardTypeOK, NEW n \in 0..FAIL_CAP, SetFailCount(n)
    PROVE  fails' \in 0..FAIL_CAP /\ flashFails' \in 0..FAIL_CAP
BY DEF GuardTypeOK, SetFailCount

LEMMA ClearTyped ==
    ASSUME BootGuardAssumption, GuardTypeOK, Clear
    PROVE  /\ fails' \in 0..FAIL_CAP /\ flashFails' \in 0..FAIL_CAP
           /\ crashes' \in 0..MAX_FAILED_BOOTS
<1>1. 0 \in 0..FAIL_CAP /\ 0 \in 0..MAX_FAILED_BOOTS
  BY DEF BootGuardAssumption
<1> QED BY <1>1, TallyTyped DEF Clear, GuardTypeOK

LEMMA GuardTypeStep ==
    ASSUME BootGuardAssumption, GuardTypeOK, GuardOnly \/ Resets \/ WipeGuard \/ SetsUp
    PROVE  GuardTypeOK'
<1>a. 0 \in 0..FAIL_CAP /\ 0 \in 0..MAX_FAILED_BOOTS /\ Other(running) \in Slot
  BY DEF BootGuardAssumption, GuardTypeOK, Other
<1>b. CountedUp \in 0..FAIL_CAP
  BY DEF BootGuardAssumption, GuardTypeOK, CountedUp
<1>1. CASE Boots
  BY <1>1 DEF Boots, GuardTypeOK
<1>2. CASE Counts
  BY <1>2, <1>b, TallyTyped DEF Counts, GuardTypeOK
<1>3. CASE Full
  BY <1>3, ClearTyped DEF Full, GuardTypeOK
<1>4. CASE RollsBack
  BY <1>a, <1>4 DEF RollsBack, Off, GuardTypeOK
<1>5. ASSUME MarkStable
      PROVE  /\ stable' = "yes" /\ crashes' \in 0..MAX_FAILED_BOOTS
             /\ fails' \in 0..FAIL_CAP /\ flashFails' \in 0..FAIL_CAP
  BY <1>5, ClearTyped DEF MarkStable, GuardTypeOK
<1>6. CASE Tick \/ MarkedRestart("run") \/ MarkedRestart("flashed")
  BY <1>5, <1>6 DEF Tick, MarkedRestart, GuardTypeOK
<1>7. CASE UploadStarts \/ \E image \in {"good", "bad", "torn"} : UploadEnds(image)
  <2>1. slot' \in [Slot -> Image]
    BY <1>7 DEF UploadStarts, UploadEnds, GuardTypeOK, Image
  <2> QED BY <1>7, <2>1 DEF UploadStarts, UploadEnds, GuardTypeOK
<1>8. CASE UploadAborts \/ Activates
  BY <1>a, <1>8 DEF UploadAborts, Activates, GuardTypeOK
<1>9. CASE WipeGuard
  BY <1>a, <1>9 DEF WipeGuard, GuardTypeOK
<1>10. CASE Restarts \/ PowerCut
  BY <1>a, <1>10 DEF Restarts, PowerCut, Off, GuardTypeOK
<1>11. CASE Crashes
  <2>1. crashes' \in 0..MAX_FAILED_BOOTS
    BY <1>11 DEF Crashes, GuardTypeOK, BootGuardAssumption
  <2> QED BY <1>a, <1>11, <2>1 DEF Crashes, Off, GuardTypeOK
<1>12. CASE SetsUp
  BY <1>12 DEF SetsUp, GuardTypeOK
<1> QED BY <1>1, <1>2, <1>3, <1>4, <1>6, <1>7, <1>8, <1>9, <1>10, <1>11, <1>12
        DEF GuardOnly, Resets

\* A clearing covers what it leaves of the tally.
LEMMA ClearCovers ==
    ASSUME BootGuardAssumption, GuardTypeOK, Covers(flashFails), Clear
    PROVE  Covers(flashFails)'
BY DEF BootGuardAssumption, GuardTypeOK, Clear, SetFailCount, Covers

\* A step out of the boot's own, in which the next boot will find nothing to count.
LEMMA QuietStep ==
    ASSUME Covers(flashFails)', phase' \notin {"count", "full"}, why' # "crash",
           phase' # "off" => why' = "read"
    PROVE  Covered' /\ RollbackEarned'
BY DEF Covered, RollbackEarned

LEMMA CoveredStep ==
    ASSUME BootGuardAssumption, GuardTypeOK, Covered, RollbackEarned,
           GuardOnly \/ Resets \/ WipeGuard \/ SetsUp
    PROVE  Covered' /\ RollbackEarned'
<1>a. ASSUME UNCHANGED <<flashFails, crashes>> PROVE Covers(flashFails)'
  BY <1>a DEF Covered, Covers
<1>1. CASE Boots
  <2>1. flashFails' = flashFails /\ crashes' = crashes /\ fails' = flashFails
    BY <1>1 DEF Boots
  <2>2. why' = "read" /\ phase' \in {"count", "setup"} /\ (phase' = "count" => why = "crash")
    BY <1>1 DEF Boots, Crashed
  <2> QED BY <2>1, <2>2 DEF Covered, Covers, RollbackEarned
<1>2. CASE Counts
  <2>1. fails = flashFails /\ Covers(flashFails + 1) /\ why' = "read" /\ crashes' = crashes
    BY <1>2 DEF Counts, Covered
  <2>2. flashFails' = flashFails \/ flashFails' = CountedUp
    BY <1>2 DEF Counts, SetFailCount
  <2>3. CountedUp <= flashFails + 1 /\ CountedUp \in Nat /\ flashFails \in Nat /\ crashes \in Nat
    BY <2>1 DEF CountedUp, GuardTypeOK, BootGuardAssumption
  <2>4. Covers(flashFails)'
    BY <2>1, <2>2, <2>3 DEF Covers, BootGuardAssumption
  <2>5. phase' \in {"full", "setup"} /\ (phase' = "full" => CountedUp >= MAX_FAILED_BOOTS)
    BY <1>2 DEF Counts
  <2>6. phase' = "full" => crashes' >= MAX_FAILED_BOOTS
    BY <2>1, <2>3, <2>5 DEF Covers, BootGuardAssumption
  <2> QED BY <2>1, <2>4, <2>5, <2>6 DEF Covered, RollbackEarned
<1>3. CASE Full
  <2>1. Covers(flashFails)'
    BY <1>3, ClearCovers DEF Full, Covered
  <2> QED BY <1>3, <2>1, QuietStep DEF Full, Covered
<1>4. CASE RollsBack \/ Restarts \/ PowerCut
  BY <1>a, <1>4, QuietStep DEF RollsBack, Restarts, PowerCut, Off
<1>5. ASSUME MarkStable PROVE Covers(flashFails)'
  BY <1>5, <1>a, ClearCovers DEF MarkStable, Covered
<1>6. CASE Tick \/ MarkedRestart("run") \/ MarkedRestart("flashed")
  BY <1>5, <1>6, QuietStep DEF Tick, MarkedRestart, Covered
<1>7. CASE UploadStarts \/ UploadAborts \/ Activates
        \/ \E image \in {"good", "bad", "torn"} : UploadEnds(image)
  BY <1>7, <1>a, QuietStep DEF UploadStarts, UploadAborts, Activates, UploadEnds, Covered
<1>8. CASE WipeGuard
  <2>1. Covers(flashFails)'
    BY <1>8, <1>a DEF WipeGuard, Covers, BootGuardAssumption
  <2> QED BY <1>8, <2>1, QuietStep DEF WipeGuard, Covered
<1>9. CASE Crashes
  <2>1. Covers(flashFails)
    BY DEF Covered
  <2>2. Covers(flashFails)' /\ Covers(flashFails + 1)'
    BY <1>9, <2>1 DEF Crashes, Covers, GuardTypeOK, BootGuardAssumption
  <2> QED BY <1>9, <2>2 DEF Crashes, Off, Covered, RollbackEarned
<1>10. CASE SetsUp
  BY <1>10, <1>a, QuietStep DEF SetsUp, Covered
<1> QED BY <1>1, <1>2, <1>3, <1>4, <1>6, <1>7, <1>8, <1>9, <1>10 DEF GuardOnly, Resets

-------------------------------------------------------------------------------
LEMMA GuardKept == ASSUME GuardInv, UNCHANGED guardVars PROVE GuardInv'
BY DEF GuardInv, guardVars, GuardTypeOK, Covered, Covers, RollbackEarned

LEMMA ConfigKept == ASSUME ConfigInv, UNCHANGED vars PROVE ConfigInv'
BY SameFlash DEF ConfigInv, vars, configVars, guardVars, ConfigTypeOK, Ongoing, KeepsPromise

LEMMA DeviceInvariant ==
    ASSUME ConfigAssumption, BootGuardAssumption
    PROVE  Spec => [](ConfigInv /\ GuardInv)
<1>1. Init => ConfigInv /\ GuardInv
  BY ConfigInvInit, GuardInvInit
<1>2. ConfigInv /\ GuardInv /\ [Next]_vars => (ConfigInv /\ GuardInv)'
  <2> SUFFICES ASSUME ConfigInv, GuardInv, [Next]_vars
               PROVE  ConfigInv' /\ GuardInv'
    OBVIOUS
  <2>1. CASE Next
    <3>1. ConfigInv'
      BY <2>1, ConfigTypeStep, OngoingStep, PromiseStep DEF ConfigInv
    <3>2. UNCHANGED guardVars \/ GuardOnly \/ Resets \/ WipeGuard \/ SetsUp
      BY <2>1, StepKinds DEF ConfigInv
    <3>3. GuardInv'
      BY <3>2, GuardKept, GuardTypeStep, CoveredStep DEF GuardInv
    <3> QED BY <3>1, <3>3
  <2>2. CASE UNCHANGED vars
    BY <2>2, ConfigKept, GuardKept DEF vars
  <2> QED BY <2>1, <2>2
<1> QED BY <1>1, <1>2, PTL DEF Spec

\* The types of the device, for every number of settings and every limit.
THEOREM DeviceTypeCorrect ==
    ASSUME ConfigAssumption, BootGuardAssumption
    PROVE  Spec => []DeviceTypeOK
<1>1. ConfigInv /\ GuardInv => DeviceTypeOK
  BY DEF ConfigInv, GuardInv, DeviceTypeOK
<1> QED BY <1>1, DeviceInvariant, PTL

\* What was reported as saved, kept or erased is what the next boot loads, for
\* every set of keys and values: no put that fails and no reset breaks it.
THEOREM PromiseKept ==
    ASSUME ConfigAssumption, BootGuardAssumption
    PROVE  Spec => []KeepsPromise
<1>1. ConfigInv /\ GuardInv => KeepsPromise
  BY DEF ConfigInv
<1> QED BY <1>1, DeviceInvariant, PTL

\* The firmware is rolled back only after as many crashes as the limit says, for
\* every limit: power cuts, restarts and failed writes of the tally add none.
THEOREM RollbacksAreEarned ==
    ASSUME ConfigAssumption, BootGuardAssumption
    PROVE  Spec => []RollbackEarned
<1>1. ConfigInv /\ GuardInv => RollbackEarned
  BY DEF GuardInv
<1> QED BY <1>1, DeviceInvariant, PTL
-------------------------------------------------------------------------------
(* The station link, which the same loop task keeps (WifiNet).  A retry    *)
(* is booked no sooner than the backoff says, counted from the attempt     *)
(* before it: the delay it is booked with is at least twice that attempt's *)
(* own, up to the ceiling, and time takes from the one what it adds to the *)
(* other.                                                                  *)

\* What the backoff asks for after the last attempt.
LeastGap == AtMost(2 * lastGap, RETRY_MAX)

Booked ==
    /\ retryDelay \in Nat /\ (retryDelay = 0 \/ retryDelay >= RETRY_FIRST)
    /\ lastGap \in Nat /\ retryDelay >= AtMost(lastGap, RETRY_MAX)
    /\ retryIn \in Nat \cup {None} /\ tryFor \in Nat \cup {None}
    /\ retryIn # None /\ tryFor # None =>
          tryFor + retryIn >= LeastGap /\ tryFor + retryIn >= RETRY_FIRST

LEMMA Delays ==
    /\ RETRY_FIRST \in Nat /\ RETRY_MAX \in Nat /\ RETRY_MAX_PORTAL \in Nat
    /\ RETRY_FIRST > 0 /\ RETRY_FIRST <= RETRY_MAX /\ RETRY_MAX <= RETRY_MAX_PORTAL
    /\ RETRY_RESET \in Nat
BY WifiAssumption

\* scheduleRetry() at least doubles the delay, or reaches a ceiling.
LEMMA DelayGrows ==
    ASSUME Booked
    PROVE  /\ NextDelay \in Nat /\ NextDelay >= RETRY_FIRST
           /\ NextDelay >= AtMost(2 * retryDelay, RETRY_MAX)
           /\ NextDelay >= LeastGap /\ NextDelay >= AtMost(lastGap, RETRY_MAX)
<1>1. PICK d, g, n : d = retryDelay /\ g = lastGap /\ n = NextDelay
  OBVIOUS
<1>2. /\ d \in Nat /\ (d = 0 \/ d >= RETRY_FIRST) /\ g \in Nat
      /\ d >= IF g > RETRY_MAX THEN RETRY_MAX ELSE g
  BY <1>1 DEF Booked, AtMost
<1>3. \/ d = 0 /\ n = RETRY_FIRST
      \/ d # 0 /\ n = IF d * 2 > RETRY_MAX THEN RETRY_MAX ELSE d * 2
      \/ d # 0 /\ n = IF d * 2 > RETRY_MAX_PORTAL THEN RETRY_MAX_PORTAL ELSE d * 2
  BY <1>1 DEF NextDelay, AtMost
<1>4. n \in Nat /\ n >= RETRY_FIRST /\ n >= IF 2 * d > RETRY_MAX THEN RETRY_MAX ELSE 2 * d
  BY <1>2, <1>3, Delays
<1>5. /\ n >= IF 2 * g > RETRY_MAX THEN RETRY_MAX ELSE 2 * g
      /\ n >= IF g > RETRY_MAX THEN RETRY_MAX ELSE g
  BY <1>2, <1>4, Delays
<1> QED BY <1>1, <1>4, <1>5 DEF LeastGap, AtMost

LEMMA BookedKept == Booked /\ [WifiNext]_wifiVars => Booked'
<1> SUFFICES ASSUME Booked, [WifiNext]_wifiVars PROVE Booked'
  OBVIOUS
<1>1. CASE UNCHANGED <<retryDelay, retryIn, tryFor, lastGap>>
  BY <1>1 DEF Booked, LeastGap, None, AtMost
<1>2. CASE Environment \/ OnWifiEvent \/ UNCHANGED wifiVars
  BY <1>1, <1>2 DEF Environment, Elsewhere, OnWifiEvent, wifiVars, loopVars,
     ghosts
<1>3. CASE TickDown \/ TickKick \/ TickPortal
  BY <1>1, <1>3 DEF TickDown, TickKick, TickPortal, ghosts
<1>4. CASE TickUp
  <2>1. tryFor' = tryFor /\ (retryIn' = retryIn \/ retryIn' = None)
    BY <1>4 DEF TickUp, Edge
  <2>2. \/ retryDelay' = retryDelay /\ lastGap' = lastGap
        \/ retryDelay' = 0 /\ lastGap' = 0
    BY <1>4 DEF TickUp
  <2>3. LeastGap \in Nat /\ (LeastGap' = LeastGap \/ LeastGap' = 0)
    BY <2>2, Delays DEF Booked, LeastGap, AtMost
  <2>4. retryDelay' \in Nat /\ lastGap' \in Nat /\ (retryDelay' = 0 \/ retryDelay' >= RETRY_FIRST)
        /\ retryDelay' >= AtMost(lastGap', RETRY_MAX)
    BY <2>2, Delays DEF Booked, AtMost
  <2>5. ASSUME retryIn' # None, tryFor' # None
        PROVE  tryFor' + retryIn' >= LeastGap' /\ tryFor' + retryIn' >= RETRY_FIRST
    <3>1. retryIn' = retryIn /\ tryFor \in Nat /\ retryIn \in Nat
      BY <2>1, <2>5 DEF Booked
    <3>2. tryFor + retryIn >= LeastGap /\ tryFor + retryIn >= RETRY_FIRST
      BY <2>1, <2>5, <3>1 DEF Booked
    <3> QED BY <2>1, <2>3, <3>1, <3>2
  <2> QED BY <2>1, <2>4, <2>5 DEF Booked
<1>5. CASE TickFail
  <2>1. UNCHANGED <<tryFor, lastGap>>
    BY <1>5 DEF TickFail, ghosts
  <2>2. CASE UNCHANGED <<retryDelay, retryIn>>
    BY <1>1, <2>1, <2>2
  <2>3. CASE ScheduleRetry
    <3>1. PICK n : n = NextDelay
      OBVIOUS
    <3>2. /\ n \in Nat /\ n >= RETRY_FIRST /\ n >= LeastGap /\ n >= AtMost(lastGap, RETRY_MAX)
      BY <3>1, DelayGrows
    <3>3. retryDelay' = n /\ retryIn' = n /\ LeastGap' = LeastGap
      BY <2>1, <2>3, <3>1 DEF ScheduleRetry, LeastGap, AtMost
    <3>4. LeastGap \in Nat
      BY Delays DEF Booked, LeastGap, AtMost
    <3> QED BY <2>1, <3>2, <3>3, <3>4, Delays DEF Booked
  <2> QED BY <1>5, <2>2, <2>3 DEF TickFail
<1>6. CASE TickConnect
  <2>1. CASE retryIn # 0
    BY <1>1, <1>6, <2>1 DEF TickConnect
  <2>2. CASE retryIn = 0
    <3>1. /\ tryFor' = 0 /\ lastGap' = retryDelay
          /\ \/ retryIn' = None /\ retryDelay' = retryDelay
             \/ ScheduleRetry
      BY <1>6, <2>2 DEF TickConnect
    <3>2. CASE retryIn' = None /\ retryDelay' = retryDelay
      BY <3>1, <3>2, Delays DEF Booked, AtMost
    <3>3. CASE ScheduleRetry
      <4>1. PICK d, n : d = retryDelay /\ n = NextDelay
        OBVIOUS
      <4>2. /\ d \in Nat /\ n \in Nat /\ n >= RETRY_FIRST
            /\ n >= IF 2 * d > RETRY_MAX THEN RETRY_MAX ELSE 2 * d
        BY <4>1, DelayGrows DEF Booked, AtMost
      <4>3. retryDelay' = n /\ retryIn' = n /\ tryFor' = 0 /\ lastGap' = d
        BY <3>1, <3>3, <4>1 DEF ScheduleRetry
      <4>4. LeastGap' = IF 2 * d > RETRY_MAX THEN RETRY_MAX ELSE 2 * d
        BY <4>3 DEF LeastGap, AtMost
      <4>5. n >= IF d > RETRY_MAX THEN RETRY_MAX ELSE d
        BY <4>2, Delays
      <4>6. retryDelay' >= AtMost(lastGap', RETRY_MAX)
        BY <4>3, <4>5 DEF AtMost
      <4>7. tryFor' + retryIn' >= LeastGap' /\ tryFor' + retryIn' >= RETRY_FIRST
        BY <4>2, <4>3, <4>4, Delays
      <4> QED BY <4>2, <4>3, <4>6, <4>7 DEF Booked
    <3> QED BY <3>1, <3>2, <3>3
  <2> QED BY <2>1, <2>2
<1>7. CASE TimePasses
  <2>1. /\ UNCHANGED <<retryDelay, lastGap>>
        /\ retryIn' = IF retryIn > 0 THEN retryIn - 1 ELSE retryIn
        /\ tryFor' = Older(tryFor, RETRY_MAX + 1)
    BY <1>7 DEF TimePasses
  <2>2. retryIn' \in Nat \cup {None} /\ tryFor' \in Nat \cup {None}
    BY <2>1, Delays DEF Booked, Older, AtMost, None
  <2>3. LeastGap' = LeastGap /\ LeastGap \in Nat /\ LeastGap <= RETRY_MAX
    BY <2>1, Delays DEF Booked, LeastGap, AtMost
  <2>4. ASSUME retryIn' # None, tryFor' # None
        PROVE  tryFor' + retryIn' >= LeastGap /\ tryFor' + retryIn' >= RETRY_FIRST
    <3>1. tryFor \in Nat /\ retryIn \in Nat
      BY <2>1, <2>4 DEF Booked, Older, None
    <3>2. tryFor + retryIn >= LeastGap /\ tryFor + retryIn >= RETRY_FIRST
      BY <3>1 DEF Booked, None
    <3>3. tryFor' = IF tryFor + 1 > RETRY_MAX + 1 THEN RETRY_MAX + 1 ELSE tryFor + 1
      BY <2>1, <3>1 DEF Older, AtMost, None
    <3>4. retryIn' \in Nat /\ retryIn' + 1 >= retryIn
      BY <2>1, <3>1
    <3>5. PICK a, t, r, u, v : /\ a = LeastGap /\ t = tryFor /\ r = retryIn
                               /\ u = tryFor' /\ v = retryIn'
      OBVIOUS
    <3>6. /\ a \in Nat /\ t \in Nat /\ r \in Nat /\ v \in Nat
          /\ a <= RETRY_MAX /\ t + r >= a /\ t + r >= RETRY_FIRST /\ v + 1 >= r
          /\ u = IF t + 1 > RETRY_MAX + 1 THEN RETRY_MAX + 1 ELSE t + 1
      BY <2>3, <3>1, <3>2, <3>3, <3>4, <3>5
    <3>7. u + v >= a /\ u + v >= RETRY_FIRST
      BY <3>6, Delays
    <3> QED BY <3>5, <3>7
  <2> QED BY <2>1, <2>2, <2>3, <2>4 DEF Booked
<1> QED
  BY <1>2, <1>3, <1>4, <1>5, <1>6, <1>7 DEF WifiNext, WifiTick

LEMMA BookedAtFirst == WifiInit => Booked
BY Delays DEF WifiInit, Booked, None, AtMost

\* Failing attempts to join are never retried faster than the backoff says, through
\* refusals, kicks, the setup AP's other ceiling and links that do not hold.
THEOREM RetriesBackOff == WifiSpec => RetryBackedOff
<1>1. ASSUME Booked, retryIn = 0, tryFor # None
      PROVE  tryFor >= LeastGap /\ tryFor >= RETRY_FIRST
  <2>1. tryFor \in Nat /\ retryIn # None
    BY <1>1 DEF Booked, None
  <2>2. tryFor + retryIn >= LeastGap /\ tryFor + retryIn >= RETRY_FIRST
    BY <1>1, <2>1 DEF Booked
  <2>3. tryFor + retryIn = tryFor
    BY <1>1, <2>1
  <2> QED BY <2>2, <2>3
<1>2. Booked /\ [WifiNext]_wifiVars =>
        [pc = "connect" /\ retryIn = 0 /\ pc' = "kick" /\ tryFor # None =>
           tryFor >= AtMost(2 * lastGap, RETRY_MAX) /\ tryFor >= RETRY_FIRST]_wifiVars
  BY <1>1 DEF LeastGap
<1>3. WifiInit => Booked
  BY BookedAtFirst
<1>4. Booked /\ [WifiNext]_wifiVars => Booked'
  BY BookedKept
<1> QED BY <1>2, <1>3, <1>4, PTL DEF WifiSpec, RetryBackedOff

===============================================================================
