--------------------------------- MODULE Config ----------------------------------
(***************************************************************************)
(* The settings store (src/src/config.cpp) and the two requests that       *)
(* change it (the configuration form and the settings file, web_ui.cpp).   *)
(* A save puts one key after the other in the flash, reads all of them     *)
(* back, and on a difference puts the running settings there again; every  *)
(* put may fail, and the device may stop between any two of them (Device). *)
(*                                                                         *)
(* A setting is one key with a value of a small set; what load() and the   *)
(* requests accept for it is Offered.  A value that was stored by another  *)
(* version may be none of those.                                           *)
(***************************************************************************)
EXTENDS Integers

CONSTANTS NKeys, Value, Unset, Default, Offered

Keys == 1..NKeys

ASSUME ConfigAssumption ==
    /\ NKeys \in Nat \ {0} /\ Unset \notin Value
    /\ Default \in [Keys -> Value] /\ Offered \in [Keys -> SUBSET Value]
    /\ \A k \in Keys : Default[k] \in Offered[k]

Settings == {v \in [Keys -> Value] : \A k \in Keys : v[k] \in Offered[k]}

VARIABLES
    stored,             \* the namespace midicfg in the flash
    values,             \* the running settings
    target, key,        \* what save() is to store, and the next key
    doing,              \* what the loop task does with the store
    promised, owed,     \* for the properties: what the next boot is to load, if
                        \* anything is promised
    faults              \* for the properties: whether a write of this pass failed

configVars == <<stored, values, target, key, doing, promised, owed, faults>>

ConfigTypeOK ==
    /\ stored \in [Keys -> Value \cup {Unset}]
    /\ values \in Settings /\ target \in Settings /\ promised \in Settings
    /\ key \in 1..(NKeys + 1)
    /\ doing \in {"nothing", "write", "restore", "saved", "wipe", "wiped"}
    /\ owed \in {"yes", "no"} /\ faults \in {"none", "some"}

ConfigInit ==
    /\ stored \in [Keys -> Value \cup {Unset}]
    /\ values = Default /\ target = Default /\ key = 1 /\ doing = "nothing"
    /\ promised = Default /\ owed = "no" /\ faults = "none"

-------------------------------------------------------------------------------
\* readStored(): the default for what was never stored.
ReadStored == [k \in Keys |-> IF stored[k] = Unset THEN Default[k] ELSE stored[k]]

\* load(): and for what this version does not offer.
Loaded == [k \in Keys |->
    IF ReadStored[k] \in Offered[k] THEN ReadStored[k] ELSE Default[k]]

Promises(settings) == promised' = settings /\ owed' = "yes"
PromisesNothing == promised' = Default /\ owed' = "no"

Load ==
    /\ values' = Loaded
    /\ Promises(Loaded)
    /\ UNCHANGED <<stored, target, key, doing, faults>>

\* The form, or a settings file: what it gives is laid over the running
\* settings, and the whole is refused for one value that is not accepted.
Asked(given) == [k \in Keys |-> IF given[k] = Unset THEN values[k] ELSE given[k]]

Save(given) ==
    /\ doing = "nothing" /\ doing' = "write"
    /\ Asked(given) \in Settings /\ target' = Asked(given)
    /\ key' = 1
    /\ PromisesNothing
    /\ UNCHANGED <<stored, values, faults>>

\* writeAll(), of the new settings or of the running ones; a put that fails
\* says so, and no one listens.
Written == IF doing = "write" THEN target ELSE values

PutWorks ==
    /\ stored' = [stored EXCEPT ![key] = Written[key]]
    /\ UNCHANGED faults
PutFails == faults' = "some" /\ UNCHANGED stored
WriteKey ==
    /\ doing \in {"write", "restore"} /\ key \in Keys
    /\ PutWorks \/ PutFails
    /\ key' = key + 1
    /\ UNCHANGED <<values, target, doing, promised, owed>>

Unread == TRUE
SameSettings == ReadStored = target

ReadBack ==
    /\ doing = "write" /\ key = NKeys + 1
    /\ key' = 1 /\ faults' = "none"
    /\ IF SameSettings
       THEN /\ values' = target /\ doing' = "saved"
            /\ Promises(target)
       ELSE doing' = "restore" /\ UNCHANGED <<values, promised, owed>>
    /\ UNCHANGED <<stored, target>>

\* save() returns false.  The settings are the running ones again, unless a
\* write failed here too.
SaveFailed ==
    /\ doing = "restore" /\ key = NKeys + 1
    /\ doing' = "nothing" /\ key' = 1 /\ faults' = "none"
    /\ IF faults = "none" THEN Promises(values) ELSE PromisesNothing
    /\ UNCHANGED <<stored, values, target>>

\* wipeAll(): its first half, the erasing of the namespace; a fault ends it.
WipeAll ==
    /\ doing = "nothing" /\ doing' = "wipe"
    /\ key' = 1 /\ faults' = "none"
    /\ PromisesNothing
    /\ UNCHANGED <<stored, values, target>>

EraseKey ==
    /\ doing = "wipe" /\ key \in Keys
    /\ \/ stored' = [stored EXCEPT ![key] = Unset] /\ key' = key + 1 /\ UNCHANGED faults
       \/ key' = NKeys + 1 /\ faults' = "some" /\ UNCHANGED stored
    /\ UNCHANGED <<values, target, doing, promised, owed>>

Erased ==
    /\ doing = "wipe" /\ key = NKeys + 1
    /\ doing' = "wiped" /\ key' = 1 /\ faults' = "none"
    /\ IF faults = "none" THEN Promises(Default) ELSE PromisesNothing
    /\ UNCHANGED <<stored, values, target>>

\* The request is answered; the memory is lost.
Answered == doing' = "nothing" /\ UNCHANGED <<stored, values, target, key, promised, owed, faults>>
ConfigLost ==
    /\ values' = Default /\ target' = Default /\ key' = 1
    /\ doing' = "nothing" /\ faults' = "none"
    /\ UNCHANGED <<stored, promised, owed>>

-------------------------------------------------------------------------------
\* What was reported as saved, or the running settings after a save that failed
\* (and whose way back did not), or the defaults after a factory reset, is what
\* the next boot loads -- whatever puts fail, and wherever the power is cut
\* (config.cpp:83-88, "What reads back is what the next boot will load").  Nothing is
\* promised while keys are being written or erased, although the page says "Settings
\* erased" before the first is (web_ui.cpp:1664-1666), nor after a way back that failed.
KeepsPromise == owed = "yes" => Loaded = promised
===============================================================================
