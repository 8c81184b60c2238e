-------------------------------- MODULE WifiNet ---------------------------------
(***************************************************************************)
(* The station link (src/src/wifi_net.cpp): the WiFi event task records    *)
(* what happened, the loop task's tick() acts on it -- paced retries, the  *)
(* reconnect kick under them, and the setup AP when the station stays      *)
(* down.  tick() reads s_staUp once; events come between any two of its    *)
(* steps.  The driver and the access point are the environment: an attempt *)
(* may succeed, fail, or never report back, a link may drop or lose its    *)
(* address at any time, and what happens is told in order, but later.      *)
(*                                                                         *)
(* A time stamp the code subtracts from millis() is its age here, counted  *)
(* as far as it is compared with; the two fail counters, compared only for *)
(* equality, are one flag.  Bound: MaxEvents untold events.                *)
(***************************************************************************)
EXTENDS Integers, Sequences

CONSTANTS
    AP_FALLBACK, KICK_EVERY,
    RETRY_FIRST, RETRY_MAX, RETRY_MAX_PORTAL, RETRY_RESET,
    MaxEvents

ASSUME WifiAssumption ==
    /\ {AP_FALLBACK, KICK_EVERY, RETRY_FIRST, RETRY_RESET, MaxEvents} \subseteq Nat \ {0}
    /\ RETRY_MAX \in Nat /\ RETRY_FIRST <= RETRY_MAX
    /\ RETRY_MAX_PORTAL \in Nat /\ RETRY_MAX <= RETRY_MAX_PORTAL

VARIABLES
    staUp, fail,            \* s_staUp; s_failEvents # s_failSeen
    station, events,        \* the driver, and what the event task has not been told
    pc, wasUp, apActive,    \* the loop task, s_wasUp, apActive
    upFor, downFor, kickFor,        \* since s_upSinceMs, s_disconnectedSinceMs, s_lastKickMs
    retryDelay, retryIn,            \* s_retryDelayMs, s_retryAtMs while s_retryPending
    tryFor, lastGap                 \* for the properties

linkVars == <<staUp, fail, station, events>>
loopVars == <<wasUp, apActive, upFor, downFor, kickFor, retryDelay, retryIn>>
ghosts == <<tryFor, lastGap>>
wifiVars == <<linkVars, pc, loopVars, ghosts>>

None == -1
AtMost(a, b) == IF a > b THEN b ELSE a
Older(age, cap) == IF age = None THEN None ELSE AtMost(age + 1, cap)

WifiInit ==
    /\ staUp = "no" /\ fail = "seen" /\ station = "joining" /\ events = <<>>
    /\ pc = "idle" /\ wasUp = "no" /\ apActive = "no"
    /\ upFor = 0 /\ downFor = None /\ kickFor = 0 /\ retryDelay = 0 /\ retryIn = None
    /\ tryFor = None /\ lastGap = 0

-------------------------------------------------------------------------------
(* The driver and the access point.                                        *)

Room == Len(events) < MaxEvents
Tell(e) == Room /\ events' = Append(events, e)

Joins == station = "joining" /\ station' = "up" /\ Tell("got_ip")
Hangs == station = "joining" /\ station' = "stuck" /\ Room /\ UNCHANGED events
FailsToJoin == station = "joining" /\ station' = "off" /\ Tell("disconnected")
Drops == station \in {"up", "noip"} /\ station' = "off" /\ Tell("disconnected")
LosesIp == station = "up" /\ station' = "noip" /\ Tell("lost_ip")
RegainsIp == station = "noip" /\ station' = "up" /\ Tell("got_ip")

Elsewhere == UNCHANGED <<staUp, fail, pc, loopVars, ghosts>>
Environment == (Joins \/ Hangs \/ FailsToJoin \/ Drops \/ LosesIp \/ RegainsIp) /\ Elsewhere

\* esp_wifi_connect(): starts an attempt, or finds one going on or a link.
Connects == station = "off" /\ station' = "joining"
Busy == station # "off" /\ UNCHANGED station

\* WiFi.reconnect(): leaves whatever there is, and tries anew.
Reconnects ==
    /\ station' = "joining"
    /\ IF station = "off" THEN UNCHANGED events ELSE Tell("left")

\* onWifiEvent(): this station's own leave, the kick's, is no failure to act on.
OnWifiEvent ==
    /\ events # <<>>
    /\ events' = Tail(events)
    /\ staUp' = IF Head(events) = "got_ip" THEN "yes" ELSE "no"
    /\ fail' = IF Head(events) = "disconnected" THEN "new" ELSE fail
    /\ UNCHANGED <<station, pc, loopVars, tryFor, lastGap>>

-------------------------------------------------------------------------------
(* tick().                                                                 *)

\* The link comes up, to the loop task: the timers start over and the setup AP closes.

Edge ==
    IF staUp = "yes" /\ wasUp = "no"
    THEN downFor' = None /\ upFor' = 0 /\ retryIn' = None /\ apActive' = "no"
    ELSE UNCHANGED <<downFor, upFor, retryIn, apActive>>

TickUp ==
    /\ pc = "idle" /\ staUp = "yes"
    /\ Edge
    /\ wasUp' = "yes"
    /\ retryDelay' = IF upFor' > RETRY_RESET THEN 0 ELSE retryDelay
    /\ lastGap' = IF upFor' > RETRY_RESET THEN 0 ELSE lastGap
    /\ UNCHANGED <<linkVars, pc, kickFor, tryFor>>

DownForAnew == 0
DownFor == IF downFor = None THEN 0 ELSE downFor

TickDown ==
    /\ pc = "idle" /\ staUp = "no"
    /\ wasUp' = "no"
    /\ downFor' = DownFor
    /\ pc' = "retry"
    /\ UNCHANGED <<linkVars, apActive, upFor, kickFor, retryDelay, retryIn, ghosts>>

\* scheduleRetry()
NextDelayFirst == RETRY_FIRST
NextDelay ==
    IF retryDelay = 0 THEN RETRY_FIRST
    ELSE AtMost(retryDelay * 2, IF apActive = "yes" THEN RETRY_MAX_PORTAL ELSE RETRY_MAX)
ScheduleRetry == retryDelay' = NextDelay /\ retryIn' = NextDelay

\* Every failed attempt books the next one.
TickFail ==
    /\ pc = "retry"
    /\ pc' = "connect"
    /\ fail' = "seen"
    /\ IF fail = "new" THEN ScheduleRetry ELSE UNCHANGED <<retryDelay, retryIn>>
    /\ UNCHANGED <<staUp, station, events, wasUp, apActive, upFor, downFor, kickFor, ghosts>>

\* What a driver that is busy answers is its own affair; a refusal books another.
TickConnect ==
    /\ pc = "connect"
    /\ pc' = "kick"
    /\ IF retryIn = 0
       THEN /\ tryFor' = 0 /\ lastGap' = retryDelay
            /\ \/ (Connects \/ Busy) /\ retryIn' = None /\ UNCHANGED retryDelay
               \/ UNCHANGED station /\ ScheduleRetry
       ELSE UNCHANGED <<station, retryDelay, retryIn, tryFor, lastGap>>
    /\ UNCHANGED <<staUp, fail, events, wasUp, apActive, upFor, downFor, kickFor>>

KickNever == FALSE
KickDue == downFor > KICK_EVERY /\ kickFor > KICK_EVERY

TickKick ==
    /\ pc = "kick"
    /\ pc' = "portal"
    /\ IF KickDue
       THEN kickFor' = 0 /\ Reconnects
       ELSE UNCHANGED <<kickFor, station, events>>
    /\ UNCHANGED <<staUp, fail, wasUp, apActive, upFor, downFor, retryDelay, retryIn, ghosts>>

TickPortal ==
    /\ pc = "portal"
    /\ pc' = "idle"
    /\ apActive' = IF downFor > AP_FALLBACK THEN "yes" ELSE apActive
    /\ UNCHANGED <<linkVars, wasUp, upFor, downFor, kickFor, retryDelay, retryIn, ghosts>>

\* A pass takes no time to speak of; between two, any.
TimePasses ==
    /\ pc = "idle"
    /\ upFor' = Older(upFor, RETRY_RESET + 1)
    /\ downFor' = Older(downFor, AP_FALLBACK + KICK_EVERY)
    /\ kickFor' = Older(kickFor, KICK_EVERY + 1)
    /\ retryIn' = IF retryIn > 0 THEN retryIn - 1 ELSE retryIn
    /\ tryFor' = Older(tryFor, RETRY_MAX + 1)
    /\ UNCHANGED <<linkVars, pc, wasUp, apActive, retryDelay, lastGap>>

WifiTick == TickUp \/ TickDown \/ TickFail \/ TickConnect \/ TickKick \/ TickPortal

WifiNext == Environment \/ OnWifiEvent \/ WifiTick \/ TimePasses

WifiSpec == WifiInit /\ [][WifiNext]_wifiVars

\* The event task and the loop task run, and time passes.
WifiFairSpec == WifiSpec /\ WF_wifiVars(OnWifiEvent) /\ WF_wifiVars(WifiTick) /\ SF_wifiVars(TimePasses)

-------------------------------------------------------------------------------
(* Properties.                                                             *)

\* Every variable has its type; a retry is booked within the delay.
TypeOK ==
    /\ staUp \in {"yes", "no"} /\ fail \in {"new", "seen"}
    /\ station \in {"off", "joining", "stuck", "up", "noip"}
    /\ pc \in {"idle", "retry", "connect", "kick", "portal"}
    /\ wasUp \in {"yes", "no"} /\ apActive \in {"yes", "no"}
    /\ {upFor, kickFor} \subseteq Nat /\ {downFor, retryIn} \subseteq Nat \cup {None}
    /\ retryDelay \in 0 .. RETRY_MAX_PORTAL /\ retryIn <= retryDelay

\* Failing attempts are never retried faster than the backoff says (55-60): each one at
\* least twice the last delay, up to the ceiling, after the one before, unless a link has
\* held in between.
RetryBackedOff ==
    [][pc = "connect" /\ retryIn = 0 /\ pc' = "kick" /\ tryFor # None =>
         tryFor >= AtMost(2 * lastGap, RETRY_MAX) /\ tryFor >= RETRY_FIRST]_wifiVars

\* A station that is down comes back: drops, failures, refusals, attempts that never
\* report back and lost addresses alike (313-317) -- if of attempts made again and again
\* one gets through.
Recovers == SF_wifiVars(Joins /\ Elsewhere) => (staUp = "no" ~> staUp = "yes")

\* A station that stays down gets the setup AP and keeps it; one that stays up loses it.
PortalFollows ==
    /\ <>[](staUp = "no") => <>[](apActive = "yes")
    /\ <>[](staUp = "yes") => <>[](apActive = "no")
===============================================================================
