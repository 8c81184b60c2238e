------------------------------ MODULE UplinkPacing ------------------------------
(***************************************************************************)
(* The token bucket that paces the datagrams toward the session's peers    *)
(* (uplinkReady() and its use in MidiBridge::tick(), in                    *)
(* src/src/midi_bridge.cpp).                                               *)
(*                                                                         *)
(* Time is in milliseconds and never wraps here; millis() and the code's   *)
(* stored time are kept modulo Wrap.  The loop of uplinkReady() is one     *)
(* step per turn, and time may pass between any two steps.  A tick()       *)
(* without a peer never looks at the bucket.  MidiTask has the pass of     *)
(* which this is a part.                                                   *)
(***************************************************************************)
EXTENDS Integers

CONSTANTS UPLINK_TOKEN_MS,  \* a token per so many milliseconds (10)
          UPLINK_BURST,     \* tokens kept (4)
          Wrap,             \* millis() counts modulo this (2^32)
          MaxNow,           \* bound: milliseconds of a behaviour
          MaxGap            \* bound: milliseconds between two passes that have to wait

ASSUME ConstantsAssumption ==
    /\ UPLINK_TOKEN_MS \in Nat \ {0}
    /\ UPLINK_BURST \in 1 .. 255
    /\ Wrap \in Nat /\ MaxNow \in Nat /\ MaxGap \in Nat
    /\ UPLINK_TOKEN_MS + MaxGap < Wrap

None == -1

VARIABLES
    now,       \* the time; millis() is now % Wrap
    pc,        \* tick(): "idle", "refill" (uplinkReady()), "drain"
    polled,    \* when uplinkReady() was last called
    tokens,    \* s_upTokens, a uint8_t
    refillMs,  \* s_upRefillMs
    \* history
    refillAt,  \* the last time up to polled that s_upRefillMs may stand for
    mark,      \* start of a window, chosen at will
    sent,      \* datagrams that left in it
    waiting    \* the first refusal since a datagram could leave, or None

vars == <<now, pc, polled, tokens, refillMs, refillAt, mark, sent, waiting>>

\* At boot: s_upRefillMs is 0.
Init ==
    /\ now = 0 /\ pc = "idle" /\ polled = 0 /\ tokens = UPLINK_BURST
    /\ refillMs = 0 /\ refillAt = 0
    /\ mark = 0 /\ sent = 0 /\ waiting = None

TimePasses ==
    /\ now < MaxNow
    /\ waiting # None \/ pc = "refill" => now - polled < MaxGap
    /\ now' = now + 1
    /\ UNCHANGED <<pc, polled, tokens, refillMs, refillAt, mark, sent, waiting>>

\* A window starts between two passes.
Mark ==
    /\ pc = "idle"
    /\ mark' = now /\ sent' = 0
    /\ UNCHANGED <<now, pc, polled, tokens, refillMs, refillAt, waiting>>

-------------------------------------------------------------------------------
(* uplinkReady(millis()).                                                  *)

\* uint32_t subtraction.
Since(t) == ((t % Wrap) - refillMs) % Wrap
Elapsed == Since(polled)

Poll ==
    /\ pc = "idle"
    /\ pc' = "refill"
    /\ polled' = now
    /\ refillAt' = now - Since(now)
    /\ UNCHANGED <<now, tokens, refillMs, mark, sent, waiting>>

TokenDueLate == tokens < UPLINK_BURST /\ Elapsed > UPLINK_TOKEN_MS
TokenDue == tokens < UPLINK_BURST /\ Elapsed >= UPLINK_TOKEN_MS

Refill ==
    /\ pc = "refill"
    /\ TokenDue
    /\ tokens' = tokens + 1
    /\ refillMs' = (refillMs + UPLINK_TOKEN_MS) % Wrap
    /\ refillAt' = refillAt + UPLINK_TOKEN_MS
    /\ UNCHANGED <<now, pc, polled, mark, sent, waiting>>

\* A full bucket's next token starts at the next spend.
RestartNever == FALSE
Restart == tokens = UPLINK_BURST

Granted == tokens > 0

RefillEnd ==
    /\ pc = "refill"
    /\ ~TokenDue
    /\ IF Restart
       THEN refillMs' = polled % Wrap /\ refillAt' = polled
       ELSE UNCHANGED <<refillMs, refillAt>>
    /\ IF Granted
       THEN pc' = "drain" /\ waiting' = None
       ELSE pc' = "idle" /\ waiting' = IF waiting = None THEN polled ELSE waiting
    /\ UNCHANGED <<now, polled, tokens, mark, sent>>

-------------------------------------------------------------------------------
(* The rest of tick(): a pass that bridged anything spends a token.        *)

Spend ==
    /\ pc = "drain"
    /\ tokens' = (tokens - 1) % 256
    /\ sent' = sent + 1
    /\ pc' = "idle"
    /\ UNCHANGED <<now, polled, refillMs, refillAt, mark, waiting>>

NothingToSend ==
    /\ pc = "drain"
    /\ pc' = "idle"
    /\ UNCHANGED <<now, polled, tokens, refillMs, refillAt, mark, sent, waiting>>

\* The last peer leaves before a tick(): nobody waits any more.
PeerLeaves ==
    /\ pc = "idle"
    /\ waiting' = None
    /\ UNCHANGED <<now, pc, polled, tokens, refillMs, refillAt, mark, sent>>

Next == TimePasses \/ Mark \/ Poll \/ Refill \/ RefillEnd \/ Spend \/ NothingToSend \/ PeerLeaves

Spec == Init /\ [][Next]_vars

-------------------------------------------------------------------------------
(* Properties.                                                             *)

\* Every variable has its type: the bucket neither overflows nor, being unsigned,
\* underflows to 255 tokens.
TypeOK ==
    /\ {now, polled, refillAt, mark, sent} \subseteq Nat
    /\ pc \in {"idle", "refill", "drain"}
    /\ tokens \in 0 .. UPLINK_BURST
    /\ refillMs \in 0 .. Wrap - 1
    /\ waiting \in Nat \cup {None}

\* In any window, whatever happens before it, no more datagrams leave than the burst
\* and one per UPLINK_TOKEN_MS, when millis() wraps as at any other time (107-117).
PacingBound == sent * UPLINK_TOKEN_MS <= UPLINK_BURST * UPLINK_TOKEN_MS + (now - mark)

\* "A message waits at most UPLINK_TOKEN_MS" (115-116): no poll that long after the
\* first refused one is refused.
WaitBound == pc = "idle" /\ waiting # None => polled - waiting < UPLINK_TOKEN_MS
===============================================================================
