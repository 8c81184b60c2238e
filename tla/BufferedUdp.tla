------------------------------ MODULE BufferedUdp ------------------------------
(***************************************************************************)
(* BufferedUDP (src/src/buffered_udp.cpp): the receive queue in front of   *)
(* each of the session's UDP sockets.                                      *)
(*                                                                         *)
(* Two tasks share it.  The receive task (core 0) selects on the listed    *)
(* sockets and pumps lwIP's datagrams into a ring of slots; the MIDI task  *)
(* (core 1) opens and stops sockets and takes datagrams out of the ring.   *)
(* They meet in head/count, s_open and s_pumping, each touched only under  *)
(* one spinlock; slots are written and read OUTSIDE it.  Every critical    *)
(* section and every copy between two of them is an action here.           *)
(*                                                                         *)
(* The first begin() creates the receive task; if it cannot, the MIDI task *)
(* pumps inside parsePacket().                                             *)
(***************************************************************************)
EXTENDS Integers, Sequences

CONSTANTS Sock,        \* sockets
          NSlots,      \* slots of each ring (64 in PSRAM, 8 without)
          Mbox,        \* datagrams lwIP keeps per socket (6)
          MaxAccept,   \* bound: non-empty datagrams accepted per socket in a behaviour
          MaxEmpty,    \* bound: empty ones
          NoSock       \* "no socket"

ASSUME ConstantsAssumption ==
    /\ NSlots \in Nat \ {0}
    /\ Mbox \in Nat \ {0}
    /\ MaxAccept \in Nat
    /\ MaxEmpty \in Nat
    /\ NoSock \notin Sock

VARIABLES
    \* lwIP (external)
    mbox,      \* mbox[s]: datagrams lwIP holds; 0 is an empty datagram
    acc,       \* acc[s]: number of the last non-empty datagram accepted
    empties,   \* empties[s]: empty datagrams accepted
    \* shared under s_mux
    open,      \* s_open: the listed sockets
    pumping,   \* s_pumping
    head,      \* head_
    count,     \* count_
    \* shared without a lock
    data,      \* data[s][i]: slots_[i].data, as the number of its datagram
    from,      \* from[s][i]: slots_[i].ip, .port and .len, likewise
    fd,        \* the sockets with fd_ >= 0
    \* receive task: whether there is one, where it is, the sockets selected on, those ready
    rxTask, rxPc, rxSocks, rxReady,
    \* the running pump() call: where it is, its queue, the slot it fills
    pumpPc, pumpSock, pumpTail,
    \* MIDI task: where it is, the socket, the slot it reads, what follows a stop()
    midiPc, midiSock, midiHead, midiThen,
    curData,   \* cur_ of each socket
    curFrom,   \* curIp_, curPort_ and curLen_
    unread,    \* the sockets whose current datagram is not read out: curPos_ < curLen_
    \* history
    next       \* next[s]: number of the next datagram owed to the session

vars == <<mbox, acc, empties, open, pumping, head, count, data, from, fd,
          rxTask, rxPc, rxSocks, rxReady, pumpPc, pumpSock, pumpTail,
          midiPc, midiSock, midiHead, midiThen, curData, curFrom, unread, next>>
lwip  == <<mbox, acc, empties>>
ring  == <<head, count>>
slots == <<data, from>>
rx    == <<rxTask, rxPc, rxSocks, rxReady>>
pump  == <<pumpPc, pumpSock, pumpTail>>
midi  == <<midiPc, midiSock, midiHead, midiThen>>
cur   == <<curData, curFrom>>

Index == 0 .. NSlots - 1

RxIdle   == rxPc' = "idle" /\ rxSocks' = {} /\ rxReady' = {}
PumpIdle == pumpPc' = "none" /\ pumpSock' = NoSock /\ pumpTail' = 0
PumpCall(s) == pumpPc' = "look" /\ pumpSock' = s /\ pumpTail' = 0
MidiIdle == midiPc' = "idle" /\ midiSock' = NoSock /\ midiHead' = 0 /\ midiThen' = "idle"
MidiGo(pc) == midiPc' = pc /\ UNCHANGED <<midiSock, midiHead, midiThen>>

Init == /\ mbox    = [s \in Sock |-> <<>>]
        /\ acc     = [s \in Sock |-> 0]
        /\ empties = [s \in Sock |-> 0]
        /\ open    = {}
        /\ pumping = NoSock
        /\ head    = [s \in Sock |-> 0]
        /\ count   = [s \in Sock |-> 0]
        /\ data    = [s \in Sock |-> [i \in Index |-> 0]]
        /\ from    = [s \in Sock |-> [i \in Index |-> 0]]
        /\ fd      = {}
        /\ rxTask = "none" /\ rxPc = "idle" /\ rxSocks = {} /\ rxReady = {}
        /\ pumpPc  = "none" /\ pumpSock = NoSock /\ pumpTail = 0
        /\ midiPc  = "idle" /\ midiSock = NoSock /\ midiHead = 0 /\ midiThen = "idle"
        /\ curData = [s \in Sock |-> 0]
        /\ curFrom = [s \in Sock |-> 0]
        /\ unread  = {}
        /\ next    = [s \in Sock |-> 1]

-------------------------------------------------------------------------------
(* The network: lwIP keeps Mbox datagrams per bound socket, drops the rest. *)

Arrive(s) ==
    /\ s \in fd
    /\ Len(mbox[s]) < Mbox
    /\ \/ /\ acc[s] < MaxAccept
          /\ acc'  = [acc EXCEPT ![s] = @ + 1]
          /\ mbox' = [mbox EXCEPT ![s] = Append(@, acc[s] + 1)]
          /\ UNCHANGED empties
       \/ /\ empties[s] < MaxEmpty
          /\ empties' = [empties EXCEPT ![s] = @ + 1]
          /\ mbox' = [mbox EXCEPT ![s] = Append(@, 0)]
          /\ UNCHANGED acc
    /\ UNCHANGED <<open, pumping, ring, slots, fd, rx, pump, midi, cur, unread, next>>

-------------------------------------------------------------------------------
(* rxTask: snapshot s_open, select, then pump each ready socket.           *)

\* Which sockets to select on.  None: the task sleeps and looks again.
RxSnapshot ==
    /\ rxTask = "running"
    /\ rxPc = "idle"
    /\ open \cap fd # {}
    /\ rxPc' = "select"
    /\ rxSocks' = open \cap fd
    /\ UNCHANGED <<rxTask, rxReady, lwip, open, pumping, ring, slots, fd, pump, midi, cur, unread, next>>

\* select(): the sockets holding a datagram.  One closed since the snapshot
\* makes it fail, or shows up as readable; either way nothing is assumed of it.
RxSelect ==
    /\ rxPc = "select"
    /\ \E stale \in SUBSET (rxSocks \ fd) :
         rxReady' = stale \cup {s \in rxSocks \cap fd : mbox[s] # <<>>}
    /\ rxPc' = IF rxReady' = {} THEN "idle" ELSE "ready"
    /\ rxSocks' = {}
    /\ UNCHANGED <<rxTask, lwip, open, pumping, ring, slots, fd, pump, midi, cur, unread, next>>

\* A socket may be filled only while it is listed (checked under the lock).
MayPump(s) == s \in open

RxClaim(s) ==
    /\ rxPc = "ready"
    /\ s \in rxReady
    /\ rxReady' = rxReady \ {s}
    /\ IF MayPump(s)
       THEN pumping' = s /\ PumpCall(s) /\ rxPc' = "pump"
       ELSE UNCHANGED <<pumping, pump, rxPc>>
    /\ UNCHANGED <<rxTask, rxSocks, lwip, open, ring, slots, fd, midi, cur, unread, next>>

PumpingReleased == NoSock

RxRelease ==
    /\ rxPc = "pump"
    /\ pumpPc = "done"
    /\ pumping' = PumpingReleased
    /\ PumpIdle
    /\ rxPc' = "ready"
    /\ UNCHANGED <<rxTask, rxSocks, rxReady, lwip, open, ring, slots, fd, midi, cur, unread, next>>

\* All ready sockets served: notify the MIDI task, back off one tick if a
\* queue was full or nothing was queued, and look again.
RxRoundEnd ==
    /\ rxPc = "ready"
    /\ rxReady = {}
    /\ RxIdle
    /\ UNCHANGED <<rxTask, lwip, open, pumping, ring, slots, fd, pump, midi, cur, unread, next>>

-------------------------------------------------------------------------------
(* pump(), run by the receive task, or by the MIDI task without one.       *)

IsFull(s) == count[s] = NSlots

TailSlotAtHead(s) == head[s]
TailSlot(s) == (head[s] + count[s]) % NSlots

\* Under the lock: a full ring ends the call, else the tail slot is free.
PumpLook ==
    /\ pumpPc = "look"
    /\ IF IsFull(pumpSock)
       THEN pumpPc' = "done" /\ UNCHANGED pumpTail
       ELSE pumpPc' = "recv" /\ pumpTail' = TailSlot(pumpSock)
    /\ UNCHANGED <<pumpSock, lwip, open, pumping, ring, slots, fd, rx, midi, cur, unread, next>>

\* recvfrom() straight into the slot; nothing waiting ends the call, an empty
\* datagram is skipped.
PumpRecv ==
    /\ pumpPc = "recv"
    /\ IF mbox[pumpSock] = <<>>
       THEN pumpPc' = "done" /\ UNCHANGED <<mbox, data>>
       ELSE /\ mbox' = [mbox EXCEPT ![pumpSock] = Tail(@)]
            /\ IF Head(mbox[pumpSock]) = 0
               THEN pumpPc' = "look" /\ UNCHANGED data
               ELSE /\ data' = [data EXCEPT ![pumpSock][pumpTail] = Head(mbox[pumpSock])]
                    /\ pumpPc' = "label"
    /\ UNCHANGED <<pumpSock, pumpTail, acc, empties, open, pumping, ring, from, fd, rx,
                   midi, cur, unread, next>>

\* The sender and the length, after the data.
PumpLabel ==
    /\ pumpPc = "label"
    /\ from' = [from EXCEPT ![pumpSock][pumpTail] = data[pumpSock][pumpTail]]
    /\ pumpPc' = "publish"
    /\ UNCHANGED <<pumpSock, pumpTail, lwip, open, pumping, ring, data, fd, rx, midi, cur,
                   unread, next>>

\* Under the lock: only now does the slot belong to the ring.
PumpPublish ==
    /\ pumpPc = "publish"
    /\ count' = [count EXCEPT ![pumpSock] = @ + 1]
    /\ pumpPc' = "look"
    /\ UNCHANGED <<pumpSock, pumpTail, lwip, open, pumping, head, slots, fd, rx, midi, cur,
                   unread, next>>

-------------------------------------------------------------------------------
(* parsePacket() and reading, by the MIDI task.                            *)

\* Without a receive task the call fetches for itself.
PollsNever(s) == FALSE
Polls(s) == rxTask # "running" /\ s \in fd

\* While the current datagram has unread bytes the call does nothing.
ParseCall(s) ==
    /\ midiPc = "idle"
    /\ s \notin unread
    /\ midiSock' = s
    /\ IF Polls(s)
       THEN midiPc' = "pump" /\ PumpCall(s)
       ELSE midiPc' = "look" /\ UNCHANGED pump
    /\ UNCHANGED <<midiHead, midiThen, lwip, open, pumping, ring, slots, fd, rx, cur, unread, next>>

ParsePumped ==
    /\ midiPc = "pump"
    /\ pumpPc = "done"
    /\ PumpIdle
    /\ MidiGo("look")
    /\ UNCHANGED <<lwip, open, pumping, ring, slots, fd, rx, cur, unread, next>>

\* Under the lock: is one queued, and in which slot.
ParseLook ==
    /\ midiPc = "look"
    /\ IF count[midiSock] > 0
       THEN /\ midiPc' = "copy"
            /\ midiHead' = head[midiSock]
            /\ UNCHANGED <<midiSock, midiThen>>
       ELSE MidiIdle
    /\ UNCHANGED <<lwip, open, pumping, ring, slots, fd, rx, pump, cur, unread, next>>

ParseCopy ==
    /\ midiPc = "copy"
    /\ curData' = [curData EXCEPT ![midiSock] = data[midiSock][midiHead]]
    /\ MidiGo("label")
    /\ UNCHANGED <<curFrom, lwip, open, pumping, ring, slots, fd, rx, pump, unread, next>>

ParseLabel ==
    /\ midiPc = "label"
    /\ curFrom' = [curFrom EXCEPT ![midiSock] = from[midiSock][midiHead]]
    /\ MidiGo("take")
    /\ UNCHANGED <<curData, lwip, open, pumping, ring, slots, fd, rx, pump, unread, next>>

\* Under the lock: the slot goes back to the receive task.
HeadAfterTake(s) == (head[s] + 1) % NSlots

ParseTake ==
    /\ midiPc = "take"
    /\ head'   = [head EXCEPT ![midiSock] = HeadAfterTake(midiSock)]
    /\ count'  = [count EXCEPT ![midiSock] = @ - 1]
    /\ unread' = unread \cup {midiSock}
    /\ next'   = [next EXCEPT ![midiSock] = @ + 1]
    /\ MidiIdle
    /\ UNCHANGED <<lwip, open, pumping, slots, fd, rx, pump, cur>>

\* The session reads the current datagram to its end, or flush()es it.
ReadOut(s) ==
    /\ midiPc = "idle"
    /\ s \in unread
    /\ unread' = unread \ {s}
    /\ UNCHANGED <<lwip, open, pumping, ring, slots, fd, rx, pump, midi, cur, next>>

-------------------------------------------------------------------------------
(* stop(), and begin(), which stops first.                                 *)

StopCall(s, then) ==
    /\ midiPc = "idle"
    /\ open' = open \ {s}
    /\ midiPc' = "stopping" /\ midiSock' = s /\ midiThen' = then
    /\ UNCHANGED <<midiHead, lwip, pumping, ring, slots, fd, rx, pump, cur, unread, next>>

\* The receive task may be filling this queue: stop() polls until it is not.
StopMayCloseAtOnce(s) == TRUE
StopMayClose(s) == pumping # s

StopClose ==
    /\ midiPc = "stopping"
    /\ StopMayClose(midiSock)
    /\ fd'   = fd \ {midiSock}
    /\ mbox' = [mbox EXCEPT ![midiSock] = <<>>]
    /\ next' = [next EXCEPT ![midiSock] = acc[midiSock] + 1]
    /\ MidiGo("closed")
    /\ UNCHANGED <<acc, empties, open, pumping, ring, slots, rx, pump, cur, unread>>

CountAfterStopKept(s) == count[s]
CountAfterStop(s) == 0

StopReset ==
    /\ midiPc = "closed"
    /\ head'   = [head EXCEPT ![midiSock] = 0]
    /\ count'  = [count EXCEPT ![midiSock] = CountAfterStop(midiSock)]
    /\ unread' = unread \ {midiSock}
    /\ IF midiThen = "socket" THEN MidiGo("socket") ELSE MidiIdle
    /\ UNCHANGED <<lwip, open, pumping, slots, fd, rx, pump, cur, next>>

\* socket() and bind(), which may fail.
BeginBind ==
    /\ midiPc = "socket"
    /\ \/ /\ fd' = fd \cup {midiSock}
          /\ MidiGo("list")
       \/ MidiIdle /\ UNCHANGED fd
    /\ UNCHANGED <<lwip, open, pumping, ring, slots, rx, pump, cur, unread, next>>

\* The socket is listed, then the receive task created, once: a failure is for good.
BeginList ==
    /\ midiPc = "list"
    /\ open' = open \cup {midiSock}
    /\ rxTask' \in IF rxTask = "none" THEN {"running", "failed"} ELSE {rxTask}
    /\ MidiIdle
    /\ UNCHANGED <<lwip, pumping, ring, slots, fd, rxPc, rxSocks, rxReady, pump, cur, unread, next>>

-------------------------------------------------------------------------------
RxStep   == \/ RxSnapshot \/ RxSelect \/ RxRelease \/ RxRoundEnd
            \/ \E s \in Sock : RxClaim(s)
PumpStep == PumpLook \/ PumpRecv \/ PumpLabel \/ PumpPublish
MidiStep == \/ ParsePumped \/ ParseLook \/ ParseCopy \/ ParseLabel \/ ParseTake
            \/ StopClose \/ StopReset \/ BeginBind \/ BeginList

Next == \/ RxStep \/ PumpStep \/ MidiStep
        \/ \E s \in Sock : \/ Arrive(s) \/ ParseCall(s) \/ ReadOut(s)
                           \/ \E then \in {"idle", "socket"} : StopCall(s, then)

Spec == Init /\ [][Next]_vars

\* Both tasks keep running (the receive task outranks everything but the radio
\* on its core, the MIDI task loops), and the session keeps reading each
\* socket: AppleMIDI polls both ports in every available() call.
Fairness == /\ WF_vars(RxStep)
            /\ WF_vars(PumpStep)
            /\ WF_vars(MidiStep)
            /\ \A s \in Sock : SF_vars(ParseCall(s)) /\ SF_vars(ReadOut(s))

FairSpec == Spec /\ Fairness

-------------------------------------------------------------------------------
(* Properties.                                                             *)

NetType  == /\ mbox \in [Sock -> Seq(Nat)]
            /\ acc \in [Sock -> Nat] /\ empties \in [Sock -> Nat] /\ next \in [Sock -> Nat]
RingType == head \in [Sock -> Index] /\ count \in [Sock -> 0 .. NSlots]
SlotType == data \in [Sock -> [Index -> Nat]] /\ from \in [Sock -> [Index -> Nat]]
OpenType == /\ open \subseteq Sock /\ fd \subseteq Sock /\ unread \subseteq Sock
            /\ pumping \in Sock \cup {NoSock}
RxType   == /\ rxTask \in {"none", "running", "failed"}
            /\ rxPc \in {"idle", "select", "ready", "pump"}
            /\ rxSocks \subseteq Sock /\ rxReady \subseteq Sock
PumpType == /\ pumpPc \in {"none", "look", "recv", "label", "publish", "done"}
            /\ pumpSock \in Sock \cup {NoSock}
            /\ pumpTail \in Index
MidiType == /\ midiPc \in {"idle", "pump", "look", "copy", "label", "take",
                           "stopping", "closed", "socket", "list"}
            /\ midiSock \in Sock \cup {NoSock}
            /\ midiHead \in Index
            /\ midiThen \in {"idle", "socket"}
CurType  == curData \in [Sock -> Nat] /\ curFrom \in [Sock -> Nat]

\* Every variable has its type; in particular head and count stay within the
\* ring (pump() and parsePacket(), src/src/buffered_udp.cpp:135-262).
TypeOK == /\ NetType /\ RingType /\ SlotType /\ OpenType
          /\ RxType /\ PumpType /\ MidiType /\ CurType

Filling == pumpPc \in {"recv", "label", "publish"}
Copying == midiPc \in {"copy", "label", "take"}

\* The receive task and the MIDI task never touch the same slot, although they
\* copy outside the lock ("The MIDI task never reads the tail slot",
\* "the receive task leaves it alone": buffered_udp.cpp:157, 248).
SlotNotShared ==
    Filling /\ Copying /\ pumpSock = midiSock => pumpTail # midiHead

\* What the session reads is one datagram: its bytes never pair with the sender
\* or length of another, and nothing read is left from before a stop().
CurWhole ==
    \A s \in unread : /\ curData[s] = curFrom[s]
                       /\ s \in fd => curData[s] = next[s] - 1

\* stop() never closes a socket, nor resets its ring, under a running pump
\* (buffered_udp.cpp:114-120).
NeverPumpsAClosedSocket ==
    pumpPc # "none" => pumpSock \in fd

\* The ring refines the abstract FIFO: once lwIP has accepted a datagram, the
\* receive task, the ring and parsePacket() neither lose, repeat, reorder nor
\* tear it, whatever the interleaving, until the socket is stopped.
Fifo == INSTANCE DatagramFifo WITH
            curData <- [s \in Sock |-> IF s \in unread \cap fd THEN curData[s] ELSE 0],
            curFrom <- [s \in Sock |-> IF s \in unread \cap fd THEN curFrom[s] ELSE 0]
ImplementsFifo == Fifo!Spec

\* Every datagram lwIP accepted is handed to the session, unless its socket is
\* stopped first: no interleaving of the two tasks strands one in lwIP's
\* mailbox or in the ring, a full ring included.
EventuallyDelivered ==
    \A s \in Sock, n \in 1 .. MaxAccept :
        (acc[s] >= n /\ s \in fd) ~> (next[s] > n)
===============================================================================
