--------------------------------- MODULE UsbTx ---------------------------------
(***************************************************************************)
(* The device-bound half of the USB host (src/src/usb_midi_host.cpp): from *)
(* writePacket() in the MIDI task, through the TX queue, to the one OUT    *)
(* transfer the client task keeps in flight, across transfer errors,       *)
(* refused submits, port resets, detaches and attaches.                    *)
(*                                                                         *)
(* The client task (priority 5) shares core 1 with the MIDI task (priority *)
(* 4), which therefore runs only while the client task waits: in           *)
(* usb_host_client_handle_events(), in the drain of a detach, and in       *)
(* attachDevice()'s calls before the device is connected.  The code        *)
(* between two of those places is one action.                              *)
(*                                                                         *)
(* Packets are numbered 1, 2, ... in the order writePacket() is called for *)
(* a connected device.                                                     *)
(***************************************************************************)
EXTENDS Integers, Sequences

CONSTANTS QueueLen,     \* slots of s_txQueue (1024)
          Mps,          \* packets one OUT transfer carries (16)
          MaxWrites,    \* bound: packets written in a behaviour
          MaxAttach     \* bound: attachments

ASSUME ConstantsAssumption ==
    /\ QueueLen \in Nat \ {0} /\ Mps \in Nat \ {0}
    /\ MaxWrites \in Nat /\ MaxAttach \in Nat

VARIABLES
    \* MIDI task
    writePc,     \* writePacket(): "idle", "send" (past the s_connected check), "wait"
    written,     \* number of the last packet written
    dropped,     \* s_txDropped
    queue,       \* s_txQueue
    \* client task
    clientPc,    \* "events", "drain", "attach", "service"
    link,        \* s_connected: "up" or "down"
    held,        \* packets a refused submit left in s_txXfer (s_txHeld)
    flight,      \* packets of the transfer in flight; <<>>: ~s_txInFlight
    halted,      \* s_txHalted: "yes" or "no"
    reset,       \* s_resetPending: "pending" or "none"
    flags,       \* the set of s_pendingGone ("gone") and s_pendingAddr ("addr")
    done,        \* s_txDone
    lost,        \* s_txLost
    \* USB stack and device (external)
    device,      \* "none", "on" (enumerated), "gone" (unplugged or port in error)
    pipe,        \* the OUT pipe: "ok" or "halted"
    \* history
    attaches,    \* number of attachments
    base,        \* packets up to here were written for earlier devices
    sent         \* the last packet delivered

vars == <<writePc, written, dropped, queue, clientPc, link, held, flight, halted, reset,
          flags, done, lost, device, pipe, attaches, base, sent>>
usb   == <<device, pipe>>
midi  == <<writePc, written, dropped>>

Init == /\ writePc = "idle" /\ written = 0 /\ dropped = 0 /\ queue = <<>>
        /\ clientPc = "events" /\ link = "down" /\ held = <<>> /\ flight = <<>>
        /\ halted = "no" /\ reset = "none" /\ flags = {} /\ done = 0 /\ lost = 0
        /\ device = "none" /\ pipe = "ok"
        /\ attaches = 0 /\ base = 0 /\ sent = 0

-------------------------------------------------------------------------------
(* writePacket(), in the MIDI task.                                        *)

\* Past the s_connected check: the packet counts as written.
WriteCall ==
    /\ writePc = "idle"
    /\ link = "up"
    /\ written < MaxWrites
    /\ written' = written + 1
    /\ writePc' = "send"
    /\ UNCHANGED <<dropped, queue, clientPc, link, held, flight, halted, reset, flags, done, lost,
                   usb, attaches, base, sent>>

FullLate == Len(queue) > QueueLen
Full == Len(queue) = QueueLen

WriteQueued ==
    /\ writePc \in {"send", "wait"}
    /\ ~Full
    /\ queue' = Append(queue, written)
    /\ writePc' = "idle"
    /\ UNCHANGED <<written, dropped, clientPc, link, held, flight, halted, reset, flags, done, lost,
                   usb, attaches, base, sent>>

\* A full queue is waited on for 20 ms, unless the OUT side looks stuck: its pipe
\* halted, a reset pending, or a transfer too long in flight.
WriteWait ==
    /\ writePc = "send"
    /\ Full
    /\ halted = "no" /\ reset = "none"
    /\ writePc' = "wait"
    /\ UNCHANGED <<written, dropped, queue, clientPc, link, held, flight, halted, reset, flags, done,
                   lost, usb, attaches, base, sent>>

WriteDropped ==
    /\ \/ writePc = "wait"
       \/ writePc = "send" /\ (halted = "yes" \/ reset = "pending" \/ flight # <<>>)
    /\ Full
    /\ dropped' = dropped + 1
    /\ writePc' = "idle"
    /\ UNCHANGED <<written, queue, clientPc, link, held, flight, halted, reset, flags, done, lost,
                   usb, attaches, base, sent>>

-------------------------------------------------------------------------------
(* serviceTx(), in the client task's pass and after a completed transfer.  *)

\* What a submit would send: the packets a refused one left, else the queue's
\* first.
TakenFresh(q) == SubSeq(q, 1, IF Len(q) < Mps THEN Len(q) ELSE Mps)
ToSubmitForgetting == TakenFresh(queue)
ToSubmit == IF held # <<>> THEN held ELSE TakenFresh(queue)
QueueAfter == IF held # <<>> THEN queue ELSE SubSeq(queue, Len(TakenFresh(queue)) + 1, Len(queue))

\* Submits on a pipe: refused if it is halted or the device is going away.
Submit(p) ==
    IF ToSubmit = <<>>
    THEN flight' = <<>> /\ halted' = "no" /\ UNCHANGED <<queue, held>>
    ELSE /\ queue' = QueueAfter
         /\ IF p = "ok" /\ device = "on"
            THEN flight' = ToSubmit /\ held' = <<>> /\ halted' = "no"
            ELSE held' = ToSubmit /\ flight' = <<>> /\ halted' = "yes"

\* The whole of serviceTx(), with nothing in flight (f = <<>>): a halted pipe is
\* cleared first, which may fail, at most every EP_RETRY_GAP_MS.
ServiceTx ==
    IF link = "down"
    THEN flight' = <<>> /\ UNCHANGED <<queue, held, halted, pipe>>
    ELSE IF halted = "yes"
         THEN \/ flight' = <<>> /\ UNCHANGED <<queue, held, halted, pipe>>
              \/ \E p \in {"ok", pipe} : pipe' = p /\ Submit(p)
         ELSE Submit(pipe) /\ UNCHANGED pipe

-------------------------------------------------------------------------------
(* Callbacks, delivered while the client task is in handle_events().       *)

InEvents == clientPc \in {"events", "drain"}

\* The device took the transfer: count it and send more.
TxCompleted ==
    /\ InEvents
    /\ flight # <<>>
    /\ done' = done + Len(flight)
    /\ sent' = flight[Len(flight)]
    /\ ServiceTx
    /\ UNCHANGED <<midi, clientPc, link, reset, flags, lost, device, attaches, base>>

\* It failed: its packets are lost and the pipe is halted, or the device is gone.
LostInFlight == lost + Len(flight)

TxFailed ==
    /\ InEvents
    /\ flight # <<>>
    /\ lost' = LostInFlight
    /\ flight' = <<>>
    /\ IF device = "on"
       THEN halted' = "yes" /\ pipe' = "halted"
       ELSE UNCHANGED <<halted, pipe>>
    /\ UNCHANGED <<midi, queue, clientPc, link, held, reset, flags, done, device, attaches, base, sent>>

DevGoneEvent ==
    /\ InEvents
    /\ device = "gone"
    /\ device' = "none"
    /\ flags' = flags \cup {"gone"}
    /\ UNCHANGED <<midi, queue, clientPc, link, held, flight, halted, reset, done, lost, pipe,
                   attaches, base, sent>>

\* A device is enumerated.  The root port takes one, so the last one is gone and
\* its transfer returned, and enumeration (a reset and a debounce, > 100 ms)
\* outlasts a blocked write (20 ms).
NewDevEvent ==
    /\ InEvents
    /\ device = "none" /\ link = "down" /\ flight = <<>> /\ writePc = "idle"
    /\ attaches < MaxAttach
    /\ device' = "on"
    /\ flags' = flags \cup {"addr"}
    /\ UNCHANGED <<midi, queue, clientPc, link, held, flight, halted, reset, done, lost, pipe,
                   attaches, base, sent>>

\* The device is unplugged.  The stack reports it only to a client that opened it.
Unplug ==
    /\ device = "on"
    /\ device' = IF link = "up" \/ clientPc = "attach" THEN "gone" ELSE "none"
    /\ UNCHANGED <<midi, queue, clientPc, link, held, flight, halted, reset, flags, done, lost, pipe,
                   attaches, base, sent>>

-------------------------------------------------------------------------------
(* clientPass(): detach, attach, serviceTx, escalate.                      *)

AfterDetach == IF "addr" \in flags THEN "attach" ELSE "service"

PassBegin ==
    /\ clientPc = "events"
    /\ IF "gone" \in flags
       THEN /\ flags' = flags \ {"gone"}
            /\ link' = "down"
            /\ clientPc' = "drain"
       ELSE clientPc' = AfterDetach /\ UNCHANGED <<flags, link>>
    /\ UNCHANGED <<midi, queue, held, flight, halted, reset, done, lost, usb, attaches, base, sent>>

\* discardTxQueue(): what is queued or held is lost, and counted.
LostByDiscardUnheld == lost + Len(queue)
LostByDiscard == lost + Len(held) + Len(queue)

\* detachDevice() once its transfers have come back.
DetachFinish ==
    /\ clientPc = "drain"
    /\ flight = <<>>
    /\ lost' = LostByDiscard
    /\ queue' = <<>> /\ held' = <<>>
    /\ halted' = "no" /\ reset' = "none"
    /\ clientPc' = AfterDetach
    /\ UNCHANGED <<midi, link, flight, flags, done, usb, attaches, base, sent>>

AttachFail ==
    /\ clientPc = "attach"
    /\ flags' = flags \ {"addr"}
    /\ clientPc' = "service"
    /\ device' = IF device = "gone" THEN "none" ELSE device
    /\ UNCHANGED <<midi, queue, link, held, flight, halted, reset, done, lost, pipe, attaches, base,
                   sent>>

\* A late write may have slipped into the queue since the detach: discard it.
QueueAtAttachKept == queue
QueueAtAttach == <<>>

AttachConnect ==
    /\ clientPc = "attach"
    /\ device # "none"
    /\ flags' = flags \ {"addr"}
    /\ queue' = QueueAtAttach /\ held' = <<>>
    /\ lost' = lost + Len(held) + Len(queue) - Len(queue')
    /\ link' = "up"
    /\ pipe' = "ok"
    /\ attaches' = attaches + 1
    /\ base' = written
    /\ clientPc' = "service"
    /\ UNCHANGED <<midi, flight, halted, reset, done, device, sent>>

\* escalate(): endpoint errors that clearing does not cure, or a transfer the
\* device does not take, end in a port reset, an unplug as far as the stack is
\* concerned; a reset the hub driver never acts on times out.
ResetNeverTimesOut == FALSE
ResetTimeout == reset = "pending" /\ reset' = "none" /\ UNCHANGED device
ResetPort == /\ reset = "none" /\ link = "up"
             /\ reset' = "pending"
             /\ \/ device = "on" /\ device' = "gone"
                \/ UNCHANGED device
Escalate == ResetTimeout \/ ResetPort \/ UNCHANGED <<reset, device>>

Service ==
    /\ clientPc = "service"
    /\ IF flight # <<>> THEN UNCHANGED <<queue, held, flight, halted, pipe>> ELSE ServiceTx
    /\ Escalate
    /\ clientPc' = "events"
    /\ UNCHANGED <<midi, link, flags, done, lost, attaches, base, sent>>

-------------------------------------------------------------------------------
MidiStep == WriteQueued \/ WriteWait \/ WriteDropped
UsbStep  == TxCompleted \/ TxFailed \/ DevGoneEvent \/ NewDevEvent \/ Unplug
ClientStep == PassBegin \/ DetachFinish \/ AttachFail \/ AttachConnect \/ Service

Next == WriteCall \/ MidiStep \/ UsbStep \/ ClientStep

Spec == Init /\ [][Next]_vars

\* Both tasks keep running.  The stack returns a gone device's transfers and
\* reports it.  Nothing says the device ever takes a transfer: what ends one it
\* does not take is escalate(), whose resets, retried for ever, work some time;
\* and a present device's pipe can be cleared.
Fairness ==
    /\ WF_vars(MidiStep) /\ WF_vars(ClientStep)
    /\ SF_vars(device # "on" /\ TxFailed) /\ SF_vars(DevGoneEvent)
    /\ SF_vars(Service /\ ResetTimeout)
    /\ SF_vars(Service /\ flight # <<>> /\ device = "on" /\ device' = "gone")
    /\ SF_vars(Service /\ device = "on" /\ halted = "yes" /\ pipe' = "ok")

FairSpec == Spec /\ Fairness

-------------------------------------------------------------------------------
(* Properties.                                                             *)

\* Every variable has its type; the queue never holds more than its length and a
\* transfer never more than the endpoint takes.
TypeOK ==
    /\ writePc \in {"idle", "send", "wait"}
    /\ {written, dropped, done, lost, attaches, base, sent} \subseteq Nat
    /\ queue \in Seq(Nat) /\ Len(queue) <= QueueLen
    /\ held \in Seq(Nat) /\ Len(held) <= Mps
    /\ flight \in Seq(Nat) /\ Len(flight) <= Mps
    /\ clientPc \in {"events", "drain", "attach", "service"}
    /\ link \in {"up", "down"} /\ halted \in {"yes", "no"} /\ reset \in {"pending", "none"}
    /\ flags \subseteq {"gone", "addr"}
    /\ device \in {"none", "on", "gone"} /\ pipe \in {"ok", "halted"}

Pending == IF writePc = "idle" THEN <<>> ELSE <<written>>

\* Every packet not yet accounted for, in the order it will be sent.
Outstanding == held \o flight \o queue \o Pending

\* Delivered + lost + dropped accounts for every packet written, those a failed
\* transfer, a refused submit or a detach stranded included
\* (usb_midi_host.cpp:593-594, 743-745).
Accounted == written = done + lost + dropped + Len(Outstanding)

\* Packets reach the device in the order they were written, none twice, whatever
\* errors, refused submits and retries lie between (548-549).
InOrder ==
    /\ \A i, j \in 1 .. Len(Outstanding) : i < j => Outstanding[i] < Outstanding[j]
    /\ \A i \in 1 .. Len(Outstanding) : sent < Outstanding[i]

\* No packet written for one device is sent to the next, one whose writer was
\* blocked on the full queue while the device went away included (859-862).
OnlyToItsDevice == \A i \in 1 .. Len(flight) : flight[i] > base

\* Every packet written is in the end delivered, dropped or counted as lost: a
\* device that stops taking them, a pipe that halts and a port reset that does not
\* take hold strand none, and no writer blocks for ever.  (One written as the
\* device goes away may wait in the queue for the next attach to discard it.)
EventuallyResolved ==
    \A n \in 1 .. MaxWrites :
        written >= n ~> \/ \A i \in 1 .. Len(Outstanding) : Outstanding[i] # n
                        \/ link = "down" /\ \E i \in 1 .. Len(queue) : queue[i] = n
===============================================================================
