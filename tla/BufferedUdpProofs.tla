--------------------------- MODULE BufferedUdpProofs ---------------------------
(***************************************************************************)
(* Proofs about BufferedUdp for every set of sockets, ring size and        *)
(* mailbox size.                                                           *)
(***************************************************************************)
EXTENDS BufferedUdp, SequenceTheorems, TLAPS

-------------------------------------------------------------------------------
(* The inductive invariant.                                                *)

\* Who runs pump(), and what s_pumping says of it.
PumpOwner ==
    /\ rxPc = "pump" => rxTask = "running" /\ pumpPc # "none" /\ pumping = pumpSock
    /\ rxPc # "pump" => pumping = NoSock
    /\ midiPc = "pump" => rxTask # "running" /\ pumpPc # "none" /\ pumpSock = midiSock
    /\ pumpPc # "none" => rxPc = "pump" \/ midiPc = "pump"
    /\ rxTask # "running" => rxPc = "idle"
    /\ pumpPc # "none" => pumpSock \in Sock

\* Where the MIDI task is, and what that says of its socket.
MidiPlace ==
    /\ midiPc # "idle" => midiSock \in Sock
    /\ midiPc \in {"stopping", "closed", "socket", "list"} => midiSock \notin open
    /\ midiPc \in {"closed", "socket"} => midiSock \notin fd
    /\ midiPc = "list" => midiSock \in fd
    /\ midiPc \in {"pump", "look", "copy", "label", "take", "socket", "list"}
          => midiSock \notin unread
    /\ Copying => count[midiSock] > 0 /\ midiHead = head[midiSock]

\* Listed sockets are open; a pump runs only on an open one.
OpenSockets ==
    /\ open \subseteq fd
    /\ NeverPumpsAClosedSocket

\* The slot being filled is the free one after the ring's last.
TailFree ==
    Filling => /\ count[pumpSock] < NSlots
               /\ pumpTail = TailSlot(pumpSock)

Control == PumpOwner /\ MidiPlace /\ OpenSockets /\ TailFree

-------------------------------------------------------------------------------
(* Type correctness.                                                       *)

\* Ring indexes stay in the ring; counts stay within it where they change.
LEMMA IndexFacts ==
    ASSUME RingType
    PROVE  /\ 0 \in Index /\ 0 \in 0 .. NSlots
           /\ \A s \in Sock : TailSlot(s) \in Index /\ HeadAfterTake(s) \in Index
<1>1. ASSUME NEW s \in Sock PROVE TailSlot(s) \in Index /\ HeadAfterTake(s) \in Index
  <2>1. NSlots \in Nat \ {0} /\ head[s] \in 0 .. NSlots - 1 /\ count[s] \in 0 .. NSlots
    BY ConstantsAssumption DEF RingType, Index
  <2> QED BY <2>1 DEF TailSlot, HeadAfterTake, Index
<1> QED BY <1>1, ConstantsAssumption DEF Index

\* What reading and extending a mailbox gives.
LEMMA MailboxFacts ==
    ASSUME NetType, NEW s \in Sock
    PROVE  /\ acc[s] + 1 \in Nat /\ next[s] + 1 \in Nat /\ empties[s] + 1 \in Nat
           /\ <<>> \in Seq(Nat)
           /\ Append(mbox[s], 0) \in Seq(Nat) /\ Append(mbox[s], acc[s] + 1) \in Seq(Nat)
           /\ mbox[s] # <<>> => Head(mbox[s]) \in Nat /\ Tail(mbox[s]) \in Seq(Nat)
<1>1. mbox[s] \in Seq(Nat) /\ acc[s] \in Nat /\ next[s] \in Nat /\ empties[s] \in Nat
  BY DEF NetType
<1> QED BY <1>1, HeadTailProperties

LEMMA CountFacts ==
    ASSUME NEW n \in Nat, NEW c \in 0 .. n
    PROVE  (c < n => c + 1 \in 0 .. n) /\ (c > 0 => c - 1 \in 0 .. n)
  OBVIOUS

\* A step keeps every type, given who runs pump(), where the MIDI task is and
\* that the slot being filled is free.
LEMMA TypeStep == TypeOK /\ PumpOwner /\ MidiPlace /\ TailFree /\ [Next]_vars => TypeOK'
<1> SUFFICES ASSUME TypeOK, PumpOwner, MidiPlace, TailFree, [Next]_vars PROVE TypeOK'
  OBVIOUS
<1>a. /\ 0 \in Index /\ 0 \in 0 .. NSlots
      /\ \A s \in Sock : TailSlot(s) \in Index /\ HeadAfterTake(s) \in Index
  BY IndexFacts DEF TypeOK
<1>b. /\ pumpPc # "none" => pumpSock \in Sock
      /\ midiPc # "idle" => midiSock \in Sock
      /\ pumpTail \in Index /\ midiHead \in Index
      /\ \A s \in Sock : head[s] \in Index
  BY DEF PumpOwner, MidiPlace, TypeOK, PumpType, MidiType, RingType
<1>c. \A s \in Sock :
        /\ acc[s] + 1 \in Nat /\ next[s] + 1 \in Nat /\ empties[s] + 1 \in Nat
        /\ <<>> \in Seq(Nat)
        /\ Append(mbox[s], 0) \in Seq(Nat) /\ Append(mbox[s], acc[s] + 1) \in Seq(Nat)
        /\ mbox[s] # <<>> => Head(mbox[s]) \in Nat /\ Tail(mbox[s]) \in Seq(Nat)
  BY MailboxFacts DEF TypeOK
<1>d. \A s \in Sock, i \in Index : data[s][i] \in Nat /\ from[s][i] \in Nat
  BY DEF TypeOK, SlotType
<1>e. /\ pumpPc = "publish" => count[pumpSock] + 1 \in 0 .. NSlots
      /\ midiPc = "take" => count[midiSock] - 1 \in 0 .. NSlots
  <2>1. NSlots \in Nat /\ \A s \in Sock : count[s] \in 0 .. NSlots
    BY ConstantsAssumption DEF TypeOK, RingType
  <2>2. pumpPc = "publish" => pumpSock \in Sock /\ count[pumpSock] < NSlots
    BY <1>b DEF TailFree, Filling
  <2>3. midiPc = "take" => midiSock \in Sock /\ count[midiSock] > 0
    BY <1>b DEF MidiPlace, Copying
  <2> QED BY <2>1, <2>2, <2>3, CountFacts
<1>g. ASSUME NEW s \in Sock, NEW i \in Index, NEW n \in Nat
      PROVE  [data EXCEPT ![s][i] = n] \in [Sock -> [Index -> Nat]]
  BY DEF TypeOK, SlotType
<1>1. CASE RxSnapshot
  <2>1. RxType'
    BY <1>1, <1>a, <1>b DEF TypeOK, RxType, RxSnapshot, rx, OpenType
  <2> QED BY <1>1, <2>1
         DEF TypeOK, NetType, RingType, SlotType, OpenType, PumpType, MidiType, CurType, RxSnapshot,
             ring, lwip, cur, slots, rx, pump, midi
<1>2. CASE RxSelect
  <2>1. RxType'
    BY <1>2, <1>a, <1>b DEF TypeOK, RxType, RxSelect, rx
  <2> QED BY <1>2, <2>1
         DEF TypeOK, NetType, RingType, SlotType, OpenType, PumpType, MidiType, CurType, RxSelect,
             ring, lwip, cur, slots, rx, pump, midi
<1>3. CASE RxRelease
  <2>1. OpenType'
    BY <1>3, <1>a, <1>b DEF TypeOK, OpenType, RxRelease, PumpingReleased, PumpIdle
  <2>2. RxType'
    BY <1>3, <1>a, <1>b DEF TypeOK, RxType, RxRelease, PumpingReleased, PumpIdle, rx
  <2>3. PumpType'
    BY <1>3, <1>a, <1>b DEF TypeOK, PumpType, RxRelease, PumpingReleased, PumpIdle, pump
  <2> QED BY <1>3, <2>1, <2>2, <2>3
         DEF TypeOK, NetType, RingType, SlotType, MidiType, CurType, RxRelease,
             ring, lwip, cur, slots, rx, pump, midi
<1>4. CASE RxRoundEnd
  <2>1. RxType'
    BY <1>4, <1>a, <1>b DEF TypeOK, RxType, RxRoundEnd, RxIdle, rx
  <2> QED BY <1>4, <2>1
         DEF TypeOK, NetType, RingType, SlotType, OpenType, PumpType, MidiType, CurType, RxRoundEnd,
             ring, lwip, cur, slots, rx, pump, midi
<1>5. CASE PumpLook
  <2>1. PumpType'
    BY <1>5, <1>a, <1>b DEF TypeOK, PumpType, PumpLook, IsFull, pump
  <2> QED BY <1>5, <2>1
         DEF TypeOK, NetType, RingType, SlotType, OpenType, RxType, MidiType, CurType, PumpLook,
             ring, lwip, cur, slots, rx, pump, midi
<1>6. CASE PumpRecv
  <2>1. NetType'
    BY <1>6, <1>a, <1>b, <1>c DEF TypeOK, NetType, PumpRecv, lwip
  <2>2. SlotType'
    <3>1. CASE UNCHANGED data
      BY <3>1, <1>6 DEF TypeOK, SlotType, PumpRecv
    <3>2. CASE /\ mbox[pumpSock] # <<>>
               /\ data' = [data EXCEPT ![pumpSock][pumpTail] = Head(mbox[pumpSock])]
      <4>1. data' \in [Sock -> [Index -> Nat]]
        BY <3>2, <1>6, <1>b, <1>c, <1>g DEF PumpRecv
      <4> QED BY <4>1, <1>6 DEF TypeOK, SlotType, PumpRecv
    <3> QED BY <3>1, <3>2, <1>6 DEF PumpRecv
  <2>3. PumpType'
    BY <1>6, <1>a, <1>b DEF TypeOK, PumpType, PumpRecv, pump
  <2> QED BY <1>6, <2>1, <2>2, <2>3
         DEF TypeOK, RingType, OpenType, RxType, MidiType, CurType, PumpRecv,
             ring, lwip, cur, slots, rx, pump, midi
<1>7. CASE PumpLabel
  <2>1. SlotType'
    BY <1>7, <1>a, <1>b, <1>d DEF TypeOK, SlotType, PumpLabel, slots
  <2>2. PumpType'
    BY <1>7, <1>a, <1>b DEF TypeOK, PumpType, PumpLabel, pump
  <2> QED BY <1>7, <2>1, <2>2
         DEF TypeOK, NetType, RingType, OpenType, RxType, MidiType, CurType, PumpLabel,
             ring, lwip, cur, slots, rx, pump, midi
<1>8. CASE PumpPublish
  <2>1. RingType'
    BY <1>8, <1>a, <1>b, <1>e DEF TypeOK, RingType, PumpPublish, ring
  <2>2. PumpType'
    BY <1>8, <1>a, <1>b DEF TypeOK, PumpType, PumpPublish, pump
  <2> QED BY <1>8, <2>1, <2>2
         DEF TypeOK, NetType, SlotType, OpenType, RxType, MidiType, CurType, PumpPublish,
             ring, lwip, cur, slots, rx, pump, midi
<1>9. CASE ParsePumped
  <2>1. PumpType'
    BY <1>9, <1>a, <1>b DEF TypeOK, PumpType, ParsePumped, PumpIdle, MidiGo, pump
  <2>2. MidiType'
    BY <1>9, <1>a, <1>b DEF TypeOK, MidiType, ParsePumped, PumpIdle, MidiGo, midi
  <2> QED BY <1>9, <2>1, <2>2
         DEF TypeOK, NetType, RingType, SlotType, OpenType, RxType, CurType, ParsePumped,
             ring, lwip, cur, slots, rx, pump, midi
<1>10. CASE ParseLook
  <2>1. MidiType'
    BY <1>10, <1>a, <1>b DEF TypeOK, MidiType, ParseLook, MidiIdle, midi
  <2> QED BY <1>10, <2>1
         DEF TypeOK, NetType, RingType, SlotType, OpenType, RxType, PumpType, CurType, ParseLook,
             ring, lwip, cur, slots, rx, pump, midi
<1>11. CASE ParseCopy
  <2>1. CurType'
    BY <1>11, <1>a, <1>b, <1>d DEF TypeOK, CurType, ParseCopy, MidiGo, cur
  <2>2. MidiType'
    BY <1>11, <1>a, <1>b DEF TypeOK, MidiType, ParseCopy, MidiGo, midi
  <2> QED BY <1>11, <2>1, <2>2
         DEF TypeOK, NetType, RingType, SlotType, OpenType, RxType, PumpType, ParseCopy,
             ring, lwip, cur, slots, rx, pump, midi
<1>12. CASE ParseLabel
  <2>1. CurType'
    BY <1>12, <1>a, <1>b, <1>d DEF TypeOK, CurType, ParseLabel, MidiGo, cur
  <2>2. MidiType'
    BY <1>12, <1>a, <1>b DEF TypeOK, MidiType, ParseLabel, MidiGo, midi
  <2> QED BY <1>12, <2>1, <2>2
         DEF TypeOK, NetType, RingType, SlotType, OpenType, RxType, PumpType, ParseLabel,
             ring, lwip, cur, slots, rx, pump, midi
<1>13. CASE ParseTake
  <2>1. NetType'
    BY <1>13, <1>a, <1>b, <1>c DEF TypeOK, NetType, ParseTake, MidiIdle, lwip
  <2>2. RingType'
    BY <1>13, <1>a, <1>b, <1>e DEF TypeOK, RingType, ParseTake, MidiIdle, ring
  <2>3. OpenType'
    BY <1>13, <1>a, <1>b DEF TypeOK, OpenType, ParseTake, MidiIdle
  <2>4. MidiType'
    BY <1>13, <1>a, <1>b DEF TypeOK, MidiType, ParseTake, MidiIdle, midi
  <2> QED BY <1>13, <2>1, <2>2, <2>3, <2>4
         DEF TypeOK, SlotType, RxType, PumpType, CurType, ParseTake,
             ring, lwip, cur, slots, rx, pump, midi
<1>14. CASE StopClose
  <2>1. NetType'
    BY <1>14, <1>a, <1>b, <1>c DEF TypeOK, NetType, StopClose, MidiGo, lwip
  <2>2. OpenType'
    BY <1>14, <1>a, <1>b DEF TypeOK, OpenType, StopClose, MidiGo
  <2>3. MidiType'
    BY <1>14, <1>a, <1>b DEF TypeOK, MidiType, StopClose, MidiGo, midi
  <2> QED BY <1>14, <2>1, <2>2, <2>3
         DEF TypeOK, RingType, SlotType, RxType, PumpType, CurType, StopClose,
             ring, lwip, cur, slots, rx, pump, midi
<1>15. CASE StopReset
  <2>1. RingType'
    BY <1>15, <1>a, <1>b, <1>e DEF TypeOK, RingType, StopReset, CountAfterStop, MidiGo,
       MidiIdle, ring
  <2>2. OpenType'
    BY <1>15, <1>a, <1>b DEF TypeOK, OpenType, StopReset, CountAfterStop, MidiGo, MidiIdle
  <2>3. MidiType'
    BY <1>15, <1>a, <1>b DEF TypeOK, MidiType, StopReset, CountAfterStop, MidiGo, MidiIdle, midi
  <2> QED BY <1>15, <2>1, <2>2, <2>3
         DEF TypeOK, NetType, SlotType, RxType, PumpType, CurType, StopReset,
             ring, lwip, cur, slots, rx, pump, midi
<1>16. CASE BeginBind
  <2>1. OpenType'
    BY <1>16, <1>a, <1>b DEF TypeOK, OpenType, BeginBind, MidiGo, MidiIdle
  <2>2. MidiType'
    BY <1>16, <1>a, <1>b DEF TypeOK, MidiType, BeginBind, MidiGo, MidiIdle, midi
  <2> QED BY <1>16, <2>1, <2>2
         DEF TypeOK, NetType, RingType, SlotType, RxType, PumpType, CurType, BeginBind,
             ring, lwip, cur, slots, rx, pump, midi
<1>17. CASE BeginList
  <2>1. OpenType'
    BY <1>17, <1>a, <1>b DEF TypeOK, OpenType, BeginList, MidiIdle
  <2>2. MidiType'
    BY <1>17, <1>a, <1>b DEF TypeOK, MidiType, BeginList, MidiIdle, midi
  <2> QED BY <1>17, <2>1, <2>2
         DEF TypeOK, NetType, RingType, SlotType, RxType, PumpType, CurType, BeginList,
             ring, lwip, cur, slots, rx, pump, midi
<1>18. ASSUME NEW s \in Sock, RxClaim(s) PROVE TypeOK'
  <2>1. OpenType'
    BY <1>18, <1>a, <1>b DEF TypeOK, OpenType, RxClaim, MayPump, PumpCall
  <2>2. RxType'
    BY <1>18, <1>a, <1>b DEF TypeOK, RxType, RxClaim, MayPump, PumpCall, rx
  <2>3. PumpType'
    BY <1>18, <1>a, <1>b DEF TypeOK, PumpType, RxClaim, MayPump, PumpCall, pump
  <2> QED BY <1>18, <2>1, <2>2, <2>3
         DEF TypeOK, NetType, RingType, SlotType, MidiType, CurType, RxClaim,
             ring, lwip, cur, slots, rx, pump, midi
<1>19. ASSUME NEW s \in Sock, Arrive(s) PROVE TypeOK'
  <2>1. NetType'
    BY <1>19, <1>a, <1>b, <1>c DEF TypeOK, NetType, Arrive, lwip
  <2>2. RxType' /\ PumpType' /\ MidiType'
    BY <1>19 DEF TypeOK, RxType, PumpType, MidiType, Arrive, rx, pump, midi
  <2> QED BY <1>19, <2>1, <2>2
         DEF TypeOK, RingType, SlotType, OpenType, CurType, Arrive, ring, cur, slots
<1>20. ASSUME NEW s \in Sock, ParseCall(s) PROVE TypeOK'
  <2>1. PumpType'
    BY <1>20, <1>a, <1>b DEF TypeOK, PumpType, ParseCall, Polls, PumpCall, pump
  <2>2. MidiType'
    BY <1>20, <1>a, <1>b DEF TypeOK, MidiType, ParseCall, Polls, PumpCall, midi
  <2> QED BY <1>20, <2>1, <2>2
         DEF TypeOK, NetType, RingType, SlotType, OpenType, RxType, CurType, ParseCall, Polls,
             ring, lwip, cur, slots, rx, pump, midi
<1>21. ASSUME NEW s \in Sock, ReadOut(s) PROVE TypeOK'
  <2>1. OpenType'
    BY <1>21, <1>a, <1>b DEF TypeOK, OpenType, ReadOut
  <2> QED BY <1>21, <2>1
         DEF TypeOK, NetType, RingType, SlotType, RxType, PumpType, MidiType, CurType, ReadOut,
             ring, lwip, cur, slots, rx, pump, midi
<1>22. ASSUME NEW s \in Sock, NEW then \in {"idle", "socket"}, StopCall(s, then)
      PROVE TypeOK'
  <2>1. OpenType'
    BY <1>22, <1>a, <1>b DEF TypeOK, OpenType, StopCall
  <2>2. MidiType'
    BY <1>22, <1>a, <1>b DEF TypeOK, MidiType, StopCall, midi
  <2> QED BY <1>22, <2>1, <2>2
         DEF TypeOK, NetType, RingType, SlotType, RxType, PumpType, CurType, StopCall,
             ring, lwip, cur, slots, rx, pump, midi
<1>23. CASE UNCHANGED vars
  <2>1. NetType' /\ RingType' /\ SlotType' /\ OpenType'
    BY <1>23 DEF vars, TypeOK, NetType, RingType, SlotType, OpenType
  <2>2. RxType' /\ PumpType' /\ MidiType' /\ CurType'
    BY <1>23 DEF vars, TypeOK, RxType, PumpType, MidiType, CurType
  <2> QED BY <2>1, <2>2 DEF TypeOK
<1> QED
  BY <1>1, <1>2, <1>3, <1>4, <1>5, <1>6, <1>7, <1>8, <1>9, <1>10, <1>11, <1>12, <1>13, <1>14,
     <1>15, <1>16, <1>17, <1>18, <1>19, <1>20, <1>21, <1>22, <1>23
     DEF Next, RxStep, PumpStep, MidiStep

-------------------------------------------------------------------------------
(* The control part of the invariant.                                      *)

\* s_pumping names the queue being filled whenever the receive task fills one.
LEMMA PumpOwnerStep ==
    TypeOK /\ Control /\ [Next]_vars => PumpOwner'
<1> SUFFICES ASSUME TypeOK, Control, [Next]_vars PROVE PumpOwner'
  OBVIOUS
<1>a. PumpOwner /\ open \subseteq Sock /\ rxReady \subseteq Sock
  BY DEF Control, TypeOK, OpenType, RxType
<1>1. CASE RxSnapshot
  BY <1>1, <1>a DEF RxSnapshot, PumpOwner, rx, pump, midi
<1>2. CASE RxSelect
  BY <1>2, <1>a DEF RxSelect, PumpOwner, rx, pump, midi
<1>3. CASE RxRelease
  BY <1>3, <1>a DEF RxRelease, PumpingReleased, PumpIdle, PumpOwner, rx, pump, midi
<1>4. CASE RxRoundEnd
  BY <1>4, <1>a DEF RxRoundEnd, RxIdle, PumpOwner, rx, pump, midi
<1>5. CASE PumpLook
  BY <1>5, <1>a DEF PumpLook, IsFull, PumpOwner, rx, pump, midi
<1>6. CASE PumpRecv
  BY <1>6, <1>a DEF PumpRecv, PumpOwner, rx, pump, midi
<1>7. CASE PumpLabel
  BY <1>7, <1>a DEF PumpLabel, PumpOwner, rx, pump, midi
<1>8. CASE PumpPublish
  BY <1>8, <1>a DEF PumpPublish, PumpOwner, rx, pump, midi
<1>9. CASE ParsePumped
  BY <1>9, <1>a DEF ParsePumped, PumpIdle, MidiGo, PumpOwner, rx, pump, midi
<1>10. CASE ParseLook
  BY <1>10, <1>a DEF ParseLook, MidiIdle, PumpOwner, rx, pump, midi
<1>11. CASE ParseCopy
  BY <1>11, <1>a DEF ParseCopy, MidiGo, PumpOwner, rx, pump, midi
<1>12. CASE ParseLabel
  BY <1>12, <1>a DEF ParseLabel, MidiGo, PumpOwner, rx, pump, midi
<1>13. CASE ParseTake
  BY <1>13, <1>a DEF ParseTake, MidiIdle, PumpOwner, rx, pump, midi
<1>14. CASE StopClose
  BY <1>14, <1>a DEF StopClose, MidiGo, PumpOwner, rx, pump, midi
<1>15. CASE StopReset
  BY <1>15, <1>a DEF StopReset, CountAfterStop, MidiGo, MidiIdle, PumpOwner, rx, pump, midi
<1>16. CASE BeginBind
  BY <1>16, <1>a DEF BeginBind, MidiGo, MidiIdle, PumpOwner, rx, pump, midi
<1>17. CASE BeginList
  BY <1>17, <1>a DEF BeginList, MidiIdle, PumpOwner, rx, pump, midi
<1>18. ASSUME NEW s \in Sock, RxClaim(s) PROVE PumpOwner'
  BY <1>18, <1>a DEF RxClaim, MayPump, PumpCall, PumpOwner, rx, pump, midi
<1>19. ASSUME NEW s \in Sock, Arrive(s) PROVE PumpOwner'
  BY <1>19, <1>a DEF Arrive, PumpOwner, rx, pump, midi
<1>20. ASSUME NEW s \in Sock, ParseCall(s) PROVE PumpOwner'
  BY <1>20, <1>a DEF ParseCall, Polls, PumpCall, PumpOwner, rx, pump, midi
<1>21. ASSUME NEW s \in Sock, ReadOut(s) PROVE PumpOwner'
  BY <1>21, <1>a DEF ReadOut, PumpOwner, rx, pump, midi
<1>22. ASSUME NEW s \in Sock, NEW then \in {"idle", "socket"}, StopCall(s, then)
      PROVE PumpOwner'
  BY <1>22, <1>a DEF StopCall, PumpOwner, rx, pump, midi
<1>23. CASE UNCHANGED vars
  BY <1>23, <1>a DEF vars, PumpOwner
<1> QED
  BY <1>1, <1>2, <1>3, <1>4, <1>5, <1>6, <1>7, <1>8, <1>9, <1>10, <1>11, <1>12, <1>13, <1>14,
     <1>15, <1>16, <1>17, <1>18, <1>19, <1>20, <1>21, <1>22, <1>23
     DEF Next, RxStep, PumpStep, MidiStep

\* The MIDI task's place in parsePacket() or stop() fits its socket's state.
LEMMA MidiPlaceStep ==
    TypeOK /\ Control /\ [Next]_vars => MidiPlace'
<1> SUFFICES ASSUME TypeOK, Control, [Next]_vars PROVE MidiPlace'
  OBVIOUS
<1>a. MidiPlace /\ PumpOwner /\ OpenSockets /\ MidiType
  BY DEF Control, TypeOK
<1>b. \A s \in Sock : count[s] \in Nat /\ count \in [Sock -> 0 .. NSlots] /\ head \in [Sock -> Index]
  BY ConstantsAssumption DEF TypeOK, RingType
<1>1. CASE RxSnapshot
  BY <1>1, <1>a, <1>b DEF RxSnapshot, MidiPlace, Copying, rx, pump, midi, ring
<1>2. CASE RxSelect
  BY <1>2, <1>a, <1>b DEF RxSelect, MidiPlace, Copying, rx, pump, midi, ring
<1>3. CASE RxRelease
  BY <1>3, <1>a, <1>b DEF RxRelease, PumpingReleased, PumpIdle, MidiPlace, Copying, rx, pump,
     midi, ring
<1>4. CASE RxRoundEnd
  BY <1>4, <1>a, <1>b DEF RxRoundEnd, RxIdle, MidiPlace, Copying, rx, pump, midi, ring
<1>5. CASE PumpLook
  BY <1>5, <1>a, <1>b DEF PumpLook, IsFull, MidiPlace, Copying, rx, pump, midi, ring
<1>6. CASE PumpRecv
  BY <1>6, <1>a, <1>b DEF PumpRecv, MidiPlace, Copying, rx, pump, midi, ring
<1>7. CASE PumpLabel
  BY <1>7, <1>a, <1>b DEF PumpLabel, MidiPlace, Copying, rx, pump, midi, ring
<1>8. CASE PumpPublish
  BY <1>8, <1>a, <1>b DEF PumpPublish, MidiPlace, Copying, rx, pump, midi, ring
<1>9. CASE ParsePumped
  BY <1>9, <1>a, <1>b DEF ParsePumped, PumpIdle, MidiGo, MidiPlace, Copying, rx, pump, midi, ring
<1>10. CASE ParseLook
  BY <1>10, <1>a, <1>b DEF ParseLook, MidiIdle, MidiPlace, Copying, rx, pump, midi, ring
<1>11. CASE ParseCopy
  BY <1>11, <1>a, <1>b DEF ParseCopy, MidiGo, MidiPlace, Copying, rx, pump, midi, ring
<1>12. CASE ParseLabel
  BY <1>12, <1>a, <1>b DEF ParseLabel, MidiGo, MidiPlace, Copying, rx, pump, midi, ring
<1>13. CASE ParseTake
  BY <1>13, <1>a, <1>b DEF ParseTake, MidiIdle, MidiPlace, Copying, rx, pump, midi, ring
<1>14. CASE StopClose
  BY <1>14, <1>a, <1>b DEF StopClose, MidiGo, MidiPlace, Copying, rx, pump, midi, ring
<1>15. CASE StopReset
  BY <1>15, <1>a, <1>b DEF StopReset, CountAfterStop, MidiGo, MidiIdle, MidiPlace, Copying, rx,
     pump, midi, ring
<1>16. CASE BeginBind
  BY <1>16, <1>a, <1>b DEF BeginBind, MidiGo, MidiIdle, MidiPlace, Copying, rx, pump, midi, ring
<1>17. CASE BeginList
  BY <1>17, <1>a, <1>b DEF BeginList, MidiIdle, MidiPlace, Copying, rx, pump, midi, ring
<1>18. ASSUME NEW s \in Sock, RxClaim(s) PROVE MidiPlace'
  BY <1>18, <1>a, <1>b DEF RxClaim, MayPump, PumpCall, MidiPlace, Copying, rx, pump, midi, ring
<1>19. ASSUME NEW s \in Sock, Arrive(s) PROVE MidiPlace'
  BY <1>19, <1>a, <1>b DEF Arrive, MidiPlace, Copying, rx, pump, midi, ring
<1>20. ASSUME NEW s \in Sock, ParseCall(s) PROVE MidiPlace'
  BY <1>20, <1>a, <1>b DEF ParseCall, Polls, PumpCall, MidiPlace, Copying, rx, pump, midi, ring
<1>21. ASSUME NEW s \in Sock, ReadOut(s) PROVE MidiPlace'
  BY <1>21, <1>a, <1>b DEF ReadOut, MidiPlace, Copying, rx, pump, midi, ring
<1>22. ASSUME NEW s \in Sock, NEW then \in {"idle", "socket"}, StopCall(s, then)
      PROVE MidiPlace'
  BY <1>22, <1>a, <1>b DEF StopCall, MidiPlace, Copying, rx, pump, midi, ring
<1>23. CASE UNCHANGED vars
  BY <1>23, <1>a, <1>b DEF vars, MidiPlace, Copying
<1> QED
  BY <1>1, <1>2, <1>3, <1>4, <1>5, <1>6, <1>7, <1>8, <1>9, <1>10, <1>11, <1>12, <1>13, <1>14,
     <1>15, <1>16, <1>17, <1>18, <1>19, <1>20, <1>21, <1>22, <1>23
     DEF Next, RxStep, PumpStep, MidiStep

\* A queue is filled only while its socket is open, and a listed socket is open.
LEMMA OpenSocketsStep ==
    TypeOK /\ Control /\ [Next]_vars => OpenSockets'
<1> SUFFICES ASSUME TypeOK, Control, [Next]_vars PROVE OpenSockets'
  OBVIOUS
<1>a. MidiPlace /\ PumpOwner /\ OpenSockets /\ NoSock \notin Sock
  BY ConstantsAssumption DEF Control
<1>1. CASE RxSnapshot
  BY <1>1, <1>a DEF RxSnapshot, OpenSockets, NeverPumpsAClosedSocket, MidiPlace, PumpOwner, rx,
     pump, midi
<1>2. CASE RxSelect
  BY <1>2, <1>a DEF RxSelect, OpenSockets, NeverPumpsAClosedSocket, MidiPlace, PumpOwner, rx,
     pump, midi
<1>3. CASE RxRelease
  BY <1>3, <1>a DEF RxRelease, PumpingReleased, PumpIdle, OpenSockets, NeverPumpsAClosedSocket,
     MidiPlace, PumpOwner, rx, pump, midi
<1>4. CASE RxRoundEnd
  BY <1>4, <1>a DEF RxRoundEnd, RxIdle, OpenSockets, NeverPumpsAClosedSocket, MidiPlace,
     PumpOwner, rx, pump, midi
<1>5. CASE PumpLook
  BY <1>5, <1>a DEF PumpLook, IsFull, OpenSockets, NeverPumpsAClosedSocket, MidiPlace,
     PumpOwner, rx, pump, midi
<1>6. CASE PumpRecv
  BY <1>6, <1>a DEF PumpRecv, OpenSockets, NeverPumpsAClosedSocket, MidiPlace, PumpOwner, rx,
     pump, midi
<1>7. CASE PumpLabel
  BY <1>7, <1>a DEF PumpLabel, OpenSockets, NeverPumpsAClosedSocket, MidiPlace, PumpOwner, rx,
     pump, midi
<1>8. CASE PumpPublish
  BY <1>8, <1>a DEF PumpPublish, OpenSockets, NeverPumpsAClosedSocket, MidiPlace, PumpOwner, rx,
     pump, midi
<1>9. CASE ParsePumped
  BY <1>9, <1>a DEF ParsePumped, PumpIdle, MidiGo, OpenSockets, NeverPumpsAClosedSocket,
     MidiPlace, PumpOwner, rx, pump, midi
<1>10. CASE ParseLook
  BY <1>10, <1>a DEF ParseLook, MidiIdle, OpenSockets, NeverPumpsAClosedSocket, MidiPlace,
     PumpOwner, rx, pump, midi
<1>11. CASE ParseCopy
  BY <1>11, <1>a DEF ParseCopy, MidiGo, OpenSockets, NeverPumpsAClosedSocket, MidiPlace,
     PumpOwner, rx, pump, midi
<1>12. CASE ParseLabel
  BY <1>12, <1>a DEF ParseLabel, MidiGo, OpenSockets, NeverPumpsAClosedSocket, MidiPlace,
     PumpOwner, rx, pump, midi
<1>13. CASE ParseTake
  BY <1>13, <1>a DEF ParseTake, MidiIdle, OpenSockets, NeverPumpsAClosedSocket, MidiPlace,
     PumpOwner, rx, pump, midi
<1>14. CASE StopClose
  BY <1>14, <1>a DEF StopClose, StopMayClose, MidiGo, OpenSockets, NeverPumpsAClosedSocket,
     MidiPlace, PumpOwner, rx, pump, midi
<1>15. CASE StopReset
  BY <1>15, <1>a DEF StopReset, CountAfterStop, MidiGo, MidiIdle, OpenSockets,
     NeverPumpsAClosedSocket, MidiPlace, PumpOwner, rx, pump, midi
<1>16. CASE BeginBind
  BY <1>16, <1>a DEF BeginBind, MidiGo, MidiIdle, OpenSockets, NeverPumpsAClosedSocket,
     MidiPlace, PumpOwner, rx, pump, midi
<1>17. CASE BeginList
  BY <1>17, <1>a DEF BeginList, MidiIdle, OpenSockets, NeverPumpsAClosedSocket, MidiPlace,
     PumpOwner, rx, pump, midi
<1>18. ASSUME NEW s \in Sock, RxClaim(s) PROVE OpenSockets'
  BY <1>18, <1>a DEF RxClaim, MayPump, PumpCall, OpenSockets, NeverPumpsAClosedSocket,
     MidiPlace, PumpOwner, rx, pump, midi
<1>19. ASSUME NEW s \in Sock, Arrive(s) PROVE OpenSockets'
  BY <1>19, <1>a DEF Arrive, OpenSockets, NeverPumpsAClosedSocket, MidiPlace, PumpOwner, rx,
     pump, midi
<1>20. ASSUME NEW s \in Sock, ParseCall(s) PROVE OpenSockets'
  BY <1>20, <1>a DEF ParseCall, Polls, PumpCall, OpenSockets, NeverPumpsAClosedSocket, MidiPlace,
     PumpOwner, rx, pump, midi
<1>21. ASSUME NEW s \in Sock, ReadOut(s) PROVE OpenSockets'
  BY <1>21, <1>a DEF ReadOut, OpenSockets, NeverPumpsAClosedSocket, MidiPlace, PumpOwner, rx,
     pump, midi
<1>22. ASSUME NEW s \in Sock, NEW then \in {"idle", "socket"}, StopCall(s, then)
      PROVE OpenSockets'
  BY <1>22, <1>a DEF StopCall, OpenSockets, NeverPumpsAClosedSocket, MidiPlace, PumpOwner, rx,
     pump, midi
<1>23. CASE UNCHANGED vars
  BY <1>23, <1>a DEF vars, OpenSockets, NeverPumpsAClosedSocket, MidiPlace, PumpOwner
<1> QED
  BY <1>1, <1>2, <1>3, <1>4, <1>5, <1>6, <1>7, <1>8, <1>9, <1>10, <1>11, <1>12, <1>13, <1>14,
     <1>15, <1>16, <1>17, <1>18, <1>19, <1>20, <1>21, <1>22, <1>23
     DEF Next, RxStep, PumpStep, MidiStep

\* Taking a slot leaves the tail where it was.
LEMMA TailAfterTake ==
    ASSUME NEW N \in Nat \ {0}, NEW h \in 0 .. N - 1, NEW c \in 1 .. N - 1
    PROVE  (((h + 1) % N) + (c - 1)) % N = (h + c) % N
<1>1. CASE h + 1 < N
  <2>1. (h + 1) % N = h + 1
    BY <1>1, SMT
  <2>2. (h + 1) + (c - 1) = h + c
    OBVIOUS
  <2> QED BY <2>1, <2>2
<1>2. CASE h + 1 = N
  <2>2. (h + 1) % N = 0
    BY <1>2
  <2>3. (h + c) % N = c - 1
    BY <1>2
  <2>4. (c - 1) % N = c - 1
    OBVIOUS
  <2>1. 0 + (c-1) = c - 1
    OBVIOUS
  <2> QED BY <2>1, <2>2, <2>3, <2>4
<1> QED BY <1>1, <1>2, SMT

\* The slot being filled stays the free one after the ring's last.
LEMMA TailFreeStep ==
    TypeOK /\ Control /\ [Next]_vars => TailFree'
<1> SUFFICES ASSUME TypeOK, Control, [Next]_vars PROVE TailFree'
  OBVIOUS
<1>a. MidiPlace /\ PumpOwner /\ OpenSockets /\ TailFree
  BY DEF Control
<1>b. /\ NSlots \in Nat \ {0}
      /\ count \in [Sock -> 0 .. NSlots] /\ head \in [Sock -> 0 .. NSlots - 1]
  BY ConstantsAssumption DEF TypeOK, RingType, Index
<1>1. CASE RxSnapshot
  BY <1>1, <1>a, <1>b DEF RxSnapshot, TailFree, Filling, TailSlot, PumpOwner, rx, pump, midi, ring
<1>2. CASE RxSelect
  BY <1>2, <1>a, <1>b DEF RxSelect, TailFree, Filling, TailSlot, PumpOwner, rx, pump, midi, ring
<1>3. CASE RxRelease
  BY <1>3, <1>a, <1>b DEF RxRelease, PumpingReleased, PumpIdle, TailFree, Filling, TailSlot,
     PumpOwner, rx, pump, midi, ring
<1>4. CASE RxRoundEnd
  BY <1>4, <1>a, <1>b DEF RxRoundEnd, RxIdle, TailFree, Filling, TailSlot, PumpOwner, rx, pump,
     midi, ring
<1>5. CASE PumpLook
  BY <1>5, <1>a, <1>b DEF PumpLook, IsFull, TailFree, Filling, TailSlot, PumpOwner, rx, pump,
     midi, ring
<1>6. CASE PumpRecv
  BY <1>6, <1>a, <1>b DEF PumpRecv, TailFree, Filling, TailSlot, PumpOwner, rx, pump, midi, ring
<1>7. CASE PumpLabel
  BY <1>7, <1>a, <1>b DEF PumpLabel, TailFree, Filling, TailSlot, PumpOwner, rx, pump, midi, ring
<1>8. CASE PumpPublish
  BY <1>8, <1>a, <1>b DEF PumpPublish, TailFree, Filling, pump
<1>9. CASE ParsePumped
  BY <1>9, <1>a, <1>b DEF ParsePumped, PumpIdle, MidiGo, TailFree, Filling, TailSlot, PumpOwner,
     rx, pump, midi, ring
<1>10. CASE ParseLook
  BY <1>10, <1>a, <1>b DEF ParseLook, MidiIdle, TailFree, Filling, TailSlot, PumpOwner, rx,
     pump, midi, ring
<1>11. CASE ParseCopy
  BY <1>11, <1>a, <1>b DEF ParseCopy, MidiGo, TailFree, Filling, TailSlot, PumpOwner, rx, pump,
     midi, ring
<1>12. CASE ParseLabel
  BY <1>12, <1>a, <1>b DEF ParseLabel, MidiGo, TailFree, Filling, TailSlot, PumpOwner, rx, pump,
     midi, ring
<1>13. CASE ParseTake
  <2>1. CASE pumpSock # midiSock \/ ~Filling
    BY <1>13, <2>1, <1>a, <1>b
       DEF ParseTake, MidiIdle, TailFree, Filling, TailSlot, PumpOwner, MidiPlace, pump
  <2>2. CASE pumpSock = midiSock /\ Filling
    <3>1. midiSock \in Sock /\ count[midiSock] \in 1 .. NSlots - 1
      BY <1>13, <2>2, <1>a, <1>b DEF ParseTake, MidiPlace, Copying, TailFree
    <3>2. /\ count'[midiSock] = count[midiSock] - 1
          /\ head'[midiSock] = (head[midiSock] + 1) % NSlots
      BY <1>13, <3>1, <1>b DEF ParseTake, HeadAfterTake
    <3>3. (head'[midiSock] + count'[midiSock]) % NSlots = TailSlot(midiSock)
      BY <3>1, <3>2, <1>b, TailAfterTake DEF TailSlot
    <3>4. pumpTail' = TailSlot(midiSock) /\ pumpSock' = midiSock
      BY <1>13, <2>2, <1>a DEF ParseTake, TailFree, pump
    <3>5. count'[pumpSock'] < NSlots
      BY <1>b, <3>1, <3>2, <3>4
    <3>6. TailSlot(pumpSock)' = pumpTail'
      BY <3>3, <3>4 DEF TailSlot
    <3> QED BY <3>5, <3>6 DEF TailFree
  <2> QED BY <2>1, <2>2
<1>14. CASE StopClose
  BY <1>14, <1>a, <1>b DEF StopClose, MidiGo, TailFree, Filling, TailSlot, PumpOwner, rx, pump,
     midi, ring
<1>15. CASE StopReset
  <2>1. pumpPc # "none" => pumpSock # midiSock
    BY <1>15, <1>a DEF StopReset, MidiPlace, OpenSockets, NeverPumpsAClosedSocket
  <2> QED BY <1>15, <2>1, <1>a, <1>b
          DEF StopReset, TailFree, Filling, TailSlot, PumpOwner, MidiPlace, pump
<1>16. CASE BeginBind
  BY <1>16, <1>a, <1>b DEF BeginBind, MidiGo, MidiIdle, TailFree, Filling, TailSlot, PumpOwner,
     rx, pump, midi, ring
<1>17. CASE BeginList
  BY <1>17, <1>a, <1>b DEF BeginList, MidiIdle, TailFree, Filling, TailSlot, PumpOwner, rx,
     pump, midi, ring
<1>18. ASSUME NEW s \in Sock, RxClaim(s) PROVE TailFree'
  BY <1>18, <1>a, <1>b DEF RxClaim, MayPump, PumpCall, TailFree, Filling, TailSlot, PumpOwner,
     rx, pump, midi, ring
<1>19. ASSUME NEW s \in Sock, Arrive(s) PROVE TailFree'
  BY <1>19, <1>a, <1>b DEF Arrive, TailFree, Filling, TailSlot, PumpOwner, rx, pump, midi, ring
<1>20. ASSUME NEW s \in Sock, ParseCall(s) PROVE TailFree'
  BY <1>20, <1>a, <1>b DEF ParseCall, Polls, PumpCall, TailFree, Filling, TailSlot, PumpOwner, rx,
     pump, midi, ring
<1>21. ASSUME NEW s \in Sock, ReadOut(s) PROVE TailFree'
  BY <1>21, <1>a, <1>b DEF ReadOut, TailFree, Filling, TailSlot, PumpOwner, rx, pump, midi, ring
<1>22. ASSUME NEW s \in Sock, NEW then \in {"idle", "socket"}, StopCall(s, then)
      PROVE TailFree'
  BY <1>22, <1>a, <1>b DEF StopCall, TailFree, Filling, TailSlot, PumpOwner, rx, pump, midi, ring
<1>23. CASE UNCHANGED vars
  BY <1>23, <1>a, <1>b DEF vars, TailFree, Filling, TailSlot, PumpOwner
<1> QED
  BY <1>1, <1>2, <1>3, <1>4, <1>5, <1>6, <1>7, <1>8, <1>9, <1>10, <1>11, <1>12, <1>13, <1>14,
     <1>15, <1>16, <1>17, <1>18, <1>19, <1>20, <1>21, <1>22, <1>23
     DEF Next, RxStep, PumpStep, MidiStep

THEOREM ControlInvariant == Spec => [](TypeOK /\ Control)
<1>1. Init => TypeOK /\ Control
  BY IndexFacts, ConstantsAssumption
     DEF Init, TypeOK, NetType, RingType, SlotType, OpenType, RxType, PumpType, MidiType, CurType,
         Control, PumpOwner, MidiPlace, OpenSockets, NeverPumpsAClosedSocket, TailFree, Filling,
         Copying, Index
<1>2. TypeOK /\ Control /\ [Next]_vars => (TypeOK /\ Control)'
  BY TypeStep, PumpOwnerStep, MidiPlaceStep, OpenSocketsStep, TailFreeStep DEF Control
<1> QED BY <1>1, <1>2, PTL DEF Spec

\* Every variable keeps its type, for every number of sockets and slots: head
\* and count never leave the ring.
THEOREM TypeCorrect == Spec => []TypeOK
BY ControlInvariant, PTL

\* stop() never closes a socket the receive task is filling the queue of.
THEOREM NoPumpOnClosed == Spec => []NeverPumpsAClosedSocket
<1>1. TypeOK /\ Control => NeverPumpsAClosedSocket
  BY DEF Control, OpenSockets
<1> QED BY <1>1, ControlInvariant, PTL

\* The tail of a ring that is neither empty nor full is not its head.
LEMMA TailNotHead ==
    ASSUME NEW N \in Nat \ {0}, NEW h \in 0 .. N - 1, NEW c \in 1 .. N - 1
    PROVE  (h + c) % N # h
<1>1. CASE h + c < N
  BY <1>1, SMT
<1>2. CASE h + c >= N
  BY <1>2, SMT
<1> QED BY <1>1, <1>2

\* The two tasks never touch the same slot, although they copy outside the lock.
THEOREM SlotsDisjoint == Spec => []SlotNotShared
<1>1. TypeOK /\ Control => SlotNotShared
  <2> SUFFICES ASSUME TypeOK, Control, Filling, Copying, pumpSock = midiSock
               PROVE  pumpTail # midiHead
    BY DEF SlotNotShared
  <2>1. /\ NSlots \in Nat \ {0} /\ midiSock \in Sock
        /\ count \in [Sock -> 0 .. NSlots] /\ head \in [Sock -> 0 .. NSlots - 1]
    BY ConstantsAssumption DEF TypeOK, RingType, Index, Control, MidiPlace, Copying
  <2>2. /\ count[midiSock] \in 1 .. NSlots - 1 /\ head[midiSock] \in 0 .. NSlots - 1
        /\ midiHead = head[midiSock] /\ pumpTail = TailSlot(midiSock)
    BY <2>1 DEF Control, MidiPlace, TailFree
  <2> QED BY <2>1, <2>2, TailNotHead DEF TailSlot
<1> QED BY <1>1, ControlInvariant, PTL

-------------------------------------------------------------------------------
(* Refinement.  BufferedUdp implements DatagramFifo, for every set of      *)
(* sockets, ring size and mailbox size: what the ring and lwIP's mailbox   *)
(* hold between them is exactly the datagrams accepted and not yet handed  *)
(* over.                                                                   *)

(* The data part of the invariant.                                         *)

\* A closed socket holds nothing, once stop() has reset its ring.
EmptyAt(s) == /\ mbox[s] = <<>>
              /\ next[s] = acc[s] + 1
              /\ midiPc # "closed" \/ midiSock # s => count[s] = 0

ClosedEmpty == \A s \in Sock \ fd : EmptyAt(s)

InFlight(s) == IF pumpSock = s /\ pumpPc \in {"label", "publish"} THEN 1 ELSE 0

\* The number of the first datagram still in lwIP's mailbox.
First(s) == next[s] + count[s] + InFlight(s)

\* Slot contents: datagrams next[s], next[s]+1, ... from the head on, then the
\* one being copied in.
RingAt(s) ==
    /\ \A i \in 0 .. count[s] - 1 :
          /\ data[s][(head[s] + i) % NSlots] = next[s] + i
          /\ from[s][(head[s] + i) % NSlots] = next[s] + i
    /\ InFlight(s) = 1 => data[s][pumpTail] = next[s] + count[s]
    /\ InFlight(s) = 1 /\ pumpPc = "publish" => from[s][pumpTail] = next[s] + count[s]

RingData == \A s \in fd : RingAt(s)

\* Mailbox contents: the datagrams lo .. hi in order, among empties.
Holds(m, lo, hi) ==
    /\ lo <= hi + 1
    /\ \A i \in 1 .. Len(m) : m[i] # 0 => lo <= m[i] /\ m[i] <= hi
    /\ \A i, j \in 1 .. Len(m) : i < j /\ m[i] # 0 /\ m[j] # 0 => m[i] < m[j]
    /\ \A n \in lo .. hi : \E i \in 1 .. Len(m) : m[i] = n

MailboxData == \A s \in fd : Holds(mbox[s], First(s), acc[s])

\* The session's current datagram.
CurData ==
    /\ CurWhole
    /\ midiPc \in {"label", "take"} => curData[midiSock] = next[midiSock]
    /\ midiPc = "take" => curFrom[midiSock] = next[midiSock]
    /\ \A s \in Sock : next[s] > 0

Data == ClosedEmpty /\ RingData /\ MailboxData /\ CurData

IInv == TypeOK /\ Control /\ Data

-------------------------------------------------------------------------------
(* Facts about the ring's indexes and the mailbox's contents.              *)

\* Two slots less than a turn apart are different.
LEMMA SlotDistinct ==
    ASSUME NEW N \in Nat \ {0}, NEW h \in 0 .. N - 1, NEW c \in 0 .. N - 1, NEW i \in 0 .. c - 1
    PROVE  (h + i) % N # (h + c) % N
<1>1. CASE h + c < N
  BY <1>1, SMT
<1>2. CASE h + i >= N
  BY <1>2, SMT
<1>3. CASE h + i < N /\ h + c >= N
  BY <1>3, SMT
<1> QED BY <1>1, <1>2, <1>3

\* An empty mailbox holds nothing.
LEMMA HoldsEmpty ==
    ASSUME NEW hi \in Nat
    PROVE  Holds(<<>>, hi + 1, hi)
BY DEF Holds

\* recvfrom() takes an empty datagram or the first one held.
LEMMA HoldsTail ==
    ASSUME NEW m \in Seq(Nat), m # <<>>, NEW lo \in Nat \ {0}, NEW hi \in Nat, Holds(m, lo, hi)
    PROVE  /\ Head(m) = 0 => Holds(Tail(m), lo, hi)
           /\ Head(m) # 0 => Head(m) = lo /\ lo <= hi /\ Holds(Tail(m), lo + 1, hi)
<1> DEFINE t == Tail(m)
<1>0. \A p, q \in 1 .. Len(m) : p < q /\ m[p] # 0 /\ m[q] # 0 => m[p] < m[q]
  BY DEF Holds
<1>1. /\ Head(m) = m[1] /\ Len(m) \in Nat \ {0} /\ Len(t) = Len(m) - 1 /\ t \in Seq(Nat)
      /\ \A i \in 1 .. Len(t) : t[i] = m[i + 1] /\ i + 1 \in 1 .. Len(m)
      /\ \A i \in 1 .. Len(m) : m[i] \in Nat
      /\ 1 \in 1 .. Len(m)
  BY HeadTailProperties, ElementOfSeq
<1>2. \A i \in 1 .. Len(m) : i # 1 => i - 1 \in 1 .. Len(t) /\ t[i - 1] = m[i]
  <2> TAKE i \in 1 .. Len(m)
  <2> HAVE i # 1
  <2>1. i - 1 \in 1 .. Len(t) /\ (i - 1) + 1 = i
    BY <1>1
  <2> QED BY <2>1, <1>1
<1> HIDE DEF t
<1>3. ASSUME NEW k \in {lo, lo + 1}, m[1] # 0 => k = m[1] + 1, m[1] = 0 => k = lo, k <= hi + 1
      PROVE  Holds(t, k, hi)
  <2>1. \A i \in 1 .. Len(t) : t[i] # 0 => k <= t[i] /\ t[i] <= hi
    <3> TAKE i \in 1 .. Len(t)
    <3> HAVE t[i] # 0
    <3>1. i + 1 \in 1 .. Len(m) /\ t[i] = m[i + 1] /\ 1 < i + 1 /\ m[i + 1] \in Nat /\ m[1] \in Nat
      BY <1>1
    <3>2. lo <= m[i + 1] /\ m[i + 1] <= hi /\ (m[1] # 0 => m[1] < m[i + 1])
      BY <1>1, <3>1 DEF Holds
    <3> QED BY <1>3, <3>1, <3>2
  <2>2. \A i, j \in 1 .. Len(t) : i < j /\ t[i] # 0 /\ t[j] # 0 => t[i] < t[j]
    <3> TAKE i, j \in 1 .. Len(t)
    <3> HAVE i < j /\ t[i] # 0 /\ t[j] # 0
    <3>1. i + 1 \in 1 .. Len(m) /\ t[i] = m[i + 1] /\ j + 1 \in 1 .. Len(m) /\ t[j] = m[j + 1]
      BY <1>1
    <3>2. i + 1 < j + 1
      BY <1>1
    <3>3. m[i + 1] < m[j + 1]
      BY <1>0, <3>1, <3>2
    <3> QED BY <3>1, <3>3
  <2>3. \A n \in k .. hi : \E i \in 1 .. Len(t) : t[i] = n
    <3> TAKE n \in k .. hi
    <3>1. n \in lo .. hi /\ n # m[1]
      BY <1>1, <1>3
    <3>2. PICK i \in 1 .. Len(m) : m[i] = n
      BY <3>1 DEF Holds
    <3> QED BY <1>2, <3>1, <3>2
  <2> QED BY <1>3, <2>1, <2>2, <2>3 DEF Holds
<1>4. CASE m[1] = 0
  BY <1>1, <1>3, <1>4 DEF Holds, t
<1>5. CASE m[1] # 0
  <2>1. lo <= m[1] /\ m[1] <= hi /\ m[1] \in Nat
    BY <1>1, <1>5 DEF Holds
  <2>2. PICK i \in 1 .. Len(m) : m[i] = lo
    BY <2>1 DEF Holds
  <2>3. m[1] = lo
    <3>1. CASE i # 1
      <4>1. m[1] < m[i]
        BY <1>0, <1>1, <1>5, <2>2, <3>1
      <4> QED BY <2>1, <2>2, <4>1
    <3> QED BY <2>2, <3>1
  <2>4. Holds(t, lo + 1, hi)
    BY <1>3, <1>5, <2>1, <2>3
  <2> QED BY <1>1, <1>5, <2>1, <2>3, <2>4 DEF t
<1> QED BY <1>4, <1>5

\* lwIP queues the next datagram, or an empty one, at the end.
LEMMA HoldsAppend ==
    ASSUME NEW m \in Seq(Nat), NEW lo \in Nat \ {0}, NEW hi \in Nat, Holds(m, lo, hi)
    PROVE  Holds(Append(m, 0), lo, hi) /\ Holds(Append(m, hi + 1), lo, hi + 1)
<1>1. ASSUME NEW x \in {0, hi + 1}, NEW k \in {hi, hi + 1}, x = 0 => k = hi, x # 0 => k = hi + 1 /\ x = k
      PROVE  Holds(Append(m, x), lo, k)
  <2> DEFINE a == Append(m, x)
  <2>1. /\ Len(m) \in Nat /\ Len(a) = Len(m) + 1 /\ a[Len(m) + 1] = x
        /\ \A i \in 1 .. Len(m) : a[i] = m[i] /\ i \in 1 .. Len(a) /\ m[i] \in Nat
        /\ Len(m) + 1 \in 1 .. Len(a)
        /\ \A i \in 1 .. Len(a) : i # Len(m) + 1 => i \in 1 .. Len(m)
    BY AppendProperties, ElementOfSeq
  <2> HIDE DEF a
  <2>2. \A i \in 1 .. Len(a) : a[i] # 0 => lo <= a[i] /\ a[i] <= k
    BY <1>1, <2>1 DEF Holds
  <2>3. \A i, j \in 1 .. Len(a) : i < j /\ a[i] # 0 /\ a[j] # 0 => a[i] < a[j]
    <3> TAKE i, j \in 1 .. Len(a)
    <3> HAVE i < j /\ a[i] # 0 /\ a[j] # 0
    <3>1. i \in 1 .. Len(m) /\ a[i] = m[i] /\ m[i] <= hi
      BY <2>1 DEF Holds
    <3>2. CASE j \in 1 .. Len(m)
      <4>1. m[i] < m[j]
        BY <2>1, <3>1, <3>2 DEF Holds
      <4> QED BY <2>1, <3>1, <3>2, <4>1
    <3>3. CASE j = Len(m) + 1
      BY <1>1, <2>1, <3>1, <3>3
    <3> QED BY <2>1, <3>2, <3>3
  <2>4. \A n \in lo .. k : \E i \in 1 .. Len(a) : a[i] = n
    <3> TAKE n \in lo .. k
    <3>1. CASE n \in lo .. hi
      BY <2>1, <3>1 DEF Holds
    <3>2. CASE n = hi + 1
      BY <1>1, <2>1, <3>2
    <3> QED BY <1>1, <3>1, <3>2
  <2>5. lo <= k + 1
    BY <1>1 DEF Holds
  <2> QED BY <2>2, <2>3, <2>4, <2>5 DEF Holds, a
<1> QED BY <1>1

-------------------------------------------------------------------------------
(* The steps that touch neither the datagrams nor the socket's state.      *)

QuietStep ==
    \/ RxSnapshot \/ RxSelect \/ RxRelease \/ RxRoundEnd \/ PumpLook
    \/ ParsePumped \/ ParseLook \/ ParseCopy \/ ParseLabel \/ BeginList
    \/ \E s \in Sock : \/ RxClaim(s) \/ ParseCall(s) \/ ReadOut(s)
                       \/ \E then \in {"idle", "socket"} : StopCall(s, then)
    \/ UNCHANGED vars

LEMMA QuietFrame ==
    ASSUME Control, QuietStep
    PROVE  /\ UNCHANGED <<mbox, acc, next, head, count, data, from, fd>>
           /\ \A s \in Sock : /\ InFlight(s)' = InFlight(s)
                              /\ InFlight(s) = 1 => UNCHANGED pump
           /\ midiPc' = "closed" <=> midiPc = "closed"
           /\ midiPc = "closed" => midiSock' = midiSock
<1>a. PumpOwner
  BY DEF Control
<1>1. CASE RxSnapshot \/ RxSelect \/ RxRoundEnd \/ ParseCopy \/ ParseLabel \/ BeginList \/ ParseLook
  BY <1>1 DEF RxSnapshot, RxSelect, RxRoundEnd, RxIdle, ParseCopy, ParseLabel, BeginList, ParseLook,
              MidiGo, MidiIdle, InFlight, ring, slots, lwip, pump, midi
<1>2. CASE RxRelease \/ PumpLook \/ ParsePumped
  BY <1>2 DEF RxRelease, PumpIdle, PumpLook, ParsePumped, MidiGo, InFlight, ring, slots, lwip, pump, midi
<1>3. CASE \E s \in Sock : RxClaim(s)
  BY <1>3, <1>a DEF RxClaim, MayPump, PumpCall, PumpOwner, InFlight, ring, slots, lwip, pump, midi
<1>4. CASE \E s \in Sock : ParseCall(s)
  BY <1>4, <1>a DEF ParseCall, Polls, PumpCall, PumpOwner, InFlight, ring, slots, lwip, pump, midi
<1>5. CASE \E s \in Sock : ReadOut(s) \/ \E then \in {"idle", "socket"} : StopCall(s, then)
  BY <1>5 DEF ReadOut, StopCall, InFlight, ring, slots, lwip, pump, midi
<1>6. CASE UNCHANGED vars
  BY <1>6 DEF vars, InFlight, pump
<1> QED BY <1>1, <1>2, <1>3, <1>4, <1>5, <1>6 DEF QuietStep

LEMMA QuietData ==
    ASSUME TypeOK, Control, Data, QuietStep
    PROVE  ClosedEmpty' /\ RingData' /\ MailboxData'
<1>1. /\ UNCHANGED <<mbox, acc, next, head, count, data, from, fd>>
      /\ \A s \in Sock : /\ InFlight(s)' = InFlight(s)
                         /\ InFlight(s) = 1 => UNCHANGED pump
      /\ midiPc' = "closed" <=> midiPc = "closed"
      /\ midiPc = "closed" => midiSock' = midiSock
  BY QuietFrame
<1>2. ClosedEmpty'
  BY <1>1 DEF Data, ClosedEmpty, EmptyAt
<1>3. fd \subseteq Sock
  BY DEF TypeOK, OpenType
<1>4. RingData'
  BY <1>1, <1>3 DEF Data, RingData, RingAt, pump
<1>5. MailboxData'
  BY <1>1, <1>3 DEF Data, MailboxData, First
<1> QED BY <1>2, <1>4, <1>5

-------------------------------------------------------------------------------
(* The steps that do.                                                      *)

LEMMA DataTypes ==
    ASSUME TypeOK, Data, NEW s \in Sock
    PROVE  /\ NSlots \in Nat \ {0}
           /\ count[s] \in 0 .. NSlots /\ head[s] \in 0 .. NSlots - 1
           /\ next[s] \in Nat \ {0} /\ acc[s] \in Nat /\ mbox[s] \in Seq(Nat)
           /\ InFlight(s) \in {0, 1} /\ First(s) \in Nat \ {0}
<1>1. /\ NSlots \in Nat \ {0}
      /\ count[s] \in 0 .. NSlots /\ head[s] \in 0 .. NSlots - 1
      /\ next[s] \in Nat \ {0} /\ acc[s] \in Nat /\ mbox[s] \in Seq(Nat)
  BY ConstantsAssumption DEF TypeOK, RingType, NetType, Index, Data, CurData
<1>2. InFlight(s) \in {0, 1}
  BY DEF InFlight
<1> QED BY <1>1, <1>2 DEF First

\* A datagram arrives at the end of lwIP's mailbox.
LEMMA ArriveData ==
    ASSUME TypeOK, Control, Data, NEW s \in Sock, Arrive(s)
    PROVE  ClosedEmpty' /\ RingData' /\ MailboxData'
<1>a. /\ UNCHANGED <<next, head, count, data, from, fd, pumpPc, pumpSock, pumpTail, midiPc, midiSock>>
      /\ s \in fd /\ fd \subseteq Sock
      /\ acc \in [Sock -> Nat] /\ mbox \in [Sock -> Seq(Nat)]
  BY DEF Arrive, ring, slots, pump, midi, TypeOK, OpenType, NetType
<1>b. \A r \in Sock \ {s} : mbox'[r] = mbox[r] /\ acc'[r] = acc[r]
  BY <1>a DEF Arrive
<1>1. ClosedEmpty'
  BY <1>a, <1>b DEF Data, ClosedEmpty, EmptyAt
<1>2. RingData'
  BY <1>a DEF Data, RingData, RingAt, InFlight
<1>3. Holds(mbox[s], First(s), acc[s])
  BY <1>a DEF Data, MailboxData
<1>4. /\ Holds(Append(mbox[s], 0), First(s), acc[s])
      /\ Holds(Append(mbox[s], acc[s] + 1), First(s), acc[s] + 1)
  BY <1>3, DataTypes, HoldsAppend
<1>5. \/ mbox'[s] = Append(mbox[s], 0) /\ acc'[s] = acc[s]
      \/ mbox'[s] = Append(mbox[s], acc[s] + 1) /\ acc'[s] = acc[s] + 1
  BY <1>a DEF Arrive
<1>6. \A r \in Sock : First(r)' = First(r)
  BY <1>a DEF First, InFlight
<1>7. MailboxData'
  BY <1>a, <1>b, <1>4, <1>5, <1>6 DEF Data, MailboxData
<1> QED BY <1>1, <1>2, <1>7

\* recvfrom(): the mailbox's first datagram moves into the free slot.
LEMMA RecvData ==
    ASSUME TypeOK, Control, Data, PumpRecv
    PROVE  ClosedEmpty' /\ RingData' /\ MailboxData'
<1> DEFINE s == pumpSock
<1>a. /\ UNCHANGED <<acc, next, head, count, from, fd, pumpSock, pumpTail, midiPc, midiSock>>
      /\ fd \subseteq Sock /\ s \in fd /\ s \in Sock
      /\ mbox \in [Sock -> Seq(Nat)] /\ data \in [Sock -> [Index -> Nat]] /\ pumpTail \in Index
      /\ InFlight(s) = 0 /\ count[s] < NSlots /\ pumpTail = (head[s] + count[s]) % NSlots
  BY DEF PumpRecv, ring, midi, TypeOK, OpenType, NetType, SlotType, PumpType, Control, OpenSockets,
         NeverPumpsAClosedSocket, InFlight, TailFree, Filling, TailSlot
<1>b. \A r \in Sock \ {s} : /\ mbox'[r] = mbox[r] /\ data'[r] = data[r]
                            /\ InFlight(r) = 0 /\ InFlight(r)' = 0
  BY <1>a DEF PumpRecv, InFlight
<1>c. Holds(mbox[s], First(s), acc[s]) /\ RingAt(s)
  BY <1>a DEF Data, MailboxData, RingData
<1>1. ClosedEmpty'
  BY <1>a, <1>b DEF Data, ClosedEmpty, EmptyAt
<1>2. \A r \in fd \ {s} : RingAt(r)'
  BY <1>a, <1>b DEF Data, RingData, RingAt
<1>3. \A r \in fd \ {s} : Holds(mbox[r], First(r), acc[r])'
  BY <1>a, <1>b DEF Data, MailboxData, First
<1>4. CASE mbox[s] = <<>>
  <2>1. UNCHANGED <<mbox, data>> /\ InFlight(s)' = 0
    BY <1>4 DEF PumpRecv, InFlight
  <2>2. RingAt(s)'
    BY <1>a, <1>c, <2>1 DEF RingAt
  <2>3. Holds(mbox[s], First(s), acc[s])'
    BY <1>a, <1>c, <2>1 DEF First
  <2> QED BY <1>a, <1>1, <1>2, <1>3, <2>2, <2>3 DEF RingData, MailboxData
<1>5. CASE mbox[s] # <<>> /\ Head(mbox[s]) = 0
  <2>1. mbox'[s] = Tail(mbox[s]) /\ data' = data /\ InFlight(s)' = 0
    BY <1>5, <1>a DEF PumpRecv, InFlight
  <2>2. Holds(Tail(mbox[s]), First(s), acc[s])
    BY <1>5, <1>a, <1>c, DataTypes, HoldsTail
  <2>3. RingAt(s)'
    BY <1>a, <1>c, <2>1 DEF RingAt
  <2>4. Holds(mbox[s], First(s), acc[s])'
    BY <1>a, <2>1, <2>2 DEF First
  <2> QED BY <1>a, <1>1, <1>2, <1>3, <2>3, <2>4 DEF RingData, MailboxData
<1>6. CASE mbox[s] # <<>> /\ Head(mbox[s]) # 0
  <2>1. /\ mbox'[s] = Tail(mbox[s])
        /\ data'[s] = [data[s] EXCEPT ![pumpTail] = Head(mbox[s])]
        /\ InFlight(s)' = 1 /\ pumpPc' = "label"
    BY <1>6, <1>a DEF PumpRecv, InFlight
  <2>2. Head(mbox[s]) = First(s) /\ Holds(Tail(mbox[s]), First(s) + 1, acc[s])
    BY <1>6, <1>a, <1>c, DataTypes, HoldsTail
  <2>3. First(s) = next[s] + count[s] /\ First(s)' = First(s) + 1
    BY <1>a, <2>1, DataTypes DEF First
  <2>4. data'[s][pumpTail] = next[s] + count[s]
    BY <1>a, <2>1, <2>2, <2>3
  <2>5. ASSUME NEW i \in 0 .. count[s] - 1
        PROVE  data'[s][(head[s] + i) % NSlots] = next[s] + i
    <3>1. /\ NSlots \in Nat \ {0} /\ head[s] \in 0 .. NSlots - 1
          /\ count[s] \in 0 .. NSlots - 1
      BY <1>a, DataTypes
    <3>2. (head[s] + i) % NSlots # pumpTail
      BY <3>1, <1>a, SlotDistinct
    <3>3. (head[s] + i) % NSlots \in Index
      BY <3>1 DEF Index
    <3> QED BY <1>a, <1>c, <2>1, <3>2, <3>3 DEF RingAt
  <2>6. RingAt(s)'
    BY <1>a, <1>c, <2>1, <2>4, <2>5 DEF RingAt
  <2>7. Holds(mbox[s], First(s), acc[s])'
    BY <1>a, <2>1, <2>2, <2>3
  <2> QED BY <1>a, <1>1, <1>2, <1>3, <2>6, <2>7 DEF RingData, MailboxData
<1> QED BY <1>4, <1>5, <1>6

\* The sender and the length join the data in the slot.
LEMMA LabelData ==
    ASSUME TypeOK, Control, Data, PumpLabel
    PROVE  ClosedEmpty' /\ RingData' /\ MailboxData'
<1> DEFINE s == pumpSock
<1>a. /\ UNCHANGED <<mbox, acc, next, head, count, data, fd, pumpSock, pumpTail, midiPc, midiSock>>
      /\ fd \subseteq Sock /\ s \in fd /\ s \in Sock
      /\ from \in [Sock -> [Index -> Nat]] /\ pumpTail \in Index
      /\ count[s] < NSlots /\ pumpTail = (head[s] + count[s]) % NSlots
      /\ InFlight(s) = 1 /\ pumpPc' = "publish"
      /\ from'[s] = [from[s] EXCEPT ![pumpTail] = data[s][pumpTail]]
      /\ \A r \in Sock \ {s} : from'[r] = from[r]
  BY DEF PumpLabel, ring, midi, lwip, TypeOK, OpenType, SlotType, PumpType, Control, OpenSockets,
         NeverPumpsAClosedSocket, InFlight, TailFree, Filling, TailSlot
<1>b. \A r \in Sock : InFlight(r)' = InFlight(r)
  BY DEF PumpLabel, InFlight
<1>c. RingAt(s)
  BY <1>a DEF Data, RingData
<1>1. ClosedEmpty'
  BY <1>a DEF Data, ClosedEmpty, EmptyAt
<1>2. MailboxData'
  BY <1>a, <1>b DEF Data, MailboxData, First
<1>3. \A r \in fd \ {s} : RingAt(r)'
  BY <1>a, <1>b DEF Data, RingData, RingAt, InFlight
<1>4. ASSUME NEW i \in 0 .. count[s] - 1
      PROVE  from'[s][(head[s] + i) % NSlots] = next[s] + i
  <2>1. /\ NSlots \in Nat \ {0} /\ head[s] \in 0 .. NSlots - 1
        /\ count[s] \in 0 .. NSlots - 1
    BY <1>a, DataTypes
  <2>2. (head[s] + i) % NSlots # pumpTail
    BY <2>1, <1>a, SlotDistinct
  <2>3. (head[s] + i) % NSlots \in Index
    BY <2>1 DEF Index
  <2> QED BY <1>a, <1>c, <2>2, <2>3 DEF RingAt
<1>5. from'[s][pumpTail] = next[s] + count[s]
  BY <1>a, <1>c DEF RingAt
<1>6. RingAt(s)'
  BY <1>a, <1>b, <1>c, <1>4, <1>5 DEF RingAt
<1> QED BY <1>a, <1>1, <1>2, <1>3, <1>6 DEF RingData

\* The slot filled becomes the ring's last.
LEMMA PublishData ==
    ASSUME TypeOK, Control, Data, PumpPublish
    PROVE  ClosedEmpty' /\ RingData' /\ MailboxData'
<1> DEFINE s == pumpSock
<1>a. /\ UNCHANGED <<mbox, acc, next, head, data, from, fd, pumpSock, pumpTail, midiPc, midiSock>>
      /\ fd \subseteq Sock /\ s \in fd /\ s \in Sock
      /\ pumpTail = (head[s] + count[s]) % NSlots
      /\ pumpPc = "publish" /\ InFlight(s) = 1 /\ InFlight(s)' = 0
      /\ count'[s] = count[s] + 1
      /\ \A r \in Sock \ {s} : count'[r] = count[r] /\ InFlight(r)' = InFlight(r)
  BY DEF PumpPublish, slots, midi, lwip, TypeOK, OpenType, RingType, Control, OpenSockets,
         NeverPumpsAClosedSocket, InFlight, TailFree, Filling, TailSlot
<1>c. RingAt(s)
  BY <1>a DEF Data, RingData
<1>1. ClosedEmpty'
  BY <1>a DEF Data, ClosedEmpty, EmptyAt
<1>2. First(s)' = First(s)
  <2>1. next[s] \in Nat /\ count[s] \in Nat
    BY <1>a, DataTypes
  <2> QED BY <1>a, <2>1 DEF First
<1>3. MailboxData'
  BY <1>a, <1>2 DEF Data, MailboxData, First
<1>4. \A r \in fd \ {s} : RingAt(r)'
  BY <1>a DEF Data, RingData, RingAt, InFlight
<1>5. ASSUME NEW i \in 0 .. count'[s] - 1
      PROVE  /\ data[s][(head[s] + i) % NSlots] = next[s] + i
             /\ from[s][(head[s] + i) % NSlots] = next[s] + i
  <2>1. i \in 0 .. count[s] - 1 \/ i = count[s]
    BY <1>a, DataTypes
  <2> QED BY <1>a, <1>c, <2>1 DEF RingAt
<1>6. RingAt(s)'
  BY <1>a, <1>5 DEF RingAt
<1> QED BY <1>a, <1>1, <1>3, <1>4, <1>6 DEF RingData

\* Datagrams are waiting on a socket only while it is open.
LEMMA CopyingOpen ==
    ASSUME TypeOK, Control, Data, Copying
    PROVE  midiSock \in fd /\ midiSock \in Sock /\ count[midiSock] > 0 /\ midiSock \notin unread
BY DEF Control, MidiPlace, Copying, Data, ClosedEmpty, EmptyAt, TypeOK, RingType

\* The slot at the head leaves the ring: its datagram has been handed over.
LEMMA TakeData ==
    ASSUME TypeOK, Control, Data, ParseTake, NEW s \in Sock, midiSock = s
    PROVE  ClosedEmpty' /\ RingData' /\ MailboxData'
<1>a. s \in fd /\ s \in Sock /\ count[s] > 0 /\ fd \subseteq Sock
  BY CopyingOpen DEF ParseTake, Copying, TypeOK, OpenType
<1>b. /\ UNCHANGED <<mbox, acc, data, from, fd, pumpPc, pumpSock, pumpTail>>
      /\ head'[s] = (head[s] + 1) % NSlots /\ count'[s] = count[s] - 1 /\ next'[s] = next[s] + 1
      /\ \A r \in Sock \ {s} : head'[r] = head[r] /\ count'[r] = count[r] /\ next'[r] = next[r]
      /\ midiPc' # "closed" /\ midiPc # "closed"
  BY <1>a DEF ParseTake, HeadAfterTake, slots, lwip, pump, MidiIdle, TypeOK, RingType, NetType
<1>c. \A r \in Sock : InFlight(r)' = InFlight(r)
  BY <1>b DEF InFlight
<1>d. RingAt(s) /\ NSlots \in Nat \ {0} /\ head[s] \in 0 .. NSlots - 1 /\ count[s] \in 1 .. NSlots
      /\ next[s] \in Nat
  BY <1>a, DataTypes DEF Data, RingData
<1>1. ClosedEmpty'
  BY <1>a, <1>b DEF Data, ClosedEmpty, EmptyAt
<1>2. First(s)' = First(s)
  <2>1. next[s] \in Nat /\ count[s] \in Nat /\ InFlight(s) \in {0, 1} /\ InFlight(s)' = InFlight(s)
    BY <1>a, <1>c, DataTypes
  <2>2. next'[s] = next[s] + 1 /\ count'[s] = count[s] - 1
    BY <1>b
  <2> QED BY <2>1, <2>2 DEF First
<1>3. MailboxData'
  <2>1. \A r \in fd \ {s} : First(r)' = First(r)
    BY <1>a, <1>b, <1>c DEF First
  <2> QED BY <1>a, <1>b, <1>2, <2>1 DEF Data, MailboxData
<1>4. \A r \in fd \ {s} : RingAt(r)'
  BY <1>a, <1>b, <1>c DEF Data, RingData, RingAt
<1>5. ASSUME NEW i \in 0 .. count'[s] - 1
      PROVE  /\ data[s][(head'[s] + i) % NSlots] = next'[s] + i
             /\ from[s][(head'[s] + i) % NSlots] = next'[s] + i
  <2>0. next'[s] = next[s] + 1 /\ count'[s] = count[s] - 1
    BY <1>b
  <2>1. i + 1 \in 1 .. NSlots - 1 /\ i + 1 \in 0 .. count[s] - 1 /\ (i + 1) - 1 = i
        /\ next[s] + (i + 1) = next'[s] + i
    BY <1>d, <2>0
  <2>2. (head'[s] + i) % NSlots = (head[s] + (i + 1)) % NSlots
    BY <1>b, <1>d, <2>1, TailAfterTake
  <2> QED BY <1>d, <2>1, <2>2 DEF RingAt
<1>6. next'[s] + count'[s] = next[s] + count[s]
  BY <1>b, <1>d
<1>7. /\ InFlight(s)' = InFlight(s) /\ pumpPc' = pumpPc /\ pumpTail' = pumpTail /\ fd' = fd
      /\ data' = data /\ from' = from
  BY <1>a, <1>b, <1>c
<1>8. RingAt(s)'
  BY <1>d, <1>5, <1>6, <1>7 DEF RingAt
<1> QED BY <1>a, <1>1, <1>3, <1>4, <1>7, <1>8 DEF RingData

\* stop() and begin().
LEMMA StopData ==
    ASSUME TypeOK, Control, Data, StopClose \/ StopReset \/ BeginBind
    PROVE  ClosedEmpty' /\ RingData' /\ MailboxData'
<1>a. /\ fd \subseteq Sock /\ mbox \in [Sock -> Seq(Nat)] /\ next \in [Sock -> Nat]
      /\ acc \in [Sock -> Nat]
      /\ count \in [Sock -> 0 .. NSlots] /\ head \in [Sock -> Index] /\ midiSock \in Sock
  BY DEF TypeOK, OpenType, NetType, RingType, Control, MidiPlace, StopClose, StopReset, BeginBind
<1>1. CASE StopClose
  <2>1. /\ UNCHANGED <<acc, head, count, data, from, pumpPc, pumpSock, pumpTail, midiSock>>
        /\ fd' = fd \ {midiSock} /\ midiPc' = "closed"
        /\ mbox'[midiSock] = <<>> /\ next'[midiSock] = acc[midiSock] + 1
        /\ \A r \in Sock \ {midiSock} : mbox'[r] = mbox[r] /\ next'[r] = next[r]
    BY <1>1, <1>a DEF StopClose, MidiGo, ring, slots, pump
  <2>2. ClosedEmpty'
    BY <1>1, <1>a, <2>1 DEF Data, ClosedEmpty, EmptyAt, StopClose
  <2>3. RingData'
    BY <1>a, <2>1 DEF Data, RingData, RingAt, InFlight
  <2>4. MailboxData'
    BY <1>a, <2>1 DEF Data, MailboxData, First, InFlight
  <2> QED BY <2>2, <2>3, <2>4
<1>2. CASE StopReset
  <2>1. /\ UNCHANGED <<mbox, acc, next, fd, data, from, pumpPc, pumpSock, pumpTail>>
        /\ midiSock \notin fd /\ midiPc' # "closed" /\ count'[midiSock] = 0
        /\ \A r \in Sock \ {midiSock} : count'[r] = count[r] /\ head'[r] = head[r]
    BY <1>2, <1>a DEF StopReset, CountAfterStop, MidiGo, MidiIdle, lwip, slots, pump, Control, MidiPlace
  <2>2. ClosedEmpty'
    BY <1>a, <2>1 DEF Data, ClosedEmpty, EmptyAt
  <2>3. \A r \in fd : InFlight(r)' = InFlight(r) /\ count'[r] = count[r] /\ head'[r] = head[r]
    BY <1>a, <2>1 DEF InFlight
  <2>4. RingData'
    BY <2>1, <2>3 DEF Data, RingData, RingAt
  <2>5. MailboxData'
    BY <2>1, <2>3 DEF Data, MailboxData, First
  <2> QED BY <2>2, <2>4, <2>5
<1>3. CASE BeginBind
  <2>1. /\ UNCHANGED <<mbox, acc, next, head, count, data, from, pumpPc, pumpSock, pumpTail>>
        /\ midiPc = "socket" /\ midiPc' # "closed"
        /\ fd' = fd \/ fd' = fd \cup {midiSock}
    BY <1>3 DEF BeginBind, MidiGo, MidiIdle, lwip, ring, slots, pump
  <2>2. EmptyAt(midiSock) /\ count[midiSock] = 0 /\ InFlight(midiSock) = 0 /\ midiSock \notin fd
    BY <1>a, <2>1 DEF Data, ClosedEmpty, EmptyAt, Control, MidiPlace, OpenSockets,
                      NeverPumpsAClosedSocket, InFlight
  <2>3. ClosedEmpty'
    BY <1>a, <2>1 DEF Data, ClosedEmpty, EmptyAt
  <2>4. RingData'
    BY <1>a, <2>1, <2>2 DEF Data, RingData, RingAt, InFlight
  <2>5. First(midiSock) = acc[midiSock] + 1
    BY <1>a, <2>2 DEF First, EmptyAt
  <2>6. Holds(mbox[midiSock], First(midiSock), acc[midiSock])
    BY <1>a, <2>2, <2>5, HoldsEmpty DEF EmptyAt
  <2>7. MailboxData'
    BY <1>a, <2>1, <2>6 DEF Data, MailboxData, First, InFlight
  <2> QED BY <2>3, <2>4, <2>7
<1> QED BY <1>1, <1>2, <1>3

\* What the head slot holds while the MIDI task copies it.
LEMMA HeadSlot ==
    ASSUME TypeOK, Control, Data, Copying
    PROVE  /\ midiSock \in fd /\ midiSock \in Sock /\ midiSock \notin unread
           /\ data[midiSock][midiHead] = next[midiSock]
           /\ from[midiSock][midiHead] = next[midiSock]
<1>1. midiSock \in fd /\ midiSock \in Sock /\ count[midiSock] > 0 /\ midiSock \notin unread
  BY CopyingOpen
<1>2. /\ NSlots \in Nat \ {0} /\ head[midiSock] \in 0 .. NSlots - 1 /\ next[midiSock] \in Nat
      /\ count[midiSock] \in 0 .. NSlots
  BY <1>1, DataTypes
<1>3. 0 \in 0 .. count[midiSock] - 1 /\ next[midiSock] + 0 = next[midiSock]
  BY <1>1, <1>2
<1>4. (head[midiSock] + 0) % NSlots = head[midiSock]
  BY <1>2
<1>5. midiHead = head[midiSock]
  BY DEF Control, MidiPlace
<1> QED BY <1>1, <1>3, <1>4, <1>5 DEF Data, RingData, RingAt

\* Only parsePacket() and the session touch the current datagram.
LEMMA CurDataStep ==
    ASSUME TypeOK, Control, Data, [Next]_vars
    PROVE  CurData'
<1>a. /\ CurData /\ MidiPlace /\ fd \subseteq Sock /\ unread \subseteq Sock
      /\ curData \in [Sock -> Nat] /\ curFrom \in [Sock -> Nat] /\ next \in [Sock -> Nat]
      /\ acc \in [Sock -> Nat]
  BY DEF Data, Control, TypeOK, OpenType, CurType, NetType
<1> DEFINE Same == UNCHANGED <<next, fd, unread, curData, curFrom>>
<1>f. ASSUME Same, midiPc' \in {"label", "take"} => UNCHANGED <<midiPc, midiSock>>
      PROVE  CurData'
  BY <1>f, <1>a DEF CurData, CurWhole
<1>1. CASE RxStep \/ PumpStep \/ ParsePumped \/ ParseLook \/ BeginList \/ UNCHANGED vars
  <2>1. Same /\ (midiPc' \in {"label", "take"} => UNCHANGED <<midiPc, midiSock>>)
    BY <1>1 DEF RxStep, PumpStep, RxSnapshot, RxSelect, RxRelease, RxRoundEnd, RxClaim, PumpLook,
                PumpRecv, PumpLabel, PumpPublish, ParsePumped, ParseLook, BeginList, MidiGo, MidiIdle,
                cur, midi, vars
  <2> QED BY <1>f, <2>1
<1>2. CASE \E s \in Sock : \/ Arrive(s) \/ ParseCall(s)
                           \/ \E then \in {"idle", "socket"} : StopCall(s, then)
  <2>1. Same /\ (midiPc' \in {"label", "take"} => UNCHANGED <<midiPc, midiSock>>)
    BY <1>2 DEF Arrive, ParseCall, Polls, StopCall, cur, midi
  <2> QED BY <1>f, <2>1
<1>3. CASE \E s \in Sock : ReadOut(s)
  BY <1>3, <1>a DEF ReadOut, CurData, CurWhole, cur, midi
<1>4. CASE ParseCopy
  <2>1. data[midiSock][midiHead] = next[midiSock] /\ midiSock \in Sock /\ midiSock \notin unread
    BY <1>4, HeadSlot DEF ParseCopy, Copying
  <2> QED BY <1>4, <2>1, <1>a DEF ParseCopy, MidiGo, CurData, CurWhole
<1>5. CASE ParseLabel
  <2>1. from[midiSock][midiHead] = next[midiSock] /\ midiSock \in Sock /\ midiSock \notin unread
    BY <1>5, HeadSlot DEF ParseLabel, Copying
  <2> QED BY <1>5, <2>1, <1>a DEF ParseLabel, MidiGo, CurData, CurWhole
<1>6. CASE ParseTake
  <2>1. midiSock \in Sock /\ midiSock \notin unread
    BY <1>6, HeadSlot DEF ParseTake, Copying
  <2> QED BY <1>6, <2>1, <1>a DEF ParseTake, MidiIdle, CurData, CurWhole, cur
<1>7. CASE StopClose
  BY <1>7, <1>a DEF StopClose, MidiGo, CurData, CurWhole, cur, MidiPlace
<1>8. CASE StopReset
  BY <1>8, <1>a DEF StopReset, MidiGo, MidiIdle, CurData, CurWhole, cur
<1>9. CASE BeginBind
  BY <1>9, <1>a DEF BeginBind, MidiGo, MidiIdle, CurData, CurWhole, cur, MidiPlace
<1> QED
  BY <1>1, <1>2, <1>3, <1>4, <1>5, <1>6, <1>7, <1>8, <1>9 DEF Next, MidiStep

THEOREM FullInvariant == Spec => []IInv
<1>1. Init => Data
  <2> SUFFICES ASSUME Init PROVE Data
    OBVIOUS
  <2>1. ClosedEmpty /\ RingData /\ MailboxData
    BY DEF Init, ClosedEmpty, EmptyAt, RingData, MailboxData
  <2>2. CurData
    BY DEF Init, CurData, CurWhole
  <2> QED BY <2>1, <2>2 DEF Data
<1>2. TypeOK /\ Control /\ Data /\ [Next]_vars => Data'
  <2> SUFFICES ASSUME TypeOK, Control, Data, [Next]_vars PROVE Data'
    OBVIOUS
  <2>1. CurData'
    BY CurDataStep
  <2>2. ClosedEmpty' /\ RingData' /\ MailboxData'
    <3>1. CASE QuietStep
      BY <3>1, QuietData
    <3>2. CASE \E s \in Sock : Arrive(s)
      BY <3>2, ArriveData
    <3>3. CASE PumpRecv
      BY <3>3, RecvData
    <3>4. CASE PumpLabel
      BY <3>4, LabelData
    <3>5. CASE PumpPublish
      BY <3>5, PublishData
    <3>6. CASE ParseTake
      <4>1. midiSock \in Sock
        BY <3>6 DEF ParseTake, Control, MidiPlace
      <4> QED BY <3>6, <4>1, TakeData
    <3>7. CASE StopClose \/ StopReset \/ BeginBind
      BY <3>7, StopData
    <3> QED
      BY <3>1, <3>2, <3>3, <3>4, <3>5, <3>6, <3>7
         DEF Next, RxStep, PumpStep, MidiStep, QuietStep
  <2> QED BY <2>1, <2>2 DEF Data
<1> QED BY <1>1, <1>2, ControlInvariant, PTL DEF Spec, IInv

\* What the session reads is always one whole datagram with its own sender, and
\* the one it is owed: nothing is left over from another or from before a stop().
THEOREM ReadsWholeDatagrams == Spec => []CurWhole
<1>1. IInv => CurWhole
  BY DEF IInv, Data, CurData
<1> QED BY <1>1, FullInvariant, PTL

-------------------------------------------------------------------------------
(* The refinement.                                                         *)

ReadBytes == [s \in Sock |-> IF s \in unread \cap fd THEN curData[s] ELSE 0]
ReadFrom  == [s \in Sock |-> IF s \in unread \cap fd THEN curFrom[s] ELSE 0]

\* A step that leaves the datagrams, the open sockets and those being read alone
\* is no step of the FIFO.
LEMMA FifoStutter ==
    ASSUME UNCHANGED <<acc, next, fd, unread>>,
           \A s \in unread : curData'[s] = curData[s] /\ curFrom'[s] = curFrom[s]
    PROVE  UNCHANGED Fifo!fifoVars
BY DEF Fifo!fifoVars

\* Every step hands over the next datagram, accepts, finishes or closes one, or
\* is no step of the FIFO.
LEMMA FifoStep ==
    ASSUME IInv, [Next]_vars
    PROVE  [Fifo!Next]_Fifo!fifoVars
<1>a. /\ TypeOK /\ Control /\ Data /\ MidiPlace /\ CurData
      /\ fd \subseteq Sock /\ unread \subseteq Sock
      /\ curData \in [Sock -> Nat] /\ curFrom \in [Sock -> Nat] /\ next \in [Sock -> Nat]
      /\ acc \in [Sock -> Nat]
  BY DEF IInv, Data, Control, TypeOK, OpenType, CurType, NetType
<1>1. CASE RxStep \/ PumpStep \/ ParsePumped \/ ParseLook \/ BeginList \/ UNCHANGED vars
  <2>1. UNCHANGED <<acc, next, fd, unread, curData, curFrom>>
    BY <1>1 DEF RxStep, PumpStep, RxSnapshot, RxSelect, RxRelease, RxRoundEnd, RxClaim, PumpLook,
                PumpRecv, PumpLabel, PumpPublish, ParsePumped, ParseLook, BeginList, cur, lwip, vars
  <2> QED BY <2>1, FifoStutter
<1>2. CASE \E s \in Sock : ParseCall(s) \/ \E then \in {"idle", "socket"} : StopCall(s, then)
  <2>1. UNCHANGED <<acc, next, fd, unread, curData, curFrom>>
    BY <1>2 DEF ParseCall, Polls, StopCall, cur, lwip
  <2> QED BY <2>1, FifoStutter
<1>3. CASE ParseCopy \/ ParseLabel
  <2>1. midiSock \notin unread
    BY <1>3, <1>a DEF ParseCopy, ParseLabel, MidiPlace
  <2>2. UNCHANGED <<acc, next, fd, unread>>
    BY <1>3 DEF ParseCopy, ParseLabel, lwip
  <2>3. \A s \in unread : curData'[s] = curData[s] /\ curFrom'[s] = curFrom[s]
    BY <1>3, <1>a, <2>1 DEF ParseCopy, ParseLabel
  <2> QED BY <2>2, <2>3, FifoStutter
<1>4. ASSUME NEW s \in Sock, Arrive(s) PROVE [Fifo!Next]_Fifo!fifoVars
  <2>1. UNCHANGED <<next, fd, unread, curData, curFrom>>
    BY <1>4 DEF Arrive, cur
  <2>2. CASE UNCHANGED acc
    BY <2>1, <2>2, FifoStutter
  <2>3. CASE acc' = [acc EXCEPT ![s] = @ + 1]
    <3>1. Fifo!Accept(s)
      BY <2>1, <2>3 DEF Fifo!Accept
    <3> QED BY <3>1 DEF Fifo!Next
  <2> QED BY <1>4, <2>2, <2>3 DEF Arrive
<1>5. ASSUME NEW s \in Sock, ReadOut(s) PROVE [Fifo!Next]_Fifo!fifoVars
  <2>1. UNCHANGED <<acc, next, fd, curData, curFrom>> /\ unread' = unread \ {s}
    BY <1>5 DEF ReadOut, cur, lwip
  <2>2. /\ ReadBytes' = [ReadBytes EXCEPT ![s] = 0]
        /\ ReadFrom' = [ReadFrom EXCEPT ![s] = 0]
    BY <2>1 DEF ReadBytes, ReadFrom
  <2>3. Fifo!Done(s)
    BY <2>1, <2>2 DEF Fifo!Done, Fifo!Read, ReadBytes, ReadFrom
  <2> QED BY <2>3 DEF Fifo!Next
<1>6. ASSUME NEW s \in Sock, ParseTake, midiSock = s PROVE [Fifo!Next]_Fifo!fifoVars
  <2>1. /\ UNCHANGED <<acc, fd, curData, curFrom>> /\ unread' = unread \cup {s}
        /\ next' = [next EXCEPT ![s] = @ + 1]
        /\ midiPc = "take"
    BY <1>6 DEF ParseTake, cur, lwip
  <2>2. s \in fd /\ s \notin unread /\ count[s] > 0
    BY <1>6, <1>a, CopyingOpen DEF ParseTake, Copying
  <2>3. curData[s] = next[s] /\ curFrom[s] = next[s]
    BY <1>6, <2>1, <1>a DEF CurData
  <2>4. next[s] <= acc[s]
    <3>1. First(s) <= acc[s] + 1
      BY <2>2, <1>a DEF Data, MailboxData, Holds
    <3>2. next[s] \in Nat /\ count[s] \in Nat /\ InFlight(s) \in {0, 1} /\ acc[s] \in Nat
      BY <1>a, DataTypes
    <3> QED BY <2>2, <3>1, <3>2 DEF First
  <2>5. /\ ReadBytes[s] = 0
        /\ ReadBytes' = [ReadBytes EXCEPT ![s] = next[s]]
        /\ ReadFrom' = [ReadFrom EXCEPT ![s] = next[s]]
    BY <2>1, <2>2, <2>3 DEF ReadBytes, ReadFrom
  <2>6. Fifo!Deliver(s)
    BY <2>1, <2>4, <2>5 DEF Fifo!Deliver, Fifo!Read, ReadBytes, ReadFrom
  <2> QED BY <2>6 DEF Fifo!Next
<1>7. ASSUME NEW s \in Sock, StopClose, midiSock = s PROVE [Fifo!Next]_Fifo!fifoVars
  <2>1. /\ UNCHANGED <<acc, unread, curData, curFrom>> /\ fd' = fd \ {s}
        /\ next' = [next EXCEPT ![s] = acc[s] + 1]
    BY <1>7 DEF StopClose, cur
  <2>2. /\ ReadBytes' = [ReadBytes EXCEPT ![s] = 0]
        /\ ReadFrom' = [ReadFrom EXCEPT ![s] = 0]
    BY <2>1 DEF ReadBytes, ReadFrom
  <2>3. Fifo!Close(s)
    BY <2>1, <2>2 DEF Fifo!Close, Fifo!Read, ReadBytes, ReadFrom
  <2> QED BY <2>3 DEF Fifo!Next
<1>8. CASE StopReset \/ BeginBind
  <2>1. /\ UNCHANGED <<acc, next, curData, curFrom>>
        /\ unread' \cap fd' = unread \cap fd
    BY <1>8, <1>a DEF StopReset, BeginBind, cur, lwip, MidiPlace
  <2> QED BY <2>1 DEF Fifo!fifoVars
<1>9. midiPc # "idle" => midiSock \in Sock
  BY <1>a DEF MidiPlace
<1> QED
  BY <1>1, <1>2, <1>3, <1>4, <1>5, <1>6, <1>7, <1>8, <1>9 DEF Next, MidiStep, ParseTake, StopClose

\* The receive queue implements the FIFO, for every interleaving of the two
\* tasks and every ring size: no accepted datagram is lost, repeated, reordered
\* or torn before a stop() discards it.
THEOREM RingIsFifo == Spec => ImplementsFifo
<1>1. Init => Fifo!Init
  BY DEF Init, Fifo!Init
<1> QED BY <1>1, FifoStep, FullInvariant, PTL DEF Spec, ImplementsFifo, Fifo!Spec
===============================================================================
