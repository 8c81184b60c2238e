----------------------------- MODULE DatagramFifo -----------------------------
(***************************************************************************)
(* What the receive side of BufferedUDP promises the MIDI session: on each *)
(* socket the datagrams lwIP accepted are handed over one by one, whole,   *)
(* in the order accepted, each once, until the socket is closed; a close   *)
(* discards what was not handed over.                                      *)
(*                                                                         *)
(* The datagrams lwIP accepts on a socket are numbered 1, 2, 3, ... .  The *)
(* ones waiting are exactly next[s] .. acc[s].                             *)
(***************************************************************************)
EXTENDS Naturals

CONSTANT Sock        \* the sockets (AppleMIDI's control and data port)

VARIABLES acc,       \* acc[s]: number of the last datagram accepted on s
          next,      \* next[s]: number of the next one to hand over
          curData,   \* curData[s]: the datagram the session is reading, 0 if none,
          curFrom    \* curFrom[s]: and the one whose sender and length go with it

fifoVars == <<acc, next, curData, curFrom>>

\* The session's current datagram becomes number n, all of it; 0 is none.
Read(s, n) == /\ curData' = [curData EXCEPT ![s] = n]
              /\ curFrom' = [curFrom EXCEPT ![s] = n]

Init == /\ acc  = [s \in Sock |-> 0]
        /\ next = [s \in Sock |-> 1]
        /\ curData = [s \in Sock |-> 0]
        /\ curFrom = [s \in Sock |-> 0]

\* A datagram from the network (one lost before this has no number).
Accept(s) == /\ acc' = [acc EXCEPT ![s] = @ + 1]
             /\ UNCHANGED <<next, curData, curFrom>>

\* The oldest one waiting becomes the session's current datagram.
Deliver(s) == /\ next[s] <= acc[s]
              /\ curData[s] = 0
              /\ Read(s, next[s])
              /\ next' = [next EXCEPT ![s] = @ + 1]
              /\ UNCHANGED acc

\* The session has read the current datagram out.
Done(s) == /\ Read(s, 0)
           /\ UNCHANGED <<acc, next>>

Close(s) == /\ next' = [next EXCEPT ![s] = acc[s] + 1]
            /\ Read(s, 0)
            /\ UNCHANGED acc

Next == \E s \in Sock : Accept(s) \/ Deliver(s) \/ Done(s) \/ Close(s)

Spec == Init /\ [][Next]_fifoVars
===============================================================================
