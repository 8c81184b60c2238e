------------------------------- MODULE MCBridgeUp -------------------------------
(* Instances of BridgeUp: two cables' SysEx packets, an end packet that has no   *)
(* F7, the one-byte packets of CIN 5 that end nothing, and a note.               *)
EXTENDS BridgeUp

Packet(c, b, e) == [cable |-> c, bytes |-> b, ends |-> e]

MCPackets ==
    {Packet(0, <<"F0", "a", "b">>, FALSE), Packet(0, <<"c", "d", "e">>, FALSE),
     Packet(0, <<"F7">>, TRUE), Packet(0, <<"f", "g">>, TRUE), Packet(0, <<"h">>, TRUE),
     Packet(0, <<"F6">>, TRUE), Packet(1, <<"F0", "p", "q">>, FALSE),
     Packet(1, <<"r", "F7">>, TRUE), Packet(1, <<"note">>, FALSE)}
===============================================================================
