------------------------------ MODULE MCBridgeDown ------------------------------
(* Instances of BridgeDown: every form of SysEx piece over one data byte, and    *)
(* the RFC 6295 cancel.                                                          *)
EXTENDS BridgeDown

MCData == {"x", "y"}

MCPieces ==
    {<<m>> \o b \o e : m \in {"F0", "F7"},
                       b \in {<<>>, <<"x">>, <<"y", "x">>, <<"x", "F4">>},
                       e \in {<<"F7">>, <<"F0">>}}
    \cup {<<"F7", "F4">>, <<"F0", "x">>}

MCShortPieces == {<<"F0", "x", "y", "F0">>, <<"F7", "x", "F7">>}
===============================================================================
