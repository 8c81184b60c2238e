---------------------------- MODULE MCBufferedUdp ----------------------------
(* A small instance of BufferedUdp for TLC: one socket, model values.         *)
EXTENDS BufferedUdp

CONSTANT s1
===============================================================================
