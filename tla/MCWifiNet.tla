------------------------------- MODULE MCWifiNet --------------------------------
(* Instances of WifiNet.                                                         *)
EXTENDS WifiNet
===============================================================================
