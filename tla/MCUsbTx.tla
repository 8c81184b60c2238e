-------------------------------- MODULE MCUsbTx --------------------------------
(* Small instances of UsbTx for TLC. *)
EXTENDS UsbTx
===============================================================================
