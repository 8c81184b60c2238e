----------------------------- MODULE MCUsbRecovery -----------------------------
(* A small instance of UsbRecovery for TLC. *)
EXTENDS UsbRecovery
===============================================================================
