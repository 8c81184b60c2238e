-------------------------------- MODULE MCDevice ---------------------------------
(* An instance of Device: two settings of two values each, and an `old' value     *)
(* stored by an earlier version that this one does not offer.                     *)
EXTENDS Device

CONSTANTS a, b, old

MCValue == {a, b, old}
MCDefault == <<a, a>>
MCOffered == <<{a, b}, {a, b}>>
===============================================================================
