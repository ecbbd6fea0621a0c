--------------------------------- MODULE EevMC ---------------------------------
(* A valve of a few steps, with each of the drivers. *)
EXTENDS Eev

Drives == {"gpio", "pcf8574", "analog", "akv"}
================================================================================
