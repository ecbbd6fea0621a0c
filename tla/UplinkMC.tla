------------------------------ MODULE UplinkMC ------------------------------
(* An instance of Uplink for TLC. *)
EXTENDS Uplink
=============================================================================
