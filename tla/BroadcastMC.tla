------------------------------ MODULE BroadcastMC ------------------------------
(* Two sockets for one place in the list, two keys of which one delta holds one, *)
(* and a queue that two messages fill.                                           *)
EXTENDS Broadcast

MCBoot == [k \in Keys |-> 0]
================================================================================
