------------------------------ MODULE PersistMC -------------------------------
(* Two settings of two values: one can keep changing while the other waits, *)
(* and a flush has keys before and after the one it is working on.          *)
EXTENDS Persist

MCValues == {0, 1}
MCOthers == {}
=============================================================================
