------------------------------ MODULE ValvePromise ------------------------------
(***************************************************************************)
(* What a valve driver promises to the Equipment Manager, as declared by      *)
(* IValveDriver (components/modesp_hal, driver_interfaces.h): a known valve   *)
(* goes to the position it is given, and nowhere else.                        *)
(***************************************************************************)
EXTENDS Integers

CONSTANT Max  \* max_steps()

VARIABLES
  position,  \* get_position()
  target,    \* the position it was last given
  known      \* is_calibrated()

vars == <<position, target, known>>
Positions == 0..Max

Init == position \in Positions /\ target = position /\ known \in BOOLEAN

\* It is given a position, if it is known, and may be there at once.
SetPosition ==
  /\ known /\ target' \in Positions
  /\ position' \in {position, target'}
  /\ UNCHANGED known

\* emergency_close, which no state refuses.
EmergencyClose ==
  /\ target' = 0 /\ position' \in {position, 0}
  /\ UNCHANGED known

\* update: one step nearer.
Move ==
  /\ position # target
  /\ position' = IF target > position THEN position + 1 ELSE position - 1
  /\ UNCHANGED <<target, known>>

\* calibrate, when it is done: the valve is closed.
Homed == position' = 0 /\ target' = 0 /\ known' = TRUE

\* After a restart it stands where the driver takes it to be.
PowerLoss ==
  /\ position' \in Positions /\ target' = position' /\ known' \in BOOLEAN

Next == SetPosition \/ EmergencyClose \/ Move \/ Homed \/ PowerLoss

\* It goes nowhere else; and it goes, step by step.
Safely == Init /\ [][Next]_vars
Promise == Safely /\ WF_vars(Move)
================================================================================
