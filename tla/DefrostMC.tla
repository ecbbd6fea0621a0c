------------------------------ MODULE DefrostMC ------------------------------
(***************************************************************************)
(* An instance of Defrost for TLC.  Temperatures: 1 is below every         *)
(* threshold that starts a cycle, 4 between them and the end temperature,  *)
(* 7 above it, and above that of a night defrost.                          *)
(***************************************************************************)
EXTENDS Defrost

\* A timer defrost in operation, and what varies.
Quiet ==
  [evap |-> 4, evapOk |-> TRUE, airOk |-> TRUE, iced |-> FALSE, warm |-> FALSE,
   compressor |-> FALSE, lockout |-> FALSE, blocked |-> FALSE, night |-> FALSE,
   hasRelay |-> TRUE, multiZone |-> FALSE, type |-> 2, initiation |-> 0,
   counter |-> 1, termination |-> 0, skip |-> FALSE]

\* The three types, with and without the relay, one zone and several.
Types ==
  {[Quiet EXCEPT !.type = 1], [Quiet EXCEPT !.type = 0, !.hasRelay = FALSE],
   [Quiet EXCEPT !.type = 0, !.hasRelay = FALSE, !.multiZone = TRUE]}

\* What starts a cycle.
Triggers ==
  {[Quiet EXCEPT !.initiation = 1, !.evap = 1],
   [Quiet EXCEPT !.initiation = 3],
   [Quiet EXCEPT !.initiation = 4, !.evap = 1, !.compressor = TRUE],
   [Quiet EXCEPT !.initiation = 5, !.iced = TRUE]}

\* What ends it, or skips it.
Ends ==
  {[Quiet EXCEPT !.evap = 6, !.skip = TRUE], [Quiet EXCEPT !.evap = 7],
   [Quiet EXCEPT !.termination = 1], [Quiet EXCEPT !.warm = TRUE, !.skip = TRUE],
   [Quiet EXCEPT !.lockout = TRUE], [Quiet EXCEPT !.blocked = TRUE]}

AllReadings == {Quiet, [Quiet EXCEPT !.night = TRUE]} \cup Types \cup Triggers \cup Ends
=============================================================================
