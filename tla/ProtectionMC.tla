----------------------------- MODULE ProtectionMC -----------------------------
(***************************************************************************)
(* Instances of Protection for TLC.  Each unit is one part of the module   *)
(* put to the test, with the readings that matter to it.                   *)
(***************************************************************************)
EXTENDS Protection

Quiet ==
  [temp |-> "normal", ok |-> TRUE, hasEvap |-> TRUE, ok2 |-> TRUE, door |-> FALSE,
   defrost |-> "off", cc |-> FALSE, comp |-> FALSE, cond |-> "none",
   iced |-> FALSE, dropped |-> TRUE, rising |-> FALSE, manual |-> FALSE]

Running == [Quiet EXCEPT !.comp = TRUE]

\* The escalation, with what suspends it.
Escalation ==
  [primary |-> TRUE, door |-> FALSE, compressor |-> TRUE, rate |-> FALSE,
   readings |-> {Quiet, Running, [Running EXCEPT !.iced = TRUE],
                 [Running EXCEPT !.defrost = "cold"], [Quiet EXCEPT !.cc = TRUE]}]

\* The second zone: its temperature, sensors and door, through defrosts.
Temperature ==
  [primary |-> FALSE, door |-> TRUE, compressor |-> FALSE, rate |-> FALSE,
   readings |-> {Quiet, [Quiet EXCEPT !.temp = "high", !.manual = TRUE],
                 [Quiet EXCEPT !.temp = "high", !.defrost = "cold"],
                 [Quiet EXCEPT !.temp = "high", !.defrost = "heating"],
                 [Quiet EXCEPT !.temp = "low", !.door = TRUE],
                 [Quiet EXCEPT !.temp = "low", !.cc = TRUE],
                 [Quiet EXCEPT !.ok = FALSE, !.ok2 = FALSE],
                 [Quiet EXCEPT !.hasEvap = FALSE, !.ok2 = FALSE, !.manual = TRUE]}]

\* The compressor's other alarms, the condenser and the door's block.
Machine ==
  [primary |-> TRUE, door |-> TRUE, compressor |-> TRUE, rate |-> TRUE,
   readings |-> {[Running EXCEPT !.rising = TRUE, !.dropped = FALSE, !.cond = "warm"],
                 [Running EXCEPT !.manual = TRUE, !.cond = "critical"],
                 [Quiet EXCEPT !.manual = TRUE, !.door = TRUE, !.cond = "failed"],
                 [Quiet EXCEPT !.cond = "normal"]}]

AllUnits == {Escalation, Temperature, Machine}
=============================================================================
