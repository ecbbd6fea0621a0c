----------------------------- MODULE ThermostatMC -----------------------------
(***************************************************************************)
(* An instance of Thermostat for TLC: delays of two to three ticks, so     *)
(* that every timer can be interrupted before it runs out.                 *)
(***************************************************************************)
EXTENDS Thermostat

Reading(temp, ok, evap, mode, defrost, lockout) ==
  [temp |-> temp, ok |-> ok, evap |-> evap, evapOk |-> TRUE,
   defrost |-> defrost, lockout |-> lockout, fanMode |-> mode]

\* Any temperature, or a failed sensor; the evaporator fan with the compressor
\* or by a cold or warm evaporator.
Free ==
  {Reading(t[1], t[2], "low", 1, FALSE, FALSE) :
     t \in {<<"cold", TRUE>>, <<"band", TRUE>>, <<"hot", TRUE>>, <<"band", FALSE>>}}
  \cup {Reading("hot", TRUE, e, 2, FALSE, FALSE) : e \in {"low", "high"}}

\* Defrost, lockout and both at once.
Held == {Reading("hot", TRUE, "high", 1, TRUE, FALSE),
         Reading("hot", TRUE, "high", 1, FALSE, TRUE),
         Reading("hot", TRUE, "high", 1, TRUE, TRUE)}

AllReadings == Free \cup Held
=============================================================================
