----------------------------- MODULE EquipmentMC -----------------------------
(***************************************************************************)
(* Instances of Equipment for TLC: the requests each module publishes, one *)
(* record per thermostat state and defrost phase, and the runs' sets.      *)
(***************************************************************************)
EXTENDS Equipment

Therm(c, e, f) == [therm_compressor |-> c, therm_evap_fan |-> e,
                   therm_cond_fan |-> f, eev_valve_pos |-> c]

\* Thermostat: idle, cooling.
ThermOff     == Therm(FALSE, FALSE, FALSE)
ThermCooling == Therm(TRUE, TRUE, TRUE)

Def(a, c, r, e, f) == [defrost_active |-> a, def_compressor |-> c,
                       def_defrost_relay |-> r, def_evap_fan |-> e,
                       def_cond_fan |-> f]

\* Defrost phases by the requests they publish (DefrostModule::enter_phase).
Idle      == Def(FALSE, FALSE, FALSE, FALSE, FALSE)
Stabilize == Def(TRUE, TRUE, FALSE, FALSE, TRUE)     \* and FAD
HotGas    == Def(TRUE, TRUE, TRUE, FALSE, FALSE)
Electric  == Def(TRUE, FALSE, TRUE, FALSE, FALSE)
Drip      == Def(TRUE, FALSE, FALSE, FALSE, FALSE)   \* natural and EQUALIZE too

Zone(t, d, type) ==
  [therm_compressor |-> t.therm_compressor, therm_evap_fan |-> t.therm_evap_fan,
   therm_cond_fan |-> t.therm_cond_fan, eev_valve_pos |-> t.eev_valve_pos,
   defrost_active |-> d.defrost_active, def_compressor |-> d.def_compressor,
   def_defrost_relay |-> d.def_defrost_relay, def_evap_fan |-> d.def_evap_fan,
   def_cond_fan |-> d.def_cond_fan, type |-> type]

\* One zone without defrost, in an electric one, or in a hot gas one, whose
\* phases run the compressor.
SingleZones ==
  {Zone(t, Idle, 1) : t \in {ThermOff, ThermCooling}} \cup
  {Zone(ThermCooling, Electric, 1)} \cup
  {Zone(ThermOff, d, 2) : d \in {Stabilize, HotGas}}

\* A zone with an electric heater, in fewer states.
SmallElectricZones ==
  {Zone(t, Idle, 1) : t \in {ThermOff, ThermCooling}} \cup
  {Zone(ThermOff, d, 1) : d \in {Electric, Stabilize}}

\* A heater zone whose type setting is not 1 while the heater is driven:
\* natural (0) in a multi-zone system falls back to the electric heater
\* (defrost_module.cpp, start_defrost).
FallbackZones ==
  {Zone(ThermOff, Idle, 0), Zone(ThermCooling, Idle, 0)} \cup
  {Zone(ThermOff, d, 0) : d \in {Electric, Drip, Stabilize}}

Prot(l, b, c, d) ==
  [lockout |-> l, compressor_blocked |-> b, condenser_block |-> c,
   door_comp_blocked |-> d, lockout_z2 |-> FALSE, compressor_blocked_z2 |-> FALSE]

Lockout  == Prot(TRUE, FALSE, FALSE, FALSE)
Lockout2 == [NoProt EXCEPT !.lockout_z2 = TRUE]
Block2   == [NoProt EXCEPT !.compressor_blocked_z2 = TRUE]

NoProtection     == {NoProt}
LockoutOrBlock   == {NoProt, Lockout, Prot(FALSE, TRUE, FALSE, FALSE)}
TwoZoneProtection == {NoProt, Lockout2, Block2}

\* Condenser readings around the three thresholds 2 < 4 < 6.
AnyCondenser == {NoTemp, 1, 4, 6}

NoSensor == {NoTemp}
=============================================================================
