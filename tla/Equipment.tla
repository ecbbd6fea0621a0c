------------------------------ MODULE Equipment ------------------------------
(***************************************************************************)
(* The Equipment Manager (modules/equipment): the only module that owns    *)
(* the actuators.  Every cycle of the main loop it reads the requests the  *)
(* business modules published, arbitrates between them (protection lockout *)
(* over defrost over thermostat), applies the compressor's anti-short-     *)
(* cycle timers, the condenser fan control and the interlocks, and drives  *)
(* the relays of the same cycle.                                           *)
(*                                                                         *)
(* One Update is one main loop cycle, one tick of every timer.  The        *)
(* requests, the sensor reading and the settings it reads are inputs: the  *)
(* modules that publish them are modelled elsewhere.  A valve position is  *)
(* BOOLEAN (open or closed), a temperature is a number or NoTemp (NaN, or  *)
(* no sensor).  Every optional actuator is bound; a zone's own actuators   *)
(* exist when the controller booted with two zones or more.                *)
(***************************************************************************)
EXTENDS Naturals

CONSTANTS
  MaxZones,      \* MAX_ZONES: the zones_ array has this many entries
  MinOff,        \* COMP_MIN_OFF_MS in ticks
  MinOn,         \* COMP_MIN_ON_MS in ticks
  HpPause,       \* HP_RECOVERY_PAUSE_MS in ticks
  Satisfied,     \* TIMER_SATISFIED: where comp_since_ms_ stops counting
  CondLow,       \* equipment.cond_fan_low_limit
  CondOff,       \* equipment.cond_fan_off
  CondOn,        \* equipment.cond_fan_on
  NoTemp,        \* the reading NaN
  Heaters,       \* the zones whose defrost relay switches an electric heater
  ZoneCounts,    \* the values equipment.active_zones takes
  ZoneInputs,    \* what the modules of one zone may have published
  ProtInputs,    \* what the protection modules may have published
  LightInputs,   \* values of lighting.req.light
  CondTemps,     \* readings of the condenser sensor
  FanModes       \* values of equipment.cond_fan_mode

ZoneIds == 1..MaxZones

\* ZoneState: the requests of one zone as the last read_zone_requests cached
\* them, with the live <defrost ns>.type setting the interlock looks up.
ZoneReqType == [therm_compressor : BOOLEAN, therm_evap_fan : BOOLEAN,
                therm_cond_fan : BOOLEAN, defrost_active : BOOLEAN,
                def_compressor : BOOLEAN, def_defrost_relay : BOOLEAN,
                def_evap_fan : BOOLEAN, def_cond_fan : BOOLEAN,
                eev_valve_pos : BOOLEAN, type : 0..2]

NoZoneReq == [therm_compressor |-> FALSE, therm_evap_fan |-> FALSE,
              therm_cond_fan |-> FALSE, defrost_active |-> FALSE,
              def_compressor |-> FALSE, def_defrost_relay |-> FALSE,
              def_evap_fan |-> FALSE, def_cond_fan |-> FALSE,
              eev_valve_pos |-> FALSE, type |-> 0]

ProtType == [lockout : BOOLEAN, compressor_blocked : BOOLEAN,
             condenser_block : BOOLEAN, door_comp_blocked : BOOLEAN,
             lockout_z2 : BOOLEAN, compressor_blocked_z2 : BOOLEAN]

\* The aggregated requests req_, and the outputs out_ (a valve position is open
\* or closed): the shared actuators have the outputs' type.
ReqType == [any_therm_compressor : BOOLEAN, any_therm_evap_fan : BOOLEAN,
            any_therm_cond_fan : BOOLEAN, any_defrost_active : BOOLEAN,
            any_def_compressor : BOOLEAN, any_def_defrost_relay : BOOLEAN,
            any_def_evap_fan : BOOLEAN, any_def_cond_fan : BOOLEAN,
            protection_lockout : BOOLEAN, compressor_blocked : BOOLEAN,
            condenser_blocked : BOOLEAN, door_comp_blocked : BOOLEAN,
            light_request : BOOLEAN]

OutType == [compressor : BOOLEAN, defrost_relay : BOOLEAN, evap_fan : BOOLEAN,
            cond_fan : BOOLEAN, light : BOOLEAN, valve : BOOLEAN]

ZoneOutType == [defrost_relay : BOOLEAN, evap_fan : BOOLEAN, valve : BOOLEAN]

ASSUME EquipmentConstants ==
  /\ MaxZones \in Nat \ {0}
  /\ MinOff \in Nat /\ MinOn \in Nat /\ HpPause \in Nat \ {0}
  /\ Satisfied \in Nat /\ MinOff <= Satisfied /\ MinOn <= Satisfied
  /\ CondLow \in Nat /\ CondOff \in Nat /\ CondOn \in Nat
  /\ CondTemps \subseteq Nat \cup {NoTemp} /\ NoTemp \notin Nat
  /\ Heaters \subseteq ZoneIds
  /\ ZoneCounts \subseteq ZoneIds
  /\ ZoneInputs \subseteq ZoneReqType
  /\ ProtInputs \subseteq ProtType
  /\ LightInputs \subseteq BOOLEAN
  /\ FanModes \subseteq {0, 1}

VARIABLES
  running,     \* the module manager updates the module
  bootZones,   \* active_zones when bind_drivers ran
  zoneCount,   \* zone_count_
  zoneReq,     \* zones_[z]: cached requests, kept until the next read
  req,         \* req_: the aggregated requests of the last update
  compActual,  \* comp_actual_
  compSince,   \* comp_since_ms_
  hpActive,    \* hp_recovery_active_
  hpTimer,     \* hp_recovery_timer_ms_ (stops at HpPause: only >= is tested)
  condTemp,    \* cond_temp_: the filtered condenser temperature
  relay,       \* the shared actuators, as they physically are
  zoneRelay,   \* the actuators of each zone, as they physically are
  emergency,   \* <eev ns>.req.emergency_close of each zone, a one-shot
  condMode,    \* history: cond_fan_mode as the last update read it
  restarted,   \* history: stopped or rebooted, the next run not yet ended
  sinceSwitch, \* history: ticks since the compressor relay last switched
  beat         \* history: flips at every update, so that none is a stutter

vars == <<running, bootZones, zoneCount, zoneReq, req, compActual, compSince,
          hpActive, hpTimer, condTemp, relay, zoneRelay, emergency, condMode,
          restarted, sinceSwitch, beat>>

AtMost(n, cap) == IF n > cap THEN cap ELSE n

AllOff == [compressor |-> FALSE, defrost_relay |-> FALSE, evap_fan |-> FALSE,
           cond_fan |-> FALSE, light |-> FALSE, valve |-> FALSE]

ZoneOff == [defrost_relay |-> FALSE, evap_fan |-> FALSE, valve |-> FALSE]

-----------------------------------------------------------------------------
(* Requests: the OR of the zones, protection of zone 2 only when it exists *)

ReadZones(r, n) == [z \in ZoneIds |-> IF z <= n THEN r[z] ELSE zoneReq[z]]

Aggregate(zr, n, p, light) ==
  [any_therm_compressor  |-> \E z \in 1..n : zr[z].therm_compressor,
   any_therm_evap_fan    |-> \E z \in 1..n : zr[z].therm_evap_fan,
   any_therm_cond_fan    |-> \E z \in 1..n : zr[z].therm_cond_fan,
   any_defrost_active    |-> \E z \in 1..n : zr[z].defrost_active,
   any_def_compressor    |-> \E z \in 1..n : zr[z].def_compressor,
   any_def_defrost_relay |-> \E z \in 1..n : zr[z].def_defrost_relay,
   any_def_evap_fan      |-> \E z \in 1..n : zr[z].def_evap_fan,
   any_def_cond_fan      |-> \E z \in 1..n : zr[z].def_cond_fan,
   protection_lockout    |-> p.lockout \/ (n >= 2 /\ p.lockout_z2),
   compressor_blocked    |-> \/ p.compressor_blocked
                             \/ n >= 2 /\ p.compressor_blocked_z2,
   condenser_blocked     |-> p.condenser_block,
   door_comp_blocked     |-> p.door_comp_blocked,
   light_request         |-> light]

-----------------------------------------------------------------------------
(* Arbitration: each step rewrites the outputs the step before it left.    *)

\* Defrost requests win over thermostat requests; only the condenser fan
\* listens to both.
Requested(rq) ==
  LET d == rq.any_defrost_active
  IN [compressor    |-> IF d THEN rq.any_def_compressor
                             ELSE rq.any_therm_compressor,
      defrost_relay |-> d /\ rq.any_def_defrost_relay,
      evap_fan      |-> IF d THEN rq.any_def_evap_fan
                             ELSE rq.any_therm_evap_fan,
      cond_fan      |-> rq.any_therm_cond_fan \/ (d /\ rq.any_def_cond_fan),
      light         |-> FALSE,
      valve         |-> FALSE]

\* Mutant of AntiShortCycle: only the restart is delayed.
AntiShortCycleNoMinOn(wanted, since) ==
  IF wanted = compActual THEN wanted ELSE wanted /\ since >= MinOff

\* The compressor after anti-short-cycle: a switch waits for MinOff / MinOn.
AntiShortCycle(wanted, since) ==
  IF wanted = compActual THEN wanted
  ELSE IF wanted THEN since >= MinOff ELSE since < MinOn

\* Mutant of Recovered: only the pause ends recovery.
RecoveredTimerOnly(t, elapsed) == elapsed >= HpPause

\* Head pressure recovery is over.
Recovered(t, elapsed) == t >= CondOff \/ elapsed >= HpPause

\* Condenser fan control (apply_cond_fan_control): the outputs it leaves, and
\* the head pressure recovery flag and timer.  In recovery the fan and the
\* defrost relay are held off until the condenser warms up or the pause ends.
FanControl(out, rq, timer, t, mode) ==
  LET keep(o, fan) == [out |-> [o EXCEPT !.cond_fan = fan],
                       active |-> hpActive, timer |-> timer]
      starts    == t < CondLow /\ rq.any_defrost_active
      active    == hpActive \/ starts
      elapsed   == IF starts /\ ~hpActive THEN 0 ELSE timer
  IN IF mode = 0 \/ t = NoTemp
       THEN keep(out, out.cond_fan \/ out.compressor)
     ELSE IF ~out.compressor
       THEN keep(out, FALSE)
     ELSE IF active
       THEN [out |-> [out EXCEPT !.cond_fan = FALSE, !.defrost_relay = FALSE],
             active |-> ~Recovered(t, elapsed), timer |-> elapsed]
     ELSE keep(out, t >= CondOn \/ (t > CondOff /\ out.cond_fan))

Blocked(rq) ==
  rq.compressor_blocked \/ rq.condenser_blocked \/ rq.door_comp_blocked

\* Mutant of ElectricActive: only the first zone's setting is looked up.
ElectricActiveFirst(zr, n) == zr[1].defrost_active /\ zr[1].type = 1

\* Some zone in defrost is set to electric (type 1) right now.
ElectricActive(zr, n) == \E z \in 1..n : zr[z].defrost_active /\ zr[z].type = 1

\* Protection block, the heater interlock, the valve and the light.
Interlocks(out, rq, zr, n) ==
  LET heater == out.defrost_relay /\ ElectricActive(zr, n)
      comp   == out.compressor /\ ~Blocked(rq) /\ ~heater
  IN [out EXCEPT !.compressor = comp,
                 !.valve = comp /\ zr[1].eev_valve_pos,
                 !.light = rq.light_request]

\* apply_arbitration: the outputs and the recovery state of one cycle.
Arbitrate(rq, zr, n, since, timer, t, mode) ==
  IF rq.protection_lockout
  THEN [out |-> AllOff, active |-> hpActive, timer |-> timer]
  ELSE LET wanted == Requested(rq)
           asc    == [wanted EXCEPT !.compressor =
                                      AntiShortCycle(wanted.compressor, since)]
           fan    == FanControl(asc, rq, timer, t, mode)
       IN [fan EXCEPT !.out = Interlocks(fan.out, rq, zr, n)]

-----------------------------------------------------------------------------
(* Outputs: apply_outputs and publish_state                                *)

\* The zone has actuators of its own and is driven through them.
Driven(z, n) == n >= 2 /\ bootZones >= 2 /\ z <= 2 /\ z <= n

\* eev_driver_ is bound: the controller booted in single-zone mode.
SharedValve == bootZones = 1

ApplyOutputs(out, zr, n) ==
  /\ relay' = [compressor    |-> out.compressor,
               cond_fan      |-> out.cond_fan,
               light         |-> out.light,
               defrost_relay |-> IF n >= 2 THEN relay.defrost_relay
                                           ELSE out.defrost_relay,
               evap_fan      |-> IF n >= 2 THEN relay.evap_fan ELSE out.evap_fan,
               valve         |-> SharedValve /\ out.valve /\ ~emergency[1]]
  /\ zoneRelay' = [z \in ZoneIds |->
       IF Driven(z, n)
       THEN [defrost_relay |-> zr[z].def_defrost_relay,
             evap_fan      |-> IF zr[z].defrost_active THEN zr[z].def_evap_fan
                                                       ELSE zr[z].therm_evap_fan,
             valve         |-> /\ out.compressor /\ zr[z].eev_valve_pos
                               /\ ~emergency[z]]
       ELSE zoneRelay[z]]
  /\ emergency' = [z \in ZoneIds |-> /\ emergency[z]
                                     /\ ~Driven(z, n)
                                     /\ ~(SharedValve /\ z = 1)]

\* Mutant of PublishState: the timer restarts on switching on only.
PublishStateOnOnly(since) ==
  /\ compActual' = relay'.compressor
  /\ compSince' = IF relay'.compressor /\ ~compActual THEN 0 ELSE since

\* Mutant of PublishState: the timer restarts while the request is not served.
PublishStateUnserved(since) ==
  /\ compActual' = relay'.compressor
  /\ compSince' = IF relay'.compressor # req.any_therm_compressor THEN 0
                  ELSE since

\* publish_state restarts comp_since_ms_ when the compressor relay switched.
PublishState(since) ==
  /\ compActual' = relay'.compressor
  /\ compSince' = IF relay'.compressor # compActual THEN 0 ELSE since

\* History: the module is stopped, or a run of the compressor ends.
Record(stopped) ==
  restarted' = (stopped \/ (restarted /\ (relay.compressor => relay'.compressor)))

\* History: a step that takes `ticks` of time.
Elapse(ticks) ==
  /\ sinceSwitch' = IF relay'.compressor # relay.compressor THEN 0
                    ELSE AtMost(sinceSwitch + ticks, Satisfied)
  /\ beat' = IF ticks = 0 THEN beat ELSE ~beat

-----------------------------------------------------------------------------
(* Actions                                                                 *)

\* on_update: one main loop cycle.  n is the active_zones setting, r the
\* published requests of its zones, p those of protection, t the condenser.
\* (\E x \in {e} names the value of e: TLC then evaluates e once.)
Update(n, r, p, light, t, mode) ==
  /\ running
  /\ \E zr \in {ReadZones(r, n)} : \E rq \in {Aggregate(zr, n, p, light)} :
       LET since == AtMost(compSince + 1, Satisfied)
           timer == IF hpActive THEN AtMost(hpTimer + 1, HpPause)
                    ELSE IF ~rq.any_defrost_active THEN 0 ELSE hpTimer
       IN \E arb \in {Arbitrate(rq, zr, n, since, timer, t, mode)} :
            /\ zoneCount' = n
            /\ zoneReq' = zr
            /\ req' = rq
            /\ hpActive' = arb.active
            /\ hpTimer' = arb.timer
            /\ condTemp' = t
            /\ ApplyOutputs(arb.out, zr, n)
            /\ PublishState(since)
            /\ condMode' = mode
            /\ Record(FALSE)
            /\ Elapse(1)
            /\ UNCHANGED <<running, bootZones>>

\* on_message(SYSTEM_SAFE_MODE): outputs cleared between two updates.
SafeMode ==
  /\ ApplyOutputs(AllOff, zoneReq, zoneCount)
  /\ PublishState(compSince)
  /\ Record(FALSE)
  /\ Elapse(0)
  /\ UNCHANGED <<running, bootZones, zoneCount, zoneReq, req, hpActive, hpTimer,
                 condTemp, condMode>>

\* The EEV module raises its one-shot emergency close request.
RequestEmergencyClose(z) ==
  /\ ~emergency[z]
  /\ emergency' = [emergency EXCEPT ![z] = TRUE]
  /\ UNCHANGED <<running, bootZones, zoneCount, zoneReq, req, compActual,
                 compSince, hpActive, hpTimer, condTemp, relay, zoneRelay,
                 condMode, restarted, sinceSwitch, beat>>

\* on_stop: relays off, the emergency stop of the valve, nothing published.
Stop ==
  /\ running
  /\ running' = FALSE
  /\ ApplyOutputs(AllOff, zoneReq, zoneCount)
  /\ Record(TRUE)
  /\ Elapse(0)
  /\ UNCHANGED <<bootZones, zoneCount, zoneReq, req, compActual, compSince,
                 hpActive, hpTimer, condTemp, condMode>>

\* on_init again (restart_module): the object, and so every timer, is the same.
Reinit(n) ==
  /\ ~running
  /\ running' = TRUE
  /\ zoneCount' = n
  /\ UNCHANGED <<bootZones, zoneReq, req, compActual, compSince, hpActive,
                 hpTimer, condTemp, relay, zoneRelay, emergency, condMode,
                 restarted, sinceSwitch, beat>>

-----------------------------------------------------------------------------
(* Specification                                                           *)

NoProt == [lockout |-> FALSE, compressor_blocked |-> FALSE,
           condenser_block |-> FALSE, door_comp_blocked |-> FALSE,
           lockout_z2 |-> FALSE, compressor_blocked_z2 |-> FALSE]

NoZoneReqs == [z \in ZoneIds |-> NoZoneReq]

NoReq == Aggregate(NoZoneReqs, 1, NoProt, FALSE)

\* Power-on: a fresh module, the compressor's timer already satisfied.
Init ==
  /\ running = TRUE
  /\ bootZones \in ZoneCounts
  /\ zoneCount = bootZones
  /\ zoneReq = NoZoneReqs
  /\ req = NoReq
  /\ compActual = FALSE
  /\ compSince = Satisfied
  /\ hpActive = FALSE
  /\ hpTimer = 0
  /\ condTemp = 0
  /\ relay = AllOff
  /\ zoneRelay = [z \in ZoneIds |-> ZoneOff]
  /\ emergency = [z \in ZoneIds |-> FALSE]
  /\ condMode \in FanModes
  /\ restarted = FALSE
  /\ sinceSwitch = Satisfied
  /\ beat = FALSE

\* The controller restarts: every relay drops, every timer starts over.
Reboot(n) ==
  /\ running' = TRUE
  /\ bootZones' = n
  /\ zoneCount' = n
  /\ zoneReq' = NoZoneReqs
  /\ req' = NoReq
  /\ compActual' = FALSE
  /\ compSince' = Satisfied
  /\ hpActive' = FALSE
  /\ hpTimer' = 0
  /\ condTemp' = 0
  /\ relay' = AllOff
  /\ zoneRelay' = [z \in ZoneIds |-> ZoneOff]
  /\ emergency' = [z \in ZoneIds |-> FALSE]
  /\ condMode' = condMode
  /\ Record(TRUE)
  /\ Elapse(0)

AnyUpdate ==
  \E n \in ZoneCounts, p \in ProtInputs, light \in LightInputs,
     t \in CondTemps, mode \in FanModes :
    \E r \in [1..n -> ZoneInputs] : Update(n, r, p, light, t, mode)

\* The module in operation.
Next ==
  \/ AnyUpdate
  \/ SafeMode
  \/ \E z \in ZoneIds : RequestEmergencyClose(z)

Spec == Init /\ [][Next]_vars

\* The same, stopped and restarted by the watchdog service, and rebooted.
LifecycleNext ==
  \/ Next
  \/ Stop
  \/ \E n \in ZoneCounts : Reinit(n)
  \/ \E n \in ZoneCounts : Reboot(n)

LifecycleSpec == Init /\ [][LifecycleNext]_vars

\* The main loop updates a running module again and again (only an update
\* flips `beat`).
LiveSpec == LifecycleSpec /\ WF_beat(running /\ beat' = ~beat)

-----------------------------------------------------------------------------
(* Properties                                                              *)

TypeOK ==
  /\ running \in BOOLEAN
  /\ bootZones \in ZoneIds
  /\ zoneCount \in ZoneIds
  /\ zoneReq \in [ZoneIds -> ZoneReqType]
  /\ req \in ReqType
  /\ compActual \in BOOLEAN
  /\ compSince \in 0..Satisfied
  /\ hpActive \in BOOLEAN
  /\ hpTimer \in 0..HpPause
  /\ condTemp \in Nat \cup {NoTemp}
  /\ relay \in OutType
  /\ zoneRelay \in [ZoneIds -> ZoneOutType]
  /\ emergency \in [ZoneIds -> BOOLEAN]
  /\ condMode \in {0, 1}
  /\ restarted \in BOOLEAN
  /\ sinceSwitch \in 0..Satisfied
  /\ beat \in BOOLEAN

\* The compressor relay never closes before it has been open for MinOff,
\* whoever asked for what in between (AUDIT-003, equipment_module.h:220).  A
\* stop opens it behind the module's back, and a reboot forgets the time: each
\* may cost one early start, and only one, although the timers survive a stop.
MinOffStep ==
  ~relay.compressor /\ relay'.compressor => sinceSwitch + 1 >= MinOff \/ restarted

MinOffRespected == [][MinOffStep]_vars

\* The compressor relay opens before MinOn only for a safety reason: lockout,
\* a protection block, a running electric defrost, safe mode, or the module
\* stopped or rebooted, in this run or just before it.
EarlyStopStep ==
  relay.compressor /\ ~relay'.compressor /\ sinceSwitch + 1 < MinOn
    => \/ req'.protection_lockout
       \/ Blocked(req')
       \/ req'.any_def_defrost_relay /\ ElectricActive(zoneReq', zoneCount')
       \/ SafeMode
       \/ restarted \/ restarted'

EarlyStopJustified == [][EarlyStopStep]_vars

\* An electric heater is on.
HeaterOn ==
  \/ 1 \in Heaters /\ relay.defrost_relay
  \/ \E z \in Heaters : zoneRelay[z].defrost_relay

\* "Electric defrost relay and compressor NEVER simultaneously
\* (equipment_module.h:17)", on the relays themselves and not on the requests.
HeaterInterlock == ~(relay.compressor /\ HeaterOn)

\* A condenser hotter than every threshold of the fan control.
Hot(t) == t # NoTemp /\ t >= CondOn /\ t >= CondOff /\ t >= CondLow

\* The condenser is hot and the compressor runs in two updates in a row.  (A
\* step to the classic mode counts, since there the fan follows the compressor;
\* one from it does not, since classic mode leaves a recovery unfinished.)
HotStep ==
  /\ relay.compressor /\ relay'.compressor
  /\ Hot(condTemp) /\ Hot(condTemp')
  /\ condMode = 1 \/ condMode' = 0
  /\ ~(\E z \in ZoneIds : RequestEmergencyClose(z))

\* Then the condenser fan runs, no matter what head pressure recovery was doing
\* before, how the mode was changed and in which order the thresholds are.
HotCondenserFan == [][HotStep => relay'.cond_fan]_vars

\* The thermostat wants cooling, and nothing stands against it.
CoolingWanted ==
  /\ req.any_therm_compressor
  /\ ~req.any_defrost_active /\ ~req.protection_lockout /\ ~Blocked(req)

\* Cooling wanted for good of a module that runs is served: anti-short-cycle
\* only ever delays it, however often safe mode drops the relay in between.
CoolingServed == <>[](running /\ CoolingWanted) => []<>relay.compressor
=============================================================================
