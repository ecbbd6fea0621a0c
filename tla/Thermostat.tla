------------------------------ MODULE Thermostat ------------------------------
(***************************************************************************)
(* The thermostat of one zone (modules/thermostat): it turns the zone's    *)
(* temperature into requests for the compressor and the fans, which the    *)
(* Equipment Manager arbitrates.  It pauses while its zone defrosts, holds *)
(* still under protection lockout, runs the compressor by the clock when   *)
(* the sensor fails, and forces cooling in a continuous cycle.             *)
(*                                                                         *)
(* One Update is one main loop cycle, one tick of every timer.  on_update  *)
(* rewrites the module's fields step by step, so they are the record th,   *)
(* and every step is an operator from th to th.  The temperature is "hot"  *)
(* (at or above setpoint + differential, night setback included), "cold"   *)
(* (at or below the setpoint) or "band"; the evaporator's is "high" (above *)
(* fan_stop_temp), "low" (below it by the hysteresis) or "band".  A timer  *)
(* stops where its last comparison is decided.                             *)
(***************************************************************************)
EXTENDS Naturals

CONSTANTS
  StartupDelay,  \* startup_delay in ticks
  MinOff,        \* min_off_time
  MinOn,         \* min_on_time
  SafetyOn,      \* safety_run_on
  SafetyOff,     \* safety_run_off
  CondDelay,     \* cond_fan_delay
  CycleLength,   \* cc_duration
  Readings       \* what an update reads from other modules and the settings

ASSUME ThermostatConstants ==
  /\ StartupDelay \in Nat /\ MinOff \in Nat /\ MinOn \in Nat
  /\ SafetyOn \in Nat \ {0} /\ SafetyOff \in Nat \ {0}
  /\ CondDelay \in Nat /\ CycleLength \in Nat \ {0, 1}  \* hours: more than a tick

States == {"startup", "idle", "cooling", "continuous", "safety_run"}
Temps == {"cold", "band", "hot"}
EvapTemps == {"low", "band", "high"}

\* The sensors, defrost.active, protection.lockout and evap_fan_mode.
ReadingType ==
  [temp : Temps, ok : BOOLEAN, evap : EvapTemps, evapOk : BOOLEAN,
   defrost : BOOLEAN, lockout : BOOLEAN, fanMode : 0..2]

ASSUME ThermostatReadings == Readings \subseteq ReadingType

VARIABLES
  th,    \* the module's fields and the keys it owns
  since, \* history: ticks since the compressor request last changed
  beat   \* history: flips at every update, so that none is a stutter

vars == <<th, since, beat>>

ThermostatType ==
  [state : States, timer : 0..StartupDelay,           \* state_, state_timer_ms_
   comp : BOOLEAN, evapFan : BOOLEAN, condFan : BOOLEAN,          \* requests
   on : 0..MinOn, off : 0..MinOff,                   \* comp_on/off_time_ms_
   delayOn : BOOLEAN, delay : 0..CondDelay,          \* cond_fan_delay_active_
   phaseOn : BOOLEAN, safety : 0..(SafetyOn + SafetyOff),   \* safety_phase_on_
   ccActive : BOOLEAN, ccTimer : 0..CycleLength,     \* cc_active_, cc_timer_ms_
   cycle : BOOLEAN, remaining : 0..CycleLength,  \* continuous_cycle, cc_remaining
   wasDefrost : BOOLEAN, wasLockout : BOOLEAN,
   temp : Temps, ok : BOOLEAN]              \* current_temp_, sensor1_ok_

\* Where the history stops counting.
Horizon == LET least == IF MinOn > MinOff THEN MinOn ELSE MinOff
           IN IF CondDelay > least THEN CondDelay ELSE least

AtMost(n, cap) == IF n > cap THEN cap ELSE n

-----------------------------------------------------------------------------
(* Requests and states                                                     *)

\* Mutant of RequestCompressor: the timers survive a change of the request.
RequestCompressorKeepTimers(s, b) == [s EXCEPT !.comp = b]

\* A change of the compressor request restarts both of its timers.
RequestCompressor(s, b) ==
  IF s.comp = b THEN s ELSE [s EXCEPT !.comp = b, !.on = 0, !.off = 0]

\* All three requests dropped: the effect of lockout, safe mode and on_stop.
RequestNothing(s) ==
  [RequestCompressor(s, FALSE) EXCEPT !.evapFan = FALSE, !.condFan = FALSE]

\* enter_state: no effect in the same state.
EnterState(s, new) ==
  IF s.state = new THEN s
  ELSE LET e == [s EXCEPT !.state = new, !.timer = 0]
       IN CASE new \in {"startup", "idle"} -> RequestCompressor(e, FALSE)
            [] new = "cooling" -> RequestCompressor(e, TRUE)
            [] new = "continuous" ->
                 RequestCompressor([e EXCEPT !.ccActive = TRUE, !.ccTimer = 0,
                                             !.cycle = TRUE], TRUE)
            [] new = "safety_run" ->
                 RequestCompressor([e EXCEPT !.phaseOn = TRUE, !.safety = 0], TRUE)

-----------------------------------------------------------------------------
(* The steps of on_update, in their order                                  *)

\* The zone defrosts: requests are dropped once, timers and state kept.
Pause(s) ==
  IF s.wasDefrost THEN s ELSE [RequestNothing(s) EXCEPT !.wasDefrost = TRUE]

\* Defrost just ended: the timers restart and the state is idle.
AfterDefrost(s) ==
  IF ~s.wasDefrost THEN s
  ELSE [s EXCEPT !.wasDefrost = FALSE, !.on = 0, !.off = 0, !.delayOn = FALSE,
                 !.delay = 0, !.state = "idle", !.timer = 0]

CountTimers(s) ==
  [s EXCEPT !.timer = AtMost(@ + 1, StartupDelay),
            !.on    = IF s.comp THEN AtMost(@ + 1, MinOn) ELSE @,
            !.off   = IF s.comp THEN @ ELSE AtMost(@ + 1, MinOff)]

\* Lockout: requests dropped, the state kept.
Lock(s) == [RequestNothing(s) EXCEPT !.wasLockout = TRUE]

\* Lockout just ended: the state is entered again to raise its requests.
AfterLockout(s) ==
  IF ~s.wasLockout THEN s
  ELSE EnterState([s EXCEPT !.wasLockout = FALSE, !.state = "startup"], s.state)

\* The continuous cycle the setting requested when the update began is started,
\* or the one it no longer requests is cancelled.
CycleTriggers(s, requested) ==
  IF requested /\ ~s.ccActive /\ s.state \notin {"startup", "safety_run"}
    THEN EnterState(s, "continuous")
  ELSE IF ~requested /\ s.ccActive
    THEN EnterState([s EXCEPT !.ccActive = FALSE, !.cycle = FALSE], "idle")
  ELSE s

\* Mutant of Regulate: cooling stops at the setpoint whatever its run time.
RegulateNoMinOn(s, temp) ==
  IF s.state = "idle" /\ temp = "hot" /\ s.off >= MinOff
    THEN EnterState(s, "cooling")
  ELSE IF s.state = "cooling" /\ temp = "cold"
    THEN EnterState(s, "idle")
  ELSE s

\* Mutant of Regulate: the minimum off time is compared with the on timer.
RegulateWrongTimer(s, temp) ==
  IF s.state = "idle" /\ temp = "hot" /\ s.on >= MinOff
    THEN EnterState(s, "cooling")
  ELSE IF s.state = "cooling" /\ temp = "cold" /\ s.on >= MinOn
    THEN EnterState(s, "idle")
  ELSE s

Regulate(s, temp) ==
  IF s.state = "idle" /\ temp = "hot" /\ s.off >= MinOff
    THEN EnterState(s, "cooling")
  ELSE IF s.state = "cooling" /\ temp = "cold" /\ s.on >= MinOn
    THEN EnterState(s, "idle")
  ELSE s

\* update_continuous_cycle: only its own timer ends it.
ContinuousCycle(s) ==
  LET t == AtMost(s.ccTimer + 1, CycleLength)
      c == RequestCompressor([s EXCEPT !.ccTimer = t,
                                       !.remaining = CycleLength - t], TRUE)
  IN IF t < CycleLength THEN c
     ELSE EnterState([c EXCEPT !.ccActive = FALSE, !.cycle = FALSE], "idle")

\* Mutant of SafetyRun: the pause of the compressor has no end.
SafetyRunOnce(s) ==
  LET t == s.safety + 1
  IN IF s.phaseOn /\ t >= SafetyOn
       THEN [RequestCompressor(s, FALSE) EXCEPT !.phaseOn = FALSE, !.safety = 0]
     ELSE [s EXCEPT !.safety = AtMost(t, SafetyOn)]

\* update_safety_run: the compressor by the clock.
SafetyRun(s) ==
  LET t == s.safety + 1
  IN IF s.phaseOn /\ t >= SafetyOn
       THEN [RequestCompressor(s, FALSE) EXCEPT !.phaseOn = FALSE, !.safety = 0]
     ELSE IF ~s.phaseOn /\ t >= SafetyOff
       THEN [RequestCompressor(s, TRUE) EXCEPT !.phaseOn = TRUE, !.safety = 0]
     ELSE [s EXCEPT !.safety = t]

StateMachine(s, in) ==
  CASE s.state = "startup" ->
         IF s.timer >= StartupDelay THEN EnterState(s, "idle") ELSE s
    [] s.state \in {"idle", "cooling"} ->
         IF ~in.ok THEN EnterState(s, "safety_run") ELSE Regulate(s, in.temp)
    [] s.state = "continuous" -> ContinuousCycle(s)
    [] s.state = "safety_run" ->
         IF in.ok THEN EnterState(s, "idle") ELSE SafetyRun(s)

\* update_evap_fan: always, with the compressor, or by the evaporator.
EvapFan(s, in) ==
  [s EXCEPT !.evapFan =
     CASE in.fanMode = 0 -> TRUE
       [] in.fanMode = 2 /\ in.evapOk ->
            IF s.evapFan THEN in.evap # "high" ELSE in.evap = "low"
       [] OTHER -> s.comp]

\* update_cond_fan: with the compressor, and CondDelay longer.
CondFan(s) ==
  IF s.comp THEN [s EXCEPT !.condFan = TRUE, !.delayOn = FALSE, !.delay = 0]
  ELSE IF ~s.condFan /\ ~s.delayOn THEN s
  ELSE LET t == (IF s.delayOn THEN s.delay ELSE 0) + 1
       IN IF t >= CondDelay
            THEN [s EXCEPT !.condFan = FALSE, !.delayOn = FALSE,
                           !.delay = AtMost(t, CondDelay)]
          ELSE [s EXCEPT !.delayOn = TRUE, !.delay = t]

-----------------------------------------------------------------------------
(* Specification                                                           *)

\* History: a step that takes `ticks` of time.
Elapse(ticks) ==
  /\ since' = IF th'.comp # th.comp THEN 0 ELSE AtMost(since + ticks, Horizon)
  /\ beat' = IF ticks = 0 THEN beat ELSE ~beat

Seen(in) == [th EXCEPT !.temp = in.temp, !.ok = in.ok]

\* on_update, the zone in defrost.
UpdatePaused(in) ==
  /\ in.defrost
  /\ th' = Pause(Seen(in))

\* on_update, locked out.
UpdateLocked(in) ==
  /\ ~in.defrost /\ in.lockout
  /\ th' = Lock(CountTimers(AfterDefrost(Seen(in))))

\* on_update in operation.  (\E x \in {e} names the value of e: TLC then
\* evaluates e once.)
UpdateOperating(in) ==
  /\ ~in.defrost /\ ~in.lockout
  /\ \E counted \in {CountTimers(AfterDefrost(Seen(in)))} :
     \E ready \in {CycleTriggers(AfterLockout(counted), th.cycle)} :
     \E ran \in {StateMachine(ready, in)} :
        th' = CondFan(EvapFan(ran, in))

\* on_update: one main loop cycle.
Update(in) ==
  /\ UpdatePaused(in) \/ UpdateLocked(in) \/ UpdateOperating(in)
  /\ Elapse(1)

AnyUpdate == \E in \in Readings : Update(in)

\* The user switches the continuous cycle on or off.
SetCycle(b) == th' = [th EXCEPT !.cycle = b] /\ Elapse(0)

\* on_message(SYSTEM_SAFE_MODE): requests dropped between two updates.
SafeMode == th' = RequestNothing(th) /\ Elapse(0)

\* restart_module, on_stop and on_init on the same object: the requests are
\* dropped, and the state, the timers and the flags are kept.
Restart == th' = RequestNothing(th) /\ Elapse(0)

\* Power-on: the first start waits for StartupDelay only.
Init ==
  /\ th = [state |-> "startup", timer |-> 0,
           comp |-> FALSE, evapFan |-> FALSE, condFan |-> FALSE,
           on |-> 0, off |-> MinOff, delayOn |-> FALSE, delay |-> 0,
           phaseOn |-> FALSE, safety |-> 0, ccActive |-> FALSE, ccTimer |-> 0,
           cycle |-> FALSE, remaining |-> 0,
           wasDefrost |-> FALSE, wasLockout |-> FALSE,
           temp |-> "band", ok |-> FALSE]
  /\ since = Horizon
  /\ beat = FALSE

Next ==
  \/ AnyUpdate
  \/ \E b \in BOOLEAN : SetCycle(b)
  \/ SafeMode
  \/ Restart

Spec == Init /\ [][Next]_vars

\* The main loop updates the module again and again.
LiveSpec == Spec /\ WF_vars(AnyUpdate)

-----------------------------------------------------------------------------
(* Properties                                                              *)

TypeOK == th \in ThermostatType /\ since \in 0..Horizon /\ beat \in BOOLEAN

\* Regulation starts the compressor only when its request has been off for
\* MinOff.  A cycle the user asked for, the clock of a safety run and the end
\* of a lockout may start it earlier: the Equipment Manager delays the relay.
StartRespectsMinOff ==
  [][~th.comp /\ th'.comp =>
       \/ since + 1 >= MinOff
       \/ th'.state \in {"continuous", "safety_run"}
       \/ th.wasLockout]_vars

\* Cooling that ends because the room is cold has run for MinOn, also when a
\* lockout interrupted it.  Only defrost or the user ends it earlier.
StopRespectsMinOn ==
  [][th.state = "cooling" /\ th'.state = "idle" /\ th.comp =>
       \/ since + 1 >= MinOn
       \/ th.wasDefrost
       \/ ~th'.ccActive /\ th.ccActive]_vars

\* With the sensor failed for good the compressor still runs again and again,
\* whatever the user and the watchdog do (the safety run).
SensorLost == ~th.ok /\ ~th.wasDefrost /\ ~th.wasLockout

SafetyRunServed == <>[]SensorLost => []<>th.comp

\* The room is hot, the sensor sees it and nothing holds the thermostat.
Hot == th.temp = "hot" /\ th.ok /\ ~th.wasDefrost /\ ~th.wasLockout

\* The request was dropped while the state stayed cooling.
Dropped == th.state = "cooling" /\ ~th.comp

\* A hot room gets the compressor requested (the header: ON at or above
\* setpoint + differential), but for a thermostat that safe mode or a restart
\* left in cooling without its request, where it stays for ever.
HotServedUnlessDropped == <>[](Hot /\ ~Dropped) => []<>th.comp
=============================================================================
