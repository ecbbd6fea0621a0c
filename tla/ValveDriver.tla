------------------------------- MODULE ValveDriver -------------------------------
(***************************************************************************)
(* The drivers of an expansion valve (drivers/eev_stepper,                    *)
(* eev_pcf8574_stepper, eev_analog, akv_pulse) and the valve itself.           *)
(*                                                                         *)
(* Time passes in passes of the main loop, which take 10 ms.  The STEP and DIR *)
(* lines of the PCF8574 stepper share the expander's output byte with relays:  *)
(* whoever writes the byte writes both lines.                                 *)
(***************************************************************************)
EXTENDS Integers

CONSTANTS
  Kinds,     \* drivers in question: "gpio", "pcf8574", "analog", "akv"
  Max,       \* max_steps
  Extra,     \* homing_extra_steps
  Interval,  \* passes per step; in an emergency a step takes one pass
  Debounce,  \* NVS_DEBOUNCE_MS in passes: a bound
  MaxFaults, \* failed I2C writes, a bound
  None       \* no saved position

ASSUME ValveConstants ==
  /\ {Max, Extra, Interval, Debounce} \subseteq Nat \ {0} /\ MaxFaults \in Nat
  /\ Kinds \subseteq {"gpio", "pcf8574", "analog", "akv"}

VARIABLES
  kind,        \* which driver this valve has
  pos,         \* current_pos_, position_
  target,      \* target_pos_
  calibrated,
  fast,        \* emergency_mode_
  timer,       \* step_timer_us_, in passes
  homing,      \* homing_steps_remaining_ while homing_state_ is CLOSING, else -1
  unsaved,     \* 0 unless nvs_dirty_, then one more than passes it was stable
  saved,       \* the position in NVS: only a calibrated valve saves one
  out,         \* the expander's byte: its STEP and DIR bits
  chip,        \* level of the STEP line
  valve,       \* where the valve really is
  sure,        \* history: the position was true when homing or a start ended
  faults       \* history: writes failed since homing or a start began

memory == <<pos, target, calibrated, fast, timer, homing, unsaved>>
wires == <<out, chip, valve, sure, faults>>
driver == <<kind, memory, saved, wires>>

Stepper == kind \in {"gpio", "pcf8574"}
Closing == homing >= 0
Moved(v, opens) == IF opens THEN (IF v < Max THEN v + 1 ELSE v) ELSE (IF v > 0 THEN v - 1 ELSE v)

-----------------------------------------------------------------------------
(* Commands                                                                *)

\* Mutant of SetPosition: a stepper goes where it is told, calibrated or not.
SetPositionUncalibrated(p) ==
  /\ target' = p
  /\ IF Stepper THEN UNCHANGED <<pos, valve>>
     ELSE pos' = p /\ valve' = IF kind = "analog" THEN p ELSE valve
  /\ UNCHANGED <<kind, saved, calibrated, fast, timer, homing, unsaved, out, chip, sure, faults>>

\* set_position, refused by a stepper that is not calibrated.
SetPosition(p) ==
  \/ /\ Stepper /\ ~calibrated
     /\ UNCHANGED driver
  \/ /\ Stepper /\ calibrated
     /\ target' = p
     /\ UNCHANGED <<kind, saved, wires, pos, calibrated, fast, timer, homing, unsaved>>
  \/ /\ ~Stepper
     /\ target' = p /\ pos' = p
     /\ valve' = IF kind = "analog" THEN p ELSE valve
     /\ UNCHANGED <<kind, saved, calibrated, fast, timer, homing, unsaved, out, chip, sure, faults>>

\* emergency_close.
EmergencyClose ==
  /\ target' = 0
  /\ IF Stepper
       THEN /\ fast' = TRUE /\ timer' = IF kind = "pcf8574" THEN 0 ELSE timer
            /\ UNCHANGED <<pos, valve>>
       ELSE /\ pos' = 0 /\ valve' = 0
            /\ UNCHANGED <<fast, timer>>
  /\ UNCHANGED <<kind, saved, calibrated, homing, unsaved, out, chip, sure, faults>>

\* Mutant of Calibrate: closes by the steps the driver believes to be open.
CalibrateShort ==
  /\ Stepper
  /\ homing' = pos + Extra /\ timer' = 0 /\ sure' = FALSE /\ faults' = 0
  /\ UNCHANGED <<kind, saved, pos, target, calibrated, fast, unsaved, out, chip, valve>>

\* calibrate.
Calibrate ==
  /\ Stepper
  /\ homing' = Max + Extra /\ timer' = 0 /\ sure' = FALSE /\ faults' = 0
  /\ UNCHANGED <<kind, saved, pos, target, calibrated, fast, unsaved, out, chip, valve>>

-----------------------------------------------------------------------------
(* Steps                                                                   *)

\* A write of the expander's byte reaches the chip; a rising STEP moves the valve.
Written(step, opens, v) == IF step /\ ~chip THEN Moved(v, opens) ELSE v

\* do_step of the PCF8574 stepper fails: the bits stay in the byte.
StepFails(opens) ==
  /\ kind = "pcf8574" /\ faults < MaxFaults
  /\ out' = [step |-> TRUE, opens |-> opens] /\ faults' = faults + 1
  /\ UNCHANGED <<chip, valve>>

\* step_one; do_step, whose second write may fail and leave STEP high.
Steps(opens) ==
  \/ /\ kind = "gpio" /\ valve' = Moved(valve, opens)
     /\ UNCHANGED <<out, chip, faults>>
  \/ /\ kind = "pcf8574" /\ valve' = Written(TRUE, opens, valve)
     /\ out' = [step |-> FALSE, opens |-> opens]
     /\ \/ chip' = FALSE /\ UNCHANGED faults
        \/ chip' = TRUE /\ faults < MaxFaults /\ faults' = faults + 1

\* A relay on the same expander is switched.
OtherWrite ==
  /\ kind = "pcf8574"
  /\ chip' = out.step /\ valve' = Written(out.step, out.opens, valve)
  /\ UNCHANGED <<kind, memory, saved, out, sure, faults>>

Due(interval) == timer + 1 >= interval
Waits(interval) ==
  /\ ~Due(interval) /\ timer' = timer + 1
  /\ UNCHANGED <<kind, saved, wires, pos, target, calibrated, fast, homing, unsaved>>

HomingStep ==
  /\ homing > 0
  /\ \/ Steps(FALSE) /\ homing' = homing - 1
     \/ StepFails(FALSE) /\ UNCHANGED homing
  /\ UNCHANGED <<kind, saved, pos, target, calibrated, fast, unsaved, sure>>

\* The valve is at its closed stop.  save_position_nvs.
Homed ==
  /\ pos' = 0 /\ target' = 0 /\ calibrated' = TRUE /\ homing' = -1 /\ saved' = 0 /\ sure' = TRUE
  /\ UNCHANGED <<kind, fast, unsaved>>

\* update, while homing: closes by more steps than the valve has.  The GPIO
\* stepper is done with its last step, the other one an interval later.
Home ==
  \/ Waits(Interval)
  \/ /\ Due(Interval) /\ timer' = 0
     /\ \/ ~(kind = "gpio" /\ homing = 1) /\ HomingStep
        \/ kind = "gpio" /\ homing = 1 /\ Steps(FALSE) /\ Homed
        \/ homing = 0 /\ Homed /\ UNCHANGED <<out, chip, valve, faults>>

\* update, at the target: the position is saved once it is stable.
Settle ==
  /\ IF unsaved = 0 THEN UNCHANGED <<unsaved, saved>>
     ELSE IF unsaved >= Debounce THEN unsaved' = 0 /\ saved' = IF calibrated THEN pos ELSE None
     ELSE unsaved' = unsaved + 1 /\ UNCHANGED saved
  /\ UNCHANGED <<kind, wires, pos, target, calibrated, fast, timer, homing>>

\* update, on the way.
Advance ==
  LET opens == target > pos
      interval == IF fast THEN 1 ELSE Interval
  IN \/ Waits(interval)
     \/ /\ Due(interval) /\ timer' = timer + 1 - interval
        /\ Steps(opens)
        /\ pos' = IF opens THEN pos + 1 ELSE pos - 1
        /\ fast' = (fast /\ pos' # target)
        /\ unsaved' = IF pos' = target THEN 1 ELSE unsaved
        /\ UNCHANGED <<kind, saved, target, calibrated, homing, sure>>
     \/ /\ Due(interval) /\ timer' = timer + 1 - interval
        /\ StepFails(opens)
        /\ UNCHANGED <<kind, saved, pos, target, calibrated, fast, homing, unsaved, sure>>

\* update of the pulsed valve: closed or open, by its place in the cycle.
Pulse ==
  /\ valve' = CASE pos = 0 -> 0 [] pos = Max -> Max [] OTHER -> IF timer = 0 THEN Max ELSE 0
  /\ timer' = IF pos \in {0, Max} THEN 0 ELSE 1 - timer
  /\ UNCHANGED <<kind, saved, pos, target, calibrated, fast, homing, unsaved, out, chip, sure, faults>>

Update ==
  \/ Stepper /\ Closing /\ Home
  \/ Stepper /\ ~Closing /\ pos = target /\ Settle
  \/ Stepper /\ ~Closing /\ pos # target /\ Advance
  \/ kind = "akv" /\ Pulse
  \/ kind = "analog" /\ UNCHANGED driver

-----------------------------------------------------------------------------
(* Power                                                                   *)

\* init: a saved position is taken for true.  Analog and pulsed valves close.
DriverStarts ==
  LET p == IF Stepper /\ saved # None THEN saved ELSE 0
  IN /\ pos' = p /\ target' = p
     /\ calibrated' = (~Stepper \/ saved # None)
     /\ fast' = FALSE /\ timer' = 0 /\ homing' = -1 /\ unsaved' = 0
     /\ out' = [step |-> FALSE, opens |-> FALSE] /\ chip' = FALSE
     /\ valve' = (IF Stepper THEN valve ELSE 0)
     /\ sure' = (calibrated' /\ valve' = p) /\ faults' = 0
     /\ UNCHANGED <<kind, saved>>

DriverInit ==
  /\ kind \in Kinds /\ saved = None
  /\ pos = 0 /\ target = 0 /\ calibrated = ~Stepper
  /\ fast = FALSE /\ timer = 0 /\ homing = -1 /\ unsaved = 0
  /\ out = [step |-> FALSE, opens |-> FALSE] /\ chip = FALSE
  /\ valve \in (IF Stepper THEN 0..Max ELSE {0}) /\ sure = calibrated /\ faults = 0
================================================================================
