----------------------------------- MODULE Eev -----------------------------------
(***************************************************************************)
(* The superheat controller (modules/eev), the Equipment Manager's part in    *)
(* it (apply_outputs), and the valve driver.                                  *)
(*                                                                         *)
(* A pass of the main loop updates the drivers, the Equipment Manager, then    *)
(* the controller, so that a request is applied in the pass after.  Superheat  *)
(* is one of a few classes, and the valve's position in percent a few values.  *)
(***************************************************************************)
EXTENDS ValveDriver

CONSTANTS
  Full,        \* 100 %
  MinPos, MaxPos, SafePos, StartupPos,
  StartupWait, \* startup_wait_ms_, in passes
  Exercise,    \* half of a valve exercise, in passes
  MaxPower     \* power losses and module restarts, a bound

ASSUME EevConstants ==
  /\ {Full, StartupWait, Exercise} \subseteq Nat \ {0} /\ MaxPower \in Nat
  /\ {MinPos, MaxPos, SafePos, StartupPos} \subseteq 0..Full /\ MinPos <= MaxPos

VARIABLES
  stage,       \* which part of a pass of the main loop is next
  comp,        \* the compressor's output, out_.compressor
  published,   \* equipment.compressor, the relay's state
  flood,       \* the last update found superheat below zero in LOW_SH_PROTECT
  state,       \* state_
  clock,       \* state_timer_ms_, in passes, while a state looks at it
  prev,        \* prev_compressor_
  percent,     \* position_ and req.valve_pos
  emergency,   \* req.emergency_close
  power        \* power losses and restarts so far

inputs == <<comp, published, flood>>
module == <<state, clock, prev, percent, emergency>>
vars == <<driver, stage, inputs, module, power>>

\* Superheat as a class: "nan", "sub" (below 0), "low", "fair", "high".
Superheats == {"nan", "sub", "low", "fair", "high"}
Valid(sh) == sh # "nan"
Clipped(p) == IF p < MinPos THEN MinPos ELSE IF p > MaxPos THEN MaxPos ELSE p
Horizon == IF StartupWait > 2 * Exercise THEN StartupWait ELSE 2 * Exercise
Later(t) == IF state \in {"startup", "exercise"} /\ t < Horizon THEN t + 1 ELSE t

\* set_value
Position(p) == (p * Max) \div Full

-----------------------------------------------------------------------------
(* The state machine: enter_state, and what each state does                 *)

Enter(s) ==
  /\ state' = s /\ clock' = 0
  /\ percent' = CASE s \in {"idle", "defrost"} -> 0
                  [] s = "startup" -> StartupPos
                  [] s = "fault" -> SafePos
                  [] s = "exercise" -> MaxPos
                  [] OTHER -> percent
  /\ UNCHANGED emergency

\* In the state it is in, with the valve at p.
Stay(p) ==
  /\ percent' = p /\ clock' = Later(clock)
  /\ UNCHANGED <<state, emergency>>

Rising == published /\ ~prev
Falling == ~published /\ prev

\* After idle_elapsed_ms_ the valve is exercised, once a day.
FromIdle(sh, d) ==
  \/ d /\ Enter("defrost")
  \/ ~d /\ Rising /\ Enter(IF Valid(sh) THEN "startup" ELSE "fault")
  \/ ~d /\ ~Rising /\ (Enter("exercise") \/ Stay(percent))

\* What startup and regulation have in common.
Interrupted(sh, d) ==
  \/ ~published /\ Enter("idle")
  \/ published /\ d /\ Enter("defrost")
  \/ published /\ ~d /\ ~Valid(sh) /\ Enter("fault")
Uninterrupted(sh, d) == published /\ ~d /\ Valid(sh)

FromStartup(sh, d) ==
  \/ Interrupted(sh, d)
  \/ /\ Uninterrupted(sh, d)
     /\ LET p == IF sh \in {"sub", "low"} /\ percent > MinPos THEN percent - 1 ELSE percent
        IN IF clock + 1 >= StartupWait
             THEN state' = "running" /\ clock' = 0 /\ percent' = p /\ UNCHANGED emergency
             ELSE Stay(p)

\* update_pi and its overrides move the valve by what depends on the pressure
\* and the settings, once an interval.
FromRunning(sh, d) ==
  \/ Interrupted(sh, d)
  \/ Uninterrupted(sh, d) /\ sh \in {"sub", "low"} /\ Enter("low_sh")
  \/ /\ Uninterrupted(sh, d) /\ sh \in {"fair", "high"}
     /\ \E p \in {percent} \cup MinPos..MaxPos : Stay(p)

\* Mutant of Subcooled: the controller only closes at its rate.
SubcooledSlow(sh, p) == percent' = p /\ UNCHANGED emergency

\* Superheat below zero: close at once.
Subcooled(sh, p) ==
  IF sh = "sub" THEN percent' = 0 /\ emergency' = TRUE
  ELSE percent' = p /\ UNCHANGED emergency

FromLowSh(sh, d) ==
  \/ ~published /\ Enter("idle")
  \/ published /\ ~Valid(sh) /\ Enter("fault")
  \/ /\ published /\ Valid(sh)
     /\ \E p \in {percent, Clipped(IF percent > 0 THEN percent - 1 ELSE 0)} : Subcooled(sh, p)
     /\ IF sh = "high" THEN state' = "running" /\ clock' = 0
                               ELSE clock' = Later(clock) /\ UNCHANGED state

FromDefrost(sh, d) ==
  IF d THEN Stay(percent)
  ELSE Enter(IF published /\ Valid(sh) THEN "startup" ELSE "idle")

FromFault(sh, d) ==
  \/ Falling /\ Enter("idle")
  \/ ~Falling /\ Valid(sh) /\ Enter(IF published THEN "startup" ELSE "idle")
  \/ ~Falling /\ ~Valid(sh) /\ Stay(percent)

FromExercise(sh, d) ==
  IF Rising \/ d THEN Enter(IF published THEN "startup" ELSE "idle")
  ELSE IF clock + 1 < Exercise THEN Stay(percent)
  ELSE IF clock + 1 < 2 * Exercise THEN Stay(0)
  ELSE Enter("idle")

\* EevModule::on_update
Control ==
  /\ stage = "eev" /\ stage' = "drivers"
  /\ prev' = published
  /\ \E sh \in Superheats, d \in BOOLEAN :
       /\ CASE state = "idle" -> FromIdle(sh, d)
            [] state = "startup" -> FromStartup(sh, d)
            [] state = "running" -> FromRunning(sh, d)
            [] state = "low_sh" -> FromLowSh(sh, d)
            [] state = "defrost" -> FromDefrost(sh, d)
            [] state = "fault" -> FromFault(sh, d)
            [] state = "exercise" -> FromExercise(sh, d)
       /\ flood' = (state' = "low_sh" /\ sh = "sub")
  /\ UNCHANGED <<driver, comp, published, power>>

-----------------------------------------------------------------------------
(* The rest of a pass                                                      *)

Drivers ==
  /\ stage = "drivers" /\ stage' = "equipment"
  /\ Update
  /\ UNCHANGED <<inputs, module, power>>

\* Mutant of Valve: the valve follows the request whatever the compressor does.
ValveFollows ==
  IF emergency THEN EmergencyClose ELSE SetPosition(Position(percent))

\* The valve's part of apply_outputs.
Valve ==
  IF emergency THEN EmergencyClose
  ELSE SetPosition(IF comp' THEN Position(percent) ELSE 0)

\* The Equipment Manager decides on the compressor, whose relay may be slower.
Equip ==
  /\ stage = "equipment" /\ stage' = "eev"
  /\ comp' \in BOOLEAN /\ published' \in {comp', published}
  /\ Valve /\ emergency' = FALSE
  /\ UNCHANGED <<flood, state, clock, prev, percent, power>>

\* EquipmentModule::on_stop, before a restart or a firmware update.
EquipmentStops ==
  /\ power < MaxPower /\ power' = power + 1 /\ stage = "drivers"
  /\ EmergencyClose /\ comp' = FALSE
  /\ UNCHANGED <<stage, published, flood, module>>

\* Homing is offered by the drivers; no code here asks for it, the installer does.
Installer ==
  /\ ~calibrated /\ ~Closing /\ Calibrate
  /\ UNCHANGED <<stage, inputs, module, power>>

Relay == OtherWrite /\ UNCHANGED <<stage, inputs, module, power>>

PowerLoss ==
  /\ power < MaxPower /\ power' = power + 1
  /\ DriverStarts
  /\ stage' = "drivers" /\ comp' = FALSE /\ published' = FALSE /\ flood' = FALSE
  /\ state' = "idle" /\ clock' = 0 /\ prev' = FALSE /\ percent' = 0 /\ emergency' = FALSE

Init ==
  /\ DriverInit
  /\ stage = "drivers" /\ comp = FALSE /\ published = FALSE /\ flood = FALSE
  /\ state = "idle" /\ clock = 0 /\ prev = FALSE /\ percent = 0 /\ emergency = FALSE
  /\ power = 0

Pass == Drivers \/ Equip \/ Control
Next == Pass \/ EquipmentStops \/ Installer \/ Relay \/ PowerLoss

Spec == Init /\ [][Next]_vars /\ WF_vars(Pass)

-----------------------------------------------------------------------------
(* Properties                                                              *)

\* Every variable has its type.
TypeOK ==
  /\ pos \in 0..Max /\ target \in 0..Max /\ valve \in 0..Max /\ homing \in -1..Max + Extra
  /\ timer \in 0..Interval /\ percent \in 0..Full /\ clock \in 0..Horizon

Promised == INSTANCE ValvePromise WITH position <- pos, known <- calibrated

\* The driver, whichever it is, keeps the promise of IValveDriver: it goes to
\* the position it is given, step by step, whatever else uses its wires.
Keeps == Promised!Promise

\* Where the valve is and where the driver takes it to be are never further
\* apart than the writes to the expander that failed explain.
Tracks ==
  kind # "akv" /\ sure =>
    /\ valve - pos <= 2 * faults
    /\ pos - valve <= 2 * faults

\* "Open valve with the compressor stopped: liquid refrigerant, hydraulic shock
\* at the next start" (equipment_module.cpp:781): while the compressor is to be
\* off, the valve closes, even if homing or an emergency is under way.
Closes == (comp = FALSE) ~> (comp \/ pos = 0)

\* Liquid on its way to the compressor stops: with superheat below zero the
\* valve closes completely, unless the compressor stops, superheat recovers, the
\* sensors fail or a defrost begins.
FloodStops ==
  flood ~> (pos = 0 \/ ~flood)
================================================================================
