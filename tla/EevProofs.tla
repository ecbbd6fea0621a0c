------------------------------- MODULE EevProofs -------------------------------
(***************************************************************************)
(* Proofs about Eev: the drivers implement the promise of IValveDriver, and  *)
(* know where the valve is but for the writes that failed.                   *)
(***************************************************************************)
EXTENDS Eev, TLAPS

-----------------------------------------------------------------------------
(* The invariant                                                           *)

Flags == calibrated \in BOOLEAN /\ fast \in BOOLEAN /\ sure \in BOOLEAN

DriverTypes ==
  /\ kind \in Kinds
  /\ pos \in 0..Max /\ target \in 0..Max /\ valve \in 0..Max /\ homing \in -1..Max + Extra
  /\ timer \in 0..Interval /\ unsaved \in Nat /\ saved \in 0..Max \cup {None}
  /\ out \in [step : BOOLEAN, opens : BOOLEAN] /\ chip \in BOOLEAN /\ faults \in Nat

\* What a driver does not use stays as it was.
KindsApart ==
  /\ kind # "pcf8574" => ~out.step /\ ~chip /\ faults = 0
  /\ ~Stepper => homing = -1 /\ calibrated
  /\ kind = "akv" => timer \in {0, 1}
  /\ kind = "analog" => valve = pos

\* How far a wire left high may still take the valve from the position: a step
\* that is not made, and before it one that nobody asked for.
Debt == IF chip THEN 1 ELSE IF out.step THEN 2 ELSE 0

\* How many steps close the valve, whatever is on the wires.
Level == IF chip THEN valve + 1 ELSE IF out.step THEN Moved(valve, TRUE) + 1 ELSE valve

\* Homing has at least as many steps left as it needs; from its end on the gap
\* between valve and position, and what may still add to it, has its faults.
GapPaid ==
  /\ Closing => ~sure /\ Level <= homing + 2 * faults
  /\ sure /\ kind # "akv" =>
       \/ Max <= 2 * faults
       \/ valve - pos + Debt <= 2 * faults /\ pos - valve + Debt <= 2 * faults

DriverInv == Flags /\ DriverTypes /\ KindsApart /\ GapPaid

States == {"idle", "startup", "running", "low_sh", "defrost", "fault", "exercise"}
ControllerTypes == percent \in 0..Full /\ clock \in 0..Horizon /\ state \in States

IInv == DriverInv /\ ControllerTypes

-----------------------------------------------------------------------------
LEMMA Facts ==
  /\ Max \in Nat /\ Max > 0 /\ Extra \in Nat /\ Extra > 0
  /\ Interval \in Nat /\ Interval > 0 /\ Debounce \in Nat /\ Debounce > 0
  BY ValveConstants

\* A share of the steps is a position (IValveDriver::set_value).
LEMMA PositionRange ==
  ASSUME NEW p \in 0..Full
  PROVE Position(p) \in 0..Max
<1>1. Full \in Nat /\ Full > 0 /\ Max \in Nat  BY EevConstants, ValveConstants
<1> DEFINE x == p * Max
           q == x \div Full
<1>2. x \in Nat /\ x <= Full * Max  BY <1>1
<1>3. q \in Nat /\ Full * q <= x  BY <1>1, <1>2
<1>4. q <= Max  BY <1>1, <1>2, <1>3
<1> QED BY <1>3, <1>4, <1>1 DEF Position

-----------------------------------------------------------------------------
(* Each operation of a driver keeps the invariant                          *)

LEMMA SetPositionInv ==
  ASSUME DriverInv, NEW p \in 0..Max, SetPosition(p)
  PROVE DriverInv'
<1> USE Facts
<1>1. CASE UNCHANGED driver
  BY <1>1 DEF DriverInv, Flags, DriverTypes, KindsApart, GapPaid, driver, memory, wires, Stepper, Closing,
              Level, Debt, Moved
<1>2. CASE Stepper /\ target' = p /\ UNCHANGED <<kind, saved, wires, pos, calibrated, fast, timer, homing, unsaved>>
  BY <1>2 DEF DriverInv, Flags, DriverTypes, KindsApart, GapPaid, wires, Stepper, Closing, Level, Debt, Moved
<1>3. CASE /\ ~Stepper
           /\ target' = p /\ pos' = p
           /\ valve' = IF kind = "analog" THEN p ELSE valve
           /\ UNCHANGED <<kind, saved, calibrated, fast, timer, homing, unsaved, out, chip, sure, faults>>
  <2>0. Flags'  BY <1>3 DEF DriverInv, Flags
  <2>1. DriverTypes'  BY <1>3 DEF DriverInv, DriverTypes
  <2>2. KindsApart'  BY <1>3 DEF DriverInv, DriverTypes, KindsApart, Stepper
  <2>3. GapPaid'
    BY <1>3, <2>1, <2>2, ValveConstants
       DEF DriverInv, DriverTypes, KindsApart, GapPaid, Stepper, Closing, Level, Debt
  <2> QED BY <2>0, <2>1, <2>2, <2>3 DEF DriverInv
<1> QED BY <1>1, <1>2, <1>3 DEF SetPosition

LEMMA EmergencyCloseInv ==
  ASSUME DriverInv, EmergencyClose
  PROVE DriverInv'
<1> USE Facts
<1>0. Flags'  BY DEF DriverInv, Flags, EmergencyClose
<1>1. DriverTypes'  BY DEF DriverInv, DriverTypes, EmergencyClose
<1>2. KindsApart'  BY DEF DriverInv, DriverTypes, KindsApart, EmergencyClose, Stepper
<1>3. CASE Stepper
  <2> GapPaid'
    BY <1>3 DEF DriverInv, DriverTypes, GapPaid, EmergencyClose, Closing, Level, Debt, Moved
  <2> QED BY <1>0, <1>1, <1>2 DEF DriverInv
<1>4. CASE ~Stepper
  <2> GapPaid'
    BY <1>4, <1>1, <1>2 DEF DriverInv, DriverTypes, KindsApart, GapPaid, EmergencyClose, Stepper,
                            Closing, Level, Debt
  <2> QED BY <1>0, <1>1, <1>2 DEF DriverInv
<1> QED BY <1>3, <1>4

\* Homing begins with more steps than the valve has.
LEMMA CalibrateInv ==
  ASSUME DriverInv, Calibrate
  PROVE DriverInv'
<1> USE Facts
<1>0. Flags'  BY DEF DriverInv, Flags, Calibrate
<1>1. DriverTypes'  BY DEF DriverInv, DriverTypes, Calibrate
<1>2. KindsApart'  BY DEF DriverInv, DriverTypes, KindsApart, Calibrate, Stepper
<1>3. Level' \in Nat /\ Level' <= Max + 1
  BY DEF DriverInv, DriverTypes, Calibrate, Level, Moved
<1>4. GapPaid'
  <2>1. sure' = FALSE  BY DEF Calibrate
  <2>2. homing' + 2 * faults' = Max + Extra  BY DEF Calibrate
  <2>3. Level' <= homing' + 2 * faults'
    BY <1>3, <2>2
  <2> QED BY <2>1, <2>3 DEF GapPaid
<1> QED BY <1>0, <1>1, <1>2, <1>4 DEF DriverInv

LEMMA OtherWriteInv ==
  ASSUME DriverInv, OtherWrite
  PROVE DriverInv'
<1> USE Facts
<1>0. Flags'  BY DEF DriverInv, Flags, OtherWrite, memory
<1>1. DriverTypes'
  BY DEF DriverInv, DriverTypes, OtherWrite, memory, Written, Moved
<1>2. KindsApart'  BY DEF DriverInv, DriverTypes, KindsApart, OtherWrite, memory, Stepper
<1>3. valve' \in {valve, valve + 1, valve - 1}
  BY DEF DriverInv, DriverTypes, OtherWrite, Written, Moved
<1>4. Level' <= Level
  BY DEF DriverInv, DriverTypes, OtherWrite, Written, Moved, Level
<1>5. GapPaid'
  BY <1>1, <1>3, <1>4 DEF DriverInv, DriverTypes, GapPaid, OtherWrite, memory, Written, Moved,
                          Closing, Level, Debt
<1> QED BY <1>0, <1>1, <1>2, <1>5 DEF DriverInv

LEMMA DriverStartsInv ==
  ASSUME DriverInv, DriverStarts
  PROVE DriverInv'
<1> USE Facts
<1>0. Flags'  BY DEF DriverInv, Flags, DriverStarts
<1>1. DriverTypes'
  <2>1. pos' \in 0..Max /\ target' \in 0..Max
    BY DEF DriverInv, DriverTypes, DriverStarts
  <2>2. out' \in [step : BOOLEAN, opens : BOOLEAN] /\ chip' \in BOOLEAN
    BY DEF DriverStarts
  <2>3. valve' \in 0..Max /\ homing' = -1 /\ timer' = 0 /\ unsaved' = 0 /\ faults' = 0
    BY DEF DriverInv, DriverTypes, DriverStarts
  <2>4. kind' = kind /\ saved' = saved
    BY DEF DriverStarts
  <2> QED BY <2>1, <2>2, <2>3, <2>4 DEF DriverInv, DriverTypes
<1>2. KindsApart'  BY DEF DriverInv, DriverTypes, DriverStarts, KindsApart, Stepper
<1>3. GapPaid'
  BY <1>1 DEF DriverInv, DriverTypes, DriverStarts, GapPaid, Closing, Debt
<1> QED BY <1>0, <1>1, <1>2, <1>3 DEF DriverInv

-----------------------------------------------------------------------------
(* update                                                                  *)

\* The three states of the wires, for the sums below.
Owed(v, l, d) == \/ d = 0 /\ l = v
                 \/ d = 1 /\ l = v + 1
                 \/ d = 2 /\ (l = v + 2 \/ (v >= Max /\ l = v + 1))

LEMMA DebtLevel ==
  ASSUME valve \in 0..Max, valve' \in 0..Max
  PROVE Owed(valve, Level, Debt) /\ Owed(valve', Level', Debt')
<1> USE Facts
<1>1. Owed(valve, Level, Debt)
  <2>1. CASE chip  BY <2>1 DEF Level, Debt, Owed
  <2>2. CASE ~chip /\ ~out.step  BY <2>2 DEF Level, Debt, Owed
  <2>3. CASE ~chip /\ out.step
    <3>1. Debt = 2 /\ Level = Moved(valve, TRUE) + 1  BY <2>3 DEF Level, Debt
    <3> QED BY <3>1 DEF Owed, Moved
  <2> QED BY <2>1, <2>2, <2>3
<1>2. Owed(valve', Level', Debt')
  <2>1. CASE chip'  BY <2>1 DEF Level, Debt, Owed
  <2>2. CASE ~chip' /\ ~out'.step  BY <2>2 DEF Level, Debt, Owed
  <2>3. CASE ~chip' /\ out'.step
    <3>1. Debt' = 2 /\ Level' = Moved(valve, TRUE)' + 1  BY <2>3 DEF Level, Debt
    <3> QED BY <3>1 DEF Owed, Moved
  <2> QED BY <2>1, <2>2, <2>3
<1> QED BY <1>1, <1>2

\* The sum for a step of homing: v steps are still open, d is owed.
LEMMA OneStepLess ==
  ASSUME NEW l \in Int, NEW h \in Int, NEW v \in Nat, NEW d, NEW m, NEW f \in Nat, NEW g \in Nat,
         h > 0, l <= h + 2 * f, v = 0 \/ v <= l - 1, Owed(v, m, d), d # 2, d + 2 * f <= 2 * g
  PROVE m <= h - 1 + 2 * g
  BY DEF Owed

\* The sum at the end of homing.
LEMMA HomedGap ==
  ASSUME NEW v \in Nat, NEW l, NEW d, NEW f \in Nat, Owed(v, l, d), l <= 2 * f, v <= Max
  PROVE Max <= 2 * f \/ (v - 0 + d <= 2 * f /\ 0 - v + d <= 2 * f)
  BY Facts DEF Owed

\* A step, as both steppers make it: the valve follows, unless STEP was high;
\* Debt and Level pay for what a write that failed may still do.
LEMMA StepsPay ==
  ASSUME DriverInv, NEW opens \in BOOLEAN, Steps(opens)
  PROVE /\ valve' \in 0..Max /\ faults' \in Nat /\ chip' \in BOOLEAN
        /\ out' \in [step : BOOLEAN, opens : BOOLEAN]
        /\ kind # "pcf8574" => ~out'.step /\ ~chip' /\ faults' = 0
        /\ faults' >= faults
        /\ chip => valve' = valve
        /\ ~chip => valve' = Moved(valve, opens)
        /\ Debt' + 2 * faults <= 2 * faults'
        /\ ~out'.step
<1> USE Facts
<1>1. CASE kind = "gpio" /\ valve' = Moved(valve, opens) /\ UNCHANGED <<out, chip, faults>>
  BY <1>1 DEF DriverInv, DriverTypes, KindsApart, Moved, Debt
<1>2. CASE /\ kind = "pcf8574" /\ valve' = Written(TRUE, opens, valve)
           /\ out' = [step |-> FALSE, opens |-> opens]
           /\ chip' = FALSE /\ UNCHANGED faults
  <2>1. chip' \in BOOLEAN /\ Debt' = 0  BY <1>2 DEF Debt
  <2>2. /\ valve' \in 0..Max
        /\ chip => valve' = valve
        /\ ~chip => valve' = Moved(valve, opens)
    BY <1>2 DEF DriverInv, DriverTypes, Written, Moved
  <2>3. faults \in Nat /\ faults' = faults  BY <1>2 DEF DriverInv, DriverTypes
  <2>4. out' \in [step : BOOLEAN, opens : BOOLEAN] /\ ~out'.step /\ kind = "pcf8574"  BY <1>2
  <2> QED BY <2>1, <2>2, <2>3, <2>4
<1>3. CASE /\ kind = "pcf8574" /\ valve' = Written(TRUE, opens, valve)
           /\ out' = [step |-> FALSE, opens |-> opens]
           /\ chip' = TRUE /\ faults' = faults + 1
  <2>1. chip' \in BOOLEAN /\ Debt' = 1  BY <1>3 DEF Debt
  <2>2. /\ valve' \in 0..Max
        /\ chip => valve' = valve
        /\ ~chip => valve' = Moved(valve, opens)
    BY <1>3 DEF DriverInv, DriverTypes, Written, Moved
  <2>3. faults \in Nat /\ faults' = faults + 1  BY <1>3 DEF DriverInv, DriverTypes
  <2>4. out' \in [step : BOOLEAN, opens : BOOLEAN] /\ ~out'.step /\ kind = "pcf8574"  BY <1>3
  <2> QED BY <2>1, <2>2, <2>3, <2>4
<1> QED BY <1>1, <1>2, <1>3 DEF Steps

LEMMA StepFailsPay ==
  ASSUME DriverInv, NEW opens \in BOOLEAN, StepFails(opens)
  PROVE /\ faults' = faults + 1 /\ kind = "pcf8574" /\ chip' = chip /\ valve' = valve
        /\ out' \in [step : BOOLEAN, opens : BOOLEAN]
        /\ Debt' \in 0..2
  BY DEF StepFails, DriverInv, DriverTypes, Debt

LEMMA HomingStepInv ==
  ASSUME DriverInv, Stepper, HomingStep, timer' = 0
  PROVE DriverInv'
<1> USE Facts
<1>0. Flags'  BY DEF DriverInv, Flags, HomingStep
<1>1. CASE Steps(FALSE) /\ homing' = homing - 1
  <2>0. /\ DriverTypes /\ homing > 0 /\ Closing
        /\ UNCHANGED <<kind, saved, pos, target, calibrated, fast, unsaved, sure>>
    BY <1>1 DEF HomingStep, DriverInv, DriverTypes, Closing
  <2>s. /\ valve' \in 0..Max /\ faults' \in Nat /\ chip' \in BOOLEAN
        /\ out' \in [step : BOOLEAN, opens : BOOLEAN]
        /\ kind # "pcf8574" => ~out'.step /\ ~chip' /\ faults' = 0
        /\ faults' >= faults
        /\ chip => valve' = valve
        /\ ~chip => valve' = Moved(valve, FALSE)
        /\ Debt' + 2 * faults <= 2 * faults'
        /\ ~out'.step
    BY <1>1, StepsPay
  <2>1. DriverTypes'  BY <1>1, <2>0, <2>s DEF DriverTypes
  <2>2. KindsApart'  BY <1>1, <2>0, <2>s DEF DriverInv, KindsApart, Stepper
  <2>3. Level <= homing + 2 * faults /\ ~sure  BY <2>0 DEF DriverInv, GapPaid
  <2>4. Owed(valve', Level', Debt') /\ Debt' # 2
    <3>1. Debt' # 2  BY <2>s DEF Debt
    <3> QED BY <3>1, <2>0, <2>1, DebtLevel DEF DriverTypes
  <2>5. IF chip THEN valve' <= Level - 1 ELSE valve' = 0 \/ valve' <= Level - 1
    BY <2>0, <2>s DEF Level, Moved, DriverTypes
  <2>6. Level' <= homing' + 2 * faults'
    <3>1. Level \in Int /\ homing \in Int /\ homing > 0 /\ homing' = homing - 1
      BY <2>0, <1>1 DEF Level, Moved, DriverTypes
    <3>2. /\ faults \in Nat /\ faults' \in Nat /\ valve' \in Nat
          /\ Debt' + 2 * faults <= 2 * faults'
      BY <2>0, <2>s DEF DriverTypes
    <3>3. valve' = 0 \/ valve' <= Level - 1  BY <2>5
    <3>4. Level <= homing + 2 * faults  BY <2>3
    <3> QED BY <2>4, <3>1, <3>2, <3>3, <3>4, OneStepLess
  <2>7. GapPaid'  BY <2>0, <2>3, <2>6 DEF GapPaid
  <2> QED BY <1>0, <2>1, <2>2, <2>7 DEF DriverInv
<1>2. CASE StepFails(FALSE) /\ UNCHANGED homing
  <2>0. /\ DriverTypes /\ homing > 0 /\ Closing
        /\ UNCHANGED <<kind, saved, pos, target, calibrated, fast, unsaved, sure>>
    BY <1>2 DEF HomingStep, DriverInv, DriverTypes, Closing
  <2>s. /\ faults' = faults + 1 /\ kind = "pcf8574" /\ chip' = chip /\ valve' = valve
        /\ out' \in [step : BOOLEAN, opens : BOOLEAN]
    BY <1>2, StepFailsPay
  <2>1. DriverTypes'  BY <1>2, <2>0, <2>s DEF DriverTypes
  <2>2. KindsApart'  BY <1>2, <2>0, <2>s DEF DriverInv, KindsApart, Stepper
  <2>3. Level <= homing + 2 * faults /\ ~sure  BY <2>0 DEF DriverInv, GapPaid
  <2>4. Level' <= Level + 2  BY <2>s, <2>0, <2>1 DEF Level, Moved, DriverTypes
  <2>5. Level \in Int /\ Level' \in Int  BY <2>0, <2>1 DEF Level, Moved, DriverTypes
  <2>6. Level' <= homing' + 2 * faults'  BY <2>0, <2>3, <2>4, <2>5, <2>s, <1>2 DEF DriverTypes
  <2>7. GapPaid'  BY <2>0, <2>3, <2>6 DEF GapPaid
  <2> QED BY <1>0, <2>1, <2>2, <2>7 DEF DriverInv
<1> QED BY <1>1, <1>2 DEF HomingStep

LEMMA HomedInv ==
  ASSUME DriverInv, Stepper, Homed, timer' = 0,
         Closing /\ homing \in {0, 1},
         valve' \in 0..Max /\ faults' \in Nat /\ faults' >= faults /\ chip' \in BOOLEAN,
         out' \in [step : BOOLEAN, opens : BOOLEAN],
         kind # "pcf8574" => ~out'.step /\ ~chip' /\ faults' = 0,
         Level' <= 2 * faults'
  PROVE DriverInv'
<1> USE Facts
<1>0. Flags'  BY DEF DriverInv, Flags, Homed
<1>1. DriverTypes'  BY DEF DriverInv, DriverTypes, Homed
<1>2. KindsApart'  BY DEF DriverInv, KindsApart, Homed, Stepper
<1>2a. /\ Level' <= 2 * faults' /\ faults' \in Nat /\ valve' \in Nat /\ valve' <= Max
      /\ pos' = 0
  BY DEF Homed
<1>2b. Owed(valve', Level', Debt')  BY DebtLevel DEF DriverInv, DriverTypes
<1>3. Max <= 2 * faults' \/ (valve' - 0 + Debt' <= 2 * faults' /\ 0 - valve' + Debt' <= 2 * faults')
  BY <1>2a, <1>2b, HomedGap
<1>5. ~Closing'  BY DEF Homed, Closing
<1>6. GapPaid'  BY <1>2a, <1>3, <1>5 DEF GapPaid
<1> QED BY <1>0, <1>1, <1>2, <1>6 DEF DriverInv

LEMMA HomeInv ==
  ASSUME DriverInv, Stepper, Closing, Home
  PROVE DriverInv'
<1> USE Facts
<1>1. CASE Waits(Interval)
  <2>0. Flags'  BY <1>1 DEF DriverInv, Flags, Waits, wires
  <2>1. DriverTypes'  BY <1>1 DEF DriverInv, DriverTypes, Waits, wires, Due
  <2>2. KindsApart'  BY <1>1 DEF DriverInv, KindsApart, Waits, wires, Stepper
  <2>3. GapPaid'
    BY <1>1 DEF DriverInv, GapPaid, Waits, wires, Closing, Level, Debt, Moved
  <2> QED BY <2>0, <2>1, <2>2, <2>3 DEF DriverInv
<1>2. CASE HomingStep /\ timer' = 0
  BY <1>2, HomingStepInv
<1>3. CASE kind = "gpio" /\ homing = 1 /\ Steps(FALSE) /\ Homed /\ timer' = 0
  <2>1. /\ valve' \in 0..Max /\ faults' \in Nat /\ chip' \in BOOLEAN
        /\ out' \in [step : BOOLEAN, opens : BOOLEAN]
        /\ kind # "pcf8574" => ~out'.step /\ ~chip' /\ faults' = 0
        /\ faults' >= faults
        /\ ~chip => valve' = Moved(valve, FALSE)
    BY <1>3, StepsPay
  <2>2. ~chip /\ ~out.step /\ faults = 0  BY <1>3 DEF DriverInv, KindsApart
  <2>3. valve \in Nat /\ valve <= 1
    BY <1>3, <2>2 DEF DriverInv, DriverTypes, GapPaid, Level
  <2>4. valve' = 0 /\ ~chip' /\ ~out'.step /\ faults' = 0
    BY <2>1, <2>2, <2>3, <1>3 DEF Moved
  <2>5. Level' <= 2 * faults'  BY <2>4 DEF Level
  <2> QED BY <1>3, <2>1, <2>5, HomedInv
<1>4. CASE homing = 0 /\ Homed /\ UNCHANGED <<out, chip, valve, faults>> /\ timer' = 0
  <2>1. Level' = Level  BY <1>4 DEF Level, Moved
  <2>2. Level <= 2 * faults
    BY <1>4 DEF DriverInv, DriverTypes, GapPaid, Level, Moved
  <2> QED BY <1>4, <2>1, <2>2, HomedInv DEF DriverInv, DriverTypes, KindsApart
<1> QED BY <1>1, <1>2, <1>3, <1>4 DEF Home

LEMMA SettleInv ==
  ASSUME DriverInv, Stepper, ~Closing, Settle
  PROVE DriverInv'
<1> USE Facts
<1>0. Flags'  BY DEF DriverInv, Flags, Settle, wires
<1>1. DriverTypes'  BY DEF DriverInv, DriverTypes, Settle, wires
<1>2. KindsApart'  BY DEF DriverInv, KindsApart, Settle, wires, Stepper
<1>3. GapPaid'  BY DEF DriverInv, GapPaid, Settle, wires, Closing, Debt
<1> QED BY <1>0, <1>1, <1>2, <1>3 DEF DriverInv

LEMMA PulseInv ==
  ASSUME DriverInv, kind = "akv", Pulse
  PROVE DriverInv'
<1> USE Facts
<1>0. Flags'  BY DEF DriverInv, Flags, Pulse
<1>1. DriverTypes'  BY DEF DriverInv, DriverTypes, KindsApart, Pulse
<1>2. KindsApart'  BY DEF DriverInv, KindsApart, Pulse, Stepper
<1>3. GapPaid'  BY <1>2 DEF DriverInv, KindsApart, Pulse, GapPaid, Closing, Stepper
<1> QED BY <1>0, <1>1, <1>2, <1>3 DEF DriverInv

\* The sum for a step towards the target, from position p to q, with the valve
\* going from v to w: it goes along, or a STEP that was high had paid for it.
Along(v, w, p, q, d) ==
  \/ q = p + 1 /\ (w = v + 1 \/ (w = v /\ v = Max))
  \/ q = p - 1 /\ (w = v - 1 \/ (w = v /\ v = 0))
  \/ q \in {p + 1, p - 1} /\ w = v /\ d >= 1

LEMMA GoesAlong ==
  ASSUME NEW v \in 0..Max, NEW w \in 0..Max, NEW p \in 0..Max, NEW q \in 0..Max,
         NEW d \in Nat, NEW e \in Nat, NEW f \in Nat, NEW g \in Nat,
         Along(v, w, p, q, d), e + 2 * f <= 2 * g,
         Max <= 2 * f \/ (v - p + d <= 2 * f /\ p - v + d <= 2 * f)
  PROVE Max <= 2 * g \/ (w - q + e <= 2 * g /\ q - w + e <= 2 * g)
  BY Facts DEF Along

\* The sum for a step that is not made.
LEMMA StaysPut ==
  ASSUME NEW v \in 0..Max, NEW p \in 0..Max, NEW d \in Nat, NEW e \in 0..2,
         NEW f \in Nat, NEW g \in Nat, g = f + 1,
         Max <= 2 * f \/ (v - p + d <= 2 * f /\ p - v + d <= 2 * f)
  PROVE Max <= 2 * g \/ (v - p + e <= 2 * g /\ p - v + e <= 2 * g)
  BY Facts

LEMMA AdvanceInv ==
  ASSUME DriverInv, Stepper, ~Closing, pos # target, Advance
  PROVE DriverInv'
<1> USE Facts
<1> DEFINE opens == target > pos
           interval == IF fast THEN 1 ELSE Interval
<1>o. opens \in BOOLEAN  OBVIOUS
<1>d. Debt \in Nat  BY DEF Debt
<1>i. interval \in Nat /\ interval >= 1 /\ interval <= Interval  OBVIOUS
<1>t. ASSUME Due(interval), timer' = timer + 1 - interval  PROVE timer' \in 0..Interval
  BY <1>t, <1>i DEF Due, DriverInv, DriverTypes
<1>1. CASE Waits(interval)
  <2>0. Flags'  BY <1>1 DEF DriverInv, Flags, Waits, wires
  <2>t. timer' \in 0..Interval  BY <1>1, <1>i DEF DriverInv, DriverTypes, Waits, Due
  <2>1. DriverTypes'  BY <1>1, <2>t DEF DriverInv, DriverTypes, Waits, wires
  <2>2. KindsApart'  BY <1>1 DEF DriverInv, KindsApart, Waits, wires, Stepper
  <2>3. GapPaid'
    BY <1>1 DEF DriverInv, GapPaid, Waits, wires, Closing, Level, Debt, Moved
  <2> QED BY <2>0, <2>1, <2>2, <2>3 DEF DriverInv
<1>2. CASE /\ Due(interval) /\ timer' = timer + 1 - interval
           /\ Steps(opens)
           /\ pos' = IF opens THEN pos + 1 ELSE pos - 1
           /\ fast' = (fast /\ pos' # target)
           /\ unsaved' = IF pos' = target THEN 1 ELSE unsaved
           /\ UNCHANGED <<kind, saved, target, calibrated, homing, sure>>
  <2>s. /\ valve' \in 0..Max /\ faults' \in Nat /\ chip' \in BOOLEAN
        /\ out' \in [step : BOOLEAN, opens : BOOLEAN]
        /\ kind # "pcf8574" => ~out'.step /\ ~chip' /\ faults' = 0
        /\ chip => valve' = valve
        /\ ~chip => valve' = Moved(valve, opens)
        /\ Debt' + 2 * faults <= 2 * faults'
    BY <1>2, <1>o, StepsPay
  <2>p. pos' \in 0..Max /\ (pos' = IF opens THEN pos + 1 ELSE pos - 1)
    BY <1>2 DEF DriverInv, DriverTypes
  <2>0. Flags'  BY <1>2 DEF DriverInv, Flags
  <2>1. DriverTypes'  BY <1>2, <1>t, <2>s, <2>p DEF DriverInv, DriverTypes
  <2>2. KindsApart'  BY <1>2, <2>s DEF DriverInv, KindsApart, Stepper
  <2>3. ~Closing'  BY <1>2 DEF Closing
  <2>4. ASSUME sure
        PROVE \/ Max <= 2 * faults'
              \/ valve' - pos' + Debt' <= 2 * faults' /\ pos' - valve' + Debt' <= 2 * faults'
    <3>1. Max <= 2 * faults \/ (valve - pos + Debt <= 2 * faults /\ pos - valve + Debt <= 2 * faults)
      BY <2>4 DEF DriverInv, GapPaid, Stepper
    <3>2. /\ valve \in 0..Max /\ pos \in 0..Max /\ faults \in Nat /\ Debt' \in Nat
      BY DEF DriverInv, DriverTypes, Debt
    <3>3. Along(valve, valve', pos, pos', Debt)
      <4>1. CASE chip  BY <4>1, <2>s, <2>p DEF Debt, Along
      <4>2. CASE ~chip /\ opens  BY <4>2, <2>s, <2>p, <3>2 DEF Moved, Along
      <4>3. CASE ~chip /\ ~opens  BY <4>3, <2>s, <2>p, <3>2 DEF Moved, Along
      <4> QED BY <4>1, <4>2, <4>3
    <3>4. /\ valve' \in 0..Max /\ pos' \in 0..Max /\ faults' \in Nat
          /\ Debt' + 2 * faults <= 2 * faults'
      BY <2>s, <2>p
    <3> HIDE DEF opens, interval
    <3> QED BY <1>d, <3>1, <3>2, <3>3, <3>4, GoesAlong
  <2>5. GapPaid'  BY <1>2, <2>3, <2>4 DEF GapPaid
  <2> QED BY <2>0, <2>1, <2>2, <2>5 DEF DriverInv
<1>3. CASE /\ Due(interval) /\ timer' = timer + 1 - interval
           /\ StepFails(opens)
           /\ UNCHANGED <<kind, saved, pos, target, calibrated, fast, homing, unsaved, sure>>
  <2>s. /\ faults' = faults + 1 /\ kind = "pcf8574" /\ chip' = chip /\ valve' = valve
        /\ out' \in [step : BOOLEAN, opens : BOOLEAN] /\ Debt' \in 0..2
    BY <1>3, <1>o, StepFailsPay
  <2>0. Flags'  BY <1>3 DEF DriverInv, Flags
  <2>1. DriverTypes'  BY <1>3, <1>t, <2>s DEF DriverInv, DriverTypes
  <2>2. KindsApart'  BY <1>3, <2>s DEF DriverInv, KindsApart, Stepper
  <2>3. ~Closing'  BY <1>3 DEF Closing
  <2>4. ASSUME sure
        PROVE \/ Max <= 2 * faults'
              \/ valve' - pos' + Debt' <= 2 * faults' /\ pos' - valve' + Debt' <= 2 * faults'
    <3>1. Max <= 2 * faults \/ (valve - pos + Debt <= 2 * faults /\ pos - valve + Debt <= 2 * faults)
      BY <2>4 DEF DriverInv, GapPaid, Stepper
    <3>2. valve \in 0..Max /\ pos \in 0..Max /\ faults \in Nat /\ faults' \in Nat
      BY <2>1 DEF DriverInv, DriverTypes
    <3>3. \/ Max <= 2 * faults'
          \/ valve - pos + Debt' <= 2 * faults' /\ pos - valve + Debt' <= 2 * faults'
      BY <1>d, <2>s, <3>1, <3>2, StaysPut
    <3>4. valve' = valve /\ pos' = pos  BY <1>3, <2>s
    <3> QED BY <3>3, <3>4
  <2>5. GapPaid'  BY <1>3, <2>3, <2>4 DEF GapPaid
  <2> QED BY <2>0, <2>1, <2>2, <2>5 DEF DriverInv
<1> QED BY <1>1, <1>2, <1>3 DEF Advance

LEMMA UpdateInv ==
  ASSUME DriverInv, Update
  PROVE DriverInv'
<1>1. CASE UNCHANGED driver
  BY <1>1, Facts DEF DriverInv, Flags, DriverTypes, KindsApart, GapPaid, driver, memory, wires, Stepper,
                     Closing, Level, Debt, Moved
<1> QED BY <1>1, HomeInv, SettleInv, AdvanceInv, PulseInv DEF Update

LEMMA DriverInitInv ==
  ASSUME DriverInit
  PROVE DriverInv
<1> USE Facts
<1>0. Flags  BY DEF DriverInit, Flags
<1>1. DriverTypes
  <2>1. valve \in 0..Max /\ homing \in -1..Max + Extra  BY DEF DriverInit
  <2>2. out \in [step : BOOLEAN, opens : BOOLEAN] /\ chip \in BOOLEAN  BY DEF DriverInit
  <2>3. kind \in Kinds /\ saved \in 0..Max \cup {None}  BY DEF DriverInit
  <2>4. /\ pos \in 0..Max /\ target \in 0..Max /\ timer \in 0..Interval /\ unsaved \in Nat
        /\ faults \in Nat
    BY DEF DriverInit
  <2> QED BY <2>1, <2>2, <2>3, <2>4 DEF DriverTypes
<1>2. KindsApart  BY DEF DriverInit, KindsApart, Stepper
<1>3. GapPaid
  <2>1. ~Closing  BY DEF DriverInit, Closing
  <2>2. ASSUME sure, kind # "akv"
        PROVE valve - pos + Debt <= 2 * faults /\ pos - valve + Debt <= 2 * faults
    <3>1. ~Stepper  BY <2>2 DEF DriverInit
    <3>2. valve = 0 /\ pos = 0 /\ faults = 0  BY <3>1 DEF DriverInit
    <3>3. Debt = 0  BY DEF DriverInit, Debt
    <3> QED BY <3>2, <3>3
  <2> QED BY <2>1, <2>2 DEF GapPaid
<1> QED BY <1>0, <1>1, <1>2, <1>3 DEF DriverInv

-----------------------------------------------------------------------------
(* The controller                                                          *)

LEMMA Percents ==
  /\ Full \in Nat /\ Full > 0 /\ Max \in Nat
  /\ MinPos \in 0..Full /\ MaxPos \in 0..Full /\ SafePos \in 0..Full /\ StartupPos \in 0..Full
  /\ MinPos <= MaxPos
  /\ StartupWait \in Nat /\ Exercise \in Nat /\ Horizon \in Nat
  BY EevConstants, ValveConstants DEF Horizon

LEMMA EnterKeeps ==
  ASSUME ControllerTypes, NEW s \in States, Enter(s)
  PROVE ControllerTypes'
  BY Percents DEF ControllerTypes, Enter, States

LEMMA LaterRange ==
  ASSUME ControllerTypes
  PROVE Later(clock) \in 0..Horizon
  BY Percents DEF ControllerTypes, Later

LEMMA StayKeeps ==
  ASSUME ControllerTypes, NEW p \in 0..Full, Stay(p)
  PROVE ControllerTypes'
  BY LaterRange, Percents DEF ControllerTypes, Stay

\* on_update, in whichever state it is: the valve's position stays a percentage.
LEMMA ControlKeeps ==
  ASSUME ControllerTypes, Control
  PROVE ControllerTypes'
<1> USE Percents
<1>1. PICK sh \in Superheats, d \in BOOLEAN :
        CASE state = "idle" -> FromIdle(sh, d)
          [] state = "startup" -> FromStartup(sh, d)
          [] state = "running" -> FromRunning(sh, d)
          [] state = "low_sh" -> FromLowSh(sh, d)
          [] state = "defrost" -> FromDefrost(sh, d)
          [] state = "fault" -> FromFault(sh, d)
          [] state = "exercise" -> FromExercise(sh, d)
  BY DEF Control
<1>2. percent \in 0..Full  BY DEF ControllerTypes
<1>3. FromIdle(sh, d) => ControllerTypes'
  BY <1>2, EnterKeeps, StayKeeps DEF FromIdle, States
<1>4. Interrupted(sh, d) => ControllerTypes'
  BY EnterKeeps DEF Interrupted, States
<1>5. FromStartup(sh, d) => ControllerTypes'
  <2> DEFINE p == IF sh \in {"sub", "low"} /\ percent > MinPos THEN percent - 1 ELSE percent
  <2>1. p \in 0..Full  BY <1>2
  <2>2. CASE Interrupted(sh, d)  BY <1>4, <2>2
  <2>3. CASE Stay(p)  BY <2>1, <2>3, StayKeeps
  <2>4. CASE clock' = 0 /\ percent' = p /\ state' = "running"  BY <2>1, <2>4 DEF ControllerTypes, States
  <2> QED BY <2>2, <2>3, <2>4 DEF FromStartup
<1>6. FromRunning(sh, d) => ControllerTypes'
  <2>1. ASSUME NEW p \in {percent} \cup MinPos..MaxPos, Stay(p)  PROVE ControllerTypes'
    <3>1. p \in 0..Full  BY <1>2
    <3> QED BY <3>1, <2>1, StayKeeps
  <2> QED BY <1>4, <2>1, EnterKeeps DEF FromRunning, States
<1>7. FromLowSh(sh, d) => ControllerTypes'
  <2>1. ASSUME NEW p \in {percent, Clipped(IF percent > 0 THEN percent - 1 ELSE 0)}, Subcooled(sh, p),
               \/ state' = "running" /\ clock' = 0
               \/ clock' = Later(clock) /\ UNCHANGED state
        PROVE ControllerTypes'
    <3>1. p \in 0..Full  BY <1>2 DEF Clipped
    <3>2. percent' \in 0..Full  BY <2>1, <3>1 DEF Subcooled
    <3>3. clock' \in 0..Horizon  BY <2>1, LaterRange
    <3>4. state' \in States  BY <2>1 DEF ControllerTypes, States
    <3> QED BY <3>2, <3>3, <3>4 DEF ControllerTypes
  <2> QED BY <2>1, EnterKeeps DEF FromLowSh, States
<1>8. FromDefrost(sh, d) => ControllerTypes'
  BY <1>2, EnterKeeps, StayKeeps DEF FromDefrost, States
<1>9. FromFault(sh, d) => ControllerTypes'
  BY <1>2, EnterKeeps, StayKeeps DEF FromFault, States
<1>10. FromExercise(sh, d) => ControllerTypes'
  <2>1. 0 \in 0..Full  OBVIOUS
  <2> QED BY <1>2, <2>1, EnterKeeps, StayKeeps DEF FromExercise, States
<1>11. state \in States  BY DEF ControllerTypes
<1> QED BY <1>1, <1>3, <1>5, <1>6, <1>7, <1>8, <1>9, <1>10, <1>11 DEF States

-----------------------------------------------------------------------------
(* The invariant holds in every reachable state                            *)

LEMMA DriverStays ==
  ASSUME DriverInv, UNCHANGED driver
  PROVE DriverInv'
  BY Facts DEF DriverInv, Flags, DriverTypes, KindsApart, GapPaid, driver, memory, wires, Stepper, Closing,
               Level, Debt, Moved

LEMMA InitInv == Init => IInv
<1> SUFFICES ASSUME Init  PROVE IInv
  OBVIOUS
<1>1. DriverInv  BY DriverInitInv DEF Init
<1>2. ControllerTypes  BY Percents DEF Init, ControllerTypes, States
<1> QED BY <1>1, <1>2 DEF IInv

\* What apply_outputs asks of the valve is a position it has.
LEMMA ValveInv ==
  ASSUME IInv, Valve
  PROVE DriverInv'
<1>1. (IF comp' THEN Position(percent) ELSE 0) \in 0..Max
  BY PositionRange, Facts DEF IInv, ControllerTypes
<1> QED BY <1>1, SetPositionInv, EmergencyCloseInv DEF Valve, IInv

LEMMA NextInv == IInv /\ [Next]_vars => IInv'
<1> SUFFICES ASSUME IInv, [Next]_vars  PROVE IInv'
  OBVIOUS
<1> USE DEF IInv
<1>k. UNCHANGED <<state, clock, percent>> => ControllerTypes'
  BY DEF ControllerTypes
<1>1. CASE Drivers
  BY <1>1, <1>k, UpdateInv DEF Drivers, module
<1>2. CASE Equip
  BY <1>2, <1>k, ValveInv DEF Equip
<1>3. CASE Control
  BY <1>3, ControlKeeps, DriverStays DEF Control
<1>4. CASE EquipmentStops
  BY <1>4, <1>k, EmergencyCloseInv DEF EquipmentStops, module
<1>5. CASE Installer
  BY <1>5, <1>k, CalibrateInv DEF Installer, module
<1>6. CASE Relay
  BY <1>6, <1>k, OtherWriteInv DEF Relay, module
<1>7. CASE PowerLoss
  <2>1. DriverInv'  BY <1>7, DriverStartsInv DEF PowerLoss
  <2>2. ControllerTypes'  BY <1>7, Percents DEF PowerLoss, ControllerTypes, States
  <2> QED BY <2>1, <2>2
<1>8. CASE UNCHANGED vars
  BY <1>8, <1>k, DriverStays DEF vars, module
<1> QED BY <1>1, <1>2, <1>3, <1>4, <1>5, <1>6, <1>7, <1>8 DEF Next, Pass

LEMMA Reachable == Spec => []IInv
  BY InitInv, NextInv, PTL DEF Spec

\* Every variable has its type: a position is one the valve has, a request is a
\* percentage, and no timer or count leaves its range.
THEOREM TypeCorrect == Spec => []TypeOK
<1>1. IInv => TypeOK
  BY DEF IInv, DriverInv, DriverTypes, ControllerTypes, TypeOK
<1> QED BY <1>1, Reachable, PTL

\* For every valve, however many steps it has and writes fail: where it is and
\* where the driver takes it to be (current_pos_) are no further apart than two
\* steps for each write that failed since homing or the start.
THEOREM Tracking == Spec => []Tracks
<1>1. IInv => Tracks
  <2> SUFFICES ASSUME IInv, kind # "akv", sure
               PROVE valve - pos <= 2 * faults /\ pos - valve <= 2 * faults
    BY DEF Tracks
  <2>1. /\ Max \in Nat /\ valve \in 0..Max /\ pos \in 0..Max /\ faults \in Nat
        /\ Debt \in Nat
    BY Facts DEF IInv, DriverInv, DriverTypes, Debt
  <2>2. \/ Max <= 2 * faults
        \/ valve - pos + Debt <= 2 * faults /\ pos - valve + Debt <= 2 * faults
    BY DEF IInv, DriverInv, GapPaid
  <2> QED BY <2>1, <2>2
<1> QED BY <1>1, Reachable, PTL

-----------------------------------------------------------------------------
(* Every driver implements the promise                                     *)

LEMMA Promises ==
  ASSUME IInv, [Next]_vars
  PROVE [Promised!Next]_(Promised!vars)
<1> USE Facts DEF Promised!vars, Promised!Positions
<1>1. /\ pos \in 0..Max /\ target \in 0..Max /\ calibrated \in BOOLEAN
      /\ ~Stepper => calibrated
  BY DEF IInv, DriverInv, Flags, DriverTypes, KindsApart
<1>c. EmergencyClose => Promised!EmergencyClose
  BY DEF EmergencyClose, Promised!EmergencyClose
<1>g. ASSUME NEW p \in 0..Max, SetPosition(p)
      PROVE Promised!SetPosition \/ UNCHANGED Promised!vars
  <2>1. CASE UNCHANGED driver
    BY <2>1 DEF driver, memory
  <2>2. CASE ~UNCHANGED driver
    BY <1>g, <2>2, <1>1 DEF SetPosition, Promised!SetPosition
  <2> QED BY <2>1, <2>2
<1>u. Update => Promised!Homed \/ Promised!Move \/ UNCHANGED Promised!vars
  <2>1. Home => Promised!Homed \/ UNCHANGED Promised!vars
    BY DEF Home, HomingStep, Homed, Waits, Promised!Homed
  <2>2. Settle => UNCHANGED Promised!vars
    BY DEF Settle
  <2>3. pos # target /\ Advance => Promised!Move \/ UNCHANGED Promised!vars
    BY DEF Advance, Waits, Promised!Move
  <2>4. Pulse => UNCHANGED Promised!vars
    BY DEF Pulse
  <2>5. UNCHANGED driver => UNCHANGED Promised!vars
    BY DEF driver, memory
  <2> QED BY <2>1, <2>2, <2>3, <2>4, <2>5 DEF Update
<1>2. CASE Drivers
  BY <1>2, <1>u DEF Drivers, Promised!Next
<1>3. CASE Equip
  <2>1. (IF comp' THEN Position(percent) ELSE 0) \in 0..Max
    BY PositionRange DEF IInv, ControllerTypes
  <2> QED BY <1>3, <1>c, <1>g, <2>1 DEF Equip, Valve, Promised!Next
<1>4. CASE Control
  BY <1>4 DEF Control, driver, memory
<1>5. CASE EquipmentStops
  BY <1>5, <1>c DEF EquipmentStops, Promised!Next
<1>6. CASE Installer
  BY <1>6 DEF Installer, Calibrate
<1>7. CASE Relay
  BY <1>7 DEF Relay, OtherWrite, memory
<1>8. CASE PowerLoss
  <2>1. pos' \in 0..Max /\ target' = pos'
    BY <1>8 DEF PowerLoss, DriverStarts, IInv, DriverInv, DriverTypes
  <2>2. calibrated' \in BOOLEAN  BY <1>8 DEF PowerLoss, DriverStarts
  <2> QED BY <2>1, <2>2 DEF Promised!PowerLoss, Promised!Next
<1>9. CASE UNCHANGED vars
  BY <1>9 DEF vars, driver, memory
<1> QED BY <1>2, <1>3, <1>4, <1>5, <1>6, <1>7, <1>8, <1>9 DEF Next, Pass

\* The safety part of the promise of IValveDriver: whichever driver the valve
\* has, its position changes only step by step towards the one it was given, at
\* once to the one it is given, or to closed when homing ends.
THEOREM Implements == Spec => Promised!Safely
<1>1. Init => Promised!Init
  BY Facts DEF Init, DriverInit, Promised!Init, Promised!Positions
<1>2. IInv /\ [Next]_vars => [Promised!Next]_(Promised!vars)
  BY Promises
<1> QED BY <1>1, <1>2, Reachable, PTL DEF Spec, Promised!Safely
================================================================================
