-------------------------------- MODULE Defrost --------------------------------
(***************************************************************************)
(* The defrost cycle of one zone (modules/defrost): when a cycle starts,   *)
(* its phases, what each requests from the Equipment Manager, and what     *)
(* aborts it.                                                              *)
(*                                                                         *)
(* One Update is one main loop cycle, one tick of every timer.  Inputs and *)
(* settings are one record, a member of Readings; a temperature is a       *)
(* natural number on the scale of the thresholds.  The cycle counters that *)
(* are only displayed, and req.eev_close, which no module reads, are left  *)
(* out.  The interval timer stops where its last comparison is decided.    *)
(***************************************************************************)
EXTENDS Integers

CONSTANTS
  Interval,       \* dit: the interval between defrosts in ticks
  PumpDown,       \* pump_down_time
  Stabilize,      \* stabilize_time
  ValveDelay,     \* valve_delay
  MinActive,      \* MIN_ACTIVE_CHECK_MS
  MaxDuration,    \* max_duration
  PowerDuration,  \* power_duration_delta
  EqualizeTime,   \* equalize_time
  DripTime,       \* drip_time
  FanDelay,       \* fan_delay
  RunningTime,    \* running_time
  IcedTime,       \* delta_t_time
  DemandTemp,     \* demand_temp
  RunningTemp,    \* running_time_temp
  FadTemp,        \* fad_temp
  EndTemp,        \* end_temp
  PowerTemp,      \* power_end_temp_delta
  ShortDefrost,   \* skip_threshold percent of max_duration, in ticks
  Warmup,         \* finished cycles before skipping begins (7)
  MaxSkip,        \* cycles skipped in a row at most (3)
  AlarmAfter,     \* consecutive timeouts that raise heater_alarm (3)
  Readings        \* what an update reads: inputs and settings

Limits == {PumpDown, Stabilize, ValveDelay, MaxDuration + PowerDuration,
           EqualizeTime, DripTime, FanDelay}

ASSUME DefrostConstants ==
  /\ Interval \in Nat \ {0} /\ MaxDuration \in Nat \ {0} /\ PowerDuration \in Nat
  /\ Limits \subseteq Nat /\ MinActive \in Nat
  /\ RunningTime \in Nat /\ IcedTime \in Nat
  /\ DemandTemp \in Nat /\ RunningTemp \in Nat /\ FadTemp \in Nat
  /\ EndTemp \in Nat /\ PowerTemp \in Nat /\ ShortDefrost \in 0..MaxDuration
  /\ Warmup \in Nat /\ MaxSkip \in Nat /\ AlarmAfter \in Nat \ {0}

\* type 0 natural, 1 electric, 2 hot gas; initiation 0 timer, 1 demand, 2 both,
\* 3 disabled, 4 running time, 5 temperature difference; counter 1 real time,
\* 2 compressor time; termination 0 by temperature, 1 by time.  iced: air and
\* evaporator differ by more than delta_t_threshold; warm: the cabinet is
\* warmer than early_term_temp, and early termination is enabled.
ReadingType ==
  [evap : Nat, evapOk : BOOLEAN, airOk : BOOLEAN, iced : BOOLEAN, warm : BOOLEAN,
   compressor : BOOLEAN, lockout : BOOLEAN, blocked : BOOLEAN, night : BOOLEAN,
   hasRelay : BOOLEAN, multiZone : BOOLEAN, type : 0..2, initiation : 0..5,
   counter : 1..2, termination : 0..1, skip : BOOLEAN]

ASSUME DefrostReadings == Readings \subseteq ReadingType

Phases == {"idle", "pump_down", "stabilize", "valve_open", "active", "equalize",
           "drip", "fad"}

VARIABLES
  phase,        \* phase_
  timer,        \* phase_timer_ms_
  type,         \* active_defrost_type_: cached for the whole cycle
  maxDur,       \* effective_max_dur_ms_
  endTemp,      \* effective_end_temp_
  interval,     \* interval_timer_ms_
  published,    \* key interval_timer: what is left of the interval
  running,      \* running_time_counter_ms_
  iced,         \* delta_t_counter_ms_
  req,          \* the requests to the Equipment Manager
  active,       \* key active
  manualStart,  \* key manual_start, a one-shot of the user
  manualStop,   \* key manual_stop, a one-shot of the user
  skip,         \* warmup_count_, skip_counter_, skip_remaining_
  timeouts,     \* consecutive_timeouts_
  alarm,        \* key heater_alarm
  hist          \* history, see HistoryType

counters == <<interval, running, iced>>
result == <<skip, timeouts, alarm>>
cycle == <<type, maxDur, endTemp>>
vars == <<phase, timer, cycle, counters, published, req, active,
          manualStart, manualStop, result, hist>>

AtMost(n, cap) == IF n > cap THEN cap ELSE n

\* The longest cycle: every phase takes its time, or one tick.
AtLeastOne(n) == IF n = 0 THEN 1 ELSE n

MaxCycle ==
  PumpDown + AtLeastOne(Stabilize) + AtLeastOne(ValveDelay)
    + MaxDuration + PowerDuration
    + AtLeastOne(EqualizeTime) + AtLeastOne(DripTime) + FanDelay

Rest == EqualizeTime + DripTime

\* comp: ticks the compressor has been requested; quiet: ticks neither it nor
\* the relay has; cycle: ticks of this cycle; skipped: triggers the skip counter
\* has suppressed in a row; whole: no restart since this cycle began; plain: the
\* last step was an update that PlainReading describes; beat flips at every
\* update, so that none is a stutter.
HistoryType ==
  [comp : 0..Stabilize, quiet : 0..Rest, cycle : 0..(MaxCycle + 1),
   skipped : 0..(MaxSkip + 1), whole : BOOLEAN, plain : BOOLEAN, beat : BOOLEAN]

-----------------------------------------------------------------------------
(* Phases                                                                  *)

Request(c, r, f) == [compressor |-> c, relay |-> r, condFan |-> f]

Nothing == Request(FALSE, FALSE, FALSE)

\* What a phase requests; the evaporator fan is never requested.
Requests(p, t) ==
  CASE p = "pump_down" -> Request(TRUE, FALSE, FALSE)
    [] p \in {"stabilize", "fad"} -> Request(TRUE, FALSE, TRUE)
    [] p = "valve_open" -> Request(TRUE, TRUE, TRUE)
    [] p = "active" /\ t = 1 -> Request(FALSE, TRUE, FALSE)
    [] p = "active" /\ t = 2 -> Request(TRUE, TRUE, FALSE)
    [] OTHER -> Nothing

\* enter_phase
EnterPhase(p) ==
  /\ phase' = p
  /\ timer' = 0
  /\ active' = (p # "idle")
  /\ req' = Requests(p, type')

\* finish_defrost
Finish == EnterPhase("idle")

StayInPhase ==
  /\ timer' = timer + 1
  /\ UNCHANGED <<phase, active, req>>

\* A phase that lasts for its time.
Wait(time, next) ==
  IF timer + 1 >= time THEN EnterPhase(next) ELSE StayInPhase

-----------------------------------------------------------------------------
(* IDLE: when a cycle starts                                               *)

\* The relay is missing: natural.  Natural with several zones would stop the
\* compressor of all of them: electric, if there is a relay.
StartType(in) ==
  IF in.type # 0 /\ ~in.hasRelay THEN 0
  ELSE IF in.type = 0 /\ in.multiZone /\ in.hasRelay THEN 1
  ELSE in.type

\* Mutant of Start: hot gas flows at once.
StartAtActive(in) ==
  /\ type' = StartType(in)
  /\ interval' = 0
  /\ maxDur' = MaxDuration /\ endTemp' = EndTemp
  /\ EnterPhase("active")

\* start_defrost.  Natural with several zones and no relay: no cycle.
Start(in) ==
  /\ type' = StartType(in)
  /\ interval' = 0
  /\ IF type' = 0 /\ in.multiZone
     THEN UNCHANGED <<phase, timer, active, req, maxDur, endTemp>>
     ELSE /\ maxDur' = MaxDuration + IF in.night THEN PowerDuration ELSE 0
          /\ endTemp' = EndTemp + IF in.night THEN PowerTemp ELSE 0
          /\ EnterPhase(IF PumpDown > 0 THEN "pump_down"
                        ELSE IF type' = 2 THEN "stabilize" ELSE "active")

\* Mutant of Elapsed: the interval counts the compressor's time only.
ElapsedRunning(in) ==
  IF in.compressor THEN AtMost(interval + 1, Interval) ELSE interval

\* The interval timer after this tick.
Elapsed(in) ==
  IF in.counter = 1 \/ in.compressor THEN AtMost(interval + 1, Interval)
  ELSE interval

\* check_timer_trigger, check_demand_trigger
TimerTrigger(in) == in.initiation \in {0, 2} /\ Elapsed(in) >= Interval

DemandTrigger(in) ==
  /\ in.initiation \in {1, 2}
  /\ in.evapOk
  /\ Elapsed(in) >= Interval \div 4
  /\ in.evap < DemandTemp

\* The compressor has run on a cold evaporator for RunningTime.
CountsRunning(in) == in.initiation = 4 /\ RunningTime > 0

RunningCold(in) == in.compressor /\ in.evapOk /\ in.evap < RunningTemp

RunningTrigger(in) ==
  CountsRunning(in) /\ RunningCold(in) /\ running + 1 >= RunningTime

CountRunning(in) ==
  running' = IF ~CountsRunning(in) THEN running
             ELSE IF RunningTrigger(in) \/ ~RunningCold(in) THEN 0
             ELSE running + 1

\* The evaporator has been much colder than the air for IcedTime.
CountsIced(in) == in.initiation = 5 /\ IcedTime > 0 /\ in.airOk /\ in.evapOk

IcedTrigger(in) == CountsIced(in) /\ in.iced /\ iced + 1 >= IcedTime

CountIced(in) ==
  iced' = IF ~CountsIced(in) THEN iced
          ELSE IF IcedTrigger(in) \/ ~in.iced THEN 0
          ELSE iced + 1

Triggered(in) ==
  \/ TimerTrigger(in) \/ DemandTrigger(in)
  \/ RunningTrigger(in) \/ IcedTrigger(in)

\* The evaporator needs no defrost.
Clean(in) == in.termination = 0 /\ in.evapOk /\ in.evap > EndTemp

StayIdle == UNCHANGED <<phase, timer, active, req, cycle>>

IdleManual(in) ==
  /\ manualStart
  /\ Start(in)
  /\ UNCHANGED <<running, iced, result>>

IdleDisabled(in) ==
  /\ ~manualStart /\ in.initiation = 3
  /\ StayIdle
  /\ UNCHANGED <<counters, result>>

\* The counters run in every other mode.
IdleCounts(in) ==
  /\ ~manualStart /\ in.initiation # 3
  /\ CountRunning(in) /\ CountIced(in)

IdleWait(in) ==
  /\ IdleCounts(in)
  /\ ~Triggered(in)
  /\ interval' = Elapsed(in)
  /\ StayIdle /\ UNCHANGED result

IdleClean(in) ==
  /\ IdleCounts(in)
  /\ Triggered(in) /\ Clean(in)
  /\ interval' = 0
  /\ StayIdle /\ UNCHANGED result

Skips(in) == Triggered(in) /\ ~Clean(in) /\ in.skip /\ skip.remaining > 0

\* Mutant of IdleSkip: the skipped cycle is not counted.
IdleSkipUncounted(in) ==
  /\ IdleCounts(in)
  /\ Skips(in)
  /\ interval' = 0
  /\ StayIdle /\ UNCHANGED result

IdleSkip(in) ==
  /\ IdleCounts(in)
  /\ Skips(in)
  /\ skip' = [skip EXCEPT !.remaining = @ - 1]
  /\ interval' = 0
  /\ StayIdle /\ UNCHANGED <<timeouts, alarm>>

IdleStart(in) ==
  /\ IdleCounts(in)
  /\ Triggered(in) /\ ~Clean(in) /\ ~Skips(in)
  /\ Start(in)
  /\ UNCHANGED result

(* ACTIVE                                                                  *)

\* The skip algorithm: after Warmup cycles a short one adds a trigger to skip,
\* a long one skips none.
LearnSkip(in, t) ==
  LET done  == AtMost(skip.done + 1, Warmup + 1)
      again == IF t < ShortDefrost THEN AtMost(skip.counter + 1, MaxSkip) ELSE 0
  IN skip' = IF ~(in.skip /\ in.termination = 0) THEN skip
             ELSE IF done <= Warmup THEN [skip EXCEPT !.done = done]
             ELSE [done |-> done, counter |-> again, remaining |-> again]

\* Mutant of FinishActive: hot gas drips without equalizing.
FinishActiveNoEqualize(in) ==
  /\ LearnSkip(in, timer + 1)
  /\ EnterPhase("drip")

\* finish_active_phase
FinishActive(in) ==
  /\ LearnSkip(in, timer + 1)
  /\ EnterPhase(IF type = 2 THEN "equalize" ELSE "drip")

Settled == timer + 1 >= MinActive

TempReached(in) ==
  in.termination = 0 /\ Settled /\ in.evapOk /\ in.evap >= endTemp

TooWarm(in) == in.warm /\ in.airOk /\ Settled

\* Mutant of TimedOut: only a cycle that waits for a temperature times out.
TimedOutByTemp(in) == in.termination = 0 /\ timer + 1 >= maxDur

TimedOut(in) == timer + 1 >= maxDur

ActiveTemp(in) ==
  /\ TempReached(in)
  /\ timeouts' = 0 /\ alarm' = FALSE
  /\ FinishActive(in)

ActiveWarm(in) ==
  /\ ~TempReached(in) /\ TooWarm(in)
  /\ FinishActive(in)
  /\ UNCHANGED <<timeouts, alarm>>

\* By temperature a timeout is a fault, by time it is the normal end.
ActiveTimeout(in) ==
  /\ ~TempReached(in) /\ ~TooWarm(in) /\ TimedOut(in)
  /\ timeouts' = IF in.termination = 0 THEN AtMost(timeouts + 1, AlarmAfter) ELSE 0
  /\ alarm' = (alarm \/ timeouts' >= AlarmAfter)
  /\ FinishActive(in)

ActiveStay(in) ==
  /\ ~TempReached(in) /\ ~TooWarm(in) /\ ~TimedOut(in)
  /\ StayInPhase /\ UNCHANGED result

-----------------------------------------------------------------------------
(* An update                                                               *)

InPumpDown ==
  phase = "pump_down" /\ Wait(PumpDown, IF type = 2 THEN "stabilize" ELSE "active")

InStabilize == phase = "stabilize" /\ Wait(Stabilize, "valve_open")

InValveOpen == phase = "valve_open" /\ Wait(ValveDelay, "active")

InEqualize == phase = "equalize" /\ Wait(EqualizeTime, "drip")

InDrip == phase = "drip" /\ Wait(DripTime, IF FanDelay = 0 THEN "idle" ELSE "fad")

\* The evaporator is cold again, or the delay is over.
InFad(in) ==
  /\ phase = "fad"
  /\ IF in.evapOk /\ in.evap < FadTemp THEN Finish ELSE Wait(FanDelay, "idle")

Idle(in) ==
  /\ phase = "idle"
  /\ \/ IdleManual(in) \/ IdleDisabled(in) \/ IdleWait(in)
     \/ IdleClean(in) \/ IdleSkip(in) \/ IdleStart(in)

Active(in) ==
  /\ phase = "active"
  /\ ActiveTemp(in) \/ ActiveWarm(in) \/ ActiveTimeout(in) \/ ActiveStay(in)

Timed(in) ==
  \/ InPumpDown \/ InStabilize \/ InValveOpen \/ InEqualize \/ InDrip \/ InFad(in)

\* Lockout ends any cycle; hot gas needs the compressor.
Aborted(in) ==
  /\ phase # "idle"
  /\ \/ in.lockout
     \/ in.blocked /\ type = 2 /\ phase \in {"stabilize", "valve_open", "active"}

Abort(in) ==
  /\ Aborted(in)
  /\ UNCHANGED <<cycle, counters, published, manualStart, manualStop, result>>
  /\ Finish

StopManually(in) ==
  /\ ~Aborted(in) /\ manualStop /\ phase # "idle"
  /\ manualStop' = FALSE
  /\ UNCHANGED <<cycle, counters, published, manualStart, result>>
  /\ Finish

\* publish_state: the countdown to the next defrost.
Remaining(elapsed) == IF Interval > elapsed THEN Interval - elapsed ELSE 0

\* Both one-shots are consumed: a start pressed during a cycle is forgotten.
Run(in) ==
  /\ ~Aborted(in)
  /\ ~(manualStop /\ phase # "idle")
  /\ manualStop' = FALSE /\ manualStart' = FALSE
  /\ \/ Idle(in)
     \/ UNCHANGED <<cycle, counters>> /\ Active(in)
     \/ UNCHANGED <<cycle, counters, result>> /\ Timed(in)
  /\ published' = Remaining(interval')

(* Specification                                                           *)

\* Time alone starts a cycle, sooner or later: timer mode in real time, nothing
\* that aborts or suppresses a cycle but the skip counter.
PlainReading(in) ==
  /\ in.initiation \in {0, 2} /\ in.counter = 1
  /\ ~in.lockout /\ ~in.blocked /\ ~Clean(in)
  /\ ~(StartType(in) = 0 /\ in.multiZone)

Busy(r) == r.compressor \/ r.relay

Remember(in) ==
  hist' = [comp    |-> IF req.compressor /\ req'.compressor
                         THEN AtMost(hist.comp + 1, Stabilize) ELSE 0,
           quiet   |-> IF Busy(req) \/ Busy(req') THEN 0
                       ELSE AtMost(hist.quiet + 1, Rest),
           cycle   |-> IF phase' = "idle" THEN 0
                       ELSE AtMost(hist.cycle + 1, MaxCycle + 1),
           skipped |-> IF phase' # "idle" THEN 0
                       ELSE IF phase = "idle" /\ IdleSkip(in)
                         THEN AtMost(hist.skipped + 1, MaxSkip + 1)
                       ELSE hist.skipped,
           whole   |-> hist.whole \/ phase' = "idle",
           plain   |-> PlainReading(in),
           beat    |-> ~hist.beat]

\* on_update: one main loop cycle.
Update(in) ==
  /\ Abort(in) \/ StopManually(in) \/ Run(in)
  /\ Remember(in)

AnyUpdate == \E in \in Readings : Update(in)

\* The user presses start or stop.
ManualStart ==
  /\ manualStart' = TRUE
  /\ UNCHANGED <<phase, timer, cycle, counters, published, req, active,
                 manualStop, result, hist>>

ManualStop ==
  /\ manualStop' = TRUE
  /\ UNCHANGED <<phase, timer, cycle, counters, published, req, active,
                 manualStart, result, hist>>

\* restart_module, on_stop and on_init on the same object: the requests are
\* dropped, the phase is kept, and the countdown is read back as the time
\* elapsed.
Restart ==
  /\ req' = Nothing /\ active' = FALSE /\ alarm' = FALSE
  /\ interval' = published /\ published' = published
  /\ manualStart' = FALSE /\ manualStop' = FALSE
  /\ UNCHANGED <<phase, timer, cycle, running, iced, skip, timeouts>>
  /\ hist' = [hist EXCEPT !.comp = 0, !.quiet = IF Busy(req) THEN 0 ELSE @,
                          !.whole = (phase = "idle"), !.plain = FALSE]

\* Power-on.
Init ==
  /\ phase = "idle" /\ timer = 0
  /\ type = 0 /\ maxDur = MaxDuration /\ endTemp = EndTemp
  /\ interval = 0 /\ running = 0 /\ iced = 0
  /\ published = 0
  /\ req = Nothing /\ active = FALSE
  /\ manualStart = FALSE /\ manualStop = FALSE
  /\ skip = [done |-> 0, counter |-> 0, remaining |-> 0]
  /\ timeouts = 0 /\ alarm = FALSE
  /\ hist = [comp |-> 0, quiet |-> Rest, cycle |-> 0, skipped |-> 0,
             whole |-> TRUE, plain |-> FALSE, beat |-> FALSE]

Next == AnyUpdate \/ ManualStart \/ ManualStop \/ Restart

Spec == Init /\ [][Next]_vars

\* The main loop updates the module again and again.
LiveSpec == Spec /\ WF_vars(AnyUpdate)

-----------------------------------------------------------------------------
(* Properties                                                              *)

TypeOK ==
  /\ phase \in Phases /\ timer \in Nat
  /\ type \in 0..2 /\ maxDur \in Nat /\ endTemp \in Nat
  /\ interval \in 0..Interval /\ published \in 0..Interval
  /\ running \in Nat /\ iced \in Nat
  /\ req \in [compressor : BOOLEAN, relay : BOOLEAN, condFan : BOOLEAN]
  /\ active \in BOOLEAN
  /\ manualStart \in BOOLEAN /\ manualStop \in BOOLEAN
  /\ skip \in [done : 0..(Warmup + 1), counter : 0..MaxSkip, remaining : 0..MaxSkip]
  /\ timeouts \in 0..AlarmAfter /\ alarm \in BOOLEAN
  /\ hist \in HistoryType

\* The relay and the compressor together are hot gas, and the compressor has
\* been requested for the stabilization time: the pressure has settled before
\* the gas valve opens (docs/05_cooling_defrost.md:225-227).
HotGasPrepared ==
  hist.whole /\ req.relay /\ req.compressor => type = 2 /\ hist.comp >= Stabilize

\* The compressor restarts into the fan delay only when neither it nor the
\* relay has been requested for the drip time, and after hot gas for the time
\* that equalizes the pressure, whatever aborted or restarted what before.
CompressorRests ==
  [][~req.compressor /\ req'.compressor /\ phase' = "fad" =>
       hist.quiet + 1 >= DripTime + IF type = 2 THEN EqualizeTime ELSE 0]_vars

\* The skip counter suppresses no more than MaxSkip triggers between two
\* cycles, also when skipping is switched off and on (docs/05_cooling_defrost.md).
SkipBounded == hist.skipped <= MaxSkip

\* No cycle is longer than its phases, whatever settings change meanwhile and
\* however often the module restarts.
CycleBounded == hist.cycle <= MaxCycle

\* With time passing plainly from some moment on the zone is defrosted again and
\* again, whatever the skip counter had learnt and the user presses.
DefrostServed == <>[]hist.plain => []<>(phase # "idle")
=============================================================================
