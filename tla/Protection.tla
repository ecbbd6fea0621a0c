------------------------------ MODULE Protection ------------------------------
(***************************************************************************)
(* The protection module (modules/protection): its alarm monitors, the     *)
(* escalation of a compressor that never stops (forced off, then a         *)
(* permanent lockout), and the blocks the Equipment Manager obeys.         *)
(*                                                                         *)
(* One Update is one main loop cycle, one tick of every timer.  on_update  *)
(* rewrites the module's fields step by step, so they are the record pr,   *)
(* and every step is an operator from pr to pr.  Each instance of the      *)
(* module is a unit: the first zone's is primary and owns the compressor,  *)
(* the second zone's watches temperatures only.  A measured value is named *)
(* by the thresholds it has passed.  A timer stops where its last          *)
(* comparison is decided.                                                  *)
(*                                                                         *)
(* Left out: the pressure monitors, whose inputs no module publishes, and  *)
(* the keys that are only displayed (alarm flags and code, diagnostics).   *)
(***************************************************************************)
EXTENDS Naturals

CONSTANTS
  HighDelay,     \* high_alarm_delay in ticks
  LowDelay,      \* low_alarm_delay
  DoorDelay,     \* door_delay
  DoorBlock,     \* door_comp_delay
  PostDefrost,   \* post_defrost_delay
  CycleBypass,   \* cc_alarm_bypass
  HaccpDelay,    \* haccp_delay; 0 disables the HACCP alarms
  MinRun,        \* min_compressor_run
  IdleReset,     \* ten times min_compressor_run
  MaxRun,        \* max_continuous_run
  PulldownTime,  \* pulldown_timeout
  RateTime,      \* rate_duration
  ForcedOff,     \* forced_off_period
  MaxRetries,    \* max_retries
  MaxStarts,     \* max_starts_hour
  Ring,          \* CompressorTracker::MAX_STARTS
  Units          \* the instances: their features and what they may read

ASSUME ProtectionConstants ==
  /\ {HighDelay, LowDelay, DoorDelay, DoorBlock, PostDefrost, CycleBypass,
      HaccpDelay, MinRun, IdleReset, MaxRun, PulldownTime, RateTime, MaxStarts}
      \subseteq Nat
  /\ ForcedOff \in Nat \ {0} /\ MaxRetries \in Nat \ {0} /\ Ring \in Nat \ {0}

\* defrost: not active, active, active in a phase that heats; cc: a continuous
\* cycle has time remaining; cond: no sensor, a failed one, or the threshold
\* passed; iced: a defrost is wanted after a forced stop; dropped: the pulldown
\* is sufficient; rising: the smoothed rate is above its limit.
ReadingType ==
  [temp : {"low", "normal", "high"}, ok : BOOLEAN, hasEvap : BOOLEAN, ok2 : BOOLEAN,
   door : BOOLEAN, defrost : {"off", "cold", "heating"}, cc : BOOLEAN,
   comp : BOOLEAN, cond : {"none", "failed", "normal", "warm", "critical"},
   iced : BOOLEAN, dropped : BOOLEAN, rising : BOOLEAN, manual : BOOLEAN]

UnitType ==
  [primary : BOOLEAN, door : BOOLEAN, compressor : BOOLEAN, rate : BOOLEAN,
   readings : SUBSET ReadingType]

ASSUME ProtectionUnits == \A u \in Units : u \in UnitType

Monitors == {"high", "low", "sensor1", "sensor2", "door", "condenser",
             "condBlock", "short", "rapid", "continuous", "pulldown", "rate",
             "ha", "hf"}

VARIABLES
  unit,  \* which instance this is
  pr,    \* the module's fields and keys, see ProtectionType
  hist   \* history, see HistoryType

vars == <<unit, pr, hist>>

AtMost(n, cap) == IF n > cap THEN cap ELSE n

\* Where the timers of the compressor tracker stop.
AtLeast(n, floor) == IF n < floor THEN floor ELSE n
RunCap == AtLeast(AtLeast(MinRun, MaxRun), PulldownTime) + 1
OffCap == IdleReset + 1
WaitCap == HighDelay + LowDelay + DoorDelay + RateTime + HaccpDelay + 1

ProtectionType ==
  [on : [Monitors -> BOOLEAN], wait : [Monitors -> 0..WaitCap],  \* active, pending_ms
   wasDefrost : BOOLEAN, post : BOOLEAN, postTimer : 0..PostDefrost,
   ccOn : BOOLEAN, ccBypass : 0..CycleBypass,           \* cc_suppress_active_
   doorTimer : 0..DoorBlock, doorBlocked : BOOLEAN,
   hfChecked : BOOLEAN,
   comp : BOOLEAN, run : 0..RunCap, off : 0..OffCap,    \* CompressorTracker
   lastRun : 0..RunCap, shorts : 0..3, starts : 0..Ring,
   rateReady : BOOLEAN,                                 \* rate_.initialized
   forced : BOOLEAN, forcedTimer : 0..ForcedOff,
   count : 0..MaxRetries, locked : BOOLEAN,
   keyLockout : BOOLEAN, keyBlocked : BOOLEAN, keyReset : BOOLEAN,
   defrostStart : BOOLEAN]  \* this update wrote the defrost's manual_start

-----------------------------------------------------------------------------
(* Suppression                                                             *)

\* The high temperature and rate alarms sleep while a defrost heats, and for a
\* while after it has ended.
PostDefrostTimer(s, in) ==
  LET active == in.defrost # "off"
      edge   == active # s.wasDefrost
      on     == IF edge THEN ~active ELSE s.post
      timer  == (IF edge THEN 0 ELSE s.postTimer) + IF on THEN 1 ELSE 0
  IN [s EXCEPT !.wasDefrost = active,
               !.post = on /\ timer < PostDefrost,
               !.postTimer = AtMost(timer, PostDefrost)]

SuppressHigh(s, in) == in.defrost = "heating" \/ s.post

\* The low temperature alarm and the escalation sleep during a continuous cycle
\* and for CycleBypass after it.
ContinuousCycle(s, in) ==
  IF in.cc THEN [s EXCEPT !.ccOn = TRUE, !.ccBypass = 0]
  ELSE IF ~s.ccOn THEN s
  ELSE LET b == IF s.ccBypass = 0 THEN CycleBypass ELSE s.ccBypass
           left == IF b = 0 THEN 0 ELSE b - 1
       IN [s EXCEPT !.ccOn = left > 0, !.ccBypass = left]

-----------------------------------------------------------------------------
(* Alarms                                                                  *)

\* What check_reset_command looks at: not the HACCP alarms.
Resettable == Monitors \ {"ha", "hf"}

AnyAlarm(s) == s.locked \/ s.forced \/ \E m \in Resettable : s.on[m]

ClearAll(s) ==
  [s EXCEPT !.on = [m \in Monitors |-> m \notin Resettable /\ s.on[m]],
            !.wait = [m \in Monitors |-> IF m \in Resettable THEN 0 ELSE s.wait[m]],
            !.run = 0, !.shorts = 0, !.starts = 0, !.rateReady = FALSE,
            !.count = 0, !.forced = FALSE, !.forcedTimer = 0, !.locked = FALSE,
            !.keyBlocked = FALSE, !.keyLockout = FALSE]

\* check_reset_command
ResetCommand(s) ==
  IF ~s.keyReset THEN s
  ELSE [(IF AnyAlarm(s) THEN ClearAll(s) ELSE s) EXCEPT !.keyReset = FALSE]

SetAlarm(s, m, on, wait) == [s EXCEPT !.on[m] = on, !.wait[m] = wait]

\* Mutant of Delayed: suppression holds the delay instead of restarting it.
DelayedHold(s, m, asleep, bad, delay, manual) ==
  IF asleep THEN s
  ELSE IF ~bad THEN SetAlarm(s, m, s.on[m] /\ manual, 0)
  ELSE IF s.on[m] THEN s
  ELSE SetAlarm(s, m, s.wait[m] + 1 >= delay, s.wait[m] + 1)

\* An alarm raised after delay ticks in a row of a bad reading.
Delayed(s, m, asleep, bad, delay, manual) ==
  IF asleep THEN [s EXCEPT !.wait[m] = 0]
  ELSE IF ~bad THEN SetAlarm(s, m, s.on[m] /\ manual, 0)
  ELSE IF s.on[m] THEN s
  ELSE SetAlarm(s, m, s.wait[m] + 1 >= delay, s.wait[m] + 1)

\* An alarm that follows its condition, or waits for the reset.
Follow(s, m, bad, manual) == [s EXCEPT !.on[m] = bad \/ (@ /\ manual)]

HighTemp(s, in) ==
  Delayed(s, "high", SuppressHigh(s, in) \/ ~in.ok, in.temp = "high", HighDelay,
          in.manual)

LowTemp(s, in) ==
  Delayed(s, "low", s.ccOn \/ ~in.ok, in.temp = "low", LowDelay, in.manual)

\* An evaporator sensor that is not there raises nothing.
Sensors(s, in) ==
  LET s1 == Follow(s, "sensor1", ~in.ok, in.manual)
  IN IF in.hasEvap THEN Follow(s1, "sensor2", ~in.ok2, in.manual)
     ELSE [s1 EXCEPT !.on["sensor2"] = FALSE]

\* The door alarm, and the compressor block of the primary unit.
Door(s, in) ==
  IF ~unit.door THEN s
  ELSE LET a == Delayed(s, "door", FALSE, in.door, DoorDelay, in.manual)
           t == AtMost(s.doorTimer + 1, DoorBlock)
       IN IF unit.primary /\ in.door
          THEN [a EXCEPT !.doorTimer = t, !.doorBlocked = @ \/ t >= DoorBlock]
          ELSE [a EXCEPT !.doorTimer = 0, !.doorBlocked = FALSE]

\* update_condenser_alarm: the block has no way back but the reset, and a
\* sensor that fails.
Condenser(s, in) ==
  IF ~unit.primary \/ in.cond = "none" THEN s
  ELSE IF in.cond = "failed"
    THEN [s EXCEPT !.on["condenser"] = FALSE, !.on["condBlock"] = FALSE]
  ELSE [Follow(s, "condenser", in.cond \in {"warm", "critical"}, in.manual)
          EXCEPT !.on["condBlock"] = @ \/ in.cond = "critical"]

-----------------------------------------------------------------------------
(* The compressor, watched by the primary unit                             *)

Started(s, in) == in.comp /\ ~s.comp
Stopped(s, in) == ~in.comp /\ s.comp

\* Mutant of Track: a run is measured from the last stop of the compressor.
TrackKeepRun(s, in) ==
  [s EXCEPT !.comp = in.comp,
            !.run = IF in.comp THEN AtMost(@ + 1, RunCap) ELSE @,
            !.lastRun = IF Stopped(s, in) THEN s.run ELSE @,
            !.off = IF Stopped(s, in) THEN 1
                    ELSE IF in.comp THEN @ ELSE AtMost(@ + 1, OffCap)]

\* update_compressor_tracker: the transitions, then the time.  window_ms is cut
\* back to the hour before a start is stamped with it, so no stamp is ever older
\* than the cutoff of count_starts_in_window, which is 0: every start since the
\* last reset counts, up to the ring's size.
Track(s, in) ==
  LET short == IF s.run < MinRun THEN AtMost(s.shorts + 1, 3) ELSE 0
      off   == IF Stopped(s, in) THEN 1 ELSE AtMost(s.off + 1, OffCap)
  IN IF in.comp
     THEN [s EXCEPT !.comp = TRUE,
                    !.run = IF Started(s, in) THEN 1 ELSE AtMost(@ + 1, RunCap),
                    !.starts = IF Started(s, in) THEN AtMost(@ + 1, Ring) ELSE @]
     ELSE [s EXCEPT !.comp = FALSE,
                    !.off = off,
                    !.lastRun = IF Stopped(s, in) THEN s.run ELSE @,
                    !.shorts = IF off > IdleReset THEN 0
                               ELSE IF Stopped(s, in) THEN short ELSE @]

\* Short and rapid cycling.
Cycling(s, in) ==
  Follow(Follow(s, "short", s.shorts >= 3, in.manual),
         "rapid", s.starts > MaxStarts, in.manual)

\* Defrost and the continuous cycle suspend the escalation.
Guarded(s, in) == in.defrost # "off" \/ s.ccOn

\* The forced stop is over: the run is counted afresh; after MaxRetries of them
\* the lockout, otherwise a defrost when the evaporator is suspected of ice.
Release(s, in) ==
  [s EXCEPT !.forced = FALSE, !.count = s.count + 1, !.run = 0,
            !.on["continuous"] = FALSE,
            !.locked = @ \/ s.count + 1 >= MaxRetries,
            !.defrostStart = in.iced /\ s.count + 1 < MaxRetries]

\* Mutant of ForceOff: the last stop's time counts for this one.
ForceOffKeepTimer(s) == [s EXCEPT !.on["continuous"] = TRUE, !.forced = TRUE]

\* Level 1: the compressor is blocked.
ForceOff(s) ==
  [s EXCEPT !.on["continuous"] = TRUE, !.forced = TRUE, !.forcedTimer = 0]

\* The compressor stopped by itself: after a normal run the count starts over.
NormalStop(s, in) ==
  [s EXCEPT !.on["continuous"] = @ /\ in.manual,
            !.count = IF 0 < s.lastRun /\ s.lastRun < MaxRun THEN 0 ELSE @]

\* Mutant of Escalate: a blocked compressor stays blocked.
EscalateNoRelease(s, in) ==
  IF Guarded(s, in) \/ s.forced \/ s.locked THEN s
  ELSE IF in.comp /\ s.run > MaxRun THEN ForceOff(s)
  ELSE IF ~in.comp THEN NormalStop(s, in)
  ELSE s

\* Mutant of Escalate: a retry counts when it begins and when it ends.
EscalateCountTwice(s, in) ==
  IF Guarded(s, in) THEN s
  ELSE IF s.forced
    THEN IF s.forcedTimer + 1 >= ForcedOff THEN Release(s, in)
         ELSE [s EXCEPT !.forcedTimer = @ + 1]
  ELSE IF s.locked THEN s
  ELSE IF in.comp /\ s.run > MaxRun
    THEN [ForceOff(s) EXCEPT !.count = AtMost(@ + 1, MaxRetries - 1)]
  ELSE IF ~in.comp THEN NormalStop(s, in)
  ELSE s

\* The escalation of a run longer than MaxRun.
Escalate(s, in) ==
  IF Guarded(s, in) THEN s
  ELSE IF s.forced
    THEN IF s.forcedTimer + 1 >= ForcedOff THEN Release(s, in)
         ELSE [s EXCEPT !.forcedTimer = @ + 1]
  ELSE IF s.locked THEN s
  ELSE IF in.comp /\ s.run > MaxRun
    THEN IF s.on["continuous"] THEN s ELSE ForceOff(s)
  ELSE IF ~in.comp THEN NormalStop(s, in)
  ELSE s

\* The compressor runs and the temperature does not drop.
Pulldown(s, in) ==
  IF in.comp /\ in.defrost = "off" /\ s.run > PulldownTime
    THEN Follow(s, "pulldown", ~in.dropped, in.manual)
  ELSE IF in.comp THEN s
  ELSE Follow(s, "pulldown", FALSE, in.manual)

\* Mutant of Rate: a stop of the compressor clears the alarm.
RateForget(s, in) ==
  IF in.comp /\ ~SuppressHigh(s, in)
  THEN Delayed(s, "rate", FALSE, in.rising, RateTime, in.manual)
  ELSE SetAlarm(s, "rate", FALSE, 0)

\* update_rate_tracker; its first sample only sets the baseline.
Rate(s, in) ==
  IF ~(in.comp /\ ~SuppressHigh(s, in))
    THEN [SetAlarm(s, "rate", s.on["rate"] /\ in.manual, 0)
            EXCEPT !.rateReady = @ /\ in.comp]
  ELSE IF ~s.rateReady THEN [s EXCEPT !.rateReady = TRUE]
  ELSE Delayed(s, "rate", FALSE, in.rising, RateTime, in.manual)

-----------------------------------------------------------------------------
(* An update                                                               *)

\* update_haccp: a high temperature alarm that lasts, and a high temperature at
\* the first reading after power-on.
Haccp(s, in) ==
  IF HaccpDelay = 0 THEN s
  ELSE LET ha  == s.on["high"] /\ in.ok
           t   == IF ha THEN AtMost(s.wait["ha"] + 1, HaccpDelay) ELSE 0
           hot == in.temp = "high"
       IN [s EXCEPT !.on["ha"] = ha /\ (@ \/ t >= HaccpDelay), !.wait["ha"] = t,
                    !.hfChecked = @ \/ in.ok,
                    !.on["hf"] = IF in.ok THEN hot /\ (@ \/ ~s.hfChecked) ELSE @]

\* publish_alarms
Publish(s) == [s EXCEPT !.keyLockout = s.locked, !.keyBlocked = s.forced]

(* History for the properties: what the last update read, and what the
   readings since power-on amount to, counted without the module's fields. *)
HistoryType ==
  [beat : BOOLEAN,              \* flips at each update
   manual : BOOLEAN, guarded : BOOLEAN, condFailed : BOOLEAN,
   reset : BOOLEAN,             \* the update executed a reset
   ran : 0..MaxRun + 1,         \* the run that is going on, as far as it counts
   briefStop : BOOLEAN,         \* the last stop ended a run below MaxRun
   held : 0..ForcedOff,         \* how long the forced stop has lasted
   ends : 0..MaxRetries,        \* forced stops completed since the reset
   row : 0..MaxRetries,         \* the same, with no normal run between them
   calm : 0..PostDefrost,       \* ticks since the last defrost
   hot : 0..HighDelay]          \* high readings in a row, awake

Record(in, new) ==
  LET reset    == pr.keyReset /\ AnyAlarm(pr)
      released == pr.forced /\ ~new.forced /\ ~reset
      brief    == IF pr.comp /\ ~new.comp THEN hist.ran < MaxRun ELSE hist.briefStop
      normal   == ~new.comp /\ brief /\ ~pr.forced
      since(n) == IF reset THEN 0 ELSE AtMost(n + (IF released THEN 1 ELSE 0), MaxRetries)
      calm     == IF in.defrost = "off" THEN AtMost(hist.calm + 1, PostDefrost) ELSE 0
      awake    == IF in.defrost = "off" THEN calm >= PostDefrost ELSE in.defrost = "cold"
  IN [beat |-> ~hist.beat, manual |-> in.manual, guarded |-> Guarded(new, in),
      condFailed |-> in.cond = "failed", reset |-> reset,
      ran |-> IF ~new.comp \/ released THEN 0
              ELSE AtMost((IF reset THEN 0 ELSE hist.ran) + 1, MaxRun + 1),
      briefStop |-> brief,
      held |-> IF pr.forced /\ new.forced THEN AtMost(hist.held + 1, ForcedOff) ELSE 0,
      ends |-> since(hist.ends),
      row |-> IF normal THEN 0 ELSE since(hist.row),
      calm |-> calm,
      hot |-> IF in.ok /\ in.temp = "high" /\ awake
              THEN AtMost((IF reset THEN 0 ELSE hist.hot) + 1, HighDelay) ELSE 0]

\* The steps of on_update in their order.  A step's result is passed on in a
\* singleton, so that TLC computes it once.
Suppressed(s, in) ==
  {ResetCommand(b) : b \in {ContinuousCycle(a, in) : a \in {PostDefrostTimer(s, in)}}}

Watched(s, in) ==
  {Condenser(d, in) : d \in {Door(c, in) : c \in {Sensors(b, in) :
    b \in {LowTemp(a, in) : a \in {HighTemp(s, in)}}}}}

Compressor(s, in) ==
  IF ~(unit.primary /\ unit.compressor) THEN {s}
  ELSE {IF unit.rate THEN Rate(d, in) ELSE d : d \in {Pulldown(c, in) :
         c \in {Escalate(b, in) : b \in {Cycling(a, in) : a \in {Track(s, in)}}}}}

Update(in) ==
  /\ in \in unit.readings
  /\ \E s \in Suppressed([pr EXCEPT !.defrostStart = FALSE], in) :
     \E w \in Watched(s, in) :
     \E c \in Compressor(w, in) :
     \E new \in {Publish(Haccp(c, in))} : pr' = new /\ hist' = Record(in, new)
  /\ UNCHANGED unit

\* The user, over HTTP, WebSocket, MQTT or Modbus.
PressReset ==
  /\ ~pr.keyReset
  /\ pr' = [pr EXCEPT !.keyReset = TRUE]
  /\ UNCHANGED <<unit, hist>>

\* The watchdog restarts the module: on_stop and on_init write the keys, the
\* fields survive.
Restart ==
  /\ pr' = [pr EXCEPT !.keyLockout = FALSE, !.keyBlocked = FALSE, !.keyReset = FALSE]
  /\ UNCHANGED <<unit, hist>>

Init ==
  /\ unit \in Units
  /\ pr = [on |-> [m \in Monitors |-> FALSE], wait |-> [m \in Monitors |-> 0],
           wasDefrost |-> FALSE, post |-> FALSE, postTimer |-> 0,
           ccOn |-> FALSE, ccBypass |-> 0, doorTimer |-> 0, doorBlocked |-> FALSE,
           hfChecked |-> FALSE, comp |-> FALSE, run |-> 0, off |-> 0,
           lastRun |-> 0, shorts |-> 0, starts |-> 0, rateReady |-> FALSE,
           forced |-> FALSE, forcedTimer |-> 0, count |-> 0, locked |-> FALSE,
           keyLockout |-> FALSE, keyBlocked |-> FALSE, keyReset |-> FALSE,
           defrostStart |-> FALSE]
  /\ hist = [beat |-> FALSE, manual |-> FALSE, guarded |-> FALSE,
             condFailed |-> FALSE, reset |-> FALSE, ran |-> 0, briefStop |-> FALSE,
             held |-> 0, ends |-> 0, row |-> 0, calm |-> PostDefrost, hot |-> 0]

AnyUpdate == \E in \in unit.readings : Update(in)

Next == AnyUpdate \/ PressReset \/ Restart

Spec == Init /\ [][Next]_vars

\* The main loop updates the module again and again.
LiveSpec == Spec /\ WF_vars(AnyUpdate)

-----------------------------------------------------------------------------
(* Properties                                                              *)

\* The type invariant: every timer and counter stays within its bound.
TypeOK ==
  /\ unit \in Units
  /\ pr \in ProtectionType
  /\ hist \in HistoryType

\* The lockout comes after MaxRetries completed forced stops and no earlier, and
\* MaxRetries of them with no normal run in between do not pass without it
\* (continuous_run_count_ is raised, kept and reset in four places).
LockoutEscalation ==
  /\ pr.locked => hist.ends = MaxRetries
  /\ hist.row = MaxRetries => pr.locked

\* The compressor is blocked for no other reason than an uninterrupted run longer
\* than MaxRun, and such a run never goes on unblocked, unless a defrost or a
\* continuous cycle suspends the rule (resets, releases and suspended stretches
\* all touch current_run_ms).
RunLimited ==
  [][hist'.beat # hist.beat =>
       /\ ~pr.forced /\ pr'.keyBlocked => hist'.ran > MaxRun
       /\ hist'.ran > MaxRun /\ ~hist'.guarded => pr'.keyBlocked \/ pr'.keyLockout]_vars

\* A block lasts its whole period: nothing but the user's reset, or the moment of
\* a restart, lifts it earlier.
BlockLasts ==
  [][pr.keyBlocked /\ ~pr'.keyBlocked =>
       \/ hist'.beat = hist.beat
       \/ hist'.reset
       \/ hist.held + 1 >= ForcedOff]_vars

\* A block ends: unless defrosts or continuous cycles suspend its timer again and
\* again, the compressor is released, to run or to be locked out.
BlockEnds == <>[](~hist.guarded) => []<>(~pr.keyBlocked)

\* The high temperature alarm is raised only by HighDelay readings in a row with a
\* healthy sensor, none of them in a heating phase or within PostDefrost of a
\* defrost's end.
HighSustained ==
  [][~pr.on["high"] /\ pr'.on["high"] => hist'.hot = HighDelay]_vars

Latching == {"high", "low", "sensor1", "door", "short", "rapid", "pulldown", "rate"}

\* With manual reset an alarm stays until the user resets it, whatever the
\* compressor, a defrost or a sensor does meanwhile; and the condenser's block
\* is lifted by nothing else in either mode, except a sensor that fails.
AlarmsHeld ==
  [][/\ \A m \in Latching :
          pr.on[m] /\ ~pr'.on[m] => hist'.reset \/ ~hist'.manual
     /\ pr.on["condBlock"] /\ ~pr'.on["condBlock"] =>
          hist'.reset \/ hist'.condFailed]_vars
=============================================================================
