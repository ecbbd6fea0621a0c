--------------------------- MODULE ProtectionProofs ---------------------------
(***************************************************************************)
(* Theorems about Protection, for every delay, limit and instance: type    *)
(* correctness, the escalation to the lockout, the limit of a run and the  *)
(* length of a block, and what raises and what clears an alarm.            *)
(*                                                                         *)
(* An update rewrites the record of the module in fifteen steps.  One     *)
(* lemma per step says that it keeps the record in its type, what it does  *)
(* to the fields a property is about, and that it leaves the others alone; *)
(* the invariants are then about the composition.                          *)
(***************************************************************************)
EXTENDS Protection, TLAPS

-----------------------------------------------------------------------------
(* The record, and what the steps keep                                     *)

\* The alarms that wait for a delay.
DelayOf(m) ==
  CASE m = "high" -> HighDelay
    [] m = "low"  -> LowDelay
    [] m = "door" -> DoorDelay
    [] m = "rate" -> RateTime

Delaying == {"high", "low", "door", "rate"}

\* An alarm that is not raised has waited for less than its delay.
WaitInv(s) ==
  \A m \in Delaying : ~s.on[m] => s.wait[m] = 0 \/ s.wait[m] < DelayOf(m)

\* A forced stop is one of a compressor that is not locked out; the lockout
\* comes with the last retry; the alarm of the long run is that of the stop.
CountInv(s) ==
  /\ s.forced => ~s.locked /\ s.forcedTimer < ForcedOff
  /\ ~s.locked => s.count < MaxRetries
  /\ s.on["continuous"] => s.forced

Typed(s) == s \in ProtectionType /\ WaitInv(s) /\ CountInv(s)

\* What the escalation is about, and what the high temperature alarm is about.
SameEscalation(s, t) ==
  /\ t.comp = s.comp /\ t.run = s.run /\ t.lastRun = s.lastRun
  /\ t.forced = s.forced /\ t.forcedTimer = s.forcedTimer
  /\ t.count = s.count /\ t.locked = s.locked
  /\ t.on["continuous"] = s.on["continuous"]

SameHigh(s, t) == t.on["high"] = s.on["high"] /\ t.wait["high"] = s.wait["high"]

SameDefrost(s, t) ==
  /\ t.wasDefrost = s.wasDefrost /\ t.post = s.post /\ t.postTimer = s.postTimer
  /\ t.ccOn = s.ccOn

\* A step clears no alarm that waits for the reset.
KeepsAlarms(s, t, in) ==
  /\ in.manual => \A m \in Latching : s.on[m] => t.on[m]
  /\ in.cond # "failed" => (s.on["condBlock"] => t.on["condBlock"])

\* Every bound is a number.
LEMMA Bounds ==
  /\ HighDelay \in Nat /\ LowDelay \in Nat /\ DoorDelay \in Nat
  /\ DoorBlock \in Nat /\ PostDefrost \in Nat /\ CycleBypass \in Nat
  /\ HaccpDelay \in Nat /\ MinRun \in Nat /\ IdleReset \in Nat /\ MaxRun \in Nat
  /\ PulldownTime \in Nat /\ RateTime \in Nat /\ MaxStarts \in Nat
  /\ ForcedOff \in Nat \ {0} /\ MaxRetries \in Nat \ {0} /\ Ring \in Nat \ {0}
  /\ RunCap \in Nat /\ RunCap > MaxRun /\ OffCap \in Nat \ {0}
  /\ WaitCap \in Nat /\ HaccpDelay <= WaitCap
  /\ \A m \in Delaying : DelayOf(m) \in Nat /\ DelayOf(m) < WaitCap
<1>1. /\ HighDelay \in Nat /\ LowDelay \in Nat /\ DoorDelay \in Nat
      /\ DoorBlock \in Nat /\ PostDefrost \in Nat /\ CycleBypass \in Nat
      /\ HaccpDelay \in Nat /\ MinRun \in Nat /\ IdleReset \in Nat
      /\ MaxRun \in Nat /\ PulldownTime \in Nat /\ RateTime \in Nat
      /\ MaxStarts \in Nat
  BY ProtectionConstants
<1>2. RunCap \in Nat /\ RunCap > MaxRun /\ OffCap \in Nat \ {0}
  BY <1>1 DEF RunCap, OffCap, AtLeast
<1>3. WaitCap \in Nat /\ HaccpDelay <= WaitCap
  BY <1>1 DEF WaitCap
<1>4. \A m \in Delaying : DelayOf(m) \in Nat /\ DelayOf(m) < WaitCap
  BY <1>1 DEF Delaying, DelayOf, WaitCap
<1> QED
  BY <1>1, <1>2, <1>3, <1>4, ProtectionConstants

\* A timer stepped with a cap stays within it.
LEMMA AtMostFacts ==
  ASSUME NEW n \in Nat, NEW cap \in Nat
  PROVE  /\ AtMost(n, cap) \in 0..cap /\ AtMost(n, cap) <= n
         /\ n >= cap => AtMost(n, cap) = cap
         /\ n <= cap => AtMost(n, cap) = n
  BY DEF AtMost

-----------------------------------------------------------------------------
(* The steps: suppression and reset                                        *)

\* The post-defrost timer touches its own fields only.
LEMMA PostDefrostFacts ==
  ASSUME NEW s, Typed(s), NEW in \in ReadingType
  PROVE  LET t == PostDefrostTimer(s, in)
         IN /\ Typed(t)
            /\ SameEscalation(s, t) /\ SameHigh(s, t)
            /\ t.on = s.on /\ t.wait = s.wait /\ t.ccOn = s.ccOn
            /\ t.keyReset = s.keyReset
<1> DEFINE active == in.defrost # "off"
           edge   == active # s.wasDefrost
           on     == IF edge THEN ~active ELSE s.post
           timer  == (IF edge THEN 0 ELSE s.postTimer) + IF on THEN 1 ELSE 0
           short  == (on /\ timer < PostDefrost)
           t      == PostDefrostTimer(s, in)
<1>1. s.postTimer \in Nat
  BY Bounds DEF Typed, ProtectionType
<1>2. AtMost(timer, PostDefrost) \in 0..PostDefrost
  <2>1. timer \in Nat
    BY <1>1
  <2> HIDE DEF timer
  <2> QED
    BY <2>1, Bounds, AtMostFacts
<1>3. active \in BOOLEAN /\ short \in BOOLEAN
  OBVIOUS
<1>4. t = [s EXCEPT !.wasDefrost = active, !.post = short,
                    !.postTimer = AtMost(timer, PostDefrost)]
  BY DEF PostDefrostTimer
<1> HIDE DEF active, short, timer, t
<1>5. t \in ProtectionType
  BY <1>2, <1>3, <1>4 DEF Typed, ProtectionType
<1>6. /\ t.on = s.on /\ t.wait = s.wait /\ t.ccOn = s.ccOn /\ t.keyReset = s.keyReset
      /\ t.comp = s.comp /\ t.run = s.run /\ t.lastRun = s.lastRun
      /\ t.forced = s.forced /\ t.forcedTimer = s.forcedTimer
      /\ t.count = s.count /\ t.locked = s.locked
  BY <1>4 DEF Typed, ProtectionType
<1>7. Typed(t) /\ SameEscalation(s, t) /\ SameHigh(s, t)
  BY <1>5, <1>6 DEF Typed, WaitInv, CountInv, SameEscalation, SameHigh
<1> QED
  BY <1>6, <1>7 DEF t

\* The continuous cycle touches its own fields only.
LEMMA ContinuousFacts ==
  ASSUME NEW s, Typed(s), NEW in \in ReadingType
  PROVE  LET t == ContinuousCycle(s, in)
         IN /\ Typed(t)
            /\ SameEscalation(s, t) /\ SameHigh(s, t)
            /\ t.on = s.on /\ t.wait = s.wait /\ t.keyReset = s.keyReset
            /\ t.wasDefrost = s.wasDefrost /\ t.post = s.post
            /\ t.postTimer = s.postTimer
<1> DEFINE b == IF s.ccBypass = 0 THEN CycleBypass ELSE s.ccBypass
           left == IF b = 0 THEN 0 ELSE b - 1
           t == ContinuousCycle(s, in)
<1>1. left \in 0..CycleBypass /\ (left > 0) \in BOOLEAN
  BY Bounds DEF Typed, ProtectionType
<1>2. \/ t = [s EXCEPT !.ccOn = TRUE, !.ccBypass = 0]
      \/ t = s
      \/ t = [s EXCEPT !.ccOn = left > 0, !.ccBypass = left]
  BY DEF ContinuousCycle
<1>3. TRUE \in BOOLEAN /\ 0 \in 0..CycleBypass
  BY Bounds
<1> HIDE DEF left, t
<1>4. ASSUME NEW on \in BOOLEAN, NEW n \in 0..CycleBypass,
             t = [s EXCEPT !.ccOn = on, !.ccBypass = n]
      PROVE  /\ t \in ProtectionType
             /\ t.on = s.on /\ t.wait = s.wait /\ t.keyReset = s.keyReset
             /\ t.wasDefrost = s.wasDefrost /\ t.post = s.post
             /\ t.postTimer = s.postTimer
             /\ t.comp = s.comp /\ t.run = s.run /\ t.lastRun = s.lastRun
             /\ t.forced = s.forced /\ t.forcedTimer = s.forcedTimer
             /\ t.count = s.count /\ t.locked = s.locked
  BY <1>4 DEF Typed, ProtectionType
<1>5. /\ t \in ProtectionType
      /\ t.on = s.on /\ t.wait = s.wait /\ t.keyReset = s.keyReset
      /\ t.wasDefrost = s.wasDefrost /\ t.post = s.post /\ t.postTimer = s.postTimer
      /\ t.comp = s.comp /\ t.run = s.run /\ t.lastRun = s.lastRun
      /\ t.forced = s.forced /\ t.forcedTimer = s.forcedTimer
      /\ t.count = s.count /\ t.locked = s.locked
  <2>1. CASE t = s
    BY <2>1 DEF Typed
  <2>2. CASE t = [s EXCEPT !.ccOn = TRUE, !.ccBypass = 0]
    BY <1>3, <1>4, <2>2
  <2>3. CASE t = [s EXCEPT !.ccOn = left > 0, !.ccBypass = left]
    BY <1>1, <1>4, <2>3
  <2> QED
    BY <1>2, <2>1, <2>2, <2>3
<1>6. Typed(t) /\ SameEscalation(s, t) /\ SameHigh(s, t)
  BY <1>5 DEF Typed, WaitInv, CountInv, SameEscalation, SameHigh
<1> QED
  BY <1>5, <1>6 DEF t

\* A reset that finds an alarm clears the escalation and every alarm but
\* HACCP's; one that finds none only consumes the key.
LEMMA ResetFacts ==
  ASSUME NEW s, Typed(s)
  PROVE  LET t == ResetCommand(s)
         IN /\ Typed(t)
            /\ SameDefrost(s, t)
            /\ ~t.keyReset
            /\ ~(s.keyReset /\ AnyAlarm(s)) =>
                 SameEscalation(s, t) /\ SameHigh(s, t) /\ t.on = s.on
            /\ s.keyReset /\ AnyAlarm(s) =>
                 /\ t.comp = s.comp /\ t.lastRun = s.lastRun /\ t.run = 0
                 /\ ~t.forced /\ ~t.locked /\ t.count = 0 /\ t.forcedTimer = 0
                 /\ ~t.on["high"] /\ t.wait["high"] = 0
<1> DEFINE t == ResetCommand(s)
           on == [m \in Monitors |-> m \notin Resettable /\ s.on[m]]
           wait == [m \in Monitors |-> IF m \in Resettable THEN 0 ELSE s.wait[m]]
<1>1. CASE ~s.keyReset
  BY <1>1 DEF ResetCommand, SameEscalation, SameHigh, SameDefrost
<1>2. CASE s.keyReset /\ ~AnyAlarm(s)
  <2>1. t = [s EXCEPT !.keyReset = FALSE]
    BY <1>2 DEF ResetCommand
  <2> HIDE DEF t
  <2>2. t \in ProtectionType
    BY <2>1 DEF Typed, ProtectionType
  <2>3. /\ t.on = s.on /\ t.wait = s.wait /\ t.ccOn = s.ccOn /\ ~t.keyReset
        /\ t.wasDefrost = s.wasDefrost /\ t.post = s.post /\ t.postTimer = s.postTimer
        /\ t.comp = s.comp /\ t.run = s.run /\ t.lastRun = s.lastRun
        /\ t.forced = s.forced /\ t.forcedTimer = s.forcedTimer
        /\ t.count = s.count /\ t.locked = s.locked
    BY <2>1 DEF Typed, ProtectionType
  <2>4. Typed(t) /\ SameEscalation(s, t) /\ SameHigh(s, t) /\ SameDefrost(s, t)
    BY <2>2, <2>3
       DEF Typed, WaitInv, CountInv, SameEscalation, SameHigh, SameDefrost
  <2> QED
    BY <1>2, <2>3, <2>4 DEF t
<1>3. CASE s.keyReset /\ AnyAlarm(s)
  <2>1. t = [ClearAll(s) EXCEPT !.keyReset = FALSE]
    BY <1>3 DEF ResetCommand
  <2>2. t = [s EXCEPT !.on = on, !.wait = wait,
                      !.run = 0, !.shorts = 0, !.starts = 0, !.rateReady = FALSE,
                      !.count = 0, !.forced = FALSE, !.forcedTimer = 0,
                      !.locked = FALSE, !.keyBlocked = FALSE, !.keyLockout = FALSE,
                      !.keyReset = FALSE]
    BY <2>1 DEF ClearAll
  <2>3. s.on \in [Monitors -> BOOLEAN] /\ s.wait \in [Monitors -> 0..WaitCap]
    BY DEF Typed, ProtectionType
  <2>4. on \in [Monitors -> BOOLEAN] /\ wait \in [Monitors -> 0..WaitCap]
    BY <2>3, Bounds
  <2>5. /\ \A m \in Resettable : ~on[m] /\ wait[m] = 0
        /\ Delaying \subseteq Resettable /\ "continuous" \in Resettable
        /\ "high" \in Resettable
    BY DEF Resettable, Monitors, Delaying
  <2> HIDE DEF t, on, wait
  <2>6. t \in ProtectionType
    <3>1. /\ 0 \in 0..RunCap /\ 0 \in 0..3 /\ 0 \in 0..Ring /\ 0 \in 0..MaxRetries
          /\ 0 \in 0..ForcedOff /\ FALSE \in BOOLEAN
      BY Bounds
    <3>2. s \in ProtectionType
      BY DEF Typed
    <3> DEFINE a == [s EXCEPT !.on = on, !.wait = wait, !.run = 0]
               b == [a EXCEPT !.shorts = 0, !.starts = 0, !.rateReady = FALSE]
               c == [b EXCEPT !.count = 0, !.forced = FALSE, !.forcedTimer = 0,
                              !.locked = FALSE]
    <3>3. a \in ProtectionType
      BY <2>4, <3>1, <3>2 DEF ProtectionType
    <3>4. b \in ProtectionType
      <4> HIDE DEF a
      <4> QED
        BY <3>1, <3>3 DEF ProtectionType
    <3>5. c \in ProtectionType
      <4> HIDE DEF b
      <4> QED
        BY <3>1, <3>4 DEF ProtectionType
    <3>6. t = [c EXCEPT !.keyBlocked = FALSE, !.keyLockout = FALSE, !.keyReset = FALSE]
      BY <2>2
    <3> HIDE DEF c
    <3> QED
      BY <3>1, <3>5, <3>6 DEF ProtectionType
  <2>7. /\ t.on = on /\ t.wait = wait /\ t.ccOn = s.ccOn /\ ~t.keyReset
        /\ t.wasDefrost = s.wasDefrost /\ t.post = s.post /\ t.postTimer = s.postTimer
        /\ t.comp = s.comp /\ t.run = 0 /\ t.lastRun = s.lastRun
        /\ ~t.forced /\ t.forcedTimer = 0 /\ t.count = 0 /\ ~t.locked
    BY <2>2 DEF Typed, ProtectionType
  <2>8. Typed(t) /\ SameDefrost(s, t)
    BY <2>5, <2>6, <2>7, Bounds DEF Typed, WaitInv, CountInv, SameDefrost
  <2> QED
    BY <1>3, <2>5, <2>7, <2>8 DEF t
<1> QED
  BY <1>1, <1>2, <1>3

-----------------------------------------------------------------------------
(* The steps: alarms                                                       *)

\* A step that leaves the escalation and the suppression alone and clears no
\* alarm that waits for the reset.
Step(s, t, in) ==
  /\ Typed(t)
  /\ SameEscalation(s, t) /\ SameDefrost(s, t) /\ t.keyReset = s.keyReset
  /\ KeepsAlarms(s, t, in)

\* Two such steps are one.
LEMMA StepTrans ==
  ASSUME NEW a, NEW b, NEW c, NEW in, Step(a, b, in), Step(b, c, in)
  PROVE  Step(a, c, in)
  BY DEF Step, SameEscalation, SameDefrost, KeepsAlarms

\* The alarms' fields are functions.
LEMMA AlarmFields ==
  ASSUME NEW s, Typed(s)
  PROVE  /\ s \in ProtectionType
         /\ s.on \in [Monitors -> BOOLEAN] /\ s.wait \in [Monitors -> 0..WaitCap]
         /\ "continuous" \in Monitors /\ Delaying \subseteq Monitors
  BY DEF Typed, ProtectionType, Monitors, Delaying

\* A step that touches the fields of one alarm only.
Alone(s, t, m) ==
  /\ SameEscalation(s, t) /\ SameDefrost(s, t) /\ t.keyReset = s.keyReset
  /\ \A k \in Monitors \ {m} : t.on[k] = s.on[k] /\ t.wait[k] = s.wait[k]

\* What an alarm's fields may be.
WaitsAs(m, on, wait) == ~on /\ m \in Delaying => wait = 0 \/ wait < DelayOf(m)

Sets(s, t, m, on) == t = [s EXCEPT !.on[m] = on]

Writes(s, t, m, on, wait) == t = [s EXCEPT !.on[m] = on, !.wait[m] = wait]

\* One alarm and its delay written.
LEMMA WriteOne ==
  ASSUME NEW s, Typed(s), NEW m \in Monitors \ {"continuous"},
         NEW on \in BOOLEAN, NEW wait \in 0..WaitCap,
         WaitsAs(m, on, wait), NEW t, Writes(s, t, m, on, wait)
  PROVE  Typed(t) /\ Alone(s, t, m)
<1>1. s.on \in [Monitors -> BOOLEAN] /\ s.wait \in [Monitors -> 0..WaitCap]
  BY AlarmFields
<1>2. t \in ProtectionType
  <2> DEFINE f == [s.on EXCEPT ![m] = on]
             g == [s.wait EXCEPT ![m] = wait]
  <2>1. f \in [Monitors -> BOOLEAN] /\ g \in [Monitors -> 0..WaitCap]
    BY <1>1
  <2>2. s \in ProtectionType
    BY AlarmFields
  <2>3. t = [s EXCEPT !.on = f, !.wait = g]
    BY <2>2 DEF ProtectionType, Writes
  <2> HIDE DEF f, g
  <2> QED
    BY <2>1, <2>2, <2>3 DEF ProtectionType
<1>3. /\ t.on = [s.on EXCEPT ![m] = on] /\ t.wait = [s.wait EXCEPT ![m] = wait]
      /\ t.ccOn = s.ccOn /\ t.keyReset = s.keyReset
      /\ t.wasDefrost = s.wasDefrost /\ t.post = s.post /\ t.postTimer = s.postTimer
      /\ t.comp = s.comp /\ t.run = s.run /\ t.lastRun = s.lastRun
      /\ t.forced = s.forced /\ t.forcedTimer = s.forcedTimer
      /\ t.count = s.count /\ t.locked = s.locked
  BY AlarmFields DEF ProtectionType, Writes
<1>4. /\ t.on[m] = on /\ t.wait[m] = wait
      /\ \A k \in Monitors \ {m} : t.on[k] = s.on[k] /\ t.wait[k] = s.wait[k]
  BY <1>1, <1>3
<1>5. t.on["continuous"] = s.on["continuous"]
  BY <1>4, AlarmFields
<1>6. CountInv(t) /\ SameEscalation(s, t) /\ SameDefrost(s, t)
  BY <1>3, <1>5 DEF Typed, CountInv, SameEscalation, SameDefrost
<1>7. WaitInv(t)
  BY <1>4, AlarmFields DEF Typed, WaitInv, WaitsAs
<1> QED
  BY <1>2, <1>3, <1>4, <1>6, <1>7 DEF Typed, Alone

\* One alarm written that waits for nothing.
LEMMA WriteOn ==
  ASSUME NEW s, Typed(s), NEW m \in Monitors \ ({"continuous"} \cup Delaying),
         NEW on \in BOOLEAN, NEW t, Sets(s, t, m, on)
  PROVE  Typed(t) /\ Alone(s, t, m) /\ t.wait = s.wait
<1>1. s.on \in [Monitors -> BOOLEAN] /\ s.wait \in [Monitors -> 0..WaitCap]
  BY AlarmFields
<1>2. t \in ProtectionType
  BY AlarmFields DEF ProtectionType, Sets
<1>3. /\ t.on = [s.on EXCEPT ![m] = on] /\ t.wait = s.wait
      /\ t.ccOn = s.ccOn /\ t.keyReset = s.keyReset
      /\ t.wasDefrost = s.wasDefrost /\ t.post = s.post /\ t.postTimer = s.postTimer
      /\ t.comp = s.comp /\ t.run = s.run /\ t.lastRun = s.lastRun
      /\ t.forced = s.forced /\ t.forcedTimer = s.forcedTimer
      /\ t.count = s.count /\ t.locked = s.locked
  BY AlarmFields DEF ProtectionType, Sets
<1>4. t.on[m] = on /\ \A k \in Monitors \ {m} : t.on[k] = s.on[k]
  BY <1>1, <1>3
<1>5. t.on["continuous"] = s.on["continuous"]
  BY <1>4, AlarmFields
<1>6. CountInv(t) /\ SameEscalation(s, t) /\ SameDefrost(s, t)
  BY <1>3, <1>5 DEF Typed, CountInv, SameEscalation, SameDefrost
<1>7. WaitInv(t)
  BY <1>3, <1>4, AlarmFields DEF Typed, WaitInv
<1> QED
  BY <1>2, <1>3, <1>4, <1>6, <1>7 DEF Typed, Alone

\* A delayed alarm is raised only by a delay of bad readings in a row, and in
\* manual mode cleared by none.
Waited(s, t, m, asleep, bad, manual) ==
  /\ manual /\ s.on[m] => t.on[m]
  /\ ~s.on[m] /\ t.on[m] => ~asleep /\ bad /\ s.wait[m] + 1 >= DelayOf(m)
  /\ ~t.on[m] => \/ t.wait[m] = 0
                 \/ ~asleep /\ bad /\ ~s.on[m] /\ t.wait[m] = s.wait[m] + 1

\* A delayed alarm is nothing more.
LEMMA DelayedFacts ==
  ASSUME NEW s, Typed(s), NEW m \in Delaying,
         NEW asleep \in BOOLEAN, NEW bad \in BOOLEAN, NEW manual \in BOOLEAN,
         NEW t, t = Delayed(s, m, asleep, bad, DelayOf(m), manual)
  PROVE  Typed(t) /\ Alone(s, t, m) /\ Waited(s, t, m, asleep, bad, manual)
<1> DEFINE raised == (s.wait[m] + 1 >= DelayOf(m))
<1>1. /\ m \in Monitors \ {"continuous"} /\ s.on[m] \in BOOLEAN
      /\ s.wait[m] \in 0..WaitCap /\ 0 \in 0..WaitCap
      /\ DelayOf(m) \in Nat /\ DelayOf(m) < WaitCap /\ WaitCap \in Nat
  BY AlarmFields, Bounds DEF Delaying
<1>2. CASE asleep
  <2>1. t = [s EXCEPT !.wait[m] = 0]
    BY <1>2 DEF Delayed
  <2>2. Writes(s, t, m, s.on[m], 0) /\ WaitsAs(m, s.on[m], 0)
    <3>1. [s.on EXCEPT ![m] = s.on[m]] = s.on
      BY AlarmFields
    <3> QED
      BY <2>1, <3>1, AlarmFields DEF ProtectionType, Writes, WaitsAs
  <2>3. Typed(t) /\ Alone(s, t, m)
    BY <1>1, <2>2, WriteOne
  <2>4. t.on = s.on /\ t.wait[m] = 0
    BY <1>1, <2>1, AlarmFields DEF ProtectionType
  <2> QED
    BY <1>2, <2>3, <2>4 DEF Waited
<1>3. CASE ~asleep /\ ~bad
  <2>1. t = [s EXCEPT !.on[m] = s.on[m] /\ manual, !.wait[m] = 0]
    BY <1>3 DEF Delayed, SetAlarm
  <2>2. /\ (s.on[m] /\ manual) \in BOOLEAN
        /\ Writes(s, t, m, s.on[m] /\ manual, 0) /\ WaitsAs(m, s.on[m] /\ manual, 0)
    BY <2>1 DEF Writes, WaitsAs
  <2>3. Typed(t) /\ Alone(s, t, m)
    BY <1>1, <2>2, WriteOne
  <2>4. (t.on[m] <=> s.on[m] /\ manual) /\ t.wait[m] = 0
    BY <1>1, <2>1, AlarmFields DEF ProtectionType
  <2> QED
    BY <1>3, <2>3, <2>4 DEF Waited
<1>4. CASE ~asleep /\ bad /\ s.on[m]
  <2>1. t = s
    BY <1>4 DEF Delayed
  <2> QED
    BY <1>4, <2>1 DEF SameEscalation, SameDefrost, Alone, Waited
<1>5. CASE ~asleep /\ bad /\ ~s.on[m]
  <2>1. t = [s EXCEPT !.on[m] = raised, !.wait[m] = s.wait[m] + 1]
    BY <1>5 DEF Delayed, SetAlarm
  <2>2. s.wait[m] = 0 \/ s.wait[m] < DelayOf(m)
    BY <1>5 DEF Typed, WaitInv
  <2>3. /\ raised \in BOOLEAN /\ s.wait[m] + 1 \in 0..WaitCap
        /\ WaitsAs(m, raised, s.wait[m] + 1) /\ Writes(s, t, m, raised, s.wait[m] + 1)
    BY <1>1, <2>1, <2>2 DEF WaitsAs, Writes
  <2> HIDE DEF raised
  <2>4. Typed(t) /\ Alone(s, t, m)
    BY <1>1, <2>3, WriteOne
  <2>5. (t.on[m] <=> raised) /\ t.wait[m] = s.wait[m] + 1
    BY <1>1, <2>1, AlarmFields DEF ProtectionType
  <2> QED
    BY <1>5, <2>4, <2>5 DEF raised, Waited
<1> QED
  BY <1>2, <1>3, <1>4, <1>5

\* Written alarms and what the properties ask of them: a step that changes one
\* alarm, keeps it when it has to, and is not about the high temperature.
LEMMA OneIsStep ==
  ASSUME NEW s, Typed(s), NEW t, Typed(t), NEW m \in Monitors, NEW in \in ReadingType,
         Alone(s, t, m),
         in.manual /\ m \in Latching /\ s.on[m] => t.on[m],
         m = "condBlock" /\ in.cond # "failed" /\ s.on[m] => t.on[m]
  PROVE  Step(s, t, in)
<1>1. Latching \subseteq Monitors /\ "condBlock" \in Monitors
  BY DEF Latching, Monitors
<1>2. KeepsAlarms(s, t, in)
  BY <1>1 DEF KeepsAlarms, Alone
<1> QED
  BY <1>2 DEF Step, Alone

\* An alarm that follows its condition is a step, whatever the condition.
LEMMA FollowStep ==
  ASSUME NEW s, Typed(s), NEW m \in {"sensor1", "sensor2", "condenser", "short",
                                     "rapid", "pulldown"},
         NEW bad \in BOOLEAN, NEW in \in ReadingType
  PROVE  LET t == Follow(s, m, bad, in.manual)
         IN Step(s, t, in) /\ SameHigh(s, t)
<1> DEFINE t == Follow(s, m, bad, in.manual)
           on == (bad \/ (s.on[m] /\ in.manual))
<1>1. m \in Monitors \ ({"continuous"} \cup Delaying) /\ m # "condBlock" /\ m # "high"
  BY DEF Monitors, Delaying
<1>2. Sets(s, t, m, on) /\ on \in BOOLEAN
  BY DEF Follow, Sets
<1>3. s.on[m] /\ in.manual => on
  OBVIOUS
<1> HIDE DEF t, on
<1>4. Typed(t) /\ Alone(s, t, m) /\ t.wait = s.wait
  BY <1>1, <1>2, WriteOn
<1>5. t.on[m] <=> on
  BY <1>1, <1>2, AlarmFields DEF ProtectionType, Sets
<1>6. Step(s, t, in)
  BY <1>1, <1>3, <1>4, <1>5, OneIsStep
<1>7. SameHigh(s, t)
  BY <1>1, <1>4 DEF SameHigh, Monitors, Alone
<1> QED
  BY <1>6, <1>7 DEF t

\* A delayed alarm is a step, and about the high temperature only when it is that.
LEMMA DelayedStep ==
  ASSUME NEW s, Typed(s), NEW m \in Delaying, NEW in \in ReadingType,
         NEW asleep \in BOOLEAN, NEW bad \in BOOLEAN,
         NEW manual \in BOOLEAN, manual = in.manual,
         NEW t, t = Delayed(s, m, asleep, bad, DelayOf(m), manual)
  PROVE  Step(s, t, in) /\ (m # "high" => SameHigh(s, t))
<1>1. m \in Monitors /\ m # "condBlock" /\ "high" \in Monitors
  BY DEF Delaying, Monitors
<1>2. Typed(t) /\ Alone(s, t, m) /\ Waited(s, t, m, asleep, bad, manual)
  BY DelayedFacts
<1>3. Step(s, t, in)
  BY <1>1, <1>2, OneIsStep DEF Waited
<1>4. m # "high" => SameHigh(s, t)
  BY <1>1, <1>2 DEF SameHigh, Alone
<1> QED
  BY <1>3, <1>4

-----------------------------------------------------------------------------
(* The steps: the monitors                                                 *)

\* The high temperature alarm is raised by a delay of high readings in a row,
\* taken from a healthy sensor while nothing suppresses the alarm.
LEMMA HighTempFacts ==
  ASSUME NEW s, Typed(s), NEW in \in ReadingType, NEW t, t = HighTemp(s, in)
  PROVE  /\ Step(s, t, in)
         /\ ~s.on["high"] /\ t.on["high"] =>
              /\ ~SuppressHigh(s, in) /\ in.ok /\ in.temp = "high"
              /\ s.wait["high"] + 1 >= HighDelay
         /\ ~t.on["high"] =>
              \/ t.wait["high"] = 0
              \/ /\ ~SuppressHigh(s, in) /\ in.ok /\ in.temp = "high"
                 /\ ~s.on["high"] /\ t.wait["high"] = s.wait["high"] + 1
<1>1. PICK manual \in BOOLEAN : manual = in.manual
  BY DEF ReadingType
<1>2. PICK asleep \in BOOLEAN : asleep = (SuppressHigh(s, in) \/ ~in.ok)
  BY DEF SuppressHigh
<1>3. PICK bad \in BOOLEAN : bad = (in.temp = "high")
  OBVIOUS
<1>4. "high" \in Delaying /\ DelayOf("high") = HighDelay
  BY DEF Delaying, DelayOf
<1>5. t = Delayed(s, "high", asleep, bad, DelayOf("high"), manual)
  BY <1>1, <1>2, <1>3, <1>4 DEF HighTemp
<1>6. Step(s, t, in)
  BY <1>1, <1>4, <1>5, DelayedStep
<1>7. Waited(s, t, "high", asleep, bad, manual)
  BY <1>4, <1>5, DelayedFacts
<1> QED
  BY <1>2, <1>3, <1>4, <1>6, <1>7 DEF Waited

\* The low temperature alarm.
LEMMA LowTempFacts ==
  ASSUME NEW s, Typed(s), NEW in \in ReadingType, NEW t, t = LowTemp(s, in)
  PROVE  Step(s, t, in) /\ SameHigh(s, t)
<1>1. PICK manual \in BOOLEAN : manual = in.manual
  BY DEF ReadingType
<1>2. PICK asleep \in BOOLEAN : asleep = (s.ccOn \/ ~in.ok)
  OBVIOUS
<1>3. PICK bad \in BOOLEAN : bad = (in.temp = "low")
  OBVIOUS
<1>4. "low" \in Delaying /\ DelayOf("low") = LowDelay
  BY DEF Delaying, DelayOf
<1>5. t = Delayed(s, "low", asleep, bad, DelayOf("low"), manual)
  BY <1>1, <1>2, <1>3, <1>4 DEF LowTemp
<1> QED
  BY <1>1, <1>4, <1>5, DelayedStep

\* The sensor alarms: the one of an evaporator sensor that is not there waits
\* for no reset.
LEMMA SensorsFacts ==
  ASSUME NEW s, Typed(s), NEW in \in ReadingType, NEW t, t = Sensors(s, in)
  PROVE  Step(s, t, in) /\ SameHigh(s, t)
<1> DEFINE a == Follow(s, "sensor1", ~in.ok, in.manual)
<1>1. Step(s, a, in) /\ SameHigh(s, a)
  <2>1. PICK bad \in BOOLEAN : bad = ~in.ok
    OBVIOUS
  <2> QED
    BY <2>1, FollowStep
<1>2. Typed(a)
  BY <1>1 DEF Step
<1>3. \/ t = Follow(a, "sensor2", ~in.ok2, in.manual)
      \/ t = [a EXCEPT !.on["sensor2"] = FALSE]
  BY DEF Sensors
<1> HIDE DEF a
<1>4. Step(a, t, in) /\ SameHigh(a, t)
  <2>1. CASE t = Follow(a, "sensor2", ~in.ok2, in.manual)
    <3>1. PICK bad \in BOOLEAN : bad = ~in.ok2
      OBVIOUS
    <3> QED
      BY <1>2, <2>1, <3>1, FollowStep
  <2>2. CASE t = [a EXCEPT !.on["sensor2"] = FALSE]
    <3>1. /\ "sensor2" \in Monitors \ ({"continuous"} \cup Delaying)
          /\ "sensor2" \notin Latching \cup {"condBlock", "high"} /\ "high" \in Monitors
      BY DEF Monitors, Delaying, Latching
    <3>2. Sets(a, t, "sensor2", FALSE)
      BY <2>2 DEF Sets
    <3>3. Typed(t) /\ Alone(a, t, "sensor2") /\ t.wait = a.wait
      BY <1>2, <3>1, <3>2, WriteOn
    <3> QED
      BY <1>2, <3>1, <3>3, OneIsStep DEF SameHigh, Alone
  <2> QED
    BY <1>3, <2>1, <2>2
<1> QED
  BY <1>1, <1>4, StepTrans DEF SameHigh

\* A step that writes no alarm.
LEMMA SilentStep ==
  ASSUME NEW s, Typed(s), NEW t, t \in ProtectionType, NEW in,
         SameEscalation(s, t), SameDefrost(s, t), t.keyReset = s.keyReset,
         t.on = s.on, t.wait = s.wait
  PROVE  Step(s, t, in) /\ SameHigh(s, t)
  BY DEF Step, Typed, WaitInv, CountInv, SameEscalation, KeepsAlarms, SameHigh

\* No step is one.
LEMMA SameIsStep ==
  ASSUME NEW s, Typed(s), NEW in
  PROVE  Step(s, s, in) /\ SameHigh(s, s)
  BY DEF Step, SameEscalation, SameDefrost, KeepsAlarms, SameHigh

\* The door's alarm, and its block of the compressor.
LEMMA DoorFacts ==
  ASSUME NEW s, Typed(s), NEW in \in ReadingType, NEW t, t = Door(s, in)
  PROVE  Step(s, t, in) /\ SameHigh(s, t)
<1> DEFINE a == Delayed(s, "door", FALSE, in.door, DoorDelay, in.manual)
           n == AtMost(s.doorTimer + 1, DoorBlock)
<1>1. CASE ~unit.door
  BY <1>1, SameIsStep DEF Door
<1>2. CASE unit.door
  <2>1. Step(s, a, in) /\ SameHigh(s, a)
    <3>1. PICK manual \in BOOLEAN : manual = in.manual
      BY DEF ReadingType
    <3>2. PICK bad \in BOOLEAN : bad = in.door
      BY DEF ReadingType
    <3>3. "door" \in Delaying /\ DelayOf("door") = DoorDelay /\ FALSE \in BOOLEAN
      BY DEF Delaying, DelayOf
    <3>4. a = Delayed(s, "door", FALSE, bad, DelayOf("door"), manual)
      BY <3>1, <3>2, <3>3
    <3> HIDE DEF a
    <3> QED
      BY <3>1, <3>3, <3>4, DelayedStep
  <2>2. n \in 0..DoorBlock /\ 0 \in 0..DoorBlock
    <3>1. s.doorTimer + 1 \in Nat /\ DoorBlock \in Nat
      BY Bounds DEF Typed, ProtectionType
    <3> QED
      BY <3>1, AtMostFacts
  <2>3. \/ t = [a EXCEPT !.doorTimer = n, !.doorBlocked = a.doorBlocked \/ n >= DoorBlock]
        \/ t = [a EXCEPT !.doorTimer = 0, !.doorBlocked = FALSE]
    BY <1>2 DEF Door
  <2>4. a \in ProtectionType
    BY <2>1 DEF Step, Typed
  <2> HIDE DEF a, n
  <2>5. PICK k \in 0..DoorBlock, b \in BOOLEAN :
          t = [a EXCEPT !.doorTimer = k, !.doorBlocked = b]
    <3>1. (a.doorBlocked \/ n >= DoorBlock) \in BOOLEAN
      OBVIOUS
    <3> QED
      BY <2>2, <2>3, <3>1
  <2>6. /\ t \in ProtectionType
        /\ SameEscalation(a, t) /\ SameDefrost(a, t) /\ t.keyReset = a.keyReset
        /\ t.on = a.on /\ t.wait = a.wait
    BY <2>4, <2>5 DEF ProtectionType, SameEscalation, SameDefrost
  <2>7. Step(a, t, in) /\ SameHigh(a, t)
    BY <2>1, <2>6, SilentStep DEF Step
  <2> QED
    BY <2>1, <2>7, StepTrans DEF SameHigh
<1> QED
  BY <1>1, <1>2

\* The condenser's alarm and block: only a sensor that fails lifts the block.
LEMMA CondenserFacts ==
  ASSUME NEW s, Typed(s), NEW in \in ReadingType, NEW t, t = Condenser(s, in)
  PROVE  Step(s, t, in) /\ SameHigh(s, t)
<1>1. /\ "condBlock" \in Monitors \ ({"continuous"} \cup Delaying)
      /\ "condenser" \in Monitors \ ({"continuous"} \cup Delaying)
      /\ "condBlock" \notin Latching \cup {"high"}
      /\ "condenser" \notin Latching \cup {"high", "condBlock"} /\ "high" \in Monitors
  BY DEF Monitors, Delaying, Latching
<1>2. CASE ~unit.primary \/ in.cond = "none"
  <2>1. t = s
    BY <1>2 DEF Condenser
  <2> QED
    BY <2>1, SameIsStep
<1>3. CASE unit.primary /\ in.cond = "failed"
  <2> DEFINE a == [s EXCEPT !.on["condenser"] = FALSE]
  <2>1. Sets(s, a, "condenser", FALSE) /\ Sets(a, t, "condBlock", FALSE)
    BY <1>3 DEF Condenser, Sets
  <2> HIDE DEF a
  <2>2. Typed(a) /\ Alone(s, a, "condenser") /\ a.wait = s.wait
    BY <1>1, <2>1, WriteOn
  <2>3. Typed(t) /\ Alone(a, t, "condBlock") /\ t.wait = a.wait
    BY <1>1, <2>1, <2>2, WriteOn
  <2>4. Step(s, a, in) /\ Step(a, t, in)
    BY <1>1, <1>3, <2>2, <2>3, OneIsStep
  <2> QED
    BY <1>1, <2>2, <2>3, <2>4, StepTrans DEF Alone, SameHigh
<1>4. CASE unit.primary /\ in.cond \notin {"none", "failed"}
  <2> DEFINE a == Follow(s, "condenser", in.cond \in {"warm", "critical"}, in.manual)
             b == (a.on["condBlock"] \/ in.cond = "critical")
  <2>1. Step(s, a, in) /\ SameHigh(s, a)
    <3>1. PICK bad \in BOOLEAN : bad = (in.cond \in {"warm", "critical"})
      <4>1. (in.cond \in {"warm", "critical"}) \in BOOLEAN
        OBVIOUS
      <4> QED
        BY <4>1, Zenon
    <3>2. Step(s, Follow(s, "condenser", bad, in.manual), in)
          /\ SameHigh(s, Follow(s, "condenser", bad, in.manual))
      BY FollowStep
    <3> QED
      BY <3>1, <3>2
  <2>2. Sets(a, t, "condBlock", b) /\ b \in BOOLEAN
    BY <1>4 DEF Condenser, Sets
  <2>3. a.on["condBlock"] => b
    OBVIOUS
  <2>4. Typed(a)
    BY <2>1 DEF Step
  <2> HIDE DEF a, b
  <2>5. Typed(t) /\ Alone(a, t, "condBlock") /\ t.wait = a.wait
    BY <1>1, <2>2, <2>4, WriteOn
  <2>6. t.on["condBlock"] <=> b
    BY <1>1, <2>2, <2>4, AlarmFields DEF ProtectionType, Sets
  <2>7. Step(a, t, in)
    BY <1>1, <2>3, <2>4, <2>5, <2>6, OneIsStep
  <2> QED
    BY <1>1, <2>1, <2>5, <2>7, StepTrans DEF Alone, SameHigh
<1> QED
  BY <1>2, <1>3, <1>4

\* The monitors that run on every unit are together one step, which is about the
\* high temperature alarm as HighTemp is.
LEMMA WatchedFacts ==
  ASSUME NEW s, Typed(s), NEW in \in ReadingType, NEW t \in Watched(s, in)
  PROVE  /\ Step(s, t, in)
         /\ ~s.on["high"] /\ t.on["high"] =>
              /\ ~SuppressHigh(s, in) /\ in.ok /\ in.temp = "high"
              /\ s.wait["high"] + 1 >= HighDelay
         /\ ~t.on["high"] =>
              \/ t.wait["high"] = 0
              \/ /\ ~SuppressHigh(s, in) /\ in.ok /\ in.temp = "high"
                 /\ ~s.on["high"] /\ t.wait["high"] = s.wait["high"] + 1
<1> DEFINE a == HighTemp(s, in)
           b == LowTemp(a, in)
           c == Sensors(b, in)
           d == Door(c, in)
<1>1. t = Condenser(d, in)
  BY DEF Watched
<1>2. a = HighTemp(s, in) /\ b = LowTemp(a, in) /\ c = Sensors(b, in) /\ d = Door(c, in)
  OBVIOUS
<1> HIDE DEF a, b, c, d
<1>3. Step(s, a, in) /\ Typed(a)
  BY <1>2, HighTempFacts DEF Step
<1>4. Step(a, b, in) /\ SameHigh(a, b) /\ Typed(b)
  BY <1>2, <1>3, LowTempFacts DEF Step
<1>5. Step(b, c, in) /\ SameHigh(b, c) /\ Typed(c)
  BY <1>2, <1>4, SensorsFacts DEF Step
<1>6. Step(c, d, in) /\ SameHigh(c, d) /\ Typed(d)
  BY <1>2, <1>5, DoorFacts DEF Step
<1>7. Step(d, t, in) /\ SameHigh(d, t)
  BY <1>1, <1>6, CondenserFacts
<1>8. Step(s, t, in)
  BY <1>3, <1>4, <1>5, <1>6, <1>7, StepTrans
<1>9. SameHigh(a, t)
  BY <1>4, <1>5, <1>6, <1>7 DEF SameHigh
<1> QED
  BY <1>2, <1>8, <1>9, HighTempFacts DEF SameHigh

-----------------------------------------------------------------------------
(* The steps: the compressor                                               *)

\* What an update of the compressor's part leaves alone.
Beside(s, t, in) ==
  /\ SameDefrost(s, t) /\ SameHigh(s, t) /\ t.keyReset = s.keyReset
  /\ KeepsAlarms(s, t, in)

\* A run is counted from its start, and is known when it has ended.
Tracked(s, t, in) ==
  /\ t.comp = in.comp
  /\ t.run = IF in.comp THEN IF s.comp THEN AtMost(s.run + 1, RunCap) ELSE 1 ELSE s.run
  /\ t.lastRun = IF s.comp /\ ~in.comp THEN s.run ELSE s.lastRun
  /\ t.forced = s.forced /\ t.forcedTimer = s.forcedTimer
  /\ t.count = s.count /\ t.locked = s.locked

\* The tracker writes nothing else.
LEMMA TrackFacts ==
  ASSUME NEW s, Typed(s), NEW in \in ReadingType, NEW t, t = Track(s, in)
  PROVE  Typed(t) /\ Beside(s, t, in) /\ Tracked(s, t, in)
<1>1. /\ s \in ProtectionType /\ s.run \in 0..RunCap /\ s.off \in 0..OffCap
      /\ s.lastRun \in 0..RunCap /\ s.shorts \in 0..3 /\ s.starts \in 0..Ring
      /\ RunCap \in Nat /\ RunCap >= 1 /\ OffCap \in Nat /\ OffCap >= 1 /\ Ring \in Nat
      /\ in.comp \in BOOLEAN
  BY Bounds DEF Typed, ProtectionType, ReadingType
<1> DEFINE short == IF s.run < MinRun THEN AtMost(s.shorts + 1, 3) ELSE 0
           off == IF Stopped(s, in) THEN 1 ELSE AtMost(s.off + 1, OffCap)
           run == IF Started(s, in) THEN 1 ELSE AtMost(s.run + 1, RunCap)
           starts == IF Started(s, in) THEN AtMost(s.starts + 1, Ring) ELSE s.starts
           last == IF Stopped(s, in) THEN s.run ELSE s.lastRun
           shorts == IF off > IdleReset THEN 0
                     ELSE IF Stopped(s, in) THEN short ELSE s.shorts
<1>2. AtMost(s.shorts + 1, 3) \in 0..3
  <2>1. s.shorts + 1 \in Nat /\ 3 \in Nat
    BY <1>1
  <2> QED
    BY <2>1, AtMostFacts
<1>3. /\ AtMost(s.off + 1, OffCap) \in 0..OffCap /\ AtMost(s.run + 1, RunCap) \in 0..RunCap
      /\ AtMost(s.starts + 1, Ring) \in 0..Ring
  <2>1. s.off + 1 \in Nat /\ s.run + 1 \in Nat /\ s.starts + 1 \in Nat
    BY <1>1
  <2> QED
    BY <1>1, <2>1, AtMostFacts
<1>4. /\ run \in 0..RunCap /\ off \in 0..OffCap /\ starts \in 0..Ring
      /\ last \in 0..RunCap /\ shorts \in 0..3
  BY <1>1, <1>2, <1>3
<1>5. CASE in.comp
  <2>1. t = [s EXCEPT !.comp = TRUE, !.run = run, !.starts = starts]
    BY <1>5 DEF Track
  <2>2. run = IF s.comp THEN AtMost(s.run + 1, RunCap) ELSE 1
    BY <1>5 DEF Started
  <2> HIDE DEF run, starts
  <2>3. t \in ProtectionType
    BY <1>1, <1>4, <2>1 DEF ProtectionType
  <2>4. /\ t.comp /\ t.run = run /\ t.lastRun = s.lastRun /\ t.on = s.on /\ t.wait = s.wait
        /\ t.forced = s.forced /\ t.forcedTimer = s.forcedTimer /\ t.keyReset = s.keyReset
        /\ t.count = s.count /\ t.locked = s.locked /\ SameDefrost(s, t)
    BY <1>1, <2>1 DEF ProtectionType, SameDefrost
  <2>5. Typed(t) /\ Beside(s, t, in)
    BY <2>3, <2>4 DEF Typed, WaitInv, CountInv, Beside, SameHigh, KeepsAlarms
  <2>6. t.comp = in.comp
    BY <1>5, <2>3, <2>4 DEF ProtectionType, ReadingType
  <2> QED
    BY <1>5, <2>2, <2>4, <2>5, <2>6 DEF Tracked
<1>6. CASE ~in.comp
  <2>1. t = [s EXCEPT !.comp = FALSE, !.off = off, !.lastRun = last, !.shorts = shorts]
    BY <1>6 DEF Track
  <2>2. last = IF s.comp /\ ~in.comp THEN s.run ELSE s.lastRun
    BY <1>6 DEF Stopped
  <2> HIDE DEF off, last, shorts
  <2>3. t \in ProtectionType
    <3> DEFINE a == [s EXCEPT !.comp = FALSE, !.off = off]
    <3>1. a \in ProtectionType
      BY <1>1, <1>4 DEF ProtectionType
    <3>2. t = [a EXCEPT !.lastRun = last, !.shorts = shorts]
      BY <2>1
    <3> HIDE DEF a
    <3> QED
      BY <1>4, <3>1, <3>2 DEF ProtectionType
  <2>4. /\ ~t.comp /\ t.run = s.run /\ t.lastRun = last /\ t.on = s.on /\ t.wait = s.wait
        /\ t.forced = s.forced /\ t.forcedTimer = s.forcedTimer /\ t.keyReset = s.keyReset
        /\ t.count = s.count /\ t.locked = s.locked /\ SameDefrost(s, t)
    BY <1>1, <2>1 DEF ProtectionType, SameDefrost
  <2>5. Typed(t) /\ Beside(s, t, in)
    BY <2>3, <2>4 DEF Typed, WaitInv, CountInv, Beside, SameHigh, KeepsAlarms
  <2>6. t.comp = in.comp
    BY <1>6, <2>3, <2>4 DEF ProtectionType, ReadingType
  <2> QED
    BY <1>6, <2>2, <2>4, <2>5, <2>6 DEF Tracked
<1> QED
  BY <1>5, <1>6

\* The alarms of short and of rapid cycling.
LEMMA CyclingFacts ==
  ASSUME NEW s, Typed(s), NEW in \in ReadingType, NEW t, t = Cycling(s, in)
  PROVE  Step(s, t, in) /\ SameHigh(s, t)
<1> DEFINE a == Follow(s, "short", s.shorts >= 3, in.manual)
<1>1. Step(s, a, in) /\ SameHigh(s, a)
  <2>1. PICK bad \in BOOLEAN : bad = (s.shorts >= 3)
    <3>1. (s.shorts >= 3) \in BOOLEAN
      OBVIOUS
    <3> QED
      BY <3>1, Zenon
  <2>2. /\ Step(s, Follow(s, "short", bad, in.manual), in)
        /\ SameHigh(s, Follow(s, "short", bad, in.manual))
    BY FollowStep
  <2> QED
    BY <2>1, <2>2
<1>2. t = Follow(a, "rapid", a.starts > MaxStarts, in.manual)
  BY DEF Cycling, Follow
<1>3. Typed(a)
  BY <1>1 DEF Step
<1> HIDE DEF a
<1>4. Step(a, t, in) /\ SameHigh(a, t)
  <2>1. PICK bad \in BOOLEAN : bad = (a.starts > MaxStarts)
    <3>1. (a.starts > MaxStarts) \in BOOLEAN
      OBVIOUS
    <3> QED
      BY <3>1, Zenon
  <2>2. /\ Step(a, Follow(a, "rapid", bad, in.manual), in)
        /\ SameHigh(a, Follow(a, "rapid", bad, in.manual))
    BY <1>3, FollowStep
  <2> QED
    BY <1>2, <2>1, <2>2
<1> QED
  BY <1>1, <1>4, StepTrans DEF SameHigh

\* The pulldown alarm.
LEMMA PulldownFacts ==
  ASSUME NEW s, Typed(s), NEW in \in ReadingType, NEW t, t = Pulldown(s, in)
  PROVE  Step(s, t, in) /\ SameHigh(s, t)
<1>1. \/ t = s
      \/ t = Follow(s, "pulldown", ~in.dropped, in.manual)
      \/ t = Follow(s, "pulldown", FALSE, in.manual)
  BY DEF Pulldown
<1>2. CASE t = s
  BY <1>2, SameIsStep
<1>3. CASE t = Follow(s, "pulldown", ~in.dropped, in.manual)
  <2>1. PICK bad \in BOOLEAN : bad = ~in.dropped
    OBVIOUS
  <2>2. /\ Step(s, Follow(s, "pulldown", bad, in.manual), in)
        /\ SameHigh(s, Follow(s, "pulldown", bad, in.manual))
    BY FollowStep
  <2> QED
    BY <1>3, <2>1, <2>2
<1>4. CASE t = Follow(s, "pulldown", FALSE, in.manual)
  BY <1>4, FollowStep
<1> QED
  BY <1>1, <1>2, <1>3, <1>4

\* The rate alarm: a stop of the compressor does not clear it in manual mode.
LEMMA RateFacts ==
  ASSUME NEW s, Typed(s), NEW in \in ReadingType, NEW t, t = Rate(s, in)
  PROVE  Step(s, t, in) /\ SameHigh(s, t)
<1>1. /\ "rate" \in Delaying /\ DelayOf("rate") = RateTime
      /\ "rate" \in Monitors \ {"continuous", "condBlock", "high"} /\ "high" \in Monitors
  BY DEF Delaying, DelayOf, Monitors
<1>2. PICK manual \in BOOLEAN : manual = in.manual
  BY DEF ReadingType
<1>3. CASE ~(in.comp /\ ~SuppressHigh(s, in))
  <2> DEFINE on == (s.on["rate"] /\ manual)
             a == SetAlarm(s, "rate", on, 0)
             ready == (s.rateReady /\ in.comp)
  <2>1. a = SetAlarm(s, "rate", s.on["rate"] /\ in.manual, 0)
    BY <1>2
  <2>2. t = [a EXCEPT !.rateReady = a.rateReady /\ in.comp]
    BY <1>3, <2>1 DEF Rate
  <2>3. Writes(s, a, "rate", on, 0) /\ on \in BOOLEAN /\ WaitsAs("rate", on, 0)
    BY DEF SetAlarm, Writes, WaitsAs
  <2>4. s.on["rate"] /\ manual => on
    OBVIOUS
  <2>5. 0 \in 0..WaitCap
    BY Bounds
  <2> HIDE DEF on, a
  <2>6. Typed(a) /\ Alone(s, a, "rate")
    BY <1>1, <2>3, <2>5, WriteOne
  <2>7. a.on["rate"] <=> on
    BY <1>1, <2>3, AlarmFields DEF ProtectionType, Writes
  <2>8. Step(s, a, in) /\ SameHigh(s, a)
    BY <1>1, <1>2, <2>4, <2>6, <2>7, OneIsStep DEF SameHigh, Alone
  <2>9. (a.rateReady /\ in.comp) \in BOOLEAN /\ a \in ProtectionType
    BY <2>6, AlarmFields
  <2>10. /\ t \in ProtectionType
         /\ SameEscalation(a, t) /\ SameDefrost(a, t) /\ t.keyReset = a.keyReset
         /\ t.on = a.on /\ t.wait = a.wait
    BY <2>2, <2>9 DEF ProtectionType, SameEscalation, SameDefrost
  <2>11. Step(a, t, in) /\ SameHigh(a, t)
    BY <2>6, <2>10, SilentStep
  <2> QED
    BY <2>8, <2>11, StepTrans DEF SameHigh
<1>4. CASE in.comp /\ ~SuppressHigh(s, in) /\ ~s.rateReady
  <2>1. t = [s EXCEPT !.rateReady = TRUE]
    BY <1>4 DEF Rate
  <2>2. s \in ProtectionType /\ TRUE \in BOOLEAN
    BY AlarmFields
  <2>3. t \in ProtectionType
    BY <2>1, <2>2 DEF ProtectionType
  <2>4. /\ SameEscalation(s, t) /\ SameDefrost(s, t) /\ t.keyReset = s.keyReset
        /\ t.on = s.on /\ t.wait = s.wait
    BY <2>1, <2>2 DEF ProtectionType, SameEscalation, SameDefrost
  <2> QED
    BY <2>3, <2>4, SilentStep
<1>5. CASE in.comp /\ ~SuppressHigh(s, in) /\ s.rateReady
  <2>1. PICK bad \in BOOLEAN : bad = in.rising
    BY DEF ReadingType
  <2>2. t = Delayed(s, "rate", FALSE, bad, DelayOf("rate"), manual)
    BY <1>1, <1>2, <1>5, <2>1 DEF Rate
  <2> QED
    BY <1>1, <1>2, <2>2, DelayedStep
<1> QED
  BY <1>3, <1>4, <1>5

-----------------------------------------------------------------------------
(* The steps: the escalation                                               *)

\* The rule is suspended, or has nothing to do.
Waits(s, t, in) ==
  /\ t.run = s.run /\ t.forced = s.forced /\ t.forcedTimer = s.forcedTimer
  /\ t.count = s.count /\ t.locked = s.locked
  /\ in.comp /\ s.run > MaxRun /\ ~Guarded(s, in) => s.forced \/ s.locked

Ticks(s, t) ==
  /\ s.forced /\ t.forced /\ t.run = s.run /\ t.forcedTimer = s.forcedTimer + 1
  /\ t.count = s.count /\ t.locked = s.locked

Releases(s, t) ==
  /\ s.forced /\ s.forcedTimer + 1 >= ForcedOff /\ ~t.forced
  /\ t.run = 0 /\ t.count = s.count + 1 /\ (t.locked <=> s.count + 1 >= MaxRetries)

Forces(s, t, in) ==
  /\ ~s.forced /\ in.comp /\ s.run > MaxRun
  /\ t.forced /\ t.forcedTimer = 0
  /\ t.run = s.run /\ t.count = s.count /\ t.locked = s.locked

Stops(s, t, in) ==
  /\ ~s.forced /\ ~in.comp /\ ~t.forced /\ t.run = s.run /\ t.locked = s.locked
  /\ ~s.locked
  /\ t.count = IF 0 < s.lastRun /\ s.lastRun < MaxRun THEN 0 ELSE s.count

Escalated(s, t, in) ==
  /\ t.comp = s.comp /\ t.lastRun = s.lastRun
  /\ Waits(s, t, in) \/ Ticks(s, t) \/ Releases(s, t) \/ Forces(s, t, in) \/ Stops(s, t, in)

EscalationIs(s, t, on, forced, timer, count, run, locked, start) ==
  t = [s EXCEPT !.on = [s.on EXCEPT !["continuous"] = on],
                !.forced = forced, !.forcedTimer = timer, !.count = count,
                !.run = run, !.locked = locked, !.defrostStart = start]

EscalationHas(s, t, on, forced, timer, count, run, locked) ==
  /\ t.comp = s.comp /\ t.lastRun = s.lastRun /\ t.run = run
  /\ (t.forced <=> forced) /\ t.forcedTimer = timer /\ t.count = count
  /\ (t.locked <=> locked) /\ (t.on["continuous"] <=> on)

\* Fields of the escalation written; the alarm of the long run with them.
LEMMA EscalationWritten ==
  ASSUME NEW s, Typed(s), NEW in \in ReadingType,
         NEW on \in BOOLEAN, NEW forced \in BOOLEAN, NEW locked \in BOOLEAN,
         NEW start \in BOOLEAN, NEW timer \in 0..ForcedOff, NEW count \in 0..MaxRetries,
         NEW run \in 0..RunCap, NEW t,
         EscalationIs(s, t, on, forced, timer, count, run, locked, start)
  PROVE  /\ t \in ProtectionType /\ Beside(s, t, in) /\ WaitInv(t)
         /\ EscalationHas(s, t, on, forced, timer, count, run, locked)
<1> DEFINE f == [s.on EXCEPT !["continuous"] = on]
           a == [s EXCEPT !.on = f, !.forced = forced, !.forcedTimer = timer]
<1>1. s \in ProtectionType /\ s.on \in [Monitors -> BOOLEAN] /\ "continuous" \in Monitors
  BY AlarmFields
<1>2. /\ f \in [Monitors -> BOOLEAN] /\ (f["continuous"] <=> on)
      /\ \A k \in Monitors \ {"continuous"} : f[k] = s.on[k]
  BY <1>1
<1>3. a \in ProtectionType
  <2> HIDE DEF f
  <2> QED
    BY <1>1, <1>2 DEF ProtectionType
<1>4. t = [a EXCEPT !.count = count, !.run = run, !.locked = locked, !.defrostStart = start]
  BY DEF EscalationIs
<1>5. t \in ProtectionType
  <2> HIDE DEF a
  <2> QED
    BY <1>3, <1>4 DEF ProtectionType
<1> HIDE DEF f
<1>6. /\ t.comp = s.comp /\ t.lastRun = s.lastRun /\ t.run = run
      /\ (t.forced <=> forced) /\ t.forcedTimer = timer /\ t.count = count
      /\ (t.locked <=> locked) /\ t.on = f /\ t.wait = s.wait
      /\ SameDefrost(s, t) /\ t.keyReset = s.keyReset
  <2>1. t = [s EXCEPT !.on = f, !.forced = forced, !.forcedTimer = timer, !.count = count,
                      !.run = run, !.locked = locked, !.defrostStart = start]
    BY DEF f, EscalationIs
  <2>2. t.run = run /\ t.forcedTimer = timer /\ t.count = count /\ t.on = f
    BY <1>1, <2>1 DEF ProtectionType
  <2>3. (t.forced <=> forced) /\ (t.locked <=> locked)
    BY <1>1, <2>1 DEF ProtectionType
  <2>4. /\ t.comp = s.comp /\ t.lastRun = s.lastRun /\ t.wait = s.wait
        /\ SameDefrost(s, t) /\ t.keyReset = s.keyReset
    BY <1>1, <2>1 DEF ProtectionType, SameDefrost
  <2> QED
    BY <2>2, <2>3, <2>4
<1>7. /\ Latching \cup {"condBlock", "high"} \subseteq Monitors \ {"continuous"}
      /\ Delaying \subseteq Monitors \ {"continuous"}
  BY DEF Latching, Monitors, Delaying
<1>8. Beside(s, t, in)
  BY <1>2, <1>6, <1>7 DEF Beside, SameHigh, KeepsAlarms
<1>9. WaitInv(t)
  BY <1>2, <1>6, <1>7 DEF WaitInv, Typed
<1> QED
  BY <1>2, <1>5, <1>6, <1>8, <1>9 DEF EscalationHas

\* A forced stop is timed, released and counted; a long run is stopped; a short
\* one that ended by itself starts the count over.
LEMMA EscalateFacts ==
  ASSUME NEW s, Typed(s), NEW in \in ReadingType, NEW t, t = Escalate(s, in)
  PROVE  Typed(t) /\ Beside(s, t, in) /\ Escalated(s, t, in)
<1>1. /\ s \in ProtectionType /\ s.on \in [Monitors -> BOOLEAN] /\ "continuous" \in Monitors
      /\ s.forced \in BOOLEAN /\ s.locked \in BOOLEAN /\ s.defrostStart \in BOOLEAN
      /\ s.forcedTimer \in 0..ForcedOff /\ s.count \in 0..MaxRetries /\ s.run \in 0..RunCap
      /\ s.lastRun \in 0..RunCap /\ s.on["continuous"] \in BOOLEAN
      /\ TRUE \in BOOLEAN /\ FALSE \in BOOLEAN
      /\ 0 \in 0..ForcedOff /\ 0 \in 0..MaxRetries /\ 0 \in 0..RunCap
      /\ ForcedOff \in Nat \ {0} /\ MaxRetries \in Nat \ {0} /\ MaxRun \in Nat
  <2>1. s \in ProtectionType /\ s.on \in [Monitors -> BOOLEAN] /\ "continuous" \in Monitors
    BY AlarmFields
  <2> QED
    BY <2>1, Bounds DEF ProtectionType
<1>2. /\ s.forced => ~s.locked /\ s.forcedTimer < ForcedOff
      /\ ~s.locked => s.count < MaxRetries
      /\ s.on["continuous"] => s.forced
  BY DEF Typed, CountInv
<1>3. CASE t = s /\ (in.comp /\ s.run > MaxRun /\ ~Guarded(s, in) => s.forced \/ s.locked)
  <2>1. Waits(s, t, in)
    BY <1>3 DEF Waits
  <2> QED
    BY <1>3, <2>1
       DEF Escalated, Beside, SameDefrost, SameHigh, KeepsAlarms
<1>4. CASE s.forced /\ s.forcedTimer + 1 < ForcedOff /\ t = [s EXCEPT !.forcedTimer = @ + 1]
  <2>1. s.forcedTimer + 1 \in 0..ForcedOff
    BY <1>1, <1>4
  <2>2. t \in ProtectionType
    BY <1>1, <1>4, <2>1 DEF ProtectionType
  <2>3. /\ t.comp = s.comp /\ t.lastRun = s.lastRun /\ t.run = s.run /\ t.forced = s.forced
        /\ t.forcedTimer = s.forcedTimer + 1 /\ t.count = s.count /\ t.locked = s.locked
        /\ t.on = s.on /\ t.wait = s.wait /\ SameDefrost(s, t) /\ t.keyReset = s.keyReset
    BY <1>1, <1>4 DEF ProtectionType, SameDefrost
  <2>4. Ticks(s, t)
    BY <1>4, <2>3 DEF Ticks
  <2>5. Typed(t)
    BY <1>4, <2>2, <2>3 DEF Typed, WaitInv, CountInv
  <2> QED
    BY <2>3, <2>4, <2>5 DEF Escalated, Beside, SameHigh, KeepsAlarms
<1>5. CASE s.forced /\ s.forcedTimer + 1 >= ForcedOff /\ t = Release(s, in)
  <2> DEFINE no == FALSE
             last == (s.count + 1 >= MaxRetries)
             locked == (s.locked \/ last)
             start == (in.iced /\ s.count + 1 < MaxRetries)
             next == s.count + 1
  <2>1. /\ no \in BOOLEAN /\ locked \in BOOLEAN /\ start \in BOOLEAN
        /\ s.forcedTimer \in 0..ForcedOff /\ next \in 0..MaxRetries /\ 0 \in 0..RunCap
    BY <1>1, <1>2, <1>5
  <2>a. (~last => s.count + 1 < MaxRetries) /\ (locked <=> last)
    BY <1>1, <1>2, <1>5
  <2>2. EscalationIs(s, t, no, no, s.forcedTimer, next, 0, locked, start)
    <3>1. t = [s EXCEPT !.forced = FALSE, !.count = s.count + 1, !.run = 0,
                        !.on["continuous"] = FALSE, !.locked = locked, !.defrostStart = start]
      BY <1>5 DEF Release
    <3> HIDE DEF locked, start
    <3> QED
      BY <1>1, <3>1 DEF ProtectionType, EscalationIs
  <2> HIDE DEF no, last, locked, start, next
  <2>3. /\ t \in ProtectionType /\ Beside(s, t, in) /\ WaitInv(t)
        /\ EscalationHas(s, t, no, no, s.forcedTimer, next, 0, locked)
    BY <2>1, <2>2, EscalationWritten
  <2>4. Releases(s, t)
    BY <1>5, <2>a, <2>3 DEF Releases, EscalationHas, last, no, next
  <2>5. Typed(t)
    BY <1>1, <2>a, <2>3 DEF Typed, CountInv, EscalationHas, no, next
  <2> QED
    BY <2>3, <2>4, <2>5 DEF Escalated, EscalationHas
<1>6. CASE ~s.forced /\ ~s.locked /\ in.comp /\ s.run > MaxRun /\ t = ForceOff(s)
  <2> DEFINE yes == TRUE
  <2>1. EscalationIs(s, t, yes, yes, 0, s.count, s.run, s.locked, s.defrostStart)
    <3>1. t = [s EXCEPT !.on["continuous"] = TRUE, !.forced = TRUE, !.forcedTimer = 0]
      BY <1>6 DEF ForceOff
    <3> QED
      BY <1>1, <3>1 DEF ProtectionType, EscalationIs
  <2>a. yes \in BOOLEAN
    OBVIOUS
  <2> HIDE DEF yes
  <2>2. /\ t \in ProtectionType /\ Beside(s, t, in) /\ WaitInv(t)
        /\ EscalationHas(s, t, yes, yes, 0, s.count, s.run, s.locked)
    BY <1>1, <2>1, <2>a, EscalationWritten
  <2>3. t.locked = s.locked
    BY <1>1, <2>2 DEF ProtectionType, EscalationHas
  <2>4. Forces(s, t, in)
    BY <1>6, <2>2, <2>3 DEF Forces, EscalationHas, yes
  <2>5. Typed(t)
    BY <1>1, <1>2, <1>6, <2>2 DEF Typed, CountInv, EscalationHas, yes
  <2> QED
    BY <2>2, <2>4, <2>5 DEF Escalated, EscalationHas
<1>7. CASE ~s.forced /\ ~s.locked /\ ~in.comp /\ t = NormalStop(s, in)
  <2> DEFINE on == (s.on["continuous"] /\ in.manual)
             count == IF 0 < s.lastRun /\ s.lastRun < MaxRun THEN 0 ELSE s.count
  <2>1. /\ on \in BOOLEAN /\ s.forced \in BOOLEAN /\ s.locked \in BOOLEAN
        /\ s.defrostStart \in BOOLEAN /\ s.forcedTimer \in 0..ForcedOff
        /\ count \in 0..MaxRetries /\ s.run \in 0..RunCap
    BY <1>1
  <2>a. ~on /\ count <= s.count
    BY <1>1, <1>2, <1>7
  <2>2. EscalationIs(s, t, on, s.forced, s.forcedTimer, count, s.run, s.locked,
                     s.defrostStart)
    <3>1. t = [s EXCEPT !.on["continuous"] = on, !.count = count]
      BY <1>7 DEF NormalStop
    <3> HIDE DEF on, count
    <3> QED
      BY <1>1, <3>1 DEF ProtectionType, EscalationIs
  <2>3. count = IF 0 < s.lastRun /\ s.lastRun < MaxRun THEN 0 ELSE s.count
    OBVIOUS
  <2> HIDE DEF on, count
  <2>4. /\ t \in ProtectionType /\ Beside(s, t, in) /\ WaitInv(t)
        /\ EscalationHas(s, t, on, s.forced, s.forcedTimer, count, s.run, s.locked)
    BY <2>1, <2>2, EscalationWritten
  <2>5. t.locked = s.locked
    BY <1>1, <2>4 DEF ProtectionType, EscalationHas
  <2>6. Stops(s, t, in)
    <3>1. t.count = IF 0 < s.lastRun /\ s.lastRun < MaxRun THEN 0 ELSE s.count
      BY <2>3, <2>4 DEF EscalationHas
    <3>2. ~t.forced /\ t.run = s.run
      BY <1>7, <2>4 DEF EscalationHas
    <3> QED
      BY <1>7, <2>5, <3>1, <3>2 DEF Stops
  <2>7. Typed(t)
    <3>1. t.count < MaxRetries
      <4>1. t.count = count /\ s.count < MaxRetries
        BY <1>2, <1>7, <2>4 DEF EscalationHas
      <4> QED
        BY <1>1, <2>1, <2>a, <4>1
    <3>2. ~t.forced /\ ~t.on["continuous"]
      BY <1>7, <2>a, <2>4 DEF EscalationHas
    <3> QED
      BY <2>4, <3>1, <3>2 DEF Typed, CountInv
  <2> QED
    BY <2>4, <2>6, <2>7 DEF Escalated, EscalationHas
<1> QED
  <2>1. CASE Guarded(s, in)
    BY <1>3, <2>1 DEF Escalate
  <2>2. CASE ~Guarded(s, in) /\ s.forced
    BY <1>1, <1>4, <1>5, <2>2 DEF Escalate
  <2>3. CASE ~Guarded(s, in) /\ ~s.forced /\ s.locked
    BY <1>3, <2>3 DEF Escalate
  <2>4. CASE ~Guarded(s, in) /\ ~s.forced /\ ~s.locked
    BY <1>2, <1>3, <1>6, <1>7, <2>4 DEF Escalate
  <2> QED
    BY <2>1, <2>2, <2>3, <2>4

-----------------------------------------------------------------------------
(* The steps: an update's last ones                                        *)

Owner == unit.primary /\ unit.compressor

\* The compressor's part: a run tracked, then escalated; on another unit nothing.
LEMMA CompressorFacts ==
  ASSUME NEW s, Typed(s), NEW in \in ReadingType, NEW t \in Compressor(s, in)
  PROVE  /\ Typed(t) /\ Beside(s, t, in)
         /\ Owner => \E b : Typed(b) /\ b.ccOn = s.ccOn /\ Tracked(s, b, in)
                            /\ Escalated(b, t, in)
         /\ ~Owner => SameEscalation(s, t)
<1>1. CASE ~Owner
  <2>1. t = s
    BY <1>1 DEF Owner, Compressor
  <2> QED
    BY <1>1, <2>1 DEF Beside, SameDefrost, SameHigh, KeepsAlarms, SameEscalation
<1>2. CASE Owner
  <2> DEFINE a == Track(s, in)
             b == Cycling(a, in)
             c == Escalate(b, in)
             d == Pulldown(c, in)
  <2>1. t = IF unit.rate THEN Rate(d, in) ELSE d
    BY <1>2 DEF Owner, Compressor
  <2>2. a = Track(s, in) /\ b = Cycling(a, in) /\ c = Escalate(b, in) /\ d = Pulldown(c, in)
    OBVIOUS
  <2> HIDE DEF a, b, c, d
  <2>3. Typed(a) /\ Beside(s, a, in) /\ Tracked(s, a, in)
    BY <2>2, TrackFacts
  <2>4. Step(a, b, in) /\ SameHigh(a, b) /\ Typed(b)
    BY <2>2, <2>3, CyclingFacts DEF Step
  <2>5. Typed(c) /\ Beside(b, c, in) /\ Escalated(b, c, in)
    BY <2>2, <2>4, EscalateFacts
  <2>6. Step(c, d, in) /\ SameHigh(c, d) /\ Typed(d)
    BY <2>2, <2>5, PulldownFacts DEF Step
  <2>7. Step(d, t, in) /\ SameHigh(d, t)
    <3>1. CASE unit.rate
      BY <2>1, <2>6, <3>1, RateFacts
    <3>2. CASE ~unit.rate
      BY <2>1, <2>6, <3>2, SameIsStep
    <3> QED
      BY <3>1, <3>2
  <2>8. Step(c, t, in) /\ SameHigh(c, t)
    BY <2>6, <2>7, StepTrans DEF SameHigh
  <2>9. Tracked(s, b, in) /\ b.ccOn = s.ccOn
    BY <2>3, <2>4 DEF Tracked, Step, SameEscalation, SameDefrost, Beside
  <2>10. Escalated(b, t, in)
    BY <2>5, <2>8 DEF Escalated, Step, SameEscalation, Waits, Ticks, Releases, Forces, Stops
  <2>11. Beside(s, t, in)
    <3>1. Beside(a, b, in) /\ Beside(c, t, in)
      BY <2>4, <2>8 DEF Beside, Step
    <3> QED
      BY <2>3, <2>5, <3>1 DEF Beside, SameDefrost, SameHigh, KeepsAlarms
  <2> QED
    BY <1>2, <2>4, <2>8, <2>9, <2>10, <2>11 DEF Step
<1> QED
  BY <1>1, <1>2

\* The HACCP alarms are nobody else's.
LEMMA HaccpFacts ==
  ASSUME NEW s, Typed(s), NEW in \in ReadingType, NEW t, t = Haccp(s, in)
  PROVE  Step(s, t, in) /\ SameHigh(s, t)
<1>1. CASE HaccpDelay = 0
  <2>1. t = s
    BY <1>1 DEF Haccp
  <2> QED
    BY <2>1, SameIsStep
<1>2. CASE HaccpDelay # 0
  <2> DEFINE ha == (s.on["high"] /\ in.ok)
             n == IF ha THEN AtMost(s.wait["ha"] + 1, HaccpDelay) ELSE 0
             on == (ha /\ (s.on["ha"] \/ n >= HaccpDelay))
             hot == (in.temp = "high")
             hf == IF in.ok THEN hot /\ (s.on["hf"] \/ ~s.hfChecked) ELSE s.on["hf"]
             checked == (s.hfChecked \/ in.ok)
             a == [s EXCEPT !.on["ha"] = on, !.wait["ha"] = n]
             b == [a EXCEPT !.hfChecked = checked]
  <2>1. /\ "ha" \in Monitors \ ({"continuous"} \cup Delaying)
        /\ "hf" \in Monitors \ ({"continuous"} \cup Delaying)
        /\ {"ha", "hf"} \cap (Latching \cup {"condBlock", "high"}) = {}
        /\ "high" \in Monitors
    BY DEF Monitors, Delaying, Latching
  <2>2. /\ s \in ProtectionType /\ s.on \in [Monitors -> BOOLEAN]
        /\ s.wait \in [Monitors -> 0..WaitCap] /\ s.hfChecked \in BOOLEAN
        /\ in.ok \in BOOLEAN /\ s.wait["ha"] \in Nat
        /\ HaccpDelay \in Nat /\ WaitCap \in Nat /\ HaccpDelay <= WaitCap
    <3>1. s \in ProtectionType /\ s.on \in [Monitors -> BOOLEAN]
          /\ s.wait \in [Monitors -> 0..WaitCap]
      BY AlarmFields
    <3>2. s.wait["ha"] \in Nat
      BY <2>1, <3>1, Bounds
    <3> QED
      BY <3>1, <3>2, Bounds DEF ProtectionType, ReadingType
  <2>3. n \in 0..WaitCap
    <3>1. s.wait["ha"] + 1 \in Nat
      BY <2>2
    <3>2. AtMost(s.wait["ha"] + 1, HaccpDelay) \in 0..HaccpDelay
      BY <2>2, <3>1, AtMostFacts
    <3> QED
      BY <2>2, <3>2
  <2>4. on \in BOOLEAN /\ checked \in BOOLEAN
    BY <2>2
  <2>5. hf \in BOOLEAN
    BY <2>1, <2>2
  <2>6. t = [s EXCEPT !.on["ha"] = on, !.wait["ha"] = n, !.hfChecked = checked,
                      !.on["hf"] = hf]
    BY <1>2 DEF Haccp
  <2> HIDE DEF ha, n, on, hot, hf, checked
  <2>7. Writes(s, a, "ha", on, n) /\ WaitsAs("ha", on, n) /\ "ha" \in Monitors \ {"continuous"}
    BY <2>1 DEF Writes, WaitsAs
  <2>8. Sets(b, t, "hf", hf)
    BY <2>2, <2>6 DEF Sets
  <2>9. b = [a EXCEPT !.hfChecked = checked]
    OBVIOUS
  <2> HIDE DEF a, b
  <2>10. Typed(a) /\ Alone(s, a, "ha")
    BY <2>3, <2>4, <2>7, WriteOne
  <2>11. Step(s, a, in) /\ SameHigh(s, a)
    BY <2>1, <2>7, <2>10, OneIsStep DEF SameHigh, Alone
  <2>12. a \in ProtectionType
    BY <2>10 DEF Typed
  <2>13. /\ b \in ProtectionType
         /\ SameEscalation(a, b) /\ SameDefrost(a, b) /\ b.keyReset = a.keyReset
         /\ b.on = a.on /\ b.wait = a.wait
    BY <2>4, <2>9, <2>12 DEF ProtectionType, SameEscalation, SameDefrost
  <2>14. Step(a, b, in) /\ SameHigh(a, b)
    BY <2>10, <2>13, SilentStep
  <2>15. Typed(b)
    BY <2>14 DEF Step
  <2>16. Typed(t) /\ Alone(b, t, "hf") /\ t.wait = b.wait
    BY <2>1, <2>5, <2>8, <2>15, WriteOn
  <2>17. Step(b, t, in) /\ SameHigh(b, t)
    BY <2>1, <2>15, <2>16, OneIsStep DEF SameHigh, Alone
  <2> QED
    BY <2>11, <2>14, <2>17, StepTrans DEF SameHigh
<1> QED
  BY <1>1, <1>2

\* What the Equipment Manager reads are the escalation's own flags.
LEMMA PublishFacts ==
  ASSUME NEW s, Typed(s), NEW in, NEW t, t = Publish(s)
  PROVE  /\ Step(s, t, in) /\ SameHigh(s, t)
         /\ t.keyLockout = t.locked /\ t.keyBlocked = t.forced
<1>1. s \in ProtectionType /\ s.locked \in BOOLEAN /\ s.forced \in BOOLEAN
  BY DEF Typed, ProtectionType
<1>2. t = [s EXCEPT !.keyLockout = s.locked, !.keyBlocked = s.forced]
  BY DEF Publish
<1>3. t \in ProtectionType
  BY <1>1, <1>2 DEF ProtectionType
<1>4. /\ SameEscalation(s, t) /\ SameDefrost(s, t) /\ t.keyReset = s.keyReset
      /\ t.on = s.on /\ t.wait = s.wait
  BY <1>1, <1>2 DEF ProtectionType, SameEscalation, SameDefrost
<1>5. t.keyLockout = s.locked /\ t.keyBlocked = s.forced
      /\ t.locked = s.locked /\ t.forced = s.forced
  BY <1>1, <1>2 DEF ProtectionType
<1> QED
  BY <1>3, <1>4, <1>5, SilentStep

-----------------------------------------------------------------------------
(* An update                                                               *)

Resets(s) == s.keyReset /\ AnyAlarm(s)

\* The time since the last defrost, as the alarm's suppression counts it.
CalmInv(s, calm) ==
  /\ s.wasDefrost => ~s.post
  /\ ~s.wasDefrost => calm >= IF s.post THEN s.postTimer ELSE PostDefrost

CalmAfter(in, calm) ==
  IF in.defrost = "off" THEN AtMost(calm + 1, PostDefrost) ELSE 0

\* The timer of the suppression counts no faster than the time since the defrost.
LEMMA PostDefrostCalm ==
  ASSUME NEW s, Typed(s), NEW in \in ReadingType, NEW calm \in 0..PostDefrost,
         CalmInv(s, calm), NEW t, t = PostDefrostTimer(s, in)
  PROVE  CalmInv(t, CalmAfter(in, calm)) /\ (t.wasDefrost <=> in.defrost # "off")
<1> DEFINE active == in.defrost # "off"
           edge   == active # s.wasDefrost
           on     == IF edge THEN ~active ELSE s.post
           timer  == (IF edge THEN 0 ELSE s.postTimer) + IF on THEN 1 ELSE 0
           short  == (on /\ timer < PostDefrost)
<1>1. /\ s \in ProtectionType /\ s.wasDefrost \in BOOLEAN /\ s.post \in BOOLEAN
      /\ s.postTimer \in 0..PostDefrost /\ PostDefrost \in Nat
  BY Bounds DEF Typed, ProtectionType
<1>2. timer \in Nat
  BY <1>1
<1>3. t = [s EXCEPT !.wasDefrost = active, !.post = short,
                    !.postTimer = AtMost(timer, PostDefrost)]
  BY DEF PostDefrostTimer
<1>4. t.postTimer = AtMost(timer, PostDefrost)
  <2> HIDE DEF timer, short, active
  <2> QED
    BY <1>1, <1>3 DEF ProtectionType
<1>5. (t.wasDefrost <=> active) /\ (t.post <=> short)
  <2> HIDE DEF timer, short, active
  <2> QED
    BY <1>1, <1>3 DEF ProtectionType
<1>6. CASE active
  <2>1. ~short
    BY <1>1, <1>6 DEF CalmInv
  <2> QED
    BY <1>5, <1>6, <2>1 DEF CalmInv
<1>7. CASE ~active
  <2>1. CalmAfter(in, calm) = AtMost(calm + 1, PostDefrost)
    BY <1>7 DEF CalmAfter
  <2>2. on => calm + 1 >= timer
    BY <1>1, <1>7 DEF CalmInv
  <2>3. ~on => calm >= PostDefrost
    BY <1>1, <1>7 DEF CalmInv
  <2>4. calm \in Nat
    BY <1>1
  <2> HIDE DEF on, timer
  <2>5. CASE short
    BY <1>1, <1>2, <1>4, <1>5, <1>7, <2>1, <2>2, <2>4, <2>5 DEF CalmInv, AtMost
  <2>6. CASE ~short
    BY <1>1, <1>2, <1>4, <1>5, <1>7, <2>1, <2>2, <2>3, <2>4, <2>6 DEF CalmInv, AtMost
  <2> QED
    BY <1>5, <1>7, <2>5, <2>6
<1> QED
  BY <1>6, <1>7

\* The first steps of an update: the timers of the suppression, then the reset.
LEMMA SuppressedFacts ==
  ASSUME NEW s, Typed(s), NEW in \in ReadingType, NEW t \in Suppressed(s, in)
  PROVE  /\ Typed(t) /\ ~t.keyReset
         /\ \A calm \in 0..PostDefrost : CalmInv(s, calm) =>
              CalmInv(t, CalmAfter(in, calm)) /\ (t.wasDefrost <=> in.defrost # "off")
         /\ ~Resets(s) => SameEscalation(s, t) /\ SameHigh(s, t) /\ t.on = s.on
         /\ Resets(s) =>
              /\ t.comp = s.comp /\ t.lastRun = s.lastRun /\ t.run = 0
              /\ ~t.forced /\ ~t.locked /\ t.count = 0 /\ t.forcedTimer = 0
              /\ ~t.on["high"] /\ t.wait["high"] = 0
<1> DEFINE a == PostDefrostTimer(s, in)
           b == ContinuousCycle(a, in)
<1>1. t = ResetCommand(b)
  BY DEF Suppressed
<1>2. a = PostDefrostTimer(s, in) /\ b = ContinuousCycle(a, in)
  OBVIOUS
<1>3. /\ Typed(a) /\ SameEscalation(s, a) /\ SameHigh(s, a) /\ a.on = s.on
      /\ a.keyReset = s.keyReset
  BY PostDefrostFacts
<1>4. ASSUME NEW calm \in 0..PostDefrost, CalmInv(s, calm)
      PROVE  CalmInv(a, CalmAfter(in, calm)) /\ (a.wasDefrost <=> in.defrost # "off")
  BY <1>4, PostDefrostCalm
<1> HIDE DEF a
<1>5. /\ Typed(b) /\ SameEscalation(a, b) /\ SameHigh(a, b) /\ b.on = a.on
      /\ b.keyReset = a.keyReset
      /\ b.wasDefrost = a.wasDefrost /\ b.post = a.post /\ b.postTimer = a.postTimer
  BY <1>3, ContinuousFacts
<1> HIDE DEF b
<1>6. Resets(b) <=> Resets(s)
  BY <1>3, <1>5 DEF Resets, AnyAlarm, SameEscalation
<1>7. /\ Typed(t) /\ SameDefrost(b, t) /\ ~t.keyReset
      /\ ~Resets(b) => SameEscalation(b, t) /\ SameHigh(b, t) /\ t.on = b.on
      /\ Resets(b) =>
           /\ t.comp = b.comp /\ t.lastRun = b.lastRun /\ t.run = 0
           /\ ~t.forced /\ ~t.locked /\ t.count = 0 /\ t.forcedTimer = 0
           /\ ~t.on["high"] /\ t.wait["high"] = 0
  BY <1>1, <1>5, ResetFacts DEF Resets
<1>8. ASSUME NEW calm \in 0..PostDefrost, CalmInv(s, calm)
      PROVE  CalmInv(t, CalmAfter(in, calm)) /\ (t.wasDefrost <=> in.defrost # "off")
  BY <1>4, <1>5, <1>7, <1>8 DEF CalmInv, SameDefrost
<1>9. ~Resets(s) => SameEscalation(s, t) /\ SameHigh(s, t) /\ t.on = s.on
  BY <1>3, <1>5, <1>6, <1>7 DEF SameEscalation, SameHigh
<1>10. Resets(s) => /\ t.comp = s.comp /\ t.lastRun = s.lastRun /\ t.run = 0
                    /\ ~t.forced /\ ~t.locked /\ t.count = 0 /\ t.forcedTimer = 0
                    /\ ~t.on["high"] /\ t.wait["high"] = 0
  BY <1>3, <1>5, <1>6, <1>7 DEF SameEscalation
<1> QED
  BY <1>7, <1>8, <1>9, <1>10

\* What is known of the escalation and of the alarms after an update.
EscalationStep(s, t, in) ==
  IF Owner
  THEN \E b : Typed(b) /\ b.ccOn = t.ccOn /\ Tracked(s, b, in) /\ Escalated(b, t, in)
  ELSE SameEscalation(s, t)

HighStep(s, t, in) ==
  /\ ~s.on["high"] /\ t.on["high"] =>
       /\ ~SuppressHigh(s, in) /\ in.ok /\ in.temp = "high"
       /\ s.wait["high"] + 1 >= HighDelay
  /\ ~t.on["high"] =>
       \/ t.wait["high"] = 0
       \/ /\ ~SuppressHigh(s, in) /\ in.ok /\ in.temp = "high"
          /\ ~s.on["high"] /\ t.wait["high"] = s.wait["high"] + 1

\* An update, seen from s, the record its suppression and its reset leave.
LEMMA UpdateFacts ==
  ASSUME Typed(pr), NEW in \in ReadingType, Update(in)
  PROVE  \E s :
           /\ Typed(s)
           /\ \A calm \in 0..PostDefrost : CalmInv(pr, calm) =>
                CalmInv(s, CalmAfter(in, calm)) /\ (s.wasDefrost <=> in.defrost # "off")
           /\ ~Resets(pr) => SameEscalation(pr, s) /\ SameHigh(pr, s) /\ s.on = pr.on
           /\ Resets(pr) =>
                /\ s.comp = pr.comp /\ s.lastRun = pr.lastRun /\ s.run = 0
                /\ ~s.forced /\ ~s.locked /\ s.count = 0 /\ s.forcedTimer = 0
                /\ ~s.on["high"] /\ s.wait["high"] = 0
           /\ Typed(pr') /\ SameDefrost(s, pr') /\ KeepsAlarms(s, pr', in)
           /\ EscalationStep(s, pr', in) /\ HighStep(s, pr', in)
           /\ pr'.keyLockout = pr'.locked /\ pr'.keyBlocked = pr'.forced
           /\ hist' = Record(in, pr')
<1> DEFINE a == [pr EXCEPT !.defrostStart = FALSE]
<1>s. PICK s \in Suppressed(a, in) :
        \E w \in Watched(s, in) : \E c \in Compressor(w, in) :
          pr' = Publish(Haccp(c, in)) /\ hist' = Record(in, pr')
  BY DEF Update
<1>w. PICK w \in Watched(s, in) : \E c \in Compressor(w, in) :
        pr' = Publish(Haccp(c, in)) /\ hist' = Record(in, pr')
  BY <1>s
<1>1. PICK c \in Compressor(w, in) :
        pr' = Publish(Haccp(c, in)) /\ hist' = Record(in, pr')
  BY <1>w
<1>2. pr \in ProtectionType /\ FALSE \in BOOLEAN
  BY DEF Typed
<1>3. /\ a \in ProtectionType /\ SameEscalation(pr, a) /\ SameDefrost(pr, a)
      /\ a.keyReset = pr.keyReset /\ a.on = pr.on /\ a.wait = pr.wait
  BY <1>2 DEF ProtectionType, SameEscalation, SameDefrost
<1> HIDE DEF a
<1>4. Typed(a) /\ SameHigh(pr, a)
  BY <1>3, SilentStep DEF Step
<1>5. Resets(a) <=> Resets(pr)
  BY <1>3 DEF Resets, AnyAlarm, SameEscalation
<1>6. /\ Typed(s) /\ ~s.keyReset
      /\ \A calm \in 0..PostDefrost : CalmInv(a, calm) =>
           CalmInv(s, CalmAfter(in, calm)) /\ (s.wasDefrost <=> in.defrost # "off")
      /\ ~Resets(a) => SameEscalation(a, s) /\ SameHigh(a, s) /\ s.on = a.on
      /\ Resets(a) =>
           /\ s.comp = a.comp /\ s.lastRun = a.lastRun /\ s.run = 0
           /\ ~s.forced /\ ~s.locked /\ s.count = 0 /\ s.forcedTimer = 0
           /\ ~s.on["high"] /\ s.wait["high"] = 0
  BY <1>4, SuppressedFacts
<1>7. Step(s, w, in) /\ HighStep(s, w, in) /\ Typed(w)
  BY <1>6, WatchedFacts DEF Step, HighStep
<1>8. /\ Typed(c) /\ Beside(w, c, in)
      /\ Owner => \E b : Typed(b) /\ b.ccOn = w.ccOn /\ Tracked(w, b, in)
                         /\ Escalated(b, c, in)
      /\ ~Owner => SameEscalation(w, c)
  BY <1>7, CompressorFacts
<1>9. /\ Step(c, pr', in) /\ SameHigh(c, pr')
      /\ pr'.keyLockout = pr'.locked /\ pr'.keyBlocked = pr'.forced
  <2> DEFINE h == Haccp(c, in)
  <2>1. Step(c, h, in) /\ SameHigh(c, h) /\ Typed(h)
    BY <1>8, HaccpFacts DEF Step
  <2>2. pr' = Publish(h)
    BY <1>1
  <2> HIDE DEF h
  <2>3. /\ Step(h, pr', in) /\ SameHigh(h, pr')
        /\ pr'.keyLockout = pr'.locked /\ pr'.keyBlocked = pr'.forced
    BY <2>1, <2>2, PublishFacts
  <2> QED
    BY <2>1, <2>3, StepTrans DEF SameHigh
<1>10. Typed(pr') /\ SameDefrost(s, pr')
  BY <1>7, <1>8, <1>9 DEF Step, Beside, SameDefrost
<1>11. KeepsAlarms(s, pr', in)
  BY <1>7, <1>8, <1>9 DEF Step, Beside, KeepsAlarms
<1>12. HighStep(s, pr', in)
  BY <1>7, <1>8, <1>9 DEF HighStep, Beside, SameHigh
<1>13. EscalationStep(s, pr', in)
  <2>1. CASE ~Owner
    BY <1>7, <1>8, <1>9, <2>1 DEF EscalationStep, Step, SameEscalation
  <2>2. CASE Owner
    <3>1. PICK b : Typed(b) /\ b.ccOn = w.ccOn /\ Tracked(w, b, in) /\ Escalated(b, c, in)
      BY <1>8, <2>2
    <3>2. Tracked(s, b, in)
      BY <1>7, <3>1 DEF Tracked, Step, SameEscalation
    <3>3. Escalated(b, pr', in)
      BY <1>9, <3>1
         DEF Escalated, Step, SameEscalation, Waits, Ticks, Releases, Forces, Stops
    <3>4. b.ccOn = pr'.ccOn
      BY <1>8, <1>9, <3>1 DEF Step, Beside, SameDefrost
    <3> QED
      BY <2>2, <3>1, <3>2, <3>3, <3>4 DEF EscalationStep
  <2> QED
    BY <2>1, <2>2
<1>14. \A calm \in 0..PostDefrost : CalmInv(pr, calm) =>
         CalmInv(s, CalmAfter(in, calm)) /\ (s.wasDefrost <=> in.defrost # "off")
  BY <1>3, <1>6 DEF CalmInv, SameDefrost
<1>15. ~Resets(pr) => SameEscalation(pr, s) /\ SameHigh(pr, s) /\ s.on = pr.on
  BY <1>3, <1>4, <1>5, <1>6 DEF SameEscalation, SameHigh
<1>16. Resets(pr) => /\ s.comp = pr.comp /\ s.lastRun = pr.lastRun /\ s.run = 0
                     /\ ~s.forced /\ ~s.locked /\ s.count = 0 /\ s.forcedTimer = 0
                     /\ ~s.on["high"] /\ s.wait["high"] = 0
  BY <1>3, <1>5, <1>6 DEF SameEscalation
<1> QED
  BY <1>1, <1>6, <1>9, <1>10, <1>11, <1>12, <1>13, <1>14, <1>15, <1>16

-----------------------------------------------------------------------------
(* History                                                                 *)

Released(new) == pr.forced /\ ~new.forced /\ ~Resets(pr)
Brief(new) == IF pr.comp /\ ~new.comp THEN hist.ran < MaxRun ELSE hist.briefStop
Since(n, new) ==
  IF Resets(pr) THEN 0 ELSE AtMost(n + (IF Released(new) THEN 1 ELSE 0), MaxRetries)
Awake(in, calm) ==
  IF in.defrost = "off" THEN calm >= PostDefrost ELSE in.defrost = "cold"
RanBefore == IF Resets(pr) THEN 0 ELSE hist.ran

\* The fields of a record, one by one.
LEMMA RecordFields ==
  ASSUME NEW in, NEW new, NEW r, r = Record(in, new)
  PROVE  /\ r.beat = ~hist.beat /\ r.manual = in.manual /\ r.guarded = Guarded(new, in)
         /\ r.condFailed = (in.cond = "failed") /\ r.reset = Resets(pr)
         /\ r.ran = IF ~new.comp \/ Released(new) THEN 0
                    ELSE AtMost(RanBefore + 1, MaxRun + 1)
         /\ r.briefStop = Brief(new)
         /\ r.held = IF pr.forced /\ new.forced THEN AtMost(hist.held + 1, ForcedOff) ELSE 0
         /\ r.ends = Since(hist.ends, new)
         /\ r.row = IF ~new.comp /\ Brief(new) /\ ~pr.forced THEN 0
                    ELSE Since(hist.row, new)
         /\ r.calm = CalmAfter(in, hist.calm)
         /\ r.hot = IF in.ok /\ in.temp = "high" /\ Awake(in, CalmAfter(in, hist.calm))
                    THEN AtMost((IF Resets(pr) THEN 0 ELSE hist.hot) + 1, HighDelay) ELSE 0
  BY DEF Record, Released, Brief, Since, Awake, RanBefore, CalmAfter, Resets

\* A record has its type.
LEMMA RecordType ==
  ASSUME hist \in HistoryType, pr \in ProtectionType, NEW in \in ReadingType,
         NEW new, new \in ProtectionType
  PROVE  Record(in, new) \in HistoryType
<1> DEFINE r == Record(in, new)
           reset    == Resets(pr)
           released == Released(new)
           brief    == Brief(new)
           normal   == ~new.comp /\ brief /\ ~pr.forced
           calm     == CalmAfter(in, hist.calm)
           awake    == Awake(in, calm)
           ran      == IF ~new.comp \/ released THEN 0
                       ELSE AtMost(RanBefore + 1, MaxRun + 1)
           held     == IF pr.forced /\ new.forced THEN AtMost(hist.held + 1, ForcedOff) ELSE 0
           ends     == Since(hist.ends, new)
           row      == IF normal THEN 0 ELSE Since(hist.row, new)
           hot      == IF in.ok /\ in.temp = "high" /\ awake
                       THEN AtMost((IF reset THEN 0 ELSE hist.hot) + 1, HighDelay) ELSE 0
<1>1. /\ hist.beat \in BOOLEAN /\ hist.briefStop \in BOOLEAN
      /\ hist.ran \in Nat /\ hist.held \in Nat /\ hist.ends \in Nat /\ hist.row \in Nat
      /\ hist.calm \in Nat /\ hist.hot \in Nat
      /\ in.manual \in BOOLEAN /\ in.cond \in {"none", "failed", "normal", "warm", "critical"}
      /\ new.ccOn \in BOOLEAN /\ pr.keyReset \in BOOLEAN
  BY Bounds DEF HistoryType, ReadingType, ProtectionType
<1>2. r = [beat |-> ~hist.beat, manual |-> in.manual, guarded |-> Guarded(new, in),
           condFailed |-> in.cond = "failed", reset |-> reset, ran |-> ran,
           briefStop |-> brief, held |-> held, ends |-> ends, row |-> row,
           calm |-> calm, hot |-> hot]
  BY DEF Record, Resets, Released, Brief, Since, Awake, CalmAfter, RanBefore
<1>3. /\ (~hist.beat) \in BOOLEAN /\ Guarded(new, in) \in BOOLEAN
      /\ (in.cond = "failed") \in BOOLEAN /\ reset \in BOOLEAN /\ brief \in BOOLEAN
  <2>1. Guarded(new, in) \in BOOLEAN
    BY DEF Guarded
  <2>2. reset \in BOOLEAN
    BY DEF Resets
  <2>3. brief \in BOOLEAN
    <3>1. (hist.ran < MaxRun) \in BOOLEAN
      OBVIOUS
    <3> QED
      BY <1>1, <3>1 DEF Brief
  <2>4. (~hist.beat) \in BOOLEAN /\ (in.cond = "failed") \in BOOLEAN
    OBVIOUS
  <2> QED
    BY <2>1, <2>2, <2>3, <2>4
<1>4. ran \in 0..MaxRun + 1
  <2>1. RanBefore + 1 \in Nat /\ MaxRun + 1 \in Nat
    BY <1>1, Bounds DEF RanBefore
  <2>2. AtMost(RanBefore + 1, MaxRun + 1) \in 0..MaxRun + 1
    BY <2>1, AtMostFacts
  <2> QED
    BY <2>1, <2>2
<1>5. held \in 0..ForcedOff
  <2>1. hist.held + 1 \in Nat /\ ForcedOff \in Nat
    BY <1>1, Bounds
  <2>2. AtMost(hist.held + 1, ForcedOff) \in 0..ForcedOff
    BY <2>1, AtMostFacts
  <2> QED
    BY <2>1, <2>2
<1>6. ASSUME NEW n \in Nat PROVE Since(n, new) \in 0..MaxRetries
  <2> DEFINE m == n + (IF Released(new) THEN 1 ELSE 0)
  <2>1. m \in Nat /\ MaxRetries \in Nat
    BY Bounds
  <2> HIDE DEF m
  <2>2. AtMost(m, MaxRetries) \in 0..MaxRetries
    BY <2>1, AtMostFacts
  <2> QED
    BY <2>1, <2>2 DEF Since, m
<1>7. ends \in 0..MaxRetries /\ row \in 0..MaxRetries
  <2>1. Since(hist.ends, new) \in 0..MaxRetries /\ Since(hist.row, new) \in 0..MaxRetries
    BY <1>1, <1>6
  <2> QED
    BY <2>1, Bounds
<1>8. calm \in 0..PostDefrost
  <2>1. hist.calm + 1 \in Nat /\ PostDefrost \in Nat
    BY <1>1, Bounds
  <2>2. AtMost(hist.calm + 1, PostDefrost) \in 0..PostDefrost
    BY <2>1, AtMostFacts
  <2> QED
    BY <2>1, <2>2 DEF CalmAfter
<1>9. hot \in 0..HighDelay
  <2> DEFINE m == (IF reset THEN 0 ELSE hist.hot) + 1
  <2>1. m \in Nat /\ HighDelay \in Nat
    BY <1>1, Bounds
  <2> HIDE DEF m
  <2>2. AtMost(m, HighDelay) \in 0..HighDelay
    BY <2>1, AtMostFacts
  <2> QED
    BY <2>1, <2>2 DEF m
<1> HIDE DEF r, ran, held, ends, row, calm, hot, reset, brief
<1> QED
  BY <1>1, <1>2, <1>3, <1>4, <1>5, <1>7, <1>8, <1>9 DEF HistoryType, r

-----------------------------------------------------------------------------
(* Types                                                                   *)

TypeInv == TypeOK /\ Typed(pr)

\* What a unit may read is a reading.
LEMMA ReadingsTyped ==
  ASSUME TypeInv, NEW in \in unit.readings
  PROVE  in \in ReadingType
  BY ProtectionUnits DEF TypeInv, TypeOK, UnitType

\* The module starts typed, and every step keeps it so.
LEMMA InitTyped == Init => TypeInv
<1> SUFFICES ASSUME Init PROVE TypeInv
  OBVIOUS
<1>1. [m \in Monitors |-> FALSE] \in [Monitors -> BOOLEAN]
  OBVIOUS
<1>2. [m \in Monitors |-> 0] \in [Monitors -> 0..WaitCap]
  BY Bounds
<1>3. pr \in ProtectionType
  <2> DEFINE f == [m \in Monitors |-> FALSE]
             g == [m \in Monitors |-> 0]
  <2>1. /\ 0 \in 0..PostDefrost /\ 0 \in 0..CycleBypass /\ 0 \in 0..DoorBlock
        /\ 0 \in 0..RunCap /\ 0 \in 0..OffCap /\ 0 \in 0..3 /\ 0 \in 0..Ring
        /\ 0 \in 0..ForcedOff /\ 0 \in 0..MaxRetries /\ FALSE \in BOOLEAN
    BY Bounds
  <2>2. f \in [Monitors -> BOOLEAN] /\ g \in [Monitors -> 0..WaitCap]
    BY <1>1, <1>2
  <2>3. pr = [on |-> f, wait |-> g,
           wasDefrost |-> FALSE, post |-> FALSE, postTimer |-> 0,
           ccOn |-> FALSE, ccBypass |-> 0, doorTimer |-> 0, doorBlocked |-> FALSE,
           hfChecked |-> FALSE, comp |-> FALSE, run |-> 0, off |-> 0,
           lastRun |-> 0, shorts |-> 0, starts |-> 0, rateReady |-> FALSE,
           forced |-> FALSE, forcedTimer |-> 0, count |-> 0, locked |-> FALSE,
           keyLockout |-> FALSE, keyBlocked |-> FALSE, keyReset |-> FALSE,
           defrostStart |-> FALSE]
    BY DEF Init
  <2> HIDE DEF f, g
  <2> QED
    BY <2>1, <2>2, <2>3 DEF ProtectionType
<1>4. hist \in HistoryType
  <2>1. /\ 0 \in 0..MaxRun + 1 /\ 0 \in 0..ForcedOff /\ 0 \in 0..MaxRetries
        /\ PostDefrost \in 0..PostDefrost /\ 0 \in 0..HighDelay /\ FALSE \in BOOLEAN
    BY Bounds
  <2> QED
    BY <2>1 DEF Init, HistoryType
<1>5. /\ \A m \in Monitors : pr.on[m] = FALSE /\ pr.wait[m] = 0
      /\ ~pr.forced /\ pr.count = 0 /\ "continuous" \in Monitors /\ Delaying \subseteq Monitors
  BY DEF Init, Monitors, Delaying
<1>6. Typed(pr)
  BY <1>3, <1>5, Bounds DEF Typed, WaitInv, CountInv
<1> QED
  BY <1>3, <1>4, <1>6 DEF TypeInv, TypeOK, Init

\* An update has the type of its last step; the keys are flags.
LEMMA NextTyped == TypeInv /\ [Next]_vars => TypeInv'
<1> SUFFICES ASSUME TypeInv, [Next]_vars PROVE TypeInv'
  OBVIOUS
<1>1. ASSUME NEW in \in unit.readings, Update(in) PROVE TypeInv'
  <2>1. in \in ReadingType
    BY ReadingsTyped
  <2>2. Typed(pr') /\ hist' = Record(in, pr')
    BY <1>1, <2>1, UpdateFacts DEF TypeInv
  <2>3. hist' \in HistoryType
    BY <2>1, <2>2, RecordType DEF TypeInv, TypeOK, Typed
  <2> QED
    BY <1>1, <2>2, <2>3 DEF TypeInv, TypeOK, Typed, Update
<1>2. CASE PressReset
  <2>1. pr' \in ProtectionType
    BY <1>2 DEF PressReset, TypeInv, TypeOK, ProtectionType
  <2>2. /\ pr'.on = pr.on /\ pr'.wait = pr.wait /\ pr'.forced = pr.forced
        /\ pr'.forcedTimer = pr.forcedTimer /\ pr'.locked = pr.locked /\ pr'.count = pr.count
    BY <1>2 DEF PressReset, TypeInv, TypeOK, ProtectionType
  <2> QED
    BY <1>2, <2>1, <2>2 DEF PressReset, TypeInv, TypeOK, Typed, WaitInv, CountInv
<1>3. CASE Restart
  <2>1. pr' \in ProtectionType
    BY <1>3 DEF Restart, TypeInv, TypeOK, ProtectionType
  <2>2. /\ pr'.on = pr.on /\ pr'.wait = pr.wait /\ pr'.forced = pr.forced
        /\ pr'.forcedTimer = pr.forcedTimer /\ pr'.locked = pr.locked /\ pr'.count = pr.count
    BY <1>3 DEF Restart, TypeInv, TypeOK, ProtectionType
  <2> QED
    BY <1>3, <2>1, <2>2 DEF Restart, TypeInv, TypeOK, Typed, WaitInv, CountInv
<1>4. CASE UNCHANGED vars
  BY <1>4 DEF vars, TypeInv, TypeOK, Typed, WaitInv, CountInv
<1> QED
  BY <1>1, <1>2, <1>3, <1>4 DEF Next, AnyUpdate

\* Every timer and counter stays within its bound, an alarm that is not raised has
\* waited for less than its delay, and the escalation's fields agree: a forced stop
\* is one of a compressor that is not locked out, and short of the last retry.
THEOREM TypeCorrect == Spec => []TypeInv
<1>1. Init => TypeInv
  BY InitTyped
<1>2. TypeInv /\ [Next]_vars => TypeInv'
  BY NextTyped
<1> QED
  BY <1>1, <1>2, PTL DEF Spec

-----------------------------------------------------------------------------
(* Alarms are held                                                         *)

\* With manual reset an alarm stays until the user resets it, and the condenser's
\* block is lifted by nothing else in either mode, except a sensor that fails:
\* no step of an update clears one, for any reading and on any unit.
THEOREM HeldTheorem == Spec => AlarmsHeld
<1> DEFINE Held ==
      /\ \A m \in Latching :
           pr.on[m] /\ ~pr'.on[m] => hist'.reset \/ ~hist'.manual
      /\ pr.on["condBlock"] /\ ~pr'.on["condBlock"] =>
           hist'.reset \/ hist'.condFailed
<1>1. TypeInv /\ [Next]_vars => [Held]_vars
  <2> SUFFICES ASSUME TypeInv, [Next]_vars PROVE Held \/ UNCHANGED vars
    OBVIOUS
  <2>1. ASSUME NEW in \in unit.readings, Update(in) PROVE Held
    <3>1. in \in ReadingType
      BY ReadingsTyped
    <3>2. PICK s : /\ ~Resets(pr) => s.on = pr.on
                   /\ KeepsAlarms(s, pr', in) /\ hist' = Record(in, pr')
      BY <2>1, <3>1, UpdateFacts DEF TypeInv
    <3>3. /\ hist'.manual = in.manual /\ hist'.condFailed = (in.cond = "failed")
          /\ hist'.reset = Resets(pr)
      BY <3>2, RecordFields
    <3>4. CASE Resets(pr)
      BY <3>3, <3>4
    <3>5. CASE ~Resets(pr)
      BY <3>2, <3>3, <3>5 DEF KeepsAlarms
    <3> QED
      BY <3>4, <3>5
  <2>2. CASE PressReset \/ Restart
    <3>1. pr'.on = pr.on
      BY <2>2 DEF PressReset, Restart, TypeInv, TypeOK, ProtectionType
    <3> QED
      BY <3>1
  <2> QED
    BY <2>1, <2>2 DEF Next, AnyUpdate
<1>2. Spec => [][Held]_vars
  BY <1>1, TypeCorrect, PTL DEF Spec
<1> QED
  BY <1>2 DEF AlarmsHeld

-----------------------------------------------------------------------------
(* The high temperature alarm                                              *)

\* The suppression is over no earlier than PostDefrost after a defrost, and an
\* alarm that is not raised has waited no longer than the readings were high.
HighInv ==
  /\ CalmInv(pr, hist.calm)
  /\ ~pr.on["high"] => pr.wait["high"] <= hist.hot

\* An update waits for the alarm while the reading is high and awake, and raises
\* it only when the readings have been that for HighDelay.
LEMMA HighUpdate ==
  ASSUME TypeInv, HighInv, NEW in \in ReadingType, Update(in)
  PROVE  HighInv' /\ (~pr.on["high"] /\ pr'.on["high"] => hist'.hot = HighDelay)
<1> DEFINE calm == CalmAfter(in, hist.calm)
           hot == IF Resets(pr) THEN 0 ELSE hist.hot
<1>1. PICK s :
        /\ Typed(s)
        /\ \A c \in 0..PostDefrost : CalmInv(pr, c) =>
             CalmInv(s, CalmAfter(in, c)) /\ (s.wasDefrost <=> in.defrost # "off")
        /\ ~Resets(pr) => SameHigh(pr, s)
        /\ Resets(pr) => ~s.on["high"] /\ s.wait["high"] = 0
        /\ Typed(pr') /\ SameDefrost(s, pr') /\ HighStep(s, pr', in)
        /\ hist' = Record(in, pr')
  BY UpdateFacts DEF TypeInv
<1>2. /\ hist.calm \in 0..PostDefrost /\ hist.hot \in 0..HighDelay /\ HighDelay \in Nat
      /\ PostDefrost \in Nat
  BY Bounds DEF TypeInv, TypeOK, HistoryType
<1>3. CalmInv(s, calm) /\ (s.wasDefrost <=> in.defrost # "off")
  BY <1>1, <1>2 DEF HighInv
<1>4. /\ hist'.calm = calm
      /\ hist'.hot = IF in.ok /\ in.temp = "high" /\ Awake(in, calm)
                     THEN AtMost(hot + 1, HighDelay) ELSE 0
  BY <1>1, RecordFields
<1>5. CalmInv(pr', hist'.calm)
  BY <1>1, <1>3, <1>4 DEF CalmInv, SameDefrost
<1>6. ~SuppressHigh(s, in) => Awake(in, calm)
  BY <1>3 DEF SuppressHigh, Awake, CalmInv, ReadingType
<1>7. ~s.on["high"] => s.wait["high"] <= hot
  BY <1>1, <1>2 DEF HighInv, SameHigh
<1>8. /\ s.wait["high"] \in Nat /\ pr'.wait["high"] \in Nat /\ "high" \in Delaying
      /\ DelayOf("high") = HighDelay
  <2>1. s.wait \in [Monitors -> 0..WaitCap] /\ pr'.wait \in [Monitors -> 0..WaitCap]
    BY <1>1, AlarmFields
  <2> QED
    BY <2>1, Bounds DEF Delaying, DelayOf, Monitors
<1>9. hot \in Nat
  BY <1>2
<1> HIDE DEF calm, hot
<1>10. CASE ~pr'.on["high"]
  <2>1. pr'.wait["high"] = 0 \/ pr'.wait["high"] < HighDelay
    BY <1>1, <1>8, <1>10 DEF Typed, WaitInv
  <2>2. pr'.wait["high"] <= hist'.hot
    <3>1. CASE pr'.wait["high"] = 0
      BY <1>2, <1>4, <1>9, <3>1 DEF AtMost
    <3>2. CASE pr'.wait["high"] # 0
      <4>1. /\ ~SuppressHigh(s, in) /\ in.ok /\ in.temp = "high"
            /\ ~s.on["high"] /\ pr'.wait["high"] = s.wait["high"] + 1
        BY <1>1, <1>10, <3>2 DEF HighStep
      <4>2. hist'.hot = AtMost(hot + 1, HighDelay)
        BY <1>4, <1>6, <4>1
      <4>3. s.wait["high"] <= hot
        BY <1>7, <4>1
      <4> QED
        BY <1>2, <1>8, <1>9, <2>1, <3>2, <4>1, <4>2, <4>3 DEF AtMost
    <3> QED
      BY <3>1, <3>2
  <2> QED
    BY <1>5, <1>10, <2>2 DEF HighInv
<1>11. CASE pr'.on["high"]
  <2>1. CASE s.on["high"]
    <3>1. ~Resets(pr) /\ pr.on["high"]
      BY <1>1, <2>1 DEF SameHigh
    <3> QED
      BY <1>5, <1>11, <3>1 DEF HighInv
  <2>2. CASE ~s.on["high"]
    <3>1. /\ ~SuppressHigh(s, in) /\ in.ok /\ in.temp = "high"
          /\ s.wait["high"] + 1 >= HighDelay
      BY <1>1, <1>11, <2>2 DEF HighStep
    <3>2. hist'.hot = AtMost(hot + 1, HighDelay)
      BY <1>4, <1>6, <3>1
    <3>3. s.wait["high"] <= hot
      BY <1>7, <2>2
    <3>4. hist'.hot = HighDelay
      BY <1>2, <1>8, <1>9, <3>1, <3>2, <3>3 DEF AtMost
    <3> QED
      BY <1>5, <1>11, <3>4 DEF HighInv
  <2> QED
    BY <2>1, <2>2
<1> QED
  BY <1>10, <1>11

\* The high temperature alarm is raised only by HighDelay readings in a row with a
\* healthy sensor, none of them in a heating phase or within PostDefrost of a
\* defrost's end.
THEOREM HighTheorem == Spec => HighSustained
<1>1. Init => HighInv
  BY Bounds DEF Init, HighInv, CalmInv, Monitors
<1>2. TypeInv /\ HighInv /\ [Next]_vars =>
        HighInv' /\ [~pr.on["high"] /\ pr'.on["high"] => hist'.hot = HighDelay]_vars
  <2> SUFFICES ASSUME TypeInv, HighInv, [Next]_vars
               PROVE  HighInv' /\ (\/ ~pr.on["high"] /\ pr'.on["high"] => hist'.hot = HighDelay
                                   \/ UNCHANGED vars)
    OBVIOUS
  <2>1. ASSUME NEW in \in unit.readings, Update(in)
        PROVE  HighInv' /\ (~pr.on["high"] /\ pr'.on["high"] => hist'.hot = HighDelay)
    BY <2>1, ReadingsTyped, HighUpdate
  <2>2. CASE PressReset \/ Restart
    <3>1. /\ pr'.on = pr.on /\ pr'.wait = pr.wait /\ pr'.wasDefrost = pr.wasDefrost
          /\ pr'.post = pr.post /\ pr'.postTimer = pr.postTimer /\ hist' = hist
      BY <2>2 DEF PressReset, Restart, TypeInv, TypeOK, ProtectionType
    <3> QED
      BY <3>1 DEF HighInv, CalmInv
  <2>3. CASE UNCHANGED vars
    BY <2>3 DEF vars, HighInv, CalmInv
  <2> QED
    BY <2>1, <2>2, <2>3 DEF Next, AnyUpdate
<1>3. Spec => [][~pr.on["high"] /\ pr'.on["high"] => hist'.hot = HighDelay]_vars
  BY <1>1, <1>2, TypeCorrect, PTL DEF Spec
<1> QED
  BY <1>3 DEF HighSustained

-----------------------------------------------------------------------------
(* The escalation                                                          *)

\* The run that is going on, as far as it counts, is the tracker's; a stop that
\* the tracker calls normal ended a run that was; and the retries lie between the
\* forced stops in a row and all of them since the reset.
EscalationInv ==
  /\ ~Owner => ~pr.comp /\ ~pr.forced /\ ~pr.locked /\ pr.count = 0
  /\ hist.ran = IF pr.comp THEN AtMost(pr.run, MaxRun + 1) ELSE 0
  /\ ~pr.comp /\ 0 < pr.lastRun /\ pr.lastRun < MaxRun => hist.briefStop
  /\ pr.count <= hist.ends
  /\ pr.locked => hist.ends = MaxRetries
  /\ ~pr.locked => hist.row <= pr.count
  /\ pr.forced => hist.held >= pr.forcedTimer
  /\ pr.keyBlocked => pr.forced

\* The same before the escalation's step, when the run has been tracked: b is the
\* record it starts from, t the one the update ends with.
Tallied(b, t) ==
  /\ t.comp => AtMost(b.run, MaxRun + 1) = AtMost(RanBefore + 1, MaxRun + 1)
  /\ ~t.comp /\ 0 < b.lastRun /\ b.lastRun < MaxRun => Brief(t)
  /\ b.count <= IF Resets(pr) THEN 0 ELSE hist.ends
  /\ b.locked => ~Resets(pr) /\ hist.ends = MaxRetries
  /\ ~b.locked => b.count < MaxRetries /\ (Resets(pr) \/ hist.row <= b.count)
  /\ b.forced => ~Resets(pr) /\ pr.forced /\ hist.held >= b.forcedTimer
  /\ ~b.forced => Resets(pr) \/ ~pr.forced
  /\ b.forced => b.forcedTimer < ForcedOff /\ ~b.locked

\* What the reset leaves of the invariant, and what the tracker makes of it.
LEMMA OwnerTallied ==
  ASSUME TypeInv, EscalationInv, Owner, NEW in \in ReadingType,
         NEW s, Typed(s), NEW b, Typed(b), NEW t, t.comp = b.comp,
         ~Resets(pr) => SameEscalation(pr, s),
         Resets(pr) =>
           /\ s.comp = pr.comp /\ s.lastRun = pr.lastRun /\ s.run = 0
           /\ ~s.forced /\ ~s.locked /\ s.count = 0 /\ s.forcedTimer = 0,
         Tracked(s, b, in)
  PROVE  Tallied(b, t)
<1>1. /\ s.run \in 0..RunCap /\ s.lastRun \in 0..RunCap /\ RunCap \in Nat /\ MaxRun \in Nat
      /\ RunCap > MaxRun /\ MaxRetries \in Nat \ {0} /\ s.count \in Nat
      /\ pr.run \in Nat /\ hist.ran \in Nat /\ hist.ends \in Nat /\ hist.row \in Nat
  BY Bounds DEF Typed, ProtectionType, TypeInv, TypeOK, HistoryType
<1>2. /\ b.comp = in.comp
      /\ b.run = IF in.comp THEN IF s.comp THEN AtMost(s.run + 1, RunCap) ELSE 1 ELSE s.run
      /\ b.lastRun = IF s.comp /\ ~in.comp THEN s.run ELSE s.lastRun
      /\ b.forced = s.forced /\ b.forcedTimer = s.forcedTimer
      /\ b.count = s.count /\ b.locked = s.locked
  BY DEF Tracked
<1>3. s.comp = pr.comp /\ s.lastRun = pr.lastRun
  BY DEF SameEscalation
<1>4. RanBefore = IF s.comp THEN AtMost(s.run, MaxRun + 1) ELSE 0
  <2>1. CASE Resets(pr)
    BY <1>1, <2>1 DEF RanBefore, AtMost
  <2>2. CASE ~Resets(pr)
    BY <1>1, <2>2 DEF RanBefore, SameEscalation, EscalationInv
  <2> QED
    BY <2>1, <2>2
<1>5. in.comp => AtMost(b.run, MaxRun + 1) = AtMost(RanBefore + 1, MaxRun + 1)
  <2>1. CASE ~s.comp
    BY <1>1, <1>2, <1>4, <2>1 DEF AtMost
  <2>2. CASE s.comp
    BY <1>1, <1>2, <1>4, <2>2 DEF AtMost
  <2> QED
    BY <2>1, <2>2
<1>6. ASSUME ~in.comp, 0 < b.lastRun, b.lastRun < MaxRun PROVE Brief(t)
  <2>1. CASE s.comp
    <3>0. b.lastRun = s.run
      BY <1>2, <1>6, <2>1
    <3>1. b.lastRun = s.run /\ ~Resets(pr)
      BY <1>1, <1>6, <3>0
    <3>2. hist.ran = AtMost(s.run, MaxRun + 1)
      BY <1>4, <2>1, <3>1 DEF RanBefore
    <3>3. hist.ran < MaxRun
      BY <1>1, <1>6, <3>1, <3>2 DEF AtMost
    <3> QED
      BY <1>2, <1>3, <1>6, <2>1, <3>3 DEF Brief
  <2>2. CASE ~s.comp
    <3>1. hist.briefStop
      BY <1>2, <1>3, <1>6, <2>2 DEF EscalationInv
    <3> QED
      BY <1>3, <2>2, <3>1 DEF Brief
  <2> QED
    BY <2>1, <2>2
<1>7. /\ b.count <= IF Resets(pr) THEN 0 ELSE hist.ends
      /\ b.locked => ~Resets(pr) /\ hist.ends = MaxRetries
      /\ ~b.locked => b.count < MaxRetries /\ (Resets(pr) \/ hist.row <= b.count)
      /\ b.forced => ~Resets(pr) /\ pr.forced /\ hist.held >= b.forcedTimer
      /\ ~b.forced => Resets(pr) \/ ~pr.forced
      /\ b.forced => b.forcedTimer < ForcedOff /\ ~b.locked
  <2>1. /\ b.forced => b.forcedTimer < ForcedOff /\ ~b.locked
        /\ ~b.locked => b.count < MaxRetries
    BY DEF Typed, CountInv
  <2>2. CASE Resets(pr)
    BY <1>1, <1>2, <2>1, <2>2
  <2>3. CASE ~Resets(pr)
    BY <1>1, <1>2, <2>1, <2>3 DEF SameEscalation, EscalationInv
  <2> QED
    BY <2>2, <2>3
<1> QED
  BY <1>2, <1>5, <1>6, <1>7 DEF Tallied

\* On a unit without a compressor nothing ever escalates.
LEMMA OtherTallied ==
  ASSUME TypeInv, EscalationInv, ~Owner, NEW s, Typed(s), NEW t, t.comp = s.comp,
         ~Resets(pr) => SameEscalation(pr, s),
         Resets(pr) =>
           /\ s.comp = pr.comp /\ s.lastRun = pr.lastRun /\ s.run = 0
           /\ ~s.forced /\ ~s.locked /\ s.count = 0 /\ s.forcedTimer = 0
  PROVE  Tallied(s, t) /\ ~s.comp /\ ~s.forced /\ ~s.locked /\ s.count = 0
<1>1. /\ s.comp = pr.comp /\ s.lastRun = pr.lastRun /\ ~s.forced /\ ~s.locked /\ s.count = 0
      /\ ~pr.comp /\ ~pr.forced /\ ~pr.locked /\ pr.count = 0
  BY DEF SameEscalation, EscalationInv
<1>2. hist.ends \in Nat /\ MaxRetries \in Nat \ {0}
  BY Bounds DEF TypeInv, TypeOK, HistoryType
<1>3. hist.row <= 0
  BY <1>1 DEF EscalationInv
<1>4. 0 < s.lastRun /\ s.lastRun < MaxRun => Brief(t)
  BY <1>1 DEF EscalationInv, Brief
<1> QED
  BY <1>1, <1>2, <1>3, <1>4 DEF Tallied

\* What an update promises about blocks, with the names of its history.
RunStep ==
  /\ ~pr.forced /\ pr'.keyBlocked => hist'.ran > MaxRun
  /\ hist'.ran > MaxRun /\ ~hist'.guarded => pr'.keyBlocked \/ pr'.keyLockout

BlockStep ==
  pr.keyBlocked /\ ~pr'.keyBlocked => hist'.reset \/ hist.held + 1 >= ForcedOff

\* The record of the history, for an escalation that has not released the stop.
LEMMA NotReleased ==
  ASSUME TypeInv, NEW in, NEW b, NEW t, Tallied(b, t), ~Released(t), hist' = Record(in, t)
  PROVE  /\ hist'.ran = IF t.comp THEN AtMost(b.run, MaxRun + 1) ELSE 0
         /\ hist'.ends = IF Resets(pr) THEN 0 ELSE hist.ends
         /\ hist'.row <= IF Resets(pr) THEN 0 ELSE hist.row
         /\ ~t.comp /\ Brief(t) /\ ~b.forced => hist'.row = 0
<1>1. /\ hist'.ran = IF ~t.comp \/ Released(t) THEN 0
                     ELSE AtMost(RanBefore + 1, MaxRun + 1)
      /\ hist'.ends = Since(hist.ends, t)
      /\ hist'.row = IF ~t.comp /\ Brief(t) /\ ~pr.forced THEN 0 ELSE Since(hist.row, t)
  BY RecordFields
<1>2. /\ hist.ends \in 0..MaxRetries /\ hist.row \in 0..MaxRetries /\ MaxRetries \in Nat
  BY Bounds DEF TypeInv, TypeOK, HistoryType
<1>3. ASSUME NEW n \in 0..MaxRetries
      PROVE  Since(n, t) = IF Resets(pr) THEN 0 ELSE n
  BY <1>2, <1>3 DEF Since, AtMost
<1>4. /\ Since(hist.ends, t) = IF Resets(pr) THEN 0 ELSE hist.ends
      /\ Since(hist.row, t) = IF Resets(pr) THEN 0 ELSE hist.row
  BY <1>2, <1>3
<1>5. hist'.ran = IF t.comp THEN AtMost(b.run, MaxRun + 1) ELSE 0
  BY <1>1 DEF Tallied
<1>6. hist'.row <= IF Resets(pr) THEN 0 ELSE hist.row
  BY <1>1, <1>2, <1>4
<1>7. ~t.comp /\ Brief(t) /\ ~b.forced => hist'.row = 0
  BY <1>1, <1>4 DEF Tallied
<1> QED
  BY <1>1, <1>4, <1>5, <1>6, <1>7

\* The invariant after an escalation of each kind, and its promise.
EscalationKept(t) ==
  /\ hist'.ran = IF t.comp THEN AtMost(t.run, MaxRun + 1) ELSE 0
  /\ t.count <= hist'.ends
  /\ t.locked => hist'.ends = MaxRetries
  /\ ~t.locked => hist'.row <= t.count
  /\ t.forced => hist'.held >= t.forcedTimer

\* Every kind of step keeps it.
LEMMA EscalationKeeps ==
  ASSUME TypeInv, NEW in \in ReadingType, NEW b, Typed(b), NEW t, Typed(t), Tallied(b, t),
         t.lastRun = b.lastRun, hist' = Record(in, t),
         \/ /\ t.run = b.run /\ t.forced = b.forced /\ t.forcedTimer = b.forcedTimer
            /\ t.count = b.count /\ t.locked = b.locked
         \/ Ticks(b, t)
         \/ Releases(b, t)
         \/ Forces(b, t, in)
         \/ Stops(b, t, in) /\ t.comp = in.comp
  PROVE  EscalationKept(t)
<1>1. /\ b.run \in Nat /\ b.count \in 0..MaxRetries /\ b.forcedTimer \in 0..ForcedOff
      /\ t.forcedTimer \in 0..ForcedOff /\ t.count \in 0..MaxRetries
      /\ hist.held \in 0..ForcedOff /\ hist.ends \in 0..MaxRetries
      /\ hist.row \in 0..MaxRetries /\ MaxRun \in Nat /\ ForcedOff \in Nat \ {0}
      /\ MaxRetries \in Nat \ {0}
  BY Bounds DEF Typed, ProtectionType, TypeInv, TypeOK, HistoryType
<1>2. hist'.held = IF pr.forced /\ t.forced THEN AtMost(hist.held + 1, ForcedOff) ELSE 0
  BY RecordFields
<1>3. ASSUME ~Released(t)
      PROVE  /\ hist'.ran = IF t.comp THEN AtMost(b.run, MaxRun + 1) ELSE 0
             /\ hist'.ends = IF Resets(pr) THEN 0 ELSE hist.ends
             /\ hist'.row <= IF Resets(pr) THEN 0 ELSE hist.row
             /\ ~t.comp /\ Brief(t) /\ ~b.forced => hist'.row = 0
             /\ hist'.row \in Nat
  <2>1. hist'.row \in Nat
    <3>1. hist' \in HistoryType
      BY RecordType DEF TypeInv, TypeOK, Typed
    <3> QED
      BY <3>1, <1>1 DEF HistoryType
  <2> QED
    BY <1>3, <2>1, NotReleased
<1>4. CASE /\ t.run = b.run /\ t.forced = b.forced /\ t.forcedTimer = b.forcedTimer
           /\ t.count = b.count /\ t.locked = b.locked
  <2>1. ~Released(t)
    BY <1>4 DEF Released, Tallied
  <2>2. t.forced => hist'.held >= t.forcedTimer
    BY <1>1, <1>2, <1>4 DEF Tallied, AtMost
  <2>3. ~t.locked => hist'.row <= t.count
    BY <1>1, <1>3, <1>4, <2>1 DEF Tallied
  <2> QED
    BY <1>1, <1>3, <1>4, <2>1, <2>2, <2>3 DEF Tallied, EscalationKept
<1>5. CASE Ticks(b, t)
  <2>1. ~Released(t)
    BY <1>5 DEF Released, Tallied, Ticks
  <2>2. t.forced => hist'.held >= t.forcedTimer
    BY <1>1, <1>2, <1>5 DEF Tallied, AtMost, Ticks
  <2>3. ~t.locked => hist'.row <= t.count
    BY <1>1, <1>3, <1>5, <2>1 DEF Tallied, Ticks
  <2> QED
    BY <1>1, <1>3, <1>5, <2>1, <2>2, <2>3 DEF Tallied, EscalationKept, Ticks
<1>6. CASE Forces(b, t, in)
  <2>1. ~Released(t)
    BY <1>6 DEF Released, Forces
  <2>2. hist'.held >= t.forcedTimer
    BY <1>1, <1>2, <1>6 DEF AtMost, Forces
  <2>3. ~t.locked => hist'.row <= t.count
    BY <1>1, <1>3, <1>6, <2>1 DEF Tallied, Forces
  <2> QED
    BY <1>1, <1>3, <1>6, <2>1, <2>2, <2>3 DEF Tallied, EscalationKept, Forces
<1>7. CASE Stops(b, t, in) /\ t.comp = in.comp
  <2>1. ~Released(t)
    BY <1>7 DEF Released, Tallied, Stops
  <2>2. ~t.comp /\ ~b.forced /\ ~t.forced /\ ~t.locked /\ t.run = b.run
    BY <1>7 DEF Stops
  <2>3. hist'.row <= t.count /\ t.count <= b.count
    <3>1. CASE 0 < b.lastRun /\ b.lastRun < MaxRun
      <4>1. hist'.row = 0 /\ t.count = 0
        BY <1>3, <1>7, <2>1, <2>2, <3>1 DEF Tallied, Stops
      <4> QED
        BY <1>1, <4>1
    <3>2. CASE ~(0 < b.lastRun /\ b.lastRun < MaxRun)
      <4>1. t.count = b.count /\ ~b.locked
        BY <1>7, <3>2 DEF Stops
      <4> QED
        BY <1>1, <1>3, <2>1, <4>1 DEF Tallied
    <3> QED
      BY <3>1, <3>2
  <2>4. t.count <= hist'.ends
    BY <1>1, <1>3, <2>1, <2>3 DEF Tallied
  <2> QED
    BY <1>3, <2>1, <2>2, <2>3, <2>4 DEF EscalationKept
<1>8. CASE Releases(b, t)
  <2>1. /\ ~Resets(pr) /\ pr.forced /\ ~b.locked /\ b.count < MaxRetries
        /\ b.count <= hist.ends /\ hist.row <= b.count
    BY <1>8 DEF Releases, Tallied
  <2>2. Released(t)
    BY <1>8, <2>1 DEF Released, Releases
  <2>3. /\ hist'.ran = 0 /\ hist'.ends = Since(hist.ends, t)
        /\ hist'.row = IF ~t.comp /\ Brief(t) /\ ~pr.forced THEN 0 ELSE Since(hist.row, t)
    BY <2>2, RecordFields
  <2>4. /\ hist'.ends = AtMost(hist.ends + 1, MaxRetries)
        /\ hist'.row = AtMost(hist.row + 1, MaxRetries)
    BY <2>1, <2>2, <2>3 DEF Since
  <2>5. /\ ~t.forced /\ t.run = 0 /\ t.count = b.count + 1
        /\ (t.locked <=> b.count + 1 >= MaxRetries)
    BY <1>8 DEF Releases
  <2>6. t.count <= hist'.ends /\ hist'.row <= t.count
    BY <1>1, <2>1, <2>4, <2>5 DEF AtMost
  <2>7. t.locked => hist'.ends = MaxRetries
    BY <1>1, <2>1, <2>4, <2>5 DEF AtMost
  <2>8. hist'.ran = IF t.comp THEN AtMost(t.run, MaxRun + 1) ELSE 0
    BY <1>1, <2>3, <2>5 DEF AtMost
  <2> QED
    BY <2>5, <2>6, <2>7, <2>8 DEF EscalationKept
<1> QED
  BY <1>4, <1>5, <1>6, <1>7, <1>8

\* An update keeps the invariant and both promises.
LEMMA EscalationUpdate ==
  ASSUME TypeInv, EscalationInv, NEW in \in ReadingType, Update(in)
  PROVE  EscalationInv' /\ RunStep /\ BlockStep
<1>1. PICK s :
        /\ Typed(s)
        /\ ~Resets(pr) => SameEscalation(pr, s)
        /\ Resets(pr) =>
             /\ s.comp = pr.comp /\ s.lastRun = pr.lastRun /\ s.run = 0
             /\ ~s.forced /\ ~s.locked /\ s.count = 0 /\ s.forcedTimer = 0
        /\ Typed(pr') /\ EscalationStep(s, pr', in)
        /\ pr'.keyLockout = pr'.locked /\ pr'.keyBlocked = pr'.forced
        /\ hist' = Record(in, pr')
  BY UpdateFacts DEF TypeInv
<1>2. hist'.reset = Resets(pr) /\ hist'.guarded = Guarded(pr', in)
      /\ hist'.briefStop = Brief(pr')
  BY <1>1, RecordFields
<1>3. unit' = unit
  BY DEF Update
<1>4. MaxRun \in Nat /\ ForcedOff \in Nat /\ hist.held \in Nat /\ pr'.run \in Nat
  BY <1>1, Bounds DEF TypeInv, TypeOK, HistoryType, Typed, ProtectionType
<1>5. CASE ~Owner
  <2>1. SameEscalation(s, pr')
    BY <1>1, <1>5 DEF EscalationStep
  <2>2. Tallied(s, pr') /\ ~s.comp /\ ~s.forced /\ ~s.locked /\ s.count = 0
    BY <1>1, <1>5, <2>1, OtherTallied DEF SameEscalation
  <2>3. EscalationKept(pr')
    BY <1>1, <2>1, <2>2, EscalationKeeps DEF SameEscalation
  <2>4. ~pr'.comp /\ ~pr'.forced /\ ~pr'.locked /\ pr'.count = 0
        /\ pr'.lastRun = s.lastRun
    BY <2>1, <2>2 DEF SameEscalation
  <2>5. EscalationInv'
    BY <1>1, <1>2, <1>3, <2>2, <2>3, <2>4 DEF EscalationInv, EscalationKept, Tallied, Owner
  <2>6. RunStep
    BY <1>1, <1>4, <2>3, <2>4 DEF RunStep, EscalationKept
  <2>7. BlockStep
    BY <1>5 DEF EscalationInv, BlockStep
  <2> QED
    BY <2>5, <2>6, <2>7
<1>6. CASE Owner
  <2>1. PICK b : Typed(b) /\ b.ccOn = pr'.ccOn /\ Tracked(s, b, in) /\ Escalated(b, pr', in)
    BY <1>1, <1>6 DEF EscalationStep
  <2>2. pr'.comp = b.comp /\ pr'.lastRun = b.lastRun /\ pr'.comp = in.comp
    BY <2>1 DEF Tracked, Escalated
  <2>3. Tallied(b, pr')
    BY <1>1, <1>6, <2>1, <2>2, OwnerTallied
  <2>4. \/ Waits(b, pr', in) \/ Ticks(b, pr') \/ Releases(b, pr')
        \/ Forces(b, pr', in) \/ Stops(b, pr', in)
    BY <2>1 DEF Escalated
  <2>5. EscalationKept(pr')
    BY <1>1, <2>1, <2>2, <2>3, <2>4, EscalationKeeps DEF Waits
  <2>6. EscalationInv'
    BY <1>1, <1>2, <1>3, <1>6, <2>2, <2>3, <2>5
       DEF EscalationInv, EscalationKept, Tallied, Owner
  <2>7. Guarded(pr', in) <=> Guarded(b, in)
    BY <2>1 DEF Guarded
  <2>8. b.run \in Nat
    BY <2>1, Bounds DEF Typed, ProtectionType
  <2>9. CASE Waits(b, pr', in)
    <3>1. RunStep
      BY <1>1, <1>2, <1>4, <2>2, <2>3, <2>5, <2>7, <2>8, <2>9
         DEF RunStep, Waits, EscalationKept, Tallied, AtMost
    <3>2. BlockStep
      BY <1>1, <1>2, <2>3, <2>9 DEF BlockStep, Waits, EscalationInv, Tallied
    <3> QED
      BY <2>6, <3>1, <3>2
  <2>10. CASE Ticks(b, pr')
    <3>1. RunStep
      BY <1>1, <2>3, <2>10 DEF RunStep, Ticks, Tallied
    <3>2. BlockStep
      BY <1>1, <2>10 DEF BlockStep, Ticks
    <3> QED
      BY <2>6, <3>1, <3>2
  <2>11. CASE Releases(b, pr')
    <3>1. Released(pr')
      BY <2>3, <2>11 DEF Releases, Released, Tallied
    <3>2. hist'.ran = 0
      BY <1>1, <3>1, RecordFields
    <3>3. RunStep
      BY <1>1, <1>4, <2>11, <3>2 DEF RunStep, Releases
    <3>4. hist.held >= b.forcedTimer /\ b.forcedTimer + 1 >= ForcedOff
          /\ b.forcedTimer \in Nat
      BY <2>1, <2>3, <2>11, Bounds DEF Releases, Tallied, Typed, ProtectionType
    <3>5. BlockStep
      BY <1>4, <3>4 DEF BlockStep
    <3> QED
      BY <2>6, <3>3, <3>5
  <2>12. CASE Forces(b, pr', in)
    <3>1. RunStep
      BY <1>1, <1>4, <2>2, <2>5, <2>8, <2>12 DEF RunStep, Forces, EscalationKept, AtMost
    <3>2. BlockStep
      BY <1>1, <2>12 DEF BlockStep, Forces
    <3> QED
      BY <2>6, <3>1, <3>2
  <2>13. CASE Stops(b, pr', in)
    <3>1. RunStep
      BY <1>1, <1>4, <2>2, <2>5, <2>13 DEF RunStep, Stops, EscalationKept
    <3>2. BlockStep
      BY <1>1, <1>2, <2>3, <2>13 DEF BlockStep, Stops, EscalationInv, Tallied
    <3> QED
      BY <2>6, <3>1, <3>2
  <2> QED
    BY <2>4, <2>9, <2>10, <2>11, <2>12, <2>13
<1> QED
  BY <1>5, <1>6

\* The reset key and the restart touch no field of the escalation.
LEMMA EscalationKeys ==
  ASSUME TypeInv, EscalationInv, PressReset \/ Restart
  PROVE  EscalationInv' /\ hist' = hist
<1>1. /\ unit' = unit /\ hist' = hist
      /\ pr'.comp = pr.comp /\ pr'.run = pr.run /\ pr'.lastRun = pr.lastRun
      /\ pr'.forced = pr.forced /\ pr'.forcedTimer = pr.forcedTimer
      /\ pr'.count = pr.count /\ pr'.locked = pr.locked
      /\ pr'.keyBlocked => pr.keyBlocked
  BY DEF PressReset, Restart, TypeInv, TypeOK, ProtectionType
<1> QED
  BY <1>1 DEF EscalationInv, Owner

\* Every step of the module keeps the invariant, and an update keeps the promises.
LEMMA EscalationNext ==
  TypeInv /\ EscalationInv /\ [Next]_vars =>
    EscalationInv' /\ (\/ /\ hist'.beat # hist.beat => RunStep
                          /\ hist'.beat = hist.beat \/ BlockStep
                       \/ UNCHANGED vars)
<1> SUFFICES ASSUME TypeInv, EscalationInv, [Next]_vars
             PROVE  EscalationInv' /\ (\/ /\ hist'.beat # hist.beat => RunStep
                                          /\ hist'.beat = hist.beat \/ BlockStep
                                       \/ UNCHANGED vars)
  OBVIOUS
<1>1. ASSUME NEW in \in unit.readings, Update(in)
      PROVE  EscalationInv' /\ RunStep /\ BlockStep
  BY <1>1, ReadingsTyped, EscalationUpdate
<1>2. CASE PressReset \/ Restart
  BY <1>2, EscalationKeys
<1>3. CASE UNCHANGED vars
  BY <1>3 DEF vars, EscalationInv, Owner
<1> QED
  BY <1>1, <1>2, <1>3 DEF Next, AnyUpdate

\* It holds when the module starts.
LEMMA EscalationInit == Init => EscalationInv
<1> SUFFICES ASSUME Init PROVE EscalationInv
  OBVIOUS
<1>1. /\ ~pr.comp /\ ~pr.forced /\ ~pr.locked /\ ~pr.keyBlocked /\ pr.count = 0
      /\ pr.lastRun = 0 /\ hist.ran = 0 /\ hist.ends = 0 /\ hist.row = 0
  BY DEF Init
<1> QED
  BY <1>1 DEF EscalationInv

\* The lockout comes after MaxRetries completed forced stops and no earlier, and
\* MaxRetries of them with no normal run in between do not pass without it.
THEOREM EscalationTheorem == Spec => []LockoutEscalation
<1>1. TypeInv /\ EscalationInv => LockoutEscalation
  <2> SUFFICES ASSUME TypeInv, EscalationInv PROVE LockoutEscalation
    OBVIOUS
  <2>1. ~pr.locked => hist.row # MaxRetries
    <3>1. pr.count \in Nat /\ MaxRetries \in Nat /\ (~pr.locked => pr.count < MaxRetries)
      BY Bounds DEF TypeInv, TypeOK, Typed, CountInv, ProtectionType
    <3> QED
      BY <3>1 DEF EscalationInv
  <2> QED
    BY <2>1 DEF EscalationInv, LockoutEscalation
<1> QED
  BY <1>1, EscalationInit, EscalationNext, TypeCorrect, PTL DEF Spec

\* The compressor is blocked for no other reason than an uninterrupted run longer
\* than MaxRun, and such a run never goes on unblocked, unless a defrost or a
\* continuous cycle suspends the rule.
THEOREM RunTheorem == Spec => RunLimited
<1>1. TypeInv /\ EscalationInv /\ [Next]_vars =>
        EscalationInv' /\ [hist'.beat # hist.beat => RunStep]_vars
  BY EscalationNext
<1>2. Spec => [][hist'.beat # hist.beat => RunStep]_vars
  BY <1>1, EscalationInit, TypeCorrect, PTL DEF Spec
<1> QED
  BY <1>2 DEF RunLimited, RunStep

\* A block lasts its whole period: nothing but the user's reset, or the moment of
\* a restart, lifts it earlier.
THEOREM BlockTheorem == Spec => BlockLasts
<1>1. TypeInv /\ EscalationInv /\ [Next]_vars =>
        EscalationInv' /\ [pr.keyBlocked /\ ~pr'.keyBlocked =>
                             \/ hist'.beat = hist.beat
                             \/ hist'.reset
                             \/ hist.held + 1 >= ForcedOff]_vars
  BY EscalationNext DEF BlockStep
<1>2. Spec => [][pr.keyBlocked /\ ~pr'.keyBlocked =>
                   \/ hist'.beat = hist.beat
                   \/ hist'.reset
                   \/ hist.held + 1 >= ForcedOff]_vars
  BY <1>1, EscalationInit, TypeCorrect, PTL DEF Spec
<1> QED
  BY <1>2 DEF BlockLasts
=============================================================================
