----------------------------- MODULE DefrostProofs -----------------------------
(***************************************************************************)
(* Theorems about Defrost, for every length of its phases and every        *)
(* reading: type correctness, the bounds of a cycle and of the skipped     *)
(* triggers, the preparation of hot gas and the compressor's rest.         *)
(***************************************************************************)
EXTENDS Defrost, TLAPS

-----------------------------------------------------------------------------
(* The moves of an update through the phases                               *)

\* The time after which a phase is left, whatever the readings.
Limit(p) ==
  CASE p = "pump_down"  -> PumpDown
    [] p = "stabilize"  -> Stabilize
    [] p = "valve_open" -> ValveDelay
    [] p = "active"     -> maxDur
    [] p = "equalize"   -> EqualizeTime
    [] p = "drip"       -> DripTime
    [] p = "fad"        -> FanDelay

\* The phase that follows when a cycle is not cut short.
Successor(p) ==
  CASE p = "pump_down"  -> IF type = 2 THEN "stabilize" ELSE "active"
    [] p = "stabilize"  -> "valve_open"
    [] p = "valve_open" -> "active"
    [] p = "active"     -> IF type = 2 THEN "equalize" ELSE "drip"
    [] p = "equalize"   -> "drip"
    [] p = "drip"       -> "fad"

\* The zone stays idle, or a cycle starts, goes on, takes the next phase, ends.
Idles == phase = "idle" /\ UNCHANGED <<phase, timer, active, req, maxDur>>

Starts ==
  /\ phase = "idle"
  /\ maxDur' \in {MaxDuration, MaxDuration + PowerDuration}
  /\ \/ PumpDown > 0 /\ EnterPhase("pump_down")
     \/ type' = 2 /\ EnterPhase("stabilize")
     \/ type' # 2 /\ EnterPhase("active")

Stays ==
  /\ phase # "idle" /\ UNCHANGED <<type, maxDur>>
  /\ StayInPhase /\ timer + 1 < Limit(phase)

Advances ==
  /\ phase \notin {"idle", "fad"} /\ UNCHANGED <<type, maxDur>>
  /\ phase # "active" => timer + 1 >= Limit(phase)
  /\ phase = "drip" => FanDelay # 0
  /\ EnterPhase(Successor(phase))

Ends == phase # "idle" /\ UNCHANGED <<type, maxDur>> /\ Finish

\* An idle zone stays idle or starts a cycle.
LEMMA StartMoves ==
  ASSUME TypeOK, NEW in \in Readings, phase = "idle", Start(in)
  PROVE  (Idles \/ Starts) /\ type' \in 0..2 /\ maxDur' \in Nat /\ endTemp' \in Nat
<1>1. in \in ReadingType
  BY DefrostReadings
<1>2. type' \in 0..2
  BY <1>1 DEF Start, StartType, ReadingType
<1>3. CASE type' = 0 /\ in.multiZone
  BY <1>2, <1>3 DEF Start, Idles, TypeOK
<1>4. CASE ~(type' = 0 /\ in.multiZone)
  <2>1. /\ maxDur' = MaxDuration + IF in.night THEN PowerDuration ELSE 0
        /\ endTemp' = EndTemp + IF in.night THEN PowerTemp ELSE 0
        /\ EnterPhase(IF PumpDown > 0 THEN "pump_down"
                      ELSE IF type' = 2 THEN "stabilize" ELSE "active")
    BY <1>4 DEF Start
  <2>2. /\ maxDur' \in {MaxDuration, MaxDuration + PowerDuration}
        /\ maxDur' \in Nat /\ endTemp' \in Nat
    BY <2>1, DefrostConstants
  <2> QED
    BY <1>2, <2>1, <2>2 DEF Starts
<1> QED
  BY <1>3, <1>4

\* Every update is one of the five moves.
LEMMA Moves ==
  ASSUME TypeOK, NEW in \in Readings, Update(in)
  PROVE  /\ Idles \/ Starts \/ Stays \/ Advances \/ Ends
         /\ type' \in 0..2 /\ maxDur' \in Nat /\ endTemp' \in Nat
<1>0. timer \in Nat /\ Limits \subseteq Nat
  BY DefrostConstants DEF TypeOK
<1>1. CASE Abort(in) \/ StopManually(in)
  BY <1>1 DEF Abort, Aborted, StopManually, Ends, cycle, TypeOK
<1>2. CASE Idle(in)
  <2>1. CASE Start(in)
    BY <1>2, <2>1, StartMoves DEF Idle
  <2>2. CASE StayIdle
    BY <1>2, <2>2 DEF Idle, StayIdle, Idles, cycle, TypeOK
  <2> QED
    BY <1>2, <2>1, <2>2
       DEF Idle, IdleManual, IdleDisabled, IdleWait, IdleClean, IdleSkip, IdleStart
<1>3. CASE UNCHANGED cycle /\ Active(in)
  <2>1. phase = "active" /\ UNCHANGED <<type, maxDur, endTemp>>
    BY <1>3 DEF Active, cycle
  <2>2. CASE FinishActive(in)
    BY <2>1, <2>2 DEF FinishActive, Advances, Successor, TypeOK
  <2>3. CASE ActiveStay(in)
    BY <1>0, <2>1, <2>3 DEF ActiveStay, TimedOut, Stays, Limit, TypeOK
  <2> QED
    BY <1>3, <2>2, <2>3 DEF Active, ActiveTemp, ActiveWarm, ActiveTimeout
<1>4. CASE UNCHANGED cycle /\ Timed(in)
  <2>1. UNCHANGED <<type, maxDur, endTemp>>
    BY <1>4 DEF cycle
  <2>2. /\ PumpDown \in Nat /\ Stabilize \in Nat /\ ValveDelay \in Nat
        /\ EqualizeTime \in Nat /\ DripTime \in Nat /\ FanDelay \in Nat
    BY <1>0 DEF Limits
  <2>3. Stays \/ Advances \/ Ends
    <3>1. CASE InPumpDown
      BY <1>0, <2>1, <2>2, <3>1
         DEF InPumpDown, Wait, Stays, Advances, Limit, Successor
    <3>2. CASE InStabilize
      BY <1>0, <2>1, <2>2, <3>2
         DEF InStabilize, Wait, Stays, Advances, Limit, Successor
    <3>3. CASE InValveOpen
      BY <1>0, <2>1, <2>2, <3>3
         DEF InValveOpen, Wait, Stays, Advances, Limit, Successor
    <3>4. CASE InEqualize
      BY <1>0, <2>1, <2>2, <3>4
         DEF InEqualize, Wait, Stays, Advances, Limit, Successor
    <3>5. CASE InDrip
      BY <1>0, <2>1, <2>2, <3>5
         DEF InDrip, Wait, Stays, Advances, Ends, Finish, Limit, Successor
    <3>6. CASE InFad(in)
      BY <1>0, <2>1, <2>2, <3>6 DEF InFad, Wait, Stays, Ends, Finish, Limit
    <3> QED
      BY <1>4, <3>1, <3>2, <3>3, <3>4, <3>5, <3>6 DEF Timed
  <2> QED
    BY <2>1, <2>3 DEF TypeOK
<1> QED
  BY <1>1, <1>2, <1>3, <1>4 DEF Update, Run

-----------------------------------------------------------------------------
(* Type correctness                                                        *)

\* The bounds of the history are numbers.
LEMMA Bounds ==
  /\ MaxCycle \in Nat /\ Rest \in Nat /\ Stabilize \in Nat /\ MaxSkip \in Nat
  /\ PumpDown \in Nat /\ ValveDelay \in Nat /\ EqualizeTime \in Nat
  /\ DripTime \in Nat /\ FanDelay \in Nat
<1>1. Limits \subseteq Nat /\ MaxDuration \in Nat /\ PowerDuration \in Nat
      /\ MaxSkip \in Nat
  BY DefrostConstants
<1> QED
  BY <1>1 DEF Limits, MaxCycle, AtLeastOne, Rest

ReqRecord == [compressor : BOOLEAN, relay : BOOLEAN, condFan : BOOLEAN]

\* What a phase requests is a request, and an idle zone requests nothing.
LEMMA RequestsType ==
  ASSUME NEW p, NEW t
  PROVE  Requests(p, t) \in ReqRecord
<1>1. ASSUME NEW c \in BOOLEAN, NEW r \in BOOLEAN, NEW f \in BOOLEAN
      PROVE  Request(c, r, f) \in ReqRecord
  BY DEF Request, ReqRecord
<1> QED
  BY <1>1 DEF Requests, Nothing

\* The phase's own variables keep their types in every move.
LEMMA PhaseType ==
  ASSUME TypeOK, Idles \/ Starts \/ Stays \/ Advances \/ Ends
  PROVE  /\ phase' \in Phases /\ timer' \in Nat
         /\ req' \in ReqRecord /\ active' \in BOOLEAN
<1>1. CASE \E p \in Phases : EnterPhase(p)
  <2> PICK p \in Phases : EnterPhase(p)
    BY <1>1
  <2>1. phase' = p /\ timer' = 0 /\ req' = Requests(p, type')
    BY DEF EnterPhase
  <2>2. active' \in BOOLEAN
    BY Zenon DEF EnterPhase
  <2> QED
    BY <2>1, <2>2, RequestsType
<1>2. CASE Idles \/ Stays
  BY <1>2 DEF Idles, Stays, StayInPhase, TypeOK, ReqRecord
<1>3. CASE Starts
  BY <1>1, <1>3 DEF Starts, Phases
<1>4. CASE Advances
  <2>1. Successor(phase) \in Phases
    BY <1>4 DEF Advances, Successor, Phases, TypeOK
  <2> QED
    BY <1>1, <1>4, <2>1 DEF Advances
<1>5. CASE Ends
  BY <1>1, <1>5 DEF Ends, Finish, Phases
<1> QED
  BY <1>2, <1>3, <1>4, <1>5

\* A tick of the interval timer stays within the interval, and so does what is
\* published as left of it.
LEMMA IntervalType ==
  ASSUME interval \in 0..Interval, NEW in
  PROVE  /\ Elapsed(in) \in 0..Interval
         /\ \A elapsed \in 0..Interval : Remaining(elapsed) \in 0..Interval
<1>1. Interval \in Nat
  BY DefrostConstants
<1> QED
  BY <1>1 DEF Elapsed, Remaining, AtMost

SkipType == [done : 0..(Warmup + 1), counter : 0..MaxSkip, remaining : 0..MaxSkip]

\* The end of a cycle's active phase keeps the skip counter in its range.
LEMMA LearnSkipType ==
  ASSUME skip \in SkipType, NEW in, NEW t, LearnSkip(in, t)
  PROVE  skip' \in SkipType
<1> DEFINE done  == AtMost(skip.done + 1, Warmup + 1)
           again == IF t < ShortDefrost THEN AtMost(skip.counter + 1, MaxSkip) ELSE 0
<1>1. Warmup \in Nat /\ MaxSkip \in Nat
  BY DefrostConstants
<1>2. done \in 0..(Warmup + 1) /\ again \in 0..MaxSkip
  BY <1>1 DEF AtMost, SkipType
<1>3. skip' = IF ~(in.skip /\ in.termination = 0) THEN skip
              ELSE IF done <= Warmup THEN [skip EXCEPT !.done = done]
              ELSE [done |-> done, counter |-> again, remaining |-> again]
  BY DEF LearnSkip
<1> HIDE DEF done, again
<1> QED
  BY <1>2, <1>3 DEF SkipType

\* The counters and the results of a cycle keep their types.
LEMMA CountersType ==
  ASSUME TypeOK, NEW in \in Readings, Update(in)
  PROVE  /\ interval' \in 0..Interval /\ published' \in 0..Interval
         /\ running' \in Nat /\ iced' \in Nat
         /\ skip' \in SkipType
         /\ timeouts' \in 0..AlarmAfter /\ alarm' \in BOOLEAN
         /\ manualStart' \in BOOLEAN /\ manualStop' \in BOOLEAN
<1>0. /\ interval \in 0..Interval /\ published \in 0..Interval
      /\ running \in Nat /\ iced \in Nat /\ skip \in SkipType
      /\ timeouts \in 0..AlarmAfter /\ alarm \in BOOLEAN
      /\ manualStart \in BOOLEAN /\ manualStop \in BOOLEAN
  BY DEF TypeOK, SkipType
<1>1. CASE Abort(in) \/ StopManually(in)
  BY <1>0, <1>1 DEF Abort, StopManually, counters, result
<1>2. CASE Run(in)
  <2>1. manualStart' = FALSE /\ manualStop' = FALSE /\ published' = Remaining(interval')
    BY <1>2 DEF Run
  <2>2. CASE Idle(in)
    <3>0. 0 \in 0..Interval /\ Elapsed(in) \in 0..Interval
      BY <1>0, IntervalType, DefrostConstants
    <3>1. interval' \in 0..Interval
      BY <1>0, <2>2, <3>0
         DEF Idle, IdleManual, IdleDisabled, IdleWait, IdleClean, IdleSkip,
             IdleStart, Start, counters
    <3>2. running' \in Nat /\ iced' \in Nat
      <4>1. UNCHANGED <<running, iced>> \/ (CountRunning(in) /\ CountIced(in))
        BY <2>2 DEF Idle, IdleManual, IdleDisabled, IdleWait, IdleClean, IdleSkip,
                    IdleStart, IdleCounts, counters
      <4> QED
        BY <1>0, <4>1 DEF CountRunning, CountIced
    <3>3. UNCHANGED <<timeouts, alarm>> /\ (UNCHANGED skip \/ IdleSkip(in))
      BY <2>2 DEF Idle, IdleManual, IdleDisabled, IdleWait, IdleClean, IdleSkip,
                  IdleStart, result
    <3>4. skip' \in SkipType
      <4>1. IdleSkip(in) => /\ skip' = [skip EXCEPT !.remaining = skip.remaining - 1]
                            /\ skip.remaining > 0
        BY DEF IdleSkip, Skips
      <4>2. skip.remaining > 0 => skip.remaining - 1 \in 0..MaxSkip
        BY <1>0, Bounds DEF SkipType
      <4> QED
        BY <1>0, <3>3, <4>1, <4>2 DEF SkipType
    <3> QED
      BY <1>0, <2>1, <3>1, <3>2, <3>3, <3>4, IntervalType
  <2>3. CASE UNCHANGED <<cycle, counters>> /\ Active(in)
    <3>1. UNCHANGED counters
      BY <2>3
    <3>2. skip' \in SkipType
      BY <1>0, <2>3, LearnSkipType
         DEF Active, ActiveTemp, ActiveWarm, ActiveTimeout, ActiveStay,
             FinishActive, result
    <3>3. timeouts' \in 0..AlarmAfter
      BY <1>0, <2>3, DefrostConstants
         DEF Active, ActiveTemp, ActiveWarm, ActiveTimeout, ActiveStay, result, AtMost
    <3>4. alarm' \in BOOLEAN
      BY <1>0, <2>3, Zenon
         DEF Active, ActiveTemp, ActiveWarm, ActiveTimeout, ActiveStay, result
    <3> QED
      BY <1>0, <2>1, <3>1, <3>2, <3>3, <3>4, IntervalType DEF counters
  <2>4. CASE UNCHANGED <<cycle, counters, result>>
    BY <1>0, <2>1, <2>4, IntervalType DEF counters, result
  <2> QED
    BY <1>2, <2>2, <2>3, <2>4 DEF Run
<1> QED
  BY <1>1, <1>2 DEF Update

\* The history keeps its type.
LEMMA HistType ==
  ASSUME TypeOK, NEW in \in Readings, Remember(in)
  PROVE  hist' \in HistoryType
<1>1. hist \in HistoryType
  BY DEF TypeOK
<1>2. ASSUME NEW n \in Nat, NEW cap \in Nat
      PROVE  AtMost(n + 1, cap) \in 0..cap /\ 0 \in 0..cap
  BY DEF AtMost
<1>3. /\ hist.comp \in Nat /\ hist.quiet \in Nat /\ hist.cycle \in Nat
      /\ hist.skipped \in 0..(MaxSkip + 1)
      /\ hist.whole \in BOOLEAN /\ hist.beat \in BOOLEAN
  BY <1>1, Bounds DEF HistoryType
<1>4. /\ hist'.comp \in 0..Stabilize /\ hist'.quiet \in 0..Rest
      /\ hist'.cycle \in 0..(MaxCycle + 1) /\ hist'.skipped \in 0..(MaxSkip + 1)
  <2>1. MaxCycle + 1 \in Nat /\ MaxSkip + 1 \in Nat
    BY Bounds
  <2>2. hist'.comp \in 0..Stabilize
    BY <1>2, <1>3, Bounds DEF Remember
  <2>3. hist'.quiet \in 0..Rest
    BY <1>2, <1>3, Bounds DEF Remember
  <2>4. hist'.cycle \in 0..(MaxCycle + 1)
    BY <1>2, <1>3, <2>1 DEF Remember
  <2>5. hist.skipped \in Nat
    BY <1>3, <2>1
  <2>6. hist'.skipped \in 0..(MaxSkip + 1)
    BY <1>2, <1>3, <2>1, <2>5 DEF Remember
  <2> QED
    BY <2>2, <2>3, <2>4, <2>6
<1>5. hist'.whole \in BOOLEAN /\ hist'.plain \in BOOLEAN /\ hist'.beat \in BOOLEAN
  BY Zenon DEF Remember, PlainReading
<1>6. hist' = [comp |-> hist'.comp, quiet |-> hist'.quiet, cycle |-> hist'.cycle,
               skipped |-> hist'.skipped, whole |-> hist'.whole,
               plain |-> hist'.plain, beat |-> hist'.beat]
  BY DEF Remember
<1> QED
  BY <1>4, <1>5, <1>6 DEF HistoryType

\* The initial state is well typed.
LEMMA InitType == Init => TypeOK
<1> SUFFICES ASSUME Init PROVE TypeOK
  OBVIOUS
<1>1. /\ MaxDuration \in Nat /\ EndTemp \in Nat /\ 0 \in 0..Interval
      /\ Warmup \in Nat /\ 0 \in 0..AlarmAfter
  BY DefrostConstants
<1>2. Nothing \in ReqRecord
  BY DEF Nothing, Request, ReqRecord
<1>3. skip \in SkipType
  BY <1>1, Bounds DEF Init, SkipType
<1>4. hist \in HistoryType
  BY Bounds DEF Init, HistoryType
<1>5. 0 \in 0..2 /\ 0 \in Nat
  OBVIOUS
<1> QED
  BY <1>1, <1>2, <1>3, <1>4, <1>5, Zenon
     DEF Init, TypeOK, Phases, ReqRecord, SkipType

\* Every step keeps the types.
LEMMA NextType == TypeOK /\ [Next]_vars => TypeOK'
<1> SUFFICES ASSUME TypeOK, [Next]_vars PROVE TypeOK'
  OBVIOUS
<1>1. CASE AnyUpdate
  <2> PICK in \in Readings : Update(in)
    BY <1>1 DEF AnyUpdate
  <2>1. /\ phase' \in Phases /\ timer' \in Nat /\ req' \in ReqRecord
        /\ active' \in BOOLEAN
    BY Moves, PhaseType
  <2>2. hist' \in HistoryType
    BY HistType DEF Update
  <2> QED
    BY <2>1, <2>2, Moves, CountersType DEF TypeOK, ReqRecord, SkipType
<1>2. CASE ManualStart \/ ManualStop
  BY <1>2 DEF ManualStart, ManualStop, TypeOK, cycle, counters, result
<1>3. CASE Restart
  <2>1. Nothing \in ReqRecord
    BY DEF Nothing, Request, ReqRecord
  <2>2. hist' \in HistoryType
    <3> DEFINE quiet == IF Busy(req) THEN 0 ELSE hist.quiet
               whole == (phase = "idle")
    <3>1. hist \in HistoryType
      BY DEF TypeOK
    <3>2. quiet \in 0..Rest /\ 0 \in 0..Stabilize /\ whole \in BOOLEAN
      BY <3>1, Bounds DEF HistoryType
    <3>3. hist' = [hist EXCEPT !.comp = 0, !.quiet = quiet,
                               !.whole = whole, !.plain = FALSE]
      BY <1>3 DEF Restart
    <3> HIDE DEF quiet, whole
    <3> QED
      BY <3>1, <3>2, <3>3 DEF HistoryType
  <2> QED
    BY <1>3, <2>1, <2>2 DEF Restart, TypeOK, cycle, ReqRecord
<1>4. CASE UNCHANGED vars
  BY <1>4 DEF vars, TypeOK, cycle, counters, result
<1> QED
  BY <1>1, <1>2, <1>3, <1>4 DEF Next

\* Type correctness of the defrost module, restarted in any phase and used by
\* the user at any time: the interval timer, the skip and timeout counters and
\* the countdown read back after a restart stay in their ranges.
THEOREM TypeCorrect == Spec => []TypeOK
<1>1. Init => TypeOK
  BY InitType
<1>2. TypeOK /\ [Next]_vars => TypeOK'
  BY NextType
<1> QED
  BY <1>1, <1>2, PTL DEF Spec

-----------------------------------------------------------------------------
(* The skip counter                                                        *)

\* The strengthening: what has been skipped and what is left to skip together
\* are no more than the limit, and a cycle that runs has skipped nothing.
SkipInv ==
  /\ phase # "idle" => hist.skipped = 0
  /\ hist.skipped + skip.remaining <= MaxSkip

\* Only a skipped trigger or the end of an active phase moves the skip counter.
LEMMA SkipMoves ==
  ASSUME TypeOK, NEW in \in Readings, Update(in)
  PROVE  \/ skip' = skip
         \/ phase = "idle" /\ IdleSkip(in)
         \/ phase = "active" /\ phase' # "idle"
<1>1. CASE Abort(in) \/ StopManually(in)
  BY <1>1 DEF Abort, StopManually, result
<1>2. CASE Idle(in)
  BY <1>2 DEF Idle, IdleManual, IdleDisabled, IdleWait, IdleClean, IdleSkip,
              IdleStart, result
<1>3. CASE Active(in)
  BY <1>3 DEF Active, ActiveTemp, ActiveWarm, ActiveTimeout, ActiveStay, result,
              FinishActive, EnterPhase
<1>4. CASE UNCHANGED result
  BY <1>4 DEF result
<1> QED
  BY <1>1, <1>2, <1>3, <1>4 DEF Update, Run

\* One update keeps the sum.
LEMMA UpdateSkip ==
  ASSUME TypeOK, SkipInv, NEW in \in Readings, Update(in)
  PROVE  SkipInv'
<1>1. /\ hist.skipped \in Nat /\ skip.remaining \in 0..MaxSkip
      /\ skip'.remaining \in 0..MaxSkip
  <2>1. skip' \in SkipType
    BY CountersType
  <2> QED
    BY <2>1, Bounds DEF TypeOK, HistoryType, SkipType
<1>2. hist'.skipped = IF phase' # "idle" THEN 0
                      ELSE IF phase = "idle" /\ IdleSkip(in)
                        THEN AtMost(hist.skipped + 1, MaxSkip + 1)
                      ELSE hist.skipped
  BY DEF Update, Remember
<1>3. CASE phase' # "idle"
  BY <1>1, <1>2, <1>3, Bounds DEF SkipInv
<1>4. CASE phase' = "idle" /\ phase = "idle" /\ IdleSkip(in)
  <2>1. skip'.remaining = skip.remaining - 1
    BY <1>4 DEF IdleSkip, TypeOK
  <2>2. hist'.skipped <= hist.skipped + 1
    BY <1>1, <1>2, <1>4, Bounds DEF AtMost
  <2>3. hist'.skipped \in Nat
    BY <1>1, <1>2, <1>4, Bounds DEF AtMost
  <2> QED
    BY <1>1, <1>4, <2>1, <2>2, <2>3, Bounds DEF SkipInv
<1>5. CASE phase' = "idle" /\ ~(phase = "idle" /\ IdleSkip(in))
  <2>1. skip' = skip
    BY <1>5, SkipMoves
  <2> QED
    BY <1>2, <1>5, <2>1 DEF SkipInv
<1> QED
  BY <1>3, <1>4, <1>5

\* The skip counter suppresses no more than MaxSkip triggers between two cycles,
\* whatever it learns, and however often skipping is switched off and on or the
\* module restarts in between.
THEOREM SkipTheorem == Spec => []SkipBounded
<1>1. Init => TypeOK /\ SkipInv
  BY InitType, Bounds DEF Init, SkipInv
<1>2. TypeOK /\ SkipInv /\ [Next]_vars => (TypeOK /\ SkipInv)'
  <2> SUFFICES ASSUME TypeOK, SkipInv, [Next]_vars PROVE SkipInv'
    BY NextType
  <2>1. CASE AnyUpdate
    BY <2>1, UpdateSkip DEF AnyUpdate
  <2>2. CASE ManualStart \/ ManualStop
    BY <2>2 DEF ManualStart, ManualStop, SkipInv, result
  <2>3. CASE Restart
    <3>1. hist'.skipped = hist.skipped
      BY <2>3 DEF Restart, TypeOK, HistoryType
    <3> QED
      BY <2>3, <3>1 DEF Restart, SkipInv
  <2>4. CASE UNCHANGED vars
    BY <2>4 DEF vars, SkipInv, result
  <2> QED
    BY <2>1, <2>2, <2>3, <2>4 DEF Next
<1>3. TypeOK /\ SkipInv => SkipBounded
  BY Bounds DEF TypeOK, SkipInv, SkipBounded, SkipType, HistoryType
<1> QED
  BY <1>1, <1>2, <1>3, PTL DEF Spec

-----------------------------------------------------------------------------
(* The length of a cycle                                                   *)

\* The longest a phase can last: at least the tick it is entered for.
Longest(p) ==
  CASE p = "pump_down"  -> PumpDown
    [] p = "stabilize"  -> AtLeastOne(Stabilize)
    [] p = "valve_open" -> AtLeastOne(ValveDelay)
    [] p = "active"     -> MaxDuration + PowerDuration
    [] p = "equalize"   -> AtLeastOne(EqualizeTime)
    [] p = "drip"       -> AtLeastOne(DripTime)
    [] p = "fad"        -> FanDelay

\* The longest a cycle can have lasted when it enters a phase.
Before(p) ==
  LET prepared == PumpDown + AtLeastOne(Stabilize) + AtLeastOne(ValveDelay)
      defrosted == prepared + MaxDuration + PowerDuration
  IN CASE p = "pump_down"  -> 0
       [] p = "stabilize"  -> PumpDown
       [] p = "valve_open" -> PumpDown + AtLeastOne(Stabilize)
       [] p = "active"     -> prepared
       [] p = "equalize"   -> defrosted
       [] p = "drip"       -> defrosted + AtLeastOne(EqualizeTime)
       [] p = "fad"        -> defrosted + AtLeastOne(EqualizeTime)
                                        + AtLeastOne(DripTime)

\* The strengthening: the cycle has lasted no longer than the phases before this
\* one and the ticks of this one, which has not reached its end.
CycleInv ==
  /\ maxDur \in 1..(MaxDuration + PowerDuration)
  /\ phase = "idle" => hist.cycle = 0
  /\ phase # "idle" => /\ timer + 1 <= Longest(phase)
                       /\ hist.cycle <= Before(phase) + timer + 1

\* The terms of both sums are numbers, and none that is waited for is zero.
LEMMA Terms ==
  /\ AtLeastOne(Stabilize) \in Nat \ {0} /\ AtLeastOne(Stabilize) >= Stabilize
  /\ AtLeastOne(ValveDelay) \in Nat \ {0} /\ AtLeastOne(ValveDelay) >= ValveDelay
  /\ AtLeastOne(EqualizeTime) \in Nat \ {0}
  /\ AtLeastOne(EqualizeTime) >= EqualizeTime
  /\ AtLeastOne(DripTime) \in Nat \ {0} /\ AtLeastOne(DripTime) >= DripTime
  /\ MaxDuration \in Nat \ {0} /\ PowerDuration \in Nat
  BY Bounds, DefrostConstants DEF AtLeastOne

\* The sums grow by the phase that is left.
LEMMA BeforeSuccessor ==
  ASSUME TypeOK, phase \notin {"idle", "fad"}
  PROVE  /\ Before(phase) \in Nat /\ Longest(phase) \in Nat
         /\ Before(phase) + Longest(phase) <= Before(Successor(phase))
         /\ phase # "drip" => Longest(Successor(phase)) >= 1
  BY Bounds, Terms DEF Before, Longest, Successor, TypeOK, Phases

\* The sums of every phase end with the longest cycle.
LEMMA BeforeEnd ==
  ASSUME TypeOK, phase # "idle"
  PROVE  /\ Before(phase) \in Nat /\ Longest(phase) \in Nat
         /\ Before(phase) + Longest(phase) <= MaxCycle
  BY Bounds, Terms DEF Before, Longest, MaxCycle, TypeOK, Phases

\* One update keeps the count.
LEMMA UpdateCycle ==
  ASSUME TypeOK, CycleInv, NEW in \in Readings, Update(in)
  PROVE  CycleInv'
<1>1. hist.cycle \in Nat /\ timer \in Nat
  BY Bounds DEF TypeOK, HistoryType
<1>2. hist'.cycle = IF phase' = "idle" THEN 0
                    ELSE AtMost(hist.cycle + 1, MaxCycle + 1)
  BY DEF Update, Remember
<1>3. phase' # "idle" => hist'.cycle <= hist.cycle + 1 /\ hist'.cycle \in Nat
  BY <1>1, <1>2, Bounds DEF AtMost
<1>4. CASE Idles
  BY <1>2, <1>4 DEF Idles, CycleInv
<1>5. CASE Starts
  <2>1. maxDur' \in 1..(MaxDuration + PowerDuration)
    BY <1>5, Terms DEF Starts
  <2>2. hist.cycle = 0 /\ timer' = 0
    BY <1>5 DEF Starts, CycleInv, EnterPhase
  <2>3. /\ phase' # "idle"
        /\ Longest(phase') >= 1 /\ Before(phase') \in Nat
    BY <1>5, Bounds, Terms DEF Starts, EnterPhase, Longest, Before
  <2> QED
    BY <1>3, <2>1, <2>2, <2>3 DEF CycleInv
<1>6. CASE Stays
  <2>1. phase' = phase /\ timer' = timer + 1 /\ phase # "idle" /\ maxDur' = maxDur
    BY <1>6 DEF Stays, StayInPhase
  <2>2. timer + 2 <= Longest(phase)
    BY <1>1, <1>6, Bounds, Terms
       DEF Stays, Limit, Longest, CycleInv, TypeOK, Phases
  <2>3. hist.cycle <= Before(phase) + timer + 1 /\ Before(phase) \in Nat
    BY <2>1, BeforeEnd DEF CycleInv
  <2> QED
    BY <1>1, <1>3, <2>1, <2>2, <2>3, BeforeEnd DEF CycleInv
<1>7. CASE Advances
  <2>1. /\ phase \notin {"idle", "fad"} /\ phase' = Successor(phase)
        /\ timer' = 0 /\ maxDur' = maxDur
    BY <1>7 DEF Advances, EnterPhase
  <2>2. /\ hist.cycle <= Before(phase) + timer + 1
        /\ timer + 1 <= Longest(phase)
    BY <2>1 DEF CycleInv
  <2>3. hist'.cycle <= Before(phase') + 1
    BY <1>1, <1>2, <1>3, <2>1, <2>2, BeforeSuccessor, Bounds, Terms
       DEF Before, Successor, TypeOK, Phases
  <2>4. phase' # "idle" /\ Longest(phase') >= 1
    <3>1. phase = "drip" => Longest(phase') >= 1
      BY <1>7, <2>1, Bounds DEF Advances, Successor, Longest
    <3>2. Successor(phase) # "idle"
      BY <2>1 DEF Successor, TypeOK, Phases
    <3> QED
      BY <2>1, <3>1, <3>2, BeforeSuccessor
  <2>5. Before(phase') \in Nat
    BY <2>1, Bounds, Terms DEF Before, Successor, TypeOK, Phases
  <2> QED
    BY <2>1, <2>3, <2>4, <2>5 DEF CycleInv
<1>8. CASE Ends
  BY <1>2, <1>8 DEF Ends, Finish, EnterPhase, CycleInv
<1> QED
  BY <1>4, <1>5, <1>6, <1>7, <1>8, Moves

\* No cycle is longer than its phases together, whatever the readings, whatever
\* settings change meanwhile and however often the module restarts in it.
THEOREM CycleTheorem == Spec => []CycleBounded
<1>1. Init => TypeOK /\ CycleInv
  BY InitType, Terms DEF Init, CycleInv
<1>2. TypeOK /\ CycleInv /\ [Next]_vars => (TypeOK /\ CycleInv)'
  <2> SUFFICES ASSUME TypeOK, CycleInv, [Next]_vars PROVE CycleInv'
    BY NextType
  <2>1. CASE AnyUpdate
    BY <2>1, UpdateCycle DEF AnyUpdate
  <2>2. CASE ManualStart \/ ManualStop
    BY <2>2 DEF ManualStart, ManualStop, CycleInv, cycle
  <2>3. CASE Restart
    <3>1. hist'.cycle = hist.cycle
      BY <2>3 DEF Restart, TypeOK, HistoryType
    <3> QED
      BY <2>3, <3>1 DEF Restart, CycleInv, cycle
  <2>4. CASE UNCHANGED vars
    BY <2>4 DEF vars, CycleInv, cycle
  <2> QED
    BY <2>1, <2>2, <2>3, <2>4 DEF Next
<1>3. TypeOK /\ CycleInv => CycleBounded
  <2> SUFFICES ASSUME TypeOK, CycleInv PROVE hist.cycle <= MaxCycle
    BY DEF CycleBounded
  <2>1. hist.cycle \in Nat /\ timer \in Nat
    BY Bounds DEF TypeOK, HistoryType
  <2> QED
    BY <2>1, BeforeEnd, Bounds DEF CycleInv
<1> QED
  BY <1>1, <1>2, <1>3, PTL DEF Spec

-----------------------------------------------------------------------------
(* Hot gas and the compressor's rest                                       *)

\* The phases only hot gas has are entered by hot gas only.
TypeOfPhase == phase \in {"stabilize", "valve_open", "equalize"} => type = 2

\* The strengthening: as long as no restart dropped the requests they are those
\* of the phase, and the compressor has been requested for the stabilization
\* time so far, and for all of it once the gas flows.
HotGasInv ==
  /\ phase = "idle" => hist.whole
  /\ hist.whole =>
    /\ req = Requests(phase, type)
    /\ phase = "stabilize" => hist.comp >= AtMost(timer, Stabilize)
    /\ phase = "valve_open" \/ (phase = "active" /\ type = 2)
         => hist.comp >= Stabilize

\* The strengthening of the rest: equalizing and dripping request nothing, and
\* nothing has been requested since they began.
RestInv ==
  /\ phase \in {"equalize", "drip"} => ~Busy(req)
  /\ phase = "equalize" => hist.quiet >= AtMost(timer, Rest)
  /\ phase = "drip" =>
       hist.quiet >= AtMost(timer + (IF type = 2 THEN EqualizeTime ELSE 0), Rest)

\* What the phases request of the compressor and the relay.
LEMMA RequestsFacts ==
  ASSUME NEW p \in Phases, NEW t \in 0..2
  PROVE  /\ Requests(p, t).compressor <=>
              \/ p \in {"pump_down", "stabilize", "fad", "valve_open"}
              \/ p = "active" /\ t = 2
         /\ Requests(p, t).relay <=> p = "valve_open" \/ (p = "active" /\ t \in {1, 2})
  BY DEF Requests, Request, Nothing, Phases

\* Two cappings compared.
LEMMA AtMostFacts ==
  ASSUME NEW n \in Nat, NEW cap \in Nat
  PROVE  /\ AtMost(n, cap) \in Nat /\ AtMost(n, cap) <= n /\ AtMost(n, cap) <= cap
         /\ n >= cap => AtMost(n, cap) = cap
         /\ n <= cap => AtMost(n, cap) = n
  BY DEF AtMost

\* Every move takes hot gas through its phases.
LEMMA UpdateTypeOfPhase ==
  ASSUME TypeOK, TypeOfPhase, NEW in \in Readings, Update(in)
  PROVE  TypeOfPhase'
<1>1. CASE Idles \/ Stays
  BY <1>1 DEF Idles, Stays, StayInPhase, TypeOfPhase
<1>2. CASE Starts
  BY <1>2 DEF Starts, EnterPhase, TypeOfPhase
<1>3. CASE Advances
  BY <1>3 DEF Advances, EnterPhase, Successor, TypeOfPhase, TypeOK, Phases
<1>4. CASE Ends
  BY <1>4 DEF Ends, Finish, EnterPhase, TypeOfPhase
<1> QED
  BY <1>1, <1>2, <1>3, <1>4, Moves

\* One update keeps hot gas prepared.
LEMMA UpdateHotGas ==
  ASSUME TypeOK, TypeOfPhase, HotGasInv, NEW in \in Readings, Update(in)
  PROVE  HotGasInv'
<1>0. /\ hist.comp \in Nat /\ hist.comp <= Stabilize /\ timer \in Nat
      /\ Stabilize \in Nat /\ type \in 0..2 /\ type' \in 0..2 /\ phase \in Phases
  BY Bounds, Moves DEF TypeOK, HistoryType
<1>1. /\ hist'.comp = IF req.compressor /\ req'.compressor
                      THEN AtMost(hist.comp + 1, Stabilize) ELSE 0
      /\ hist'.whole <=> hist.whole \/ phase' = "idle"
  BY DEF Update, Remember
<1>2. AtMost(hist.comp + 1, Stabilize) \in Nat
  BY <1>0, AtMostFacts
<1>3. CASE Idles
  <2>1. /\ phase = "idle" /\ phase' = "idle" /\ req' = req
        /\ req = Requests("idle", type)
    BY <1>3 DEF Idles, HotGasInv
  <2>2. Requests("idle", type) = Nothing /\ Requests("idle", type') = Nothing
    BY DEF Requests
  <2> QED
    BY <1>1, <2>1, <2>2 DEF HotGasInv
<1>4. CASE Starts
  <2>1. /\ phase = "idle" /\ phase' # "idle" /\ timer' = 0
        /\ req' = Requests(phase', type')
        /\ phase' # "valve_open" /\ (phase' = "active" => type' # 2)
    BY <1>4 DEF Starts, EnterPhase
  <2>2. hist'.comp >= AtMost(0, Stabilize)
    BY <1>0, <1>1, <1>2, AtMostFacts
  <2> QED
    BY <2>1, <2>2 DEF HotGasInv
<1>5. CASE Stays
  <2>1. /\ phase # "idle" /\ phase' = phase /\ timer' = timer + 1
        /\ type' = type /\ req' = req
    BY <1>5 DEF Stays, StayInPhase
  <2> SUFFICES ASSUME hist.whole
               PROVE  /\ phase = "stabilize" => hist'.comp >= AtMost(timer + 1, Stabilize)
                      /\ phase = "valve_open" \/ (phase = "active" /\ type = 2)
                           => hist'.comp >= Stabilize
    BY <1>1, <2>1 DEF HotGasInv
  <2>2. CASE phase = "stabilize"
    <3>1. req.compressor /\ hist.comp >= AtMost(timer, Stabilize)
      BY <1>0, <2>2, RequestsFacts DEF HotGasInv
    <3> QED
      BY <1>0, <1>1, <2>1, <2>2, <3>1 DEF AtMost
  <2>3. CASE phase = "valve_open" \/ (phase = "active" /\ type = 2)
    <3>1. req.compressor /\ hist.comp >= Stabilize
      BY <1>0, <2>3, RequestsFacts DEF HotGasInv
    <3> QED
      BY <1>0, <1>1, <2>1, <2>3, <3>1 DEF AtMost
  <2> QED
    BY <2>2, <2>3
<1>6. CASE Advances
  <2>1. /\ phase # "idle" /\ phase' = Successor(phase) /\ timer' = 0
        /\ type' = type /\ req' = Requests(phase', type)
        /\ phase = "stabilize" => timer + 1 >= Stabilize
    BY <1>6 DEF Advances, EnterPhase, Limit
  <2>2. phase' \in Phases \ {"idle"}
    BY <1>0, <1>6, <2>1 DEF Advances, Successor, Phases
  <2> SUFFICES ASSUME hist.whole
               PROVE  /\ phase' = "stabilize" => hist'.comp >= AtMost(0, Stabilize)
                      /\ phase' = "valve_open" \/ (phase' = "active" /\ type = 2)
                           => hist'.comp >= Stabilize
    BY <1>1, <2>1, <2>2 DEF HotGasInv
  <2>3. hist'.comp >= AtMost(0, Stabilize)
    BY <1>0, <1>1, <1>2, AtMostFacts
  <2>4. CASE phase' = "valve_open" \/ (phase' = "active" /\ type = 2)
    <3>1. phase \in {"stabilize", "valve_open"}
      BY <1>0, <1>6, <2>1, <2>4 DEF Advances, Successor, Phases
    <3>2. req.compressor /\ req'.compressor
      <4>1. req = Requests(phase, type)
        BY DEF HotGasInv
      <4>2. req.compressor
        BY <1>0, <3>1, <4>1, RequestsFacts
      <4>3. Requests(phase', type).compressor
        BY <1>0, <2>2, <2>4, RequestsFacts
      <4> QED
        BY <2>1, <4>2, <4>3
    <3>3. hist.comp + 1 >= Stabilize
      BY <1>0, <2>1, <3>1 DEF HotGasInv, AtMost
    <3> QED
      BY <1>0, <1>1, <3>2, <3>3 DEF AtMost
  <2> QED
    BY <2>3, <2>4
<1>7. CASE Ends
  BY <1>7 , <1>1 DEF Ends, Finish, EnterPhase, HotGasInv
<1> QED
  BY <1>3, <1>4, <1>5, <1>6, <1>7, Moves

\* No relay and compressor together outside hot gas, whose relay waits until the
\* compressor has been requested for the stabilization time, for every length
\* of the phases and every abort and manual stop; a restart drops the requests.
THEOREM HotGasTheorem == Spec => []HotGasPrepared
<1>1. Init => TypeOK /\ TypeOfPhase /\ HotGasInv
  <2>1. Requests("idle", 0) = Nothing
    BY DEF Requests
  <2> QED
    BY <2>1, InitType DEF Init, TypeOfPhase, HotGasInv
<1>2. TypeOK /\ TypeOfPhase /\ HotGasInv /\ [Next]_vars
        => (TypeOK /\ TypeOfPhase /\ HotGasInv)'
  <2> SUFFICES ASSUME TypeOK, TypeOfPhase, HotGasInv, [Next]_vars
               PROVE  TypeOfPhase' /\ HotGasInv'
    BY NextType
  <2>1. CASE AnyUpdate
    BY <2>1, UpdateTypeOfPhase, UpdateHotGas DEF AnyUpdate
  <2>2. CASE ManualStart \/ ManualStop
    BY <2>2 DEF ManualStart, ManualStop, TypeOfPhase, HotGasInv, cycle
  <2>3. CASE Restart
    <3>1. /\ phase' = phase /\ type' = type /\ req' = Nothing
          /\ hist'.whole <=> phase = "idle"
      BY <2>3 DEF Restart, cycle, TypeOK, HistoryType
    <3>2. Requests("idle", type) = Nothing
      BY DEF Requests
    <3> QED
      BY <3>1, <3>2 DEF TypeOfPhase, HotGasInv
  <2>4. CASE UNCHANGED vars
    BY <2>4 DEF vars, TypeOfPhase, HotGasInv, cycle
  <2> QED
    BY <2>1, <2>2, <2>3, <2>4 DEF Next
<1>3. TypeOK /\ TypeOfPhase /\ HotGasInv => HotGasPrepared
  <2> SUFFICES ASSUME TypeOK, TypeOfPhase, HotGasInv,
                      hist.whole, req.relay, req.compressor
               PROVE  type = 2 /\ hist.comp >= Stabilize
    BY DEF HotGasPrepared
  <2>1. req = Requests(phase, type) /\ phase \in Phases /\ type \in 0..2
    BY DEF HotGasInv, TypeOK
  <2>2. phase = "valve_open" \/ (phase = "active" /\ type = 2)
    BY <2>1, RequestsFacts
  <2> QED
    BY <2>2 DEF TypeOfPhase, HotGasInv
<1> QED
  BY <1>1, <1>2, <1>3, PTL DEF Spec

\* One update keeps the count of quiet ticks, and the compressor restarts into
\* the fan delay only after the rest.
LEMMA UpdateRest ==
  ASSUME TypeOK, TypeOfPhase, RestInv, NEW in \in Readings, Update(in)
  PROVE  /\ RestInv'
         /\ ~req.compressor /\ req'.compressor /\ phase' = "fad" =>
              hist.quiet + 1 >= DripTime + IF type = 2 THEN EqualizeTime ELSE 0
<1>0. /\ hist.quiet \in Nat /\ hist.quiet <= Rest /\ timer \in Nat
      /\ Rest = EqualizeTime + DripTime /\ EqualizeTime \in Nat /\ DripTime \in Nat
      /\ type \in 0..2 /\ phase \in Phases
  BY Bounds DEF TypeOK, HistoryType, Rest
<1>1. hist'.quiet = IF Busy(req) \/ Busy(req') THEN 0
                    ELSE AtMost(hist.quiet + 1, Rest)
  BY DEF Update, Remember
<1>2. ASSUME NEW p \in {"equalize", "drip"}, NEW t PROVE ~Busy(Requests(p, t))
  BY DEF Busy, Requests, Request, Nothing
<1>3. hist'.quiet \in Nat
  BY <1>0, <1>1 DEF AtMost
<1>4. CASE Idles \/ Starts \/ Ends
  BY <1>4 DEF Idles, Starts, Ends, Finish, EnterPhase, RestInv
<1>5. CASE Stays
  <2>1. /\ phase' = phase /\ timer' = timer + 1 /\ type' = type /\ req' = req
    BY <1>5 DEF Stays, StayInPhase
  <2>2. CASE phase \in {"equalize", "drip"}
    <3>1. ~Busy(req) /\ hist'.quiet = AtMost(hist.quiet + 1, Rest)
      BY <1>1, <2>1, <2>2 DEF RestInv
    <3>2. phase = "equalize" => hist'.quiet >= AtMost(timer + 1, Rest)
      BY <1>0, <3>1 DEF RestInv, AtMost
    <3>3. phase = "drip" =>
            hist'.quiet >= AtMost(timer + 1 + (IF type = 2 THEN EqualizeTime ELSE 0),
                                  Rest)
      BY <1>0, <3>1 DEF RestInv, AtMost
    <3> QED
      BY <2>1, <2>2, <3>1, <3>2, <3>3 DEF RestInv
  <2>3. CASE phase \notin {"equalize", "drip"}
    BY <2>1, <2>3 DEF RestInv
  <2> QED
    BY <2>2, <2>3
<1>6. CASE Advances
  <2>1. /\ phase \notin {"idle", "fad"} /\ phase' = Successor(phase) /\ timer' = 0
        /\ type' = type /\ req' = Requests(phase', type)
        /\ phase = "equalize" => timer + 1 >= EqualizeTime
        /\ phase = "drip" => timer + 1 >= DripTime
    BY <1>6 DEF Advances, EnterPhase, Limit
  <2>2. phase' \in {"equalize", "drip"} => ~Busy(req')
    BY <1>2, <2>1
  <2>3. AtMost(0, Rest) = 0
    BY <1>0 DEF AtMost
  <2>4. CASE phase = "active"
    <3>1. /\ phase' = IF type = 2 THEN "equalize" ELSE "drip"
      BY <2>1, <2>4 DEF Successor
    <3> QED
      BY <1>0, <1>3, <2>1, <2>2, <2>3, <3>1 DEF RestInv
  <2>5. CASE phase = "equalize"
    <3>1. phase' = "drip" /\ type = 2
      BY <2>1, <2>5 DEF Successor, TypeOfPhase
    <3>2. hist'.quiet = AtMost(hist.quiet + 1, Rest)
      BY <1>1, <2>2, <2>5, <3>1 DEF RestInv
    <3>3. hist'.quiet >= AtMost(EqualizeTime, Rest)
      BY <1>0, <2>1, <2>5, <3>2 DEF RestInv, AtMost
    <3> QED
      BY <1>0, <2>1, <2>2, <3>1, <3>3 DEF RestInv
  <2>6. CASE phase = "drip"
    <3>1. phase' = "fad"
      BY <2>1, <2>6 DEF Successor
    <3>2. hist.quiet + 1 >= DripTime + IF type = 2 THEN EqualizeTime ELSE 0
      BY <1>0, <2>1, <2>6 DEF RestInv, AtMost
    <3> QED
      BY <3>1, <3>2 DEF RestInv
  <2>7. CASE phase \in {"pump_down", "stabilize", "valve_open"}
    <3>1. phase' \notin {"equalize", "drip", "fad"}
      BY <2>1, <2>7 DEF Successor
    <3> QED
      BY <3>1 DEF RestInv
  <2> QED
    BY <1>0, <2>1, <2>4, <2>5, <2>6, <2>7 DEF Phases
<1> QED
  BY <1>4, <1>5, <1>6, Moves

\* The compressor restarts into the fan delay only when nothing has been requested
\* for the drip time, and after hot gas also for the time that equalizes the
\* pressure, whatever aborted or restarted what before.
THEOREM RestTheorem == Spec => CompressorRests
<1>1. Init => TypeOK /\ TypeOfPhase /\ RestInv
  BY InitType DEF Init, TypeOfPhase, RestInv
<1>2. TypeOK /\ TypeOfPhase /\ RestInv /\ [Next]_vars
        => /\ (TypeOK /\ TypeOfPhase /\ RestInv)'
           /\ [~req.compressor /\ req'.compressor /\ phase' = "fad" =>
                 hist.quiet + 1 >= DripTime + IF type = 2 THEN EqualizeTime
                                                          ELSE 0]_vars
  <2> SUFFICES ASSUME TypeOK, TypeOfPhase, RestInv, [Next]_vars
               PROVE  /\ TypeOfPhase' /\ RestInv'
                      /\ [~req.compressor /\ req'.compressor /\ phase' = "fad" =>
                            hist.quiet + 1 >= DripTime + IF type = 2
                                                         THEN EqualizeTime
                                                         ELSE 0]_vars
    BY NextType
  <2>1. CASE AnyUpdate
    BY <2>1, UpdateTypeOfPhase, UpdateRest DEF AnyUpdate
  <2>2. CASE ManualStart \/ ManualStop
    BY <2>2 DEF ManualStart, ManualStop, TypeOfPhase, RestInv, cycle
  <2>3. CASE Restart
    <3>1. /\ phase' = phase /\ type' = type /\ timer' = timer /\ req' = Nothing
          /\ hist'.quiet = IF Busy(req) THEN 0 ELSE hist.quiet
      BY <2>3 DEF Restart, cycle, TypeOK, HistoryType
    <3>2. ~Busy(Nothing) /\ ~Nothing.compressor
      BY DEF Busy, Nothing, Request
    <3> QED
      BY <3>1, <3>2 DEF TypeOfPhase, RestInv
  <2>4. CASE UNCHANGED vars
    <3>1. TypeOfPhase' /\ RestInv'
      BY <2>4 DEF vars, TypeOfPhase, RestInv, cycle
    <3> QED
      BY <2>4, <3>1
  <2> QED
    BY <2>1, <2>2, <2>3, <2>4 DEF Next
<1> QED
  BY <1>1, <1>2, PTL DEF Spec, CompressorRests
=============================================================================
