--------------------------- MODULE EquipmentProofs ---------------------------
(***************************************************************************)
(* Theorems about Equipment over its whole life cycle, for every value of  *)
(* its constants: type correctness, the compressor's minimum off and on    *)
(* times, the interlock of heater and compressor, and the condenser fan.   *)
(***************************************************************************)
EXTENDS Equipment, TLAPS

-----------------------------------------------------------------------------
(* The operators of one update                                             *)

\* A timer stepped with a cap stays within it.
LEMMA AtMostRange ==
  ASSUME NEW n \in Nat, NEW cap \in Nat
  PROVE  AtMost(n, cap) \in 0..cap /\ AtMost(n, cap) <= n
  BY DEF AtMost

\* The request cache keeps its type when the zones are read.
LEMMA ReadZonesType ==
  ASSUME zoneReq \in [ZoneIds -> ZoneReqType],
         NEW n \in ZoneIds, NEW r \in [1..n -> ZoneInputs]
  PROVE  /\ ReadZones(r, n) \in [ZoneIds -> ZoneReqType]
         /\ \A z \in 1..n : ReadZones(r, n)[z] = r[z]
<1>1. ASSUME NEW z \in 1..n PROVE r[z] \in ZoneReqType
  BY <1>1, EquipmentConstants
<1>2. n \in Nat /\ 1..n \subseteq ZoneIds
  BY EquipmentConstants DEF ZoneIds
<1>3. ASSUME NEW z \in ZoneIds
      PROVE  (IF z <= n THEN r[z] ELSE zoneReq[z]) \in ZoneReqType
  BY <1>1, <1>2 DEF ZoneIds
<1> QED
  BY <1>2, <1>3 DEF ReadZones

\* The aggregated requests have their type.
LEMMA AggregateType ==
  ASSUME NEW zr \in [ZoneIds -> ZoneReqType], NEW n \in ZoneIds,
         NEW p \in ProtType, NEW light \in BOOLEAN
  PROVE  Aggregate(zr, n, p, light) \in ReqType
  BY DEF Aggregate, ReqType, ProtType

\* The outputs the requests ask for have their type.
LEMMA RequestedType ==
  ASSUME NEW rq \in ReqType
  PROVE  Requested(rq) \in OutType
  BY Zenon DEF Requested, ReqType, OutType

\* Fan control leaves the compressor alone and can only take the defrost relay
\* away; in classic mode it leaves that alone too.
LEMMA FanControlFacts ==
  ASSUME NEW out \in OutType, NEW rq \in ReqType, NEW timer \in 0..HpPause,
         NEW t \in CondTemps, NEW mode \in FanModes, hpActive \in BOOLEAN
  PROVE  LET fan == FanControl(out, rq, timer, t, mode)
         IN /\ fan.out \in OutType
            /\ fan.active \in BOOLEAN
            /\ fan.timer \in 0..HpPause
            /\ fan.out.compressor = out.compressor
            /\ mode = 0 => fan.out.defrost_relay = out.defrost_relay
            /\ fan.out.defrost_relay => out.defrost_relay
            /\ fan = [out |-> fan.out, active |-> fan.active, timer |-> fan.timer]
<1> DEFINE starts    == t < CondLow /\ rq.any_defrost_active
           active    == hpActive \/ starts
           elapsed   == IF starts /\ ~hpActive THEN 0 ELSE timer
           recovered == t >= CondOff \/ elapsed >= HpPause
           fan       == FanControl(out, rq, timer, t, mode)
<1>1. /\ elapsed \in 0..HpPause
      /\ active \in BOOLEAN /\ recovered \in BOOLEAN
  BY EquipmentConstants
<1>2. ASSUME NEW fanOn \in BOOLEAN
      PROVE  LET o == [out EXCEPT !.cond_fan = fanOn]
             IN /\ o \in OutType
                /\ o.compressor = out.compressor
                /\ o.defrost_relay = out.defrost_relay
  BY DEF OutType
<1>3. LET o == [out EXCEPT !.cond_fan = FALSE, !.defrost_relay = FALSE]
      IN o \in OutType /\ o.compressor = out.compressor /\ ~o.defrost_relay
  BY DEF OutType
<1>4. CASE mode = 0 \/ t = NoTemp
  <2>1. fan = [out |-> [out EXCEPT !.cond_fan = out.cond_fan \/ out.compressor],
               active |-> hpActive, timer |-> timer]
    BY <1>4 DEF FanControl, Recovered
  <2> QED
    BY <2>1 DEF OutType
<1>5. CASE ~(mode = 0 \/ t = NoTemp) /\ ~out.compressor
  <2>1. fan = [out |-> [out EXCEPT !.cond_fan = FALSE],
               active |-> hpActive, timer |-> timer]
    BY <1>5 DEF FanControl, Recovered
  <2> HIDE DEF fan, starts, active, elapsed, recovered
  <2>2. /\ fan.out \in OutType
        /\ fan.out.compressor = out.compressor
        /\ fan.out.defrost_relay = out.defrost_relay
    BY <1>2, <2>1
  <2>3. /\ fan.active = hpActive /\ fan.timer = timer
        /\ fan = [out |-> fan.out, active |-> fan.active, timer |-> fan.timer]
    BY <2>1
  <2> QED
    BY <1>5, <2>2, <2>3 DEF fan
<1>6. CASE ~(mode = 0 \/ t = NoTemp) /\ out.compressor /\ active
  <2>1. fan = [out |-> [out EXCEPT !.cond_fan = FALSE, !.defrost_relay = FALSE],
               active |-> ~recovered, timer |-> elapsed]
    BY <1>6 DEF FanControl, Recovered
  <2> HIDE DEF fan, starts, active, elapsed, recovered
  <2>2. /\ fan.out \in OutType
        /\ fan.out.compressor = out.compressor
        /\ ~fan.out.defrost_relay
    BY <1>3, <2>1
  <2>3. /\ fan.active = ~recovered /\ fan.timer = elapsed
        /\ fan = [out |-> fan.out, active |-> fan.active, timer |-> fan.timer]
    BY <2>1
  <2> QED
    BY <1>1, <1>6, <2>2, <2>3 DEF fan
<1>7. CASE ~(mode = 0 \/ t = NoTemp) /\ out.compressor /\ ~active
  <2> DEFINE on == t >= CondOn \/ (t > CondOff /\ out.cond_fan)
  <2>1. fan = [out |-> [out EXCEPT !.cond_fan = on],
               active |-> hpActive, timer |-> timer]
    BY <1>7 DEF FanControl, Recovered
  <2>2. on \in BOOLEAN
    OBVIOUS
  <2> HIDE DEF fan, starts, active, elapsed, recovered, on
  <2>3. /\ fan.out \in OutType
        /\ fan.out.compressor = out.compressor
        /\ fan.out.defrost_relay = out.defrost_relay
    BY <1>2, <2>1, <2>2
  <2>4. /\ fan.active = hpActive /\ fan.timer = timer
        /\ fan = [out |-> fan.out, active |-> fan.active, timer |-> fan.timer]
    BY <2>1
  <2> QED
    BY <1>7, <2>3, <2>4 DEF fan
<1> QED
  BY <1>4, <1>5, <1>6, <1>7

\* The last step of arbitration: a compressor left on is not blocked, and no
\* defrost relay is on beside an active electric defrost.
LEMMA InterlocksFacts ==
  ASSUME NEW out \in OutType, NEW rq \in ReqType,
         NEW zr \in [ZoneIds -> ZoneReqType], NEW n \in ZoneIds
  PROVE  LET o == Interlocks(out, rq, zr, n)
         IN /\ o \in OutType
            /\ o.defrost_relay = out.defrost_relay
            /\ o.compressor =>
                 /\ out.compressor
                 /\ ~Blocked(rq)
                 /\ ~(out.defrost_relay /\ ElectricActive(zr, n))
<1>1. 1 \in ZoneIds
  BY EquipmentConstants DEF ZoneIds
<1>2. zr[1].eev_valve_pos \in BOOLEAN /\ rq.light_request \in BOOLEAN
  BY <1>1 DEF ZoneReqType, ReqType
<1> QED
  BY <1>2 DEF Interlocks, OutType

\* What one arbitration decides: types; a compressor is on only when there is
\* no lockout, anti-short-cycle allowed it, it is not blocked, and no defrost
\* relay is on beside an active electric defrost; in classic fan mode the
\* relay decided is the relay requested.
LEMMA ArbitrateFacts ==
  ASSUME NEW rq \in ReqType, NEW zr \in [ZoneIds -> ZoneReqType],
         NEW n \in ZoneIds, NEW since \in Nat, NEW timer \in 0..HpPause,
         NEW t \in CondTemps, NEW mode \in FanModes,
         hpActive \in BOOLEAN, compActual \in BOOLEAN
  PROVE  LET arb == Arbitrate(rq, zr, n, since, timer, t, mode)
         IN /\ arb.out \in OutType
            /\ arb.active \in BOOLEAN
            /\ arb.timer \in 0..HpPause
            /\ arb.out.defrost_relay => Requested(rq).defrost_relay
            /\ arb.out.compressor =>
                 /\ ~rq.protection_lockout
                 /\ compActual \/ since >= MinOff
                 /\ ~Blocked(rq)
                 /\ ~(arb.out.defrost_relay /\ ElectricActive(zr, n))
                 /\ mode = 0 =>
                      arb.out.defrost_relay = Requested(rq).defrost_relay
<1> DEFINE wanted == Requested(rq)
           asc == [wanted EXCEPT !.compressor =
                                   AntiShortCycle(wanted.compressor, since)]
           fan == FanControl(asc, rq, timer, t, mode)
           arb == Arbitrate(rq, zr, n, since, timer, t, mode)
<1>1. CASE rq.protection_lockout
  <2>1. arb = [out |-> AllOff, active |-> hpActive, timer |-> timer]
    BY <1>1 DEF Arbitrate
  <2>2. AllOff \in OutType /\ ~AllOff.compressor /\ ~AllOff.defrost_relay
    BY DEF AllOff, OutType
  <2>3. arb.out = AllOff /\ arb.active = hpActive /\ arb.timer = timer
    BY <2>1
  <2>4. arb.out \in OutType /\ ~arb.out.compressor /\ ~arb.out.defrost_relay
    BY <2>2, <2>3
  <2>5. arb.active \in BOOLEAN
    BY <2>3
  <2>6. arb.timer \in 0..HpPause
    BY <2>3
  <2> QED
    BY <2>4, <2>5, <2>6
<1>2. CASE ~rq.protection_lockout
  <2>1. wanted \in OutType
    BY RequestedType
  <2>2. AntiShortCycle(wanted.compressor, since) \in BOOLEAN
    BY <2>1, EquipmentConstants DEF AntiShortCycle, OutType
  <2>3. /\ asc \in OutType
        /\ asc.compressor = AntiShortCycle(wanted.compressor, since)
        /\ asc.defrost_relay = wanted.defrost_relay
    BY <2>1, <2>2 DEF OutType
  <2>4. /\ fan.out \in OutType
        /\ fan.active \in BOOLEAN
        /\ fan.timer \in 0..HpPause
        /\ fan.out.compressor = asc.compressor
        /\ mode = 0 => fan.out.defrost_relay = asc.defrost_relay
        /\ fan.out.defrost_relay => asc.defrost_relay
        /\ fan = [out |-> fan.out, active |-> fan.active, timer |-> fan.timer]
    <3>1. asc \in OutType
      BY <2>3
    <3> HIDE DEF asc, wanted
    <3> QED
      BY <3>1, FanControlFacts
  <2>5. arb = [fan EXCEPT !.out = Interlocks(fan.out, rq, zr, n)]
    BY <1>2 DEF Arbitrate
  <2>6. /\ arb.out = Interlocks(fan.out, rq, zr, n)
        /\ arb.active = fan.active
        /\ arb.timer = fan.timer
    BY <2>4, <2>5
  <2>7. /\ arb.out \in OutType
        /\ arb.out.defrost_relay = fan.out.defrost_relay
        /\ arb.out.compressor =>
             /\ fan.out.compressor
             /\ ~Blocked(rq)
             /\ ~(fan.out.defrost_relay /\ ElectricActive(zr, n))
    BY <2>4, <2>6, InterlocksFacts
  <2>8. asc.compressor => compActual \/ since >= MinOff
    BY <2>1, <2>3 DEF AntiShortCycle, OutType
  <2> QED
    BY <1>2, <2>3, <2>4, <2>6, <2>7, <2>8
<1> QED
  BY <1>1, <1>2

-----------------------------------------------------------------------------
(* Type correctness                                                        *)

\* Driving the outputs keeps the types of everything physical.
LEMMA ApplyOutputsType ==
  ASSUME TypeOK, NEW out \in OutType, NEW zr \in [ZoneIds -> ZoneReqType],
         NEW n \in ZoneIds, ApplyOutputs(out, zr, n)
  PROVE  /\ relay' \in OutType
         /\ zoneRelay' \in [ZoneIds -> ZoneOutType]
         /\ emergency' \in [ZoneIds -> BOOLEAN]
         /\ relay'.compressor = out.compressor
<1>1. 1 \in ZoneIds
  BY EquipmentConstants DEF ZoneIds
<1>2. relay' \in OutType /\ relay'.compressor = out.compressor
  <2>1. /\ out.compressor \in BOOLEAN /\ out.cond_fan \in BOOLEAN
        /\ out.light \in BOOLEAN
        /\ (IF n >= 2 THEN relay.defrost_relay ELSE out.defrost_relay) \in BOOLEAN
        /\ (IF n >= 2 THEN relay.evap_fan ELSE out.evap_fan) \in BOOLEAN
    BY DEF TypeOK, OutType
  <2>2. (SharedValve /\ out.valve /\ ~emergency[1]) \in BOOLEAN
    OBVIOUS
  <2> QED
    BY <2>1, <2>2, Zenon DEF ApplyOutputs, OutType
<1>3. zoneRelay' \in [ZoneIds -> ZoneOutType]
  <2>1. ASSUME NEW z \in ZoneIds
        PROVE  [defrost_relay |-> zr[z].def_defrost_relay,
                evap_fan |-> IF zr[z].defrost_active THEN zr[z].def_evap_fan
                                                     ELSE zr[z].therm_evap_fan,
                valve |-> /\ out.compressor /\ zr[z].eev_valve_pos
                          /\ ~emergency[z]] \in ZoneOutType
    BY DEF ZoneReqType, ZoneOutType
  <2> QED
    BY <2>1 DEF ApplyOutputs, TypeOK
<1>4. emergency' \in [ZoneIds -> BOOLEAN]
  BY DEF ApplyOutputs, TypeOK
<1> QED
  BY <1>2, <1>3, <1>4

\* The timers keep their range when the state is published and time passes.
LEMMA TimersType ==
  ASSUME TypeOK, NEW since \in 0..Satisfied, NEW ticks \in {0, 1},
         relay' \in OutType
  PROVE  /\ PublishState(since) => /\ compActual' \in BOOLEAN
                                  /\ compSince' \in 0..Satisfied
         /\ Elapse(ticks) => sinceSwitch' \in 0..Satisfied /\ beat' \in BOOLEAN
<1>1. Satisfied \in Nat
  BY EquipmentConstants
<1>2. AtMost(sinceSwitch + ticks, Satisfied) \in 0..Satisfied
  <2>1. sinceSwitch + ticks \in Nat
    BY <1>1 DEF TypeOK
  <2> QED
    BY <1>1, <2>1, AtMostRange
<1>3. PublishState(since) => compActual' \in BOOLEAN /\ compSince' \in 0..Satisfied
  BY <1>1 DEF PublishState, TypeOK, OutType
<1>4. Elapse(ticks) => sinceSwitch' \in 0..Satisfied
  BY <1>1, <1>2 DEF Elapse, TypeOK, OutType
<1>5. Elapse(ticks) => beat' \in BOOLEAN
  BY Zenon DEF Elapse, TypeOK
<1> QED
  BY <1>3, <1>4, <1>5

\* The values of Update that a proof about it needs, each with its type.
LEMMA UpdateTypes ==
  ASSUME TypeOK, NEW n \in ZoneCounts, NEW r \in [1..n -> ZoneInputs],
         NEW p \in ProtInputs, NEW light \in LightInputs
  PROVE  LET zr == ReadZones(r, n)
             rq == Aggregate(zr, n, p, light)
             timer == IF hpActive THEN AtMost(hpTimer + 1, HpPause)
                      ELSE IF ~rq.any_defrost_active THEN 0 ELSE hpTimer
         IN /\ n \in ZoneIds
            /\ zr \in [ZoneIds -> ZoneReqType]
            /\ rq \in ReqType
            /\ AtMost(compSince + 1, Satisfied) \in 0..Satisfied
            /\ timer \in 0..HpPause
<1> DEFINE zr == ReadZones(r, n)
<1>1. n \in ZoneIds /\ p \in ProtType /\ light \in BOOLEAN
  BY EquipmentConstants
<1>2. zr \in [ZoneIds -> ZoneReqType]
  BY <1>1, ReadZonesType DEF TypeOK
<1>3. Aggregate(zr, n, p, light) \in ReqType
  BY <1>1, <1>2, AggregateType
<1>4. AtMost(compSince + 1, Satisfied) \in 0..Satisfied
  <2>1. compSince + 1 \in Nat /\ Satisfied \in Nat
    BY EquipmentConstants DEF TypeOK
  <2> QED
    BY <2>1, AtMostRange
<1>5. AtMost(hpTimer + 1, HpPause) \in 0..HpPause
  <2>1. hpTimer + 1 \in Nat /\ HpPause \in Nat
    BY EquipmentConstants DEF TypeOK
  <2> QED
    BY <2>1, AtMostRange
<1> HIDE DEF zr
<1>6. (IF hpActive THEN AtMost(hpTimer + 1, HpPause)
       ELSE IF ~Aggregate(zr, n, p, light).any_defrost_active THEN 0
       ELSE hpTimer) \in 0..HpPause
  BY <1>5, EquipmentConstants DEF TypeOK
<1> QED
  BY <1>1, <1>2, <1>3, <1>4, <1>6 DEF zr

\* A fresh module is well typed.
LEMMA FreshType ==
  /\ NoZoneReqs \in [ZoneIds -> ZoneReqType]
  /\ NoReq \in ReqType
  /\ AllOff \in OutType
  /\ [z \in ZoneIds |-> ZoneOff] \in [ZoneIds -> ZoneOutType]
  /\ [z \in ZoneIds |-> FALSE] \in [ZoneIds -> BOOLEAN]
  /\ 0 \in 0..HpPause /\ Satisfied \in 0..Satisfied /\ 0 \in Nat
  /\ FanModes \subseteq {0, 1}
<1>1. NoZoneReqs \in [ZoneIds -> ZoneReqType]
  BY DEF NoZoneReqs, NoZoneReq, ZoneReqType
<1>2. 1 \in ZoneIds
  BY EquipmentConstants DEF ZoneIds
<1>3. NoProt \in ProtType
  BY DEF NoProt, ProtType
<1>4. NoReq \in ReqType
  BY <1>1, <1>2, <1>3, AggregateType DEF NoReq
<1>5. AllOff \in OutType /\ ZoneOff \in ZoneOutType
  BY DEF AllOff, OutType, ZoneOff, ZoneOutType
<1>6. 0 \in 0..HpPause /\ Satisfied \in 0..Satisfied /\ FanModes \subseteq {0, 1}
  BY EquipmentConstants
<1> QED
  BY <1>1, <1>4, <1>5, <1>6

\* The record of stops is a Boolean.
LEMMA RecordType ==
  ASSUME TypeOK, NEW stopped \in BOOLEAN, Record(stopped)
  PROVE  restarted' \in BOOLEAN
  BY Zenon DEF Record, TypeOK

\* The initial state is well typed.
LEMMA InitType == Init => TypeOK
<1> SUFFICES ASSUME Init PROVE TypeOK
  OBVIOUS
<1>1. bootZones \in ZoneIds /\ zoneCount \in ZoneIds
  BY EquipmentConstants DEF Init
<1> QED
  BY <1>1, FreshType, Zenon DEF Init, TypeOK

\* One main loop cycle keeps the types.
LEMMA UpdateType ==
  ASSUME TypeOK, NEW n \in ZoneCounts, NEW r \in [1..n -> ZoneInputs],
         NEW p \in ProtInputs, NEW light \in LightInputs,
         NEW t \in CondTemps, NEW mode \in FanModes,
         Update(n, r, p, light, t, mode)
  PROVE  TypeOK'
<1> DEFINE zr    == ReadZones(r, n)
           rq    == Aggregate(zr, n, p, light)
           since == AtMost(compSince + 1, Satisfied)
           timer == IF hpActive THEN AtMost(hpTimer + 1, HpPause)
                    ELSE IF ~rq.any_defrost_active THEN 0 ELSE hpTimer
           arb   == Arbitrate(rq, zr, n, since, timer, t, mode)
<1>1. /\ n \in ZoneIds /\ zr \in [ZoneIds -> ZoneReqType] /\ rq \in ReqType
      /\ since \in 0..Satisfied /\ timer \in 0..HpPause
  BY UpdateTypes
<1>2. /\ zoneCount' = n /\ zoneReq' = zr /\ req' = rq
      /\ hpActive' = arb.active /\ hpTimer' = arb.timer /\ condTemp' = t
      /\ ApplyOutputs(arb.out, zr, n) /\ PublishState(since) /\ Elapse(1)
      /\ condMode' = mode /\ Record(FALSE)
      /\ UNCHANGED <<running, bootZones>>
  BY DEF Update
<1> HIDE DEF zr, rq, since, timer
<1>3. /\ arb.out \in OutType /\ arb.active \in BOOLEAN
      /\ arb.timer \in 0..HpPause
  <2>1. since \in Nat /\ hpActive \in BOOLEAN /\ compActual \in BOOLEAN
    BY <1>1, EquipmentConstants DEF TypeOK
  <2> QED
    BY <1>1, <2>1, ArbitrateFacts
<1> HIDE DEF arb
<1>4. /\ relay' \in OutType
      /\ zoneRelay' \in [ZoneIds -> ZoneOutType]
      /\ emergency' \in [ZoneIds -> BOOLEAN]
  BY <1>1, <1>2, <1>3, ApplyOutputsType
<1>5. /\ compActual' \in BOOLEAN /\ compSince' \in 0..Satisfied
      /\ sinceSwitch' \in 0..Satisfied /\ beat' \in BOOLEAN
  BY <1>1, <1>2, <1>4, TimersType
<1>6. condTemp' \in Nat \cup {NoTemp} /\ condMode' \in {0, 1} /\ restarted' \in BOOLEAN
  BY <1>2, RecordType, EquipmentConstants
<1> QED
  BY <1>1, <1>2, <1>3, <1>4, <1>5, <1>6 DEF TypeOK

\* So does clearing the outputs, in safe mode or on stop.
LEMMA ClearType ==
  ASSUME TypeOK, SafeMode \/ Stop
  PROVE  TypeOK'
<1>1. AllOff \in OutType
  BY FreshType
<1>2. ApplyOutputs(AllOff, zoneReq, zoneCount) /\ Elapse(0)
  BY DEF SafeMode, Stop
<1>3. /\ relay' \in OutType
      /\ zoneRelay' \in [ZoneIds -> ZoneOutType]
      /\ emergency' \in [ZoneIds -> BOOLEAN]
  BY <1>1, <1>2, ApplyOutputsType DEF TypeOK
<1>4. sinceSwitch' \in 0..Satisfied /\ beat' \in BOOLEAN
  BY <1>2, <1>3, TimersType DEF TypeOK
<1>5. compActual' \in BOOLEAN /\ compSince' \in 0..Satisfied
  <2>1. CASE SafeMode
    BY <1>3, <2>1, TimersType DEF SafeMode, TypeOK
  <2>2. CASE Stop
    BY <2>2 DEF Stop, TypeOK
  <2> QED
    BY <2>1, <2>2
<1>6. /\ UNCHANGED <<bootZones, zoneCount, zoneReq, req, hpActive, hpTimer,
                     condTemp, condMode>>
      /\ running' \in BOOLEAN
  BY DEF SafeMode, Stop, TypeOK
<1>7. restarted' \in BOOLEAN
  BY RecordType DEF SafeMode, Stop
<1> QED
  BY <1>3, <1>4, <1>5, <1>6, <1>7 DEF TypeOK

\* Every step of the life cycle keeps the types.
LEMMA NextType == TypeOK /\ [LifecycleNext]_vars => TypeOK'
<1> SUFFICES ASSUME TypeOK, [LifecycleNext]_vars PROVE TypeOK'
  OBVIOUS
<1>1. CASE AnyUpdate
  BY <1>1, UpdateType DEF AnyUpdate
<1>2. CASE SafeMode \/ Stop
  BY <1>2, ClearType
<1>3. CASE \E z \in ZoneIds : RequestEmergencyClose(z)
  BY <1>3 DEF RequestEmergencyClose, TypeOK
<1>4. CASE \E n \in ZoneCounts : Reinit(n)
  BY <1>4, EquipmentConstants DEF Reinit, TypeOK
<1>5. CASE \E n \in ZoneCounts : Reboot(n)
  <2> PICK n \in ZoneCounts : Reboot(n)
    BY <1>5
  <2>1. n \in ZoneIds
    BY EquipmentConstants
  <2>2. relay' \in OutType /\ Elapse(0)
    BY FreshType DEF Reboot
  <2>3. /\ sinceSwitch' \in 0..Satisfied /\ beat' \in BOOLEAN
        /\ restarted' \in BOOLEAN
    BY <2>2, TimersType, RecordType DEF TypeOK, Reboot
  <2> QED
    BY <2>1, <2>3, FreshType, Zenon DEF Reboot, TypeOK
<1>6. CASE UNCHANGED vars
  BY <1>6 DEF vars, TypeOK
<1> QED
  BY <1>1, <1>2, <1>3, <1>4, <1>5, <1>6 DEF LifecycleNext, Next

\* Type correctness of the Equipment Manager over its whole life cycle: in
\* operation, stopped, restarted and rebooted.
THEOREM TypeCorrect == LifecycleSpec => []TypeOK
<1>1. Init => TypeOK
  BY InitType
<1>2. TypeOK /\ [LifecycleNext]_vars => TypeOK'
  BY NextType
<1> QED
  BY <1>1, <1>2, PTL DEF LifecycleSpec

-----------------------------------------------------------------------------
(* The minimum off time                                                    *)

\* In operation the module's own bookkeeping is the truth: comp_actual_ is the
\* relay, and comp_since_ms_ the time since the relay switched.
Bookkeeping == compActual = relay.compressor /\ compSince = sinceSwitch

\* The strengthening: it is, but for a module that was stopped or rebooted and
\* has not ended a run since; and a relay that is on is never news to it, so
\* that the end of the run sets the books right.
Books == (relay.compressor => compActual) /\ (~restarted => Bookkeeping)

\* A step that publishes what the relay does keeps the books.
LEMMA PublishBooks ==
  ASSUME TypeOK, Books, NEW since \in 0..Satisfied, NEW ticks \in {0, 1},
         compSince = sinceSwitch => since = AtMost(sinceSwitch + ticks, Satisfied),
         relay' \in OutType, PublishState(since), Record(FALSE), Elapse(ticks)
  PROVE  Books'
<1>1. compActual' = relay'.compressor
  BY DEF PublishState
<1>2. compSince' = IF relay'.compressor # compActual THEN 0 ELSE since
  BY DEF PublishState
<1>3. sinceSwitch' = IF relay'.compressor # relay.compressor THEN 0
                     ELSE AtMost(sinceSwitch + ticks, Satisfied)
  BY DEF Elapse
<1>4. restarted' = (restarted /\ (relay.compressor => relay'.compressor))
  BY Zenon DEF Record
<1>5. CASE ~restarted
  <2>1. compActual = relay.compressor /\ since = AtMost(sinceSwitch + ticks, Satisfied)
    BY <1>5 DEF Books, Bookkeeping
  <2> QED
    BY <1>1, <1>2, <1>3, <2>1 DEF Books, Bookkeeping
<1>6. CASE restarted /\ ~(relay.compressor /\ ~relay'.compressor)
  BY <1>1, <1>4, <1>6 DEF Books
<1>7. CASE relay.compressor /\ ~relay'.compressor
  <2>1. compActual = TRUE /\ relay'.compressor = FALSE /\ relay.compressor = TRUE
    BY <1>7 DEF Books, TypeOK, OutType
  <2>2. compSince' = 0 /\ sinceSwitch' = 0
    BY <1>2, <1>3, <2>1
  <2> QED
    BY <1>1, <2>2 DEF Books, Bookkeeping
<1> QED
  BY <1>5, <1>6, <1>7

\* One cycle keeps the books, and closes the relay only after MinOff.
LEMMA UpdateMinOff ==
  ASSUME TypeOK, Books, NEW n \in ZoneCounts,
         NEW r \in [1..n -> ZoneInputs],
         NEW p \in ProtInputs, NEW light \in LightInputs,
         NEW t \in CondTemps, NEW mode \in FanModes,
         Update(n, r, p, light, t, mode)
  PROVE  Books' /\ MinOffStep
<1> DEFINE zr    == ReadZones(r, n)
           rq    == Aggregate(zr, n, p, light)
           since == AtMost(compSince + 1, Satisfied)
           timer == IF hpActive THEN AtMost(hpTimer + 1, HpPause)
                    ELSE IF ~rq.any_defrost_active THEN 0 ELSE hpTimer
           arb   == Arbitrate(rq, zr, n, since, timer, t, mode)
<1>1. /\ n \in ZoneIds /\ zr \in [ZoneIds -> ZoneReqType] /\ rq \in ReqType
      /\ since \in 0..Satisfied /\ timer \in 0..HpPause
  BY UpdateTypes
<1>2. /\ ApplyOutputs(arb.out, zr, n) /\ PublishState(since)
      /\ Record(FALSE) /\ Elapse(1)
  BY DEF Update
<1>3. compSince = sinceSwitch => since = AtMost(sinceSwitch + 1, Satisfied)
  OBVIOUS
<1>4. since \in Nat /\ (compSince = sinceSwitch => since <= sinceSwitch + 1)
  <2>1. sinceSwitch + 1 \in Nat /\ Satisfied \in Nat
    BY EquipmentConstants DEF TypeOK
  <2> QED
    BY <1>1, <2>1, AtMostRange
<1> HIDE DEF zr, rq, since, timer
<1>5. arb.out \in OutType /\ (arb.out.compressor => compActual \/ since >= MinOff)
  BY <1>1, <1>4, ArbitrateFacts DEF TypeOK
<1> HIDE DEF arb
<1>6. relay' \in OutType /\ relay'.compressor = arb.out.compressor
  BY <1>1, <1>2, <1>5, ApplyOutputsType
<1>7. Books'
  BY <1>1, <1>2, <1>3, <1>6, PublishBooks
<1>8. MinOffStep
  <2> SUFFICES ASSUME ~relay.compressor, relay'.compressor, ~restarted
               PROVE  sinceSwitch + 1 >= MinOff
    BY DEF MinOffStep
  <2>1. compSince = sinceSwitch /\ since >= MinOff
    BY <1>5, <1>6 DEF Books, Bookkeeping
  <2> QED
    BY <1>4, <2>1, EquipmentConstants DEF TypeOK
<1> QED
  BY <1>7, <1>8

\* At power-on the books are kept.
LEMMA InitBooks == Init => TypeOK /\ Books
<1>1. AllOff.compressor = FALSE
  BY DEF AllOff
<1> QED
  BY <1>1, InitType, Zenon DEF Init, Books, Bookkeeping

\* Clearing the outputs opens the compressor's relay.
LEMMA ClearRelay ==
  ASSUME TypeOK, SafeMode \/ Stop
  PROVE  relay' \in OutType /\ relay'.compressor = FALSE
<1>1. ApplyOutputs(AllOff, zoneReq, zoneCount)
  BY DEF SafeMode, Stop
<1> QED
  BY <1>1, FreshType, ApplyOutputsType DEF AllOff, TypeOK

\* Every step keeps the books, and none closes the relay early.
LEMMA NextBooks ==
  TypeOK /\ Books /\ [LifecycleNext]_vars => Books' /\ MinOffStep
<1> SUFFICES ASSUME TypeOK, Books, [LifecycleNext]_vars
             PROVE  Books' /\ MinOffStep
  OBVIOUS
<1>1. CASE AnyUpdate
  BY <1>1, UpdateMinOff DEF AnyUpdate
<1>2. CASE SafeMode
  <2>1. sinceSwitch = AtMost(sinceSwitch + 0, Satisfied)
    BY EquipmentConstants DEF TypeOK, AtMost
  <2>2. relay' \in OutType /\ relay'.compressor = FALSE
    BY <1>2, ClearRelay
  <2>3. compSince = sinceSwitch => compSince = AtMost(sinceSwitch + 0, Satisfied)
    BY <2>1
  <2>4. /\ PublishState(compSince) /\ Record(FALSE) /\ Elapse(0)
        /\ compSince \in 0..Satisfied
    BY <1>2 DEF SafeMode, TypeOK
  <2> QED
    BY <2>2, <2>3, <2>4, PublishBooks DEF MinOffStep
<1>3. CASE \E z \in ZoneIds : RequestEmergencyClose(z)
  BY <1>3 DEF RequestEmergencyClose, Books, Bookkeeping, MinOffStep
<1>4. CASE Stop
  <2>1. relay'.compressor = FALSE /\ restarted' = TRUE
    BY <1>4, ClearRelay DEF Stop, Record
  <2> QED
    BY <2>1 DEF Books, MinOffStep
<1>5. CASE \E n \in ZoneCounts : Reinit(n)
  BY <1>5 DEF Reinit, Books, Bookkeeping, MinOffStep
<1>6. CASE \E n \in ZoneCounts : Reboot(n)
  <2>1. relay'.compressor = FALSE
    BY <1>6 DEF Reboot, AllOff
  <2>2. restarted'
    BY <1>6, Zenon DEF Reboot, Record
  <2> QED
    BY <2>1, <2>2 DEF Books, MinOffStep
<1>7. CASE UNCHANGED vars
  BY <1>7 DEF vars, Books, Bookkeeping, MinOffStep
<1> QED
  BY <1>1, <1>2, <1>3, <1>4, <1>5, <1>6, <1>7 DEF LifecycleNext, Next

\* The compressor relay never closes before it has been open for MinOff, for
\* every number of zones, every request and every setting, through stops,
\* restarts and reboots, of which each may cost one early start.
THEOREM MinOffTheorem == LifecycleSpec => MinOffRespected
<1>1. Init => TypeOK /\ Books
  BY InitBooks
<1>2. TypeOK /\ Books /\ [LifecycleNext]_vars => (TypeOK /\ Books)' /\ MinOffStep
  BY NextBooks, NextType
<1> QED
  BY <1>1, <1>2, PTL DEF LifecycleSpec, MinOffRespected

-----------------------------------------------------------------------------
(* The interlock of heater and compressor                                  *)

\* What the defrost modules promise: a defrost relay is asked for only in an
\* active defrost, and only while the type setting is electric.
ElectricOnly ==
  \A q \in ZoneInputs : q.def_defrost_relay => q.defrost_active /\ q.type = 1

\* Nobody changes the number of zones, and head pressure control (which takes
\* the shared relay away, and so the interlock with it) does not meet zones
\* that have relays of their own.
PlainSetup ==
  /\ \E n \in ZoneIds : ZoneCounts = {n}
  /\ ZoneCounts = {1} \/ FanModes \subseteq {0}

\* The strengthening: relays nobody drives are off.
HeaterInv ==
  /\ bootZones \in ZoneCounts /\ zoneCount \in ZoneCounts
  /\ zoneCount >= 2 => ~relay.defrost_relay
  /\ \A z \in ZoneIds : ~Driven(z, zoneCount) => ~zoneRelay[z].defrost_relay
  /\ HeaterInterlock

\* A defrost relay driven by electric defrosts only is beside an active one.
LEMMA RelayIsElectric ==
  ASSUME ElectricOnly, NEW n \in ZoneCounts, NEW r \in [1..n -> ZoneInputs],
         NEW zr \in [ZoneIds -> ZoneReqType], \A z \in 1..n : zr[z] = r[z],
         NEW z \in 1..n, zr[z].def_defrost_relay,
         NEW p, NEW light
  PROVE  ElectricActive(zr, n) /\ Requested(Aggregate(zr, n, p, light)).defrost_relay
<1>1. r[z] \in ZoneInputs /\ zr[z] = r[z]
  OBVIOUS
<1>2. zr[z].defrost_active /\ zr[z].type = 1
  BY <1>1 DEF ElectricOnly
<1>3. ElectricActive(zr, n)
  BY <1>2 DEF ElectricActive
<1>4. /\ Aggregate(zr, n, p, light).any_def_defrost_relay
      /\ Aggregate(zr, n, p, light).any_defrost_active
  BY <1>2 DEF Aggregate
<1> QED
  BY <1>3, <1>4 DEF Requested

\* One cycle keeps the heater and the compressor apart.
LEMMA UpdateHeater ==
  ASSUME TypeOK, ElectricOnly, PlainSetup, HeaterInv, NEW n \in ZoneCounts,
         NEW r \in [1..n -> ZoneInputs],
         NEW p \in ProtInputs, NEW light \in LightInputs,
         NEW t \in CondTemps, NEW mode \in FanModes,
         Update(n, r, p, light, t, mode)
  PROVE  HeaterInv'
<1> DEFINE zr    == ReadZones(r, n)
           rq    == Aggregate(zr, n, p, light)
           since == AtMost(compSince + 1, Satisfied)
           timer == IF hpActive THEN AtMost(hpTimer + 1, HpPause)
                    ELSE IF ~rq.any_defrost_active THEN 0 ELSE hpTimer
           arb   == Arbitrate(rq, zr, n, since, timer, t, mode)
<1>1. /\ n \in ZoneIds /\ zr \in [ZoneIds -> ZoneReqType] /\ rq \in ReqType
      /\ since \in 0..Satisfied /\ timer \in 0..HpPause
  BY UpdateTypes
<1>2. /\ zoneCount' = n /\ bootZones' = bootZones
      /\ ApplyOutputs(arb.out, zr, n)
  BY DEF Update
<1>3. zoneCount = n /\ bootZones = n
  BY DEF HeaterInv, PlainSetup
<1>4. \A z \in 1..n : zr[z] = r[z]
  BY <1>1, ReadZonesType DEF TypeOK
<1>5. \A z \in 1..n : zr[z].def_defrost_relay =>
        ElectricActive(zr, n) /\ Requested(rq).defrost_relay
  <2> HIDE DEF zr
  <2> QED
    BY <1>1, <1>4, RelayIsElectric
<1>6. since \in Nat
  BY <1>1, EquipmentConstants
<1>7. /\ arb.out \in OutType
      /\ arb.out.defrost_relay => Requested(rq).defrost_relay
      /\ arb.out.compressor =>
           /\ ~(arb.out.defrost_relay /\ ElectricActive(zr, n))
           /\ mode = 0 => arb.out.defrost_relay = Requested(rq).defrost_relay
  <2>1. hpActive \in BOOLEAN /\ compActual \in BOOLEAN
    BY DEF TypeOK
  <2> HIDE DEF zr, rq, since, timer
  <2> QED
    BY <1>1, <1>6, <2>1, ArbitrateFacts
<1>8. Requested(rq).defrost_relay => \E z \in 1..n : zr[z].def_defrost_relay
  <2>1. Requested(rq).defrost_relay => rq.any_def_defrost_relay
    BY DEF Requested
  <2>2. rq.any_def_defrost_relay => \E z \in 1..n : zr[z].def_defrost_relay
    <3> HIDE DEF zr
    <3> QED
      BY Zenon DEF Aggregate
  <2> QED
    BY <2>1, <2>2
<1> HIDE DEF zr, rq, since, timer, arb
<1>9. /\ relay'.compressor = arb.out.compressor
      /\ relay'.defrost_relay = IF n >= 2 THEN relay.defrost_relay
                                          ELSE arb.out.defrost_relay
      /\ \A z \in ZoneIds : Driven(z, n) =>
           z \in 1..n /\ zoneRelay'[z].defrost_relay = zr[z].def_defrost_relay
      /\ \A z \in ZoneIds : ~Driven(z, n) => zoneRelay'[z] = zoneRelay[z]
  BY <1>1, <1>2, EquipmentConstants DEF ApplyOutputs, Driven, ZoneIds
<1>10. Driven(1, n)' = Driven(1, n) /\ \A z \in ZoneIds : Driven(z, n)' = Driven(z, n)
  BY <1>2 DEF Driven
<1>11. n >= 2 => FanModes \subseteq {0} /\ mode = 0
  BY EquipmentConstants DEF PlainSetup
<1>12. n >= 2 => ~relay'.defrost_relay
  BY <1>3, <1>9 DEF HeaterInv
<1>13. \A z \in ZoneIds : ~Driven(z, n) => ~zoneRelay'[z].defrost_relay
  BY <1>3, <1>9 DEF HeaterInv
<1>14. ASSUME relay'.compressor, HeaterOn' PROVE FALSE
  <2>1. CASE relay'.defrost_relay
    BY <1>5, <1>7, <1>8, <1>9, <1>12, <1>14, <2>1
  <2>2. CASE ~relay'.defrost_relay
    <3>1. PICK z \in Heaters : zoneRelay'[z].defrost_relay
      BY <1>14, <2>2 DEF HeaterOn
    <3>2. z \in ZoneIds /\ Driven(z, n)
      BY <1>13, <3>1, EquipmentConstants
    <3>3. z \in 1..n /\ zr[z].def_defrost_relay /\ n >= 2
      BY <1>9, <3>1, <3>2 DEF Driven
    <3> QED
      BY <1>5, <1>7, <1>9, <1>11, <1>14, <3>3
  <2> QED
    BY <2>1, <2>2
<1> QED
  BY <1>2, <1>3, <1>10, <1>12, <1>13, <1>14 DEF HeaterInv, HeaterInterlock

\* "Electric defrost relay and compressor NEVER simultaneously": it holds of the
\* relays, restarts included, when the type setting matches the heater for the
\* length of a defrost, the number of zones is fixed, and head pressure control is
\* not combined with relays per zone.  The run eq_v_fallback shows it failing
\* without the first.
THEOREM HeaterTheorem ==
  ASSUME ElectricOnly, PlainSetup
  PROVE  LifecycleSpec => []HeaterInterlock
<1>1. Init => TypeOK /\ HeaterInv
  <2>1. ~AllOff.defrost_relay /\ ~AllOff.compressor /\ ~ZoneOff.defrost_relay
    BY DEF AllOff, ZoneOff
  <2>2. Init => HeaterInv
    BY <2>1, EquipmentConstants
       DEF Init, HeaterInv, HeaterInterlock, HeaterOn
  <2> QED
    BY <2>2, InitType
<1>2. TypeOK /\ HeaterInv /\ [LifecycleNext]_vars => (TypeOK /\ HeaterInv)'
  <2> SUFFICES ASSUME TypeOK, HeaterInv, [LifecycleNext]_vars
               PROVE  HeaterInv'
    BY NextType
  <2>1. CASE AnyUpdate
    BY <2>1, UpdateHeater DEF AnyUpdate
  <2>2. CASE SafeMode \/ Stop
    <3>1. /\ ApplyOutputs(AllOff, zoneReq, zoneCount)
          /\ UNCHANGED <<bootZones, zoneCount>>
      BY <2>2 DEF SafeMode, Stop
    <3>2. relay'.compressor = FALSE
      BY <3>1, FreshType, ApplyOutputsType DEF AllOff, TypeOK
    <3>3. zoneCount >= 2 => relay'.defrost_relay = relay.defrost_relay
      BY <3>1 DEF ApplyOutputs
    <3>4. \A z \in ZoneIds : ~Driven(z, zoneCount) => zoneRelay'[z] = zoneRelay[z]
      BY <3>1 DEF ApplyOutputs
    <3>5. \A z \in ZoneIds : Driven(z, zoneCount)' = Driven(z, zoneCount)
      BY <3>1 DEF Driven
    <3> QED
      BY <3>1, <3>2, <3>3, <3>4, <3>5 DEF HeaterInv, HeaterInterlock
  <2>3. CASE \E z \in ZoneIds : RequestEmergencyClose(z)
    BY <2>3 DEF RequestEmergencyClose, HeaterInv, HeaterInterlock, HeaterOn, Driven
  <2>4. CASE UNCHANGED vars
    BY <2>4 DEF vars, HeaterInv, HeaterInterlock, HeaterOn, Driven
  <2>5. CASE \E n \in ZoneCounts : Reinit(n)
    <3>1. zoneCount' = zoneCount
      BY <2>5 DEF Reinit, HeaterInv, PlainSetup
    <3> QED
      BY <2>5, <3>1 DEF Reinit, HeaterInv, HeaterInterlock, HeaterOn, Driven
  <2>6. CASE \E n \in ZoneCounts : Reboot(n)
    <3>1. PICK n \in ZoneCounts : Reboot(n)
      BY <2>6
    <3>2. /\ bootZones' = n /\ zoneCount' = n /\ relay' = AllOff
          /\ zoneRelay' = [z \in ZoneIds |-> ZoneOff]
      BY <3>1 DEF Reboot
    <3>3. ~relay'.defrost_relay /\ ~relay'.compressor
      BY <3>2 DEF AllOff
    <3>4. \A z \in ZoneIds : ~zoneRelay'[z].defrost_relay
      BY <3>2 DEF ZoneOff
    <3> QED
      BY <3>2, <3>3, <3>4 DEF HeaterInv, HeaterInterlock
  <2> QED
    BY <2>1, <2>2, <2>3, <2>4, <2>5, <2>6 DEF LifecycleNext, Next
<1>3. HeaterInv => HeaterInterlock
  BY DEF HeaterInv
<1> QED
  BY <1>1, <1>2, <1>3, PTL DEF LifecycleSpec

-----------------------------------------------------------------------------
(* The minimum run time                                                    *)

\* A compressor inside its minimum run time is switched off by arbitration only
\* under lockout, a protection block, or a running electric defrost.
LEMMA ArbitrateOff ==
  ASSUME NEW rq \in ReqType, NEW zr \in [ZoneIds -> ZoneReqType],
         NEW n \in ZoneIds, NEW since \in Nat, NEW timer \in 0..HpPause,
         NEW t \in CondTemps, NEW mode \in FanModes,
         hpActive \in BOOLEAN, compActual = TRUE, since < MinOn,
         ~Arbitrate(rq, zr, n, since, timer, t, mode).out.compressor
  PROVE  \/ rq.protection_lockout
         \/ Blocked(rq)
         \/ rq.any_def_defrost_relay /\ ElectricActive(zr, n)
<1> DEFINE wanted == Requested(rq)
           asc == [wanted EXCEPT !.compressor =
                                   AntiShortCycle(wanted.compressor, since)]
           fan == FanControl(asc, rq, timer, t, mode)
           arb == Arbitrate(rq, zr, n, since, timer, t, mode)
<1> SUFFICES ASSUME ~rq.protection_lockout, ~Blocked(rq)
             PROVE  rq.any_def_defrost_relay /\ ElectricActive(zr, n)
  OBVIOUS
<1>1. wanted \in OutType /\ (wanted.defrost_relay => rq.any_def_defrost_relay)
  BY RequestedType DEF Requested
<1>2. AntiShortCycle(wanted.compressor, since) = TRUE
  BY <1>1 DEF AntiShortCycle, OutType
<1>3. asc \in OutType /\ asc.compressor /\ asc.defrost_relay = wanted.defrost_relay
  BY <1>1, <1>2 DEF OutType
<1>4. arb = [fan EXCEPT !.out = Interlocks(fan.out, rq, zr, n)]
  BY DEF Arbitrate
<1>5. /\ fan.out \in OutType
      /\ fan.out.compressor
      /\ fan.out.defrost_relay => asc.defrost_relay
      /\ fan = [out |-> fan.out, active |-> fan.active, timer |-> fan.timer]
  <2>1. asc \in OutType /\ asc.compressor
    BY <1>3
  <2> HIDE DEF asc
  <2> QED
    BY <2>1, FanControlFacts
<1> HIDE DEF fan, wanted
<1>6. arb.out = Interlocks(fan.out, rq, zr, n)
  BY <1>4, <1>5
<1>7. ~Interlocks(fan.out, rq, zr, n).compressor
  BY <1>6
<1>8. fan.out.defrost_relay /\ ElectricActive(zr, n)
  BY <1>5, <1>7 DEF Interlocks, OutType
<1> QED
  BY <1>1, <1>3, <1>5, <1>8

\* The compressor relay opens before MinOn only for a safety reason, for every
\* number of zones, every request and every setting: the timer the decision
\* reads is never ahead of the time the relay has been closed, but in a run that
\* began after a stop or a reboot.
THEOREM EarlyStopTheorem == LifecycleSpec => EarlyStopJustified
<1>1. Init => TypeOK /\ Books
  BY InitBooks
<1>2. TypeOK /\ Books /\ [LifecycleNext]_vars => (TypeOK /\ Books)'
  BY NextBooks, NextType
<1>3. TypeOK /\ Books /\ [LifecycleNext]_vars => EarlyStopStep \/ UNCHANGED vars
  <2> SUFFICES ASSUME TypeOK, Books, LifecycleNext PROVE EarlyStopStep
    OBVIOUS
  <2>1. CASE AnyUpdate
    <3> PICK n \in ZoneCounts, p \in ProtInputs, light \in LightInputs,
             t \in CondTemps, mode \in FanModes :
               \E r \in [1..n -> ZoneInputs] : Update(n, r, p, light, t, mode)
      BY <2>1 DEF AnyUpdate
    <3> PICK r \in [1..n -> ZoneInputs] : Update(n, r, p, light, t, mode)
      OBVIOUS
    <3> DEFINE zr    == ReadZones(r, n)
               rq    == Aggregate(zr, n, p, light)
               since == AtMost(compSince + 1, Satisfied)
               timer == IF hpActive THEN AtMost(hpTimer + 1, HpPause)
                        ELSE IF ~rq.any_defrost_active THEN 0 ELSE hpTimer
               arb   == Arbitrate(rq, zr, n, since, timer, t, mode)
    <3> SUFFICES ASSUME relay.compressor, ~relay'.compressor,
                        sinceSwitch + 1 < MinOn, ~restarted
                 PROVE  \/ rq.protection_lockout
                        \/ Blocked(rq)
                        \/ rq.any_def_defrost_relay /\ ElectricActive(zr, n)
      <4>1. zoneCount' = n /\ zoneReq' = zr /\ req' = rq
        BY DEF Update
      <4> HIDE DEF zr, rq
      <4> QED
        BY <4>1 DEF EarlyStopStep
    <3>1. /\ n \in ZoneIds /\ zr \in [ZoneIds -> ZoneReqType] /\ rq \in ReqType
          /\ since \in 0..Satisfied /\ timer \in 0..HpPause
      BY UpdateTypes
    <3>2. ApplyOutputs(arb.out, zr, n)
      BY DEF Update
    <3>3. since \in Nat /\ since < MinOn
      <4>1. sinceSwitch + 1 \in Nat /\ Satisfied \in Nat /\ MinOn \in Nat
        BY EquipmentConstants DEF TypeOK
      <4>2. since = AtMost(sinceSwitch + 1, Satisfied)
        BY DEF Books, Bookkeeping
      <4>3. since \in Nat /\ since <= sinceSwitch + 1
        BY <4>1, <4>2, AtMostRange
      <4> QED
        BY <4>1, <4>3
    <3>4. compActual = TRUE /\ hpActive \in BOOLEAN /\ compActual \in BOOLEAN
      BY DEF Books, Bookkeeping, TypeOK
    <3> HIDE DEF zr, rq, since, timer
    <3>5. arb.out \in OutType
      BY <3>1, <3>3, <3>4, ArbitrateFacts
    <3>6. ~arb.out.compressor
      BY <3>1, <3>2, <3>5, ApplyOutputsType
    <3> QED
      BY <3>1, <3>3, <3>4, <3>6, ArbitrateOff
  <2>2. CASE SafeMode
    BY <2>2 DEF EarlyStopStep
  <2>3. CASE \E z \in ZoneIds : RequestEmergencyClose(z)
    BY <2>3 DEF RequestEmergencyClose, EarlyStopStep
  <2>4. CASE Stop \/ \E n \in ZoneCounts : Reboot(n)
    BY <2>4 DEF Stop, Reboot, Record, EarlyStopStep
  <2>5. CASE \E n \in ZoneCounts : Reinit(n)
    BY <2>5 DEF Reinit, EarlyStopStep
  <2> QED
    BY <2>1, <2>2, <2>3, <2>4, <2>5 DEF LifecycleNext, Next
<1> QED
  BY <1>1, <1>2, <1>3, PTL DEF LifecycleSpec, EarlyStopJustified

-----------------------------------------------------------------------------
(* The condenser fan                                                       *)

\* The strengthening: while fan control is on, recovery never outlives a hot
\* condenser under a running compressor, and a stopped module runs no compressor.
FanInv ==
  /\ ~running => ~relay.compressor
  /\ relay.compressor /\ Hot(condTemp) /\ condMode = 1 => ~hpActive

\* A hot condenser is above every threshold.
LEMMA HotFacts ==
  ASSUME NEW t \in CondTemps, Hot(t)
  PROVE  /\ t \in Nat /\ t # NoTemp
         /\ (t >= CondOff) = TRUE /\ (t < CondLow) = FALSE /\ (t >= CondOn) = TRUE
<1>1. t \in Nat /\ CondLow \in Nat /\ CondOff \in Nat /\ CondOn \in Nat
  BY EquipmentConstants DEF Hot
<1> QED
  BY <1>1 DEF Hot

\* Fan control with a hot condenser under the compressor: in classic mode the
\* fan runs; else a recovery ends, and without one the fan runs.
LEMMA HotFan ==
  ASSUME NEW out \in OutType, NEW rq \in ReqType, NEW timer \in 0..HpPause,
         NEW t \in CondTemps, NEW mode \in {0, 1}, Hot(t),
         hpActive \in BOOLEAN, out.compressor
  PROVE  LET fan == FanControl(out, rq, timer, t, mode)
         IN /\ mode = 1 => ~fan.active
            /\ mode = 0 \/ ~hpActive => fan.out.cond_fan
<1> DEFINE fan == FanControl(out, rq, timer, t, mode)
<1>1. /\ t \in Nat /\ t # NoTemp
      /\ (t >= CondOff) = TRUE /\ (t < CondLow) = FALSE /\ (t >= CondOn) = TRUE
  BY HotFacts
<1>2. CASE mode = 0
  <2>1. fan = [out |-> [out EXCEPT !.cond_fan = out.cond_fan \/ out.compressor],
               active |-> hpActive, timer |-> timer]
    BY <1>2 DEF FanControl, Recovered
  <2>2. fan.out = [out EXCEPT !.cond_fan = out.cond_fan \/ out.compressor]
    BY <2>1
  <2>3. fan.out.cond_fan = (out.cond_fan \/ out.compressor)
    BY <2>2 DEF OutType
  <2> HIDE DEF fan
  <2>4. fan.out.cond_fan
    BY <2>3, Zenon
  <2> QED
    BY <1>2, <2>4 DEF fan
<1>3. CASE mode = 1 /\ hpActive
  <2>1. fan = [out |-> [out EXCEPT !.cond_fan = FALSE, !.defrost_relay = FALSE],
               active |-> ~(t >= CondOff \/ timer >= HpPause), timer |-> timer]
    BY <1>1, <1>3 DEF FanControl, Recovered
  <2>2. fan.active = ~(t >= CondOff \/ timer >= HpPause)
    BY <2>1
  <2>3. ~fan.active
    BY <1>1, <2>2
  <2> QED
    BY <1>3, <2>3
<1>4. CASE mode = 1 /\ ~hpActive
  <2>1. fan = [out |-> [out EXCEPT !.cond_fan =
                          t >= CondOn \/ (t > CondOff /\ out.cond_fan)],
               active |-> hpActive, timer |-> timer]
    BY <1>1, <1>4 DEF FanControl, Recovered
  <2>2. /\ fan.out = [out EXCEPT !.cond_fan =
                        t >= CondOn \/ (t > CondOff /\ out.cond_fan)]
        /\ fan.active = hpActive
    BY <2>1
  <2>3. fan.out.cond_fan = (t >= CondOn \/ (t > CondOff /\ out.cond_fan))
    BY <2>2 DEF OutType
  <2>4. fan.out.cond_fan
    BY <1>1, <2>3
  <2> QED
    BY <1>4, <2>2, <2>4
<1> QED
  BY <1>2, <1>3, <1>4

\* The same of arbitration, which leaves the compressor on only if fan control
\* was given it on.
LEMMA HotArbitration ==
  ASSUME NEW rq \in ReqType, NEW zr \in [ZoneIds -> ZoneReqType],
         NEW n \in ZoneIds, NEW since \in Nat, NEW timer \in 0..HpPause,
         NEW t \in CondTemps, Hot(t), NEW mode \in FanModes,
         hpActive \in BOOLEAN, compActual \in BOOLEAN,
         Arbitrate(rq, zr, n, since, timer, t, mode).out.compressor
  PROVE  LET arb == Arbitrate(rq, zr, n, since, timer, t, mode)
         IN /\ mode = 1 => ~arb.active
            /\ mode = 0 \/ ~hpActive => arb.out.cond_fan
<1> DEFINE wanted == Requested(rq)
           asc == [wanted EXCEPT !.compressor =
                                   AntiShortCycle(wanted.compressor, since)]
           fan == FanControl(asc, rq, timer, t, mode)
           arb == Arbitrate(rq, zr, n, since, timer, t, mode)
<1>1. ~rq.protection_lockout
  BY DEF Arbitrate, AllOff
<1>2. arb = [fan EXCEPT !.out = Interlocks(fan.out, rq, zr, n)]
  BY <1>1 DEF Arbitrate
<1>3. asc \in OutType
  <2>1. wanted \in OutType
    BY RequestedType
  <2>2. AntiShortCycle(wanted.compressor, since) \in BOOLEAN
    BY <2>1, EquipmentConstants DEF AntiShortCycle, OutType
  <2> QED
    BY <2>1, <2>2 DEF OutType
<1> HIDE DEF asc, wanted
<1>4. /\ fan.out \in OutType /\ fan.out.compressor = asc.compressor
      /\ fan = [out |-> fan.out, active |-> fan.active, timer |-> fan.timer]
  BY <1>3, FanControlFacts
<1> HIDE DEF fan
<1>5. arb.out = Interlocks(fan.out, rq, zr, n) /\ arb.active = fan.active
  BY <1>2, <1>4
<1>6. asc.compressor
  BY <1>4, <1>5 DEF Interlocks, OutType
<1>7. /\ mode = 1 => ~fan.active
      /\ mode = 0 \/ ~hpActive => fan.out.cond_fan
  <2>1. mode \in {0, 1}
    BY EquipmentConstants
  <2> QED
    BY <2>1, <1>3, <1>6, HotFan DEF fan
<1>8. arb.out.cond_fan = fan.out.cond_fan
  BY <1>4, <1>5 DEF Interlocks, OutType
<1> QED
  BY <1>5, <1>7, <1>8

\* One cycle: recovery does not outlive a hot condenser, whose fan runs in the
\* second cycle at the latest.
LEMMA UpdateFan ==
  ASSUME TypeOK, FanInv, NEW n \in ZoneCounts,
         NEW r \in [1..n -> ZoneInputs],
         NEW p \in ProtInputs, NEW light \in LightInputs,
         NEW t \in CondTemps, NEW mode \in FanModes,
         Update(n, r, p, light, t, mode)
  PROVE  FanInv' /\ (HotStep => relay'.cond_fan)
<1> DEFINE zr    == ReadZones(r, n)
           rq    == Aggregate(zr, n, p, light)
           since == AtMost(compSince + 1, Satisfied)
           timer == IF hpActive THEN AtMost(hpTimer + 1, HpPause)
                    ELSE IF ~rq.any_defrost_active THEN 0 ELSE hpTimer
           arb   == Arbitrate(rq, zr, n, since, timer, t, mode)
<1>1. /\ n \in ZoneIds /\ zr \in [ZoneIds -> ZoneReqType] /\ rq \in ReqType
      /\ since \in 0..Satisfied /\ timer \in 0..HpPause
  BY UpdateTypes
<1>2. /\ running /\ running' = running
      /\ hpActive' = arb.active /\ condTemp' = t /\ condMode' = mode
      /\ ApplyOutputs(arb.out, zr, n)
  BY DEF Update
<1>3. since \in Nat /\ hpActive \in BOOLEAN /\ compActual \in BOOLEAN
  BY <1>1, EquipmentConstants DEF TypeOK
<1> HIDE DEF zr, rq, since, timer
<1>4. arb.out \in OutType
  BY <1>1, <1>3, ArbitrateFacts
<1>5. relay'.compressor = arb.out.compressor /\ relay'.cond_fan = arb.out.cond_fan
  BY <1>1, <1>2, <1>4, ApplyOutputsType DEF ApplyOutputs
<1>6. arb.out.compressor /\ Hot(t)
        => /\ mode = 1 => ~arb.active
           /\ mode = 0 \/ ~hpActive => arb.out.cond_fan
  BY <1>1, <1>3, HotArbitration
<1> HIDE DEF arb
<1>7. Hot(condTemp') => Hot(t)
  BY <1>2
<1>8. Hot(condTemp)' => Hot(t)
  BY <1>2 DEF Hot
<1>9. mode = 0 \/ mode = 1
  BY EquipmentConstants
<1>10. FanInv'
  BY <1>2, <1>5, <1>6, <1>8 DEF FanInv
<1>11. HotStep => relay'.cond_fan
  BY <1>2, <1>5, <1>6, <1>7, <1>9 DEF FanInv, HotStep
<1> QED
  BY <1>10, <1>11

\* A condenser hot in two updates in a row has its fan running, no matter what
\* head pressure recovery was doing before, what was restarted, in which order the
\* thresholds are and how the mode was changed (but from classic to controlled).
THEOREM FanTheorem == LifecycleSpec => HotCondenserFan
<1>1. Init => TypeOK /\ FanInv
  BY InitType DEF Init, FanInv, AllOff
<1>2. TypeOK /\ FanInv /\ [LifecycleNext]_vars
        => (TypeOK /\ FanInv)' /\ [HotStep => relay'.cond_fan]_vars
  <2> SUFFICES ASSUME TypeOK, FanInv, [LifecycleNext]_vars
               PROVE  FanInv' /\ [HotStep => relay'.cond_fan]_vars
    BY NextType
  <2>1. CASE AnyUpdate
    BY <2>1, UpdateFan DEF AnyUpdate
  <2>2. CASE SafeMode \/ Stop
    <3>1. ApplyOutputs(AllOff, zoneReq, zoneCount)
      BY <2>2 DEF SafeMode, Stop
    <3>2. ~relay'.compressor
      BY <3>1 DEF ApplyOutputs, AllOff
    <3> QED
      BY <3>2 DEF FanInv, HotStep
  <2>3. CASE \E z \in ZoneIds : RequestEmergencyClose(z)
    <3>1. ~HotStep
      BY <2>3 DEF HotStep
    <3>2. FanInv'
      BY <2>3 DEF RequestEmergencyClose, FanInv
    <3> QED
      BY <3>1, <3>2
  <2>4. CASE \E n \in ZoneCounts : Reinit(n)
    BY <2>4 DEF Reinit, FanInv, HotStep
  <2>5. CASE \E n \in ZoneCounts : Reboot(n)
    <3>1. ~relay'.compressor
      BY <2>5 DEF Reboot, AllOff
    <3> QED
      BY <3>1 DEF FanInv, HotStep
  <2>6. CASE UNCHANGED vars
    <3>1. FanInv'
      BY <2>6 DEF vars, FanInv
    <3> QED
      BY <2>6, <3>1
  <2> QED
    BY <2>1, <2>2, <2>3, <2>4, <2>5, <2>6 DEF LifecycleNext, Next
<1> QED
  BY <1>1, <1>2, PTL DEF LifecycleSpec, HotCondenserFan
=============================================================================
