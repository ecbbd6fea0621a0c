-------------------------- MODULE ThermostatProofs --------------------------
(***************************************************************************)
(* Proofs about Thermostat, for any delays and any readings: regulation    *)
(* keeps the compressor's minimum times.                                   *)
(***************************************************************************)
EXTENDS Thermostat, TLAPS

-----------------------------------------------------------------------------
(* The invariant                                                           *)

Fields == {"state", "timer", "comp", "evapFan", "condFan", "on", "off", "delayOn", "delay",
           "phaseOn", "safety", "ccActive", "ccTimer", "cycle", "remaining",
           "wasDefrost", "wasLockout", "temp", "ok"}

\* The fields that the request depends on have their types.
Typed(s) ==
  /\ DOMAIN s = Fields
  /\ s.state \in States /\ s.comp \in BOOLEAN /\ s.on \in 0..MinOn /\ s.off \in 0..MinOff

\* Within an update: the request was `was` for n ticks when the update counted.
Timed(s, was, n) ==
  IF s.comp = was THEN (IF was THEN s.on <= n ELSE s.off <= n) ELSE s.on = 0 /\ s.off = 0

\* The timers of the request are never ahead of the time it has lasted.
IInv == Typed(th) /\ since \in 0..Horizon /\ Timed(th, th.comp, since)

LEMMA Facts ==
  /\ MinOff \in Nat /\ MinOn \in Nat /\ StartupDelay \in Nat
  /\ CycleLength \in Nat /\ CycleLength > 1
  /\ Horizon \in Nat /\ Horizon >= MinOn /\ Horizon >= MinOff
  BY ThermostatConstants DEF Horizon

-----------------------------------------------------------------------------
(* The steps of on_update                                                  *)

LEMMA RequestOff ==
  ASSUME NEW s, Typed(s), NEW was \in BOOLEAN, NEW n \in Nat, Timed(s, was, n)
  PROVE /\ Typed(RequestCompressor(s, FALSE)) /\ Timed(RequestCompressor(s, FALSE), was, n)
        /\ RequestCompressor(s, FALSE).comp = FALSE /\ RequestCompressor(s, FALSE).state = s.state
<1> USE Facts
<1>1. CASE s.comp = FALSE  BY <1>1 DEF RequestCompressor
<1>2. CASE s.comp # FALSE
  <2> DEFINE r == [s EXCEPT !.comp = FALSE, !.on = 0, !.off = 0]
  <2>1. RequestCompressor(s, FALSE) = r  BY <1>2 DEF RequestCompressor
  <2>2. r.comp = FALSE /\ r.on = 0 /\ r.off = 0 /\ r.state = s.state /\ DOMAIN r = Fields
    BY DEF Typed, Fields
  <2>3. FALSE \in BOOLEAN /\ r.comp \in BOOLEAN  BY <2>2
  <2> HIDE DEF r
  <2>4. Timed(r, was, n)  BY <2>2 DEF Timed
  <2>5. Typed(r)
    <3>1. 0 \in 0..MinOn /\ 0 \in 0..MinOff  OBVIOUS
    <3> QED BY <3>1, <2>2, <2>3 DEF Typed
  <2> QED BY <2>1, <2>2, <2>4, <2>5
<1> QED BY <1>1, <1>2

LEMMA RequestOn ==
  ASSUME NEW s, Typed(s), NEW was \in BOOLEAN, NEW n \in Nat, Timed(s, was, n)
  PROVE /\ Typed(RequestCompressor(s, TRUE)) /\ Timed(RequestCompressor(s, TRUE), was, n)
        /\ RequestCompressor(s, TRUE).comp = TRUE /\ RequestCompressor(s, TRUE).state = s.state
<1> USE Facts
<1>1. CASE s.comp = TRUE  BY <1>1 DEF RequestCompressor
<1>2. CASE s.comp # TRUE
  <2> DEFINE r == [s EXCEPT !.comp = TRUE, !.on = 0, !.off = 0]
  <2>1. RequestCompressor(s, TRUE) = r  BY <1>2 DEF RequestCompressor
  <2>2. r.comp = TRUE /\ r.on = 0 /\ r.off = 0 /\ r.state = s.state /\ DOMAIN r = Fields
    BY DEF Typed, Fields
  <2>3. TRUE \in BOOLEAN /\ r.comp \in BOOLEAN  BY <2>2
  <2> HIDE DEF r
  <2>4. Timed(r, was, n)  BY <2>2 DEF Timed
  <2>5. Typed(r)
    <3>1. 0 \in 0..MinOn /\ 0 \in 0..MinOff  OBVIOUS
    <3> QED BY <3>1, <2>2, <2>3 DEF Typed
  <2> QED BY <2>1, <2>2, <2>4, <2>5
<1> QED BY <1>1, <1>2

LEMMA NothingTimed ==
  ASSUME NEW s, Typed(s), NEW was \in BOOLEAN, NEW n \in Nat, Timed(s, was, n)
  PROVE /\ Typed(RequestNothing(s)) /\ Timed(RequestNothing(s), was, n)
        /\ RequestNothing(s).comp = FALSE /\ RequestNothing(s).state = s.state
<1> DEFINE c == RequestCompressor(s, FALSE)
           r == [c EXCEPT !.evapFan = FALSE, !.condFan = FALSE]
<1>1. Typed(c) /\ c.comp = FALSE /\ Timed(c, was, n) /\ c.state = s.state  BY RequestOff
<1>2. RequestNothing(s) = r  BY DEF RequestNothing
<1> HIDE DEF c
<1>3. r.comp = FALSE /\ r.on = c.on /\ r.off = c.off /\ r.state = c.state /\ DOMAIN r = Fields
  BY <1>1 DEF Typed, Fields
<1>4. r.comp \in BOOLEAN /\ FALSE \in BOOLEAN  BY <1>3
<1> HIDE DEF r
<1> QED BY <1>1, <1>2, <1>3, <1>4 DEF Timed, Typed

\* Entering a state takes the request's timers along while the request stays.
LEMMA EnterTimed ==
  ASSUME NEW s, Typed(s), NEW new \in States, NEW was \in BOOLEAN, NEW n \in Nat, Timed(s, was, n)
  PROVE /\ Typed(EnterState(s, new)) /\ Timed(EnterState(s, new), was, n)
        /\ EnterState(s, new).state = new
<1> USE Facts
<1> DEFINE e == [s EXCEPT !.state = new, !.timer = 0]
           cc == [e EXCEPT !.ccActive = TRUE, !.ccTimer = 0, !.cycle = TRUE]
           sr == [e EXCEPT !.phaseOn = TRUE, !.safety = 0]
<1>1. CASE s.state = new  BY <1>1 DEF EnterState
<1>2. CASE s.state # new
  <2>1. /\ e.state = new /\ e.comp = s.comp /\ e.on = s.on /\ e.off = s.off /\ DOMAIN e = Fields
    BY DEF Typed, Fields
  <2>2. /\ new \in {"startup", "idle"} => EnterState(s, new) = RequestCompressor(e, FALSE)
        /\ new = "cooling" => EnterState(s, new) = RequestCompressor(e, TRUE)
        /\ new = "continuous" => EnterState(s, new) = RequestCompressor(cc, TRUE)
        /\ new = "safety_run" => EnterState(s, new) = RequestCompressor(sr, TRUE)
    BY <1>2 DEF EnterState
  <2> HIDE DEF e
  <2>3. /\ cc.state = new /\ cc.comp = s.comp /\ cc.on = s.on /\ cc.off = s.off /\ DOMAIN cc = Fields
    BY <2>1 DEF Fields
  <2>4. /\ sr.state = new /\ sr.comp = s.comp /\ sr.on = s.on /\ sr.off = s.off /\ DOMAIN sr = Fields
    BY <2>1 DEF Fields
  <2> HIDE DEF cc, sr
  <2>5. Typed(e) /\ Timed(e, was, n) /\ Typed(cc) /\ Timed(cc, was, n) /\ Typed(sr) /\ Timed(sr, was, n)
    BY <2>1, <2>3, <2>4 DEF Typed, Timed
  <2>7. CASE new \in {"startup", "idle"}  BY <2>1, <2>2, <2>5, <2>7, RequestOff
  <2>8. CASE new = "cooling"  BY <2>1, <2>2, <2>5, <2>8, RequestOn
  <2>9. CASE new = "continuous"  BY <2>3, <2>2, <2>5, <2>9, RequestOn
  <2>10. CASE new = "safety_run"  BY <2>4, <2>2, <2>5, <2>10, RequestOn
  <2> QED BY <2>7, <2>8, <2>9, <2>10 DEF States
<1> QED BY <1>1, <1>2

\* Idle requests nothing, and leaves the continuous cycle's flag alone.
LEMMA EnterIdle ==
  ASSUME NEW s, Typed(s)
  PROVE LET r == EnterState(s, "idle")
        IN /\ r.ccActive = s.ccActive
           /\ r.comp = FALSE \/ r = s
           /\ s.state # "idle" => r.comp = FALSE
  BY DEF EnterState, RequestCompressor, Typed, Fields

\* Neither do cooling and the safety run; the continuous cycle's timer restarts.
LEMMA EnterOther ==
  ASSUME NEW s, Typed(s), NEW new \in {"startup", "cooling", "safety_run"}
  PROVE EnterState(s, new).ccActive = s.ccActive
<1> DEFINE e == [s EXCEPT !.state = new, !.timer = 0]
           sr == [e EXCEPT !.phaseOn = TRUE, !.safety = 0]
<1>1. DOMAIN e = Fields /\ e.ccActive = s.ccActive  BY DEF Typed, Fields
<1>2. ASSUME NEW x, NEW b, DOMAIN x = Fields  PROVE RequestCompressor(x, b).ccActive = x.ccActive
  BY <1>2 DEF RequestCompressor, Fields
<1>3. \/ EnterState(s, new) = s
      \/ EnterState(s, new) = RequestCompressor(e, FALSE)
      \/ EnterState(s, new) = RequestCompressor(e, TRUE)
      \/ EnterState(s, new) = RequestCompressor(sr, TRUE)
  BY DEF EnterState
<1> HIDE DEF e
<1>4. DOMAIN sr = Fields /\ sr.ccActive = e.ccActive  BY <1>1 DEF Fields
<1> HIDE DEF sr
<1> QED BY <1>1, <1>2, <1>3, <1>4

LEMMA EnterCycle ==
  ASSUME NEW s, Typed(s), s.state # "continuous"
  PROVE EnterState(s, "continuous").ccTimer = 0
<1> DEFINE e == [s EXCEPT !.state = "continuous", !.timer = 0]
           cc == [e EXCEPT !.ccActive = TRUE, !.ccTimer = 0, !.cycle = TRUE]
<1>1. DOMAIN e = Fields  BY DEF Typed, Fields
<1>2. EnterState(s, "continuous") = RequestCompressor(cc, TRUE)  BY DEF EnterState
<1> HIDE DEF e
<1>3. DOMAIN cc = Fields /\ cc.ccTimer = 0  BY <1>1 DEF Fields
<1> HIDE DEF cc
<1> QED BY <1>2, <1>3 DEF RequestCompressor, Fields

\* A step that touches neither the state nor the request nor its timers.
Same(r, s) ==
  /\ DOMAIN r = Fields
  /\ r.state = s.state /\ r.comp = s.comp /\ r.on = s.on /\ r.off = s.off

LEMMA SameTimed ==
  ASSUME NEW s, NEW r, NEW was, NEW n, Typed(s), Same(r, s), Timed(s, was, n)
  PROVE Typed(r) /\ Timed(r, was, n)
  BY DEF Typed, Same, Timed

LEMMA PauseTimed ==
  ASSUME NEW s, Typed(s), NEW was \in BOOLEAN, NEW n \in Nat, Timed(s, was, n)
  PROVE /\ Typed(Pause(s)) /\ Timed(Pause(s), was, n) /\ Pause(s).state = s.state
        /\ Pause(s).comp = FALSE \/ Pause(s).comp = s.comp
<1> DEFINE q == RequestNothing(s)
           r == [q EXCEPT !.wasDefrost = TRUE]
<1>1. Typed(q) /\ Timed(q, was, n) /\ q.state = s.state /\ q.comp = FALSE  BY NothingTimed
<1> HIDE DEF q
<1>2. Same(r, q)  BY <1>1 DEF Same, Typed, Fields
<1> HIDE DEF r
<1>3. Typed(r) /\ Timed(r, was, n) /\ r.state = s.state /\ r.comp = FALSE  BY <1>1, <1>2, SameTimed DEF Same
<1> QED BY <1>3 DEF Pause, q, r

LEMMA LockTimed ==
  ASSUME NEW s, Typed(s), NEW was \in BOOLEAN, NEW n \in Nat, Timed(s, was, n)
  PROVE Typed(Lock(s)) /\ Timed(Lock(s), was, n) /\ Lock(s).state = s.state /\ Lock(s).comp = FALSE
<1> DEFINE q == RequestNothing(s)
           r == [q EXCEPT !.wasLockout = TRUE]
<1>1. Typed(q) /\ Timed(q, was, n) /\ q.state = s.state /\ q.comp = FALSE  BY NothingTimed
<1> HIDE DEF q
<1>2. Same(r, q)  BY <1>1 DEF Same, Typed, Fields
<1> HIDE DEF r
<1>3. Typed(r) /\ Timed(r, was, n) /\ r.state = s.state /\ r.comp = FALSE
  BY <1>1, <1>2, SameTimed DEF Same
<1> QED BY <1>3 DEF Lock, q, r

\* The timers after the count: one tick more at most.
LEMMA CountedTimed ==
  ASSUME NEW in \in ReadingType, IInv
  PROVE LET c == CountTimers(AfterDefrost(Seen(in)))
        IN /\ Typed(c) /\ Timed(c, th.comp, since + 1)
           /\ c.comp = th.comp /\ c.wasLockout = th.wasLockout /\ c.ccActive = th.ccActive
           /\ ~th.wasDefrost => c.state = th.state
<1> USE Facts
<1> DEFINE a == Seen(in)
           b == AfterDefrost(a)
           d == [a EXCEPT !.wasDefrost = FALSE, !.on = 0, !.off = 0, !.delayOn = FALSE,
                          !.delay = 0, !.state = "idle", !.timer = 0]
           c == CountTimers(b)
<1>1. /\ Same(a, th) /\ a.wasLockout = th.wasLockout /\ a.ccActive = th.ccActive
      /\ a.wasDefrost = th.wasDefrost
  BY DEF Seen, Same, IInv, Typed, Fields
<1>2. Typed(a) /\ Timed(a, th.comp, since) /\ a.comp = th.comp
  BY <1>1, SameTimed DEF IInv, Same
<1> HIDE DEF a
<1>3. /\ DOMAIN d = Fields /\ d.on = 0 /\ d.off = 0 /\ d.state = "idle" /\ d.comp = a.comp
      /\ d.wasLockout = a.wasLockout /\ d.ccActive = a.ccActive
  BY <1>2 DEF Typed, Fields
<1>4. IF a.wasDefrost THEN b = d ELSE b = a
  BY DEF AfterDefrost
<1> HIDE DEF b, d
<1>5. /\ Typed(b) /\ Timed(b, th.comp, since) /\ b.comp = th.comp
      /\ b.wasLockout = th.wasLockout /\ b.ccActive = th.ccActive
      /\ ~th.wasDefrost => b.state = th.state
  <2>1. CASE a.wasDefrost
    <3>1. since \in Nat /\ "idle" \in States /\ 0 \in 0..MinOn /\ 0 \in 0..MinOff
      BY DEF IInv, States
    <3> QED BY <3>1, <1>1, <1>2, <1>3, <1>4, <2>1 DEF Typed, Timed
  <2>2. CASE ~a.wasDefrost
    BY <1>1, <1>2, <1>4, <2>2 DEF Same
  <2> QED BY <2>1, <2>2
<1>6. /\ DOMAIN c = Fields /\ c.state = b.state /\ c.comp = b.comp
      /\ c.on = IF b.comp THEN AtMost(b.on + 1, MinOn) ELSE b.on
      /\ c.off = IF b.comp THEN b.off ELSE AtMost(b.off + 1, MinOff)
      /\ c.wasLockout = b.wasLockout /\ c.ccActive = b.ccActive
  BY <1>5 DEF CountTimers, Typed, Fields
<1> HIDE DEF c
<1>7. c.on \in 0..MinOn /\ c.off \in 0..MinOff
  BY <1>5, <1>6 DEF AtMost, Typed
<1>8. Typed(c)  BY <1>5, <1>6, <1>7 DEF Typed
<1>9. Timed(c, th.comp, since + 1)
  <2>1. since \in Nat  BY DEF IInv
  <2>2. b.on \in Nat /\ b.off \in Nat  BY <1>5 DEF Typed
  <2>3. CASE th.comp
    BY <1>5, <1>6, <2>1, <2>2, <2>3 DEF Timed, AtMost
  <2>4. CASE ~th.comp
    BY <1>5, <1>6, <2>1, <2>2, <2>4 DEF Timed, AtMost
  <2> QED BY <2>3, <2>4
<1> QED BY <1>5, <1>6, <1>8, <1>9 DEF a, b, c

LEMMA AfterLockoutTimed ==
  ASSUME NEW s, Typed(s), NEW was \in BOOLEAN, NEW n \in Nat, Timed(s, was, n)
  PROVE LET r == AfterLockout(s)
        IN /\ Typed(r) /\ Timed(r, was, n) /\ r.state = s.state
           /\ s.state # "continuous" => r.ccActive = s.ccActive
           /\ ~s.wasLockout => r = s
<1> DEFINE e == [s EXCEPT !.wasLockout = FALSE, !.state = "startup"]
           r == EnterState(e, s.state)
<1>1. /\ DOMAIN e = Fields /\ e.state = "startup" /\ e.comp = s.comp /\ e.on = s.on /\ e.off = s.off
      /\ e.ccActive = s.ccActive /\ s.state \in States
  BY DEF Typed, Fields
<1>2. Typed(e) /\ Timed(e, was, n)  BY <1>1 DEF Typed, Timed, States
<1>3. s.wasLockout => AfterLockout(s) = r  BY DEF AfterLockout
<1>4. ~s.wasLockout => AfterLockout(s) = s  BY DEF AfterLockout
<1> HIDE DEF e
<1>5. Typed(r) /\ Timed(r, was, n) /\ r.state = s.state
  BY <1>1, <1>2, EnterTimed
<1>6. s.state # "continuous" => r.ccActive = e.ccActive
  BY <1>1, <1>2, EnterIdle, EnterOther DEF States
<1> HIDE DEF r
<1> QED BY <1>1, <1>3, <1>4, <1>5, <1>6

\* r is s after the user's switch of the continuous cycle.
Triggered(s, r, was, n) ==
  /\ Typed(r) /\ Timed(r, was, n)
  /\ \/ r = s
     \/ r.state = "continuous" /\ (s.state # "continuous" => r.ccTimer = 0)
     \/ s.ccActive /\ ~r.ccActive /\ r.state = "idle" /\ (r.comp = FALSE \/ r.comp = s.comp)

LEMMA TriggersTimed ==
  ASSUME NEW s, Typed(s), NEW was \in BOOLEAN, NEW n \in Nat, Timed(s, was, n), NEW requested
  PROVE Triggered(s, CycleTriggers(s, requested), was, n)
<1> DEFINE e == [s EXCEPT !.ccActive = FALSE, !.cycle = FALSE]
           r == EnterState(e, "idle")
           c == EnterState(s, "continuous")
<1>0. "idle" \in States /\ "continuous" \in States  BY DEF States
<1>1. /\ Same(e, s) /\ ~e.ccActive
  BY DEF Typed, Fields, Same
<1> HIDE DEF e
<1>2. Typed(e) /\ Timed(e, was, n) /\ e.comp = s.comp  BY <1>1, SameTimed DEF Same
<1>3. /\ Typed(r) /\ Timed(r, was, n) /\ r.state = "idle" /\ ~r.ccActive
      /\ r.comp = FALSE \/ r.comp = s.comp
  BY <1>0, <1>1, <1>2, EnterTimed, EnterIdle
<1>4. /\ Typed(c) /\ Timed(c, was, n) /\ c.state = "continuous"
      /\ s.state # "continuous" => c.ccTimer = 0
  BY <1>0, EnterTimed, EnterCycle
<1>5. \/ CycleTriggers(s, requested) = c
      \/ CycleTriggers(s, requested) = r /\ s.ccActive
      \/ CycleTriggers(s, requested) = s
  BY DEF CycleTriggers, e
<1> HIDE DEF r, c
<1> QED BY <1>3, <1>4, <1>5 DEF Triggered

LEMMA ContinuousTimed ==
  ASSUME NEW s, Typed(s), NEW was \in BOOLEAN, NEW n \in Nat, Timed(s, was, n),
         s.state = "continuous"
  PROVE LET r == ContinuousCycle(s)
        IN /\ Typed(r) /\ Timed(r, was, n)
           /\ r.state = "continuous" \/ (r.state = "idle" /\ r.comp = FALSE)
           /\ s.ccTimer = 0 => r.state = "continuous"
<1> USE Facts
<1> DEFINE t == AtMost(s.ccTimer + 1, CycleLength)
           a == [s EXCEPT !.ccTimer = t, !.remaining = CycleLength - t]
           c == RequestCompressor(a, TRUE)
           e == [c EXCEPT !.ccActive = FALSE, !.cycle = FALSE]
           r == EnterState(e, "idle")
<1>1. IF t < CycleLength THEN ContinuousCycle(s) = c ELSE ContinuousCycle(s) = r
  BY DEF ContinuousCycle
<1>2. s.ccTimer = 0 => t < CycleLength  BY DEF AtMost
<1> HIDE DEF t
<1>3. Same(a, s)  BY DEF Typed, Fields, Same
<1> HIDE DEF a
<1>4. Typed(a) /\ Timed(a, was, n) /\ a.state = "continuous"  BY <1>3, SameTimed DEF Same
<1>5. Typed(c) /\ Timed(c, was, n) /\ c.state = "continuous"  BY <1>4, RequestOn
<1> HIDE DEF c
<1>6. Same(e, c)  BY <1>5 DEF Typed, Fields, Same
<1> HIDE DEF e
<1>7. Typed(e) /\ Timed(e, was, n) /\ e.state = "continuous"  BY <1>5, <1>6, SameTimed DEF Same
<1>8. "idle" \in States  BY DEF States
<1>9. Typed(r) /\ Timed(r, was, n) /\ r.state = "idle" /\ r.comp = FALSE
  BY <1>7, <1>8, EnterTimed, EnterIdle
<1> HIDE DEF r
<1> QED BY <1>1, <1>2, <1>5, <1>9

LEMMA SafetyTimed ==
  ASSUME NEW s, Typed(s), NEW was \in BOOLEAN, NEW n \in Nat, Timed(s, was, n)
  PROVE LET r == SafetyRun(s)
        IN Typed(r) /\ Timed(r, was, n) /\ r.state = s.state
<1> DEFINE t == s.safety + 1
           f == RequestCompressor(s, FALSE)
           o == RequestCompressor(s, TRUE)
           fr == [f EXCEPT !.phaseOn = FALSE, !.safety = 0]
           or == [o EXCEPT !.phaseOn = TRUE, !.safety = 0]
           sr == [s EXCEPT !.safety = t]
<1>1. SafetyRun(s) \in {fr, or, sr}  BY DEF SafetyRun
<1>2. Typed(f) /\ Timed(f, was, n) /\ f.state = s.state  BY RequestOff
<1>3. Typed(o) /\ Timed(o, was, n) /\ o.state = s.state  BY RequestOn
<1> HIDE DEF t, f, o
<1>4. Same(fr, f) /\ Same(or, o) /\ Same(sr, s)
  BY <1>2, <1>3 DEF Typed, Fields, Same
<1> HIDE DEF fr, or, sr
<1>5. Typed(fr) /\ Timed(fr, was, n) /\ fr.state = s.state  BY <1>2, <1>4, SameTimed DEF Same
<1>6. Typed(or) /\ Timed(or, was, n) /\ or.state = s.state  BY <1>3, <1>4, SameTimed DEF Same
<1>7. Typed(sr) /\ Timed(sr, was, n) /\ sr.state = s.state  BY <1>4, SameTimed DEF Same
<1> QED BY <1>1, <1>5, <1>6, <1>7

LEMMA FansTimed ==
  ASSUME NEW s, Typed(s), NEW was \in BOOLEAN, NEW n \in Nat, Timed(s, was, n), NEW in
  PROVE LET r == CondFan(EvapFan(s, in))
        IN /\ Typed(r) /\ Timed(r, was, n)
           /\ r.state = s.state /\ r.comp = s.comp /\ r.ccActive = s.ccActive
<1> DEFINE e == EvapFan(s, in)
           r == CondFan(e)
<1>1. Same(e, s) /\ e.ccActive = s.ccActive  BY DEF EvapFan, Typed, Fields, Same
<1> HIDE DEF e
<1>2. Typed(e) /\ Timed(e, was, n)  BY <1>1, SameTimed
<1>3. Same(r, e) /\ r.ccActive = e.ccActive  BY <1>2 DEF CondFan, Typed, Fields, Same
<1> HIDE DEF r
<1>4. Typed(r) /\ Timed(r, was, n)  BY <1>2, <1>3, SameTimed
<1>5. r.state = s.state /\ r.comp = s.comp /\ r.ccActive = s.ccActive  BY <1>1, <1>3 DEF Same
<1> QED BY <1>4, <1>5 DEF e, r

\* What regulation may do to the request, and when: r is s after the state machine.
Regulated(s, r, was, n) ==
  /\ Typed(r) /\ Timed(r, was, n)
  /\ s.comp = FALSE =>
       \/ r.comp = FALSE
       \/ s.off >= MinOff
       \/ r.state \in {"continuous", "safety_run"}
  /\ s.state = "continuous" =>
       /\ r.comp = FALSE \/ r.state = "continuous"
       /\ s.ccTimer = 0 => r.state = "continuous"
  /\ s.state = "cooling" => r.state # "idle" \/ s.on >= MinOn
  /\ s.state = "idle" => r.ccActive = s.ccActive

LEMMA MachineTimed ==
  ASSUME NEW s, Typed(s), NEW was \in BOOLEAN, NEW n \in Nat, Timed(s, was, n), NEW in
  PROVE Regulated(s, StateMachine(s, in), was, n)
<1> DEFINE r == StateMachine(s, in)
<1>0. /\ {"startup", "idle", "cooling", "safety_run"} \subseteq States
      /\ s.state \in States
  BY DEF States, Typed
<1>1. CASE r = s
  BY <1>1 DEF Typed, Regulated
<1>2. CASE r = EnterState(s, "idle") /\ (s.state = "cooling" => s.on >= MinOn) /\ s.state # "continuous"
  <2>1. Typed(r) /\ Timed(r, was, n) /\ r.state = "idle"  BY <1>0, <1>2, EnterTimed
  <2>2. (r.comp = FALSE \/ r = s) /\ r.ccActive = s.ccActive  BY <1>2, EnterIdle
  <2> QED BY <1>2, <2>1, <2>2 DEF Regulated
<1>3. CASE r = EnterState(s, "cooling") /\ s.off >= MinOff /\ s.state = "idle"
  <2>1. Typed(r) /\ Timed(r, was, n) /\ r.state = "cooling"  BY <1>0, <1>3, EnterTimed
  <2>2. r.ccActive = s.ccActive  BY <1>3, EnterOther
  <2> QED BY <1>3, <2>1, <2>2 DEF Regulated
<1>4. CASE r = EnterState(s, "safety_run") /\ s.state \in {"idle", "cooling"}
  <2>1. Typed(r) /\ Timed(r, was, n) /\ r.state = "safety_run"  BY <1>0, <1>4, EnterTimed
  <2>2. r.ccActive = s.ccActive  BY <1>4, EnterOther
  <2> QED BY <1>4, <2>1, <2>2 DEF Regulated
<1>5. CASE r = ContinuousCycle(s) /\ s.state = "continuous"
  <2>1. /\ Typed(r) /\ Timed(r, was, n)
        /\ r.state = "continuous" \/ (r.state = "idle" /\ r.comp = FALSE)
        /\ s.ccTimer = 0 => r.state = "continuous"
    BY <1>5, ContinuousTimed
  <2> QED BY <1>5, <2>1 DEF Regulated
<1>6. CASE r = SafetyRun(s) /\ s.state = "safety_run"
  <2>1. Typed(r) /\ Timed(r, was, n) /\ r.state = "safety_run"  BY <1>6, SafetyTimed
  <2> QED BY <1>6, <2>1 DEF Regulated
<1>7. CASE r = Regulate(s, in.temp) /\ s.state \in {"idle", "cooling"}
  BY <1>1, <1>2, <1>3, <1>7 DEF Regulate
<1> QED
  <2>1. CASE s.state = "startup"  BY <1>1, <1>2, <2>1 DEF StateMachine
  <2>2. CASE s.state \in {"idle", "cooling"}  BY <1>4, <1>7, <2>2 DEF StateMachine
  <2>3. CASE s.state = "continuous"  BY <1>5, <2>3 DEF StateMachine
  <2>4. CASE s.state = "safety_run"  BY <1>2, <1>6, <2>4 DEF StateMachine
  <2> QED BY <1>0, <2>1, <2>2, <2>3, <2>4 DEF States

-----------------------------------------------------------------------------
(* The operations                                                          *)

\* on_update in operation: when it may start and when it may stop.
LEMMA OperatingTimed ==
  ASSUME IInv, NEW in \in ReadingType, UpdateOperating(in)
  PROVE /\ Typed(th') /\ Timed(th', th.comp, since + 1)
        /\ th.comp = FALSE =>
             \/ th'.comp = FALSE
             \/ since + 1 >= MinOff
             \/ th'.state \in {"continuous", "safety_run"}
             \/ th.wasLockout
        /\ th.comp = TRUE /\ th.state = "cooling" =>
             \/ th'.state # "idle"
             \/ since + 1 >= MinOn
             \/ th.wasDefrost
             \/ ~th'.ccActive /\ th.ccActive
<1> USE Facts
<1> DEFINE c == CountTimers(AfterDefrost(Seen(in)))
           a == AfterLockout(c)
           y == CycleTriggers(a, th.cycle)
           m == StateMachine(y, in)
<1>0. th.comp \in BOOLEAN /\ since \in Nat /\ since + 1 \in Nat  BY DEF IInv, Typed
<1>1. /\ Typed(c) /\ Timed(c, th.comp, since + 1)
      /\ c.comp = th.comp /\ c.wasLockout = th.wasLockout /\ c.ccActive = th.ccActive
      /\ ~th.wasDefrost => c.state = th.state
  BY CountedTimed
<1>5. th' = CondFan(EvapFan(m, in))  BY DEF UpdateOperating
<1> HIDE DEF c
<1>2. /\ Typed(a) /\ Timed(a, th.comp, since + 1) /\ a.state = c.state
      /\ c.state # "continuous" => a.ccActive = c.ccActive
      /\ ~c.wasLockout => a = c
  BY <1>0, <1>1, AfterLockoutTimed
<1> HIDE DEF a
<1>3. Triggered(a, y, th.comp, since + 1)
  BY <1>0, <1>2, TriggersTimed
<1> HIDE DEF y
<1>4. Regulated(y, m, th.comp, since + 1)
  BY <1>0, <1>3, MachineTimed DEF Triggered
<1> HIDE DEF m
<1>6. /\ Typed(th') /\ Timed(th', th.comp, since + 1)
      /\ th'.state = m.state /\ th'.comp = m.comp /\ th'.ccActive = m.ccActive
  BY <1>0, <1>4, <1>5, FansTimed DEF Regulated
<1>7. ASSUME th.comp = FALSE, th'.comp # FALSE, ~th.wasLockout,
             th'.state \notin {"continuous", "safety_run"}
      PROVE since + 1 >= MinOff
  <2>1. a = c /\ c.comp = FALSE  BY <1>1, <1>2, <1>7
  <2>2. y.comp = FALSE /\ y.off >= MinOff  BY <1>3, <1>4, <1>6, <1>7, <2>1 DEF Regulated, Triggered
  <2>3. y.off <= since + 1  BY <1>3, <1>7, <2>2 DEF Timed, Triggered
  <2>4. y.off \in Nat  BY <1>3 DEF Typed, Triggered
  <2> QED BY <1>0, <2>2, <2>3, <2>4
<1>8. ASSUME th.comp = TRUE, th.state = "cooling", th'.state = "idle", ~th.wasDefrost,
             ~(~th'.ccActive /\ th.ccActive)
      PROVE since + 1 >= MinOn
  <2>1. a.state = "cooling" /\ a.ccActive = th.ccActive  BY <1>1, <1>2, <1>8
  <2>2. y = a  BY <1>3, <1>4, <1>6, <1>8, <2>1 DEF Regulated, Triggered
  <2>3. y.on >= MinOn  BY <1>4, <1>6, <1>8, <2>1, <2>2 DEF Regulated
  <2>4. y.on <= since + 1 \/ y.on = 0  BY <1>3, <1>8 DEF Timed, Triggered
  <2>5. y.on \in Nat  BY <1>3 DEF Typed, Triggered
  <2> QED BY <1>0, <2>3, <2>4, <2>5
<1> QED BY <1>0, <1>6, <1>7, <1>8

\* A step that takes up to one tick leaves the timers behind the history.
LEMMA ElapseTimed ==
  ASSUME IInv, NEW t \in {0, 1}, Typed(th'), Timed(th', th.comp, since + t), Elapse(t)
  PROVE IInv'
<1> USE Facts
<1>0. since \in Nat /\ th'.on \in 0..MinOn /\ th'.off \in 0..MinOff  BY DEF IInv, Typed
<1>1. since' \in 0..Horizon  BY <1>0 DEF Elapse, AtMost
<1>2. Timed(th', th'.comp, since')
  <2>1. CASE th'.comp # th.comp
    BY <1>0, <2>1 DEF Timed, Elapse
  <2>2. CASE th'.comp = th.comp
    <3>1. since' = AtMost(since + t, Horizon)  BY <2>2 DEF Elapse
    <3> QED BY <1>0, <2>2, <3>1 DEF Timed, AtMost
  <2> QED BY <2>1, <2>2
<1> QED BY <1>1, <1>2 DEF IInv

\* What a step may do: to the timers, and to the request.
Starts == \/ th'.comp = th.comp \/ th'.comp = FALSE
          \/ since + 1 >= MinOff
          \/ th'.state \in {"continuous", "safety_run"}
          \/ th.wasLockout
Stops == \/ th.state # "cooling" \/ th'.state # "idle" \/ th.comp # TRUE
         \/ since + 1 >= MinOn
         \/ th.wasDefrost
         \/ ~th'.ccActive /\ th.ccActive

\* on_update.
LEMMA UpdateStep ==
  ASSUME IInv, NEW in \in ReadingType, Update(in)
  PROVE IInv' /\ Starts /\ Stops
<1> DEFINE a == Seen(in)
<1>0. th.comp \in BOOLEAN /\ since \in Nat /\ since + 1 \in Nat  BY Facts DEF IInv, Typed
<1>1. Same(a, th)  BY DEF Seen, Same, IInv, Typed, Fields
<1>2. Typed(a) /\ Timed(a, th.comp, since)
  BY <1>1, SameTimed DEF IInv
<1>3. Timed(a, th.comp, since + 1)
  BY <1>0, <1>2 DEF Timed, Typed
<1> SUFFICES Typed(th') /\ Timed(th', th.comp, since + 1) /\ Starts /\ Stops
  BY ElapseTimed DEF Update
<1>4. CASE UpdatePaused(in)
  <2>1. th' = Pause(a)  BY <1>4 DEF UpdatePaused
  <2> HIDE DEF a
  <2>2. /\ Typed(th') /\ Timed(th', th.comp, since + 1) /\ th'.state = a.state
        /\ th'.comp = FALSE \/ th'.comp = a.comp
    BY <1>0, <1>2, <1>3, <2>1, PauseTimed
  <2> QED BY <1>1, <2>2 DEF Same, Starts, Stops
<1>5. CASE UpdateLocked(in)
  <2> DEFINE c == CountTimers(AfterDefrost(Seen(in)))
  <2>1. th' = Lock(c)  BY <1>5 DEF UpdateLocked
  <2>2. /\ Typed(c) /\ Timed(c, th.comp, since + 1)
        /\ ~th.wasDefrost => c.state = th.state
    BY CountedTimed
  <2> HIDE DEF c
  <2>3. Typed(th') /\ Timed(th', th.comp, since + 1) /\ th'.state = c.state /\ th'.comp = FALSE
    BY <1>0, <2>1, <2>2, LockTimed
  <2> QED BY <2>2, <2>3 DEF Starts, Stops
<1>6. CASE UpdateOperating(in)
  <2>1. th.comp = TRUE \/ th.comp = FALSE  BY <1>0
  <2>2. Typed(th') /\ Timed(th', th.comp, since + 1)  BY <1>6, OperatingTimed
  <2>3. th'.comp \in BOOLEAN  BY <2>2 DEF Typed
  <2> QED BY <1>6, <2>1, <2>2, <2>3, OperatingTimed DEF Starts, Stops
<1> QED BY <1>4, <1>5, <1>6 DEF Update

\* What happens between two updates: safe mode, a restart, the user.
LEMMA BetweenStep ==
  ASSUME IInv, \/ \E b \in BOOLEAN : SetCycle(b)
               \/ SafeMode \/ Restart
  PROVE IInv' /\ Starts /\ Stops
<1>0. th.comp \in BOOLEAN /\ since \in Nat /\ since + 0 = since  BY Facts DEF IInv, Typed
<1>1. CASE th' = RequestNothing(th) /\ Elapse(0)
  <2>1. Typed(th') /\ Timed(th', th.comp, since) /\ th'.comp = FALSE /\ th'.state = th.state
    BY <1>0, <1>1, NothingTimed DEF IInv
  <2> QED BY <1>0, <1>1, <2>1, ElapseTimed DEF Starts, Stops
<1>2. ASSUME NEW b \in BOOLEAN, SetCycle(b)
      PROVE IInv' /\ Starts /\ Stops
  <2>1. Same(th', th)  BY <1>2 DEF SetCycle, Same, IInv, Typed, Fields
  <2>2. Typed(th') /\ Timed(th', th.comp, since)  BY <2>1, SameTimed DEF IInv
  <2> QED BY <1>0, <1>2, <2>1, <2>2, ElapseTimed DEF SetCycle, Same, Starts, Stops
<1> QED BY <1>1, <1>2 DEF SafeMode, Restart

LEMMA InitInv == Init => IInv
  BY Facts DEF Init, IInv, Typed, Timed, Fields, States

LEMMA NextInv == IInv /\ [Next]_vars => IInv' /\ (UNCHANGED vars \/ (Starts /\ Stops))
<1> SUFFICES ASSUME IInv, [Next]_vars  PROVE IInv' /\ (UNCHANGED vars \/ (Starts /\ Stops))
  OBVIOUS
<1>1. CASE AnyUpdate
  <2>1. PICK in \in ReadingType : Update(in)  BY <1>1, ThermostatReadings DEF AnyUpdate
  <2> QED BY <2>1, UpdateStep
<1>2. CASE (\E b \in BOOLEAN : SetCycle(b)) \/ SafeMode \/ Restart
  BY <1>2, BetweenStep
<1>3. CASE UNCHANGED vars
  BY <1>3 DEF vars, IInv, Typed, Timed
<1> QED BY <1>1, <1>2, <1>3 DEF Next

-----------------------------------------------------------------------------
(* Types: each step of on_update keeps the record in its type              *)

LEMMA Zeros ==
  /\ 0 \in 0..StartupDelay /\ 0 \in 0..MinOn /\ 0 \in 0..MinOff /\ MinOff \in 0..MinOff
  /\ 0 \in 0..CondDelay /\ 0 \in 0..CycleLength /\ 0 \in 0..(SafetyOn + SafetyOff)
  BY ThermostatConstants

LEMMA RequestType ==
  ASSUME NEW s \in ThermostatType, NEW b \in BOOLEAN
  PROVE  RequestCompressor(s, b) \in ThermostatType
<1>1. [s EXCEPT !.comp = b, !.on = 0, !.off = 0] \in ThermostatType
  BY Zeros DEF ThermostatType
<1> QED
  BY <1>1 DEF RequestCompressor

LEMMA NothingType ==
  ASSUME NEW s \in ThermostatType
  PROVE  RequestNothing(s) \in ThermostatType
<1>1. RequestCompressor(s, FALSE) \in ThermostatType
  BY RequestType
<1> QED
  BY <1>1 DEF RequestNothing, ThermostatType

LEMMA EnterType ==
  ASSUME NEW s \in ThermostatType, NEW new \in States
  PROVE  EnterState(s, new) \in ThermostatType
<1> DEFINE e == [s EXCEPT !.state = new, !.timer = 0]
           cc == [e EXCEPT !.ccActive = TRUE, !.ccTimer = 0, !.cycle = TRUE]
           sr == [e EXCEPT !.phaseOn = TRUE, !.safety = 0]
<1>1. e \in ThermostatType
  BY Zeros DEF ThermostatType
<1>2. EnterState(s, new) \in
        {s, RequestCompressor(e, FALSE), RequestCompressor(e, TRUE),
         RequestCompressor(cc, TRUE), RequestCompressor(sr, TRUE)}
  BY DEF EnterState, States
<1> HIDE DEF e
<1>3. cc \in ThermostatType /\ sr \in ThermostatType
  BY <1>1, Zeros DEF ThermostatType
<1> HIDE DEF cc, sr
<1> QED
  BY <1>1, <1>2, <1>3, RequestType

\* The timers count to their bounds.
LEMMA CountedType ==
  ASSUME NEW s \in ThermostatType
  PROVE  CountTimers(AfterDefrost(s)) \in ThermostatType
<1> DEFINE d == AfterDefrost(s)
<1>1. d \in ThermostatType
  <2>1. [s EXCEPT !.wasDefrost = FALSE, !.on = 0, !.off = 0, !.delayOn = FALSE,
                  !.delay = 0, !.state = "idle", !.timer = 0] \in ThermostatType
    BY Zeros DEF ThermostatType, States
  <2> QED
    BY <2>1 DEF AfterDefrost
<1> HIDE DEF d
<1>2. /\ AtMost(d.timer + 1, StartupDelay) \in 0..StartupDelay
      /\ AtMost(d.on + 1, MinOn) \in 0..MinOn
      /\ AtMost(d.off + 1, MinOff) \in 0..MinOff
  BY <1>1, Facts DEF AtMost, ThermostatType
<1>3. CountTimers(d) \in ThermostatType
  BY <1>1, <1>2 DEF CountTimers, ThermostatType
<1> QED
  BY <1>3 DEF d

LEMMA TriggersType ==
  ASSUME NEW s \in ThermostatType, NEW requested \in BOOLEAN
  PROVE  CycleTriggers(AfterLockout(s), requested) \in ThermostatType
<1> DEFINE l == [s EXCEPT !.wasLockout = FALSE, !.state = "startup"]
           a == AfterLockout(s)
           e == [a EXCEPT !.ccActive = FALSE, !.cycle = FALSE]
<1>1. l \in ThermostatType /\ s.state \in States
  BY DEF ThermostatType, States
<1>2. a \in ThermostatType
  BY <1>1, EnterType DEF AfterLockout
<1> HIDE DEF a
<1>3. e \in ThermostatType
  BY <1>2 DEF ThermostatType
<1>4. CycleTriggers(a, requested) \in {a, EnterState(a, "continuous"), EnterState(e, "idle")}
  BY DEF CycleTriggers
<1> HIDE DEF e
<1>5. CycleTriggers(a, requested) \in ThermostatType
  BY <1>2, <1>3, <1>4, EnterType DEF States
<1> QED
  BY <1>5 DEF a

LEMMA ContinuousType ==
  ASSUME NEW s \in ThermostatType
  PROVE  ContinuousCycle(s) \in ThermostatType
<1> DEFINE t == AtMost(s.ccTimer + 1, CycleLength)
           r == [s EXCEPT !.ccTimer = t, !.remaining = CycleLength - t]
           c == RequestCompressor(r, TRUE)
           e == [c EXCEPT !.ccActive = FALSE, !.cycle = FALSE]
<1>1. t \in 0..CycleLength /\ CycleLength - t \in 0..CycleLength
  BY Facts DEF AtMost, ThermostatType
<1>2. ContinuousCycle(s) \in {c, EnterState(e, "idle")}
  BY DEF ContinuousCycle
<1> HIDE DEF t
<1>3. r \in ThermostatType
  BY <1>1 DEF ThermostatType
<1> HIDE DEF r
<1>4. c \in ThermostatType
  BY <1>3, RequestType
<1> HIDE DEF c
<1>5. e \in ThermostatType
  BY <1>4 DEF ThermostatType
<1> HIDE DEF e
<1> QED
  BY <1>2, <1>4, <1>5, EnterType DEF States

\* The clock of the safety run is below the length of its phase.
LEMMA SafetyType ==
  ASSUME NEW s \in ThermostatType
  PROVE  SafetyRun(s) \in ThermostatType
<1> DEFINE t == s.safety + 1
           f == RequestCompressor(s, FALSE)
           o == RequestCompressor(s, TRUE)
           fr == [f EXCEPT !.phaseOn = FALSE, !.safety = 0]
           or == [o EXCEPT !.phaseOn = TRUE, !.safety = 0]
           sr == [s EXCEPT !.safety = t]
<1>1. f \in ThermostatType /\ o \in ThermostatType
  BY RequestType
<1>2. s.phaseOn \in BOOLEAN /\ t \in Nat
  BY ThermostatConstants DEF ThermostatType
<1>3. SafetyRun(s) \in {fr, or} \/ ((t < SafetyOn \/ t < SafetyOff) /\ SafetyRun(s) = sr)
  BY <1>2, ThermostatConstants DEF SafetyRun
<1>4. t < SafetyOn \/ t < SafetyOff => t \in 0..(SafetyOn + SafetyOff)
  BY <1>2, ThermostatConstants
<1> HIDE DEF t, f, o
<1>5. fr \in ThermostatType /\ or \in ThermostatType
  BY <1>1, Zeros DEF ThermostatType
<1>6. t \in 0..(SafetyOn + SafetyOff) => sr \in ThermostatType
  BY DEF ThermostatType
<1> HIDE DEF fr, or, sr
<1> QED
  BY <1>3, <1>4, <1>5, <1>6

LEMMA MachineType ==
  ASSUME NEW s \in ThermostatType, NEW in \in ReadingType
  PROVE  StateMachine(s, in) \in ThermostatType
<1>1. StateMachine(s, in) \in
        {s, EnterState(s, "idle"), EnterState(s, "cooling"), EnterState(s, "safety_run"),
         ContinuousCycle(s), SafetyRun(s)}
  BY DEF StateMachine, Regulate, ThermostatType, States
<1> QED
  BY <1>1, EnterType, ContinuousType, SafetyType DEF States

LEMMA FansType ==
  ASSUME NEW s \in ThermostatType, NEW in \in ReadingType
  PROVE  CondFan(EvapFan(s, in)) \in ThermostatType
<1> DEFINE e == EvapFan(s, in)
           fan == CASE in.fanMode = 0 -> TRUE
                    [] in.fanMode = 2 /\ in.evapOk ->
                         IF s.evapFan THEN in.evap # "high" ELSE in.evap = "low"
                    [] OTHER -> s.comp
           t == (IF e.delayOn THEN e.delay ELSE 0) + 1
<1>1. fan \in BOOLEAN
  BY DEF ThermostatType
<1>2. e = [s EXCEPT !.evapFan = fan]
  BY DEF EvapFan
<1> HIDE DEF e, fan
<1>3. e \in ThermostatType
  BY <1>1, <1>2 DEF ThermostatType
<1> DEFINE on   == [e EXCEPT !.condFan = TRUE, !.delayOn = FALSE, !.delay = 0]
           off  == [e EXCEPT !.condFan = FALSE, !.delayOn = FALSE, !.delay = AtMost(t, CondDelay)]
           wait == [e EXCEPT !.delayOn = TRUE, !.delay = t]
<1>4. t \in Nat
  BY <1>3, ThermostatConstants DEF ThermostatType
<1>5. /\ AtMost(t, CondDelay) \in 0..CondDelay
      /\ t < CondDelay => t \in 0..CondDelay
  BY <1>4, ThermostatConstants DEF AtMost
<1>6. CondFan(e) \in {e, on, off} \/ (t < CondDelay /\ CondFan(e) = wait)
  BY <1>4, ThermostatConstants DEF CondFan
<1> HIDE DEF t
<1>7. on \in ThermostatType /\ off \in ThermostatType
  BY <1>3, <1>5, Zeros DEF ThermostatType
<1>8. t \in 0..CondDelay => wait \in ThermostatType
  BY <1>3 DEF ThermostatType
<1> HIDE DEF on, off, wait
<1>9. CondFan(e) \in ThermostatType
  BY <1>3, <1>5, <1>6, <1>7, <1>8
<1> QED
  BY <1>9 DEF e

\* Every state, timer and request keeps its type under any readings, lockouts,
\* defrosts, switches of the user, safe mode and restarts.
THEOREM TypeCorrect == Spec => []TypeOK
<1>1. Init => TypeOK
  <2>1. ASSUME Init
        PROVE  th \in ThermostatType
    BY <2>1, Zeros DEF Init, ThermostatType, States, Temps
  <2>2. ASSUME Init
        PROVE  since \in 0..Horizon /\ beat \in BOOLEAN
    <3>1. since = Horizon /\ beat = FALSE
      BY <2>2 DEF Init
    <3>2. Horizon \in 0..Horizon
      BY Facts
    <3> QED
      BY <3>1, <3>2
  <2> QED
    BY <2>1, <2>2 DEF TypeOK
<1>2. TypeOK /\ [Next]_vars => TypeOK'
  <2> SUFFICES ASSUME TypeOK, [Next]_vars
               PROVE  TypeOK'
    OBVIOUS
  <2>1. ASSUME NEW t \in {0, 1}, Elapse(t)
        PROVE  since' \in 0..Horizon /\ beat' \in BOOLEAN
    <3>1. since' \in 0..Horizon
      BY <2>1, Facts DEF Elapse, AtMost, TypeOK
    <3>2. beat' \in BOOLEAN
      BY <2>1 DEF Elapse, TypeOK
    <3> QED
      BY <3>1, <3>2
  <2>2. ASSUME NEW in \in ReadingType, Update(in)
        PROVE  th' \in ThermostatType
    <3> DEFINE c == CountTimers(AfterDefrost(Seen(in)))
               y == CycleTriggers(AfterLockout(c), th.cycle)
               m == StateMachine(y, in)
    <3>1. Seen(in) \in ThermostatType
      BY DEF Seen, TypeOK, ThermostatType, ReadingType
    <3>2. c \in ThermostatType /\ th.cycle \in BOOLEAN
      BY <3>1, CountedType DEF TypeOK, ThermostatType
    <3>3. CASE UpdatePaused(in)
      <4>1. RequestNothing(Seen(in)) \in ThermostatType
        BY <3>1, NothingType
      <4> QED
        BY <3>1, <3>3, <4>1 DEF UpdatePaused, Pause, ThermostatType
    <3>4. CASE UpdateLocked(in)
      <4>1. th' = Lock(c)
        BY <3>4 DEF UpdateLocked
      <4>2. RequestNothing(c) \in ThermostatType
        BY <3>2, NothingType
      <4> HIDE DEF c
      <4> QED
        BY <4>1, <4>2 DEF Lock, ThermostatType
    <3>5. CASE UpdateOperating(in)
      <4>1. th' = CondFan(EvapFan(m, in))
        BY <3>5 DEF UpdateOperating
      <4> HIDE DEF c
      <4>2. y \in ThermostatType
        BY <3>2, TriggersType
      <4> HIDE DEF y
      <4>3. m \in ThermostatType
        BY <4>2, MachineType
      <4> HIDE DEF m
      <4> QED
        BY <4>1, <4>3, FansType
    <3> QED
      BY <2>2, <3>3, <3>4, <3>5 DEF Update
  <2>3. CASE AnyUpdate
    <3>1. PICK in \in ReadingType : Update(in)
      BY <2>3, ThermostatReadings DEF AnyUpdate
    <3> QED
      BY <2>1, <2>2, <3>1 DEF TypeOK, Update
  <2>4. CASE \E b \in BOOLEAN : SetCycle(b)
    BY <2>1, <2>4 DEF SetCycle, TypeOK, ThermostatType
  <2>5. CASE SafeMode \/ Restart
    BY <2>1, <2>5, NothingType DEF SafeMode, Restart, TypeOK
  <2>6. CASE UNCHANGED vars
    BY <2>6 DEF vars, TypeOK
  <2> QED
    BY <2>3, <2>4, <2>5, <2>6 DEF Next
<1> QED
  BY <1>1, <1>2, PTL DEF Spec

-----------------------------------------------------------------------------
(* Theorems                                                                *)

\* For any delays, readings, defrosts, lockouts and restarts: regulation starts
\* the compressor only after its request has been off for min_off_time.
THEOREM StartTheorem == Spec => StartRespectsMinOff
<1>1. IInv /\ [Next]_vars =>
        [~th.comp /\ th'.comp =>
           \/ since + 1 >= MinOff
           \/ th'.state \in {"continuous", "safety_run"}
           \/ th.wasLockout]_vars
  BY NextInv DEF Starts
<1>2. IInv /\ [Next]_vars => IInv'  BY NextInv
<1> QED BY <1>1, <1>2, InitInv, PTL DEF Spec, StartRespectsMinOff

\* For any of them too: regulation ends cooling only after min_on_time.
THEOREM StopTheorem == Spec => StopRespectsMinOn
<1>1. IInv /\ [Next]_vars =>
        [th.state = "cooling" /\ th'.state = "idle" /\ th.comp =>
           \/ since + 1 >= MinOn
           \/ th.wasDefrost
           \/ ~th'.ccActive /\ th.ccActive]_vars
  <2>1. IInv => th.comp \in BOOLEAN  BY DEF IInv, Typed
  <2> QED BY <2>1, NextInv DEF Stops
<1>2. IInv /\ [Next]_vars => IInv'  BY NextInv
<1> QED BY <1>1, <1>2, InitInv, PTL DEF Spec, StopRespectsMinOn
=============================================================================
