---------------------------- MODULE PersistProofs -----------------------------
(***************************************************************************)
(* Theorems about Persist, for every number of keys, every set of values   *)
(* and every set of tasks: type correctness, that no setting is forgotten  *)
(* between the map and the flash, and that the user's restart keeps them.  *)
(***************************************************************************)
EXTENDS Persist, TLAPS

-----------------------------------------------------------------------------
(* The inductive invariant                                                 *)

\* Outside its own flush the main loop's debounce has not run out.
DebounceRuns == Flushing("main") \/ timer < Debounce

\* Two tasks flush at once only where the history says so.
FlushesApart == Flushing("main") /\ Flushing("http") => overlap

\* A task about to write what the map no longer holds leaves behind a flag, or
\* the task that will set it.
StaleIsFlagged ==
  overlap \/ \A t \in Flushers :
    at[t] = "write" /\ val[t] # map[key[t]] =>
      dirty[key[t]] \/ \E u \in Tasks : at[u] = "callback" /\ key[u] = key[t]

\* Only the two tasks that flush are ever in a flush, and the main loop never
\* waits for the restart.
PlacesOK == \A t \in Tasks : Flushing(t) => t \in Flushers

Structure == TypeOK /\ DebounceRuns /\ FlushesApart /\ PlacesOK

\* While the user's restart waits for its flush, every key is stored, excused, or
\* still ahead of that flush with its flag set, or in its hands.
Ahead(k) ==
  \/ dirty[k] /\ at["http"] = "flag" /\ key["http"] <= k
  \/ dirty[k] /\ at["http"] \in {"read", "write"} /\ key["http"] < k
  \/ key["http"] = k /\ at["http"] = "read"
  \/ key["http"] = k /\ at["http"] = "write" /\ val["http"] = map[k]

RestartFlushes ==
  job = "restart" /\ ~overlap =>
    /\ ~running /\ ~Flushing("main")
    /\ at["http"] \in {"flag", "read", "write", "halt"}
    /\ \A t \in Tasks : at[t] = "callback" => key[t] \in late
    /\ at["http"] = "write" /\ val["http"] # map[key["http"]] => key["http"] \in late
    /\ \A k \in Keys : map[k] = Stored(k) \/ faulty[k] \/ k \in late \/ Ahead(k)

IInv == Structure /\ StaleIsFlagged /\ NoneForgotten /\ RestartFlushes

-----------------------------------------------------------------------------
(* Type correctness                                                        *)

LEMMA Facts ==
  /\ N \in Nat /\ 1 \in Keys /\ Keys \subseteq 1..N + 1
  /\ Debounce \in Nat /\ 0 < Debounce
  /\ Default \in Values /\ None \notin Values
  /\ "main" \in Tasks /\ "http" \in Tasks /\ Flushers \subseteq Tasks
  BY PersistConstants DEF Keys, Tasks, Flushers

LEMMA StoredType ==
  ASSUME nvs \in [Keys -> Values \cup {None}], NEW k \in Keys
  PROVE  Stored(k) \in Values
  BY Facts DEF Stored

LEMMA StructureInit == Init => Structure
<1> SUFFICES ASSUME Init PROVE Structure
  OBVIOUS
<1>0. 1 \in 1..N + 1 /\ 0 \in 0..Debounce
  BY Facts
<1>1. TypeOK
  <2>1. /\ map \in [Keys -> Values] /\ nvs \in [Keys -> Values \cup {None}]
        /\ dirty \in [Keys -> BOOLEAN] /\ faulty \in [Keys -> BOOLEAN]
        /\ timer \in 0..Debounce /\ late \subseteq Keys
    BY <1>0, Facts DEF Init
  <2>2. /\ at \in [Tasks -> Places] /\ key \in [Tasks -> 1..N + 1]
        /\ val \in [Tasks -> Values]
        /\ \A t \in Tasks : at[t] = "idle"
    BY <1>0, Facts DEF Init, Places
  <2>3. running \in BOOLEAN /\ job \in Jobs /\ beat \in BOOLEAN /\ overlap \in BOOLEAN
    BY DEF Init, Jobs
  <2> QED
    BY <2>1, <2>2, <2>3 DEF TypeOK
<1>2. \A t \in Tasks : ~Flushing(t)
  BY DEF Init, Flushing
<1> QED
  BY <1>1, <1>2, Facts DEF Init, Structure, DebounceRuns, FlushesApart, PlacesOK

\* Where a task goes, it stays within the places and the keys.
LEMMA GoType ==
  ASSUME TypeOK, NEW t \in Tasks, NEW p \in Places, NEW k \in 1..N + 1,
         p \in {"callback", "read", "write"} => k \in Keys, Go(t, p, k)
  PROVE  /\ at' \in [Tasks -> Places] /\ key' \in [Tasks -> 1..N + 1]
         /\ \A u \in Tasks : at'[u] \in {"callback", "read", "write"} => key'[u] \in Keys
         /\ at'[t] = p /\ key'[t] = k
         /\ \A u \in Tasks \ {t} : at'[u] = at[u] /\ key'[u] = key[u]
  BY DEF TypeOK, Go

\* A flush that begins, or does not, keeps the structure.
LEMMA FlushBeginsType ==
  ASSUME TypeOK, NEW t \in Flushers, NEW counted \in 0..Debounce,
         FlushBegins(t, counted)
  PROVE  /\ at' \in [Tasks -> Places] /\ key' \in [Tasks -> 1..N + 1]
         /\ \A u \in Tasks : at'[u] \in {"callback", "read", "write"} => key'[u] \in Keys
         /\ at'[t] \in {"flag", "halt", "idle"} /\ key'[t] = 1
         /\ at'["main"] # "halt" \/ t # "main"
         /\ \A u \in Tasks \ {t} : at'[u] = at[u] /\ key'[u] = key[u]
         /\ faulty' \in [Keys -> BOOLEAN] /\ overlap' \in BOOLEAN
         /\ overlap => overlap'
         /\ (\E o \in Flushers \ {t} : Flushing(o)) => overlap'
         /\ \/ at'[t] = "flag" /\ timer' = counted
            \/ at'[t] \in {"halt", "idle"} /\ timer' = 0
<1> t \in Tasks /\ 1 \in 1..N + 1
  BY Facts
<1>1. /\ overlap' = (overlap \/ \E o \in Flushers \ {t} : Flushing(o))
      /\ faulty' = faulty \/ faulty' = [k \in Keys |-> faulty[k] \/ dirty[k]]
  BY DEF FlushBegins
<1>2. /\ faulty' \in [Keys -> BOOLEAN] /\ overlap' \in BOOLEAN
      /\ overlap => overlap'
      /\ (\E o \in Flushers \ {t} : Flushing(o)) => overlap'
  BY <1>1 DEF TypeOK
<1>3. \/ Go(t, "flag", 1) /\ timer' = counted
      \/ Go(t, "halt", 1) /\ timer' = 0 /\ t # "main"
      \/ Go(t, "idle", 1) /\ timer' = 0
  BY DEF FlushBegins, FlushEnds
<1>4. CASE Go(t, "flag", 1) /\ timer' = counted
  BY <1>2, <1>4, GoType DEF Places
<1>5. CASE Go(t, "halt", 1) /\ timer' = 0 /\ t # "main"
  BY <1>2, <1>5, GoType DEF Places
<1>6. CASE Go(t, "idle", 1) /\ timer' = 0
  BY <1>2, <1>6, GoType DEF Places
<1> QED
  BY <1>3, <1>4, <1>5, <1>6

\* Every step keeps the structure.
LEMMA StructureStep ==
  ASSUME Structure, [Next]_vars
  PROVE  Structure'
<1> USE DEF Structure
<1>0. "main" \in Flushers /\ "http" \in Flushers
  BY Facts DEF Flushers
<1>1. ASSUME NEW t \in Tasks, NEW k \in Keys, NEW v \in Values, Set(t, k, v)
      PROVE  Structure'
  <2>1. /\ at' \in [Tasks -> Places] /\ key' \in [Tasks -> 1..N + 1]
        /\ \A u \in Tasks : at'[u] \in {"callback", "read", "write"} => key'[u] \in Keys
        /\ at'[t] = "callback" /\ at[t] = "idle"
        /\ \A u \in Tasks \ {t} : at'[u] = at[u] /\ key'[u] = key[u]
    BY <1>1, Facts, GoType DEF Set, Places
  <2>2. TypeOK'
    BY <1>1, <2>1 DEF Set, TypeOK
  <2> QED
    BY <1>0, <1>1, <2>1, <2>2, Facts
       DEF Set, DebounceRuns, FlushesApart, PlacesOK, Flushing
<1>2. ASSUME NEW t \in Tasks, Callback(t) PROVE Structure'
  <2>1. /\ at' \in [Tasks -> Places] /\ key' \in [Tasks -> 1..N + 1]
        /\ \A u \in Tasks : at'[u] \in {"callback", "read", "write"} => key'[u] \in Keys
        /\ at'[t] = "idle" /\ at[t] = "callback"
        /\ \A u \in Tasks \ {t} : at'[u] = at[u] /\ key'[u] = key[u]
    BY <1>2, Facts, GoType DEF Callback, Places
  <2>2. TypeOK'
    BY <1>2, <2>1 DEF Callback, history, TypeOK
  <2> QED
    BY <1>0, <1>2, <2>1, <2>2, Facts
       DEF Callback, history, DebounceRuns, FlushesApart, PlacesOK, Flushing
<1>3. ASSUME NEW t \in Flushers, Flag(t) PROVE Structure'
  <2>0. t \in Tasks /\ at[t] = "flag" /\ key[t] \in 1..N + 1
    BY <1>3, Facts DEF Flag, TypeOK
  <2>1. CASE key[t] > N
    <3>1. timer' = 0 /\ dirty' = dirty /\ at'[t] \in {"halt", "idle"}
          /\ at' \in [Tasks -> Places] /\ key' \in [Tasks -> 1..N + 1]
          /\ (\A u \in Tasks : at'[u] \in {"callback", "read", "write"} => key'[u] \in Keys)
          /\ (\A u \in Tasks \ {t} : at'[u] = at[u] /\ key'[u] = key[u])
      BY <1>3, <2>0, <2>1, Facts, GoType DEF Flag, FlushEnds, Places
    <3> QED
      BY <1>0, <1>3, <2>0, <3>1, Facts
         DEF Flag, history, TypeOK, DebounceRuns, FlushesApart, PlacesOK, Flushing
  <2>2. CASE key[t] <= N
    <3>1. key[t] \in Keys /\ key[t] + 1 \in 1..N + 1
      BY <2>0, <2>2, Facts DEF Keys
    <3>2. timer' = timer /\ dirty' \in [Keys -> BOOLEAN] /\ at'[t] \in {"flag", "read"}
          /\ at' \in [Tasks -> Places] /\ key' \in [Tasks -> 1..N + 1]
          /\ (\A u \in Tasks : at'[u] \in {"callback", "read", "write"} => key'[u] \in Keys)
          /\ (\A u \in Tasks \ {t} : at'[u] = at[u] /\ key'[u] = key[u])
      <4>1. CASE dirty[key[t]]
        <5>1. /\ dirty' = [dirty EXCEPT ![key[t]] = FALSE]
              /\ Go(t, "read", key[t]) /\ timer' = timer
          BY <1>3, <2>0, <2>2, <4>1, Facts DEF Flag
        <5>2. dirty' \in [Keys -> BOOLEAN]
          BY <5>1 DEF TypeOK
        <5> QED
          BY <2>0, <3>1, <5>1, <5>2, GoType DEF Places
      <4>2. CASE ~dirty[key[t]]
        BY <1>3, <2>0, <2>2, <3>1, <4>2, Facts, GoType DEF Flag, history, TypeOK, Places
      <4> QED
        BY <4>1, <4>2
    <3> QED
      BY <1>0, <1>3, <2>0, <3>2, Facts
         DEF Flag, history, TypeOK, DebounceRuns, FlushesApart, PlacesOK, Flushing
  <2> QED
    BY <2>0, <2>1, <2>2, Facts
<1>4. ASSUME NEW t \in Flushers, Read(t) PROVE Structure'
  <2>1. t \in Tasks /\ at[t] = "read" /\ key[t] \in Keys /\ key[t] + 1 \in 1..N + 1
        /\ key[t] \in 1..N + 1
    BY <1>4, Facts DEF Read, TypeOK, Keys
  <2>2. /\ at'[t] \in {"write", "flag"}
        /\ at' \in [Tasks -> Places] /\ key' \in [Tasks -> 1..N + 1]
        /\ (\A u \in Tasks : at'[u] \in {"callback", "read", "write"} => key'[u] \in Keys)
        /\ (\A u \in Tasks \ {t} : at'[u] = at[u] /\ key'[u] = key[u])
    BY <1>4, <2>1, GoType DEF Read, Places
  <2>3. val' \in [Tasks -> Values] /\ faulty' \in [Keys -> BOOLEAN]
    BY <1>4, <2>1 DEF Read, TypeOK
  <2> QED
    BY <1>0, <1>4, <2>1, <2>2, <2>3, Facts
       DEF Read, TypeOK, DebounceRuns, FlushesApart, PlacesOK, Flushing
<1>5. ASSUME NEW t \in Flushers, Write(t) PROVE Structure'
  <2>1. t \in Tasks /\ at[t] = "write" /\ key[t] \in Keys /\ key[t] + 1 \in 1..N + 1
    BY <1>5, Facts DEF Write, TypeOK, Keys
  <2>2. /\ at'[t] = "flag"
        /\ at' \in [Tasks -> Places] /\ key' \in [Tasks -> 1..N + 1]
        /\ (\A u \in Tasks : at'[u] \in {"callback", "read", "write"} => key'[u] \in Keys)
        /\ (\A u \in Tasks \ {t} : at'[u] = at[u] /\ key'[u] = key[u])
    BY <1>5, <2>1, GoType DEF Write, Places
  <2>3. /\ val' \in [Tasks -> Values] /\ faulty' \in [Keys -> BOOLEAN]
        /\ nvs' \in [Keys -> Values \cup {None}]
    BY <1>5, <2>1, Facts DEF Write, Stores, TypeOK
  <2> QED
    BY <1>0, <1>5, <2>1, <2>2, <2>3, Facts
       DEF Write, TypeOK, DebounceRuns, FlushesApart, PlacesOK, Flushing
<1>6. CASE MainUpdate
  <2>1. timer < Debounce /\ at["main"] = "idle" /\ beat' \in BOOLEAN
    BY <1>6 DEF MainUpdate, DebounceRuns, Flushing, TypeOK
  <2>2. CASE /\ UNCHANGED <<at, key, faulty, overlap>>
             /\ timer' = timer \/ (timer' = timer + 1 /\ timer + 1 < Debounce)
    <3>1. timer' \in 0..Debounce /\ timer' < Debounce
      BY <2>1, <2>2, Facts DEF TypeOK
    <3> QED
      BY <1>6, <2>1, <2>2, <3>1
         DEF MainUpdate, TypeOK, DebounceRuns, FlushesApart, PlacesOK, Flushing
  <2>3. CASE FlushBegins("main", timer + 1)
    <3>1. timer + 1 \in 0..Debounce
      BY <2>1, Facts DEF TypeOK
    <3>2. /\ at' \in [Tasks -> Places] /\ key' \in [Tasks -> 1..N + 1]
          /\ \A u \in Tasks : at'[u] \in {"callback", "read", "write"} => key'[u] \in Keys
          /\ \A u \in Tasks \ {"main"} : at'[u] = at[u] /\ key'[u] = key[u]
          /\ faulty' \in [Keys -> BOOLEAN] /\ overlap' \in BOOLEAN
          /\ (\E o \in Flushers \ {"main"} : Flushing(o)) => overlap'
          /\ \/ at'["main"] = "flag" /\ timer' = timer + 1
             \/ at'["main"] \in {"halt", "idle"} /\ timer' = 0
      BY <1>0, <2>3, <3>1, FlushBeginsType
    <3> QED
      BY <1>0, <1>6, <2>1, <3>1, <3>2, Facts
         DEF MainUpdate, TypeOK, DebounceRuns, FlushesApart, PlacesOK, Flushing
  <2> QED
    BY <1>6, <2>2, <2>3 DEF MainUpdate
<1>7. ASSUME NEW j \in Jobs, job' = j, running' \in BOOLEAN, late' \subseteq Keys,
             at["http"] = "idle", FlushBegins("http", timer),
             UNCHANGED <<map, dirty, nvs, val, beat>>
      PROVE  Structure'
  <2>1. timer \in 0..Debounce
    BY DEF TypeOK
  <2>2. /\ at' \in [Tasks -> Places] /\ key' \in [Tasks -> 1..N + 1]
        /\ \A u \in Tasks : at'[u] \in {"callback", "read", "write"} => key'[u] \in Keys
        /\ \A u \in Tasks \ {"http"} : at'[u] = at[u] /\ key'[u] = key[u]
        /\ faulty' \in [Keys -> BOOLEAN] /\ overlap' \in BOOLEAN
        /\ (\E o \in Flushers \ {"http"} : Flushing(o)) => overlap'
        /\ timer' = timer \/ timer' = 0
    BY <1>0, <1>7, <2>1, FlushBeginsType
  <2>3. TypeOK'
    BY <1>7, <2>1, <2>2, Facts DEF TypeOK
  <2> QED
    BY <1>0, <2>1, <2>2, <2>3, Facts DEF DebounceRuns, FlushesApart, PlacesOK, Flushing
<1>8. CASE PostRestart
  <2>1. BeingSet \subseteq Keys
    BY DEF BeingSet
  <2> QED
    BY <1>7, <1>8, <2>1 DEF PostRestart, Jobs
<1>9. CASE PostRestore
  BY <1>7, <1>9 DEF PostRestore, Jobs, TypeOK
<1>10. CASE PostReset
  <2>1. /\ at'["http"] = "halt"
        /\ at' \in [Tasks -> Places] /\ key' \in [Tasks -> 1..N + 1]
        /\ \A u \in Tasks : at'[u] \in {"callback", "read", "write"} => key'[u] \in Keys
        /\ \A u \in Tasks \ {"http"} : at'[u] = at[u] /\ key'[u] = key[u]
    BY <1>10, Facts, GoType DEF PostReset, Places
  <2>2. nvs' \in [Keys -> Values \cup {None}] /\ job' \in Jobs
    BY <1>10 DEF PostReset, Jobs
  <2> QED
    BY <1>0, <1>10, <2>1, <2>2, Facts
       DEF PostReset, history, TypeOK, DebounceRuns, FlushesApart, PlacesOK, Flushing
<1>11. CASE StopAll
  BY <1>11 DEF StopAll, tasks, history, TypeOK, DebounceRuns, FlushesApart, PlacesOK, Flushing
<1>12. CASE Boot
  <2>1. map' \in [Keys -> Values]
    BY <1>12, StoredType DEF Boot, TypeOK
  <2>2. /\ at' \in [Tasks -> Places] /\ key' \in [Tasks -> 1..N + 1]
        /\ val' \in [Tasks -> Values] /\ \A t \in Tasks : at'[t] = "idle"
        /\ dirty' \in [Keys -> BOOLEAN] /\ faulty' \in [Keys -> BOOLEAN]
        /\ timer' \in 0..Debounce /\ timer' < Debounce
        /\ job' \in Jobs
    <3>1. 1 \in 1..N + 1 /\ 0 \in 0..Debounce
      BY Facts
    <3> QED
      BY <1>12, <3>1, Facts DEF Boot, Places, Jobs
  <2> QED
    BY <1>0, <1>12, <2>1, <2>2, Facts
       DEF Boot, TypeOK, DebounceRuns, FlushesApart, PlacesOK, Flushing
<1>13. CASE RestartService
  <2>1. map' \in [Keys -> Values] /\ dirty' \in [Keys -> BOOLEAN]
    BY <1>13, StoredType DEF RestartService, TypeOK
  <2> QED
    BY <1>13, <2>1
       DEF RestartService, tasks, history, TypeOK, DebounceRuns, FlushesApart, PlacesOK, Flushing
<1>14. CASE UNCHANGED vars
  BY <1>14 DEF vars, tasks, history, TypeOK, DebounceRuns, FlushesApart, PlacesOK, Flushing
<1> QED
  BY <1>1, <1>2, <1>3, <1>4, <1>5, <1>6, <1>8, <1>9, <1>10, <1>11, <1>12, <1>13, <1>14
     DEF Next, FlushStep, Reboot, Crash

\* The type invariant of SharedState's persisted keys, the dirty flags, the
\* debounce and the flushes: no flush runs past the table, no timer past its
\* debounce.
THEOREM TypeCorrect == Spec => []TypeOK
<1>1. Init => Structure
  BY StructureInit
<1>2. Structure /\ [Next]_vars => Structure'
  BY StructureStep
<1>3. Structure => TypeOK
  BY DEF Structure
<1> QED
  BY <1>1, <1>2, <1>3, PTL DEF Spec

-----------------------------------------------------------------------------
(* No setting is forgotten                                                 *)

LEMMA IInvInit == Init => IInv
<1> SUFFICES ASSUME Init PROVE IInv
  OBVIOUS
<1>1. Structure
  BY StructureInit
<1>2. StaleIsFlagged /\ RestartFlushes
  BY Facts DEF Init, StaleIsFlagged, RestartFlushes
<1>3. NoneForgotten
  BY DEF Init, NoneForgotten, Stored
<1> QED
  BY <1>1, <1>2, <1>3 DEF IInv

\* A set puts its key on its way.
LEMMA SetStep ==
  ASSUME IInv, NEW t \in Tasks, NEW k \in Keys, NEW v \in Values, Set(t, k, v)
  PROVE  StaleIsFlagged' /\ NoneForgotten' /\ RestartFlushes'
<1> USE DEF IInv, Structure
<1>1. /\ at[t] = "idle" /\ at'[t] = "callback" /\ key'[t] = k
      /\ \A u \in Tasks \ {t} : at'[u] = at[u] /\ key'[u] = key[u]
      /\ at' \in [Tasks -> Places]
  BY Facts, GoType DEF Set, Places
<1>2. /\ map' = [map EXCEPT ![k] = v] /\ faulty' = [faulty EXCEPT ![k] = FALSE]
      /\ \A j \in Keys \ {k} : map'[j] = map[j] /\ faulty'[j] = faulty[j]
      /\ UNCHANGED <<dirty, nvs, val, running, job, overlap>>
  BY DEF Set, TypeOK
<1>3. \A u \in Tasks : at[u] \in {"read", "write"} => key[u] \in Keys
  BY DEF TypeOK
<1>4. StaleIsFlagged'
  BY <1>1, <1>2, <1>3, Facts DEF StaleIsFlagged
<1>5. NoneForgotten'
  BY <1>1, <1>2, <1>3, Facts DEF NoneForgotten, OnItsWay, Stored
<1>6. RestartFlushes'
  <2> SUFFICES ASSUME job = "restart", ~overlap PROVE RestartFlushes'
    BY <1>2 DEF RestartFlushes
  <2>1. late' = late \cup {k} /\ t # "http"
    BY <1>1 DEF Set, RestartFlushes
  <2> QED
    BY <1>1, <1>2, <1>3, <2>1, Facts DEF RestartFlushes, Ahead, Stored, Flushing
<1> QED
  BY <1>4, <1>5, <1>6

\* The callback flags the key it was called for.
LEMMA CallbackStep ==
  ASSUME IInv, NEW t \in Tasks, Callback(t)
  PROVE  StaleIsFlagged' /\ NoneForgotten' /\ RestartFlushes'
<1> USE DEF IInv, Structure
<1>1. /\ at[t] = "callback" /\ at'[t] = "idle" /\ key[t] \in Keys
      /\ \A u \in Tasks \ {t} : at'[u] = at[u] /\ key'[u] = key[u]
  BY Facts, GoType DEF Callback, Places, TypeOK
<1>2. /\ \A j \in Keys : dirty[j] => dirty'[j]
      /\ dirty'[key[t]]
      /\ UNCHANGED <<map, nvs, val, running, job, faulty, late, overlap>>
  BY <1>1 DEF Callback, history, TypeOK
<1>3. \A u \in Tasks : at[u] \in {"read", "write"} => key[u] \in Keys
  BY DEF TypeOK
<1>4. StaleIsFlagged'
  <2> SUFFICES ASSUME ~overlap, NEW f \in Flushers, at'[f] = "write", val[f] # map[key'[f]]
               PROVE  dirty'[key'[f]]
                        \/ \E u \in Tasks : at'[u] = "callback" /\ key'[u] = key'[f]
    BY <1>2 DEF StaleIsFlagged
  <2>1. f \in Tasks \ {t} /\ at[f] = "write" /\ key'[f] = key[f] /\ key[f] \in Keys
    BY <1>1, <1>3, Facts
  <2>2. dirty[key[f]] \/ \E u \in Tasks : at[u] = "callback" /\ key[u] = key[f]
    BY <2>1 DEF StaleIsFlagged
  <2> QED
    BY <1>1, <1>2, <2>1, <2>2
<1>5. NoneForgotten'
  BY <1>1, <1>2, <1>3, Facts DEF NoneForgotten, OnItsWay, Stored
<1>6. RestartFlushes'
  <2> SUFFICES ASSUME job = "restart", ~overlap PROVE RestartFlushes'
    BY <1>2 DEF RestartFlushes
  <2>1. t # "http" /\ ~Flushing("main")' /\ ~running'
    BY <1>1, <1>2, Facts DEF RestartFlushes, Flushing
  <2>2. ASSUME NEW k \in Keys
        PROVE  map[k] = Stored(k)' \/ faulty[k] \/ k \in late \/ Ahead(k)'
    BY <1>1, <1>2, <2>1, Facts DEF RestartFlushes, Ahead, Stored
  <2> QED
    BY <1>1, <1>2, <2>1, <2>2, Facts DEF RestartFlushes
<1> QED
  BY <1>4, <1>5, <1>6

\* With the two flushes apart, another task that is about to write is not in a
\* flush step of t.
LEMMA OneFlush ==
  ASSUME Structure, ~overlap, NEW t \in Flushers, Flushing(t),
         NEW u \in Tasks, u # t
  PROVE  ~Flushing(u)
  BY DEF Structure, FlushesApart, PlacesOK, Flushers

\* A flag is cleared only as its key is taken up.
LEMMA FlagStep ==
  ASSUME IInv, NEW t \in Flushers, Flag(t)
  PROVE  StaleIsFlagged' /\ NoneForgotten' /\ RestartFlushes'
<1> USE DEF IInv, Structure
<1>1. t \in Tasks /\ at[t] = "flag" /\ key[t] \in 1..N + 1 /\ Flushing(t)
  BY Facts DEF Flag, TypeOK, Flushing
<1>2. UNCHANGED <<map, nvs, val, running, job, faulty, late, overlap>>
  BY DEF Flag, history
<1>3. at \in [Tasks -> Places] /\ key \in [Tasks -> 1..N + 1]
  BY DEF TypeOK
<1>4. \/ /\ at'[t] \in {"idle", "halt"} /\ key[t] = N + 1 /\ dirty' = dirty
         /\ t = "http" => at'[t] = "halt"
      \/ /\ at'[t] = "flag" /\ key[t] \in Keys /\ key'[t] = key[t] + 1
         /\ dirty' = dirty /\ ~dirty[key[t]]
      \/ /\ at'[t] = "read" /\ key[t] \in Keys /\ key'[t] = key[t]
         /\ ~dirty'[key[t]] /\ \A j \in Keys \ {key[t]} : dirty'[j] = dirty[j]
  <2>1. CASE key[t] > N
    BY <1>1, <1>3, <2>1, Facts DEF Flag, FlushEnds, Go
  <2>2. CASE key[t] <= N /\ dirty[key[t]]
    <3>1. dirty' = [dirty EXCEPT ![key[t]] = FALSE] /\ Go(t, "read", key[t])
      BY <1>1, <2>2, Facts DEF Flag
    <3>2. key[t] \in Keys
      BY <1>1, <2>2, Facts DEF Keys
    <3>3. ~dirty'[key[t]] /\ \A j \in Keys \ {key[t]} : dirty'[j] = dirty[j]
      BY <3>1, <3>2 DEF TypeOK
    <3> QED
      BY <1>1, <1>3, <3>1, <3>2, <3>3 DEF Go
  <2>3. CASE key[t] <= N /\ ~dirty[key[t]]
    BY <1>1, <1>3, <2>3, Facts DEF Flag, Go, Keys
  <2> QED
    BY <1>1, <2>1, <2>2, <2>3, Facts
<1>5. \A u \in Tasks \ {t} : at'[u] = at[u] /\ key'[u] = key[u]
  BY <1>3 DEF Flag, FlushEnds, Go
<1>6. StaleIsFlagged'
  <2> SUFFICES ASSUME ~overlap, NEW f \in Flushers, at'[f] = "write", val[f] # map[key'[f]]
               PROVE  FALSE
    BY <1>2 DEF StaleIsFlagged
  <2>1. f # t
    BY <1>4
  <2> QED
    BY <1>1, <1>5, <2>1, OneFlush, Facts DEF Flushing
<1>7. NoneForgotten'
  <2> SUFFICES ASSUME ~overlap, job # "reset", NEW k \in Keys,
                      ~(map[k] = Stored(k)), ~faulty[k]
               PROVE  OnItsWay(k)'
    BY <1>2 DEF NoneForgotten, Stored
  <2>1. OnItsWay(k)
    BY DEF NoneForgotten
  <2>2. CASE dirty[k]
    BY <1>1, <1>4, <2>2, Facts DEF OnItsWay
  <2>3. CASE ~dirty[k]
    <3>1. PICK u \in Tasks : /\ key[u] = k /\ at[u] \in {"callback", "read", "write"}
                             /\ at[u] = "write" => val[u] = map[k]
      BY <2>1, <2>3 DEF OnItsWay
    <3>2. u # t
      BY <1>1, <3>1
    <3> QED
      BY <1>2, <1>5, <3>1, <3>2 DEF OnItsWay
  <2> QED
    BY <2>2, <2>3
<1>8. RestartFlushes'
  <2> SUFFICES ASSUME job = "restart", ~overlap PROVE RestartFlushes'
    BY <1>2 DEF RestartFlushes
  <2>1. t = "http"
    BY <1>1 DEF RestartFlushes, Flushers
  <2>2. ~running' /\ at'["http"] \in {"flag", "read", "halt"} /\ ~Flushing("main")'
    BY <1>2, <1>4, <1>5, <2>1, Facts DEF RestartFlushes, Flushing
  <2>3. \A u \in Tasks : at'[u] = "callback" => key'[u] \in late
    BY <1>4, <1>5, <2>1 DEF RestartFlushes
  <2>4. ASSUME NEW k \in Keys
        PROVE  map[k] = Stored(k)' \/ faulty[k] \/ k \in late \/ Ahead(k)'
    <3>1. map[k] = Stored(k) \/ faulty[k] \/ k \in late \/ (dirty[k] /\ key["http"] <= k)
      BY <1>1, <2>1 DEF RestartFlushes, Ahead
    <3>2. CASE dirty[k] /\ key["http"] <= k
      <4>1. k \in 1..N
        BY DEF Keys
      <4> QED
        BY <1>1, <1>4, <2>1, <3>2, <4>1, Facts DEF Ahead
    <3> QED
      BY <1>2, <3>1, <3>2 DEF Stored
  <2> QED
    BY <1>2, <2>2, <2>3, <2>4, <1>4, <2>1 DEF RestartFlushes
<1> QED
  BY <1>6, <1>7, <1>8

\* A value read is the map's, or the key is passed over and counts as faulty.
LEMMA ReadStep ==
  ASSUME IInv, NEW t \in Flushers, Read(t)
  PROVE  StaleIsFlagged' /\ NoneForgotten' /\ RestartFlushes'
<1> USE DEF IInv, Structure
<1>1. /\ t \in Tasks /\ at[t] = "read" /\ key[t] \in Keys /\ Flushing(t)
      /\ key[t] \in Nat /\ key[t] + 1 \in 1..N + 1 /\ key[t] \in 1..N + 1
  BY Facts DEF Read, TypeOK, Flushing, Keys
<1>2. UNCHANGED <<map, nvs, dirty, running, job, late, overlap>>
  BY DEF Read
<1>3. \/ /\ at'[t] = "write" /\ key'[t] = key[t] /\ val'[t] = map[key[t]]
         /\ faulty' = faulty
      \/ /\ at'[t] = "flag" /\ key'[t] = key[t] + 1 /\ val' = val
         /\ faulty'[key[t]]
         /\ \A j \in Keys \ {key[t]} : faulty'[j] = faulty[j]
  BY <1>1 DEF Read, Go, TypeOK
<1>4. \A u \in Tasks \ {t} : at'[u] = at[u] /\ key'[u] = key[u] /\ val'[u] = val[u]
  BY DEF Read, Go, TypeOK
<1>5. StaleIsFlagged'
  <2> SUFFICES ASSUME ~overlap, NEW f \in Flushers, at'[f] = "write", val'[f] # map[key'[f]]
               PROVE  FALSE
    BY <1>2 DEF StaleIsFlagged
  <2>1. f # t
    BY <1>3
  <2> QED
    BY <1>1, <1>4, <2>1, OneFlush, Facts DEF Flushing
<1>6. NoneForgotten'
  <2> SUFFICES ASSUME ~overlap, job # "reset", NEW k \in Keys,
                      ~(map[k] = Stored(k)), ~faulty'[k]
               PROVE  OnItsWay(k)'
    BY <1>2 DEF NoneForgotten, Stored
  <2>1. OnItsWay(k) /\ ~(k = key[t] /\ at'[t] = "flag")
    BY <1>1, <1>3 DEF NoneForgotten
  <2>2. CASE dirty[k]
    BY <1>2, <2>2 DEF OnItsWay
  <2>3. CASE ~dirty[k]
    <3>1. PICK u \in Tasks : /\ key[u] = k /\ at[u] \in {"callback", "read", "write"}
                             /\ at[u] = "write" => val[u] = map[k]
      BY <2>1, <2>3 DEF OnItsWay
    <3>2. CASE u = t
      BY <1>1, <1>2, <1>3, <2>1, <3>1, <3>2 DEF OnItsWay
    <3>3. CASE u # t
      BY <1>2, <1>4, <3>1, <3>3 DEF OnItsWay
    <3> QED
      BY <3>2, <3>3
  <2> QED
    BY <2>2, <2>3
<1>7. RestartFlushes'
  <2> SUFFICES ASSUME job = "restart", ~overlap PROVE RestartFlushes'
    BY <1>2 DEF RestartFlushes
  <2>1. t = "http"
    BY <1>1 DEF RestartFlushes, Flushers
  <2>2. ~running' /\ at'["http"] \in {"flag", "write"} /\ ~Flushing("main")'
    BY <1>2, <1>3, <1>4, <2>1, Facts DEF RestartFlushes, Flushing
  <2>3. \A u \in Tasks : at'[u] = "callback" => key'[u] \in late
    BY <1>3, <1>4, <2>1 DEF RestartFlushes
  <2>4. ASSUME NEW k \in Keys
        PROVE  map[k] = Stored(k)' \/ faulty'[k] \/ k \in late \/ Ahead(k)'
    <3>1. k \in Nat
      BY DEF Keys
    <3>2. \/ map[k] = Stored(k) \/ faulty[k] \/ k \in late
          \/ dirty[k] /\ key["http"] < k
          \/ key["http"] = k
      BY <1>1, <2>1 DEF RestartFlushes, Ahead
    <3> QED
      BY <1>1, <1>2, <1>3, <2>1, <3>1, <3>2 DEF Ahead, Stored
  <2> QED
    BY <1>2, <2>2, <2>3, <2>4, <1>3, <2>1 DEF RestartFlushes
<1> QED
  BY <1>5, <1>6, <1>7

\* What a write leaves unstored is still on its way, or counts as faulty.
LEMMA WriteStep ==
  ASSUME IInv, NEW t \in Flushers, Write(t)
  PROVE  StaleIsFlagged' /\ NoneForgotten' /\ RestartFlushes'
<1> USE DEF IInv, Structure
<1>1. /\ t \in Tasks /\ at[t] = "write" /\ key[t] \in Keys /\ Flushing(t)
      /\ key[t] \in Nat /\ val[t] \in Values
  BY Facts DEF Write, TypeOK, Flushing, Keys
<1>2. UNCHANGED <<map, dirty, running, job, late, overlap>>
  BY DEF Write
<1>3. at'[t] = "flag" /\ key'[t] = key[t] + 1
  BY <1>1 DEF Write, Go, TypeOK
<1>4. \A u \in Tasks \ {t} : at'[u] = at[u] /\ key'[u] = key[u] /\ val'[u] = val[u]
  BY DEF Write, Go, TypeOK
<1>5. /\ \A j \in Keys : j = key[t] => faulty'[j] \/ Stored(j)' = val[t]
      /\ \A j \in Keys \ {key[t]} : faulty'[j] = faulty[j] /\ Stored(j)' = Stored(j)
  <2>1. PICK ok \in BOOLEAN :
          /\ nvs' = IF ok THEN [nvs EXCEPT ![key[t]] = val[t]] ELSE nvs
          /\ faulty' = [faulty EXCEPT ![key[t]] = ~ok]
    BY DEF Write, Stores
  <2>2. CASE ok
    BY <1>1, <2>1, <2>2, Facts DEF TypeOK, Stored
  <2>3. CASE ~ok
    BY <1>1, <2>1, <2>3 DEF TypeOK, Stored
  <2> QED
    BY <2>2, <2>3
<1>6. StaleIsFlagged'
  <2> SUFFICES ASSUME ~overlap, NEW f \in Flushers, at'[f] = "write", val'[f] # map[key'[f]]
               PROVE  FALSE
    BY <1>2 DEF StaleIsFlagged
  <2>1. f # t
    BY <1>3
  <2> QED
    BY <1>1, <1>4, <2>1, OneFlush, Facts DEF Flushing
<1>7. NoneForgotten'
  <2> SUFFICES ASSUME ~overlap, job # "reset", NEW k \in Keys,
                      ~(map[k] = Stored(k)'), ~faulty'[k]
               PROVE  OnItsWay(k)'
    BY <1>2 DEF NoneForgotten
  <2>1. CASE k = key[t]
    <3>1. val[t] # map[k]
      BY <1>5, <2>1
    <3>2. dirty[k] \/ \E u \in Tasks : at[u] = "callback" /\ key[u] = k
      BY <1>1, <2>1, <3>1 DEF StaleIsFlagged
    <3> QED
      BY <1>1, <1>2, <1>4, <3>2 DEF OnItsWay
  <2>2. CASE k # key[t]
    <3>1. OnItsWay(k)
      BY <1>5, <2>2 DEF NoneForgotten
    <3> QED
      BY <1>2, <1>4, <2>2, <3>1 DEF OnItsWay
  <2> QED
    BY <2>1, <2>2
<1>8. RestartFlushes'
  <2> SUFFICES ASSUME job = "restart", ~overlap PROVE RestartFlushes'
    BY <1>2 DEF RestartFlushes
  <2>1. t = "http"
    BY <1>1 DEF RestartFlushes, Flushers
  <2>2. ~running' /\ at'["http"] = "flag" /\ ~Flushing("main")'
    BY <1>2, <1>3, <1>4, <2>1, Facts DEF RestartFlushes, Flushing
  <2>3. \A u \in Tasks : at'[u] = "callback" => key'[u] \in late
    BY <1>3, <1>4, <2>1 DEF RestartFlushes
  <2>4. ASSUME NEW k \in Keys
        PROVE  map[k] = Stored(k)' \/ faulty'[k] \/ k \in late \/ Ahead(k)'
    <3>1. k \in Nat
      BY DEF Keys
    <3>2. CASE k = key[t]
      BY <1>1, <1>5, <2>1, <3>2 DEF RestartFlushes
    <3>3. CASE k # key[t]
      BY <1>1, <1>2, <1>3, <1>5, <2>1, <2>2, <3>1, <3>3 DEF RestartFlushes, Ahead
    <3> QED
      BY <3>2, <3>3
  <2> QED
    BY <1>2, <2>2, <2>3, <2>4 DEF RestartFlushes
<1> QED
  BY <1>6, <1>7, <1>8

\* A flush that begins, or cannot, disturbs nothing: its task was idle, and a
\* flag it cannot serve counts as faulty.
LEMMA BeginStep ==
  ASSUME IInv, NEW t \in Flushers, NEW counted \in 0..Debounce,
         at[t] = "idle", FlushBegins(t, counted),
         UNCHANGED <<map, dirty, nvs, val>>,
         job' = job \/ job = "none"
  PROVE  StaleIsFlagged' /\ NoneForgotten'
<1> USE DEF IInv, Structure
<1>1. /\ at'[t] \in {"flag", "halt", "idle"}
      /\ \A u \in Tasks \ {t} : at'[u] = at[u] /\ key'[u] = key[u]
      /\ overlap => overlap'
  BY FlushBeginsType
<1>2. \A j \in Keys : faulty[j] => faulty'[j]
  BY DEF FlushBegins, TypeOK
<1>3. StaleIsFlagged'
  <2> SUFFICES ASSUME ~overlap, NEW f \in Flushers, at'[f] = "write", val[f] # map[key'[f]]
               PROVE  dirty[key'[f]]
                        \/ \E u \in Tasks : at'[u] = "callback" /\ key'[u] = key'[f]
    BY <1>1 DEF StaleIsFlagged
  <2>1. f # t /\ f \in Tasks
    BY <1>1, Facts
  <2>2. dirty[key[f]] \/ \E u \in Tasks : at[u] = "callback" /\ key[u] = key[f]
    BY <1>1, <2>1 DEF StaleIsFlagged
  <2> QED
    BY <1>1, <2>1, <2>2
<1>4. NoneForgotten'
  <2> SUFFICES ASSUME ~overlap, job # "reset", NEW k \in Keys,
                      ~(map[k] = Stored(k)), ~faulty[k]
               PROVE  OnItsWay(k)'
    BY <1>1, <1>2 DEF NoneForgotten, Stored
  <2>1. OnItsWay(k)
    BY DEF NoneForgotten
  <2> QED
    BY <1>1, <2>1 DEF OnItsWay
<1> QED
  BY <1>3, <1>4

\* The user's restart begins: what is not stored is flagged, and ahead.
LEMMA PostRestartStep ==
  ASSUME IInv, PostRestart
  PROVE  RestartFlushes'
<1> USE DEF IInv, Structure
<1> SUFFICES ASSUME ~overlap' PROVE RestartFlushes'
  BY DEF RestartFlushes
<1>1. /\ at["http"] = "idle" /\ job = "none" /\ running' = FALSE /\ late' = BeingSet
      /\ FlushBegins("http", timer) /\ UNCHANGED <<map, dirty, nvs, val>>
      /\ "http" \in Flushers /\ "main" \in Flushers /\ timer \in 0..Debounce
  BY DEF PostRestart, TypeOK, Flushers
<1>2. /\ \A u \in Tasks \ {"http"} : at'[u] = at[u] /\ key'[u] = key[u]
      /\ overlap => overlap'
      /\ Flushing("main") => overlap'
  BY <1>1, FlushBeginsType
<1>3. /\ \/ at'["http"] = "flag" /\ key'["http"] = 1 /\ faulty' = faulty
         \/ at'["http"] = "halt" /\ faulty' = [k \in Keys |-> faulty[k] \/ dirty[k]]
  BY <1>1, Facts DEF FlushBegins, FlushEnds, Go, TypeOK
<1>4. ~overlap /\ ~Flushing("main") /\ ~Flushing("main")'
  <2>1. ~overlap /\ ~Flushing("main")
    BY <1>2
  <2>2. "main" \in Tasks \ {"http"}
    BY Facts
  <2>3. at'["main"] = at["main"]
    BY <1>2, <2>2
  <2> QED
    BY <2>1, <2>3 DEF Flushing
<1>5. \A u \in Tasks : at'[u] = "callback" => key'[u] \in late'
  BY <1>1, <1>2, <1>3 DEF BeingSet, TypeOK
<1>6. ASSUME NEW k \in Keys
      PROVE  map'[k] = Stored(k)' \/ faulty'[k] \/ k \in late' \/ Ahead(k)'
  <2>1. map[k] = Stored(k) \/ faulty[k] \/ OnItsWay(k)
    BY <1>1, <1>4 DEF NoneForgotten
  <2>2. OnItsWay(k) => dirty[k] \/ k \in BeingSet
    BY <1>1, <1>4 DEF OnItsWay, BeingSet, PlacesOK, Flushing, Flushers
  <2>3. dirty[k] => faulty'[k] \/ Ahead(k)'
    <3>1. k \in Nat /\ 1 <= k /\ dirty' = dirty
      BY <1>1 DEF Keys
    <3> QED
      BY <1>3, <3>1 DEF Ahead
  <2>4. faulty[k] => faulty'[k]
    BY <1>3
  <2> QED
    BY <1>1, <2>1, <2>2, <2>3, <2>4 DEF Stored
<1> QED
  BY <1>1, <1>3, <1>4, <1>5, <1>6 DEF RestartFlushes

\* Every step keeps the invariant.
LEMMA IInvStep ==
  ASSUME IInv, [Next]_vars
  PROVE  IInv'
<1>1. Structure'
  BY StructureStep DEF IInv
<1> SUFFICES StaleIsFlagged' /\ NoneForgotten' /\ RestartFlushes'
  BY <1>1 DEF IInv
<1>2. "main" \in Flushers /\ "http" \in Flushers /\ timer \in 0..Debounce
  BY DEF Flushers, IInv, Structure, TypeOK
<1>3. CASE MainUpdate
  <2>1. running /\ at["main"] = "idle" /\ UNCHANGED <<map, dirty, nvs, val, running, job, late>>
    BY <1>3 DEF MainUpdate
  <2>2. overlap => overlap'
    BY <1>3 DEF MainUpdate, FlushBegins
  <2>3. RestartFlushes'
    BY <2>1, <2>2 DEF IInv, RestartFlushes
  <2>4. CASE UNCHANGED <<at, key, faulty, overlap>>
    BY <2>1, <2>3, <2>4
       DEF IInv, StaleIsFlagged, NoneForgotten, OnItsWay, Stored
  <2>5. CASE FlushBegins("main", timer + 1)
    <3>1. timer + 1 \in 0..Debounce
      BY <1>2, <2>1, Facts DEF IInv, Structure, DebounceRuns, Flushing
    <3> QED
      BY <1>2, <2>1, <2>3, <2>5, <3>1, BeginStep
  <2> QED
    BY <1>3, <2>4, <2>5 DEF MainUpdate
<1>4. CASE PostRestart
  BY <1>2, <1>4, PostRestartStep, BeginStep DEF PostRestart
<1>5. CASE PostRestore
  BY <1>2, <1>5, BeginStep DEF PostRestore, RestartFlushes
<1>6. CASE PostReset
  <2>1. job' = "reset" /\ at["http"] = "idle" /\ UNCHANGED <<map, dirty, val, overlap>>
    BY <1>6 DEF PostReset, history
  <2>2. /\ at'["http"] = "halt"
        /\ \A u \in Tasks \ {"http"} : at'[u] = at[u] /\ key'[u] = key[u]
    BY <1>6, Facts DEF PostReset, Go, IInv, Structure, TypeOK
  <2>3. StaleIsFlagged'
    <3> SUFFICES ASSUME ~overlap, NEW f \in Flushers, at'[f] = "write", val[f] # map[key'[f]]
                 PROVE  dirty[key'[f]]
                          \/ \E u \in Tasks : at'[u] = "callback" /\ key'[u] = key'[f]
      BY <2>1 DEF StaleIsFlagged
    <3>1. f # "http" /\ f \in Tasks
      BY <2>2, Facts
    <3>2. dirty[key[f]] \/ \E u \in Tasks : at[u] = "callback" /\ key[u] = key[f]
      BY <2>2, <3>1 DEF IInv, StaleIsFlagged
    <3> QED
      BY <2>1, <2>2, <3>1, <3>2
  <2> QED
    BY <2>1, <2>3 DEF NoneForgotten, RestartFlushes
<1>7. CASE StopAll
  <2>1. running /\ UNCHANGED <<map, dirty, nvs, at, key, val, job, faulty, late, overlap>>
    BY <1>7 DEF StopAll, tasks, history
  <2> QED
    BY <2>1 DEF IInv, StaleIsFlagged, NoneForgotten, RestartFlushes, OnItsWay, Stored
<1>8. CASE Boot
  <2>1. /\ \A k \in Keys : map'[k] = Stored(k)'
        /\ \A t \in Tasks : at'[t] = "idle"
        /\ job' = "none"
    BY <1>8 DEF Boot, Stored
  <2> QED
    BY <2>1, Facts DEF StaleIsFlagged, NoneForgotten, RestartFlushes
<1>9. CASE RestartService
  <2>1. /\ running /\ UNCHANGED <<nvs, at, key, val, running, job, overlap>>
        /\ \A k \in Keys : /\ map'[k] = Stored(k) /\ map'[k] = Stored(k)'
                           /\ dirty'[k] = (dirty[k] \/ Stored(k) # map[k])
    BY <1>9 DEF RestartService, tasks, history, Stored
  <2>2. NoneForgotten' /\ RestartFlushes'
    BY <2>1 DEF IInv, NoneForgotten, RestartFlushes
  <2>3. StaleIsFlagged'
    <3> SUFFICES ASSUME ~overlap, NEW f \in Flushers, at[f] = "write", val[f] # map'[key[f]]
                 PROVE  dirty'[key[f]]
                          \/ \E u \in Tasks : at[u] = "callback" /\ key[u] = key[f]
      BY <2>1 DEF StaleIsFlagged
    <3>1. key[f] \in Keys
      BY Facts DEF IInv, Structure, TypeOK
    <3>2. val[f] # map[key[f]] =>
            dirty[key[f]] \/ \E u \in Tasks : at[u] = "callback" /\ key[u] = key[f]
      BY DEF IInv, StaleIsFlagged
    <3> QED
      BY <2>1, <3>1, <3>2
  <2> QED
    BY <2>2, <2>3
<1>10. CASE UNCHANGED vars
  BY <1>10 DEF vars, tasks, history, IInv, StaleIsFlagged, NoneForgotten, RestartFlushes,
               OnItsWay, Stored, Ahead, Flushing
<1> QED
  BY <1>3, <1>4, <1>5, <1>6, <1>7, <1>8, <1>9, <1>10,
     SetStep, CallbackStep, FlagStep, ReadStep, WriteStep
     DEF Next, FlushStep, Reboot, Crash

\* Whatever the tasks interleave, a setting that differs from its stored value is
\* on its way to flash, unless its flush failed, the namespace was erased or the
\* two flushes overlapped (PersistService's unlocked flags).
THEOREM NoneForgottenTheorem == Spec => []NoneForgotten
<1>1. IInv => NoneForgotten
  BY DEF IInv
<1> QED
  BY <1>1, IInvInit, IInvStep, PTL DEF Spec

\* The restart the user asks for brings back every setting that was made before
\* (BUG-014), under the same exceptions.
THEOREM RestartKeepsTheorem == Spec => RestartKeeps
<1>1. IInv /\ [Next]_vars =>
        [Reboot /\ job = "restart" /\ ~overlap =>
           \A k \in Keys : map'[k] = map[k] \/ faulty[k] \/ k \in late]_vars
  <2> SUFFICES ASSUME IInv, Reboot, job = "restart", ~overlap, NEW k \in Keys
               PROVE  map'[k] = map[k] \/ faulty[k] \/ k \in late
    OBVIOUS
  <2>1. at["http"] = "halt" /\ map'[k] = Stored(k)
    BY DEF Reboot, Boot
  <2>2. ~Ahead(k)
    BY <2>1 DEF Ahead
  <2> QED
    BY <2>1, <2>2 DEF IInv, RestartFlushes
<1> QED
  BY <1>1, IInvInit, IInvStep, PTL DEF Spec, RestartKeeps
=============================================================================
