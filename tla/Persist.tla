-------------------------------- MODULE Persist --------------------------------
(***************************************************************************)
(* How a setting reaches flash: SharedState::set and its persist callback, *)
(* PersistService with its dirty flags and debounced flush, and the HTTP   *)
(* handlers that flush, erase and restart                                  *)
(* (components/modesp_core, modesp_services, modesp_net).                  *)
(*                                                                         *)
(* Several tasks set keys; the main loop flushes in on_update, the HTTP    *)
(* server's task calls flush_now.  The map has a lock, the dirty flags     *)
(* have none: a step here is what runs between two points where another    *)
(* task can come in.  Only keys with persist set are modelled; writing     *)
(* one value to NVS is atomic and durable.                                 *)
(***************************************************************************)
EXTENDS Naturals

CONSTANTS
  N,         \* number of keys
  Values,    \* what a setting may be
  Default,   \* default_val of state_meta
  None,      \* what flash holds for a key never written
  Others,    \* tasks besides the two that flush: MQTT, Modbus, cloud
  Debounce   \* DEBOUNCE_MS in ticks

ASSUME PersistConstants ==
  /\ N \in Nat \ {0} /\ Debounce \in Nat \ {0}
  /\ Default \in Values /\ None \notin Values
  /\ {"main", "http"} \cap Others = {}

Keys == 1..N
Flushers == {"main", "http"}
Tasks == Flushers \cup Others

VARIABLES
  map,      \* SharedState::map_
  dirty,    \* PersistService::dirty_
  timer,    \* debounce_timer_
  nvs,      \* the "persist" namespace on flash
  at,       \* where each task is: see Places
  key,      \* the key it works on
  val,      \* the value it read from the map
  running,  \* the modules are RUNNING: stop_all was not called
  job,      \* what the HTTP handler is doing
  beat,     \* flips at each on_update
  faulty,   \* history: keys whose last flush failed
  late,     \* history: keys being set, or set, since the restart was asked for
  overlap   \* history: both tasks have been flushing at once

tasks == <<at, key, val>>
history == <<faulty, late, overlap>>
vars == <<map, dirty, timer, nvs, tasks, running, job, beat, history>>

\* idle; after a set, before its callback; in flush_to_nvs before the flag of
\* the key, the map or the flash is touched; and about to restart.
Places == {"idle", "callback", "flag", "read", "write", "halt"}

Jobs == {"none", "restart", "restore", "reset"}

Go(t, place, k) == at' = [at EXCEPT ![t] = place] /\ key' = [key EXCEPT ![t] = k]

Flushing(t) == at[t] \in {"flag", "read", "write"}

-----------------------------------------------------------------------------
(* Setting                                                                 *)

\* SharedState::set, under its lock.  Settings are set at the modules' request
\* or the user's; a handler that restarts sets nothing more.
Set(t, k, v) ==
  /\ at[t] = "idle" /\ (t = "http" => job = "none")
  /\ v # map[k]
  /\ map' = [map EXCEPT ![k] = v]
  /\ faulty' = [faulty EXCEPT ![k] = FALSE]
  /\ late' = IF job = "restart" THEN late \cup {k} ELSE late
  /\ Go(t, "callback", k)
  /\ UNCHANGED <<dirty, timer, nvs, val, running, job, beat, overlap>>

\* Mutant of Callback: each change starts the debounce afresh (BUG-025).
CallbackRestartsDebounce(t) ==
  /\ at[t] = "callback"
  /\ dirty' = [dirty EXCEPT ![key[t]] = TRUE]
  /\ timer' = 0
  /\ Go(t, "idle", 1)
  /\ UNCHANGED <<map, nvs, val, running, job, beat, history>>

\* on_state_changed, outside the lock.
Callback(t) ==
  /\ at[t] = "callback"
  /\ dirty' = [dirty EXCEPT ![key[t]] = TRUE]
  /\ Go(t, "idle", 1)
  /\ UNCHANGED <<map, timer, nvs, val, running, job, beat, history>>

-----------------------------------------------------------------------------
(* Flushing                                                                *)

\* The flush is over: the caller resets the debounce and goes on.
FlushEnds(t) ==
  /\ timer' = 0
  /\ Go(t, IF t = "http" THEN "halt" ELSE "idle", 1)

\* flush_to_nvs is entered, after the debounce has counted to `counted`; when
\* NVS does not open, the flags stay.
FlushBegins(t, counted) ==
  /\ overlap' = (overlap \/ \E o \in Flushers \ {t} : Flushing(o))
  /\ \/ Go(t, "flag", 1) /\ timer' = counted /\ UNCHANGED faulty
     \/ FlushEnds(t) /\ faulty' = [k \in Keys |-> faulty[k] \/ dirty[k]]

\* on_update: while any flag is set the debounce counts, and then flushes.
MainUpdate ==
  /\ running /\ at["main"] = "idle"
  /\ beat' = ~beat
  /\ IF \A k \in Keys : ~dirty[k]
       THEN UNCHANGED <<timer, at, key, faulty, overlap>>
     ELSE IF timer + 1 < Debounce
       THEN timer' = timer + 1 /\ UNCHANGED <<at, key, faulty, overlap>>
     ELSE FlushBegins("main", timer + 1)
  /\ UNCHANGED <<map, dirty, nvs, val, running, job, late>>

\* The next flag: a dirty one is cleared before its value is read.
Flag(t) ==
  /\ at[t] = "flag"
  /\ IF key[t] > N
       THEN FlushEnds(t) /\ UNCHANGED dirty
     ELSE IF dirty[key[t]]
       THEN /\ dirty' = [dirty EXCEPT ![key[t]] = FALSE]
            /\ Go(t, "read", key[t]) /\ UNCHANGED timer
     ELSE Go(t, "flag", key[t] + 1) /\ UNCHANGED <<dirty, timer>>
  /\ UNCHANGED <<map, nvs, val, running, job, beat, history>>

\* The value, under the lock; when the lock times out the key is passed over.
Read(t) ==
  /\ at[t] = "read"
  /\ \/ /\ val' = [val EXCEPT ![t] = map[key[t]]]
        /\ Go(t, "write", key[t])
        /\ UNCHANGED faulty
     \/ /\ faulty' = [faulty EXCEPT ![key[t]] = TRUE]
        /\ Go(t, "flag", key[t] + 1)
        /\ UNCHANGED val
  /\ UNCHANGED <<map, dirty, timer, nvs, running, job, beat, late, overlap>>

\* The value goes to flash, or the write fails.
Stores(t) ==
  \E ok \in BOOLEAN :
    /\ nvs' = IF ok THEN [nvs EXCEPT ![key[t]] = val[t]] ELSE nvs
    /\ faulty' = [faulty EXCEPT ![key[t]] = ~ok]

\* Mutant of Write: the flag is cleared once the value is on flash.
WriteClears(t) ==
  /\ at[t] = "write"
  /\ Stores(t)
  /\ val' = [val EXCEPT ![t] = Default]
  /\ dirty' = [dirty EXCEPT ![key[t]] = FALSE]
  /\ Go(t, "flag", key[t] + 1)
  /\ UNCHANGED <<map, timer, running, job, beat, late, overlap>>

\* The value is written once: its flag is already cleared.
Write(t) ==
  /\ at[t] = "write"
  /\ Stores(t)
  /\ val' = [val EXCEPT ![t] = Default]
  /\ Go(t, "flag", key[t] + 1)
  /\ UNCHANGED <<map, dirty, timer, running, job, beat, late, overlap>>

-----------------------------------------------------------------------------
(* Restarting                                                              *)

\* The keys some task has set and not yet flagged.
BeingSet == {k \in Keys : \E t \in Tasks : at[t] = "callback" /\ key[t] = k}

\* Mutant of PostRestart: the handler stops the modules and restarts (BUG-014).
PostRestartUnflushed ==
  /\ at["http"] = "idle" /\ job = "none"
  /\ job' = "restart" /\ running' = FALSE
  /\ late' = BeingSet
  /\ Go("http", "halt", 1)
  /\ UNCHANGED <<map, dirty, timer, nvs, val, beat, faulty, overlap>>

\* handle_post_restart: stop_all, then flush_now.
PostRestart ==
  /\ at["http"] = "idle" /\ job = "none"
  /\ job' = "restart" /\ running' = FALSE
  /\ late' = BeingSet
  /\ FlushBegins("http", timer)
  /\ UNCHANGED <<map, dirty, nvs, val, beat>>

\* handle_post_restore, after its sets: flush_now, then stop_all.
PostRestore ==
  /\ at["http"] = "idle" /\ job = "none"
  /\ job' = "restore"
  /\ FlushBegins("http", timer)
  /\ UNCHANGED <<map, dirty, nvs, val, running, beat, late>>

\* handle_post_reset_settings: the namespace is erased, nothing is flushed.
PostReset ==
  /\ at["http"] = "idle" /\ job = "none"
  /\ job' = "reset"
  /\ nvs' = [k \in Keys |-> None]
  /\ Go("http", "halt", 1)
  /\ UNCHANGED <<map, dirty, timer, val, running, beat, history>>

\* stop_all of the two handlers that call it last.
StopAll ==
  /\ at["http"] = "halt" /\ running
  /\ running' = FALSE
  /\ UNCHANGED <<map, dirty, timer, nvs, tasks, job, beat, history>>

Stored(k) == IF nvs[k] = None THEN Default ELSE nvs[k]

\* Power-on, restore_from_nvs first: its sets come before the callback is
\* registered.
Boot ==
  /\ map' = [k \in Keys |-> Stored(k)]
  /\ dirty' = [k \in Keys |-> FALSE]
  /\ timer' = 0
  /\ at' = [t \in Tasks |-> "idle"] /\ key' = [t \in Tasks |-> 1]
  /\ val' = [t \in Tasks |-> Default]
  /\ running' = TRUE /\ job' = "none"
  /\ faulty' = [k \in Keys |-> FALSE] /\ late' = {} /\ overlap' = FALSE
  /\ UNCHANGED <<nvs, beat>>

\* esp_restart, after the handler's delay.
Reboot == at["http"] = "halt" /\ ~running /\ Boot

\* Power is lost, at any point.
Crash == Boot

\* The watchdog restarts PersistService: it restores again, over what the map
\* holds, with the callback in place.
RestartService ==
  /\ running /\ at["main"] = "idle"
  /\ map' = [k \in Keys |-> Stored(k)]
  /\ dirty' = [k \in Keys |-> dirty[k] \/ Stored(k) # map[k]]
  /\ UNCHANGED <<timer, nvs, tasks, running, job, beat, history>>

-----------------------------------------------------------------------------
Init ==
  /\ map = [k \in Keys |-> Default] /\ nvs = [k \in Keys |-> None]
  /\ dirty = [k \in Keys |-> FALSE] /\ timer = 0
  /\ at = [t \in Tasks |-> "idle"] /\ key = [t \in Tasks |-> 1]
  /\ val = [t \in Tasks |-> Default]
  /\ running = TRUE /\ job = "none" /\ beat = FALSE
  /\ faulty = [k \in Keys |-> FALSE] /\ late = {} /\ overlap = FALSE

FlushStep(t) == Flag(t) \/ Read(t) \/ Write(t)

Next ==
  \/ \E t \in Tasks : (\E k \in Keys, v \in Values : Set(t, k, v)) \/ Callback(t)
  \/ \E t \in Flushers : FlushStep(t)
  \/ MainUpdate
  \/ PostRestart \/ PostRestore \/ PostReset \/ StopAll
  \/ Reboot \/ Crash \/ RestartService

Spec == Init /\ [][Next]_vars

\* A task in the middle of something goes on, and the main loop, whose modules
\* set keys in between, calls on_update in every round.
LiveSpec ==
  /\ Spec
  /\ SF_vars(MainUpdate)
  /\ \A t \in Tasks : WF_vars(Callback(t))
  /\ \A t \in Flushers : WF_vars(FlushStep(t))
  /\ WF_vars(StopAll) /\ WF_vars(Reboot)

-----------------------------------------------------------------------------
(* Properties                                                              *)

\* The type invariant: no task works on a key outside the table.
TypeOK ==
  /\ map \in [Keys -> Values] /\ nvs \in [Keys -> Values \cup {None}]
  /\ dirty \in [Keys -> BOOLEAN] /\ timer \in 0..Debounce
  /\ at \in [Tasks -> Places] /\ key \in [Tasks -> 1..N + 1]
  /\ val \in [Tasks -> Values]
  /\ \A t \in Tasks : at[t] \in {"callback", "read", "write"} => key[t] \in Keys
  /\ running \in BOOLEAN /\ job \in Jobs /\ beat \in BOOLEAN
  /\ faulty \in [Keys -> BOOLEAN] /\ late \subseteq Keys /\ overlap \in BOOLEAN

\* Key k is on its way to flash: flagged, about to be flagged or to be read, or
\* in the hands of a task that has read what the map still holds.
OnItsWay(k) ==
  \/ dirty[k]
  \/ \E t \in Tasks : key[t] = k /\ at[t] \in {"callback", "read"}
  \/ \E t \in Tasks : key[t] = k /\ at[t] = "write" /\ val[t] = map[k]

\* No setting is forgotten between the map and the flash, whatever the tasks
\* interleave: one that differs from its stored value is on its way there,
\* unless a flush of it failed or the user has just erased the namespace.  The
\* two flushes must not have run at the same time: nothing keeps them apart.
NoneForgotten ==
  overlap \/ job = "reset"
    \/ \A k \in Keys : map[k] = Stored(k) \/ faulty[k] \/ OnItsWay(k)

\* The user's restart loses no setting (BUG-014) that was on its way when it was
\* asked for, unless a flush of it failed or the two flushes ran at the same
\* time.
RestartKeeps ==
  [][Reboot /\ job = "restart" /\ ~overlap =>
     \A k \in Keys : map'[k] = map[k] \/ faulty[k] \/ k \in late]_vars

\* A setting that stays as it is gets stored, however often the other settings
\* change (BUG-025), unless its flush fails, the device restarts, or the user
\* restarts it.
SettingSaved ==
  \A k \in Keys, v \in Values :
    (<>[](map[k] = v /\ ~faulty[k] /\ job = "none")) => <>[](Stored(k) = v)
=============================================================================
