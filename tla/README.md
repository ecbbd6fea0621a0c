# Verification of ModESP

TLA+ models, TLC runs and TLAPS proofs kept beside the ModESP firmware, a refrigeration controller
for the ESP32: it regulates one or two cold rooms served by one compressor, defrosts their
evaporators, protects the machine, drives expansion valves, logs, and reports over the network.
Every definition is translated from the source; `PROJECT.json` ("map") names the lines each one
stands for, "hazards" what is hard to test and which property covers it.

## 1. The system

### How it runs

One main loop (`main/main.cpp:505-553`) calls `driver_manager.update_all`, then
`ModuleManager::update_all`: every module's `on_update`, in the order of priority

    CRITICAL  error, watchdog, config, persist, equipment
    HIGH      wifi, cloud, modbus, protection (one per zone)
    NORMAL    thermostat, defrost, eev (one per zone), lighting
    LOW       datalogger, logger, monitor

Modules do not call each other. They talk through `SharedState`, a locked map from key to value, and
a few messages on the `ModuleManager`'s bus (safe mode, emergency close). Because equipment runs
before the modules that publish requests, it always acts on requests of the previous cycle. Other
tasks write the same map at any time: the HTTP server, the WebSocket, MQTT, Modbus, the cloud.

### Components

| component | state | operations | interacts by | what is hard | correct when |
|---|---|---|---|---|---|
| Equipment Manager (`modules/equipment`) | requests of each zone, relays, compressor timers, head pressure recovery | `on_update`: read, arbitrate, anti-short-cycle, interlocks, apply, publish; safe mode; stop/start | reads `*.req.*`, `protection.*`; drives the relays; publishes `equipment.*` | order of the rules in one cycle, timers over stops and restarts, zones sharing a compressor | minimum times kept, heater and compressor never together, a hot condenser has its fan, cooling wanted is served |
| Air temperature chain (same file) | learned offset, failover | `compute_air_temp` | publishes `equipment.air_temp` | a probe failing and coming back | no jump, no drift |
| Thermostat (`modules/thermostat`) | STARTUP, IDLE, COOLING, SAFETY_RUN, CONTINUOUS_CYCLE; request and timers | `on_update`, safe mode, restart | publishes `thermostat.req.*`; reads defrost and lockout | who interrupts whom in which state | minimum times kept, a hot room and a lost sensor served |
| Defrost (`modules/defrost`) | idle and seven phases, interval, running and ice counters, skip statistics | `on_update`, manual start and stop, restart | publishes `defrost.req.*`, `defrost.active`; reads lockout and blocks | settings changed in mid-cycle, aborts, restarts | pressure settled before gas, rests before restart, cycles bounded, defrosted again and again |
| Protection (`modules/protection`) | one monitor per alarm, compressor tracker, escalation | `on_update`, reset, restart | publishes `protection.lockout`, `compressor_blocked`, `condenser_block`, `door_comp_blocked` | timers frozen by defrost, counts over stops and resets | forced stops and lockout neither early nor missed, alarms held |
| EEV controller (`modules/eev`) and valve drivers (`drivers/eev_*`, `akv_pulse`) | seven states and a position; target, homing, saved position | `on_update`; `set_position`, `calibrate`, `emergency_close`, `update` | `eev.req.*` through the Equipment Manager; one expander byte shared with relays | emergency over homing over a move, failed I2C writes, power lost in a move | the valve is where the driver believes, closed for a stopped compressor and for liquid |
| Settings (`modesp_services`, `persist_service`) | dirty flags, debounce | callback, `on_update`, `flush_now`, restore | SharedState, NVS, the HTTP handlers that restart | two tasks flushing, crash between two steps | a setting that stays set is stored |
| SharedState and WebSocket (`modesp_core`, `ws_service`) | map, change marks, `force_full`; client list, the server's queue | `set`, broadcast, handshake, snapshot, close | every module; browsers | snapshot against delta, reused sockets, full buffers | a browser shows what SharedState holds |
| ModuleManager, watchdogs, OTA (`modesp_core`, `watchdog_service`, `ota_handler`, `main.cpp`) | heartbeats, restart counts; partitions and their marks | update, restart, upload, validate, roll back | all modules, two uploading tasks, the boot loader | a loop that watches itself; power lost in any step of an upload | only what hangs is restarted; firmware that boots and was confirmed |
| Data logger and backfill (`modules/datalogger`, `mqtt_service`) | RAM buffers, two files per stream, positions in NVS | log, flush, rotate; check, send, advance | the MQTT client's events on another task | a crash between a send and the save, deferred events out of order | no gap before the position, all of it sent |
| WiFi and the cloud services (`wifi_service`, `modesp_mqtt`, `modesp_aws`) | mode, retries, probe; connection, credentials, tenant, payload cache | events, timers, requests; connect, bootstrap, publish | the driver's events, the broker, HTTP handlers | three tasks on unlocked flags, lost commands, dead sessions | back online under the right identity, the last value in the cloud |
| Others | see "Not modelled" | | | | |

`PROJECT.json` lists 26 components with their status.

## 2. Modules

| module | models | checked by | proved in |
|---|---|---|---|
| `Equipment` | the Equipment Manager | `eq_single`, `eq_two_zone`, `eq_v_fallback` | `EquipmentProofs` |
| `Thermostat` | one thermostat instance | `th_cycle` | `ThermostatProofs` |
| `Defrost` | one defrost instance | `df_cycle` | `DefrostProofs` |
| `Protection` | one protection instance | `pr_cycle` | `ProtectionProofs` |
| `Persist` | settings from `SharedState::set` to flash | `ps_cycle` | `PersistProofs` |
| `Supervision` | main loop, module manager, watchdogs, OTA and boot | `sv_loop` | `CoreProofs` |
| `ValvePromise` | what `IValveDriver` promises (abstract) | refined in `ev_valve` | refined in `EevProofs` |
| `ValveDriver`, `Eev` | the four valve drivers; the controller and its part of `apply_outputs` | `ev_valve` | `EevProofs` |
| `Broadcast` | SharedState's change marks and WsService | `bc_view` | `CoreProofs` |
| `Backfill` | data logger and the backfill over MQTT | `bf_sync` | `MqttProofs` |
| `Wifi`, `Cloud`, `Mqtt`, `AwsIot`, `Uplink` | WiFiService; what both cloud services share; each of them; all composed | `up_link` | `MqttProofs` |

Each `*MC` module gives its component the values of the run. The control modules and the EEV run on
one task, so an `on_update` is one atomic action; its inputs (keys written by other modules or by
users at any moment) are chosen anew at each update. In the modules about tasks (`Persist`,
`Supervision`, `Broadcast`, `Backfill`, `Uplink`) one action is what runs between two points at
which another task can come in.

**Equipment.** `zoneReq` caches the requests of each zone, `req` is their aggregate (`Aggregate`,
first match wins), `compActual` and `compSince` are the module's own bookkeeping while `relay`,
`zoneRelay` and `sinceSwitch` are what the relays do. `Update` is `ReadZones`, `Aggregate`,
`Arbitrate` (priority, anti-short-cycle, fan control, interlocks), `ApplyOutputs`, `PublishState`.
`SafeMode` and `RequestEmergencyClose` are messages; `Stop` and `Reinit` are the halves of
`restart_module`; `Reboot` is the device.

**Thermostat.** The object's fields are one record `th`; `since` is the time since the request
changed. Temperatures are three regions, `cold`, `band`, `hot`, since the code compares with two
thresholds only. Night setback and display are folded into them.

**Defrost.** Phase, timer and the values cached at the start of a cycle (`type`, `maxDur`,
`endTemp`) are variables, settings are inputs that may change at every tick. `hist` measures what
the properties need: how long the compressor has been requested, how long all has been quiet, the
length of the cycle, the triggers skipped.

**Protection.** `pr` holds every monitor, the tracker (ring of starts, current run) and the
escalation (`forced`, timer, `locked`, count). `hist` holds independent measurements, taken from the
inputs and the published keys and not from the module's counters. `Units` split the module into
parts whose inputs are varied together, since the monitors share only the suppression flags and the
reset.

**Persist.** `map`, `dirty`, `timer`, `nvs` are the code's; `at`, `key`, `val` are the program
counter and locals of each task. `Set` and `Callback` are the two halves of `SharedState::set`
(under and outside the lock); `Flag`, `Read`, `Write` are one turn of the loop of `flush_to_nvs`;
`PostRestart`, `PostRestore`, `PostReset`, `StopAll`, `Reboot` are the HTTP handlers; `Crash` loses
power anywhere (restarts that flush nothing are crashes to this module); `RestartService` is the
watchdog. `faulty`, `late` and `overlap` are history.

**Supervision.** `at` walks through one turn of the main loop; `age`, `since` and `fed` are how long
ago each heartbeat, the start of `update_all` and the reset of the hardware watchdog are, and `Tick`
may come anywhere, since a driver or a module may block there. `Check` is `WatchdogService`.
`Begin`, `Write`, `Fail`, `Finish`, `Restart` are an upload, by the HTTP server's task and by the
cloud's `ota_task`; `Choice` and `Booted` are the boot loader with rollback. An image is two halves,
each with the number of the firmware it came from: a mixed one does not verify.

**ValveDriver, Eev.** One module for four drivers (`kind`), since they share most of their shape.
`pos` is what the driver believes, `valve` where the valve is, `out` and `chip` the expander's byte
and the STEP line's level, which `OtherWrite` (a relay on the same expander) puts out as well. `Eev`
goes through the three stages of a pass: drivers, Equipment Manager, controller.

**Broadcast.** `TakeDelta` is `for_each_changed_and_clear`, `SelectClients` and `SendOne` are
`send_to_all` in its two parts, `Work` is `async_send_cb` on the server's task, `Handshake`,
`TakeSnapshot`, `QueueSnapshot` the greeting of a new client. `shown` is the browser. `lost`
collects the pairs of client and key whose value the code gives up knowingly.

**Backfill.** Records are numbers. `buf`, `cur`, `old` are a stream's RAM and its two files, `pos`
and `saved` the position in RAM and in NVS; `UpdateFlush`, `UpdateCheck` and `UpdateBackfill` are the three
parts of `MqttService::on_update`, between which the broker's events come.

**Wifi, Cloud, Mqtt, AwsIot, Uplink.** `radio` is the ESP-IDF driver with its queue of events, which
the event task handles later than the main loop or the HTTP task may have changed everything.
`Cloud` has the client, its session and outbox, and delta publishing, in two steps (`PublishState`,
`StampVersion`), because the version is read after the loop. `Mqtt` adds credentials, tenant and
bootstrap, `AwsIot` the shadow. `build` says which service the firmware holds; `kind` what the one
followed key is. `Uplink` joins them where they meet: the address, the radio and restarts.

## 3. Runs

| run | distinct states | what it asks |
|---|---|---|
| `eq_single` | 71,132 | one zone, condenser readings around the three thresholds or failed, both modes of the fan, lockout and blocks, through safe mode, stop, restart, reboot: a hot condenser has its fan |
| `eq_two_zone` | 15,820 | two zones on one compressor, through stop, restart, reboot: heater interlock, minimum off and on times, and cooling wanted for good is served |
| `th_cycle` | 32,782 | thermostat under every temperature, sensor failure, defrost, lockout, continuous cycle, safe mode and restart at any tick |
| `df_cycle` | 192,608 | defrost with all types, initiations, terminations, aborts, manual commands and restarts at any tick |
| `pr_cycle` | 121,340 | escalation, temperature alarms with suppression, the other alarms, reset and restart |
| `ps_cycle` | 307,800 | two settings, two tasks that set and flush, failing flash, crashes, restart handlers |
| `sv_loop` | 374,448 | a module of each kind that may block anywhere, both watchdogs, two uploads by two tasks, power lost at any step, an initialisation that fails |
| `ev_valve` | 194,949 | the controller over each of the four drivers, with failed writes, relays on the expander, homing, stops and power losses |
| `bc_view` | 174,986 | deltas, full broadcasts, snapshots, reused sockets and dropped clients in every order of two tasks |
| `bf_sync` | 236,205 | two streams logged, flushed, rotated and sent, with failing flushes, a broker that comes and goes, crashes and restarts |
| `up_link` | 135,382 | WiFi under either cloud service with outages, power cuts, scans, new credentials, lost commands, refused logins and registrations, and requests for the full state at any moment |
| `eq_v_fallback` | violated | the interlock reads the type setting, not the type in use: a natural defrost that fell back to the heater runs beside a compressor held on |

**Bounds.** Every delay of the control modules is 1 to 4 ticks: at least 2 wherever an interruption
before the end matters, and different where two delays are compared (a minimum off time of 3 against
a minimum on time of 2). Timers stop counting at a named bound above the largest threshold compared
with (`AtMost`), which loses nothing, since the code asks only whether a threshold was reached. Two
zones are the code's maximum. Escalation needs `MaxRetries = 2` to distinguish a count from a flag.

- `Persist`: two keys are the least that lets one keep changing while the other waits and gives a
  flush a key on either side; a third task adds no step the HTTP task does not take.
- `Supervision`: timeouts keep the code's order (5 s of the hardware watchdog and of CRITICAL, then 10 s
  and more) as 2, 2, 4, 5; `Horizon` counts as far as the largest that can be reached. Two uploads
  let two tasks overlap, and let one follow the other.
- `ValveDriver`: two steps, `Interval = 2`, one failed write, one power loss: a move that is
  interrupted before, between and after its steps. `Debounce = 1` saves as soon as it may, which
  includes the most power losses with a saved position.
- `Broadcast`: two keys against one mark, and a delta that holds one, so that marks run out and a
  full broadcast is cut; two sockets for one place, opened twice, so that a number is used again;
  two sets, so that an older value may overtake a newer one.
- `Backfill`: four temperature records with files of two and a buffer of two give both files, a
  position inside each, a rotation beyond them and a full buffer; one event the order of the streams.
- `Uplink`: `Budget` counts disturbances (outages, power cuts, requests, changed values, lost
  messages), of which a request costs both units: any two small ones in any order, or one request,
  at any moment; the device's own steps are unbounded. `Threshold = 2` separates the first refusal
  from the one that bootstraps.

No symmetry is used.

**Fairness.** The control modules assume weak fairness of the update of a running module only: the
main loop never leaves its `while`, and calls `on_update` of every running module in each round. In
`Equipment` `beat` flips at each update, so that an update changes the state even when nothing else
does; nothing is assumed of safe mode, stops and restarts. Inputs are unconstrained, so liveness
properties say "from some moment on the input is ...". `Persist` assumes weak fairness for a task in
the middle of a set or a flush and for a handler about to restart, and strong fairness for
`MainUpdate`: other modules set keys on the same task between two calls of `on_update`, so it is not
continuously enabled, but each round of the loop contains one. `Supervision` assumes that time passes
and nothing of the main loop, which may hang. `Eev` has weak fairness of the pass. `Broadcast`
assumes that the main loop finishes a broadcast it began and comes to `TakeDelta` again and again
(strong, as other work comes between), and that the server's task works its queue off between
requests. `Backfill` has weak fairness of `MqttUpdate` and none for the broker. `Uplink` says it in
its own comment: every task runs, events are delivered, what the main loop can do again and again it
does (strong, since another handler may disable it in between); the cloud provisions a pending device,
and its server, asked again and again, registers a device with 200 or 201 in the end; an attempt that
the network answers succeeds some time. That the cloud asks for the full state is not assumed: it may
ask at any time, not knowing what it missed, and where `Arrives` needs that it asks again and again,
this is a premise of the property. Outages, power cuts, requests and losses have no fairness.

**Deadlock** is checked in the runs of the control modules and of `Persist`. The other models may
stop where their bounds are used up (all uploads, sets, records, disturbances), and their
configurations say `CHECK_DEADLOCK FALSE`.

**Types.** Each component has a `TypeOK`, which is a theorem for every one of them (section 5); the
configurations do not repeat it.

## 4. What holds, and where one had to look

*Safety of the relays.* `MinOffRespected` is stated on the relay (`sinceSwitch`), not on the module's
own timer, so that it would notice the two drifting apart, as a restart makes them (section 7): each
stop or reboot may cost one start that is early, or one run that is cut short, and the history
variable `restarted` says whether it has. `HeaterInterlock` likewise speaks of relays.
`EarlyStopJustified` enumerates who may cut a minimum run short. `HotCondenserFan` follows head
pressure recovery through failing sensors, lockouts, stops, restarts and changes of the mode. It is
about a condenser above all three thresholds, in whatever order these are: the manifest's ranges let
the one that ends a recovery lie above the one that starts the fan. The one step it leaves out is
that from the classic fan to the controlled one (section 7).

*Requests.* `StartRespectsMinOff` and `StopRespectsMinOn` follow timers through every interruption;
`SafetyRunServed` and `HotServedUnlessDropped` are the thermostat's purpose. `HotGasPrepared`,
`CompressorRests` and `CycleBounded` are over all ways through the phases; `HotGasPrepared` excludes
cycles a restart cut into (section 7).

*Protection.* `LockoutEscalation` compares the lockout with independently counted forced stops;
`RunLimited` and `BlockLasts` say that a forced stop is neither early, missed nor short;
`BlockEnds` that it ends.

*Settings.* `NoneForgotten` says that the unlocked dirty flags lose nothing because the flag is
cleared before the value is read. `RestartKeeps` is what the flush before the restart is for
(BUG-014), `SettingSaved` that constant changes do not starve the flush (BUG-025). All of them
except flushes that failed (a failed write is not retried, its flag being cleared) and, for the
first two, flushes of both tasks at once (an older value may overwrite a newer one).

*Supervision.* `OnlyCriticalRestarts` is a surprise worth keeping: the software watchdog can restart
only modules of CRITICAL priority, because it runs in the loop it watches and the hardware watchdog
gives that loop 5 s. The restarts of Thermostat, Defrost and Protection in their own models happen
therefore only in a device whose subscription to the hardware watchdog failed. `Bootable` holds
although two tasks may erase and write one partition at a time: an image mixed from two uploads does
not verify, and the partition that runs is never the target. `KeptIsConfirmed` and `Decided` are the
promise of the rollback; `Decided` is of firmware that reaches the main loop, also if it hangs there,
since only the loop decides (section 7 has what happens before it).

*Valve.* `Keeps` is a refinement: `Eev` implements `ValvePromise` with `position <- pos` and
`known <- calibrated`, its weak fairness of `Move` included, so a known valve gets to where it was
told under all interruptions. `Tracks` relates belief and reality: they differ by at most two steps
per failed write. `Closes` and `FloodStops` hold over homing and emergency.

*Browsers.* `Mirrored` needs the list of exceptions in `lost`; each is a place where the code gives up
a value: entries beyond the buffer of a full broadcast, a client passed over for lack of heap, a
greeting that failed, and a delta queued before an older snapshot of the same client.

*Backfill.* `NoGap` says that no record before the position is unsent, of the position in RAM and of the
one a crash would bring back. Both except a rotation under the position, by which records are lost or repeated (section 7). `CatchesUp`
depends on the order in which three flags, set by another task, are used.

*Uplink.* `Recovers` is over the unlocked flags of `WiFiService`. `TenantFollowed` rests on one
ordering, `reconnect_requested_` cleared before the client is stopped. `Settles` needs the HTTPS
bootstrap: without it a lost command or a refusal is for ever. `Arrives` says by itself what the
service sees to by itself: telemetry and the shadow of AWS, whose payload cache is cleared at each
connection, and the alarms of MQTT, which bypass it. The telemetry and the settings of MQTT arrive
if the cloud asks for the full state again and again, at moments of its own: a request that comes in the
middle of a publication must not be lost, and a value changed after it was answered must not pass for
published. Section 7 has what this leaves out.

## 5. Proofs

All are checked by TLAPS for every value of the constants, from the named assumptions of the module
(ranges of the constants unless said otherwise).

`EquipmentProofs` (from `EquipmentConstants`)
- `TypeCorrect`: `TypeOK` over the whole life cycle, restarts and reboots included. Lemmas give the
  types of each operator of the chain; `NextType` has one step per action.
- `MinOffTheorem`: the invariant is `TypeOK /\ Books`. `Books` says that `comp_actual_` is true whenever
  the relay is closed, and that, unless a stop or a reboot came before (`restarted`), it is the relay
  and `comp_since_ms_` the time since it switched. Anti-short-cycle guards the module's own variables;
  without `Books` nothing ties these to the relay.
- `EarlyStopTheorem`: the early stop is judged by the module's own timer, the property by the relay's
  time closed; `Books` makes them one.
- `HeaterTheorem`: `HeaterInterlock` under two assumptions the code does not enforce, `ElectricOnly`
  (the type setting stays electric as long as the heater is asked for) and `PlainSetup` (the number of
  zones is fixed, no head pressure control beside relays per zone). The strengthening `HeaterInv` adds
  that relays nobody drives are off.
- `FanTheorem`: `HotCondenserFan`, from no further assumption. The property is about two updates in a
  row, so what the first leaves behind has to be an invariant: `FanInv` says that under a controlled fan,
  a hot condenser and a running compressor no recovery is left over, and that a stopped module runs no
  compressor.

All four are about `LifecycleSpec`: stops, restarts by the watchdog and reboots come at any moment.

`DefrostProofs` (from `DefrostConstants`); all of it with settings that change at every tick, manual
commands, aborts and restarts in any phase
- `TypeCorrect`: one lemma, `Moves`, lists where an update can go from each phase and with what
  timer; the other theorems rest on it as well.
- `SkipTheorem`: `SkipBounded` is not inductive, because the counter that is learned (`remaining`) can be
  set while triggers are being skipped. `SkipInv`: skipped and left to skip together are within the
  limit, and a running cycle has skipped nothing.
- `CycleTheorem`: `CycleInv` gives the longest a cycle can have lasted on entering each phase (`Before`)
  and the longest the phase lasts (`Longest`); with the ticks of the phase's timer the first is kept,
  and at the end of a phase the two add up to the next one's `Before`.
- `HotGasTheorem`: `HotGasInv` says that the requests are those of the phase until a restart drops them,
  and that the compressor has been requested as long as STABILIZE has lasted, and all of it once gas
  flows. `TypeOfPhase` keeps electric and natural defrosts out of the phases of hot gas, for
  which the type cached at the start matters.
- `RestTheorem`: `RestInv` says that EQUALIZE and DRIP request nothing, and that nothing has been
  requested since they began; after DRIP the sum of the two is the rest.

`ProtectionProofs` (from `ProtectionConstants`). An update rewrites the module's record in fifteen
steps. One lemma per step says that it keeps the record in its type, what it does to the fields a
property is about, and that it leaves the others alone; `UpdateFacts` composes them.
- `TypeCorrect`: `TypeOK` with `WaitInv` (an alarm not raised has waited for less than its delay) and
  `CountInv` (a forced stop is one of a compressor not locked out, and short of the last retry).
- `HeldTheorem`: `AlarmsHeld` follows from the lemmas step by step, since no step of an update may clear
  what another one raised.
- `HighTheorem`: `HighSustained` compares the alarm's timer with an independent count of high readings.
  `HighInv`: the timer is never ahead of the count, and (`CalmInv`) the suppression after a defrost
  is over no earlier than `PostDefrost` after it.
- `EscalationTheorem`, `RunTheorem`, `BlockTheorem`: `EscalationInv` ties the tracker to what was measured
  outside: the run that goes on is the tracker's, a stop it calls normal ended a run that was one, the
  retries lie between the forced stops in a row and all of them since the reset, and a
  forced stop has been held for at least its timer. Neither half of `LockoutEscalation` is inductive without
  it: the first needs the count to be no more than the stops since the reset, the second no less
  than the stops in a row, between which the user may reset and the module restart.

`PersistProofs` (from `PersistConstants`)
- `TypeCorrect`: `TypeOK` with `DebounceRuns` (outside its flush the debounce has not run out),
  `FlushesApart` and `PlacesOK`.
- `NoneForgottenTheorem`: `NoneForgotten` is not inductive: a task about to write a stale value would
  overwrite a stored one. `StaleIsFlagged` adds that whoever changed the key meanwhile has flagged
  it or will. One lemma per kind of step.
- `RestartKeepsTheorem`: `RestartFlushes` adds that, while the restart waits for its flush, every key
  is stored, excused, or ahead of the flush with its flag set.

`EevProofs` (from `ValveConstants`, `EevConstants`)
- `TypeCorrect` and `Tracking`: `Tracks` is not inductive, for two reasons. A write that fails leaves a
  level in the byte of the expander that a later write, or a relay's, puts on the wire: the valve may
  make a step that the driver has counted long ago, or never. And homing begins with a valve that may be
  anywhere. `GapPaid` accounts for both: `Debt` is how far the wires may still move the valve, and
  belongs to the gap; `Level` is the number of steps that closes the valve whatever is on the wires, and
  homing has at least as many left, but for two per failed write. At the end of homing the second
  becomes the first. One lemma per operation of the drivers, then per stage of the pass.
- `Implements`: `Eev` implements `ValvePromise` without its fairness; `Init` maps to its `Init`, each
  step to one of its steps or to a stutter. (Its fairness is left to `ev_valve`, property `Keeps`.)

`ThermostatProofs` (from `ThermostatConstants`, in which a continuous cycle does not
end with the tick it begins in)
- `TypeCorrect`: `TypeOK`, one lemma per step of `on_update`.
- `StartTheorem`, `StopTheorem`: the code guards with its own timers `comp_on_time_ms_` and `comp_off_time_ms_`,
  the properties speak of `since`, the independent measurement. `Timed` says that these timers are
  never ahead of it. One lemma per step of `on_update` carries it through the update, in which the
  request may go off and on again; what the update as a whole may start or stop is `Starts` and `Stops`.

`MqttProofs`, backfill (from `BackfillConstants`)
- `BackfillTypes` and `NoGapTheorem`: `Fit` says of the position in RAM and of that in NVS that all
  records before it were sent and that it lies within its file, unless a rotation moved the files under
  it. That the rotation is noticed needs `Distinct`: a record of the old file is never also newer, so
  the files really differ after a rotation. The lemmas about `Fits` say what appending, rotating,
  sending and loading a position after a restart do to it.

`MqttProofs`, uplink (from `WifiAssumption`, `CloudAssumption`; the tenant from none)
- `UplinkTypes`: the types of the driver, the three tasks' flags, the session and the commands on the
  way; lemmas about the driver's operators, then one per group of actions.
- `TenantTheorem`: `TenantFollowed` is inductive once the session's fields have their types. Its lemmas
  say which steps renew the session under the tenant of now, which ask for a reconnect, and that all
  the others, of both services, of the radio and of the three tasks, leave alone what it is about.

`CoreProofs`, browsers (from `BroadcastConstants`, `NoneIsNothing`: the value for "nothing" is no message)
- `BroadcastTypes` and `MirroredTheorem`: `Mirrored` says that a message is on its way, not that it is up to
  date. `Carried` and `Greeted` add that: an entry of a delta under way, or of a snapshot taken and not
  yet queued, is the current value, or marked again, or will be overtaken by a later message.

`CoreProofs`, main loop and firmware (from `SupervisionConstants`, `OrderEnumerates`: the module list holds every module,
and `TimeoutsApart`: timeouts above CRITICAL are at least twice the hardware watchdog's)
- The invariant is `TypeOK /\ HeartbeatsFresh /\ SlotsSound`. `SupervisionTypes`, `BootableTheorem` and
  `KeptIsConfirmedTheorem` follow from it. `SlotsSound` ties partitions, marks and writers together:
  what runs is intact, and confirmed or on trial; during a trial the other partition is valid, intact
  and confirmed and nobody writes; a selected partition other than the running one is new.
- `OnlyCriticalRestartsTheorem`: `HeartbeatsFresh` bounds each heartbeat's age by how far the loop
  has come and when the hardware watchdog was fed; at the watchdog's turn that is below twice `Wdt`.

Two proof modules serve two components each, which meet in no formula: `MqttProofs` those that share
the MQTT client, `CoreProofs` those of the core. `Backfill` and `Broadcast` therefore name their `Init`,
`Next`, `Spec` and `TypeOK` after themselves, as `Wifi` and `Cloud` do.

Every safety property of the runs that hold is stated by a theorem. Only model-checked is liveness,
because fairness is ENABLED and outside this prover (`CoolingServed`, `SafetyRunServed`,
`HotServedUnlessDropped`, `DefrostServed`, `BlockEnds`, `SettingSaved`, `Decided`, `Keeps` with its
fairness, `Closes`, `FloodStops`, `Reaches`, `CatchesUp`, `Recovers`, `Settles`, `Arrives`). The proofs use neither
recursion nor induction over data.

## 6. Not modelled

- Sensor drivers and the air temperature chain: conversions, filters and averages of floating point
  values. Their result, a reading that is healthy or failed, is an input of every controller.
- HAL, driver manager and configuration: sequential work at boot that turns descriptions into tables
  and objects. Refrigerant tables: interpolation. Nothing in them depends on order or time.
- Lighting, logger, system monitor: no memory that another part depends on.
- Modbus: each request is a read or a set of one key, and as such in the models.
- `Equipment`: relays follow at once (`min_switch_ms` is 0 for every relay, `driver_manager.cpp:293`).
- `Protection`: the pressure monitors, whose inputs no module publishes.
- `Persist`: keys that are not persisted, the legacy key migration, the lock's timeout in `set` (which
  then does nothing); `RestartService` restores all keys in one step.
- `Supervision`: modules that update in no time of their own, and which key `lockout` is read by.
  Comparing headers, boards and checksums is one choice, to go on or to fail.
- `Broadcast`: authentication, commands from the browser, pings that are sent.
- `Backfill`: what makes a record, the history served over HTTP, the conversion of an old format.
- `Uplink`: Home Assistant discovery, jobs and certificates, mDNS; one key is followed at a time, and
  delays are reduced to which of them can run out while an event waits.
- The control modules are not composed into one specification: each is checked against every input
  the others could give it, which is more than they do. What only their combination could show (a
  property true because another module behaves) is not stated.
- Everything else: `PROJECT.json`.

## 7. Seen while modelling, without a run of its own

Each of these was met as a behaviour of a model; most were counterexamples of a property stated
stronger.

*Equipment.*
- Under lockout the zones' own heaters and fans stay as their zones ask: with two zones
  `equipment_module.cpp:887` drives them from the zone's cache, after `:679` cleared the outputs,
  while `equipment_module.h:18` says "Protection lockout = everything OFF".
- A restart by the watchdog opens the compressor's relay in `on_stop` without `publish_state`, so the
  timer of the object does not notice (`:302`), and the relay may close at once;
  `docs/05_cooling_defrost.md` (2.3) has a minimum off time for every start.
- One case `FanTheorem` excludes. Classic fan mode leaves an unfinished recovery standing (`:809`); when
  the mode goes back to head pressure control, a hot condenser's fan is off for one cycle before the
  recovery ends.
- The light goes off under lockout (`:679`) although `:791` says it does not depend on it. Head
  pressure recovery takes the shared defrost relay away and so the interlock's condition, while zone
  heaters stay driven (`:843`). Setting `active_zones` from 2 to 1 leaves zone 2's relays as they were
  (`:888`). The condenser fan has no hysteresis between its two thresholds, since the output is
  derived anew each cycle (`:867`). Hot gas recovery re-enters as soon as its pause ends (`:834`).

*Thermostat.*
- Safe mode, or a restart, in COOLING drops the request and keeps the state (`thermostat_module.cpp:614`,
  `:626`); COOLING waits for the room to be cold to leave it, so a hot room stays without compressor
  for ever. `HotServedUnlessDropped` is `hot is served` without this case.
- A defrost during a continuous cycle ends it with `cc_active_` still set; it neither resumes nor can
  be started until cancelled (`:307`).

*Defrost.*
- A restart in STABILIZE keeps the phase and its timer while the compressor is no longer requested
  (`defrost_module.cpp:707-716`): gas is opened without the settled pressure of
  `docs/05_cooling_defrost.md:227`.
- `req.eev_close` is published and read by no module. A trigger during a lockout starts a cycle that
  the next update aborts, and the interval starts over (`:433`). `interval_timer` is published as the
  time remaining and read back as the time elapsed (`:225`).

*Protection.*
- The clamped clock of the starts' ring makes starts older than an hour count (`protection_module.cpp:515`,
  `:530`, `:716`), against "last hour" in `protection_module.h:12`. `max_starts_hour` may be set to
  the size of the ring, and can then not be exceeded.
- The condenser's block is lifted by a failed sensor (`:958-961`; `:986` says it never clears by
  itself). `thermostat.cc_remaining` is left at its last value by a cancelled cycle, which freezes a
  forced stop. A restart publishes `lockout = false` until the next update (`:1067`). The reset does
  nothing to the escalation unless an alarm is active.

*Watchdog and OTA.*
- The safe state after too many restarts is a key that Protection overwrites one cycle later
  (`watchdog_service.cpp:108`). A module whose `on_init` fails in a restart stays in ERROR and is
  never tried again. The comment at `:47` says the error service is skipped; the code skips itself
  only. With the hardware watchdog at 5 s the timeouts of 10 s and more (`docs/03_services.md:87`)
  are never reached. No code reports the FATAL error that would publish safe mode.
- When the HAL or the drivers do not start (`main.cpp:332-341`; an I2C expander that does not answer,
  `hal.cpp:323-371`, is enough), `app_main` returns: no main loop, no watchdog on it, and no 60 s decision.
  Firmware on trial is then neither kept nor given up until power is lost, although `docs/FEATURES.md:169`
  says "if new firmware fails health check on first boot, device reverts to previous partition
  automatically". `Decided` is stated for what is watched; without that TLC finds it.
- `handle_post_ota` does not look at `s_ota_in_progress` (`http_service.cpp:1055`). Firmware uploaded
  to a device in access point mode is rolled back after a minute, since validation asks for a
  connection (`main.cpp:513`).
- A restart of PersistService restores flash over settings not yet flushed.

*Valves.*
- No code calls `calibrate()`: a stepper without a saved position refuses every `set_position`. Two
  steppers share the NVS namespace "eev_pos". A position saved before a power loss in the middle of a
  move is taken for true (`eev_pcf8574_stepper_driver.cpp:202`).
- EXERCISE sets a position that the Equipment Manager replaces by 0, the compressor being off
  (`docs/06_roadmap.md:226` describes an exercise). DEFROST ends in IDLE when sensors are invalid with
  the compressor on, and waits there for its next start (`eev_module.cpp:412`).

*Data logger.*
- A rotation replaces the old file and turns the current one into it without touching the position
  (`datalogger_module.cpp:391`): records not yet sent are dropped, or others sent again, silently.

*Network.*
- A device that was provisioned from the Kconfig password has stored no "enabled" flag; once the
  cloud's password is stored, the next power cut loads `enabled_ = false` (`mqtt_service.cpp:66`), and
  MQTT stays off, against "Power outage: reconnect with existing creds" in
  `docs/CLOUD_INTEGRATION.md:334`. TLC finds it when `Settles` is stated without `enabled`.
- `try_https_bootstrap` blocks the main loop for up to 10 s (`mqtt_service.cpp:284`), more than the
  hardware watchdog allows. The comment on `_set_mqtt_creds` mentions a fallback without code.
- MQTT keeps `last_payloads_` over a reconnect (`mqtt_service.cpp:457-500`), against its comment at `:462`
  ("Форсуємо повну публікацію") and `docs/CLOUD_INTEGRATION.md:92` ("forcing a full publish of all keys"):
  the version alone is reset, and a payload equal to the cached one is skipped. Telemetry published into
  a session that was dying therefore waits for the next change of the key, or for
  `_request_full_state`. Settings are published on that request only (`:261`), once and with QoS 0.
- The document of the AWS shadow has 2048 bytes, and the loop that fills it stops when it is nearly full
  (`aws_iot_service.cpp:513`). The writable keys of the manifests need more, so that the later ones
  (`late setting`) are never reported. The key at the cut is taken for one of these, and the document for
  whole.
- `POST /api/cloud` changes the AWS endpoint or switches the service off without touching the client.
- More changed keys than marks force a full broadcast, whose entries beyond 4096 bytes are dropped
  with their marks (`ws_service.cpp`, `broadcast_state`).
