------------------------------ MODULE Supervision ------------------------------
(***************************************************************************)
(* What keeps the device going: the main loop and the module manager, the   *)
(* two watchdogs, and firmware updates with their rollback (main/main.cpp,   *)
(* components/modesp_core, watchdog_service.cpp, ota_handler.cpp, and the     *)
(* OTA handler of http_service.cpp).                                         *)
(*                                                                         *)
(* Time passes in units of Tick, anywhere in the main loop: a driver or a    *)
(* module may block.  The firmware is uploaded by two tasks, the HTTP        *)
(* server's and ota_http, each a writer here; flash partitions and the boot   *)
(* loader are ESP-IDF's, with rollback enabled as in sdkconfig.              *)
(***************************************************************************)
EXTENDS Naturals, Sequences

CONSTANTS
  Modules,     \* the registered modules
  Order,       \* modules_ as sorted when the main loop starts
  Priority,    \* of each module, 0 is CRITICAL
  Timeout,     \* WatchdogService::timeouts, per priority
  CanFail,     \* modules whose on_init may return false
  MaxRestarts, \* MAX_RESTARTS
  Wdt,         \* MODESP_WDT_TIMEOUT_MS
  Subscribed,  \* wdt_subscribed: the loop goes on without when that fails
  Horizon,     \* ages are counted up to here: a bound
  Writers,     \* tasks that upload firmware
  MaxUploads   \* a bound

CRITICAL == 0
HIGH == 1
Watchdog == "watchdog"
Protection == "protection"

ASSUME SupervisionConstants ==
  /\ {MaxRestarts, Wdt, Horizon, MaxUploads} \subseteq Nat \ {0}
  /\ Subscribed \in BOOLEAN /\ Priority \in [Modules -> 0..3] /\ Timeout \in [0..3 -> Nat]
  /\ {Watchdog, Protection} \subseteq Modules /\ CanFail \subseteq Modules

ASSUME OrderEnumerates ==
  /\ Order \in Seq(Modules)
  /\ \A m \in Modules : \E i \in 1..Len(Order) : Order[i] = m

\* 5 s twice over is not yet the 10 s of HIGH, nor the more of NORMAL and LOW.
ASSUME TimeoutsApart ==
  /\ Horizon >= 2 * Wdt
  /\ \A m \in Modules : Priority[m] # CRITICAL => Timeout[Priority[m]] >= 2 * Wdt

VARIABLES
  at,         \* the main loop: 0 drivers, i module Order[i], the tail; or Halted
  status,     \* state_ of each module
  age,        \* how long ago last_update_ms_ of each module is
  since,      \* how long ago update_all began
  fed,        \* how long ago the hardware watchdog was reset
  restarts,   \* restart_counts_: count, with one more for reported
  lockout,    \* the key protection.lockout
  running,    \* the partition the running firmware was booted from
  selected,   \* the partition selected for boot
  image,      \* what each partition holds: two halves of a firmware
  mark,       \* the state of each partition in otadata
  pending,    \* ota_pending_verify
  late,       \* uptime_sec() > 60
  writer,     \* per task: where its upload is, and which firmware
  uploads,    \* uploads begun, which numbers the firmware
  confirmed   \* history: firmware that ran with the network up

loop == <<at, since, fed>>
modules == <<status, age, restarts, lockout>>
flash == <<selected, image, mark, confirmed, uploads>>
session == <<running, pending, late, writer>>
vars == <<loop, modules, flash, session>>

Slots == {0, 1}
Factory == [half \in {1, 2} |-> 0]
Intact(s) == image[s][1] = image[s][2]
End == Len(Order) + 1
Halted == End + 1

\* The hardware watchdog watches the main loop.
Watched == Subscribed /\ at # Halted
Idle == [at |-> "idle", fw |-> 0, halves |-> 0]

\* sort_by_priority: not stable, as it swaps places i and j.
Swapped(q, i, j) ==
  IF i < j /\ Priority[q[j]] < Priority[q[i]]
    THEN [q EXCEPT ![i] = q[j], ![j] = q[i]] ELSE q
Sorted(q) ==
  LET n == Len(q)
      after[p \in 0..n * n] ==
        IF p = 0 THEN q ELSE Swapped(after[p - 1], ((p - 1) \div n) + 1, ((p - 1) % n) + 1)
  IN after[n * n]

-----------------------------------------------------------------------------
(* Boot                                                                    *)

Usable(s, marks) == marks[s] \in {"valid", "new"} /\ Intact(s)

\* The boot loader: firmware that was not validated is given up, and the
\* selected partition is booted if it can be, else the other one.
Aborted == [s \in Slots |-> IF mark[s] = "pending" THEN "aborted" ELSE mark[s]]
Choice(marks) == IF Usable(selected, marks) THEN selected ELSE 1 - selected

\* app_main up to the main loop: a module whose on_init fails stays in ERROR, but
\* when the core, the HAL or the drivers fail it returns, for good: no module is
\* updated, no server started, and the hardware watchdog not yet subscribed to.
Booted ==
  LET s == Choice(Aborted)
  IN /\ running' = s /\ selected' = s
     /\ mark' = [Aborted EXCEPT ![s] = IF @ = "new" THEN "pending" ELSE @]
     /\ pending' = (mark'[s] = "pending") /\ late' = FALSE
     /\ writer' = [w \in Writers |-> Idle]
     /\ \E failed \in SUBSET CanFail :
          status' = [m \in Modules |-> IF m \in failed THEN "ERROR" ELSE "RUNNING"]
     /\ age' = [m \in Modules |-> 0] /\ since' = 0 /\ fed' = 0
     /\ at' \in {0, Halted}
     /\ restarts' = [m \in Modules |-> 0] /\ lockout' = FALSE
     /\ UNCHANGED image

\* Loss of power, a panic, or esp_restart of another service.
Reboot == Booted /\ UNCHANGED <<confirmed, uploads>>

-----------------------------------------------------------------------------
(* Time                                                                    *)

Older(n) == IF n < Horizon THEN n + 1 ELSE n

\* Time passes; the hardware watchdog panics when it was not reset for Wdt.
Tick ==
  /\ ~(Watched /\ fed + 1 >= Wdt)
  /\ age' = [m \in Modules |-> Older(age[m])]
  /\ since' = Older(since) /\ fed' = Older(fed)
  /\ UNCHANGED <<at, status, restarts, lockout, flash, session>>

Panic ==
  /\ Watched /\ fed + 1 >= Wdt
  /\ Reboot

Minute ==
  /\ ~late /\ late' = TRUE
  /\ UNCHANGED <<loop, modules, flash, running, pending, writer>>

-----------------------------------------------------------------------------
(* The main loop                                                           *)

\* driver_manager.update_all, then update_all takes the time.
Drivers ==
  /\ at = 0 /\ at' = 1 /\ since' = 0
  /\ UNCHANGED <<fed, modules, flash, session>>

Late(m) == status[m] = "RUNNING" /\ age[m] >= Timeout[Priority[m]]

\* WatchdogService::on_update looks at every running module but itself, once a
\* second.  restart_module: on_stop, on_init; one that fails stays in ERROR.
Due == {m \in Modules \ {Watchdog} : Late(m)}
Again == {m \in Due : restarts[m] < MaxRestarts}
Beyond == {m \in Due : restarts[m] = MaxRestarts /\ Priority[m] \in {CRITICAL, HIGH}}

Check ==
  \E failed \in SUBSET (Again \cap CanFail) :
    /\ restarts' = [m \in Modules |-> IF m \in Due /\ restarts[m] <= MaxRestarts
                                        THEN restarts[m] + 1 ELSE restarts[m]]
    /\ status' = [m \in Modules |-> IF m \in failed THEN "ERROR" ELSE status[m]]
    /\ age' = [m \in Modules |-> IF m \in Again THEN 0
                                 ELSE IF m = Watchdog THEN since ELSE age[m]]
    /\ lockout' = (lockout \/ Beyond # {})

\* Mutant of Updates: modules that did nothing keep their heartbeat.
UpdatesUnstamped(m) ==
  /\ age' \in {age, [age EXCEPT ![m] = since]}
  /\ lockout' = (lockout /\ m # Protection)
  /\ UNCHANGED <<status, restarts>>

\* update_all, for one module: on_update, then its heartbeat, which is the time
\* update_all began.  Protection publishes its own lockout, here always FALSE.
Updates(m) ==
  /\ age' = [age EXCEPT ![m] = since]
  /\ lockout' = (lockout /\ m # Protection)
  /\ UNCHANGED <<status, restarts>>

UpdateModule ==
  /\ at \in 1..Len(Order) /\ at' = at + 1
  /\ LET m == Order[at]
     IN \/ status[m] = "RUNNING" /\ m = Watchdog /\ Check
        \/ status[m] = "RUNNING" /\ Updates(m)
        \/ status[m] # "RUNNING" /\ UNCHANGED modules
  /\ UNCHANGED <<since, fed, flash, session>>

\* Mutant of Validates: the firmware is valid as soon as it runs.
ValidatesHasty(net) == pending

\* New firmware is validated once the network is up, ...
Validates(net) == pending /\ net

\* Mutant of TimesOut: the firmware may take its time.
TimesOutNever(net) == FALSE

\* ... and given up after a minute.
TimesOut(net) == pending /\ ~net /\ late

\* The rest of the loop, up to the reset of the hardware watchdog.
LoopTail ==
  /\ at = End
  /\ \E net \in BOOLEAN :
       /\ ~TimesOut(net)
       /\ pending' = (pending /\ ~Validates(net))
       /\ mark' = IF Validates(net) THEN [mark EXCEPT ![running] = "valid"] ELSE mark
       /\ confirmed' = IF net THEN confirmed \cup {image[running][1]} ELSE confirmed
  /\ at' = 0 /\ fed' = 0
  /\ UNCHANGED <<since, modules, selected, image, uploads, running, late, writer>>

GiveUp ==
  /\ at = End /\ \E net \in BOOLEAN : TimesOut(net)
  /\ Reboot

MainLoop == Drivers \/ UpdateModule \/ LoopTail

-----------------------------------------------------------------------------
(* Uploads                                                                 *)

\* Mutant of Target: the partition that is not selected for boot.
TargetUnselected == 1 - selected

\* esp_ota_get_next_update_partition.
Target == 1 - running

\* handle_post_ota; start_ota, whose flag keeps a second ota_task away but not
\* the server's upload.  esp_ota_begin refuses while the running firmware is
\* not validated.
Begin(w) ==
  /\ at # Halted /\ writer[w] = Idle /\ mark[running] # "pending"
  /\ uploads < MaxUploads /\ uploads' = uploads + 1
  /\ writer' = [writer EXCEPT ![w] = [at |-> "uploads", fw |-> uploads', halves |-> 0]]
  /\ UNCHANGED <<loop, modules, selected, image, mark, confirmed, running, pending, late>>

Uploading(w) == writer[w].at = "uploads"

\* A part is received, checked and written, which erases what was there.
Write(w) ==
  /\ Uploading(w) /\ writer[w].halves < 2
  /\ writer' = [writer EXCEPT ![w].halves = @ + 1]
  /\ image' = [image EXCEPT ![Target][writer[w].halves + 1] = writer[w].fw]
  /\ UNCHANGED <<loop, modules, selected, mark, confirmed, uploads, running, pending, late>>

\* Any error on the way, from the connection to the checksum.
Fail(w) ==
  /\ Uploading(w)
  /\ writer' = [writer EXCEPT ![w] = Idle]
  /\ UNCHANGED <<loop, modules, flash, running, pending, late>>

\* stop_all: the running modules are stopped, and update_all passes them over.
Stopped == [m \in Modules |-> IF status[m] = "RUNNING" THEN "STOPPED" ELSE status[m]]

\* esp_ota_end and esp_ota_set_boot_partition, which both verify the image; the
\* server then stops all modules.
Finish(w) ==
  /\ Uploading(w) /\ writer[w].halves = 2 /\ Intact(Target)
  /\ selected' = Target /\ mark' = [mark EXCEPT ![Target] = "new"]
  /\ writer' = [writer EXCEPT ![w].at = "restarts"]
  /\ status' = IF w = "http" THEN Stopped ELSE status
  /\ UNCHANGED <<loop, age, restarts, lockout, image, confirmed, uploads, running, pending, late>>

\* esp_restart, one or two seconds later.
Restart(w) == writer[w].at = "restarts" /\ Reboot

-----------------------------------------------------------------------------
Init ==
  /\ at \in {0, Halted} /\ since = 0 /\ fed = 0
  /\ status \in [Modules -> {"RUNNING", "ERROR"}]
  /\ \A m \in Modules : status[m] = "ERROR" => m \in CanFail
  /\ age = [m \in Modules |-> 0] /\ restarts = age /\ lockout = FALSE
  /\ running = 0 /\ selected = 0 /\ image = [s \in Slots |-> Factory]
  /\ mark = [s \in Slots |-> "valid"] /\ pending = FALSE /\ late = FALSE
  /\ writer = [w \in Writers |-> Idle] /\ uploads = 0 /\ confirmed = {}

Next ==
  \/ MainLoop \/ GiveUp
  \/ Tick \/ Panic \/ Minute \/ Reboot
  \/ \E w \in Writers : Begin(w) \/ Write(w) \/ Fail(w) \/ Finish(w) \/ Restart(w)

Spec == Init /\ [][Next]_vars

\* Time passes; nothing is said of the main loop, which may hang.
LiveSpec == Spec /\ WF_vars(Tick \/ Panic) /\ WF_vars(Minute)

-----------------------------------------------------------------------------
(* Properties                                                              *)

\* Every module and every partition is in one of its states, and the firmware is
\* to be validated if its partition says so.
TypeOK ==
  /\ at \in 0..Halted /\ since \in Nat /\ fed \in Nat
  /\ status \in [Modules -> {"RUNNING", "STOPPED", "ERROR"}]
  /\ age \in [Modules -> Nat] /\ restarts \in [Modules -> Nat]
  /\ running \in Slots /\ selected \in Slots
  /\ image \in [Slots -> [{1, 2} -> Nat]] /\ uploads \in Nat
  /\ mark \in [Slots -> {"valid", "new", "pending", "aborted"}]
  /\ pending = (mark[running] = "pending")
  /\ writer \in [Writers -> [at : {"idle", "uploads", "restarts"}, fw : Nat, halves : 0..2]]

\* watchdog_service.h gives modules of every priority a timeout.  While the
\* hardware watchdog watches the main loop, which runs them all, only modules of
\* CRITICAL priority can ever reach theirs: whichever module or driver blocks,
\* the device restarts first.
OnlyCriticalRestarts ==
  [][\A m \in Modules : Subscribed /\ restarts'[m] > restarts[m] => Priority[m] = CRITICAL]_vars

\* Whatever is uploaded, by one task or by two at once, and whenever power is
\* lost, the boot loader finds firmware it can boot.
Bootable == Usable(Choice(Aborted), Aborted)

\* FEATURES.md: "if new firmware fails health check on first boot, device reverts
\* to previous partition": firmware that stays has run with the network up.
KeptIsConfirmed == ~pending => image[running][1] \in confirmed \cup {0}

\* New firmware that reaches the main loop is validated or given up, even when it
\* hangs it: the hardware watchdog's restart gives it up too.  (Firmware that ends
\* in app_main stays pending until power is lost, and is given up then.)
Decided == (pending /\ Watched) ~> ~pending
================================================================================
