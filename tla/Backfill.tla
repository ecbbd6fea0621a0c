------------------------------- MODULE Backfill -------------------------------
(***************************************************************************)
(* The data logger and the backfill that follows a reconnection: records   *)
(* are kept in RAM, appended to a file, rotated into a second file, and     *)
(* sent to the broker from a position saved in NVS                          *)
(* (modules/datalogger, components/modesp_mqtt).                            *)
(*                                                                         *)
(* Both modules are updated by the main loop; the broker's events come on   *)
(* the MQTT client's task, between any two of the main loop's steps.  Sent  *)
(* means handed to the MQTT client with QoS 1, whose outbox delivers it.    *)
(* The contents of a record are left out: records are numbered as logged.   *)
(***************************************************************************)
EXTENDS Naturals, Sequences

CONSTANTS
  MaxRecords,  \* per stream, how many records are ever logged: a bound
  BufferCap,   \* capacity of temp_buf_ and event_buf_
  MaxFile,     \* size in records above which a file is rotated
  Batch,       \* records sent in one message
  SaveEvery,   \* batches between two saves of the position
  MaxRestarts  \* WatchdogService::MAX_RESTARTS, for the data logger

Streams == {"temp", "event"}

ASSUME BackfillConstants ==
  /\ MaxRecords \in [Streams -> Nat] /\ MaxRestarts \in Nat
  /\ {BufferCap, MaxFile, Batch, SaveEvery} \subseteq Nat \ {0}

VARIABLES
  logged,     \* number of the last record logged, per stream
  buf,        \* temp_buf_, event_buf_
  cur,        \* temp.bin, events.bin
  old,        \* temp.old, events.old
  pos,        \* temp_sync_file_ and _offset_, event_sync_...: [file, off]
  saved,      \* the same in NVS, namespace "dlog"
  batches,    \* nvs_write_count_ % SaveEvery
  linked,  \* MqttService::connected_
  flushDue,   \* disconnect_flush_pending_
  checkDue,   \* backfill_check_pending_
  active,     \* backfill_active_
  done,       \* backfill_temp_done_, backfill_events_done_
  at,         \* where on_update of MqttService is
  restarts,   \* of the data logger by the watchdog
  sent,       \* history: records handed to the client
  moved,      \* history: files were rotated under pos
  savedMoved, \* history: the same for saved
  unflushed   \* history: the last flush failed or was partial

files == <<buf, cur, old>>
position == <<pos, saved, batches, moved, savedMoved>>
link == <<linked, flushDue, checkDue, active, done, at>>
backfillVars == <<logged, files, position, link, restarts, sent, unflushed>>

\* temp_sync_file_ is 0 for the .old file, 1 for the current one.
Position == [file : {0, 1}, off : Nat]
Start(file) == [file |-> file, off |-> 0]
Unsynced(s) == IF pos[s].file = 0 THEN old[s] ELSE cur[s]

Range(q) == {q[i] : i \in DOMAIN q}
OnFlash(s) == Range(old[s]) \cup Range(cur[s])

-----------------------------------------------------------------------------
(* The data logger                                                         *)

\* push_back, unless the buffer is full: then the record is dropped.
Pushed(q, r) == IF Len(q) < BufferCap THEN Append(q, r) ELSE q

\* A sample is due, or poll_events sees an edge.
Log(s) ==
  /\ logged[s] < MaxRecords[s]
  /\ logged' = [logged EXCEPT ![s] = @ + 1]
  /\ buf' = [buf EXCEPT ![s] = Pushed(@, logged'[s])]
  /\ UNCHANGED <<cur, old, position, link, restarts, sent, unflushed>>

\* How many records fwrite may append; on a full disk not all of them.  The
\* buffer is cleared all the same; it is kept when fopen fails.
Appended(s) == {n \in 0..Len(buf[s]) : n > 0 \/ cur[s] # <<>>}

\* Rotating leaves a position where it was, wherever its records go.
RotatesUnder(p) == p # Start(0)

Waiting == {s \in Streams : buf[s] # <<>>}
Left(opened) == [s \in Streams |-> IF s \in opened THEN <<>> ELSE buf[s]]

\* flush_to_flash, with rotate_if_needed, for the streams that have records and
\* whose files open; Left(opened) is then in RAM.
Flush(opened) ==
  \E wrote \in [Streams -> 0..BufferCap] :
    LET file(s) == cur[s] \o SubSeq(buf[s], 1, wrote[s])
        turned == {s \in opened : Len(file(s)) > MaxFile}
    IN /\ \A s \in Streams : IF s \in opened THEN wrote[s] \in Appended(s) ELSE wrote[s] = 0
       /\ old' = [s \in Streams |-> IF s \in turned THEN file(s) ELSE old[s]]
       /\ cur' = [s \in Streams |-> CASE s \in turned -> <<>>
                                      [] s \in opened \ turned -> file(s)
                                      [] OTHER -> cur[s]]
       /\ unflushed' = \E s \in Waiting : wrote[s] < Len(buf[s])

\* Which positions the files have been rotated under, if they were m before.
MovedUnder(p, m) ==
  [s \in Streams |-> m[s] \/ (old'[s] # old[s] /\ RotatesUnder(p[s]))]

FlushInPlace ==
  \E opened \in SUBSET Waiting :
    /\ Flush(opened) /\ buf' = Left(opened)
    /\ UNCHANGED <<pos, saved>>
    /\ moved' = MovedUnder(pos, moved) /\ savedMoved' = MovedUnder(saved, savedMoved)

\* on_update, every FLUSH_INTERVAL_MS.
FlushTimer ==
  /\ Waiting # {}
  /\ FlushInPlace
  /\ UNCHANGED <<logged, batches, link, sent, restarts>>

\* load_sync_pos: a position past the end of its file starts over.
PastEnd(s, p) ==
  LET q == IF p.file = 0 THEN old'[s] ELSE cur'[s] IN q = <<>> \/ p.off > Len(q)
Reloaded(s, p) == IF PastEnd(s, p) THEN Start(IF old'[s] # <<>> THEN 0 ELSE 1) ELSE p

\* on_init: the saved position and the POWER_ON event, over what RAM holds.
OnInit(ram, p, m) ==
  /\ pos' = [s \in Streams |-> Reloaded(s, p[s])]
  /\ moved' = [s \in Streams |-> m[s] /\ ~PastEnd(s, p[s])]
  /\ IF logged["event"] < MaxRecords["event"]
       THEN /\ logged' = [logged EXCEPT !["event"] = @ + 1]
            /\ buf' = [ram EXCEPT !["event"] = Pushed(@, logged'["event"])]
       ELSE logged' = logged /\ buf' = ram

\* The MQTT service as it boots.
LinkBoots ==
  /\ linked' = FALSE /\ flushDue' = FALSE /\ checkDue' = FALSE /\ active' = FALSE
  /\ done' = [s \in Streams |-> FALSE] /\ at' = "idle"

Empty == [s \in Streams |-> <<>>]

\* Power is lost, or the device restarts without stopping its modules: RAM is
\* lost, the files and the saved position are not.
Crash ==
  /\ UNCHANGED <<cur, old, saved, savedMoved, sent, unflushed>>
  /\ OnInit(Empty, saved, savedMoved)
  /\ batches' = 0 /\ restarts' = 0 /\ LinkBoots

\* on_stop: a last flush, and the position is saved.
OnStop(opened) ==
  /\ Flush(opened)
  /\ saved' = pos /\ savedMoved' = MovedUnder(pos, moved)
  /\ UNCHANGED sent

\* The watchdog restarts the data logger: what the flush left stays in RAM.
RestartModule ==
  /\ at = "idle"
  /\ \E opened \in SUBSET Waiting : OnStop(opened) /\ OnInit(Left(opened), pos, savedMoved')
  /\ restarts < MaxRestarts /\ restarts' = restarts + 1
  /\ UNCHANGED <<batches, link>>

\* The device is restarted by a handler that stops its modules first.
Reboot ==
  /\ at = "idle"
  /\ \E opened \in SUBSET Waiting : OnStop(opened) /\ OnInit(Empty, pos, savedMoved')
  /\ batches' = 0 /\ restarts' = 0 /\ LinkBoots

-----------------------------------------------------------------------------
(* The broker's events, on the MQTT client's task                          *)

\* A connection comes only after on_update has asked for one, which it does not
\* do, nor anything else, while it is not connected: at is "idle".
OnConnected ==
  /\ ~linked /\ at = "idle"
  /\ linked' = TRUE /\ checkDue' = TRUE
  /\ UNCHANGED <<logged, files, position, flushDue, active, done, at, sent, unflushed, restarts>>

OnDisconnected ==
  /\ linked
  /\ linked' = FALSE /\ active' = FALSE /\ flushDue' = TRUE
  /\ UNCHANGED <<logged, files, position, checkDue, done, at, sent, unflushed, restarts>>

\* reconnect_requested_: on_update stops the client, and starts another.
StopClient ==
  /\ linked /\ at = "idle"
  /\ linked' = FALSE
  /\ UNCHANGED <<logged, files, position, flushDue, checkDue, active, done, at, sent, unflushed, restarts>>

-----------------------------------------------------------------------------
(* on_update of MqttService, every PUBLISH_INTERVAL_MS while connected      *)

\* The deferred flush of what was logged while offline.
UpdateFlush ==
  /\ at = "idle" /\ linked
  /\ at' = "check" /\ flushDue' = FALSE
  /\ IF flushDue /\ Waiting # {}
       THEN FlushInPlace
       ELSE UNCHANGED <<files, pos, saved, moved, savedMoved, unflushed>>
  /\ UNCHANGED <<logged, batches, linked, checkDue, active, done, sent, restarts>>

\* get_unsync_temp_count, get_unsync_event_count.
Unsent(s) ==
  IF pos[s].file = 0
    THEN (IF Len(old[s]) > pos[s].off THEN Len(old[s]) - pos[s].off ELSE 0) + Len(cur[s])
    ELSE IF Len(cur[s]) > pos[s].off THEN Len(cur[s]) - pos[s].off ELSE 0

\* Mutant of UpdateCheck: the flags of the last backfill stay.
UpdateCheckStale ==
  /\ at = "check"
  /\ at' = "publish" /\ checkDue' = FALSE
  /\ active' = (active \/ (checkDue /\ \E s \in Streams : Unsent(s) > 0))
  /\ UNCHANGED <<logged, files, position, linked, flushDue, done, sent, unflushed, restarts>>

\* The deferred check after a connection: is there anything to send?
UpdateCheck ==
  /\ at = "check"
  /\ at' = "publish" /\ checkDue' = FALSE
  /\ IF checkDue /\ \E s \in Streams : Unsent(s) > 0
       THEN active' = TRUE /\ done' = [s \in Streams |-> FALSE]
       ELSE UNCHANGED <<active, done>>
  /\ UNCHANGED <<logged, files, position, linked, flushDue, sent, unflushed, restarts>>

\* read_unsync_temp, read_unsync_events: the next records of the file.
NextBatch(s) ==
  LET q == Unsynced(s)
      last == IF pos[s].off + Batch < Len(q) THEN pos[s].off + Batch ELSE Len(q)
  IN SubSeq(q, pos[s].off + 1, last)

\* Mutant of Advanced: the offset is kept when the file changes.
AdvancedKeepsOffset(s, n) ==
  LET off == pos[s].off + n
  IN IF pos[s].file = 0 /\ off >= Len(old[s]) THEN [file |-> 1, off |-> off]
                                             ELSE [pos[s] EXCEPT !.off = off]

\* advance_temp_sync, advance_event_sync: at the end of .old, the current file.
Advanced(s, n) ==
  LET off == pos[s].off + n
  IN IF pos[s].file = 0 /\ off >= Len(old[s]) THEN Start(1)
                                             ELSE [pos[s] EXCEPT !.off = off]

\* A batch is handed over and the position moves past it, and is saved with
\* every SaveEvery-th batch.
SendBatch(s) ==
  /\ sent' = [sent EXCEPT ![s] = @ \cup Range(NextBatch(s))]
  /\ pos' = [pos EXCEPT ![s] = Advanced(s, Len(NextBatch(s)))]
  /\ batches' = (batches + 1) % SaveEvery
  /\ IF batches' = 0 THEN saved' = pos' /\ savedMoved' = moved ELSE UNCHANGED <<saved, savedMoved>>
  /\ UNCHANGED <<active, done>>

\* A stream has no more; after the last one the position is saved.
StreamDone(s) ==
  /\ done' = [done EXCEPT ![s] = TRUE]
  /\ IF \A o \in Streams : done'[o]
       THEN active' = FALSE /\ saved' = pos /\ savedMoved' = moved
       ELSE UNCHANGED <<active, saved, savedMoved>>
  /\ UNCHANGED <<pos, batches, sent>>

\* publish_backfill: the temperatures first, then the events.
PublishBackfill(s) ==
  /\ at = "publish" /\ active /\ linked
  /\ at' = "idle"
  /\ ~done[s] /\ (s = "event" => done["temp"])
  /\ IF NextBatch(s) # <<>> THEN SendBatch(s) ELSE StreamDone(s)
  /\ UNCHANGED <<logged, files, moved, linked, flushDue, checkDue, unflushed, restarts>>

\* Nothing to publish, or the connection was lost meanwhile.
NoBackfill ==
  /\ at = "publish" /\ ~(active /\ linked)
  /\ at' = "idle" /\ active' = FALSE
  /\ UNCHANGED <<logged, files, position, linked, flushDue, checkDue, done, sent, unflushed, restarts>>

UpdateBackfill == NoBackfill \/ \E s \in Streams : PublishBackfill(s)

-----------------------------------------------------------------------------
BackfillInit ==
  /\ logged = [s \in Streams |-> 0]
  /\ buf = [s \in Streams |-> <<>>] /\ cur = buf /\ old = buf
  /\ pos = [s \in Streams |-> Start(1)] /\ saved = pos /\ batches = 0
  /\ linked = FALSE /\ flushDue = FALSE /\ checkDue = FALSE /\ active = FALSE
  /\ done = [s \in Streams |-> FALSE] /\ at = "idle" /\ restarts = 0
  /\ sent = [s \in Streams |-> {}]
  /\ moved = [s \in Streams |-> FALSE] /\ savedMoved = moved /\ unflushed = FALSE

MqttUpdate == UpdateFlush \/ UpdateCheck \/ UpdateBackfill

BackfillNext ==
  \/ \E s \in Streams : Log(s)
  \/ FlushTimer \/ Crash \/ Reboot \/ RestartModule
  \/ OnConnected \/ OnDisconnected \/ StopClient
  \/ MqttUpdate

BackfillSpec == BackfillInit /\ [][BackfillNext]_backfillVars

\* The main loop goes on updating; the broker may come and go.
BackfillLiveSpec == BackfillSpec /\ WF_backfillVars(MqttUpdate)

-----------------------------------------------------------------------------
(* Properties                                                              *)

\* The position is a place in its stream's files, and nothing is sent that was
\* not logged.
BackfillTypeOK ==
  /\ \A s \in Streams : /\ pos[s] \in Position /\ saved[s] \in Position
                        /\ sent[s] \cup OnFlash(s) \subseteq 1..logged[s]
                        /\ Len(buf[s]) <= BufferCap
  /\ batches \in 0..SaveEvery - 1 /\ at \in {"idle", "check", "publish"} /\ restarts \in 0..MaxRestarts

\* The records on flash that lie before position p.
Before(s, p) ==
  IF p.file = 0 THEN {old[s][i] : i \in 1..p.off \cap DOMAIN old[s]}
  ELSE Range(old[s]) \cup {cur[s][i] : i \in 1..p.off \cap DOMAIN cur[s]}

\* The backfill leaves no gap (datalogger_module.cpp, advance_temp_sync and
\* load_sync_pos): what lies before the position, the one in use and the one a
\* crash would bring back, has been sent, unless the files were rotated under
\* it.
NoGap ==
  \A s \in Streams : /\ moved[s] \/ Before(s, pos[s]) \subseteq sent[s]
                     /\ savedMoved[s] \/ Before(s, saved[s]) \subseteq sent[s]

\* A connection that lasts brings over all that was on flash, or in RAM to be
\* flushed, when it came up: the flush comes before the check, and the check
\* before the sending.  Excused are a failed flush and records that a second
\* rotation has removed.
CatchesUp ==
  \A s \in Streams : \A r \in 1..MaxRecords[s] :
    (checkDue /\ linked /\ ~moved[s]
       /\ (r \in OnFlash(s) \/ (flushDue /\ r \in Range(buf[s]))))
    ~> (r \in sent[s] \/ ~linked \/ moved[s] \/ unflushed
          \/ r \notin OnFlash(s) \cup Range(buf[s]))

====
