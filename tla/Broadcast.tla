------------------------------- MODULE Broadcast -------------------------------
(***************************************************************************)
(* How the browsers follow SharedState: the change tracking of             *)
(* SharedState::set, the deltas the main loop broadcasts, and the snapshot   *)
(* a new client is sent (components/modesp_core, components/modesp_net).     *)
(*                                                                         *)
(* Two tasks: the main loop, which takes the changed keys and hands a        *)
(* message for each client to the server's work queue; and the HTTP          *)
(* server's, which serves handshakes and works the queue off, in order.      *)
(* SharedState is set by any task, between any two steps.  Keys set with     *)
(* track_change = false (timers, heap figures) are not in Keys: only a       *)
(* snapshot or a full broadcast shows them.                                  *)
(***************************************************************************)
EXTENDS Naturals, Sequences, FiniteSets

CONSTANTS
  Keys, Values,
  Boot,        \* what SharedState holds when the server starts
  Fds,         \* socket numbers: one is used again after its session ends
  MaxClients,  \* MAX_WS_CLIENTS
  MaxChanged,  \* capacity of changed_keys_, 32
  DeltaMax,    \* entries that fit broadcast_state's buffer of 4096 bytes
  QueueMax,    \* work items the server's control socket holds
  None,
  MaxSets, MaxOpens  \* bounds

ASSUME BroadcastConstants ==
  /\ {MaxClients, MaxChanged, DeltaMax, QueueMax, MaxSets, MaxOpens} \subseteq Nat \ {0}
  /\ MaxChanged <= DeltaMax
  /\ Boot \in [Keys -> Values]

\* A message's content: values of some keys.
Data == UNION {[S -> Values] : S \in SUBSET Keys}

ASSUME NoneIsNothing ==
  /\ \A d \in Data : d # None
  /\ \A S \in SUBSET Fds : S # None
  /\ None \notin [data : Data, to : {None} \cup SUBSET Fds]
  /\ None \notin [fd : Fds, data : {None} \cup Data]

VARIABLES
  map,        \* map_ of SharedState
  changed,    \* changed_keys_
  forceFull,  \* force_full_
  clients,    \* client_fds_
  sessions,   \* descriptors the server knows as WebSockets
  queue,      \* the server's work queue: AsyncSendCtx, fd and data
  greet,      \* the handshake in ws_handler: the client, and its snapshot
  out,        \* send_to_all: the message, and the clients it is still to go to
  shown,      \* what each browser shows: a function of the keys received
  lost,       \* history: fd and key whose value may not reach the client
  sets, opens \* counted for the bounds

state == <<map, changed, forceFull>>
server == <<sessions, queue, greet, shown>>
broadcastVars == <<state, clients, server, out, lost, sets, opens>>

Empty == [k \in {} |-> None]
Overlay(f, g) == [k \in DOMAIN f \cup DOMAIN g |-> IF k \in DOMAIN g THEN g[k] ELSE f[k]]
Pick(f, S) == [k \in S |-> f[k]]

-----------------------------------------------------------------------------
(* SharedState                                                             *)

\* Mutant of Track: a key that finds no room is forgotten.
TrackUnforced(k) ==
  /\ changed' = IF Cardinality(changed) < MaxChanged THEN changed \cup {k} ELSE changed
  /\ UNCHANGED forceFull

\* The key joins changed_keys_, or the next broadcast is a full one.
Track(k) ==
  IF k \in changed \/ Cardinality(changed) < MaxChanged
    THEN changed' = changed \cup {k} /\ UNCHANGED forceFull
    ELSE forceFull' = TRUE /\ UNCHANGED changed

\* set, when the lock is free.  A value that stays the same marks nothing.
Set(k, v) ==
  /\ sets < MaxSets /\ sets' = sets + 1
  /\ map[k] # v
  /\ map' = [map EXCEPT ![k] = v]
  /\ Track(k)
  /\ UNCHANGED <<clients, server, out, lost, opens>>

HasChanges == changed # {} \/ forceFull

\* for_each_changed_and_clear into broadcast_state's buffer: in a full
\* broadcast the entries that do not fit are left out.
Taken ==
  IF forceFull
    THEN {S \in SUBSET Keys : Cardinality(S) = DeltaMax \/ (S = Keys /\ Cardinality(S) < DeltaMax)}
    ELSE {changed}

-----------------------------------------------------------------------------
(* WsService::on_update, on the main loop                                  *)

Live == {fd \in clients : fd \in sessions}

\* broadcast_state: the changed keys are taken, and their marks cleared.
TakeDelta ==
  /\ out = None /\ HasChanges
  /\ \E S \in Taken :
       /\ out' = [data |-> Pick(map, S), to |-> None]
       /\ lost' = lost \cup (IF forceFull THEN Fds \X (Keys \ S) ELSE {})
  /\ changed' = {} /\ forceFull' = FALSE
  /\ UNCHANGED <<map, clients, server, sets, opens>>

\* The heartbeat: dead clients are removed, and those whose ping finds no memory
\* or no room.  A ping that is sent carries nothing, and is left out.
Heartbeat ==
  /\ out = None
  /\ clients' \in SUBSET Live
  /\ UNCHANGED <<state, server, out, lost, sets, opens>>

\* send_to_all: whom to send to.
SelectClients ==
  /\ out # None /\ out.to = None
  /\ clients' = Live
  /\ out' = IF Live = {} THEN None ELSE [out EXCEPT !.to = Live]
  /\ UNCHANGED <<state, server, lost, sets, opens>>

\* Less than 8 KB of heap: this client is passed over.
SkipOne(fd) ==
  /\ lost' = lost \cup ({fd} \X DOMAIN out.data)
  /\ UNCHANGED <<clients, queue>>

\* No memory, or the queue is full: the client is removed, its session stays.
DropOne(fd) ==
  /\ clients' = clients \ {fd}
  /\ UNCHANGED <<queue, lost>>

\* A snapshot of this client taken before, queued after, will undo what this
\* message brings; else what was lost of these keys is made good.
QueueOne(fd) ==
  /\ Len(queue) < QueueMax
  /\ queue' = Append(queue, [fd |-> fd, data |-> out.data])
  /\ lost' = IF greet # None /\ greet.fd = fd /\ greet.data # None
               THEN lost \cup ({fd} \X DOMAIN out.data)
               ELSE lost \ ({fd} \X DOMAIN out.data)
  /\ UNCHANGED clients

SendOne ==
  /\ out # None /\ out.to # None
  /\ \E fd \in out.to :
       /\ SkipOne(fd) \/ DropOne(fd) \/ QueueOne(fd)
       /\ out' = IF out.to = {fd} THEN None ELSE [out EXCEPT !.to = @ \ {fd}]
  /\ UNCHANGED <<state, sessions, greet, shown, sets, opens>>

-----------------------------------------------------------------------------
(* The server's task                                                       *)

\* ws_handler, a handshake: add_client.  A number still in the list keeps its
\* place; else dead clients make room first; without room the client is not
\* added, and is greeted all the same.
Handshake(fd) ==
  /\ greet = None /\ fd \notin sessions
  /\ opens < MaxOpens /\ opens' = opens + 1
  /\ sessions' = sessions \cup {fd}
  /\ clients' = IF fd \in clients THEN clients
                ELSE IF Cardinality(Live) < MaxClients THEN Live \cup {fd} ELSE Live
  /\ greet' = [fd |-> fd, data |-> None]
  /\ shown' = [shown EXCEPT ![fd] = Empty]
  /\ lost' = lost \cup ({fd} \X Keys)
  /\ UNCHANGED <<state, queue, out, sets>>

\* send_full_state_to: all of SharedState is serialized, under its lock.  What
\* was lost for this client is no longer.
TakeSnapshot ==
  /\ greet # None /\ greet.data = None
  /\ greet' = [greet EXCEPT !.data = map]
  /\ lost' = lost \ ({greet.fd} \X Keys)
  /\ UNCHANGED <<state, clients, sessions, queue, shown, out, sets, opens>>

\* No heap, no memory, the lock not free or the queue full: no snapshot.
NoSnapshot ==
  /\ greet # None
  /\ greet' = None
  /\ lost' = lost \cup ({greet.fd} \X Keys)
  /\ UNCHANGED <<state, clients, sessions, queue, shown, out, sets, opens>>

QueueSnapshot ==
  /\ greet # None /\ greet.data # None
  /\ Len(queue) < QueueMax
  /\ queue' = Append(queue, [fd |-> greet.fd, data |-> greet.data])
  /\ greet' = None
  /\ UNCHANGED <<state, clients, sessions, shown, out, lost, sets, opens>>

\* Mutant of Work: what is for an untracked client blocks the queue.
WorkTracked ==
  /\ greet = None /\ queue # <<>>
  /\ Head(queue).fd \in clients
  /\ queue' = Tail(queue)
  /\ LET fd == Head(queue).fd
     IN /\ shown' = [shown EXCEPT ![fd] = Overlay(@, Head(queue).data)]
        /\ UNCHANGED <<clients, sessions>>
  /\ UNCHANGED <<state, greet, out, lost, sets, opens>>

\* async_send_cb: sent to a client that is still listed and a WebSocket.  When
\* the send fails the client is removed and its session closed.
Work ==
  /\ greet = None /\ queue # <<>>
  /\ queue' = Tail(queue)
  /\ LET fd == Head(queue).fd
     IN \/ /\ fd \notin clients
           /\ UNCHANGED <<clients, sessions, shown>>
        \/ /\ fd \in clients \ sessions
           /\ clients' = clients \ {fd}
           /\ UNCHANGED <<sessions, shown>>
        \/ /\ fd \in Live
           /\ shown' = [shown EXCEPT ![fd] = Overlay(@, Head(queue).data)]
           /\ UNCHANGED <<clients, sessions>>
        \/ /\ fd \in Live
           /\ clients' = clients \ {fd} /\ sessions' = sessions \ {fd}
           /\ UNCHANGED shown
  /\ UNCHANGED <<state, greet, out, lost, sets, opens>>

\* A CLOSE frame, or a frame that cannot be received: the client is removed.
Leave(fd) ==
  /\ greet = None /\ fd \in Live
  /\ clients' = clients \ {fd}
  /\ UNCHANGED <<state, server, out, lost, sets, opens>>

\* The session ends, and on_session_close removes the clients that are no
\* WebSockets: maybe not yet this one, whose session is being deleted.
Close(fd) ==
  /\ greet = None /\ fd \in sessions
  /\ sessions' = sessions \ {fd}
  /\ clients' \in {Live, Live \ {fd}}
  /\ UNCHANGED <<state, queue, greet, shown, out, lost, sets, opens>>

-----------------------------------------------------------------------------
BroadcastInit ==
  /\ map = Boot /\ changed = {} /\ forceFull = FALSE
  /\ clients = {} /\ sessions = {} /\ queue = <<>> /\ greet = None /\ out = None
  /\ shown = [fd \in Fds |-> Empty] /\ lost = Fds \X Keys
  /\ sets = 0 /\ opens = 0

Greet == TakeSnapshot \/ NoSnapshot \/ QueueSnapshot
Broadcasting == SelectClients \/ SendOne

BroadcastNext ==
  \/ \E k \in Keys, v \in Values : Set(k, v)
  \/ TakeDelta \/ Heartbeat \/ Broadcasting
  \/ \E fd \in Fds : Handshake(fd) \/ Leave(fd) \/ Close(fd)
  \/ Greet \/ Work

BroadcastSpec == BroadcastInit /\ [][BroadcastNext]_broadcastVars

\* The main loop goes on, and broadcasts before a heartbeat of the same update;
\* the server comes to its work queue between any two requests.
BroadcastLiveSpec == BroadcastSpec /\ WF_broadcastVars(Broadcasting) /\ SF_broadcastVars(TakeDelta) /\ WF_broadcastVars(Greet) /\ SF_broadcastVars(Work)

-----------------------------------------------------------------------------
(* Properties                                                              *)

\* The types of the variables.
BroadcastTypeOK ==
  /\ map \in [Keys -> Values] /\ changed \subseteq Keys /\ forceFull \in BOOLEAN
  /\ clients \subseteq Fds /\ sessions \subseteq Fds
  /\ queue \in Seq([fd : Fds, data : Data])
  /\ greet \in {None} \cup [fd : Fds, data : {None} \cup Data]
  /\ out \in {None} \cup [data : Data, to : {None} \cup SUBSET Fds]
  /\ shown \in [Fds -> Data]
  /\ lost \subseteq Fds \X Keys
  /\ sets \in 0..MaxSets /\ opens \in 0..MaxOpens

\* Once the server has sent all that is queued, fd shows v for k.
InQueue(fd, k) == {i \in DOMAIN queue : queue[i].fd = fd /\ k \in DOMAIN queue[i].data}
EndsWith(fd, k, v) ==
  \/ InQueue(fd, k) = {} /\ k \in DOMAIN shown[fd] /\ shown[fd][k] = v
  \/ \E i \in InQueue(fd, k) :
        queue[i].data[k] = v /\ \A j \in InQueue(fd, k) : j <= i

\* A message for fd with key k is still to be queued.
OnItsWay(fd, k) ==
  \/ k \in changed \/ forceFull
  \/ out # None /\ k \in DOMAIN out.data /\ (out.to = None \/ fd \in out.to)
  \/ greet # None /\ greet.fd = fd

\* Deltas and snapshot together show a client all of SharedState (ws_service.h:
\* "New clients receive full state immediately on connect"; then deltas of
\* changed keys only): whatever the order of sets, sockets used again, and the
\* two tasks' messages, a listed client ends with each key's value, unless that
\* value is lost in one of the ways listed: entries beyond the buffer, a client
\* passed over or not greeted, a snapshot queued behind a newer delta.
Mirrored ==
  \A fd \in Live, k \in Keys :
    <<fd, k>> \in lost \/ OnItsWay(fd, k) \/ EndsWith(fd, k, map[k])

\* A value that is set and stays reaches every client that stays listed.
Reaches ==
  \A fd \in Fds, k \in Keys, v \in Values :
    (fd \in Live /\ <<fd, k>> \notin lost /\ map[k] = v)
      ~> (\/ k \in DOMAIN shown[fd] /\ shown[fd][k] = v
          \/ map[k] # v \/ fd \notin Live \/ <<fd, k>> \in lost)
================================================================================
