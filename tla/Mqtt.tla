-------------------------------- MODULE Mqtt --------------------------------
(***************************************************************************)
(* MqttService (components/modesp_mqtt/src/mqtt_service.cpp): connection   *)
(* with its own backoff, credentials and tenant given by the cloud, the    *)
(* HTTPS bootstrap after repeated failures, delta publishing with alarm    *)
(* keys repeated, the full state request.  The backfill is in Backfill.    *)
(***************************************************************************)
EXTENDS Cloud

Mqtt == build = "mqtt"
Pass == Mqtt /\ stage = "loop" /\ ~again    \* on_update past the deferred reconnect
Command0 == inbox # <<>> /\ Alive           \* a command arrives

-----------------------------------------------------------------------------
(* The client's task: mqtt_event_handler. *)

\* MQTT_EVENT_CONNECTED: it subscribes under the prefix of now; the version is
\* reset, the cache is not; the alarms are published at once.
MqttConnected ==
  /\ Mqtt /\ conn = "trying" /\ Reach /\ sess.cred = accepted
  /\ conn' = "up" /\ online' = TRUE
  /\ sess' = [sess EXCEPT !.tenant = tenant]
  /\ fails' = 0
  /\ changed' = TRUE
  /\ copy' = IF kind = "alarm" THEN value ELSE copy
  /\ UNCHANGED <<wifiVars, fixed, identity, outbox, boot, again, value, cache, dirty,
                 asked, side, stage>>

\* Mutant: the failures are not counted.
MqttDisconnectedUncounted ==
  /\ Mqtt
  /\ \/ conn \in {"trying", "up"} /\ ~Reach
     \/ conn = "trying" /\ sess.cred # accepted
  /\ EndSession
  /\ inbox' = <<>>
  /\ UNCHANGED <<wifiVars, fixed, identity, sess, retrying, content, accepted, copy, stage>>

\* MQTT_EVENT_DISCONNECTED: refused, unreachable or broken, all count alike.
MqttDisconnected ==
  /\ Mqtt
  /\ \/ conn \in {"trying", "up"} /\ ~Reach
     \/ conn = "trying" /\ sess.cred # accepted
  /\ EndSession
  /\ fails' = IF fails < Threshold THEN fails + 1 ELSE fails
  /\ boot' = (boot \/ fails + 1 >= Threshold)
  /\ inbox' = <<>>
  /\ UNCHANGED <<wifiVars, fixed, identity, sess, again, content, accepted, copy, stage>>

\* The commands of handle_incoming.  _set_mqtt_creds stores the credentials
\* and waits for _set_tenant to reconnect.
SetCreds ==
  /\ Mqtt /\ Command0 /\ Head(inbox) = "creds"
  /\ cred' = "own"
  /\ nvs' = [nvs EXCEPT !.pass = TRUE]
  /\ inbox' = Tail(inbox)
  /\ UNCHANGED <<wifiVars, fixed, tenant, enabled, session, retrying, content, accepted, copy, stage>>

SetTenant ==
  /\ Mqtt /\ Command0 /\ Head(inbox) = "tenant"
  /\ tenant' = "own"
  /\ again' = TRUE
  /\ inbox' = Tail(inbox)
  /\ UNCHANGED <<wifiVars, fixed, cred, enabled, nvs, session, fails, boot, content,
                 accepted, copy, stage>>

\* _request_full_state, at any time: the cache is cleared, and the settings, which
\* are published at no other time, are asked for.
RequestFullState ==
  /\ Mqtt /\ Alive /\ kind # "none"
  /\ cache' = None
  /\ changed' = TRUE
  /\ asked' = Setting
  /\ UNCHANGED <<wifiVars, fixed, identity, session, retrying, value, dirty, side, copy, stage>>

-----------------------------------------------------------------------------
(* The main loop: on_update. *)

\* The request is cleared first, then the client is stopped and started: a
\* request made meanwhile asks for another reconnect.
BeginReconnect ==
  /\ Mqtt /\ stage = "loop" /\ again
  /\ again' = FALSE
  /\ stage' = "restart"
  /\ UNCHANGED <<wifiVars, fixed, identity, session, fails, boot, content, side, copy>>

FinishReconnect ==
  /\ Mqtt /\ stage = "restart"
  /\ IF enabled THEN StartClient ELSE conn' = "none" /\ UNCHANGED sess
  /\ online' = FALSE
  /\ outbox' = None
  /\ inbox' = <<>>
  /\ stage' = "loop"
  /\ UNCHANGED <<wifiVars, fixed, identity, retrying, content, accepted, copy>>

\* The first connection waits for the station.
FirstStart ==
  /\ Pass /\ conn = "none" /\ enabled /\ address = "station"
  /\ StartClient
  /\ UNCHANGED <<wifiVars, fixed, identity, outbox, online, retrying, content, side, copy, stage>>

\* The bootstrap is due; the branch that waits for a first start comes before it.
Bootstrapping == Pass /\ boot /\ ~(conn = "none" /\ enabled)

\* Mutant: the client is left to reconnect by itself.
RegisteredQuiet ==
  /\ Bootstrapping /\ Reach
  /\ boot' = FALSE
  /\ accepted' = "boot" /\ cred' = "boot" /\ tenant' = "pending"
  /\ nvs' = [nvs EXCEPT !.pass = TRUE]
  /\ fails' = 0
  /\ UNCHANGED <<wifiVars, fixed, enabled, session, again, content, inbox, copy, stage>>

\* try_https_bootstrap answered with 200 or 201: the server has taken the device
\* back to the bootstrap credentials, and so does the device.
Registered ==
  /\ Bootstrapping /\ Reach
  /\ boot' = FALSE
  /\ accepted' = "boot" /\ cred' = "boot" /\ tenant' = "pending"
  /\ nvs' = [nvs EXCEPT !.pass = TRUE]
  /\ fails' = 0
  /\ again' = TRUE
  /\ UNCHANGED <<wifiVars, fixed, enabled, session, content, inbox, copy, stage>>

\* The server is not reached, answers otherwise, or no password is configured.
Unregistered ==
  /\ Bootstrapping
  /\ boot' = FALSE
  /\ UNCHANGED <<wifiVars, fixed, identity, session, fails, again, content, side, copy, stage>>

\* After reconnect_delay_ms_; the client keeps the credentials it was made with.
Reconnect ==
  /\ Pass /\ ~boot /\ conn = "idle" /\ ~online /\ enabled
  /\ conn' = "trying"
  /\ UNCHANGED <<wifiVars, fixed, identity, sess, outbox, online, retrying, content, side, copy, stage>>

PublishMqtt == Pass /\ ~boot /\ PublishState({"telemetry", "alarm"})

\* publish_params, once for every request, and with QoS 0.
PublishParams ==
  /\ Pass /\ ~boot /\ online /\ enabled /\ asked
  /\ asked' = FALSE
  /\ Publish(value)
  /\ UNCHANGED <<wifiVars, fixed, identity, conn, sess, online, retrying, value, cache,
                 changed, dirty, side, stage>>

\* publish_alarms_retained, every five minutes, whatever the cache says.
RepublishAlarms ==
  /\ Pass /\ online /\ enabled /\ kind = "alarm"
  /\ Publish(value)
  /\ UNCHANGED <<wifiVars, fixed, identity, conn, sess, online, retrying, content, side, stage>>

-----------------------------------------------------------------------------
(* The HTTP task and the cloud. *)

\* handle_post_mqtt: enabled or disabled, or another tenant; save_config, reconnect.
PostMqtt(t, e) ==
  /\ Mqtt /\ Spend(RequestCost)
  /\ <<t, e>> # <<tenant, enabled>>
  /\ tenant' = t /\ enabled' = e
  /\ nvs' = [pass |-> TRUE, enabled |-> e]
  /\ again' = TRUE
  /\ UNCHANGED <<air, radio, creds, service, http, fixed, cred, session, fails, boot, content,
                 side, copy, stage>>

\* The cloud sees the device under "pending", issues it credentials and
\* assigns it: two commands.
Provision ==
  /\ Mqtt /\ Alive /\ tenant = "pending" /\ sess.tenant = "pending" /\ inbox = <<>>
  /\ accepted' = "own"
  /\ inbox' = <<"creds", "tenant">>
  /\ UNCHANGED <<wifiVars, fixed, identity, session, retrying, content, copy, stage>>

\* A command is lost.
Drop ==
  /\ Spend(1) /\ inbox # <<>>
  /\ inbox' = Tail(inbox)
  /\ UNCHANGED <<air, radio, creds, service, http, fixed, identity, session, retrying, content,
                 accepted, copy, stage>>

MqttTask  == MqttConnected \/ MqttDisconnected \/ SetCreds \/ SetTenant
MqttLoop  == \/ BeginReconnect \/ FinishReconnect \/ FirstStart \/ Registered \/ Unregistered
             \/ Reconnect \/ PublishMqtt \/ PublishParams \/ RepublishAlarms
MqttNext  == \/ MqttTask \/ MqttLoop \/ RequestFullState \/ Provision \/ Drop
             \/ \E t \in {"pending", "own"}, e \in BOOLEAN : PostMqtt(t, e)
=============================================================================
