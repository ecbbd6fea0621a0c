-------------------------------- MODULE Cloud --------------------------------
(***************************************************************************)
(* What the two cloud services share (components/modesp_mqtt, modesp_aws;  *)
(* a build holds one of them): the ESP-MQTT client they drive, the fields  *)
(* of the service, the cloud's side, and the delta publishing.  The        *)
(* content of the shared state is reduced to one followed key of some kind *)
(* and to whether anything tracked changed since last_version_.            *)
(*                                                                         *)
(* Three tasks: the client's own task runs the event handlers, the main    *)
(* loop runs on_update, the HTTP task the POST handlers.  stage says what  *)
(* the main loop is in the middle of.                                      *)
(***************************************************************************)
EXTENDS Wifi

CONSTANTS
  Builds,     \* which services are built: a subset of {"mqtt", "aws"}
  Kinds,      \* what the followed key may be; "none": only the connection is followed,
              \* "late setting": one that the shadow's buffer has no room for
  Threshold,  \* AUTH_FAIL_THRESHOLD, mqtt_service.h
  None        \* no payload

ASSUME CloudAssumption ==
  /\ Builds \subseteq {"mqtt", "aws"}
  /\ Kinds \subseteq {"none", "telemetry", "alarm", "setting", "late setting"}
  /\ Threshold \in Nat \ {0}

VARIABLES
  build, kind,
  \* the client
  conn,      \* none (client_ null), idle, trying, up
  sess,      \* its credentials, and the tenant its topics are under
  outbox,    \* a message handed to the client that has not reached the broker
  \* the service
  online,    \* connected_
  cred, tenant, enabled,   \* pass_, tenant_, enabled_
  nvs,       \* [pass, enabled]: a password, and enabled = true, are stored
  fails,     \* auth_fail_count_, up to the threshold
  boot,      \* bootstrap_pending_
  again,     \* reconnect_requested_
  stage,     \* the main loop: "loop", or inside a handler that another task can race
  \* publishing
  value,     \* the followed key in the shared state
  cache,     \* its last_payloads_ entry
  changed,   \* version() # last_version_
  dirty,     \* AWS: shadow_dirty_, or version() # shadow_version_
  asked,     \* MQTT: params_publish_requested_, if the followed key is a setting
  \* the cloud
  accepted,  \* the credentials the broker accepts from this device
  inbox,     \* commands on the way (QoS 0)
  copy       \* the last value of the key that reached the cloud

identity  == <<cred, tenant, enabled, nvs>>
session   == <<conn, sess, outbox, online>>
retrying  == <<fails, boot, again>>
content   == <<value, cache, changed, dirty, asked>>
side      == <<accepted, inbox>>
fixed     == <<build, kind>>
cloudVars == <<fixed, identity, session, retrying, content, side, copy, stage>>
vars      == <<wifiVars, cloudVars>>

Values == {0, 1}

CloudTypeOK ==
  /\ build \in Builds /\ kind \in Kinds
  /\ conn \in {"none", "idle", "trying", "up"}
  /\ sess \in [cred : {"boot", "own"}, tenant : {"pending", "own"}]
  /\ {outbox, cache, copy} \subseteq Values \cup {None} /\ value \in Values
  /\ {online, enabled, boot, again, changed, dirty, asked} \subseteq BOOLEAN
  /\ cred \in {"boot", "own"} /\ accepted \in {"boot", "own"}
  /\ tenant \in {"pending", "own"}
  /\ nvs \in [pass : BOOLEAN, enabled : BOOLEAN]
  /\ fails \in 0..Threshold
  /\ stage \in {"loop", "restart", "publish", "shadow"}
  /\ inbox \in {<<>>, <<"tenant">>, <<"creds", "tenant">>}

-----------------------------------------------------------------------------
(* The client and its network. *)

Reach == radio.sta = "joined"
Alive == conn = "up" /\ Reach

\* A setting: MQTT sends them when asked, AWS in the shadow.
Setting == kind \in {"setting", "late setting"}

\* Alarms and the shadow are sent with QoS 1.
Acknowledged == kind = "alarm" \/ (build = "aws" /\ Setting)

\* esp_mqtt_client_publish: while the network is gone the message waits in
\* the session's socket; one of QoS 1 may wait there since an earlier session.
Publish(v) ==
  \/ /\ Alive
     /\ copy' = v
     /\ outbox' = IF Acknowledged THEN outbox ELSE None
  \/ /\ ~Alive
     /\ outbox' = v
     /\ UNCHANGED copy

\* It is sent when the network is back, after whatever went out first.
Resend ==
  /\ outbox # None /\ Alive
  /\ copy' = outbox
  /\ outbox' = None
  /\ UNCHANGED <<wifiVars, fixed, identity, conn, sess, online, retrying, content, side, stage>>

\* The session ends: what was not acknowledged is kept, the rest is lost.
EndSession ==
  /\ conn' = "idle" /\ online' = FALSE
  /\ outbox' = IF Acknowledged THEN outbox ELSE None

\* start_client: esp_mqtt_client_start begins to connect.
StartClient == conn' = "trying" /\ sess' = [cred |-> cred, tenant |-> tenant]

-----------------------------------------------------------------------------
(* Who changes the followed key, and everything else that is tracked. *)

Written(v) ==
  /\ value' = v
  /\ changed' = TRUE
  /\ dirty' = TRUE
  /\ UNCHANGED <<cache, asked>>

\* A module, between two handlers of the main loop, or for a setting the
\* HTTP task at any time.
Change ==
  /\ Spend(1)
  /\ kind # "none"
  /\ Setting \/ stage = "loop"
  /\ Written(1 - value)
  /\ UNCHANGED <<air, radio, creds, service, http, fixed, identity, session, retrying,
                 side, copy, stage>>

\* A command of the cloud for a writable key (handle_incoming, handle_shadow_delta).
Command ==
  /\ Spend(1)
  /\ Setting /\ Alive
  /\ Written(1 - value)
  /\ UNCHANGED <<air, radio, creds, service, http, fixed, identity, session, retrying,
                 side, copy, stage>>

\* Temperatures and timers move all the time; an alarm does not rely on them.
Reading ==
  /\ stage = "loop" /\ (kind = "telemetry" \/ Setting) /\ ~(changed /\ dirty)
  /\ changed' = TRUE /\ dirty' = TRUE
  /\ UNCHANGED <<wifiVars, fixed, identity, session, retrying, value, cache, asked,
                 side, copy, stage>>

\* publish_state: a key whose payload differs from the cached one is sent.
\* last_version_ is read after the loop, so the handler is two steps.
PublishState(published) ==
  /\ stage = "loop" /\ online /\ enabled /\ changed /\ kind \in published
  /\ \/ /\ cache # value
        /\ Publish(value)
        /\ cache' = value
     \/ /\ cache = value
        /\ UNCHANGED <<copy, outbox, cache>>
  /\ stage' = "publish"
  /\ UNCHANGED <<wifiVars, fixed, identity, conn, sess, online, retrying,
                 value, changed, dirty, asked, side>>

StampVersion ==
  /\ stage = "publish"
  /\ changed' = FALSE
  /\ stage' = "loop"
  /\ UNCHANGED <<wifiVars, fixed, identity, session, retrying, value, cache, dirty, asked,
                 side, copy>>

-----------------------------------------------------------------------------
\* load_config: without a stored password the bootstrap password is used and
\* the service is enabled; otherwise it is as NVS says.
Loaded == nvs.enabled \/ (build = "mqtt" /\ ~nvs.pass)

CloudInit ==
  /\ build \in Builds
  /\ kind \in Kinds \cap (IF build = "aws" THEN {"telemetry", "setting", "late setting"}
                              ELSE {"none", "telemetry", "alarm", "setting"})
  /\ cred = IF kind = "none" THEN "boot" ELSE "own"
  /\ tenant = IF kind = "none" THEN "pending" ELSE "own"
  /\ accepted = cred
  /\ sess = [cred |-> cred, tenant |-> tenant]
  /\ \/ nvs = [pass |-> TRUE, enabled |-> TRUE]      \* configured from its page,
     \/ /\ build = "mqtt" /\ kind = "none"          \* or new, from Kconfig
        /\ nvs = [pass |-> FALSE, enabled |-> FALSE]
  /\ enabled = Loaded
  /\ value = 0 /\ copy = None
  /\ conn = "none" /\ online = FALSE /\ outbox = None /\ inbox = <<>>
  /\ fails = 0 /\ boot = FALSE /\ again = FALSE /\ stage = "loop"
  /\ cache = None /\ changed = TRUE /\ dirty = TRUE /\ asked = FALSE

\* esp_restart or a power cut: the fields start anew from NVS.
CloudBoot ==
  /\ enabled' = Loaded
  /\ conn' = "none" /\ online' = FALSE /\ outbox' = None /\ inbox' = <<>>
  /\ fails' = 0 /\ boot' = FALSE /\ again' = FALSE /\ stage' = "loop"
  /\ cache' = None /\ changed' = TRUE /\ dirty' = TRUE /\ asked' = FALSE
  /\ UNCHANGED <<fixed, sess, cred, tenant, nvs, value, accepted, copy>>
=============================================================================
