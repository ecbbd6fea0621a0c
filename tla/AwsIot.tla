------------------------------- MODULE AwsIot -------------------------------
(***************************************************************************)
(* AwsIotService (components/modesp_aws/src/aws_iot_service.cpp): mutual   *)
(* TLS with one certificate, so no credentials change hands; telemetry by  *)
(* delta publishing, settings through the device shadow.  The client's own *)
(* reconnection is not switched off.                                       *)
(***************************************************************************)
EXTENDS Cloud

Aws == build = "aws"

\* Mutant: the payloads of the last session count as delivered.
AwsConnectedCached ==
  /\ Aws /\ conn = "trying" /\ Reach
  /\ conn' = "up" /\ online' = TRUE
  /\ changed' = TRUE /\ dirty' = TRUE
  /\ UNCHANGED <<wifiVars, fixed, identity, sess, outbox, retrying, value, cache, asked, side,
                 copy, stage>>

\* MQTT_EVENT_CONNECTED: the payload cache is cleared.
AwsConnected ==
  /\ Aws /\ conn = "trying" /\ Reach
  /\ conn' = "up" /\ online' = TRUE
  /\ cache' = None
  /\ changed' = TRUE /\ dirty' = TRUE
  /\ UNCHANGED <<wifiVars, fixed, identity, sess, outbox, retrying, value, asked, side, copy,
                 stage>>

AwsDisconnected ==
  /\ Aws /\ conn \in {"trying", "up"} /\ ~Reach
  /\ EndSession
  /\ UNCHANGED <<wifiVars, fixed, identity, sess, retrying, content, side, copy, stage>>

\* By the client itself or by on_update's backoff.
AwsReconnect ==
  /\ Aws /\ conn = "idle"
  /\ conn' = "trying"
  /\ UNCHANGED <<wifiVars, fixed, identity, sess, outbox, online, retrying, content, side, copy, stage>>

\* The first connection waits for an address: the access point's own will do.
AwsStart ==
  /\ Aws /\ stage = "loop" /\ enabled /\ conn = "none" /\ address # "none"
  /\ StartClient
  /\ UNCHANGED <<wifiVars, fixed, identity, outbox, online, retrying, content, side, copy, stage>>

PublishAws == Aws /\ PublishState({"telemetry"})

\* publish_shadow_reported sends the settings that its buffer has room for, always
\* in one order; the versions are read, and the mark is cleared, after it.
PublishShadow ==
  /\ Aws /\ stage = "loop" /\ enabled /\ online /\ dirty /\ Setting
  /\ IF kind = "setting" THEN Publish(value) ELSE UNCHANGED <<copy, outbox>>
  /\ stage' = "shadow"
  /\ UNCHANGED <<wifiVars, fixed, identity, conn, sess, online, retrying, content, side>>

StampShadow ==
  /\ stage = "shadow"
  /\ dirty' = FALSE
  /\ stage' = "loop"
  /\ UNCHANGED <<wifiVars, fixed, identity, session, retrying, value, cache, changed, asked,
                 side, copy>>

\* handle_post_cloud: on_update stops or goes on; the client stays as it is.
PostCloud ==
  /\ Aws /\ Spend(RequestCost)
  /\ enabled' = ~enabled
  /\ nvs' = [nvs EXCEPT !.enabled = ~enabled]
  /\ UNCHANGED <<air, radio, creds, service, http, fixed, cred, tenant, session, retrying, content,
                 side, copy, stage>>

AwsTask == AwsConnected \/ AwsDisconnected \/ AwsReconnect
AwsLoop == AwsStart \/ PublishAws \/ PublishShadow \/ StampShadow
AwsNext == AwsTask \/ AwsLoop \/ PostCloud
=============================================================================
