------------------------------- MODULE Uplink -------------------------------
(***************************************************************************)
(* The device's way to the cloud: WiFiService under one of the two cloud   *)
(* services.  They meet in wifi.connected and wifi.ip, in the radio that   *)
(* the client's packets take, and in restarts.                             *)
(***************************************************************************)
EXTENDS Mqtt, AwsIot

Init == WifiInit /\ CloudInit

TypeOK == WifiTypeOK /\ CloudTypeOK

WifiStep ==
  /\ \/ Events \/ Requests \/ Driver \/ Weather
     \/ stage = "loop" /\ LoopWifi
  /\ UNCHANGED cloudVars

Restart == Restarts /\ CloudBoot

Shared == Resend \/ Change \/ Command \/ Reading \/ StampVersion

Next == WifiStep \/ Restart \/ Shared \/ MqttNext \/ AwsNext

-----------------------------------------------------------------------------
(* Fairness.  Every task gets to run; the events of the driver and of the  *)
(* client are delivered; what the main loop can do again and again it does *)
(* again and again, although its other handlers may come first.  The cloud *)
(* provisions a pending device, and registers one that asks for it again   *)
(* and again.  A probe or an attempt that the network answers ends before  *)
(* its timeout some time.                                                  *)

Do(A) == A /\ UNCHANGED cloudVars

Connecting   == FirstStart \/ AwsStart \/ Registered \/ Unregistered \/ Reconnect
Publishing   == PublishMqtt \/ PublishParams \/ PublishAws \/ PublishShadow \/ RepublishAlarms
Housekeeping == Reading \/ StampVersion \/ StampShadow \/ BeginReconnect \/ FinishReconnect

Fairness ==
  /\ WF_vars(Do(Prompt))
  /\ SF_vars(stage = "loop" /\ Do(LoopWifi)) /\ WF_vars(StaWatchdog /\ CloudBoot)
  /\ WF_vars(MqttTask \/ AwsTask)
  /\ SF_vars(Connecting) /\ SF_vars(Publishing) /\ WF_vars(Housekeeping)
  /\ SF_vars(Resend \/ Provision \/ Registered)

Spec == Init /\ [][Next]_vars /\ Fairness

-----------------------------------------------------------------------------
\* The client's last will and its subscriptions are under the tenant of the
\* time it was started or connected, what it publishes is under tenant_:
\* whenever they differ, a reconnect is asked for or under way
\* (reconnect_requested_ is cleared before the client is stopped, so that a
\* tenant set meanwhile is not forgotten).
TenantFollowed ==
  conn # "none" /\ sess.tenant # tenant => again \/ stage = "restart"

\* With the network there for good and the service enabled, the device ends
\* up connected for good under the identity the cloud gave it, whatever
\* commands were lost and whatever credentials were refused on the way.
Settles ==
  <>[](air /\ creds /\ enabled) =>
    <>[](online /\ (build = "mqtt" => sess.tenant = tenant))

\* The service sees to it alone: an alarm of MQTT, telemetry and the shadow of AWS.
\* MQTT keeps its payload cache over a reconnect, so that telemetry which a dead
\* session lost is not sent again, and sends settings only when it is asked.
Unasked == IF build = "aws" THEN kind # "late setting" ELSE kind = "alarm"

\* Once the device is connected for good, the value of the followed key reaches
\* the cloud and stays there: an alarm although it was published into a dead
\* session or repeated from the outbox, telemetry and settings although a payload
\* is cached or the version read after it, if the cloud asks again and again (in
\* the middle of a publication too, and without knowing what it has missed).
Arrives ==
  Unasked \/ (build = "mqtt" /\ kind # "none" /\ []<><<RequestFullState>>_vars) =>
    (<>[](online /\ air /\ enabled) => <>[](copy = value))
=============================================================================
