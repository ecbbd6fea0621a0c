-------------------------------- MODULE Wifi --------------------------------
(***************************************************************************)
(* WiFiService (components/modesp_net/src/wifi_service.cpp) over the       *)
(* ESP-IDF driver it uses.  Three tasks touch its fields without a lock:   *)
(* the event task (handle_wifi_event, handle_ip_event), the main loop      *)
(* (on_update) and the HTTP task (save_credentials, request_reconnect,     *)
(* start_scan).  The driver's events wait in a queue, so a handler may run *)
(* after the main loop has already started something else.                 *)
(*                                                                         *)
(* Timers are not counted: what a timer allows may happen in any pass in   *)
(* which its other conditions hold.  Drained says which of them are too    *)
(* long (2 s and more) to run out while an event still waits.              *)
(***************************************************************************)
EXTENDS Naturals, Sequences

CONSTANTS
  MaxRetries,   \* MAX_RETRIES, wifi_service.h
  RequestCost,  \* bound: what a request of the HTTP task takes from the budget
  Budget        \* bound: how many disturbances, of whatever kinds, a behaviour has

ASSUME WifiAssumption == {MaxRetries, RequestCost, Budget} \subseteq Nat

VARIABLES
  air,        \* the network whose credentials are stored answers (external)
  radio,      \* the driver: [mode, sta, events]
  creds,      \* ssid_ is not empty (NVS)
  ap,         \* ap_mode_
  connected,  \* connected_
  pending,    \* reconnect_pending_
  retry,      \* retry_count_
  probing,    \* ap_sta_probing_
  deferred,   \* deferred_reconnect_
  address,    \* "station": wifi.connected and its wifi.ip; "own": the AP's
  http,       \* what the HTTP task is in the middle of
  left        \* what is left of the budget

service  == <<ap, connected, pending, retry, probing, deferred, address>>
wifiVars == <<air, radio, creds, service, http, left>>

Modes == {"sta", "ap", "apsta"}

WifiTypeOK ==
  /\ air \in BOOLEAN /\ creds \in BOOLEAN
  /\ radio \in [mode : Modes, sta : {"idle", "joining", "joined"},
                events : Seq({"start", "lost", "ip"})]
  /\ {ap, connected, pending, probing, deferred} \subseteq BOOLEAN
  /\ retry \in 0..MaxRetries
  /\ address \in {"none", "own", "station"}
  /\ http \in {"idle", "saved", "scan", "scan_ap"}
  /\ left \in 0..Budget

-----------------------------------------------------------------------------
(* The driver, as the service uses it. *)

Tell(r, e)    == [r EXCEPT !.events = Append(@, e)]
Handled(r)    == [r EXCEPT !.events = Tail(@)]
Connect(r)    == IF creds /\ r.mode # "ap" /\ r.sta = "idle"
                 THEN [r EXCEPT !.sta = "joining"] ELSE r
Disconnect(r) == IF r.sta = "idle" THEN r ELSE Tell([r EXCEPT !.sta = "idle"], "lost")
ToAp(r)       == [Disconnect(r) EXCEPT !.mode = "ap"]
ToApSta(r)    == IF r.mode = "ap" THEN Tell([r EXCEPT !.mode = "apsta"], "start") ELSE r
ToSta(r)      == [r EXCEPT !.mode = "sta"]
Restarted(r)  == Tell(ToSta(Disconnect(r)), "start")

\* A disturbance: an outage, a power cut, a request, a change, a lost message.
Spend(n) == left >= n /\ left' = left - n

\* The network goes away and comes back.
Outage == air /\ Spend(1) /\ air' = FALSE /\ UNCHANGED <<radio, creds, service, http>>
Back   == ~air /\ air' = TRUE /\ UNCHANGED <<radio, creds, service, http, left>>

Station(to, event) ==
  /\ radio' = Tell([radio EXCEPT !.sta = to], event)
  /\ UNCHANGED <<air, creds, service, http, left>>

\* An attempt ends with an address or is refused (or hangs: Refuse has no
\* fairness); a station that lost its network notices.
Join   == radio.sta = "joining" /\ air  /\ Station("joined", "ip")
Refuse == radio.sta = "joining" /\ ~air /\ Station("idle", "lost")
Lose   == radio.sta = "joined"  /\ ~air /\ Station("idle", "lost")

Drained == radio.events = <<>>

-----------------------------------------------------------------------------
(* The event task. *)

Event(e) == ~Drained /\ Head(radio.events) = e

\* cancel_ap_sta_probe, from radio state r.
CancelProbe(r) == probing' = FALSE /\ radio' = ToAp(r)

OnStart ==
  /\ Event("start")
  /\ radio' = IF probing THEN Handled(radio) ELSE Connect(Handled(radio))
  /\ UNCHANGED <<air, creds, service, http, left>>

OnLost ==
  /\ Event("lost")
  /\ \/ /\ probing
        /\ CancelProbe(Handled(radio))
        /\ UNCHANGED <<connected, address, pending>>
     \/ /\ ~probing
        /\ radio' = Handled(radio)
        /\ connected' = FALSE
        /\ address' = "none"
        /\ pending' = (pending \/ ~ap)
        /\ UNCHANGED probing
  /\ UNCHANGED <<air, creds, ap, retry, deferred, http, left>>

\* A probe that gets an address ends the AP mode.
OnAddress ==
  /\ Event("ip")
  /\ connected' = TRUE
  /\ address' = "station"
  /\ pending' = FALSE
  /\ retry' = 0
  /\ probing' = FALSE
  /\ ap' = (ap /\ ~probing)
  /\ radio' = IF probing THEN ToSta(Handled(radio)) ELSE Handled(radio)
  /\ UNCHANGED <<air, creds, deferred, http, left>>

-----------------------------------------------------------------------------
(* The main loop: each action is a pass of on_update in which one timer    *)
(* has run out.                                                            *)

\* 1.5 s after request_reconnect: start_sta.  Neither ap_sta_probing_ nor
\* the published wifi.connected is touched.
DeferredReconnect ==
  /\ deferred
  /\ deferred' = FALSE
  /\ ap' = FALSE
  /\ connected' = FALSE
  /\ pending' = FALSE
  /\ retry' = 0
  /\ radio' = Restarted(radio)
  /\ UNCHANGED <<air, creds, probing, address, http, left>>

Retry ==
  /\ pending /\ ~ap /\ retry < MaxRetries /\ Drained
  /\ retry' = retry + 1
  /\ radio' = Connect(radio)
  /\ UNCHANGED <<air, creds, ap, connected, pending, probing, deferred, address, http, left>>

\* start_ap after the last retry.
GiveUp ==
  /\ pending /\ ~ap /\ retry = MaxRetries
  /\ pending' = FALSE
  /\ ap' = TRUE
  /\ connected' = FALSE
  /\ probing' = FALSE
  /\ address' = "own"
  /\ radio' = ToAp(radio)
  /\ UNCHANGED <<air, creds, retry, deferred, http, left>>

\* Mutant: the connection is left to the handler of the start event.
ProbeUnconnected ==
  /\ ap /\ ~probing /\ ~deferred /\ creds /\ Drained
  /\ probing' = TRUE
  /\ radio' = ToApSta(radio)
  /\ UNCHANGED <<air, creds, ap, connected, pending, retry, deferred, address, http, left>>

\* attempt_ap_sta_probe; with too little heap the probe is put off.
Probe ==
  /\ ap /\ ~probing /\ ~deferred /\ creds /\ Drained
  /\ probing' = TRUE
  /\ radio' = Connect(ToApSta(radio))
  /\ UNCHANGED <<air, creds, ap, connected, pending, retry, deferred, address, http, left>>

\* After 15 s only the answer can still be on its way, and an answer that
\* late is a disturbance.
ProbeTimeout ==
  /\ probing /\ ~Event("start")
  /\ IF Event("ip") \/ (air /\ radio.sta # "idle") THEN Spend(1) ELSE UNCHANGED left
  /\ CancelProbe(radio)
  /\ UNCHANGED <<air, creds, ap, connected, pending, retry, deferred, address, http>>

\* start_sta or start_ap at boot, by the credentials in NVS.
Boot ==
  /\ radio' = IF creds THEN [mode |-> "sta", sta |-> "idle", events |-> <<"start">>]
                       ELSE [mode |-> "ap", sta |-> "idle", events |-> <<>>]
  /\ ap' = ~creds
  /\ address' = IF creds THEN "none" ELSE "own"
  /\ connected' = FALSE /\ pending' = FALSE /\ retry' = 0
  /\ probing' = FALSE /\ deferred' = FALSE /\ http' = "idle"
  /\ UNCHANGED <<air, creds>>

\* Ten minutes without a connection in STA mode: esp_restart.  An attempt
\* that the network answers does not take that long.
StaWatchdog ==
  /\ ~ap /\ ~connected
  /\ Drained /\ ~(air /\ radio.sta # "idle")
  /\ Boot /\ UNCHANGED left

PowerCut == Spend(1) /\ Boot

-----------------------------------------------------------------------------
(* The HTTP task. *)

\* handle_post_wifi: save_credentials, and request_reconnect's look at a
\* running probe; the flag is set in a step of its own.
SaveCredentials ==
  /\ http = "idle" /\ Spend(RequestCost)
  /\ creds' = TRUE
  /\ IF probing THEN CancelProbe(radio) ELSE UNCHANGED <<probing, radio>>
  /\ http' = "saved"
  /\ UNCHANGED <<air, ap, connected, pending, retry, deferred, address>>

RequestReconnect ==
  /\ http = "saved"
  /\ deferred' = TRUE
  /\ http' = "idle"
  /\ UNCHANGED <<air, radio, creds, ap, connected, pending, retry, probing, address, left>>

\* start_scan: in AP mode the radio is switched to APSTA for it.
StartScan ==
  /\ http = "idle" /\ Spend(RequestCost)
  /\ LET r == IF probing THEN ToAp(radio) ELSE radio
     IN  radio' = IF ap THEN Disconnect(ToApSta(r)) ELSE r
  /\ probing' = FALSE
  /\ http' = IF ap THEN "scan_ap" ELSE "scan"
  /\ UNCHANGED <<air, creds, ap, connected, pending, retry, deferred, address>>

\* get_scan_results, or start_scan's failure: back to AP.
EndScan ==
  /\ http \in {"scan", "scan_ap"}
  /\ http' = "idle"
  /\ radio' = IF http = "scan_ap" THEN ToAp(radio) ELSE radio
  /\ UNCHANGED <<air, creds, service, left>>

-----------------------------------------------------------------------------
WifiInit ==
  /\ air = TRUE
  /\ creds \in BOOLEAN
  /\ radio = IF creds THEN [mode |-> "sta", sta |-> "idle", events |-> <<"start">>]
                      ELSE [mode |-> "ap", sta |-> "idle", events |-> <<>>]
  /\ ap = ~creds
  /\ address = IF creds THEN "none" ELSE "own"
  /\ connected = FALSE /\ pending = FALSE /\ retry = 0
  /\ probing = FALSE /\ deferred = FALSE /\ http = "idle"
  /\ left = Budget

Events     == OnStart \/ OnLost \/ OnAddress
LoopWifi   == DeferredReconnect \/ Retry \/ GiveUp \/ Probe \/ ProbeTimeout
Requests   == SaveCredentials \/ RequestReconnect \/ StartScan \/ EndScan
Driver     == Join \/ Refuse \/ Lose
Weather    == Outage \/ Back
Restarts   == StaWatchdog \/ PowerCut

WifiNext == Events \/ LoopWifi \/ Requests \/ Driver \/ Weather \/ Restarts

\* What happens without a timer: the event task, the driver, a request going on.
Prompt == Events \/ Join \/ Lose \/ RequestReconnect \/ EndScan

-----------------------------------------------------------------------------
\* Whatever probes, scans, saved credentials and late events did to the mode
\* of the radio, a device whose network is there for good ends up in it for
\* good: no order of the three tasks leaves it in its access point without a
\* probe, or in station mode without an attempt.
Recovers == <>[](air /\ creds) => <>[](address = "station")
=============================================================================
