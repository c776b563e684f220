------------------------ MODULE ProvisioningRuntime ------------------------
(***************************************************************************)
(* The Wi-Fi station of components/provisioning/provisioning_runtime.c:    *)
(* start, stop, pause and scan, called by coordinator and portal, the task *)
(* that alone connects (wifi_timeout_task), and the handler of the Wi-Fi   *)
(* driver's events.  Each of them holds s_wifi_operation_mutex: they are   *)
(* atomic for each other, but the driver's events come late, in order, and *)
(* without a generation: they may speak of a station that was stopped.     *)
(*                                                                         *)
(* s_retry and the flags are kept together: the retry policy is enabled,   *)
(* and its generation current, exactly while s_sta_started is set, and     *)
(* s_sta_connecting is retry.in_flight.  Its deadlines (ProvisioningRetry) *)
(* are reached when the environment chooses.                               *)
(***************************************************************************)
EXTENDS Naturals, Sequences

CONSTANTS
  Profile,    \* SSIDs
  NoProfile,
  MaxLoop,    \* bound: driver events waiting in the event loop
  DriverFaults   \* of "start", "stop", "scan", "connect", "access point"

VARIABLES
  sta,      \* the station's flags
  retry,    \* s_retry's flags
  ap,       \* s_ap_started
  driver,   \* the Wi-Fi driver's station
  loop      \* its events, waiting for wifi_event_handler

runtimeVars == << sta, retry, ap, driver, loop >>

(* old: of a station that was stopped (history).                           *)
DriverEvents ==
  [kind : {"STA_START", "STA_STOP", "DISCONNECTED", "GOT_IP"}, old : BOOLEAN]

Event(kind) == << [kind |-> kind, old |-> FALSE] >>

RuntimeTypeOK ==
  /\ sta \in [started : BOOLEAN, has_ip : BOOLEAN, interface_ready : BOOLEAN,
              stop_pending : BOOLEAN, expected : Profile \cup {NoProfile}]
  /\ retry \in [paused : BOOLEAN, online : BOOLEAN, in_flight : BOOLEAN,
                announced : BOOLEAN]
  /\ ap \in BOOLEAN
  /\ driver \in [up : BOOLEAN, profile : Profile \cup {NoProfile},
                 link : {"down", "trying", "joined"}, ip : BOOLEAN]
  /\ loop \in Seq(DriverEvents)

RetryStopped ==
  [paused |-> FALSE, online |-> FALSE, in_flight |-> FALSE, announced |-> FALSE]

RuntimeInit ==
  /\ sta = [started |-> FALSE, has_ip |-> FALSE, interface_ready |-> FALSE,
            stop_pending |-> FALSE, expected |-> NoProfile]
  /\ retry = RetryStopped
  /\ ap = FALSE
  /\ driver = [up |-> FALSE, profile |-> NoProfile, link |-> "down", ip |-> FALSE]
  /\ loop = << >>

-----------------------------------------------------------------------------
(* External: the driver as it is called.                                   *)
Disconnected(d) == [d EXCEPT !.link = "down", !.ip = FALSE]

DisconnectPosts(d) == IF d.link = "down" THEN << >> ELSE Event("DISCONNECTED")

(* esp_wifi_set_mode, with the station in the mode or not.                 *)
InMode(d, wanted) ==
  IF d.up = wanted THEN d ELSE [Disconnected(d) EXCEPT !.up = wanted]

ModePosts(d, wanted) ==
  CASE d.up = wanted -> << >>
    [] wanted        -> Event("STA_START")
    [] OTHER         -> DisconnectPosts(d) \o Event("STA_STOP")

Room == Len(loop) < MaxLoop

(* The driver on its own: it joins, gets an address, fails, loses the link.*)
DriverStep(d, posts) ==
  /\ Room
  /\ driver' = d /\ loop' = loop \o posts
  /\ UNCHANGED << sta, retry, ap >>

Joins == driver.link = "trying" /\ DriverStep([driver EXCEPT !.link = "joined"], << >>)

GetsAddress ==
  /\ driver.link = "joined" /\ ~driver.ip
  /\ DriverStep([driver EXCEPT !.ip = TRUE], Event("GOT_IP"))

LosesLink ==
  driver.link # "down" /\ DriverStep(Disconnected(driver), Event("DISCONNECTED"))

-----------------------------------------------------------------------------
(* provisioning_runtime_start_sta: the flags are set, then the driver is   *)
(* given mode and profile; when it refuses they are cleared again.         *)
StartSta(profile) ==
  /\ Room /\ ~sta.started
  /\ sta' = [sta EXCEPT !.started = TRUE, !.has_ip = FALSE, !.expected = profile]
  /\ retry' = RetryStopped
  /\ driver' = [InMode(driver, TRUE) EXCEPT !.profile = profile]
  /\ loop' = loop \o ModePosts(driver, TRUE)
  /\ UNCHANGED ap

StartStaFails(profile) ==
  /\ "start" \in DriverFaults /\ Room /\ ~sta.started
  /\ sta' = [sta EXCEPT !.has_ip = FALSE, !.expected = profile]
  /\ retry' = RetryStopped
  /\ \E applied \in BOOLEAN :
       LET d == InMode(driver, driver.up \/ applied)
       IN  /\ driver' = InMode(d, FALSE)
           /\ loop' = loop \o ModePosts(driver, d.up) \o ModePosts(d, FALSE)
  /\ UNCHANGED ap

(* provisioning_runtime_stop_sta.  Until STA_STOP has come through, what   *)
(* the event loop holds speaks of the old station.                         *)
Disconnects(d, posts) ==
  /\ driver' = d
  /\ loop' = loop \o DisconnectPosts(driver) \o posts

(* What a stop fences off: all that was posted before its STA_STOP, unless *)
(* the STA_STOP of an earlier stop is still among that.                    *)
StopWaits == \E i \in 1 .. Len(loop) : loop[i].kind = "STA_STOP"

FencedOff(events) ==
  [i \in 1 .. Len(events) |-> [events[i] EXCEPT !.old = @ \/ ~StopWaits]]

(* Faulty variant: stop_pending is not set.                                *)
StationOffOpenly(pending) ==
  sta' = [sta EXCEPT !.started = FALSE, !.has_ip = FALSE,
                     !.interface_ready = FALSE]

StationOff(pending) ==
  sta' = [sta EXCEPT !.started = FALSE, !.has_ip = FALSE,
                     !.interface_ready = FALSE, !.stop_pending = pending]

StopSta ==
  /\ Room
  /\ StationOff(sta.stop_pending \/ sta.started)
  /\ retry' = RetryStopped
  /\ IF sta.started
     THEN LET d == Disconnected(driver)
          IN  \/ /\ driver' = InMode(d, FALSE)
                 /\ loop' = FencedOff(loop \o DisconnectPosts(driver))
                              \o ModePosts(d, FALSE)
              \/ "stop" \in DriverFaults /\ Disconnects(d, << >>)
     ELSE UNCHANGED << driver, loop >>
  /\ UNCHANGED ap

(* provisioning_runtime_pause_retries.                                     *)
PauseRetries ==
  /\ Room
  /\ retry' = [retry EXCEPT !.paused = TRUE, !.in_flight = FALSE]
  /\ IF retry.in_flight THEN Disconnects(Disconnected(driver), << >>)
     ELSE UNCHANGED << driver, loop >>
  /\ UNCHANGED << sta, ap >>

(* provisioning_runtime_start_ap and _stop_ap apply the mode anew.         *)
SetAp(on) ==
  /\ Room /\ ap # on
  /\ ap' = on
  /\ driver' = InMode(driver, sta.started)
  /\ loop' = loop \o ModePosts(driver, sta.started)
  /\ UNCHANGED << sta, retry >>

(* The access point fails to start after the mode was applied.             *)
StartApFails ==
  /\ "access point" \in DriverFaults /\ Room /\ ~ap
  /\ driver' = InMode(driver, sta.started)
  /\ loop' = loop \o ModePosts(driver, sta.started)
  /\ UNCHANGED << sta, retry, ap >>

(* provisioning_runtime_scan: an access point alone gets a station for the *)
(* time of the scan.                                                       *)
Scan ==
  /\ Room /\ ap /\ ~driver.up /\ ~retry.in_flight
  /\ LET on == InMode(driver, TRUE)
     IN  \/ /\ driver' = InMode(on, sta.started)
            /\ loop' = loop \o ModePosts(driver, TRUE) \o ModePosts(on, sta.started)
         \/ /\ "scan" \in DriverFaults
            /\ driver' = on
            /\ loop' = loop \o ModePosts(driver, TRUE)
  /\ UNCHANGED << sta, retry, ap >>

-----------------------------------------------------------------------------
(* current_station_has_ip: what the driver itself says.                    *)
LiveIp == driver.link = "joined" /\ driver.ip /\ driver.profile = sta.expected

Online == [paused |-> FALSE, online |-> TRUE, in_flight |-> FALSE, announced |-> FALSE]

(* Faulty variant: the attempt that failed is still under way.             *)
FailedInFlight(r) == IF r.online /\ ~r.paused THEN RetryStopped ELSE r

(* provisioning_retry_failed, which a pause turns into nothing.            *)
Failed(r) ==
  IF r.paused THEN r
  ELSE IF r.online THEN RetryStopped
  ELSE [r EXCEPT !.in_flight = FALSE]

(* wifi_event_handler.                                                     *)
Handles(event) ==
  /\ loop # << >> /\ Head(loop).kind = event /\ loop' = Tail(loop)
  /\ UNCHANGED << ap, driver >>

OnStaStart ==
  /\ Handles("STA_START")
  /\ sta' = [sta EXCEPT !.interface_ready = ~sta.stop_pending]
  /\ UNCHANGED retry

OnStaStop ==
  /\ Handles("STA_STOP")
  /\ sta' = [sta EXCEPT !.interface_ready = FALSE, !.stop_pending = FALSE]
  /\ UNCHANGED retry

(* Faulty variant: the loss of an address is nobody's failure.             *)
OnDisconnectedAttempt ==
  /\ Handles("DISCONNECTED")
  /\ IF sta.started /\ ~sta.stop_pending /\ ~LiveIp /\ retry.in_flight
     THEN sta' = [sta EXCEPT !.has_ip = FALSE] /\ retry' = Failed(retry)
     ELSE UNCHANGED << sta, retry >>

OnDisconnected ==
  /\ Handles("DISCONNECTED")
  /\ IF /\ sta.started /\ ~sta.stop_pending /\ ~LiveIp
        /\ retry.in_flight \/ retry.online
     THEN sta' = [sta EXCEPT !.has_ip = FALSE] /\ retry' = Failed(retry)
     ELSE UNCHANGED << sta, retry >>

(* Faulty variant: a pause is not respected.                               *)
GotIpCountsPaused == sta.started /\ sta.interface_ready /\ ~sta.stop_pending

GotIpCounts ==
  /\ sta.started /\ sta.interface_ready /\ ~sta.stop_pending /\ ~retry.paused

OnGotIp ==
  /\ Handles("GOT_IP")
  /\ IF GotIpCounts /\ LiveIp
     THEN sta' = [sta EXCEPT !.has_ip = TRUE] /\ retry' = Online
     ELSE UNCHANGED << sta, retry >>

-----------------------------------------------------------------------------
(* wifi_timeout_task with provisioning_retry_poll: an outage is announced  *)
(* once, an attempt that takes too long is given up, a due attempt begins. *)
Polls ==
  sta.started /\ sta.interface_ready /\ ~sta.stop_pending
  /\ ~retry.paused /\ ~retry.online

Announced(r, announce) == [r EXCEPT !.announced = @ \/ announce]

PollAnnounces ==
  /\ Polls /\ ~retry.announced
  /\ retry' = Announced(retry, TRUE)
  /\ UNCHANGED << sta, ap, driver, loop >>

(* The attempt is over: an address that is there after all counts.         *)
PollAborts(announce) ==
  /\ Room /\ Polls /\ retry.in_flight
  /\ IF LiveIp
     THEN /\ retry' = Online /\ sta' = [sta EXCEPT !.has_ip = TRUE]
          /\ UNCHANGED << driver, loop >>
     ELSE /\ retry' = Announced(Failed(retry), announce) /\ UNCHANGED sta
          /\ Disconnects(Disconnected(driver), << >>)
  /\ UNCHANGED ap

(* esp_wifi_connect, which refuses politely what is connected already.     *)
PollConnects(announce) ==
  /\ Polls /\ ~retry.in_flight
  /\ \/ /\ retry' = Announced([retry EXCEPT !.in_flight = TRUE], announce)
        /\ driver' = IF driver.link = "down" THEN [driver EXCEPT !.link = "trying"]
                     ELSE driver
     \/ /\ "connect" \in DriverFaults
        /\ retry' = Announced(retry, announce) /\ UNCHANGED driver
  /\ UNCHANGED << sta, ap, loop >>

-----------------------------------------------------------------------------
RuntimeNext ==
  \/ \E profile \in Profile : StartSta(profile) \/ StartStaFails(profile)
  \/ StopSta \/ PauseRetries
  \/ \E on \in BOOLEAN : SetAp(on)
  \/ StartApFails \/ Scan
  \/ OnStaStart \/ OnStaStop \/ OnDisconnected \/ OnGotIp
  \/ PollAnnounces
  \/ \E announce \in BOOLEAN : PollAborts(announce) \/ PollConnects(announce)
  \/ Joins \/ GetsAddress \/ LosesLink

RuntimeSpec == RuntimeInit /\ [][RuntimeNext]_runtimeVars

(* The event loop runs; the task polls every 250 ms, so that an attempt    *)
(* that hangs is given up and a due one begins.                            *)
RuntimeFairness ==
  /\ WF_runtimeVars(OnStaStart) /\ WF_runtimeVars(OnStaStop)
  /\ WF_runtimeVars(OnDisconnected) /\ WF_runtimeVars(OnGotIp)
  /\ SF_runtimeVars(\E announce \in BOOLEAN : PollAborts(announce))
  /\ SF_runtimeVars(\E announce \in BOOLEAN : PollConnects(announce))

RuntimeFairSpec == RuntimeSpec /\ RuntimeFairness

-----------------------------------------------------------------------------
Status ==
  [started |-> sta.started, has_ip |-> sta.has_ip, retry_paused |-> retry.paused,
   recovery_due |-> sta.started /\ ~retry.paused /\ ~retry.online /\ retry.announced]

Port == INSTANCE StationPort WITH station <- Status

(* What the coordinator reads (provisioning_runtime_get_status, 1039) is a *)
(* station as StationPort describes it.                                    *)
ImplementsStationPort == Port!Spec

(* An address that is reported is one the driver has on the network asked  *)
(* for, or its loss is on the way: no event of an earlier station brings   *)
(* one up (wifi_event_handler, provisioning_runtime.c:407, 428).           *)
AddressIsLive ==
  sta.has_ip => LiveIp \/ \E i \in 1 .. Len(loop) : loop[i].kind = "DISCONNECTED"

(* "A STOP/START fence protects reconfiguration" (provisioning_runtime.c:  *)
(* 402): an outage or a failed attempt of a station that was stopped is    *)
(* not held against the one that followed.  (It may be when the earlier    *)
(* stop was itself made before the event loop had seen the one before.)    *)
Takes(event) == loop # << >> /\ Head(loop) = event /\ loop' = Tail(loop)

FailuresAreOwn ==
  [][\A event \in DriverEvents :
       Takes(event) /\ event.old
         => /\ retry.in_flight => retry'.in_flight
            /\ retry.online => retry'.online]_runtimeVars

(* The flag does not follow the interface: it stayed up through a stop, or *)
(* a scan, whose mode change failed, and STA_START is not coming.          *)
StartUnseen ==
  /\ driver.up /\ ~sta.interface_ready
  /\ \A i \in 1 .. Len(loop) : loop[i].kind # "STA_START"

(* CHANGELOG.md:29 says that the automatic retries go on behind the setup  *)
(* access point: a station that runs without an address goes on trying,    *)
(* whatever the driver's late events did to its flags, unless the start of *)
(* its interface was not seen (wifi_timeout_task).                         *)
KeepsTrying ==
  <>[](sta.started /\ ~retry.paused /\ ~sta.has_ip /\ ~StartUnseen)
    => []<>(driver.link # "down")

=============================================================================
