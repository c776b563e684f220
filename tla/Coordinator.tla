---------------------------- MODULE Coordinator ----------------------------
(***************************************************************************)
(* The coordinator of main/app_main.c: one task that takes events of the   *)
(* Wi-Fi station, of the MQTT relay and of the portal from a queue, runs   *)
(* them through the reducer (ProvisioningState) and starts or stops        *)
(* station, relay, access point and portal accordingly; once a second it   *)
(* compares its state with theirs, for events that were lost.              *)
(*                                                                         *)
(* The station is the one ProvisioningRuntime implements (StationPort),    *)
(* the relay is reduced to what the coordinator sees of MqttRelay.  Events *)
(* wait in a set: coming through two queues they may overtake each other,  *)
(* and any of them may be lost; the portal's commands keep their order.    *)
(* Deadlines are reached when the environment chooses.                     *)
(***************************************************************************)
EXTENDS ProvisioningState, Naturals, Sequences, FiniteSets

CONSTANTS
  Config,       \* valid configurations, one for each set of MQTT settings
  None,
  MaxEvents,    \* bound: events under way at a time
  MaxCommands,  \* bound: the portal's commands in the queue
  Faults        \* of "access point", "station", "relay", "flash" (writes),
                \* "reads" (of the flash), "loss", "restart"

ASSUME NoneAssumption == None \notin Config

VARIABLES
  station,   \* see StationPort
  app,       \* s_app, the relay and the access point
  events,    \* events under way to the coordinator
  commands,  \* CONFIG_CHANGED and RESET_PROVISIONING messages
  task,      \* where the coordinator is in handle_config_changed
  saving,    \* HTTP task: saved to flash and not yet posted, or None
  flash,     \* provision store: [config, marker]
  proven,    \* settings a client connected with (history)
  outage     \* this station was out for 45 s since it was started (history)

vars == << station, app, events, commands, task, saving, flash, proven, outage >>

Port == INSTANCE StationPort

StationEvents == {"WIFI_CONNECTED", "WIFI_DISCONNECTED", "WIFI_TIMEOUT"}
RelayEvents == {"MQTT_CONNECTED", "MQTT_DISCONNECTED", "MQTT_FAILED"}
Events == StationEvents \cup RelayEvents \cup {"PORTAL_IDLE_TIMEOUT"}

App ==
  [state : ReducerState, config : Config \cup {None},
   client : Config \cup {None},   \* settings the relay was initialised with
   mqtt : {"stopped", "connecting", "connected", "failing", "idle"},
   refused : BOOLEAN,             \* the last error is a broker's refusal
   retry : {"none", "waiting", "due"},
   ap : {"off", "on", "automatic"},
   recovery_timer : BOOLEAN]

Command == [type : {"config"}, config : Config] \cup [type : {"reset"}]

TypeOK ==
  /\ station \in Port!Station
  /\ app \in App
  /\ events \in SUBSET Events /\ Cardinality(events) <= MaxEvents
  /\ commands \in Seq(Command) /\ Len(commands) <= MaxCommands
  /\ task \in [at : {"idle", "replace", "start"}, config : Config \cup {None}]
  /\ saving \in Config \cup {None}
  /\ flash \in [config : Config \cup {None}, marker : Config \cup {None}]
  /\ proven \in SUBSET Config
  /\ outage \in BOOLEAN

-----------------------------------------------------------------------------
(* app_post_provisioning and mqtt_event_callback: an event that finds one  *)
(* of the queues full is lost, whatever fills them.                        *)
Emit(event) ==
  IF Cardinality(events \cup {event}) <= MaxEvents
  THEN events' \in {events \cup {event}} \cup (IF "loss" \in Faults THEN {events} ELSE {})
  ELSE UNCHANGED events

(* Faulty variant: events of a connection that was given up are believed.  *)
NotOutdated(waiting, kinds) == waiting

(* The generations carried by the events of a station or a client that has *)
(* been stopped no longer match: the events are as good as gone.           *)
Outdated(waiting, kinds) == waiting \ kinds

-----------------------------------------------------------------------------
(* The relay as the coordinator calls it.                                  *)
CancelRetry(a) == [a EXCEPT !.retry = "none"]

(* suspend_mqtt_for_wifi: the client is stopped and kept.                  *)
SuspendMqtt(a) == [CancelRetry(a) EXCEPT !.mqtt = "stopped"]

(* stop_mqtt.                                                              *)
StopMqtt(a) ==
  [CancelRetry(a) EXCEPT !.client = None, !.mqtt = "stopped", !.refused = FALSE]

(* schedule_mqtt_retry, which leaves an active timer alone.                *)
ScheduleRetry(a, s) ==
  IF ~s.has_ip \/ s.retry_paused THEN a ELSE [a EXCEPT !.retry = "waiting"]

(* start_or_reconnect_mqtt.  The client refuses a reconnection before the  *)
(* failed one is closed.                                                   *)
StartOrReconnect(a, s, ok) ==
  IF \/ a.config = None \/ ~a.state.wifi_connected
     \/ ~s.has_ip \/ s.retry_paused
     \/ a.mqtt \in {"connecting", "connected"}
  THEN a
  ELSE IF ok /\ a.mqtt # "failing"
       THEN [a EXCEPT !.client = IF @ = None THEN a.config ELSE @,
                      !.mqtt = "connecting"]
       ELSE ScheduleRetry(a, s)

(* apply_reducer_requirements: recovery portal and access point.  The      *)
(* portal's HTTP server is there whenever its access point is.             *)
ApplyRequirements(a, ok) ==
  IF ~ApRequired(a.state) THEN [a EXCEPT !.ap = "off"]
  ELSE IF a.ap = "off" /\ ok THEN [a EXCEPT !.ap = "on"] ELSE a

(* provisioning_runtime_enter_stable_recovery.                             *)
EnterRecovery(a, ok) ==
  IF ok \/ a.ap # "off" THEN [a EXCEPT !.ap = "automatic"] ELSE a

-----------------------------------------------------------------------------
(* The handlers, as functions of s_app.  ok: what the fallible calls of    *)
(* this turn do; reached: how the one comparison with the clock that the   *)
(* event makes turns out.                                                  *)
Works == [access_point : BOOLEAN, relay : BOOLEAN]

WorksAsFar(faults) ==
  {ok \in Works : /\ ok.access_point \/ "access point" \in faults
                  /\ ok.relay \/ "relay" \in faults}

(* handle_provisioning_event for each event the reducer knows.             *)
OnWifiConnected(a, s, ok) ==
  ApplyRequirements(
    StartOrReconnect([a EXCEPT !.state = WifiUp(@)], s, ok.relay),
    ok.access_point)

OnWifiDisconnected(a, ok) ==
  ApplyRequirements(SuspendMqtt([a EXCEPT !.state = WifiLost(@)]), ok.access_point)

OnWifiTimeout(a, ok) ==
  ApplyRequirements(
    SuspendMqtt(EnterRecovery([a EXCEPT !.state = WifiTimeout(@)], ok.access_point)),
    ok.access_point)

(* BOOT_VALID_CONFIG: settings whose marker is stored count as verified.   *)
Verified(a, marker) ==
  IF a.config # None /\ marker = a.config
  THEN [a EXCEPT !.state = SettingsVerified(@)] ELSE a

ValidConfig(a, marker) ==
  Verified([a EXCEPT !.state = AfterBoot(TRUE)], marker)

OnBootValid(a, marker, ok) ==
  ApplyRequirements(ValidConfig(a, marker), ok.access_point)

OnBootNone(a, ok) ==
  ApplyRequirements(StopMqtt([a EXCEPT !.state = AfterBoot(FALSE)]), ok.access_point)

OnBootHeld(a, ok) ==
  ApplyRequirements(
    [a EXCEPT !.state = BootHeld(@), !.recovery_timer = TRUE], ok.access_point)

OnPortalIdle(a, reached, ok) ==
  ApplyRequirements(
    [a EXCEPT !.state = PortalIdle(@, reached), !.recovery_timer = FALSE],
    ok.access_point)

(* handle_mqtt_event.                                                      *)
OnMqttConnected(a, ok) ==
  ApplyRequirements(CancelRetry([a EXCEPT !.state = MqttUp(@)]), ok.access_point)

OnMqttDown(a, s, failed, reached, ok) ==
  LET reduced == IF failed /\ a.refused THEN MqttRejected(a.state, reached)
                 ELSE MqttFailed(a.state, reached)
  IN  ApplyRequirements(
        ScheduleRetry([a EXCEPT !.state = reduced], s), ok.access_point)

(* The relay's status has to agree with the event when it is handled.      *)
BelievesRelay(a, s, event) ==
  /\ s.has_ip /\ ~s.retry_paused
  /\ (event = "MQTT_CONNECTED") = (a.mqtt = "connected")

(* The filter of handle_provisioning_event on the station's events.        *)
BelievesStation(s, event) ==
  /\ s.started /\ ~s.retry_paused
  /\ (event = "WIFI_CONNECTED") = s.has_ip

-----------------------------------------------------------------------------
(* Boot, from provisioning_runtime_init to the boot event, which is the    *)
(* first in the coordinator's queue.  The station that does not start      *)
(* leaves the portal of a device without configuration.                    *)
Fresh(config) ==
  [state |-> AfterBoot(FALSE), config |-> config, client |-> None,
   mqtt |-> "stopped", refused |-> FALSE, retry |-> "none", ap |-> "off",
   recovery_timer |-> FALSE]

(* provision_store_load and provision_store_load_mqtt_verified: reads that *)
(* fail find nothing, or an older configuration in the store's other slot. *)
Loaded(config) ==
  {config} \cup
  IF "reads" \in Faults /\ config # None THEN Config \cup {None} ELSE {}

LoadedMarker(marker) == {marker} \cup IF "reads" \in Faults THEN {None} ELSE {}

Booted(store, s, a) ==
  \E config \in Loaded(store.config), ok \in WorksAsFar(Faults) :
    \/ /\ config # None
       /\ s = Port!Started
       /\ \E marker \in LoadedMarker(store.marker) :
            a = OnBootValid(Fresh(config), marker, ok)
    \/ /\ config = None \/ "station" \in Faults
       /\ s = Port!Stopped
       /\ a = OnBootNone(Fresh(config), ok)

Init ==
  /\ flash \in [config : Config \cup {None}, marker : {None}]
  /\ Booted(flash, station, app)
  /\ events = {} /\ commands = << >> /\ saving = None
  /\ task = [at |-> "idle", config |-> None]
  /\ proven = {} /\ outage = FALSE

Restart ==
  /\ "restart" \in Faults
  /\ Booted(flash, station', app')
  /\ events' = {} /\ commands' = << >> /\ saving' = None
  /\ task' = [at |-> "idle", config |-> None]
  /\ outage' = FALSE
  /\ UNCHANGED << flash, proven >>

-----------------------------------------------------------------------------
(* The station: its state changes, and its task posts the event.           *)
StationMoves == UNCHANGED << app, commands, task, saving, flash, proven >>

IpUp == Port!IpUp /\ Emit("WIFI_CONNECTED") /\ StationMoves /\ UNCHANGED outage

IpDown == Port!IpDown /\ Emit("WIFI_DISCONNECTED") /\ StationMoves /\ UNCHANGED outage

OutageLong ==
  Port!OutageLong /\ Emit("WIFI_TIMEOUT") /\ StationMoves /\ outage' = TRUE

(* The relay's client, which stops by itself only in "idle".               *)
Relay(from, to, refused) ==
  /\ app.mqtt \in from
  /\ app' = [app EXCEPT !.mqtt = to, !.refused = refused]
  /\ UNCHANGED << station, commands, task, saving, flash, outage >>

RelayConnects ==
  /\ station.has_ip
  /\ Relay({"connecting"}, "connected", FALSE)
  /\ proven' = proven \cup {app.client}
  /\ Emit("MQTT_CONNECTED")

RelayFails ==
  /\ \E refused \in {FALSE, app.mqtt = "connecting"} :
       Relay({"connecting", "connected"}, "failing", refused)
  /\ Emit("MQTT_FAILED") /\ UNCHANGED proven

RelayCloses ==
  /\ Relay({"connecting", "connected", "failing"}, "idle", app.refused)
  /\ Emit("MQTT_DISCONNECTED") /\ UNCHANGED proven

-----------------------------------------------------------------------------
(* One turn of coordinator_task.  Stopping the portal waits for the        *)
(* request that is being served.                                           *)
Becomes(a) ==
  /\ app' = a
  /\ app.ap # "off" /\ a.ap = "off" => saving = None

Turn(a) ==
  /\ task.at = "idle"
  /\ Becomes(a)
  /\ UNCHANGED << station, commands, task, saving, proven, outage >>

Takes(event) == event \in events /\ events' = events \ {event}

HandleStation(event, ok) ==
  /\ Takes(event)
  /\ Turn(IF ~BelievesStation(station, event) THEN app
          ELSE CASE event = "WIFI_CONNECTED"    -> OnWifiConnected(app, station, ok)
                 [] event = "WIFI_DISCONNECTED" -> OnWifiDisconnected(app, ok)
                 [] event = "WIFI_TIMEOUT"      -> OnWifiTimeout(app, ok))
  /\ UNCHANGED flash

(* remember_verified_mqtt_settings.                                        *)
Remember(a) ==
  \/ flash' = [flash EXCEPT !.marker = a.config]
  \/ "flash" \in Faults /\ UNCHANGED flash

HandleRelayUp(ok) ==
  /\ Takes("MQTT_CONNECTED")
  /\ IF BelievesRelay(app, station, "MQTT_CONNECTED")
     THEN Turn(OnMqttConnected(app, ok)) /\ Remember(app)
     ELSE Turn(app) /\ UNCHANGED flash

HandleRelayDown(event, ok) ==
  /\ event \in {"MQTT_FAILED", "MQTT_DISCONNECTED"} /\ Takes(event)
  /\ IF BelievesRelay(app, station, event)
     THEN \E reached \in BOOLEAN :
            Turn(OnMqttDown(app, station, event = "MQTT_FAILED", reached, ok))
     ELSE Turn(app)
  /\ UNCHANGED flash

HandlePortalIdle(ok) ==
  /\ Takes("PORTAL_IDLE_TIMEOUT")
  /\ \E reached \in BOOLEAN : Turn(OnPortalIdle(app, reached, ok))
  /\ UNCHANGED flash

(* BOOT was held for three seconds.                                        *)
BootButton(ok) ==
  Turn(OnBootHeld(app, ok)) /\ UNCHANGED << events, flash >>

(* APP_EVENT_MQTT_CONNECT_NOW of the portal's test, and APP_EVENT_MQTT_RETRY*)
ConnectNow(ok) ==
  /\ Turn(StartOrReconnect(CancelRetry(app), station, ok.relay))
  /\ UNCHANGED << events, flash >>

RetryDue(ok) == app.retry = "due" /\ ConnectNow(ok)

(* The timers.  The portal's runs out before the reducer's deadline or     *)
(* after it: it counts ticks of 10 ms from the last one, the reducer       *)
(* milliseconds from the call.                                             *)
Timer(a) ==
  /\ app' = a
  /\ UNCHANGED << station, commands, task, saving, flash, proven, outage >>

RetryTimer ==
  /\ app.retry = "waiting"
  /\ Timer([app EXCEPT !.retry = "due"]) /\ UNCHANGED events

RecoveryTimer ==
  /\ app.recovery_timer
  /\ Timer([app EXCEPT !.recovery_timer = FALSE]) /\ Emit("PORTAL_IDLE_TIMEOUT")

-----------------------------------------------------------------------------
(* reconcile_network_state, once a second.                                 *)
(* The station's address; alone, in the place of PolledStation, it is a    *)
(* faulty variant that forgets the outage.                                 *)
PolledAddress(a, s, ok) ==
  IF s.has_ip = a.state.wifi_connected THEN a
  ELSE IF s.has_ip THEN OnWifiConnected(a, s, ok) ELSE OnWifiDisconnected(a, ok)

PolledStation(a, s, ok) ==
  LET known == PolledAddress(a, s, ok)
  IN  IF s.recovery_due /\ a.ap # "automatic" THEN OnWifiTimeout(known, ok)
      ELSE known

(* Faulty variant: a retry that was never scheduled is not missed.         *)
PolledDueRetry(a, s, ok) ==
  IF a.mqtt \in {"connecting", "connected"} \/ a.retry # "due" THEN a
  ELSE StartOrReconnect(CancelRetry(a), s, ok.relay)

PolledRetry(a, s, ok) ==
  IF a.mqtt \in {"connecting", "connected"} THEN a
  ELSE CASE a.retry = "due"     -> StartOrReconnect(CancelRetry(a), s, ok.relay)
         [] a.retry = "none"    -> ScheduleRetry(a, s)
         [] a.retry = "waiting" -> a

(* Faulty variant: the poll looks at nothing.                              *)
BlindPoll(ok) == Turn(app) /\ UNCHANGED << events, flash >>

(* The relay's state is compared with s_app as it was before the station's *)
(* part.                                                                   *)
Poll(ok) ==
  LET a == PolledStation(app, station, ok)
      connected == a.mqtt = "connected"
  IN  /\ Port!Runs
      /\ IF station.has_ip /\ connected # app.state.mqtt_connected
         THEN IF connected
              THEN Turn(OnMqttConnected(a, ok)) /\ Remember(a)
              ELSE /\ \E reached \in BOOLEAN :
                        Turn(OnMqttDown(a, station, TRUE, reached, ok))
                   /\ UNCHANGED flash
         ELSE /\ Turn(IF station.has_ip THEN PolledRetry(a, station, ok) ELSE a)
              /\ UNCHANGED flash
      /\ UNCHANGED events

-----------------------------------------------------------------------------
(* handle_config_changed, in three parts: it waits for the HTTP answer to  *)
(* be on its way, then replaces the profile, then starts the station.      *)
Commanded(type) ==
  /\ task.at = "idle" /\ commands # << >> /\ Head(commands).type = type
  /\ commands' = Tail(commands)

Freeze ==
  /\ Commanded("config")
  /\ station' = Port!Paused(station)
  /\ app' = CancelRetry(app)
  /\ task' = [at |-> "replace", config |-> Head(commands).config]
  /\ UNCHANGED << events, saving, flash, proven, outage >>

Given(a, config) == [StopMqtt(a) EXCEPT !.config = config]

Replace(ok) ==
  /\ task.at = "replace"
  /\ station' = Port!Stopped
  /\ \E marker \in LoadedMarker(flash.marker) :   \* as at boot
       Becomes(ApplyRequirements(
         ValidConfig(Given(app, task.config), marker), ok.access_point))
  /\ events' = Outdated(events, StationEvents \cup RelayEvents)
  /\ task' = [at |-> "start", config |-> None]
  /\ outage' = FALSE
  /\ UNCHANGED << commands, saving, flash, proven >>

StartStation(ok) ==
  /\ task.at = "start"
  /\ \/ station' = Port!Started /\ app' = OnBootHeld(app, ok)
     \/ /\ "station" \in Faults
        /\ app' = OnWifiTimeout(app, ok) /\ UNCHANGED station
  /\ task' = [at |-> "idle", config |-> None]
  /\ UNCHANGED << events, commands, saving, flash, proven, outage >>

(* handle_reset_provisioning.                                              *)
Reset(ok) ==
  /\ Commanded("reset")
  /\ station' = Port!Stopped
  /\ app' = OnBootNone(Given(app, None), ok)
  /\ events' = Outdated(events, StationEvents \cup RelayEvents)
  /\ flash' = [config |-> None, marker |-> None]
  /\ outage' = FALSE
  /\ UNCHANGED << task, saving, proven >>

ResetFails ==
  /\ "flash" \in Faults /\ Commanded("reset")
  /\ UNCHANGED << station, app, events, task, saving, flash, proven, outage >>

-----------------------------------------------------------------------------
(* The portal's HTTP task: a configuration is saved, loaded again and then *)
(* posted; when the queue is full the answer says that it was saved and    *)
(* not taken over, and when the load fails, that the save did.             *)
Http == UNCHANGED << station, app, events, task, proven, outage >>

Save(config) ==
  /\ app.ap # "off" /\ saving = None
  /\ flash' = [flash EXCEPT !.config = config]
  /\ saving' = config
  /\ UNCHANGED commands /\ Http

PostConfig ==
  /\ saving # None /\ saving' = None
  /\ \/ /\ Len(commands) < MaxCommands
        /\ commands' = Append(commands, [type |-> "config", config |-> saving])
     \/ /\ Len(commands) >= MaxCommands \/ "reads" \in Faults
        /\ UNCHANGED commands
  /\ UNCHANGED flash /\ Http

RequestReset ==
  /\ app.ap # "off" /\ saving = None
  /\ Len(commands) < MaxCommands
  /\ commands' = Append(commands, [type |-> "reset"])
  /\ UNCHANGED << saving, flash >> /\ Http

-----------------------------------------------------------------------------
Handles(ok) ==
  \/ \E event \in StationEvents : HandleStation(event, ok)
  \/ HandleRelayUp(ok)
  \/ \E event \in RelayEvents : HandleRelayDown(event, ok)
  \/ HandlePortalIdle(ok)
  \/ BootButton(ok)
  \/ ConnectNow(ok)
  \/ RetryDue(ok)
  \/ Poll(ok)
  \/ Replace(ok)
  \/ StartStation(ok)
  \/ Reset(ok)

Next ==
  \/ \E ok \in WorksAsFar(Faults) : Handles(ok)
  \/ IpUp \/ IpDown \/ OutageLong
  \/ RelayConnects \/ RelayFails \/ RelayCloses
  \/ RetryTimer \/ RecoveryTimer
  \/ Freeze \/ ResetFails
  \/ \E config \in Config : Save(config)
  \/ PostConfig \/ RequestReset
  \/ Restart

Spec == Init /\ [][Next]_vars

(* The poll's timer is periodic and the retry timer runs out; a call that  *)
(* is made again and again works at some time; the HTTP task gets on; the  *)
(* client closes a connection that failed.  Nothing more is assumed of     *)
(* network, broker, flash and user, and events may all be lost.            *)
AllWorks == [access_point |-> TRUE, relay |-> TRUE]

PollingFairness ==
  /\ SF_vars(Poll(AllWorks))
  /\ WF_vars(RetryTimer)
  /\ WF_vars(PostConfig)
  /\ WF_vars(app.mqtt = "failing" /\ RelayCloses)

PollingSpec == Spec /\ PollingFairness

-----------------------------------------------------------------------------
(* The marker of verified settings (remember_verified_mqtt_settings,       *)
(* app_main.c:720) names settings a client really connected with, however  *)
(* configuration changes, late events and lost ones mix: proven settings   *)
(* are retried for ever, the wrong ones would close the user out.          *)
MarkerIsEarned == flash.marker \in proven \cup {None}

(* A client that exists was made for the configuration in force: no retry, *)
(* poll or test connects with settings that were replaced or erased        *)
(* (stop_mqtt, app_main.c:473; start_or_reconnect_mqtt, 629).              *)
ClientIsCurrent == app.client \in {app.config, None}

(* Proven settings keep the setup network closed: recovery is required of  *)
(* them only after this station's own long outage, after long refusals, or *)
(* when the station could not be started (handle_provisioning_event,       *)
(* app_main.c:779; provisioning_state.c:96).                               *)
RecoveryHasAReason ==
  [][~app.state.recovery_required /\ app'.state.recovery_required
       => \/ outage \/ task.at = "start"
          \/ ~app.state.mqtt_settings_verified
          \/ app'.state.mqtt_refusal_recovery]_vars

(* A lasting outage opens the recovery access point even when the event    *)
(* that announces it is lost or the access point fails to start at first   *)
(* (reconcile_network_state, app_main.c:994).                              *)
OutageOpensAP == <>[]station.recovery_due => <>[](app.ap = "automatic")

(* With an address and a configuration, connection attempts never cease,   *)
(* whatever events are lost (reconcile_network_state, app_main.c:999).  A  *)
(* relay that is connecting counts as attempting for as long as it says so *)
(* (see ComesBack in MqttRelay for how it may say so for ever).            *)
AttemptsGoOn ==
  <>[](station.has_ip /\ Port!Runs /\ app.config # None)
    => []<>(app.mqtt \in {"connecting", "connected"})

(* A connection that lasts is noticed and ends recovery, though its event  *)
(* was lost (reconcile_network_state, app_main.c:1002).                    *)
ConnectionEndsRecovery ==
  <>[](app.mqtt = "connected" /\ station.has_ip /\ Port!Runs)
    => <>[](app.state.mqtt_connected /\ ~app.state.recovery_required)

(* "boot hold opens bounded recovery" (test_provisioning_state.c:162): an  *)
(* open window has a timer that will close it.                             *)
WindowIsBounded ==
  app.state.recovery_window =>
    app.recovery_timer \/ "PORTAL_IDLE_TIMEOUT" \in events

=============================================================================
