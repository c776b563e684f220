------------------------- MODULE Coordinator_proofs -------------------------
(***************************************************************************)
(* The relay's client and the marker of verified settings keep to the      *)
(* configuration in force, for any configurations, any bounds and any      *)
(* faults.  The invariant behind both: a client that is not stopped is     *)
(* there, was made for the configuration in force, and once connected its  *)
(* settings are proven.  One lemma for each function of s_app.  Recovery   *)
(* has a reason because the outage that the reducer holds is the station's *)
(* own (OutageIsKnown).                                                    *)
(***************************************************************************)
EXTENDS Coordinator, TLAPS

SoundApp(p) ==
  {a \in App : /\ a.client \in {a.config, None}
               /\ a.mqtt # "stopped" => a.client # None
               /\ a.mqtt = "connected" => a.client \in p}

QueuesTyped ==
  /\ commands \in Seq(Command)
  /\ task \in [at : {"idle", "replace", "start"}, config : Config \cup {None}]
  /\ task.at = "replace" => task.config \in Config
  /\ saving \in Config \cup {None}
  /\ flash \in [config : Config \cup {None}, marker : Config \cup {None}]

IInv == app \in SoundApp(proven) /\ QueuesTyped /\ MarkerIsEarned

-----------------------------------------------------------------------------
(* The reducer leads from a state to a state.                              *)
LEMMA SettingType ==
  ASSUME NEW s \in ReducerState
  PROVE  /\ WifiUp(s) \in ReducerState /\ WifiLost(s) \in ReducerState
         /\ WifiTimeout(s) \in ReducerState /\ ForgetRefusal(s) \in ReducerState
         /\ Unproven(s) \in ReducerState /\ SettingsVerified(s) \in ReducerState
         /\ BootHeld(s) \in ReducerState
BY DEF ReducerState, WifiUp, WifiLost, WifiTimeout, ForgetRefusal, Unproven,
       SettingsVerified, BootHeld

LEMMA AfterBootType == AfterBoot(TRUE) \in ReducerState /\ AfterBoot(FALSE) \in ReducerState
BY DEF AfterBoot, ReducerState

LEMMA MqttUpType ==
  ASSUME NEW s \in ReducerState
  PROVE  MqttUp(s) \in ReducerState
BY DEF ReducerState, MqttUp, ForgetRefusal

LEMMA MqttFailedType ==
  ASSUME NEW s \in ReducerState, NEW pair \in BOOLEAN
  PROVE  MqttFailed(s, pair) \in ReducerState
<1> DEFINE offline == [s EXCEPT !.mqtt_connected = FALSE]
           kept == IF s.mqtt_refusal_recovery THEN offline ELSE ForgetRefusal(offline)
<1>1. offline \in ReducerState
  BY DEF ReducerState
<1>2. kept \in ReducerState
  BY <1>1, SettingType
<1>3. s.mqtt_refusal_recovery \in BOOLEAN
  BY DEF ReducerState
<1> HIDE DEF kept
<1>4. [kept EXCEPT !.recovery_required = s.mqtt_refusal_recovery] \in ReducerState
  BY <1>2, <1>3 DEF ReducerState
<1> QED
  BY <1>1, <1>4, SettingType DEF MqttFailed, kept

LEMMA MqttRejectedType ==
  ASSUME NEW s \in ReducerState, NEW long \in BOOLEAN
  PROVE  MqttRejected(s, long) \in ReducerState
<1> DEFINE recovery == s.mqtt_refusal_recovery \/ (s.mqtt_rejecting /\ long)
           counted == [s EXCEPT !.mqtt_connected = FALSE, !.mqtt_rejecting = TRUE,
                                !.mqtt_refusal_recovery = recovery]
<1>1. recovery \in BOOLEAN
  OBVIOUS
<1> HIDE DEF recovery
<1>2. counted \in ReducerState
  BY <1>1 DEF ReducerState
<1> HIDE DEF counted
<1>3. [counted EXCEPT !.recovery_required = recovery] \in ReducerState
  BY <1>1, <1>2 DEF ReducerState
<1> QED
  BY <1>2, <1>3, SettingType DEF MqttRejected, counted, recovery

LEMMA PortalIdleType ==
  ASSUME NEW s \in ReducerState, NEW over \in BOOLEAN
  PROVE  PortalIdle(s, over) \in ReducerState
BY DEF ReducerState, PortalIdle

-----------------------------------------------------------------------------
(* The functions of s_app that stop, start and forget the relay.           *)
LEMMA InState ==
  ASSUME NEW p, NEW a \in SoundApp(p), NEW s \in ReducerState
  PROVE  [a EXCEPT !.state = s] \in SoundApp(p)
BY DEF SoundApp, App

LEMMA CancelRetrySound ==
  ASSUME NEW p, NEW a \in SoundApp(p)
  PROVE  CancelRetry(a) \in SoundApp(p)
BY DEF SoundApp, App, CancelRetry

LEMMA SuspendSound ==
  ASSUME NEW p, NEW a \in SoundApp(p)
  PROVE  SuspendMqtt(a) \in SoundApp(p)
BY DEF SoundApp, App, CancelRetry, SuspendMqtt

LEMMA StopSound ==
  ASSUME NEW p, NEW a \in SoundApp(p)
  PROVE  StopMqtt(a) \in SoundApp(p)
BY DEF SoundApp, App, CancelRetry, StopMqtt

LEMMA GivenSound ==
  ASSUME NEW p, NEW a \in SoundApp(p), NEW config \in Config \cup {None}
  PROVE  Given(a, config) \in SoundApp(p)
BY DEF SoundApp, App, CancelRetry, StopMqtt, Given

LEMMA ScheduleSound ==
  ASSUME NEW p, NEW a \in SoundApp(p), NEW s
  PROVE  ScheduleRetry(a, s) \in SoundApp(p)
BY DEF SoundApp, App, ScheduleRetry

LEMMA StartSound ==
  ASSUME NEW p, NEW a \in SoundApp(p), NEW s, NEW ok
  PROVE  StartOrReconnect(a, s, ok) \in SoundApp(p)
<1>1. ASSUME a.config # None
      PROVE  [a EXCEPT !.client = IF @ = None THEN a.config ELSE @,
                       !.mqtt = "connecting"] \in SoundApp(p)
  BY <1>1 DEF SoundApp, App
<1> QED
  BY <1>1, ScheduleSound DEF StartOrReconnect

LEMMA RequirementsSound ==
  ASSUME NEW p, NEW a \in SoundApp(p), NEW ok
  PROVE  ApplyRequirements(a, ok) \in SoundApp(p)
BY DEF SoundApp, App, ApplyRequirements

LEMMA RecoverySound ==
  ASSUME NEW p, NEW a \in SoundApp(p), NEW ok
  PROVE  EnterRecovery(a, ok) \in SoundApp(p)
BY DEF SoundApp, App, EnterRecovery

-----------------------------------------------------------------------------
(* The handlers.                                                           *)
LEMMA StateOf ==
  ASSUME NEW p, NEW a \in SoundApp(p)
  PROVE  a.state \in ReducerState
BY DEF SoundApp, App

LEMMA OnWifiSound ==
  ASSUME NEW p, NEW a \in SoundApp(p), NEW s, NEW ok
  PROVE  /\ OnWifiConnected(a, s, ok) \in SoundApp(p)
         /\ OnWifiDisconnected(a, ok) \in SoundApp(p)
         /\ OnWifiTimeout(a, ok) \in SoundApp(p)
<1>1. /\ [a EXCEPT !.state = WifiUp(@)] \in SoundApp(p)
      /\ [a EXCEPT !.state = WifiLost(@)] \in SoundApp(p)
      /\ [a EXCEPT !.state = WifiTimeout(@)] \in SoundApp(p)
  BY StateOf, SettingType, InState
<1>2. OnWifiConnected(a, s, ok) \in SoundApp(p)
  BY <1>1, StartSound, RequirementsSound DEF OnWifiConnected
<1>3. OnWifiDisconnected(a, ok) \in SoundApp(p)
  BY <1>1, SuspendSound, RequirementsSound DEF OnWifiDisconnected
<1>4. OnWifiTimeout(a, ok) \in SoundApp(p)
  BY <1>1, RecoverySound, SuspendSound, RequirementsSound DEF OnWifiTimeout
<1> QED
  BY <1>2, <1>3, <1>4

LEMMA BootSound ==
  ASSUME NEW p, NEW a \in SoundApp(p), NEW marker, NEW ok
  PROVE  /\ ValidConfig(a, marker) \in SoundApp(p)
         /\ OnBootValid(a, marker, ok) \in SoundApp(p)
         /\ OnBootNone(a, ok) \in SoundApp(p)
         /\ OnBootHeld(a, ok) \in SoundApp(p)
<1> DEFINE booted == [a EXCEPT !.state = AfterBoot(TRUE)]
           empty == [a EXCEPT !.state = AfterBoot(FALSE)]
           held == [a EXCEPT !.state = BootHeld(@), !.recovery_timer = TRUE]
<1>1. booted \in SoundApp(p) /\ empty \in SoundApp(p)
  BY AfterBootType, InState
<1> HIDE DEF booted
<1>2. Verified(booted, marker) \in SoundApp(p)
  <2>1. [booted EXCEPT !.state = SettingsVerified(@)] \in SoundApp(p)
    BY <1>1, StateOf, SettingType, InState
  <2> QED
    BY <1>1, <2>1 DEF Verified
<1>3. ValidConfig(a, marker) \in SoundApp(p)
  BY <1>2 DEF ValidConfig, booted
<1>4. OnBootNone(a, ok) \in SoundApp(p)
  BY <1>1, StopSound, RequirementsSound DEF OnBootNone
<1>5. held \in SoundApp(p)
  <2>1. BootHeld(a.state) \in ReducerState
    BY StateOf, SettingType
  <2> QED
    BY <2>1 DEF SoundApp, App
<1> QED
  BY <1>3, <1>4, <1>5, RequirementsSound DEF OnBootValid, OnBootHeld

LEMMA OnPortalIdleSound ==
  ASSUME NEW p, NEW a \in SoundApp(p), NEW reached \in BOOLEAN, NEW ok
  PROVE  OnPortalIdle(a, reached, ok) \in SoundApp(p)
<1>1. PortalIdle(a.state, reached) \in ReducerState
  BY StateOf, PortalIdleType
<1>2. [a EXCEPT !.state = PortalIdle(@, reached), !.recovery_timer = FALSE]
        \in SoundApp(p)
  BY <1>1 DEF SoundApp, App
<1> QED
  BY <1>2, RequirementsSound DEF OnPortalIdle

LEMMA OnMqttSound ==
  ASSUME NEW p, NEW a \in SoundApp(p), NEW s, NEW failed, NEW reached \in BOOLEAN,
         NEW ok
  PROVE  /\ OnMqttConnected(a, ok) \in SoundApp(p)
         /\ OnMqttDown(a, s, failed, reached, ok) \in SoundApp(p)
<1>1. /\ MqttUp(a.state) \in ReducerState
      /\ MqttFailed(a.state, reached) \in ReducerState
      /\ MqttRejected(a.state, reached) \in ReducerState
  BY StateOf, MqttUpType, MqttFailedType, MqttRejectedType
<1>2. OnMqttConnected(a, ok) \in SoundApp(p)
  BY <1>1, InState, CancelRetrySound, RequirementsSound DEF OnMqttConnected
<1>3. OnMqttDown(a, s, failed, reached, ok) \in SoundApp(p)
  BY <1>1, InState, ScheduleSound, RequirementsSound DEF OnMqttDown
<1> QED
  BY <1>2, <1>3

LEMMA FreshSound ==
  ASSUME NEW p, NEW config \in Config \cup {None}
  PROVE  Fresh(config) \in SoundApp(p)
BY AfterBootType DEF Fresh, SoundApp, App

LEMMA BootedSound ==
  ASSUME NEW p, NEW store \in [config : Config \cup {None}, marker : Config \cup {None}],
         NEW s, NEW a, Booted(store, s, a)
  PROVE  a \in SoundApp(p)
<1>1. \E config \in Config \cup {None} : \E marker, ok :
        a \in {OnBootValid(Fresh(config), marker, ok), OnBootNone(Fresh(config), ok)}
  BY DEF Booted, Loaded
<1>2. PICK config \in Config \cup {None} : \E marker, ok :
        a \in {OnBootValid(Fresh(config), marker, ok), OnBootNone(Fresh(config), ok)}
  BY <1>1
<1> QED
  BY <1>2, FreshSound, BootSound

-----------------------------------------------------------------------------
(* The steps.  First those that turn s_app into another sound one.         *)
LEMMA TurnKeeps ==
  ASSUME IInv, NEW a \in SoundApp(proven), Turn(a), UNCHANGED flash
  PROVE  IInv'
BY DEF IInv, Turn, Becomes, QueuesTyped, MarkerIsEarned, SoundApp

(* The marker is written only when the relay is connected.                 *)
LEMMA RememberKeeps ==
  ASSUME IInv, NEW a \in SoundApp(proven), Turn(a),
         NEW known \in SoundApp(proven), known.mqtt = "connected", Remember(known)
  PROVE  IInv'
<1>1. known.config \in proven /\ known.config \in Config \cup {None}
  BY DEF SoundApp, App
<1>2. flash' = flash \/ flash' = [flash EXCEPT !.marker = known.config]
  BY DEF Remember
<1>3. /\ flash' \in [config : Config \cup {None}, marker : Config \cup {None}]
      /\ flash'.marker \in proven \cup {None}
  BY <1>1, <1>2 DEF IInv, QueuesTyped, MarkerIsEarned
<1>4. /\ app' = a /\ commands' = commands /\ task' = task /\ saving' = saving
      /\ proven' = proven
  BY DEF Turn, Becomes
<1> QED
  BY <1>3, <1>4 DEF IInv, QueuesTyped, MarkerIsEarned, SoundApp

LEMMA StationEventsKeep ==
  ASSUME IInv, NEW ok, NEW event \in StationEvents, HandleStation(event, ok)
  PROVE  IInv'
<1> DEFINE a == IF ~BelievesStation(station, event) THEN app
                ELSE CASE event = "WIFI_CONNECTED"    -> OnWifiConnected(app, station, ok)
                       [] event = "WIFI_DISCONNECTED" -> OnWifiDisconnected(app, ok)
                       [] event = "WIFI_TIMEOUT"      -> OnWifiTimeout(app, ok)
<1>1. app \in SoundApp(proven)
  BY DEF IInv
<1>2. a \in SoundApp(proven)
  BY <1>1, OnWifiSound DEF StationEvents
<1>3. Turn(a) /\ UNCHANGED flash
  BY DEF HandleStation
<1> HIDE DEF a
<1> QED
  BY <1>2, <1>3, TurnKeeps

LEMMA RelayEventsKeep ==
  ASSUME IInv, NEW ok,
         HandleRelayUp(ok) \/ \E event \in RelayEvents : HandleRelayDown(event, ok)
  PROVE  IInv'
<1>1. app \in SoundApp(proven)
  BY DEF IInv
<1>2. CASE HandleRelayUp(ok)
  <2>1. CASE BelievesRelay(app, station, "MQTT_CONNECTED")
    <3>1. /\ Turn(OnMqttConnected(app, ok)) /\ Remember(app)
          /\ app.mqtt = "connected"
      BY <1>2, <2>1 DEF HandleRelayUp, BelievesRelay
    <3> QED
      BY <1>1, <3>1, OnMqttSound, RememberKeeps
  <2>2. CASE ~BelievesRelay(app, station, "MQTT_CONNECTED")
    BY <1>1, <1>2, <2>2, TurnKeeps DEF HandleRelayUp
  <2> QED
    BY <2>1, <2>2
<1>3. ASSUME NEW event \in RelayEvents, HandleRelayDown(event, ok) PROVE IInv'
  <2>1. CASE BelievesRelay(app, station, event)
    <3>1. PICK reached \in BOOLEAN :
            Turn(OnMqttDown(app, station, event = "MQTT_FAILED", reached, ok))
      BY <1>3, <2>1 DEF HandleRelayDown
    <3>2. OnMqttDown(app, station, event = "MQTT_FAILED", reached, ok)
            \in SoundApp(proven)
      BY <1>1, OnMqttSound
    <3> QED
      BY <1>3, <3>1, <3>2, TurnKeeps DEF HandleRelayDown
  <2>2. CASE ~BelievesRelay(app, station, event)
    BY <1>1, <1>3, <2>2, TurnKeeps DEF HandleRelayDown
  <2> QED
    BY <2>1, <2>2
<1> QED
  BY <1>2, <1>3

LEMMA PortalEventsKeep ==
  ASSUME IInv, NEW ok,
         HandlePortalIdle(ok) \/ BootButton(ok) \/ ConnectNow(ok) \/ RetryDue(ok)
  PROVE  IInv'
<1>1. app \in SoundApp(proven)
  BY DEF IInv
<1>2. CASE HandlePortalIdle(ok)
  <2>1. PICK reached \in BOOLEAN : Turn(OnPortalIdle(app, reached, ok))
    BY <1>2 DEF HandlePortalIdle
  <2> QED
    BY <1>1, <1>2, <2>1, OnPortalIdleSound, TurnKeeps DEF HandlePortalIdle
<1>3. CASE BootButton(ok)
  <2>1. Turn(OnBootHeld(app, ok)) /\ UNCHANGED flash
    BY <1>3 DEF BootButton
  <2>2. OnBootHeld(app, ok) \in SoundApp(proven)
    BY <1>1, BootSound
  <2> QED
    BY <2>1, <2>2, TurnKeeps
<1>4. CASE ConnectNow(ok) \/ RetryDue(ok)
  <2>1. Turn(StartOrReconnect(CancelRetry(app), station, ok.relay)) /\ UNCHANGED flash
    BY <1>4 DEF ConnectNow, RetryDue
  <2>2. StartOrReconnect(CancelRetry(app), station, ok.relay) \in SoundApp(proven)
    BY <1>1, CancelRetrySound, StartSound
  <2> QED
    BY <2>1, <2>2, TurnKeeps
<1> QED
  BY <1>2, <1>3, <1>4

LEMMA PollKeeps ==
  ASSUME IInv, NEW ok, Poll(ok)
  PROVE  IInv'
<1> DEFINE a == PolledStation(app, station, ok)
<1>1. app \in SoundApp(proven)
  BY DEF IInv
<1>2. a \in SoundApp(proven)
  <2>1. PolledAddress(app, station, ok) \in SoundApp(proven)
    BY <1>1, OnWifiSound DEF PolledAddress
  <2> QED
    BY <2>1, OnWifiSound DEF PolledStation
<1>3. PolledRetry(a, station, ok) \in SoundApp(proven)
  BY <1>2, CancelRetrySound, StartSound, ScheduleSound
  DEF PolledRetry, SoundApp, App
<1>4. \/ a.mqtt = "connected" /\ Turn(OnMqttConnected(a, ok)) /\ Remember(a)
      \/ /\ \E reached \in BOOLEAN :
              Turn(OnMqttDown(a, station, TRUE, reached, ok))
         /\ UNCHANGED flash
      \/ Turn(PolledRetry(a, station, ok)) /\ UNCHANGED flash
      \/ Turn(a) /\ UNCHANGED flash
  BY DEF Poll
<1> HIDE DEF a
<1> QED
  BY <1>2, <1>3, <1>4, OnMqttSound, TurnKeeps, RememberKeeps

LEMMA BootKeeps ==
  /\ Init => IInv
  /\ IInv /\ Restart => IInv'
<1>1. ASSUME Init PROVE IInv
  <2>1. flash \in [config : Config \cup {None}, marker : Config \cup {None}]
        /\ flash.marker = None
    BY <1>1 DEF Init
  <2> QED
    BY <1>1, <2>1, BootedSound DEF Init, IInv, QueuesTyped, MarkerIsEarned
<1>2. ASSUME IInv, Restart PROVE IInv'
  <2>1. app' \in SoundApp(proven)
    BY <1>2, BootedSound DEF Restart, IInv, QueuesTyped
  <2> QED
    BY <1>2, <2>1 DEF Restart, IInv, QueuesTyped, MarkerIsEarned, SoundApp
<1> QED
  BY <1>1, <1>2

(* The relay's own steps: one of them proves its client's settings.        *)
LEMMA RelayKeeps ==
  ASSUME IInv, RelayConnects \/ RelayFails \/ RelayCloses
  PROVE  IInv'
<1>1. CASE RelayConnects
  <2>1. /\ app.mqtt = "connecting" /\ proven' = proven \cup {app.client}
        /\ app' = [app EXCEPT !.mqtt = "connected", !.refused = FALSE]
        /\ UNCHANGED << commands, task, saving, flash >>
    BY <1>1 DEF RelayConnects, Relay
  <2>2. app' \in SoundApp(proven')
    BY <2>1 DEF IInv, SoundApp, App
  <2> QED
    BY <2>1, <2>2 DEF IInv, QueuesTyped, MarkerIsEarned
<1>2. CASE RelayFails \/ RelayCloses
  <2>1. PICK to \in {"failing", "idle"}, refused \in BOOLEAN :
          /\ app' = [app EXCEPT !.mqtt = to, !.refused = refused]
          /\ app.mqtt \in {"connecting", "connected", "failing"}
          /\ UNCHANGED << commands, task, saving, flash, proven >>
    <3>1. app.refused \in BOOLEAN
      BY DEF IInv, SoundApp, App
    <3> QED
      BY <1>2, <3>1 DEF RelayFails, RelayCloses, Relay
  <2>2. app' \in SoundApp(proven)
    BY <2>1 DEF IInv, SoundApp, App
  <2> QED
    BY <2>1, <2>2 DEF IInv, QueuesTyped, MarkerIsEarned, SoundApp
<1> QED
  BY <1>1, <1>2

LEMMA TimersAndStationKeep ==
  ASSUME IInv, RetryTimer \/ RecoveryTimer \/ IpUp \/ IpDown \/ OutageLong
  PROVE  IInv'
<1>1. CASE RetryTimer \/ RecoveryTimer
  <2>1. app' \in SoundApp(proven)
    BY <1>1 DEF RetryTimer, RecoveryTimer, Timer, IInv, SoundApp, App
  <2> QED
    BY <1>1, <2>1
    DEF RetryTimer, RecoveryTimer, Timer, IInv, QueuesTyped, MarkerIsEarned, SoundApp
<1>2. CASE IpUp \/ IpDown \/ OutageLong
  BY <1>2
  DEF IpUp, IpDown, OutageLong, StationMoves, IInv, QueuesTyped, MarkerIsEarned,
      SoundApp
<1> QED
  BY <1>1, <1>2

(* The portal's commands and the coordinator's work on them.               *)
LEMMA CommandsKeep ==
  ASSUME IInv, commands # << >>
  PROVE  /\ Tail(commands) \in Seq(Command) /\ Head(commands) \in Command
         /\ Head(commands).type = "config" => Head(commands).config \in Config
<1>1. Tail(commands) \in Seq(Command) /\ Head(commands) \in Command
  BY DEF IInv, QueuesTyped
<1> QED
  BY <1>1 DEF Command

LEMMA ReplaceKeeps ==
  ASSUME IInv, NEW ok, Replace(ok)
  PROVE  IInv'
<1> DEFINE given == Given(app, task.config)
<1>1. task.config \in Config \cup {None} /\ given \in SoundApp(proven)
  BY GivenSound DEF Replace, IInv, QueuesTyped
<1>2. PICK marker :
        app' = ApplyRequirements(ValidConfig(given, marker), ok.access_point)
  BY DEF Replace, Becomes
<1> HIDE DEF given
<1>3. /\ app' \in SoundApp(proven) /\ task' = [at |-> "start", config |-> None]
      /\ UNCHANGED << commands, saving, flash, proven >>
  BY <1>1, <1>2, BootSound, RequirementsSound DEF Replace
<1> QED
  BY <1>3 DEF IInv, QueuesTyped, MarkerIsEarned, SoundApp

LEMMA ConfigKeeps ==
  ASSUME IInv, NEW ok, Freeze \/ Replace(ok) \/ StartStation(ok)
  PROVE  IInv'
<1>1. app \in SoundApp(proven)
  BY DEF IInv
<1>2. CASE Freeze
  <2>1. /\ app' \in SoundApp(proven) /\ commands' \in Seq(Command)
        /\ task' = [at |-> "replace", config |-> Head(commands).config]
        /\ Head(commands).config \in Config
        /\ UNCHANGED << saving, flash, proven >>
    BY <1>1, <1>2, CancelRetrySound, CommandsKeep DEF Freeze, Commanded
  <2> QED
    BY <2>1 DEF IInv, QueuesTyped, MarkerIsEarned, SoundApp
<1>3. CASE Replace(ok)
  BY <1>3, ReplaceKeeps
<1>4. CASE StartStation(ok)
  <2>1. /\ app' \in SoundApp(proven) /\ task' = [at |-> "idle", config |-> None]
        /\ UNCHANGED << commands, saving, flash, proven >>
    BY <1>1, <1>4, BootSound, OnWifiSound DEF StartStation
  <2> QED
    BY <2>1 DEF IInv, QueuesTyped, MarkerIsEarned, SoundApp
<1> QED
  BY <1>2, <1>3, <1>4

LEMMA ResetKeeps ==
  ASSUME IInv, NEW ok, Reset(ok) \/ ResetFails
  PROVE  IInv'
<1>1. CASE Reset(ok)
  <2>1. Given(app, None) \in SoundApp(proven)
    BY GivenSound DEF IInv
  <2>2. OnBootNone(Given(app, None), ok) \in SoundApp(proven)
    BY <2>1, BootSound
  <2>3. /\ app' \in SoundApp(proven) /\ commands' \in Seq(Command)
        /\ flash' = [config |-> None, marker |-> None]
        /\ UNCHANGED << task, saving, proven >>
    BY <1>1, <2>2, CommandsKeep DEF Reset, Commanded
  <2> QED
    BY <2>3 DEF IInv, QueuesTyped, MarkerIsEarned, SoundApp
<1>2. CASE ResetFails
  BY <1>2, CommandsKeep
  DEF ResetFails, Commanded, IInv, QueuesTyped, MarkerIsEarned, SoundApp
<1> QED
  BY <1>1, <1>2

LEMMA PortalKeeps ==
  ASSUME IInv, (\E config \in Config : Save(config)) \/ PostConfig \/ RequestReset
  PROVE  IInv'
<1>1. /\ app' = app /\ proven' = proven /\ task' = task
  BY DEF Save, PostConfig, RequestReset, Http
<1>2. commands' \in Seq(Command)
  <2>1. ASSUME saving # None
        PROVE  [type |-> "config", config |-> saving] \in Command
    BY <2>1 DEF IInv, QueuesTyped, Command
  <2>2. [type |-> "reset"] \in Command
    BY DEF Command
  <2>3. commands \in Seq(Command)
    BY DEF IInv, QueuesTyped
  <2>4. \/ commands' = commands
        \/ saving # None /\ commands' = Append(commands, [type |-> "config", config |-> saving])
        \/ commands' = Append(commands, [type |-> "reset"])
    BY DEF Save, PostConfig, RequestReset
  <2> QED
    BY <2>1, <2>2, <2>3, <2>4
<1>3. saving' \in Config \cup {None}
  BY DEF Save, PostConfig, RequestReset, IInv, QueuesTyped
<1>4. /\ flash' \in [config : Config \cup {None}, marker : Config \cup {None}]
      /\ flash'.marker = flash.marker
  BY DEF Save, PostConfig, RequestReset, IInv, QueuesTyped
<1> QED
  BY <1>1, <1>2, <1>3, <1>4 DEF IInv, QueuesTyped, MarkerIsEarned, SoundApp

LEMMA StepKeeps == IInv /\ [Next]_vars => IInv'
<1> SUFFICES ASSUME IInv, [Next]_vars PROVE IInv'
  OBVIOUS
<1>1. CASE UNCHANGED vars
  BY <1>1 DEF vars, IInv, QueuesTyped, MarkerIsEarned, SoundApp
<1>2. ASSUME NEW ok, Handles(ok) PROVE IInv'
  BY <1>2, StationEventsKeep, RelayEventsKeep, PortalEventsKeep, PollKeeps,
     ConfigKeeps, ResetKeeps DEF Handles
<1> QED
  BY <1>1, <1>2, BootKeeps, RelayKeeps, TimersAndStationKeep, ConfigKeeps, ResetKeeps,
     PortalKeeps DEF Next

-----------------------------------------------------------------------------
(* remember_verified_mqtt_settings (app_main.c:720): whatever replaced,    *)
(* erased, late or lost, the marker names settings a client connected with.*)
THEOREM MarkerEarned == Spec => []MarkerIsEarned
<1>1. IInv => MarkerIsEarned
  BY DEF IInv
<1> QED
  BY BootKeeps, StepKeeps, <1>1, PTL DEF Spec

(* stop_mqtt and start_or_reconnect_mqtt (app_main.c:473, 629): the        *)
(* relay's client always has the settings of the configuration in force.   *)
THEOREM ClientCurrent == Spec => []ClientIsCurrent
<1>1. IInv => ClientIsCurrent
  BY DEF IInv, SoundApp, ClientIsCurrent
<1> QED
  BY BootKeeps, StepKeeps, <1>1, PTL DEF Spec

-----------------------------------------------------------------------------
(* Why recovery is required.  What says that this station was out for long *)
(* is true of it: the status that is polled and the event under way.       *)
OutageIsKnown ==
  /\ station \in Port!Station /\ outage \in BOOLEAN
  /\ station.recovery_due => outage
  /\ "WIFI_TIMEOUT" \in events => outage

(* A state that requires recovery, after one that did not, of settings     *)
(* that were not proven or were refused for long.                          *)
Excused(s, r) ==
  ~s.recovery_required /\ r.recovery_required =>
    ~s.mqtt_settings_verified \/ r.mqtt_refusal_recovery

LEMMA ReducerExcuses ==
  ASSUME NEW s \in ReducerState, NEW reached \in BOOLEAN
  PROVE  /\ Excused(s, s) /\ Excused(s, WifiUp(s)) /\ Excused(s, WifiLost(s))
         /\ Excused(s, MqttUp(s)) /\ Excused(s, MqttFailed(s, reached))
         /\ Excused(s, MqttRejected(s, reached)) /\ Excused(s, BootHeld(s))
         /\ Excused(s, PortalIdle(s, reached))
         /\ \A valid \in BOOLEAN : ~AfterBoot(valid).recovery_required
BY DEF ReducerState, Excused, WifiUp, WifiLost, MqttUp, MqttFailed, MqttRejected,
       BootHeld, PortalIdle, AfterBoot, ForgetRefusal, Unproven

(* A turn of the Wi-Fi's state leaves what the relay's state looks at.     *)
LEMMA WifiExcuses ==
  ASSUME NEW s \in ReducerState, NEW r \in ReducerState, NEW t,
         r = s \/ r = WifiUp(s) \/ r = WifiLost(s), Excused(r, t)
  PROVE  Excused(s, t)
BY DEF ReducerState, Excused, WifiUp, WifiLost

(* What the relay and the access point are told leaves the reducer's state.*)
LEMMA CallsLeaveState ==
  ASSUME NEW a \in App, NEW s, NEW ok, NEW config
  PROVE  /\ CancelRetry(a).state = a.state /\ SuspendMqtt(a).state = a.state
         /\ StopMqtt(a).state = a.state /\ Given(a, config).state = a.state
         /\ ScheduleRetry(a, s).state = a.state
         /\ StartOrReconnect(a, s, ok).state = a.state
         /\ ApplyRequirements(a, ok).state = a.state
         /\ EnterRecovery(a, ok).state = a.state
BY DEF App, CancelRetry, SuspendMqtt, StopMqtt, Given, ScheduleRetry,
       StartOrReconnect, ApplyRequirements, EnterRecovery

LEMMA InApp ==
  ASSUME NEW p, NEW a \in SoundApp(p)
  PROVE  a \in App
BY DEF SoundApp

LEMMA WifiStates ==
  ASSUME NEW p, NEW a \in SoundApp(p), NEW s, NEW ok
  PROVE  /\ OnWifiConnected(a, s, ok).state = WifiUp(a.state)
         /\ OnWifiDisconnected(a, ok).state = WifiLost(a.state)
<1> DEFINE up   == [a EXCEPT !.state = WifiUp(@)]
           lost == [a EXCEPT !.state = WifiLost(@)]
<1>1. /\ up \in SoundApp(p) /\ up.state = WifiUp(a.state)
      /\ lost \in SoundApp(p) /\ lost.state = WifiLost(a.state)
  BY StateOf, SettingType, InState DEF SoundApp, App
<1> HIDE DEF up, lost
<1>2. /\ StartOrReconnect(up, s, ok.relay) \in App
      /\ StartOrReconnect(up, s, ok.relay).state = up.state
      /\ SuspendMqtt(lost) \in App /\ SuspendMqtt(lost).state = lost.state
  BY <1>1, InApp, StartSound, SuspendSound, CallsLeaveState
<1> QED
  BY <1>1, <1>2, CallsLeaveState DEF OnWifiConnected, OnWifiDisconnected, up, lost

LEMMA BootStates ==
  ASSUME NEW p, NEW a \in SoundApp(p), NEW marker, NEW ok
  PROVE  /\ ~ValidConfig(a, marker).state.recovery_required
         /\ ~OnBootValid(a, marker, ok).state.recovery_required
         /\ ~OnBootNone(a, ok).state.recovery_required
         /\ OnBootHeld(a, ok).state = BootHeld(a.state)
<1> DEFINE booted == [a EXCEPT !.state = AfterBoot(TRUE)]
           empty  == [a EXCEPT !.state = AfterBoot(FALSE)]
           held   == [a EXCEPT !.state = BootHeld(@), !.recovery_timer = TRUE]
<1>1. /\ booted \in SoundApp(p) /\ ~booted.state.recovery_required
      /\ empty \in SoundApp(p) /\ ~empty.state.recovery_required
  BY AfterBootType, InState DEF SoundApp, App, AfterBoot
<1>2. ~ValidConfig(a, marker).state.recovery_required
  <2>1. /\ booted.state \in ReducerState
        /\ [booted EXCEPT !.state = SettingsVerified(@)].state
             = SettingsVerified(booted.state)
    BY <1>1, StateOf DEF SoundApp, App
  <2>2. ~SettingsVerified(booted.state).recovery_required
    BY <1>1, <2>1 DEF SettingsVerified, ReducerState
  <2> HIDE DEF booted
  <2>3. ~Verified(booted, marker).state.recovery_required
    BY <1>1, <2>1, <2>2 DEF Verified
  <2> QED
    BY <2>3 DEF ValidConfig, booted
<1>3. ~OnBootValid(a, marker, ok).state.recovery_required
  BY <1>2, BootSound, InApp, CallsLeaveState DEF OnBootValid
<1>4. ~OnBootNone(a, ok).state.recovery_required
  <2> HIDE DEF empty
  <2>1. StopMqtt(empty) \in App /\ StopMqtt(empty).state = empty.state
    BY <1>1, InApp, StopSound, CallsLeaveState
  <2> QED
    BY <1>1, <2>1, CallsLeaveState DEF OnBootNone, empty
<1>5. OnBootHeld(a, ok).state = BootHeld(a.state)
  <2>1. BootHeld(a.state) \in ReducerState
    BY StateOf, SettingType
  <2>2. held \in App /\ held.state = BootHeld(a.state)
    BY <2>1 DEF SoundApp, App
  <2> QED
    BY <2>2, CallsLeaveState DEF OnBootHeld
<1> QED
  BY <1>2, <1>3, <1>4, <1>5

LEMMA RelayStates ==
  ASSUME NEW p, NEW a \in SoundApp(p), NEW s, NEW failed, NEW reached \in BOOLEAN,
         NEW ok
  PROVE  /\ OnMqttConnected(a, ok).state = MqttUp(a.state)
         /\ OnMqttDown(a, s, failed, reached, ok).state
              \in {MqttFailed(a.state, reached), MqttRejected(a.state, reached)}
         /\ OnPortalIdle(a, reached, ok).state = PortalIdle(a.state, reached)
<1>1. ASSUME NEW r \in ReducerState
      PROVE  [a EXCEPT !.state = r] \in SoundApp(p) /\ [a EXCEPT !.state = r].state = r
  BY InState DEF SoundApp, App
<1>2. /\ MqttUp(a.state) \in ReducerState
      /\ MqttFailed(a.state, reached) \in ReducerState
      /\ MqttRejected(a.state, reached) \in ReducerState
      /\ PortalIdle(a.state, reached) \in ReducerState
  BY StateOf, MqttUpType, MqttFailedType, MqttRejectedType, PortalIdleType
<1>3. OnMqttConnected(a, ok).state = MqttUp(a.state)
  <2> DEFINE up == [a EXCEPT !.state = MqttUp(@)]
  <2>1. up \in SoundApp(p) /\ up.state = MqttUp(a.state)
    BY <1>1, <1>2
  <2> HIDE DEF up
  <2>2. CancelRetry(up) \in App /\ CancelRetry(up).state = up.state
    BY <2>1, InApp, CancelRetrySound, CallsLeaveState
  <2> QED
    BY <2>1, <2>2, CallsLeaveState DEF OnMqttConnected, up
<1>4. OnMqttDown(a, s, failed, reached, ok).state
        \in {MqttFailed(a.state, reached), MqttRejected(a.state, reached)}
  <2> DEFINE reduced == IF failed /\ a.refused THEN MqttRejected(a.state, reached)
                        ELSE MqttFailed(a.state, reached)
             down == [a EXCEPT !.state = reduced]
  <2>1. /\ reduced \in ReducerState
        /\ reduced \in {MqttFailed(a.state, reached), MqttRejected(a.state, reached)}
    BY <1>2
  <2> HIDE DEF reduced
  <2>2. down \in SoundApp(p) /\ down.state = reduced
    BY <1>1, <2>1
  <2> HIDE DEF down
  <2>3. ScheduleRetry(down, s) \in App /\ ScheduleRetry(down, s).state = down.state
    BY <2>2, InApp, ScheduleSound, CallsLeaveState
  <2> QED
    BY <2>1, <2>2, <2>3, CallsLeaveState DEF OnMqttDown, reduced, down
<1>5. OnPortalIdle(a, reached, ok).state = PortalIdle(a.state, reached)
  <2> DEFINE idle == [a EXCEPT !.state = PortalIdle(@, reached), !.recovery_timer = FALSE]
  <2>1. idle \in App /\ idle.state = PortalIdle(a.state, reached)
    BY <1>2 DEF SoundApp, App
  <2> QED
    BY <2>1, CallsLeaveState DEF OnPortalIdle
<1> QED
  BY <1>3, <1>4, <1>5

LEMMA StationsOff ==
  /\ Port!Started \in Port!Station /\ ~Port!Started.recovery_due
  /\ Port!Stopped \in Port!Station /\ ~Port!Stopped.recovery_due
BY DEF Port!Started, Port!Stopped, Port!Station

LEMMA Emitted ==
  ASSUME NEW event, Emit(event)
  PROVE  \A e \in events' : e \in events \/ e = event
BY DEF Emit

(* A stop forgets the outage and makes the event that told of it outdated. *)
LEMMA OutageHandled ==
  ASSUME OutageIsKnown, NEW ok, Handles(ok)
  PROVE  OutageIsKnown'
<1>1. CASE Replace(ok) \/ Reset(ok)
  <2>1. /\ station' = Port!Stopped /\ outage' = FALSE /\ "WIFI_TIMEOUT" \notin events'
    BY <1>1 DEF Replace, Reset, Outdated, StationEvents
  <2> QED
    BY <2>1, StationsOff DEF OutageIsKnown
<1>2. CASE StartStation(ok)
  <2>1. /\ UNCHANGED << events, outage >>
        /\ station' = Port!Started \/ UNCHANGED station
    BY <1>2 DEF StartStation
  <2> QED
    BY <2>1, StationsOff DEF OutageIsKnown
<1>3. CASE ~(Replace(ok) \/ Reset(ok) \/ StartStation(ok))
  <2>1. /\ UNCHANGED << station, outage >>
        /\ \A e \in events' : e \in events
    BY <1>3 DEF Handles, HandleStation, HandleRelayUp, HandleRelayDown, HandlePortalIdle,
                BootButton, RetryDue, ConnectNow, Poll, Turn, Takes
  <2> QED
    BY <2>1 DEF OutageIsKnown
<1> QED
  BY <1>1, <1>2, <1>3

LEMMA OutageKept ==
  ASSUME OutageIsKnown, [Next]_vars
  PROVE  OutageIsKnown'
<1>1. CASE \E ok \in WorksAsFar(Faults) : Handles(ok)
  BY <1>1, OutageHandled
<1>2. CASE IpUp \/ IpDown \/ OutageLong
  <2>1. /\ station' \in Port!Station /\ outage' \in BOOLEAN
        /\ station'.recovery_due => outage'
        /\ outage => outage'
    BY <1>2 DEF IpUp, IpDown, OutageLong, Port!IpUp, Port!IpDown, Port!OutageLong,
                OutageIsKnown, Port!Station
  <2>2. \A e \in events' : e \in events \/ e # "WIFI_TIMEOUT" \/ outage'
    BY <1>2, Emitted DEF IpUp, IpDown, OutageLong
  <2> QED
    BY <2>1, <2>2 DEF OutageIsKnown
<1>3. CASE RelayConnects \/ RelayFails \/ RelayCloses \/ RecoveryTimer
  <2>1. UNCHANGED << station, outage >>
    BY <1>3 DEF RelayConnects, RelayFails, RelayCloses, RecoveryTimer, Relay, Timer
  <2>2. PICK event : Emit(event) /\ event # "WIFI_TIMEOUT"
    <3>1. \/ Emit("MQTT_CONNECTED") \/ Emit("MQTT_FAILED")
          \/ Emit("MQTT_DISCONNECTED") \/ Emit("PORTAL_IDLE_TIMEOUT")
      BY <1>3 DEF RelayConnects, RelayFails, RelayCloses, RecoveryTimer
    <3> QED
      BY <3>1
  <2>3. \A e \in events' : e \in events \/ e # "WIFI_TIMEOUT"
    BY <2>2, Emitted
  <2> QED
    BY <2>1, <2>3 DEF OutageIsKnown
<1>4. CASE Freeze
  <2>1. station' = Port!Paused(station) /\ UNCHANGED << events, outage >>
    BY <1>4 DEF Freeze
  <2> QED
    BY <2>1 DEF OutageIsKnown, Port!Paused, Port!Station
<1>5. CASE Restart
  <2>1. /\ station' \in {Port!Started, Port!Stopped} /\ outage' = FALSE /\ events' = {}
    BY <1>5 DEF Restart, Booted
  <2> QED
    BY <2>1, StationsOff DEF OutageIsKnown
<1>6. CASE \/ RetryTimer \/ ResetFails \/ PostConfig \/ RequestReset \/ UNCHANGED vars
           \/ \E config \in Config : Save(config)
  <2>1. UNCHANGED << station, events, outage >>
    BY <1>6 DEF RetryTimer, Timer, ResetFails, PostConfig, RequestReset, Save, Http, vars
  <2> QED
    BY <2>1 DEF OutageIsKnown
<1> QED
  BY <1>1, <1>2, <1>3, <1>4, <1>5, <1>6 DEF Next

LEMMA OutageInit == Init => OutageIsKnown
<1> SUFFICES ASSUME Init PROVE OutageIsKnown
  OBVIOUS
<1>1. station \in {Port!Started, Port!Stopped} /\ outage = FALSE /\ events = {}
  BY DEF Init, Booted
<1> QED
  BY <1>1, StationsOff DEF OutageIsKnown

-----------------------------------------------------------------------------
(* What each step may require recovery for.                                *)
Reason ==
  ~app.state.recovery_required /\ app'.state.recovery_required =>
    \/ outage \/ task.at = "start"
    \/ ~app.state.mqtt_settings_verified
    \/ app'.state.mqtt_refusal_recovery

LEMMA ExcusedHasReason ==
  ASSUME Excused(app.state, app'.state)
  PROVE  Reason
BY DEF Excused, Reason

LEMMA HandledHasReason ==
  ASSUME IInv, OutageIsKnown, NEW ok,
         \/ \E event \in StationEvents : HandleStation(event, ok)
         \/ HandleRelayUp(ok)
         \/ \E event \in RelayEvents : HandleRelayDown(event, ok)
  PROVE  Reason
<1>1. app \in SoundApp(proven) /\ app.state \in ReducerState
  BY StateOf DEF IInv
<1>2. ASSUME NEW event \in StationEvents, HandleStation(event, ok)
      PROVE  Reason
  <2>1. CASE event = "WIFI_TIMEOUT"
    BY <1>2, <2>1 DEF HandleStation, Takes, OutageIsKnown, Reason
  <2>2. CASE event # "WIFI_TIMEOUT"
    <3>1. \/ app' = app \/ app' = OnWifiConnected(app, station, ok)
          \/ app' = OnWifiDisconnected(app, ok)
      BY <1>2, <2>2 DEF HandleStation, Turn, Becomes, StationEvents
    <3>2. app'.state \in {app.state, WifiUp(app.state), WifiLost(app.state)}
      BY <1>1, <3>1, WifiStates
    <3> QED
      BY <1>1, <3>2, ReducerExcuses, ExcusedHasReason
  <2> QED
    BY <2>1, <2>2
<1>3. CASE HandleRelayUp(ok)
  <2>1. app' = app \/ app' = OnMqttConnected(app, ok)
    BY <1>3 DEF HandleRelayUp, Turn, Becomes
  <2>2. app'.state \in {app.state, MqttUp(app.state)}
    BY <1>1, <2>1, RelayStates
  <2> QED
    BY <1>1, <2>2, ReducerExcuses, ExcusedHasReason
<1>4. ASSUME NEW event \in RelayEvents, HandleRelayDown(event, ok)
      PROVE  Reason
  <2>1. \/ app' = app
        \/ \E reached \in BOOLEAN :
             app' = OnMqttDown(app, station, event = "MQTT_FAILED", reached, ok)
    BY <1>4 DEF HandleRelayDown, Turn, Becomes
  <2>2. \/ app'.state = app.state
        \/ \E reached \in BOOLEAN :
             app'.state \in {MqttFailed(app.state, reached),
                             MqttRejected(app.state, reached)}
    BY <1>1, <2>1, RelayStates
  <2> QED
    BY <1>1, <2>2, ReducerExcuses, ExcusedHasReason
<1> QED
  BY <1>2, <1>3, <1>4

(* The poll looks at the relay after it looked at the station.             *)
LEMMA PollHasReason ==
  ASSUME IInv, OutageIsKnown, NEW ok, Poll(ok)
  PROVE  Reason
<1> DEFINE a == PolledStation(app, station, ok)
<1>1. app \in SoundApp(proven) /\ app.state \in ReducerState
  BY StateOf DEF IInv
<1>2. CASE station.recovery_due
  BY <1>2 DEF OutageIsKnown, Reason
<1>3. CASE ~station.recovery_due
  <2>1. a = PolledAddress(app, station, ok)
    BY <1>3 DEF PolledStation
  <2>2. /\ a \in SoundApp(proven)
        /\ a.state \in {app.state, WifiUp(app.state), WifiLost(app.state)}
    BY <1>1, <2>1, OnWifiSound, WifiStates DEF PolledAddress
  <2>3. \/ app' = a \/ app' = OnMqttConnected(a, ok)
        \/ \E reached \in BOOLEAN : app' = OnMqttDown(a, station, TRUE, reached, ok)
        \/ app' = PolledRetry(a, station, ok)
    BY DEF Poll, Turn, Becomes
  <2> HIDE DEF a
  <2>4. a.state \in ReducerState
    BY <2>2, StateOf
  <2>5. PolledRetry(a, station, ok).state = a.state
    <3>1. a \in App /\ CancelRetry(a) \in App
      BY <2>2, CancelRetrySound, InApp
    <3>2. /\ CancelRetry(a).state = a.state
          /\ StartOrReconnect(CancelRetry(a), station, ok.relay).state = a.state
          /\ ScheduleRetry(a, station).state = a.state
      BY <3>1, CallsLeaveState
    <3>3. a.retry \in {"none", "waiting", "due"}
      BY <3>1 DEF App
    <3> QED
      BY <3>2, <3>3 DEF PolledRetry
  <2>6. \/ app'.state = a.state \/ app'.state = MqttUp(a.state)
        \/ \E reached \in BOOLEAN :
             app'.state \in {MqttFailed(a.state, reached), MqttRejected(a.state, reached)}
    <3>1. OnMqttConnected(a, ok).state = MqttUp(a.state)
      BY <2>2, RelayStates
    <3>2. \A reached \in BOOLEAN :
            OnMqttDown(a, station, TRUE, reached, ok).state
              \in {MqttFailed(a.state, reached), MqttRejected(a.state, reached)}
      BY <2>2, RelayStates
    <3> QED
      BY <2>3, <2>5, <3>1, <3>2
  <2>7. Excused(a.state, app'.state)
    BY <2>4, <2>6, ReducerExcuses
  <2> QED
    BY <1>1, <2>2, <2>4, <2>7, WifiExcuses, ExcusedHasReason
<1> QED
  BY <1>2, <1>3

LEMMA CommandsHaveReason ==
  ASSUME IInv, NEW ok,
         \/ HandlePortalIdle(ok) \/ BootButton(ok) \/ ConnectNow(ok) \/ RetryDue(ok)
         \/ Replace(ok) \/ StartStation(ok) \/ Reset(ok)
  PROVE  Reason
<1>1. app \in SoundApp(proven) /\ app.state \in ReducerState /\ app \in App
  BY StateOf, InApp DEF IInv
<1>2. CASE HandlePortalIdle(ok)
  <2>1. PICK reached \in BOOLEAN : app' = OnPortalIdle(app, reached, ok)
    BY <1>2 DEF HandlePortalIdle, Turn, Becomes
  <2>2. app'.state = PortalIdle(app.state, reached)
    BY <1>1, <2>1, RelayStates
  <2> QED
    BY <1>1, <2>2, ReducerExcuses, ExcusedHasReason
<1>3. CASE BootButton(ok)
  <2>1. app'.state = BootHeld(app.state)
    BY <1>1, <1>3, BootStates DEF BootButton, Turn, Becomes
  <2> QED
    BY <1>1, <2>1, ReducerExcuses, ExcusedHasReason
<1>4. CASE ConnectNow(ok) \/ RetryDue(ok)
  <2>1. app' = StartOrReconnect(CancelRetry(app), station, ok.relay)
    BY <1>4 DEF ConnectNow, RetryDue, Turn, Becomes
  <2>2. CancelRetry(app) \in App /\ CancelRetry(app).state = app.state
    BY <1>1, CancelRetrySound, InApp, CallsLeaveState
  <2>3. app'.state = app.state
    BY <2>1, <2>2, CallsLeaveState
  <2> QED
    BY <1>1, <2>3, ReducerExcuses, ExcusedHasReason
<1>5. CASE Replace(ok)
  <2> PICK marker : app' = ApplyRequirements(
                      ValidConfig(Given(app, task.config), marker), ok.access_point)
    BY <1>5 DEF Replace, Becomes
  <2> DEFINE given == Given(app, task.config)
             valid == ValidConfig(given, marker)
  <2>1. given \in SoundApp(proven)
    BY <1>5, GivenSound DEF Replace, IInv, QueuesTyped
  <2>2. app' = ApplyRequirements(valid, ok.access_point)
    OBVIOUS
  <2> HIDE DEF given
  <2>3. valid \in App /\ ~valid.state.recovery_required
    BY <2>1, BootSound, BootStates, InApp
  <2> HIDE DEF valid
  <2>4. ~ApplyRequirements(valid, ok.access_point).state.recovery_required
    BY <2>3, CallsLeaveState
  <2> QED
    BY <2>2, <2>4 DEF Reason
<1>6. CASE StartStation(ok)
  BY <1>6 DEF StartStation, Reason
<1>7. CASE Reset(ok)
  <2>1. Given(app, None) \in SoundApp(proven)
    BY <1>1, GivenSound
  <2>2. ~OnBootNone(Given(app, None), ok).state.recovery_required
    BY <2>1, BootStates
  <2> QED
    BY <1>7, <2>2 DEF Reset, Reason
<1> QED
  BY <1>2, <1>3, <1>4, <1>5, <1>6, <1>7

LEMMA OthersHaveReason ==
  ASSUME IInv, Next, ~\E ok \in WorksAsFar(Faults) : Handles(ok)
  PROVE  Reason
<1>1. app \in SoundApp(proven) /\ app.state \in ReducerState /\ app \in App
  BY StateOf, InApp DEF IInv
<1>2. CASE Restart
  <2>1. /\ flash \in [config : Config \cup {None}, marker : Config \cup {None}]
        /\ Booted(flash, station', app')
    BY <1>2 DEF Restart, IInv, QueuesTyped
  <2>2. \E config \in Config \cup {None} : \E marker, ok :
          \/ app' = OnBootValid(Fresh(config), marker, ok)
          \/ app' = OnBootNone(Fresh(config), ok)
    BY <2>1 DEF Booted, Loaded
  <2>3. PICK config \in Config \cup {None} : \E marker, ok :
          \/ app' = OnBootValid(Fresh(config), marker, ok)
          \/ app' = OnBootNone(Fresh(config), ok)
    BY <2>2
  <2>4. Fresh(config) \in SoundApp(proven)
    BY FreshSound
  <2> QED
    BY <2>3, <2>4, BootStates DEF Reason
<1>3. CASE \/ RelayConnects \/ RelayFails \/ RelayCloses
           \/ RetryTimer \/ RecoveryTimer \/ Freeze
  <2>1. app'.state = app.state
    BY <1>1, <1>3, CallsLeaveState
    DEF RelayConnects, RelayFails, RelayCloses, RetryTimer, RecoveryTimer, Relay, Timer,
        Freeze, App
  <2> QED
    BY <1>1, <2>1, ReducerExcuses, ExcusedHasReason
<1>4. CASE \/ IpUp \/ IpDown \/ OutageLong \/ ResetFails \/ PostConfig \/ RequestReset
           \/ \E config \in Config : Save(config)
  <2>1. app' = app
    BY <1>4 DEF IpUp, IpDown, OutageLong, StationMoves, ResetFails, PostConfig,
                RequestReset, Save, Http
  <2> QED
    BY <1>1, <2>1, ReducerExcuses, ExcusedHasReason
<1> QED
  BY <1>2, <1>3, <1>4 DEF Next

(* handle_provisioning_event and provisioning_reduce (app_main.c:779,      *)
(* provisioning_state.c:96): proven settings keep the setup network closed *)
(* until this station's own long outage, long refusals, or a station that  *)
(* cannot be started, whichever events are lost, late or outdated.         *)
THEOREM RecoveryReasoned == Spec => RecoveryHasAReason
<1>1. ASSUME IInv, OutageIsKnown, [Next]_vars
      PROVE  [Reason]_vars
  <2>1. CASE UNCHANGED vars
    BY <2>1
  <2>2. ASSUME NEW ok, Handles(ok) PROVE Reason
    BY <1>1, <2>2, HandledHasReason, PollHasReason, CommandsHaveReason DEF Handles
  <2>3. CASE Next
    BY <1>1, <2>2, <2>3, OthersHaveReason
  <2> QED
    BY <1>1, <2>1, <2>3
<1>2. OutageIsKnown /\ [Next]_vars => OutageIsKnown'
  BY OutageKept
<1> QED
  BY <1>1, <1>2, BootKeeps, StepKeeps, OutageInit, PTL
  DEF Spec, RecoveryHasAReason, Reason

=============================================================================
