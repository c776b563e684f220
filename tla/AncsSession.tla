---------------------------- MODULE AncsSession ----------------------------
(***************************************************************************)
(* The session half of s_client in components/ancs_client/ancs_client.c:   *)
(* the flags, handles and deadlines of one connection to a phone, and the  *)
(* functions that work on them, as operators from a session to the next.   *)
(* AncsLink calls them from its handlers.                                  *)
(*                                                                         *)
(* The six handles are one flag (discover_characteristics sets and         *)
(* invalidate_ancs_handles forgets them together), a deadline is whether   *)
(* it is set.  gatt is what was asked of the GATT layer on this connection *)
(* and not answered, oldest first; an operator whose call the GATT layer   *)
(* may refuse takes what it returned as an argument.                       *)
(***************************************************************************)
EXTENDS AncsState, Naturals, Sequences

CONSTANTS
  Phone,  \* addresses of phones
  None    \* no phone, source or retry

Source == {"data", "notification"}   \* the two characteristics to subscribe to

DiscoveryRetries == 2                \* ANCS_DISCOVERY_RETRIES
CloseAttempts == 3

(* Questions for the GATT layer.                                           *)
Open == [op |-> "open"]
Mtu == [op |-> "mtu"]
Search == [op |-> "search"]
Register(source) == [op |-> "register", source |-> source]
WriteCccd(source) == [op |-> "write", source |-> source]

Question ==
  {Open, Mtu, Search} \cup {Register(source) : source \in Source}
  \cup {WriteCccd(source) : source \in Source}

Notify(source, generation) == [source |-> source, generation |-> generation]

Session ==
  [state: State, connected: BOOLEAN, remote_bda: Phone \cup {None},
   session_authenticated: BOOLEAN, link_encrypted: BOOLEAN,
   closing: BOOLEAN, close_attempts: 0 .. CloseAttempts,
   mtu_ready: BOOLEAN, discovery_in_progress: BOOLEAN,
   service_found: BOOLEAN, subscribed: SUBSET Source, ready: BOOLEAN,
   handles: BOOLEAN, cccds: SUBSET Source,
   pending_notify: {None} \cup [source: Source, generation: Nat],
   session_id: Nat, generation: Nat,
   stage_deadline: BOOLEAN, prepare_deadline: BOOLEAN,
   discovery_retry: {None} \cup Nat,      \* its generation, when one is due
   discovery_attempt: 0 .. DiscoveryRetries,
   gatt: Seq(Question)]

Asks(s, question) == [s EXCEPT !.gatt = Append(@, question)]
Answered(s) == [s EXCEPT !.gatt = Tail(@)]

In(s, state) == [s EXCEPT !.state = state]                    \* set_state
Transition(s, signal) == [s EXCEPT !.state = StateAfter(@, signal)]

(* gatt_connection_matches, for the peer the session is with.              *)
Matches(s) == s.connected /\ ~s.closing
Usable(s) == Matches(s) /\ s.session_authenticated

-----------------------------------------------------------------------------
(* Faulty variant: the session stays ready.                                *)
WithoutHandlesReady(s) ==
  [s EXCEPT !.service_found = FALSE, !.discovery_in_progress = FALSE,
     !.subscribed = {}, !.handles = FALSE, !.cccds = {},
     !.pending_notify = None]

(* invalidate_ancs_handles.                                                *)
WithoutHandles(s) ==
  [s EXCEPT !.service_found = FALSE, !.discovery_in_progress = FALSE,
     !.ready = FALSE, !.subscribed = {}, !.handles = FALSE, !.cccds = {},
     !.pending_notify = None]

(* schedule_discovery_retry.  With no attempt left the stage's deadline is *)
(* set to now, and the worker closes the link.                             *)
ScheduleDiscoveryRetry(s) ==
  IF ~Usable(s) \/ s.discovery_in_progress \/ s.discovery_retry # None THEN s
  ELSE IF s.discovery_attempt >= DiscoveryRetries
       THEN [s EXCEPT !.stage_deadline = TRUE]
       ELSE [s EXCEPT !.discovery_attempt = @ + 1,
               !.discovery_retry = s.generation, !.stage_deadline = TRUE]

(* What every failed stage does.                                           *)
Recover(s) == ScheduleDiscoveryRetry(In(s, "recovering"))

(* start_discovery; accepted is what esp_ble_gattc_search_service returns. *)
CanDiscover(s) ==
  /\ Usable(s) /\ s.link_encrypted /\ s.mtu_ready
  /\ ~s.ready /\ ~s.discovery_in_progress

Discovering(s) ==
  Transition(
    [s EXCEPT !.subscribed = {}, !.handles = FALSE, !.cccds = {},
       !.service_found = FALSE, !.discovery_in_progress = TRUE,
       !.discovery_retry = None, !.stage_deadline = TRUE],
    "discovery_started")

StartDiscovery(s, accepted) ==
  IF ~CanDiscover(s) THEN s
  ELSE IF accepted THEN Asks(Discovering(s), Search)
  ELSE Recover([Discovering(s) EXCEPT !.discovery_in_progress = FALSE])

(* begin_data_source_subscription and begin_notification_source_...: with  *)
(* its handle forgotten, what is registered for is never waited for.       *)
AwaitRegistration(s, source) ==
  [s EXCEPT !.stage_deadline = TRUE,
     !.pending_notify = IF s.handles THEN Notify(source, s.generation) ELSE None]

BeginSubscription(s, source, accepted) ==
  LET waiting == AwaitRegistration(s, source)
      begun   == IF source = "data"
                 THEN Transition(waiting, "data_subscribe_started") ELSE waiting
  IN  IF ~Usable(s) THEN s
      ELSE IF accepted THEN Asks(begun, Register(source)) ELSE Recover(begun)

(* discover_characteristics: the attribute query fails, a characteristic   *)
(* is missing, or all three are there.                                     *)
DiscoverCharacteristics(s, outcome, accepted) ==
  IF ~(Usable(s) /\ s.service_found) THEN s
  ELSE CASE outcome = "error"   -> Recover(s)
         [] outcome = "missing" -> Recover(WithoutHandles(s))
         [] outcome = "found"   ->
              BeginSubscription(
                [s EXCEPT !.handles = TRUE, !.discovery_attempt = 0],
                "data", accepted)

-----------------------------------------------------------------------------
(* ESP_GATTC_CONNECT_EVT, for a peer that is accepted.                     *)
Connected(s, phone, accepted) ==
  LET fresh ==
        [WithoutHandles(s) EXCEPT
           !.generation = @ + 1, !.connected = TRUE, !.remote_bda = phone,
           !.session_authenticated = FALSE, !.link_encrypted = FALSE,
           !.closing = FALSE, !.close_attempts = 0, !.mtu_ready = FALSE,
           !.discovery_attempt = 0, !.discovery_retry = None,
           !.prepare_deadline = TRUE, !.stage_deadline = TRUE,
           !.gatt = IF accepted THEN << Open >> ELSE << >>]
  IN  Transition(fresh, "connected")

(* ESP_GATTC_OPEN_EVT.                                                     *)
Opened(s, mtu_accepted) ==
  LET opened == Transition(s, "encryption_started")
  IN  IF mtu_accepted THEN Asks(opened, Mtu) ELSE opened

(* ESP_GATTC_CFG_MTU_EVT: a failed exchange counts as done.                *)
MtuConfigured(s, accepted) ==
  IF Matches(s) THEN StartDiscovery([s EXCEPT !.mtu_ready = TRUE], accepted) ELSE s

(* ESP_GAP_BLE_AUTH_CMPL_EVT, on a session it is for.                      *)
Authenticated(s, accepted) ==
  StartDiscovery(
    Transition([s EXCEPT !.session_authenticated = TRUE,
                  !.link_encrypted = TRUE, !.stage_deadline = TRUE], "bonded"),
    accepted)

AuthenticationFailed(s) ==
  In([s EXCEPT !.closing = TRUE, !.session_authenticated = FALSE,
        !.link_encrypted = FALSE, !.ready = FALSE, !.discovery_retry = None],
     "recovering")

(* ESP_GATTC_SEARCH_RES_EVT and ESP_GATTC_SEARCH_CMPL_EVT.                 *)
ServiceFound(s) ==
  IF s.discovery_in_progress /\ Matches(s)
  THEN [s EXCEPT !.service_found = TRUE] ELSE s

(* Faulty variant: a search that failed is still taken to be in progress.  *)
SearchKeptOpen(s, ok, outcome, accepted) ==
  LET done == [s EXCEPT !.discovery_in_progress = FALSE]
  IN  IF ~(s.discovery_in_progress /\ Matches(s)) THEN s
      ELSE IF ok /\ s.service_found
           THEN DiscoverCharacteristics(done, outcome, accepted)
           ELSE Recover(s)

SearchCompleted(s, ok, outcome, accepted) ==
  LET done == [s EXCEPT !.discovery_in_progress = FALSE]
  IN  IF ~(s.discovery_in_progress /\ Matches(s)) THEN s
      ELSE IF ok /\ s.service_found
           THEN DiscoverCharacteristics(done, outcome, accepted)
           ELSE Recover(done)

(* ESP_GATTC_REG_FOR_NOTIFY_EVT; written is what write_cccd returns.       *)
Registered(s, source, ok, written) ==
  LET taken == [s EXCEPT !.pending_notify = None]
  IN  IF ~(Usable(s) /\ s.pending_notify = Notify(source, s.generation)) THEN s
      ELSE IF ~ok THEN Recover(taken)
      ELSE IF ~s.handles THEN taken
      ELSE IF written
           THEN Asks([taken EXCEPT !.cccds = @ \cup {source}], WriteCccd(source))
           ELSE Recover(taken)

(* ESP_GATTC_WRITE_DESCR_EVT: whether it is expected, and what it does.    *)
WriteExpected(s, source) ==
  /\ Usable(s) /\ source \in s.cccds /\ source \notin s.subscribed
  /\ source = "notification" => "data" \in s.subscribed

Written(s, source, accepted) ==
  IF source = "data"
  THEN BeginSubscription(
         Transition([s EXCEPT !.subscribed = @ \cup {"data"}], "data_subscribed"),
         "notification", accepted)
  ELSE LET ready == /\ s.connected /\ s.session_authenticated /\ s.link_encrypted
                    /\ s.service_found /\ "data" \in s.subscribed
           after == Transition(
                      [s EXCEPT !.subscribed = @ \cup {"notification"},
                         !.session_id = IF ready /\ ~s.ready THEN @ + 1 ELSE @,
                         !.ready = ready, !.stage_deadline = FALSE,
                         !.discovery_retry = None],
                      "notification_subscribed")
       IN  IF ready THEN after ELSE In(after, "recovering")

-----------------------------------------------------------------------------
(* handle_service_changed, up to its call of start_discovery.              *)
ServiceInvalidated(s) ==
  Transition(
    [WithoutHandles(s) EXCEPT !.prepare_deadline = TRUE, !.discovery_retry = None,
       !.discovery_attempt = 0, !.generation = @ + 1],
    "service_changed")

(* ESP_GATTC_DISCONNECT_EVT: reset_connection_session and the signal.      *)
Disconnected(s) ==
  Transition(
    [WithoutHandles(s) EXCEPT !.connected = FALSE,
       !.session_authenticated = FALSE, !.link_encrypted = FALSE,
       !.closing = FALSE, !.close_attempts = 0, !.mtu_ready = FALSE,
       !.stage_deadline = FALSE, !.prepare_deadline = FALSE,
       !.discovery_retry = None, !.discovery_attempt = 0,
       !.generation = @ + 1, !.gatt = << >>],
    "disconnected")

(* Faulty variants: only an authenticated session has a deadline, and the  *)
(* attempts to close are not counted.                                      *)
MayExpireLate(s) ==
  s.connected /\ ~s.ready /\ ~s.closing /\ s.session_authenticated

MayCloseAgain(s) == s.connected /\ s.closing

(* check_connection_deadline, in its critical section.                     *)
MayExpire(s) ==
  s.connected /\ ~s.ready /\ ~s.closing /\ (s.stage_deadline \/ s.prepare_deadline)

Expired(s) ==
  [s EXCEPT !.closing = TRUE, !.ready = FALSE, !.discovery_retry = None]

MayClose(s) == s.connected /\ s.closing /\ s.close_attempts < CloseAttempts

InitialSession ==
  [state |-> "boot", connected |-> FALSE, remote_bda |-> None,
   session_authenticated |-> FALSE, link_encrypted |-> FALSE,
   closing |-> FALSE, close_attempts |-> 0, mtu_ready |-> FALSE,
   discovery_in_progress |-> FALSE, service_found |-> FALSE,
   subscribed |-> {}, ready |-> FALSE, handles |-> FALSE, cccds |-> {},
   pending_notify |-> None, session_id |-> 0, generation |-> 0,
   stage_deadline |-> FALSE, prepare_deadline |-> FALSE,
   discovery_retry |-> None, discovery_attempt |-> 0, gatt |-> << >>]

=============================================================================
