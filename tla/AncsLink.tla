----------------------------- MODULE AncsLink ------------------------------
(***************************************************************************)
(* The link of components/ancs_client/ancs_client.c to the enrolled phone: *)
(* advertising and enrollment, connection, encryption, discovery of the    *)
(* ANCS service, the two subscriptions, deadlines and recovery.            *)
(*                                                                         *)
(* Four tasks act on s_client.  The BTC task runs the callbacks of the     *)
(* Bluetooth stack, one at a time; the worker looks at the deadlines and   *)
(* recovers the data stream; the timer task retries; a task of the portal, *)
(* of MQTT or of the BOOT button calls the enrollment API.  What the       *)
(* worker and the API do between two critical sections is where the other  *)
(* tasks come in, so they have a step for each.  A BTC callback is one     *)
(* step, but for the one that makes the session ready.                     *)
(*                                                                         *)
(* The stack is external: the radio, the links, the bond store and         *)
(* encryption do what the callbacks show of them.                          *)
(***************************************************************************)
EXTENDS AncsSession, Enrollment, FiniteSets

CONSTANTS
  Faults,         \* calls of the stack that may fail, a subset of FaultKind
  MaxGeneration,  \* bound: generations a behaviour reaches
  MaxCalls,       \* bound: calls of the enrollment API in a behaviour
  CallWeight      \* bound: how many generations a call counts for

FaultKind ==
  {"gatt", "encryption", "disconnect", "advertise", "query", "remove", "timer"}

ASSUME LinkAssumption ==
  /\ IsFiniteSet(Phone) /\ None \notin Phone /\ None \notin Nat
  /\ None \notin [source: Source, generation: Nat]
  /\ Faults \subseteq FaultKind
  /\ {MaxGeneration, MaxCalls, CallWeight} \subseteq Nat

VARIABLES
  session,         \* s_client, its session half
  enrollment,      \* s_client and s_enroll, the other half
  \* the stack
  radio,           \* the advertiser is on the air
  links,           \* phones with a link to the device
  closing_links,   \* those a disconnect was accepted for
  encryption,      \* of each phone's link
  bonds,           \* the bond store
  removals,        \* bonds whose removal was accepted
  hid_ready,       \* hid_server_is_ready
  \* the tasks
  writing,         \* the BTC task: the source of an expected WRITE_DESCR
  stopping,        \* a closed window's advertising is to be stopped
  worker,          \* where the worker stands
  request,         \* the generation of its request in flight
  worker_peer,     \* its copy of remote_bda, for a disconnect
  caller,          \* where the API's caller stands
  seen,            \* the bond count it was told
  calls            \* how often the API was called

stack == << radio, links, closing_links, encryption, bonds, removals, hid_ready >>
workerVars == << worker, request, worker_peer >>
callerVars == << caller, seen, calls >>
vars == << session, enrollment, stack, writing, stopping, workerVars, callerVars >>

-----------------------------------------------------------------------------
(* The bound leaves room for a connection, or for a call.                  *)
Room == session.generation + CallWeight * calls + 2 <= MaxGeneration

(* What a call of the stack returns: TRUE, or an error where it may fail.  *)
Accepted(kind) == {TRUE} \cup (IF kind \in Faults THEN {FALSE} ELSE {})

(* esp_ble_get_bond_device_num and _list.                                  *)
BondCount ==
  {Cardinality(bonds)} \cup (IF "query" \in Faults THEN {Unknown} ELSE {})

(* esp_ble_gap_disconnect.  There need not be a link to the peer any more. *)
CloseLink(phone) ==
  \E accepted \in Accepted("disconnect") :
    closing_links' = IF accepted THEN closing_links \cup {phone} ELSE closing_links

NoDisconnect == UNCHANGED closing_links

Disconnect(phone) == IF phone \in links THEN CloseLink(phone) ELSE NoDisconnect

(* connection_peer_allowed, and bond_list_contains_peer.                   *)
KnownPeer(phone) ==
  {phone \in bonds} \cup (IF "query" \in Faults THEN {FALSE} ELSE {})

PeerAllowed(phone) ==
  IF bonds # {} THEN KnownPeer(phone)
  ELSE {WindowActive(enrollment)} \cup (IF "query" \in Faults THEN {FALSE} ELSE {})

Advertises(e, connected) ==
  \E accepted \in Accepted("advertise") :
    enrollment' = StartAdvertising(e, connected, hid_ready, accepted)

Init ==
  \E known \in SUBSET Phone :
    /\ Cardinality(known) <= 1
    /\ session = InitialSession
    /\ enrollment = InitialEnrollment(known # {})
    /\ radio = FALSE /\ links = {} /\ closing_links = {} /\ encryption = [phone \in Phone |-> "none"]
    /\ bonds = known /\ removals = {} /\ hid_ready = FALSE
    /\ writing = None /\ stopping = FALSE
    /\ worker = "loop" /\ request = None /\ worker_peer = None
    /\ caller = "idle" /\ seen = Unknown /\ calls = 0

-----------------------------------------------------------------------------
(***************************************************************************)
(* The BTC task: gap_event_handler.                                        *)
(***************************************************************************)
Btc == writing = None /\ UNCHANGED << stopping, workerVars, callerVars >>

(* ESP_GAP_BLE_ADV_DATA_SET_COMPLETE_EVT and its scan response twin, the   *)
(* later of the two.                                                       *)
AdvDataSet ==
  /\ Btc /\ ~enrollment.adv_configured
  /\ Advertises([enrollment EXCEPT !.adv_configured = TRUE], session.connected)
  /\ UNCHANGED << session, stack, writing >>

HidReady ==
  /\ Btc /\ ~hid_ready /\ hid_ready' = TRUE
  /\ UNCHANGED << session, enrollment, radio, links, closing_links, encryption,
                  bonds, removals, writing >>

(* The advertiser takes the oldest command; ADV_START_COMPLETE_EVT.        *)
Advertiser(command) ==
  /\ Btc /\ enrollment.commands # << >> /\ Head(enrollment.commands) = command
  /\ UNCHANGED << links, closing_links, encryption, bonds, removals, hid_ready, writing >>

Taken == [enrollment EXCEPT !.commands = Tail(@)]

AdvStartComplete ==
  /\ Advertiser("start") /\ radio' = TRUE
  /\ enrollment' = AdvertisingStarted(Taken, session.connected)
  /\ session' = IF enrollment'.advertising THEN In(session, "advertising") ELSE session

AdvStartFails ==
  /\ Advertiser("start") /\ ~radio /\ "advertise" \in Faults
  /\ enrollment' = AdvertisingFailed(Taken, session.connected)
  /\ UNCHANGED << session, radio >>

AdvStops ==
  /\ Advertiser("stop") /\ radio' = FALSE
  /\ enrollment' = Taken
  /\ UNCHANGED session

(***************************************************************************)
(* A phone encrypts its link on its own or when set_encryption asked it    *)
(* to: with the key of its bond, or by pairing, also when it is known.     *)
(* The stack begins neither on a link it is about to close.                *)
(***************************************************************************)
Encrypted(phone, stage) == encryption' = [encryption EXCEPT ![phone] = stage]

(* ESP_GAP_BLE_SEC_REQ_EVT.                                                *)
SecReq(phone) ==
  /\ Btc /\ phone \in links \ closing_links /\ encryption[phone] = "none"
  /\ \E allowed \in IF WindowActive(enrollment) THEN {TRUE} ELSE KnownPeer(phone) :
       IF allowed THEN Encrypted(phone, "pairing") /\ NoDisconnect
       ELSE UNCHANGED encryption /\ Disconnect(phone)
  /\ UNCHANGED << session, enrollment, radio, links, bonds, removals, hid_ready, writing >>

Encrypts(phone) ==
  /\ Btc /\ phone \in (links \ closing_links) \cap bonds /\ encryption[phone] = "none"
  /\ Encrypted(phone, "encrypting")
  /\ UNCHANGED << session, enrollment, radio, links, closing_links, bonds,
                  removals, hid_ready, writing >>

(* authentication_event_matches.                                           *)
AuthenticationExpected(phone) ==
  Matches(session) /\ ~session.session_authenticated /\ session.remote_bda = phone

(* ESP_GAP_BLE_AUTH_CMPL_EVT.  The stack has stored a new bond before it.  *)
AuthCmplSuccess(phone) ==
  /\ Btc /\ encryption[phone] \in {"pairing", "encrypting"}
  /\ Encrypted(phone, "encrypted")
  /\ bonds' = IF encryption[phone] = "pairing" THEN bonds \cup {phone} ELSE bonds
  /\ IF AuthenticationExpected(phone)
     THEN /\ \E accepted \in Accepted("gatt") : session' = Authenticated(session, accepted)
          /\ enrollment' = StopAdvertising(NoteBonded(ClearGuard(enrollment)))
     ELSE UNCHANGED << session, enrollment >>
  /\ UNCHANGED << radio, links, closing_links, removals, hid_ready, writing >>

AuthCmplFailure(phone) ==
  /\ Btc /\ phone \in links /\ encryption[phone] # "encrypted"
  /\ Encrypted(phone, "none")
  /\ IF AuthenticationExpected(phone)
     THEN /\ session' = AuthenticationFailed(session)
          /\ Disconnect(phone)
          /\ \E in_window \in BOOLEAN, count \in BondCount :
               LET noted == RecordAuthFailure(enrollment, in_window, count = 0)
               IN  enrollment' = IF noted.pairing_repair_required
                                 THEN StopAdvertising(noted)
                                 ELSE ScheduleAdvertisingRetry(noted, session.connected)
     ELSE UNCHANGED << session, enrollment, closing_links >>
  /\ UNCHANGED << radio, links, bonds, removals, hid_ready, writing >>

(* ESP_GAP_BLE_REMOVE_BOND_DEV_COMPLETE_EVT.                               *)
BondIsRemoved(phone) ==
  /\ Btc /\ phone \in removals
  /\ removals' = removals \ {phone} /\ bonds' = bonds \ {phone}
  /\ \E count \in {Cardinality(bonds')} \cup (BondCount \cap {Unknown}),
        accepted \in Accepted("advertise"), timed \in Accepted("timer") :
       LET removed == BondRemoved(enrollment, count)
       IN  enrollment' =
             IF count = 0 /\ enrollment.replace_pending
             THEN OpenReplacementWindow(removed, session.connected, count,
                                        hid_ready, accepted, timed)
             ELSE removed
  /\ UNCHANGED << session, radio, links, closing_links, encryption, hid_ready, writing >>

BondRemovalFails(phone) ==
  /\ Btc /\ phone \in removals /\ "remove" \in Faults
  /\ removals' = removals \ {phone}
  /\ \E count \in BondCount, accepted \in Accepted("advertise") :
       enrollment' = BondRemovalFailed(enrollment, session.connected, count,
                                       hid_ready, accepted)
  /\ UNCHANGED << session, radio, links, closing_links, encryption, bonds, hid_ready, writing >>

-----------------------------------------------------------------------------
(***************************************************************************)
(* The BTC task: handle_gattc_event.                                       *)
(***************************************************************************)
(* ESP_GATTC_CONNECT_EVT: a phone found the advertiser, which stops.       *)
PhoneConnects(phone) ==
  /\ Btc /\ radio /\ phone \notin links /\ Room
  /\ radio' = FALSE /\ links' = links \cup {phone}
  /\ UNCHANGED << encryption, bonds, removals, hid_ready, writing >>

Reject(phone) ==
  /\ FALSE \in PeerAllowed(phone)
  /\ CloseLink(phone)
  /\ UNCHANGED << session, enrollment >>

Accept(phone) ==
  /\ TRUE \in PeerAllowed(phone) /\ ~session.connected
  /\ enrollment' = [enrollment EXCEPT !.advertising = FALSE, !.advertising_starting = FALSE]
  /\ \/ session' = Connected(session, phone, TRUE) /\ NoDisconnect
     \/ /\ "gatt" \in Faults
        /\ session' = Connected(session, phone, FALSE)
        /\ CloseLink(phone)

(* Another session is there already: the new link is left alone.           *)
Ignore(phone) ==
  /\ TRUE \in PeerAllowed(phone) /\ session.connected
  /\ UNCHANGED << session, enrollment, closing_links >>

Connect(phone) ==
  PhoneConnects(phone) /\ (Reject(phone) \/ Accept(phone) \/ Ignore(phone))

(* ESP_GATTC_DISCONNECT_EVT, of the session's link or of another.          *)
Disconnects(phone) ==
  /\ Btc /\ phone \in links
  /\ links' = links \ {phone} /\ closing_links' = closing_links \ {phone}
  /\ Encrypted(phone, "none")
  /\ IF session.connected /\ session.remote_bda = phone
     THEN /\ session' = Disconnected(session)
          /\ \E count \in BondCount, accepted \in Accepted("advertise"),
                timed \in Accepted("timer") :
               LET e == [enrollment EXCEPT !.reopen_after_disconnect = FALSE]
               IN  enrollment' =
                     IF enrollment.reopen_after_disconnect
                     THEN RequestEnroll(e, FALSE, count, hid_ready, accepted, timed)
                     ELSE ScheduleAdvertisingRetry(e, FALSE)
     ELSE UNCHANGED << session, enrollment >>
  /\ UNCHANGED << radio, bonds, removals, hid_ready, writing >>

(* The GATT layer answers its oldest question.                             *)
Answer(question) ==
  /\ Btc /\ session.gatt # << >> /\ Head(session.gatt) = question
  /\ UNCHANGED << enrollment, radio, links, encryption, bonds, removals, hid_ready >>

Quietly == UNCHANGED << closing_links, writing >>

OpenEvt ==
  /\ Answer(Open) /\ UNCHANGED writing
  /\ \E mtu_accepted \in Accepted("gatt") :
       session' = Opened(Answered(session), mtu_accepted)
  /\ \/ NoDisconnect
     \/ "encryption" \in Faults /\ Disconnect(session.remote_bda)

OpenEvtFails ==
  /\ Answer(Open) /\ "gatt" \in Faults
  /\ session' = Answered(session)
  /\ Disconnect(session.remote_bda)
  /\ UNCHANGED writing

MtuEvt ==
  /\ Answer(Mtu) /\ Quietly
  /\ \E accepted \in Accepted("gatt") :
       session' = MtuConfigured(Answered(session), accepted)

SearchRes ==
  /\ Answer(Search) /\ Quietly
  /\ session' = ServiceFound(session)

SearchCmpl ==
  /\ Answer(Search) /\ Quietly
  /\ \E ok \in Accepted("gatt"), accepted \in Accepted("gatt"),
        outcome \in {"error", "missing", "found"} :
       session' = SearchCompleted(Answered(session), ok, outcome, accepted)

RegForNotify(source) ==
  /\ Answer(Register(source)) /\ Quietly
  /\ \E ok \in Accepted("gatt"), written \in Accepted("gatt") :
       session' = Registered(Answered(session), source, ok, written)

(* ESP_GATTC_WRITE_DESCR_EVT, up to the check that it is expected.         *)
WriteDescr(source) ==
  /\ Answer(WriteCccd(source)) /\ UNCHANGED closing_links
  /\ \E ok \in Accepted("gatt") :
       /\ session' = IF WriteExpected(session, source) /\ ~ok
                     THEN Recover(Answered(session)) ELSE Answered(session)
       /\ writing' = IF WriteExpected(session, source) /\ ok THEN source ELSE None

(* The rest of it.  The handle is looked up again first: when it was       *)
(* forgotten in between, the event may have no effect.                     *)
FinishWrite ==
  /\ writing # None /\ writing' = None
  /\ \/ \E accepted \in Accepted("gatt") : session' = Written(session, writing, accepted)
     \/ writing \notin session.cccds /\ UNCHANGED session
  /\ UNCHANGED << enrollment, stack, stopping, workerVars, callerVars >>

(* ESP_GATTC_SRVC_CHG_EVT: handle_service_changed.                         *)
ServiceChanged ==
  /\ Btc /\ session.remote_bda \in links /\ Room
  /\ Matches(session)
  /\ \E accepted \in Accepted("gatt") :
       session' = StartDiscovery(ServiceInvalidated(session), accepted)
  /\ UNCHANGED << enrollment, stack, writing >>

-----------------------------------------------------------------------------
(***************************************************************************)
(* The timer task.                                                         *)
(***************************************************************************)
AdvertisingRetry ==
  /\ enrollment.advertising_retry
  /\ Advertises([enrollment EXCEPT !.advertising_retry = FALSE], session.connected)
  /\ UNCHANGED << session, stack, writing, stopping, workerVars, callerVars >>

(* discovery_retry_callback.                                               *)
DiscoveryRetry ==
  /\ Matches(session) /\ session.discovery_retry = session.generation
  /\ \E accepted \in Accepted("gatt") :
       session' = StartDiscovery([session EXCEPT !.discovery_retry = None], accepted)
  /\ UNCHANGED << enrollment, stack, writing, stopping, workerVars, callerVars >>

(* Time passes the deadline of the enrollment window.                      *)
WindowExpires ==
  /\ WindowActive(enrollment)
  /\ enrollment' = [enrollment EXCEPT !.window = "expired"]
  /\ UNCHANGED << session, stack, writing, stopping, workerVars, callerVars >>

(* enroll_timeout_callback, of the timer task or the worker: whoever finds *)
(* the window expired closes it, then stops the advertiser.                *)
WindowTimeout ==
  /\ enrollment.window = "expired" /\ enrollment' = CloseWindow(enrollment)
  /\ stopping' = (stopping \/ ~enrollment.has_bond)
  /\ UNCHANGED << session, stack, writing, workerVars, callerVars >>

WindowStop ==
  /\ stopping /\ stopping' = FALSE
  /\ enrollment' = StopAdvertising(enrollment)
  /\ UNCHANGED << session, stack, writing, workerVars, callerVars >>

-----------------------------------------------------------------------------
(***************************************************************************)
(* The worker's loop: check_connection_deadline, the generation, an item.  *)
(***************************************************************************)
Worker(from, to) ==
  /\ worker = from /\ worker' = to
  /\ UNCHANGED << radio, links, encryption, bonds, removals, hid_ready,
                  writing, stopping, callerVars >>

(* check_connection_deadline, its critical section: a deadline that is set *)
(* may have passed, and the retry of a close may be due.                   *)
CloseAsked(s) == [s EXCEPT !.close_attempts = @ + 1]

DeadlinePassed ==
  /\ Worker("loop", "deadline_state") /\ MayExpire(session)
  /\ session' = IF MayClose(Expired(session)) THEN CloseAsked(Expired(session))
                ELSE Expired(session)
  /\ worker_peer' = session.remote_bda
  /\ UNCHANGED << enrollment, closing_links, request >>

DeadlineState ==
  /\ Worker("deadline_state", "deadline_close")
  /\ session' = In(session, "recovering")
  /\ UNCHANGED << enrollment, closing_links, request, worker_peer >>

CloseDue ==
  /\ Worker("loop", "deadline_close") /\ MayClose(session)
  /\ session' = CloseAsked(session) /\ worker_peer' = session.remote_bda
  /\ UNCHANGED << enrollment, closing_links, request >>

DeadlineClose ==
  /\ Worker("deadline_close", "loop")
  /\ Disconnect(worker_peer) /\ worker_peer' = None
  /\ UNCHANGED << session, enrollment, request >>

(* A request is written on a ready session, for its generation; one of an  *)
(* earlier generation is given up.                                         *)
RequestWritten ==
  /\ Worker("loop", "loop")
  /\ session.ready /\ request # session.generation
  /\ request' = session.generation
  /\ UNCHANGED << session, enrollment, closing_links, worker_peer >>

RequestEnds ==
  /\ Worker("loop", "loop")
  /\ request # None /\ request' = None
  /\ UNCHANGED << session, enrollment, closing_links, worker_peer >>

(* A request failed, and the worker found its generation the current one.  *)
RequestFails ==
  /\ Worker("loop", "items") /\ request = session.generation
  /\ UNCHANGED << session, enrollment, closing_links, request, worker_peer >>

(* recover_data_stream.                                                    *)
RecoverDataStream ==
  /\ Worker("items", "recover_state") /\ request' = None
  /\ session' = [session EXCEPT !.ready = FALSE]
  /\ worker_peer' = IF session.connected THEN session.remote_bda ELSE None
  /\ UNCHANGED << enrollment, closing_links >>

RecoverState ==
  /\ Worker("recover_state", "recover_close")
  /\ session' = In(session, "recovering")
  /\ UNCHANGED << enrollment, closing_links, request, worker_peer >>

RecoverClose ==
  /\ Worker("recover_close", "loop")
  /\ Disconnect(worker_peer) /\ worker_peer' = None
  /\ UNCHANGED << session, enrollment, request >>

-----------------------------------------------------------------------------
(***************************************************************************)
(* The enrollment API: ancs_client_request_enroll.                         *)
(***************************************************************************)
Caller(from, to) ==
  /\ caller = from /\ caller' = to
  /\ UNCHANGED << radio, links, encryption, bonds, hid_ready, writing,
                  stopping, workerVars >>

Calls(to) ==
  /\ Caller("idle", to) /\ calls < MaxCalls /\ Room /\ calls' = calls + 1

RequestEnrollCall ==
  /\ Calls("enroll") /\ UNCHANGED << session, enrollment, closing_links, removals, seen >>

(* The caller finds the device busy, or is told the bond count.            *)
EnrollAsk ==
  /\ IF EnrollBusy(enrollment, session.connected)
     THEN Caller("enroll", "idle") /\ seen' = Unknown
     ELSE Caller("enroll", "enroll_sync") /\ seen' \in BondCount
  /\ UNCHANGED << session, enrollment, closing_links, removals, calls >>

EnrollSync ==
  /\ Caller("enroll_sync", IF seen = Unknown THEN "idle" ELSE "enroll_open")
  /\ enrollment' = SyncBonds(enrollment, seen)
  /\ UNCHANGED << session, closing_links, removals, seen, calls >>

(* The caller closes or opens the window, starts its timer or takes the    *)
(* window back, and starts advertising: two or three critical sections in  *)
(* one step.                                                               *)
EnrollOpen ==
  /\ Caller("enroll_open", "idle")
  /\ \E accepted \in Accepted("advertise"), timed \in Accepted("timer") :
       enrollment' = EnrollGranted(enrollment, session.connected, seen,
                                   hid_ready, accepted, timed)
  /\ seen' = Unknown
  /\ UNCHANGED << session, closing_links, removals, calls >>

-----------------------------------------------------------------------------
(***************************************************************************)
(* The enrollment API: ancs_client_replace_enrollment, confirmed.          *)
(***************************************************************************)
ReplaceCall ==
  /\ Calls("replace") /\ enrollment' = ClearGuard(enrollment)
  /\ seen' \in BondCount
  /\ UNCHANGED << session, closing_links, removals >>

ReplaceMark ==
  /\ Caller("replace", IF seen = Unknown THEN "idle" ELSE "replace_stop")
  /\ IF seen = Unknown THEN UNCHANGED << enrollment, closing_links >>
     ELSE /\ enrollment' = [enrollment EXCEPT !.replace_pending = seen > 0]
          /\ IF session.connected THEN Disconnect(session.remote_bda) ELSE NoDisconnect
  /\ seen' = Unknown
  /\ UNCHANGED << session, removals, calls >>

ReplaceStop ==
  /\ Caller("replace_stop", "replace_remove")
  /\ enrollment' = StopAdvertising(enrollment)
  /\ UNCHANGED << session, closing_links, removals, seen, calls >>

(* remove_all_ble_bonds asks for the removal of each bond it was told of.  *)
ReplaceRemove ==
  /\ Caller("replace_remove", "replace_check")
  /\ enrollment' = IF bonds = {} THEN ClearBond(enrollment) ELSE enrollment
  /\ removals' = removals \cup bonds
  /\ UNCHANGED << session, closing_links, seen, calls >>

ReplaceRemoveFails ==
  /\ Caller("replace_remove", "replace_failed")
  /\ \/ "query" \in Faults /\ UNCHANGED removals
     \/ /\ "remove" \in Faults
        /\ \E some \in SUBSET bonds \ {bonds} : removals' = removals \cup some
  /\ UNCHANGED << session, enrollment, closing_links, seen, calls >>

ReplaceFailed ==
  /\ Caller("replace_failed", "idle")
  /\ \E count \in BondCount, accepted \in Accepted("advertise") :
       enrollment' = BondRemovalFailed(enrollment, session.connected, count,
                                       hid_ready, accepted)
  /\ UNCHANGED << session, closing_links, removals, seen, calls >>

(* The removals are carried out later, or there was nothing to remove.     *)
ReplaceCheck ==
  \E count \in BondCount :
    /\ Caller("replace_check", IF count = 0 THEN "replace_open" ELSE "idle")
    /\ enrollment' = IF count = 0 THEN [enrollment EXCEPT !.replace_pending = FALSE]
                     ELSE enrollment
    /\ UNCHANGED << session, closing_links, removals, seen, calls >>

ReplaceOpen ==
  /\ Caller("replace_open", IF session.connected THEN "idle" ELSE "enroll")
  /\ enrollment' = IF session.connected
                   THEN [enrollment EXCEPT !.reopen_after_disconnect = TRUE]
                   ELSE enrollment
  /\ UNCHANGED << session, closing_links, removals, seen, calls >>

-----------------------------------------------------------------------------
GapEvent ==
  \/ AdvDataSet \/ HidReady \/ AdvStartComplete \/ AdvStartFails \/ AdvStops
  \/ \E phone \in Phone :
       \/ SecReq(phone) \/ Encrypts(phone)
       \/ AuthCmplSuccess(phone) \/ AuthCmplFailure(phone)
       \/ BondIsRemoved(phone) \/ BondRemovalFails(phone)

GattcEvent ==
  \/ \E phone \in Phone : Connect(phone) \/ Disconnects(phone)
  \/ OpenEvt \/ OpenEvtFails \/ MtuEvt \/ SearchRes \/ SearchCmpl
  \/ \E source \in Source : RegForNotify(source) \/ WriteDescr(source)
  \/ FinishWrite \/ ServiceChanged

TimerTask ==
  \/ AdvertisingRetry \/ DiscoveryRetry
  \/ WindowExpires \/ WindowTimeout \/ WindowStop

WorkerTask ==
  \/ DeadlinePassed \/ DeadlineState \/ CloseDue \/ DeadlineClose
  \/ RequestWritten \/ RequestEnds \/ RequestFails
  \/ RecoverDataStream \/ RecoverState \/ RecoverClose

CallerTask ==
  \/ RequestEnrollCall \/ EnrollAsk \/ EnrollSync \/ EnrollOpen
  \/ ReplaceCall \/ ReplaceMark \/ ReplaceStop \/ ReplaceRemove
  \/ ReplaceRemoveFails \/ ReplaceFailed \/ ReplaceCheck \/ ReplaceOpen

Next == GapEvent \/ GattcEvent \/ TimerTask \/ WorkerTask \/ CallerTask

Spec == Init /\ [][Next]_vars

(***************************************************************************)
(* The worker and a caller run, timers fire, a callback ends, the          *)
(* advertiser carries out its commands and the stack a disconnect or a     *)
(* removal it accepted.  A deadline that stays set is found passed.        *)
(* Nothing is assumed of the phone.                                        *)
(***************************************************************************)
Fairness ==
  /\ WF_vars(WorkerTask) /\ SF_vars(DeadlinePassed) /\ SF_vars(CloseDue)
  /\ WF_vars(EnrollAsk \/ EnrollSync \/ EnrollOpen \/ ReplaceMark \/ ReplaceStop
             \/ ReplaceRemove \/ ReplaceFailed \/ ReplaceCheck \/ ReplaceOpen)
  /\ WF_vars(AdvertisingRetry) /\ WF_vars(WindowTimeout) /\ WF_vars(WindowStop)
  /\ WF_vars(FinishWrite)
  /\ WF_vars(AdvDataSet) /\ WF_vars(HidReady)
  /\ SF_vars(AdvStartComplete) /\ WF_vars(AdvStops)
  /\ \A phone \in Phone :
       /\ WF_vars(phone \in closing_links /\ Disconnects(phone))
       /\ WF_vars(BondIsRemoved(phone) \/ BondRemovalFails(phone))

FairSpec == Spec /\ Fairness

-----------------------------------------------------------------------------
TypeOK ==
  /\ session \in Session /\ enrollment \in Enrollment
  /\ radio \in BOOLEAN /\ hid_ready \in BOOLEAN
  /\ stopping \in BOOLEAN
  /\ closing_links \subseteq links /\ links \subseteq Phone
  /\ encryption \in [Phone -> {"none", "pairing", "encrypting", "encrypted"}]
  /\ bonds \subseteq Phone /\ removals \subseteq Phone
  /\ writing \in {None} \cup Source
  /\ request \in Nat \cup {None}
  /\ worker_peer \in Phone \cup {None} /\ seen \in Int

(* A ready session is with a connected phone on an authenticated and       *)
(* encrypted link, its service was found and both sources are subscribed   *)
(* to: the condition the worker relies on when it only tests ready         *)
(* (ancs_client.c:656, :715, :792), whatever the other tasks did between   *)
(* the steps of ESP_GATTC_WRITE_DESCR_EVT.                                 *)
ReadyIsSecured ==
  session.ready =>
    /\ session.connected /\ session.session_authenticated /\ session.link_encrypted
    /\ session.service_found /\ session.subscribed = Source

(* start_discovery and SEARCH_CMPL (ancs_client.c:1149, :1809): a session  *)
(* that says a discovery is in progress waits for a search that was asked  *)
(* for, so no restart is suppressed for an answer that will never come.    *)
(* What happens when none is in progress is left to ConnectionSettles.     *)
DiscoveryIsUnderway ==
  Matches(session) /\ session.discovery_in_progress =>
    \E i \in 1 .. Len(session.gatt) : session.gatt[i] = Search

(* record_auth_failure (ancs_client.c:448): once repeated failures asked   *)
(* for a repair, no enrollment window is open until it is asked for again. *)
RepairClosesWindow ==
  enrollment.pairing_repair_required => enrollment.window = "closed"

(* start_advertising and stop_advertising (ancs_client.c:1106, :1132), with *)
(* the commands under way: while the device is on the air, its flag says   *)
(* so or a stop is on its way, so that no advertising goes on unattended.  *)
(* The converse fails (AncsLinkStranger): StoredPhoneFindsDevice.          *)
AdvertisingIsAccounted ==
  radio => enrollment.advertising \/
           \E i \in 1 .. Len(enrollment.commands) : enrollment.commands[i] = "stop"

(* enroll_timeout_callback (ancs_client.c:955): with no phone known and no *)
(* window open the device comes off the air.                               *)
AdvertisingEnds ==
  radio /\ ~ShouldAdvertise(enrollment) ~> ~radio \/ ShouldAdvertise(enrollment)

(* check_connection_deadline (ancs_client.c:973): no connection stays for  *)
(* ever short of ready, whatever the phone does.                           *)
ConnectionSettles ==
  session.connected /\ ~session.ready ~> session.ready \/ ~session.connected

(* "After successful pairing, the ESP32 reconnects only to the stored      *)
(* iPhone" (docs/IOS_PAIRING.md:26): as long as a phone is known and not   *)
(* connected, the device comes to advertise, unless the API is called.     *)
StoredPhoneFindsDevice ==
  [](calls = 0) =>
    (enrollment.has_bond /\ ~session.connected ~>
       radio \/ session.connected \/ ~enrollment.has_bond)

(* ancs_client_replace_enrollment: a replacement that was begun comes to   *)
(* its end, so that the enrollment API is not refused for ever.            *)
ReplacementEnds == enrollment.replace_pending ~> ~enrollment.replace_pending

=============================================================================
