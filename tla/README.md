# HA-iOS-ANCS in TLA+

Models of the firmware that shows an iPhone's notifications in Home Assistant:
an ESP32 that pairs with one iPhone over BLE, reads its notifications through
the Apple Notification Center Service (ANCS) and publishes them over MQTT.
The models are checked with TLC on small instances; their invariants and most of
their action properties are proved with TLAPS for every value of the constants.

Line numbers are those of the sources in `src/`. `PROJECT.json` maps every
definition that models code to the lines it stands for.

## 1. The system

| component | state it keeps | operations | what makes it correct |
|---|---|---|---|
| ANCS client, link (`ancs_client.c`, BTC and timer tasks) | `s_client`: connection, authentication, handles, subscriptions, two deadlines, discovery retry, `advertising` and `advertising_starting` | callbacks of the GAP and GATT layers, two one-shot timers | ready only on a secured, subscribed link; every connection gets ready or ends; a bonded phone finds the device advertising |
| Enrollment (`ble_enroll.c`, `ancs_client.c` API) | window, `has_bond`, `replace_pending`, `reopen_after_disconnect`, repair guard | request, replace, window timer, auth failures, bond removals | one phone; repair guard closes the window; a replacement ends |
| ANCS client, worker (`ancs_client.c`, one task) | pending ring, request in flight, parser, retry, cache, duplicate filter | work queue items of 4 kinds, request time-out | a removed notification stays removed; answers meet the request they answer; nothing waits for ever |
| Request queue (`ancs_protocol.c`) | ring of 16 events | push, pop, cancel by uid, clear | FIFO with removal |
| Protocol parser (`ancs_protocol.c`) | response under assembly | begin, feed | takes only the response it waits for |
| App-name resolver (`ancs_app_resolver.c`) | table of bundle id to name | find, store | bounded, no stale name |
| MQTT relay (`mqtt_relay.c`) | queue of notifications, list of those waiting for their acknowledgement, connection flags, counters | observe, the worker's loop, the client's events, start, reconnect, stop, deinit | every item is freed once, by whoever holds it; nothing waits for a connection that is gone; no call meets a client that is stopped; the relay comes back |
| Relay policy (`relay_policy.c`) | 8 recent notifications | decide | filters in a fixed order, no duplicates in the window |
| Provisioning (`provisioning_state.c`, `_retry.c`, `_runtime.c`, `captive_dns.c`) | reducer state; the station's flags and its retry policy; access point | events of the Wi-Fi driver, a task that polls every 250 ms, start, stop, pause, scan | a station that was stopped says nothing of the next one; it keeps trying, at a distance; a long outage is announced |
| Provision store (`provision_store.c`) | two slots and a pointer in NVS, a marker of verified settings | save, load, reset | a power cut between two writes leaves an offered configuration; the marker is earned |
| Portal (`portal_http.c`) | one session | HTTP handlers | calls of the other components in the right order |
| Notification sink (`notification_sink_serial.c`) | the registered observer | publish | every record reaches the observer |
| Application (`main/app_main.c`, the coordinator task) | `s_app`: reducer state, configuration in force, timers | events of the other components, a reconciliation each second | proven settings are retried without the setup network, an outage opens it, lost events are made up for |
| HID server, device credentials, platform identity | - | - | external or constant |
| Home Assistant integration (`custom_components/ha_ios_ancs`) | runtime per device | MQTT messages, entities | availability and last notification follow the topics |

How they interact: callbacks of the Bluetooth stack run in the BTC task, one at
a time. They change `s_client` under `s_shared_state_lock` and hand events and
fragments to the worker through a FreeRTOS queue, each item tagged with the
connection's `generation`. The worker polls the queue every 50 ms, writes
requests to the phone, and gives complete notifications to the serial sink,
whose observer is the MQTT relay. The relay copies them into a queue under its
own lock; its worker publishes them through the MQTT client, whose task reports
connections, losses and acknowledgements. The portal, MQTT commands and the BOOT
button call the enrollment API. The coordinator in `app_main.c` takes the events
of Wi-Fi, portal, client and timers from one queue; it starts, reconnects, stops
and destroys the relay.

What is hard: critical sections are short, so every handler is several steps
that other tasks may come between; calls of the Bluetooth stack are
asynchronous and may be refused; the phone may vanish at any point, answer
late or not at all; queues and rings are small.

## 2. Modules

| module | models |
|---|---|
| `AncsState` | `ancs_client_state_after` |
| `AncsSession` | the session half of `s_client` and the functions on it, as operators from a session to the next |
| `Enrollment` | `s_enroll` and the enrollment half of `s_client`, as operators |
| `AncsLink` | the tasks that act on them: composes `AncsSession` and `Enrollment` with the Bluetooth stack |
| `EventRing` | the ring of pending events as a record and its operators |
| `EventFifo` | what the ring promises: a queue with removal by uid |
| `RequestQueue` | the ring as a state machine, refined to `EventFifo` |
| `AncsWorker` | the worker, its queue and its producers; takes `EventRing` in |
| `RelayPolicy` | `relay_policy_decide` and the ring of recent notifications, as operators |
| `RecentWindow` | that ring under any stream of notifications |
| `MqttRelay` | the relay's worker, observers, event handler, the client and the coordinator's calls; takes `RelayPolicy` in |
| `ProvisionStore` | the store's slots, pointer and calls with reads and writes of the flash failing or the power cut between any two of them |
| `SettingsStore` | what the store promises: one live configuration among those on offer, and how reads that fail put an older one on offer again |
| `ProvisioningRuntime` | the Wi-Fi station: the calls of others, the driver with its late events, the event handler and the polling task |
| `StationPort` | what the station promises the coordinator; `Coordinator` is built on it |
| `ProvisioningRetry` | the station's retry policy with its times |
| `ProvisioningState` | `provision_app_reduce`, as operators |
| `Coordinator` | the coordinator with its queue, timers and reconciliation; composes `ProvisioningState` with `StationPort`, the relay as it sees it, the portal's task and the flash |
| `MC*` | instances for TLC; `MCParts` runs the parts that work alone, one at a time: `RequestQueue`, `RecentWindow`, `ProvisionStore`, `ProvisioningRuntime`, `ProvisioningRetry`; it extends them, so that their definitions carry their names (`QueueNext`, `WindowNext`, `RuntimeNext`, `RetryNext`) |
| `*_proofs` | theorems and proofs about the module of that name; those of `AncsLink` are also about the operators of `AncsSession` and `Enrollment`, those of `RequestQueue` about `EventRing`'s (which `AncsWorker`'s rest on), those of `ProvisioningRuntime` about `ProvisioningRetry` |

### AncsLink

State: `session` and `enrollment` are `s_client` and `s_enroll`; the stack is
`radio`, `links`, `closing_links`, `encryption`, `bonds`, `removals`,
`hid_ready`; the rest are positions of tasks between critical sections.

* A BTC callback is one step: the code of a callback is run by one task and
  what it reads it has just written, with one exception. On WRITE_DESCR the
  session is made ready after the lock was released and taken again (1903-1962),
  so it is two steps (`WriteDescr`, `FinishWrite`).
* The worker's deadline check, its recovery of the data stream, the window
  timer and the two enrollment calls have a step per critical section or per
  call of the stack: `DeadlinePassed` ... `RecoverClose`, `WindowTimeout`,
  `EnrollAsk` ... `ReplaceOpen`. One of them is coarser: `EnrollOpen` closes or opens
  the window, starts its timer (or closes the window when it cannot) and starts
  advertising, two or three critical sections of the code. In between the window is
  open without a timer or advertising, which no property here is about.
* The caller of the enrollment API is one thread. The clean-up after a failed
  replacement (2621-2631) is one step.
* Handles are one flag, deadlines are set or not, time is left out: a deadline
  that is set may pass at any time.
* External stack: the advertiser stops when a phone connects; a start can fail
  only while the radio is off; no pairing or encryption begins on a link that
  is being closed; an answer of the GATT layer comes in the order of the
  questions of a connection; a link ends at any time.

`Faults` names the calls that may fail: `gatt` (open, MTU, search, register,
write), `encryption`, `disconnect`, `advertise`, `query` (bond count and list),
`remove` (bond removal), `timer`.

### AncsWorker

State: `link`, `generation`, `session_id` are what the worker reads of
`s_client`; `work` is the FreeRTOS queue; `held` and `at` the item and place in
the loop; `pending` the ring; `active` the request in flight with its parser;
`app_resolver`, `cache`, `last_event` the small tables; `sink` what the present turn
of the loop published last and `gone` the uids whose removal was the last thing
published (history variables). A notification is its uid and its event id
(`EventId`); its app is `AppOf`. A request is for the notification or, when the
app's name is unknown, for the app's attributes. The phone answers a request with
the response to the write and two fragments, so that time-outs, cancellations and
lost fragments can come between them. `disturbed` remembers that a fragment was
dropped or a request timed out on this connection: after that the phone's answers
may be out of step with the requests, as the code accepts.

### RequestQueue and RecentWindow

The two rings and their operations, each on its own. `RequestQueue` implements
`EventFifo` step by step, except for a cancellation that finds the occupied slots
past the end of the array. `RecentWindow` keeps beside the ring the ids it has
passed on, as many as the ring has places (a history variable).

### MqttRelay

State: `ctx` is `s_ctx` without its lists; `queue`, `pending` and `heap` say where
the allocated items are; `mqtt`, `outbox`, `unacked`, `events` and `handling` are
the client of esp-mqtt (external, modelled from the calls and events the relay
uses); an item has an id of its own (`MessageId`), so that two of the same
notification are told apart while memory or the client knows them; `at`, `message`
and `observers` are positions of tasks between critical
sections; `app` and `has_ip` are what the coordinator and the provisioning
runtime know; `availability` is the message the broker retains.

* Each critical section under `s_ctx.lock` and each call of the client is a step, with
  three exceptions. `NotifyWorker` reads the worker's handle under the lock and gives
  the notification after it (1930-1935), as does `ClientDestroyed` with the flag
  `worker_running` (1953-1958). `Prepare` is `mqtt_relay_set_wifi_connected`,
  `mqtt_relay_ensure_worker` and the flags set before the client is called (1973-1996,
  2338-2341, 2657-2662). A handle that is stale
  when the notification is given is a hazard of `PROJECT.json` the model does not have.
* `esp_mqtt_client_stop` refuses a client that is not running. Both callers of
  `mqtt_relay_stop_unlocked` ignore its result, and `ClientStops` then changes nothing of
  the client: one that is stopped has no messages left.
* The client's task holds the client's recursive lock while it handles an event
  and while it connects; calls of other tasks wait for it (`ApiFree`). It posts
  no event when it is stopped from outside.
* The handler of `MQTT_EVENT_CONNECTED` and of the others are two steps where the
  code leaves the lock in between. The events that only log are left out.
* The worker: wait for a notification, take the refresh flags, publish status and
  discovery, drain the queue. A publishing call is `enqueue`, `call` and `return`,
  because `publish_in_flight` counts it outside the lock. It does not count the question
  for the outbox's size (`OutboxHolds`, `OutboxEmpty`), which can meet a client that was
  destroyed; `CallsFindTheClient` is about publishing calls only.
* An observer: decide and reserve, allocate outside the lock, decide again, queue,
  notify.
* The coordinator: `start_or_reconnect_mqtt`, `stop_mqtt`, `suspend_mqtt_for_wifi`,
  the status snapshot; the steps of `mqtt_relay_stop` and `mqtt_relay_deinit`. Its
  reconciliation each second and its retry timer appear as calls that are made
  whenever they are due.
* Notifications are relay ids, payloads and topics are left out, the retained
  messages are `online`, `offline` and one for the rest.

`Faults`: `memory` (allocations), `subscribe`, `enqueue` (calls of the client),
`start`, `slow` (the worker's bounded wait for an empty outbox runs out).
`Calls`: `stop` (teardown), `wifi` (loss and return of the IP address), `snapshot`.

### ProvisionStore, SettingsStore

State: `slot` holds a blob (configuration and generation) or something unreadable;
`active` is the pointer; `call` the NVS call a save is at. A save promotes the
newest slot when the pointer does not name it, writes the other slot with the next
generation, reads it back and moves the pointer; each of these is a step that may
be refused or cut off (the power fails, the device restarts and loads). `BestSlot`,
`LiveSlot` and `LoadFrom` are `consider_best_slot`, `select_live_slot` and
`provision_store_load`. `candidates` (history) is what a load may return.

A read of a slot or of the pointer may fail, for want of memory or of an error of NVS,
and `read_best_nvs_slot` (415-432) goes on as if the value were not there. `Readings` are
the results it can have, by what of the flash was read (`ReadFaults` names the values
whose reads may fail); `SaveBegins`, `SaveRefused` and `LoadFrom` depend on one of them,
`Load` is the load that reads everything. What overlooked slots lead to is in the model:

* A save that overlooks the newest slot promotes the older one or goes by its
  generation, and fills the newest slot. If it fails, an older configuration may be
  live; `Overlook` of `SettingsStore` says so.
* A save that reads neither slot starts again from generation 1 and writes `cfg_a` in
  place. If that was the only configuration and the save is cut off, none is left. A
  step of `Damage` stands for it, `SaveKeepsAConfig` is stated of the saves that read a
  configuration, and after it the other slot may pass for newer
  (`AcknowledgeBlindly`).
* A load that overlooks the newest slot returns the older one or nothing.
  `LiveWasOffered` is stated of the loads that read the newest slot.

The repository neither excludes nor mentions these; they are a hazard of
`PROJECT.json`. The abstract `SettingsStore` has one live configuration and those on offer; a refused or
interrupted save makes it waver among them until the next save is acknowledged.
Damage of the flash itself and a reset that ends half-way are steps of both.

### ProvisioningRuntime, StationPort, ProvisioningRetry

`sta` is the station's flags, `retry` those of `s_retry`, `driver` the Wi-Fi driver
(external) and `loop` its events on their way to `wifi_event_handler`. All code that
touches the flags holds one mutex, so a call is one step; the driver's events are
what comes late. They carry no generation: `old` (history) marks those of a station
that was stopped. `DriverFaults` names the calls that may fail. Deadlines are reached
when the environment chooses; `ProvisioningRetry` has them as numbers in units of
five seconds. `StationPort` is what `provisioning_runtime_get_status` shows of it all.

### Coordinator

State: `app` is `s_app` with the relay (`mqtt`, `client`) and the access point as
the coordinator sees them; `station` is a `StationPort`; `events` the events on
their way, a set because they come through two queues and overtake each other, from
which any may be lost; `commands` the portal's messages in order; `task` the three
parts of `handle_config_changed`; `saving` the HTTP task between the save and the
post; `flash` the stored configuration and marker. The reads of the flash may fail: the device then
boots without its configuration, or with an older one that the other slot still holds
(`Loaded`), and without its marker (`LoadedMarker`, which also stands for the marker in
memory that a change of configuration compares with). The portal loads what it saved
before it posts it, and does not post when that fails (`PostConfig`).

* An event is handled in one turn of `coordinator_task`, by the composition of
  the functions the handler calls: filter, reducer, relay, access point.
* `ok` says which of the fallible calls of a turn work, `reached` how its one
  comparison of a deadline with the clock turns out.
* Generations of station and client events are modelled by their effect: a change of
  configuration makes the waiting ones void (`Outdated`).
* A restart boots from the flash, in the middle of anything.

`Faults`: `access point`, `station`, `relay`, `flash` (calls that fail, writes of the
flash), `reads` (of the flash), `loss` (events), `restart`.

## 3. Runs

| run | checks | shows | bounds |
|---|---|---|---|
| `Parts` | `ImplementsFifoUnlessWrapped`, `CancelRemovesUid`, `SuppressesTheLast`, `SaveKeepsAConfig`, `LiveWasOffered`, `ImplementsSettingsStore`, `AddressIsLive`, `FailuresAreOwn`, `ImplementsStationPort`, `KeepsTrying`, `AttemptsAreSpaced` | The parts that work alone. The ring of pending events is a FIFO with removal by uid as long as no cancellation finds it wrapped around the end of its array, and even then removes what it should; the ring of recent notifications suppresses exactly the last ones; a save cut off anywhere leaves a configuration on offer, with slots and pointer read or overlooked; late events of a stopped station neither bring an address up nor count as failures of the next; the station goes on trying; attempts keep their distance. | ring of four slots and two uids with two events each; window of three and five ids; three configurations and five generations, every read failing at times; two profiles, eight waiting events, every driver fault; 25 s to 5 min in units of 5 s |
| `AncsWorkerEvents` | `TypeOK`, `AnswersStayInStep`, `CachedIsLive`, `RemovedStaysRemoved` | Two notifications on one connection: additions, changes, removals and duplicates in every order, interleaved with the request in flight and its answers. | two uids of one app, three events, one generation, queues of two |
| `AncsWorkerSessions` | `FragmentMeetsItsGeneration`, `RequestEnds`, `PendingDrains` | One notification across a disconnection or service changes, under a fair worker: what was queued or in flight when a session ended never meets the next one's requests, no request stays in flight for ever whatever answers get lost, and pending events are taken up. | one uid, an addition and a removal or two, three generations, a work queue of one |
| `AncsLink` | `TypeOK`, `ReadyIsSecured`, `DiscoveryIsUnderway`, `RepairClosesWindow`, `AdvertisingIsAccounted` | Two phones, an enrollment or replacement call and every kind of call that may fail: a ready session is secured, a session that says a discovery is in progress waits for a search that was asked for, the repair guard keeps the window closed, and a device on the air has its flag set or a stop on its way (the converse fails, see `AncsLinkStranger`). | two symmetric phones, every fault, four generations, one call |
| `AncsLinkProgress` | `ConnectionSettles`, `StoredPhoneFindsDevice`, `ReplacementEnds`, `AdvertisingEnds` | One phone, GATT calls and bond removals that fail, under the fairness of the tasks and timers: every connection gets ready or ends, a stored phone finds the device advertising again, a replacement ends, and so does advertising when no phone is stored and no window open. | one phone, faults `gatt` and `remove`, three generations, one call |
| `AncsLinkStranger` (violated) | `StoredPhoneFindsDevice` | A phone that is not the stored one connects and is rejected: the device keeps believing it advertises, the radio is off, and nothing starts it again. | two phones, no faults, two generations, no call |
| `MqttRelay` | `TypeOK`, `ItemsHaveOneOwner`, `OfflineHoldsNothing`, `CallsFindTheClient` | Two notifications and republications of the status through losses of the connection and of the network, suspensions and teardowns of the relay, and faults: lack of memory, failed subscriptions, publications and starts. No item leaks or is freed twice, nothing waits in the relay while offline (the client may still send what its own outbox holds), no publishing call meets a stopped client. | two symmetric notifications of one observer, a queue of one and a window of one, one message at a time in the client (`OneInFlight`), every call, every fault but `slow` |
| `MqttRelayProgress` | `QueuedIsTakenUp`, `OnlineIsAnnounced`, `CoordinatorReturns`, `ComesBack` | Under fair tasks, and with an outbox that may be slow to drain, no wake-up of the worker is lost, a connection that lasts is announced, the coordinator comes back from every stop and teardown, and a relay with a network gets connected again however often the broker goes away. | one notification, call `stop`, fault `slow` |
| `MqttRelayStranded` (violated) | `ComesBack` | An event handled while the relay is stopped leaves it connecting for ever: once the network is back no attempt is made. | one notification, call `wifi`, no faults |
| `Coordinator` | `MarkerIsEarned`, `RecoveryHasAReason` | Configurations are saved, replaced, tested and reset while events are late, overtake each other or get lost, flash and station fail and the device restarts: the marker names settings that connected, and proven settings open the setup network only for a reason of their own. | two symmetric configurations, one event and one command under way, faults `station`, `flash`, `loss`, `restart` |
| `CoordinatorProgress` | `OutageOpensAP`, `AttemptsGoOn`, `ConnectionEndsRecovery` | Whatever events are lost, the reconciliation each second opens the setup network in a lasting outage, keeps attempts going while there is an address (a relay that is connecting counts as attempting, however long), and notices the connection that ends recovery. | one configuration, faults `access point`, `relay`, `reads`, `loss` |
| `CoordinatorWindow` (violated) | `WindowIsBounded` | The timer of the ten-minute window runs out before the reducer's deadline, its only event is ignored, and the window stays open. | one configuration, four events, no faults |

A run marked *violated* finds a disagreement between the code and what the
repository says of it, see the findings.

Bounds. Generations: an action that begins one is disabled past `MaxGeneration`.
A connection takes two (one when it begins, one when it ends) and a service change
one, so four give two connections, or one with service changes. Each call of the
enrollment API costs `CallWeight` generations (`Room`), so that the behaviours with
a call have fewer connections and both stay small. `MaxCalls` is the number of API
calls; one call against everything the stack does is where its steps can be
interleaved. `MaxArrivals` bounds the events that reach the worker: three make an
addition, a change and a removal of one of two uids, or a removal among two
pending. `AncsWorkerSessions` leaves changes out (`EventId`), which the worker treats
as additions. `Capacity`, `WorkCapacity`, `CacheCapacity`, `ResolverCapacity`,
`QueueCapacity` and `RecentCapacity` are 16, 24, 4, 16, 8 and 8 in the code and one
to four here, so that the limits are reached; the cache is full in
`AncsWorkerSessions`, with room for one, and has room for both notifications in
`AncsWorkerEvents`; the window of `Parts` has more
notifications than places. Two phones suffice to tell the stored one from another; they are
interchangeable, so the run without liveness takes them as symmetric.
`RepairThreshold` is 3 in the code; 1 lets the guard close with few steps, and the
proofs take any. `MaxOutbox` is the number of messages in the outbox beside which a
snapshot is published or that outlive a connection; with 0 a snapshot waits for an
empty outbox, and the worker's own messages still queue there. `OneInFlight` keeps one
message at a time in the client, sent or not; two notifications still meet each other
in the queue, in the worker's hand and on the pending list, because an acknowledgement
may be handled before the item is tracked. One observer with two notifications meets
itself only through the items it has already handed in; `MessageId` has one element,
so a notification handed in again while its former item is in use is left to the proofs. An outbox that is slow to drain
only lets the worker go on earlier and is left to `MqttRelayProgress`. The liveness runs
have smaller bounds than the others, because TLC needs the whole graph for them.

`StoredPhoneFindsDevice` is stated of behaviours without enrollment calls: with
them a window's timer that is preempted between its decision and its effect can
stop advertising for a phone stored meanwhile (a hazard of `PROJECT.json`).

In `Parts` a generation number ends at `GenerationLimit`, as the code's ends at the
largest 32-bit number: five saves let the two slots change roles twice and leave room
for those that failed. `ReadFaults` has all three values; a read that does not fail is
one of the `Readings` as well. Eight waiting driver events are those of two stops and starts.
In `Coordinator` one event under way at a time (`MaxEvents`) still has every order of
events, because any of them may wait, be overtaken through a loss or be made up for by
the reconciliation; `CoordinatorWindow` has four so that none of its events is lost.
One command in the queue (`MaxCommands`) leaves a second one waiting in `saving`.
The access point that fails, the relay that refuses and the reads of the flash that
fail are in `CoordinatorProgress` only, its writes and restarts in `Coordinator` only: together they exceed what TLC explores
in minutes, and the proofs take any set of faults.

`CHECK_DEADLOCK FALSE` where a behaviour may stop: the generations are used up,
or no phone comes, or the relay is idle and nothing is lost any more.

## 4. Fairness

*AncsWorker.* Weak fairness of the worker's steps: FreeRTOS runs the task, which
never waits longer than 50 ms. Strong fairness of `Timeout`: a deadline is reached,
so a request that stays in flight is found late at some turn of the loop.

*AncsLink.* Weak fairness of the worker, of the caller of the API and of the timer
task once it began a callback, since the scheduler runs them; of the advertising
retry and the window's timer, which FreeRTOS's timer service runs; of the stack's
completions (`AdvDataSet`, `AdvStops`, `HidReady`, the removal of a bond, the end of
a link that is being closed), which Bluedroid posts. Strong fairness of
`DeadlinePassed` and `CloseDue`, because a deadline that is set again and again is
reached once it stays, and of `AdvStartComplete`. Nothing is assumed of the phone:
it may stop answering at any point, and never connect.

*MqttRelay.* Weak fairness of the worker, of publishing calls, of the observers
after their first step, of the event handler, of the coordinator once it has begun;
of the client's connection attempts and messages; of the loss of a connection that
has no network any more (the keep-alive); of the coordinator's reactions to Wi-Fi,
its retry timer and the suspension, which its reconciliation each second repeats.
Strong fairness of `OutboxTimesOut`, the end of a bounded wait, and of
`ConnectSucceeds`: the broker takes a connection in the end. Nothing makes an
observer start, the broker go away or an operator call.

*ProvisioningRuntime.* Weak fairness of the handlers of the driver's events, which the
event loop runs one after the other; strong fairness of the polling task giving up an
attempt and beginning one, since it looks every 250 ms and deadlines are reached.
Nothing is assumed of the driver: a join may hang or fail for ever.

*Coordinator.* Strong fairness of a reconciliation in which the fallible calls work: it
comes every second, and a call that is repeated works at some time. Weak fairness of
the retry timer, of the HTTP task between its save and its post, and of the client
closing a connection that failed. Nothing of network, broker and user; all events may be
lost. The timer of the reconciliation starts only when the ANCS client came up
(app_main.c:1248), a hazard of `PROJECT.json`.

## 5. Proofs

Every invariant the runs check is a theorem for every value of the constants, and so
is every action property. Each rests on an inductive invariant that TLC checked on a run
before it was proved; the modules state it as a conjunction of named parts and prove its
preservation with one lemma per action or group of actions.

`AncsLink_proofs` proves `TypeCorrect`, `ReadySecured`, `SearchUnderway`,
`RepairLocked` and `AdvertisingAccounted`, for every set of phones, set of faults,
bounds and threshold, from `LinkAssumption` and `ThresholdAssumption`. The inductive
invariant `Inv` is their conjunction: none of them is inductive for want of types, since
the last subscription is recognised by the set of those made, and a repair is asked for
when a count reaches the threshold. Each operator of `AncsSession` and `Enrollment` has
a lemma: it leads from a sound session to a sound session (`SoundSession`), from a
guarded enrollment to a guarded one (`GuardedEnrollment`), and leaves the advertising
flag of a device on the air alone but for a stop in its place (`AttendedEnrollment`). An
action is then a composition of such operators.

`AncsWorker_proofs` proves `TypeCorrect`, `FragmentMeets`, `CachedLive`, `AnswersInStep`
and the action property `RemovedStays`, for any uids, apps, capacities and number of
connections, from `WorkerAssumption`, `NoneAssumption` and `CapacityAssumption`.

* *Sessions.* A fragment is compared with the worker's generation when it is taken, and
  the worker may itself be behind. So the invariant says that a held fragment is of the
  worker's generation (`HeldFits`), that a worker that is behind meets an old item or the
  reset of the present generation before anything else (`HeadFits`), and that this reset
  is the first item of its generation and finds no request (`ResetComesFirst`).
* *Answers.* `StreamFits` says how far the answer to the request in flight has come:
  nothing heard, the first fragment on its way, read, both on their way, the second left,
  or the write refused. Nothing else that matters is in the queue, or the stream was
  disturbed. Each phase leads to the next, to silence or to a disturbance.
* *Removals.* A uid whose removal was published last waits nowhere in the ring and is
  not being asked for unless that request was canceled (`NothingGone`). What this needs
  of the ring (`PushFacts`, `PopFacts`, `CancelFacts`) comes from `RequestQueue_proofs`.

`RequestQueue_proofs` proves the lemmas on the ring, for any events and any capacity
(`CapacityAssumption`), and from them `CancelRemoves` and `IsFifoUnlessWrapped`. A
cancellation compacts the ring in place, a loop over its slots whose every turn reads
what the turns before have written (`Turn`). With no induction theorem at hand, what it
leaves is proved by contradiction, from the least turn after which it would not hold
(`Least`, from the well-foundedness of the naturals):

* after each turn the slots written so far hold no event of the canceled uid and only
  events that waited (`Swept`), even where the ring is wrapped;
* if it is not wrapped, a slot is read before it is overwritten (`ContiguousSlot`), so
  after each turn the slots written so far are what `EventFifo` keeps of as many waiting
  events (`Alike`), and the cancellation is the FIFO's (`CancelIsFifo`).

`MqttRelay_proofs` proves `TypeCorrect`, `OneOwner`, `OfflineEmpty` and `CallsFind`, for
any observers, notifications, capacities, calls and faults, from `RelayAssumption` and
`RecentAssumption`. `ItemsHaveOneOwner` needs only where the worker holds an item
(`HandFits`): every step moves one item from one owner to another or frees it. The other
two are about the order of calls: which events the client's task may have in each of its
states (`EventsFit`), what the coordinator's position says of client, worker and
connection (`CoordinatorFits`), that `publish_in_flight` counts the tasks in a call
(`CountFits`), and that the door is shut in front of a client that is stopped or gone
(`DoorShut`). `OfflineHoldsNothing` is strengthened by the flag `mqtt_connected`, without
which an observer could queue again.

`ProvisionStore_proofs` proves that the store implements `SettingsStore`
(`IsSettingsStore`), that no save that read a configuration loses it (`KeepsAConfig`),
what a load finds (`LiveOffered`) and the types, for any set of failing reads, from
`ConfigAssumption`, `SlotAssumption`, `LimitAssumption` and `ReadFaultsAssumption`. The
invariant `IInv` says that what a full load returns was offered (`LoadOffered`), that the
newest slot was (`NewestOffered`), and what holds at each call of a save (`CallIsSafe`):
the slot that is written is never the one the save took for the live one, it gets the
next generation, and when it is written the pointer still names the other; or the save
read nothing and starts over (`StartsOver`). Where the newest slot was overlooked, both
slots were offered (`AllOffered`), and either may become the live one at any moment;
otherwise the slot being filled is the older one (`FillsOther`). A step that leaves slots
and pointer alone is a stutter, an offer or an oversight, every other one makes the store
waver, acknowledges, erases or does damage.

`ProvisioningRuntime_proofs` proves that the station implements `StationPort`
(`IsStationPort`), that a reported address is there or its loss on the way
(`AddressLive`), that no failure of a station that was stopped counts against the next
(`FailuresOwn`) and the types, for any profiles, faults and bound of waiting events. The
invariant adds that an address belongs to a station that runs, is not fenced off by a
stop and whose policy is online, that a policy online and not paused has an address,
and that a running station has its interface: without the first, a loss that is handled
while a stop is pending would leave the address standing. The queue of events comes in
through two lemmas, on what is appended and what is taken. For `FailuresOwn` it adds
`OldIsFenced`: an event of a station that was stopped has the STA_STOP of its stop behind
it and none before it, and while it waits the handler's fence is up.

It also proves `SpacesAttempts` and the types of `ProvisioningRetry`: the policy's two
counters say what the history says, and while it waits the time that has passed and
the time that is left make up the distance due (`RetryInv`).

`Coordinator_proofs` proves `MarkerEarned`, `ClientCurrent` (the relay's client has the settings in force), and the action property
`RecoveryReasoned`, from `NoneAssumption`, for any configurations, faults and bounds. The
first two are not inductive: the marker is written for the configuration in force, so one
needs that a connected client has proven settings, that it was made for the configuration
in force and that a client not stopped exists. There is one lemma for each function of
`s_app`, and events, station and timers do not enter. They do for `RecoveryReasoned`: a
status or an event that says that the station was out for long must be about the station
there is (`OutageIsKnown`), although events overtake each other, get lost and outlive the
configuration. Each function of the reducer then asks for recovery only with an excuse
(`Excused`).

`RecentWindow_proofs` proves `RemembersTheLast`, `PassedOnce` and the types from
`RecentAssumption`: the invariant says in which slot each of the last notifications is,
before the ring is full and after.

Only model-checked: liveness under fairness (`RequestEnds`, `PendingDrains`,
`ConnectionSettles`, `StoredPhoneFindsDevice`, `ReplacementEnds`, `AdvertisingEnds`,
`QueuedIsTakenUp`, `OnlineIsAnnounced`, `CoordinatorReturns`, `ComesBack`, `KeepsTrying`,
`OutageOpensAP`, `AttemptsGoOn`, `ConnectionEndsRecovery`), which this prover does not
reach.

## 6. Findings

Each is a counterexample TLC finds in a run of its own. The first column names the run.

| run | at | what |
|---|---|---|
| `AncsLinkStranger` | components/ancs_client/ancs_client.c:1687 | docs/IOS_PAIRING.md:26 says "After successful pairing, the ESP32 reconnects only to the stored iPhone." A phone that is not the stored one can still connect, which takes the advertiser off the air. ESP_GATTC_CONNECT_EVT then rejects it before it clears s_client.advertising (1687-1691), and its ESP_GATTC_DISCONNECT_EVT is ignored as stale (2060-2066). advertising stays TRUE with the radio off, so start_advertising (1106) returns early from then on and the stored iPhone no longer finds the device, until an enrollment call or the window's timer stops advertising or the device restarts. |
| `MqttRelayStranded` | components/mqtt_relay/mqtt_relay.c:2365 | main/app_main.c:764 says "Keep one initialized client for IP recovery." of the mqtt_relay_stop in suspend_mqtt_for_wifi. MQTT_EVENT_BEFORE_CONNECT or MQTT_EVENT_CONNECTED, handled after that stop has reset the flags (2365) and before publish_allowed is FALSE (2377), sets mqtt_connecting or mqtt_connected again. The client is then stopped without another event, and when the IP address is back start_or_reconnect_mqtt returns early because the relay seems to be connected or connecting (main/app_main.c:639-641), as does the reconciliation: MQTT stays down until a restart, a new configuration or an erase. |
| `CoordinatorWindow` | main/app_main.c:849 | components/provisioning/test/test_provisioning_state.c:162 says "boot hold opens bounded recovery without deleting bond". The window's timer is reset after the reducer set its deadline (provisioning_state.c:143-149), counts ticks of 10 ms from the last tick on and can run out up to 10 ms before it. Its callback posts PORTAL_IDLE_TIMEOUT once; the reducer ignores it before the deadline (provisioning_state.c:151-157), the handler stops the timer (849-853) and nothing starts it again: the setup network stays open until another configuration, BOOT hold or restart. The same follows when `app_post` finds the queue full, or when an old time-out is handled after BOOT was held again. |

Three more disagreements are in the models and excluded from the properties that hold,
without a run of their own:

* A cancellation that finds the ring of pending events wrapped overwrites events it has
  not read yet: one is lost, another duplicated (components/ancs_protocol/ancs_protocol.c:603;
  test/test_ancs_data_parser.c:517 "request queue preserves order and cancellation does
  not mix notifications" cancels only in a queue whose head is 0). `~IsContiguous` in
  `ImplementsFifoUnlessWrapped` stands for it.
* The broker's acknowledgement of a notification can be handled before the worker has
  put the item on the pending list (components/mqtt_relay/mqtt_relay.c:1889 and 1464;
  test/test_mqtt_payload.c:748 "observer enqueues only and PUBACK frees exactly once"):
  the item then stays there until the connection ends. Retained messages have a list
  of early acknowledgements for the case (1475-1488), notifications have none.
* `mqtt_relay_stop_unlocked` decides whether it says "offline" (2358) before it forbids
  publishing (2377): a connection that comes up in between is announced, and a stopped
  device stays online for Home Assistant.

## 7. What is not modelled

* `ancs_client_init`'s set-up (its result is `Init`); the API
  functions nothing calls (`ancs_client_set_pairing_allowed`,
  `ancs_client_start_advertising`, `ancs_client_stop_advertising`).
* Bytes of the ANCS protocol: attribute parsing, truncation, UTF-8.
* The relay's payloads, topics and counters; `mqtt_relay_reconfigure`, which only the
  unit tests call; the commands a broker may send, each one event to the coordinator.
* Time: the duplicate window, deadlines and delays are nondeterministic, except in
  `ProvisioningRetry`.
* The set-up of Wi-Fi, netif and event loop and its failures; access-point names and
  addresses; the captive DNS task, which answers each query alike; the checksum of a
  blob and the checks of fields in `provision_policy.c`, pure functions with unit tests.
* The portal's pages, forms and JSON; the Wi-Fi status refresh, the bond events and the
  delay of a scheduled restart, which change no state the coordinator depends on.
* The serial sink, the device's names, the HID profile, platform constants: formatting,
  constants or vendored code.
* The Home Assistant integration (Python), which sees the device through retained topics
  only; build, release and capture tools; the web flasher and the documentation.

## 8. Plan

Done: the client's link, enrollment and worker, the two rings, the relay, the store, the
Wi-Fi station with its retry policy, the coordinator, and the proofs of section 5. Next:

1. Abstract specification of the relay: each notification accepted while online is
   published once or lost with its connection; `MqttRelay` as its refinement, but
   for early acknowledgements. The same as what `Coordinator` takes for the relay.
   With it, the proof that every step of `MqttRelay` is a step of it or none.
2. The Home Assistant runtime: availability, retained status and notifications in
   any order.
3. The portal's enrollment calls against the coordinator's bond events.

New properties join the existing runs where a component's questions share their bounds.
