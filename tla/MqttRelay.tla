----------------------------- MODULE MqttRelay -----------------------------
(***************************************************************************)
(* mqtt_relay.c and the part of app_main.c that starts and stops it.       *)
(*                                                                         *)
(* Tasks: the worker, which publishes; the coordinator, which starts and   *)
(* stops the client and publishes status; the observers, which hand in     *)
(* notifications (the ANCS worker, the portal's test); and the task of the *)
(* MQTT client, which runs the event handler.  Each critical section under *)
(* s_ctx.lock and each call of the client is a step of its own, but for    *)
(* NotifyWorker, ClientDestroyed and Prepare, which take several.  The     *)
(* client's task holds the client's lock while it handles events and       *)
(* while it connects: calls of other tasks wait (ApiFree).                 *)
(***************************************************************************)
EXTENDS RelayPolicy, Sequences, FiniteSets

CONSTANTS
  Observer,        \* tasks that hand in notifications
  Notification,    \* what they hand in
  MessageId,       \* what tells items apart that are in use at the same time
  QueueCapacity,   \* MQTT_RELAY_QUEUE_CAPACITY
  MaxOutbox,       \* a bound: messages in the outbox beside which a snapshot is
                   \* published, or that outlive a connection
  Calls,           \* subset of {"stop", "snapshot", "wifi"}: what may happen
  Faults,          \* subset of {"memory", "subscribe", "enqueue", "start", "slow"}
  None

ASSUME RelayAssumption ==
  QueueCapacity \in Nat /\ \A n \in Notification : n.relay_id \in RelayId

VARIABLES
  ctx,             \* s_ctx: its flags, counters and recent ring
  queue,           \* s_ctx.queue: items waiting for the worker
  pending,         \* s_ctx.pending: items waiting for their PUBACK
  heap,            \* items allocated and not freed
  mqtt,            \* the client: none, stopped, init, connecting, online, waiting
  outbox,          \* the client's messages not sent yet
  unacked,         \* its notifications sent and not acknowledged
  events,          \* events its task has to handle, the first under way
  handling,        \* how far the handler is with the first one
  at,              \* where the worker and the coordinator are
  message,         \* what each is publishing
  notified,        \* the worker's task notification
  observers,       \* the item each observer holds, or where it is
  app,             \* s_app: initialized, started, wifi (state.wifi_connected)
  has_ip,          \* provisioning_runtime: sta_has_ip
  availability     \* the broker's retained availability message

relayVars == << queue, pending, heap >>
clientVars == << mqtt, outbox, unacked, events, handling >>
taskVars == << at, message, notified >>
appVars == << app, has_ip >>
vars == << ctx, relayVars, clientVars, taskVars, observers, appVars, availability >>

Task == {"worker", "coordinator"}
Item == [notification : Notification, id : MessageId]

(* What is published, and what the client's task reports.                  *)
Plain(kind) == [kind |-> kind, item |-> None]
With(kind, item) == [kind |-> kind, item |-> item]

IsItem(m) == m.kind = "notification"
Nothing == Plain("nothing")

Elements(s) == {s[i] : i \in 1 .. Len(s)}
InQueue == Elements(queue)

(* Memory and message ids are given out again when nobody has them.        *)
InUse ==
  heap \cup unacked \cup {m.item : m \in Elements(outbox) \cup Elements(events)}

-----------------------------------------------------------------------------
(***************************************************************************)
(* s_ctx.  memset clears it.  task is worker_task # NULL, client is        *)
(* client # NULL, publishing is publish_in_flight.                         *)
(***************************************************************************)
Cleared ==
  [client |-> FALSE, accepting |-> FALSE, publish_allowed |-> FALSE,
   wifi |-> FALSE, connected |-> FALSE, connecting |-> FALSE,
   refresh |-> FALSE, discovered |-> FALSE, running |-> FALSE,
   task |-> FALSE, busy |-> FALSE, publishing |-> 0, recent |-> RecentInit]

(* Faulty variant: a connection attempt seems to go on.                    *)
DisconnectedConnecting(c) == [c EXCEPT !.connected = FALSE, !.refresh = FALSE]

(* mqtt_relay_handle_disconnect_locked                                     *)
Disconnected(c) ==
  [c EXCEPT !.connected = FALSE, !.connecting = FALSE, !.refresh = FALSE]

(* Faulty variant: the pointer is dropped and the memory is not freed.     *)
Leaked(items) == heap

(* mqtt_relay_free_item                                                    *)
Freed(items) == heap \ items

FreesAll ==
  queue' = << >> /\ pending' = {} /\ heap' = Freed(InQueue \cup pending)

HandleDisconnect == ctx' = Disconnected(ctx) /\ FreesAll

(* Observers are let in (mqtt_relay_observe_notification).                 *)
Accepts(notification) ==
  /\ ctx.accepting
  /\ Publishes(notification, ctx.wifi, ctx.connected, ctx.recent)

(* The client's lock is free.                                              *)
ApiFree == events = << >> /\ mqtt # "connecting"

Goes(t, from, to) == at[t] = from /\ at' = [at EXCEPT ![t] = to]

(* mqtt_relay_notify_worker: the worker's handle is read under the lock    *)
(* and the notification given after it, here in one step.                  *)
NotifyWorker == notified' = (notified \/ ctx.task)

-----------------------------------------------------------------------------
(***************************************************************************)
(* mqtt_relay_enqueue_raw, called by the worker and the coordinator.       *)
(***************************************************************************)
(* Where a publisher goes on with the result.                              *)
After(t, sent) ==
  IF t = "coordinator" THEN "idle"
  ELSE IF IsItem(message[t]) THEN (IF sent THEN "track" ELSE "discard")
  ELSE (IF sent THEN "outbox" ELSE "announced")

MayEnqueue == ctx.client /\ ctx.publish_allowed /\ ctx.connected

EnqueueAsk(t) ==
  /\ Goes(t, "enqueue", IF MayEnqueue THEN "call" ELSE After(t, FALSE))
  /\ ctx' = [ctx EXCEPT !.publishing = IF MayEnqueue THEN @ + 1 ELSE @]
  /\ UNCHANGED << relayVars, clientVars, message, notified, observers, appVars, availability >>

EnqueueCall(t) ==
  /\ ApiFree
  /\ \/ /\ Goes(t, "call", "return")
        /\ outbox' = Append(outbox, message[t])
     \/ /\ "enqueue" \in Faults /\ Goes(t, "call", "return_failed")
        /\ UNCHANGED outbox
  /\ UNCHANGED << ctx, relayVars, mqtt, unacked, events, handling, message,
                  notified, observers, appVars, availability >>

(* Faulty variant: a publication that ended is still counted.              *)
StillPublishing(c) == c

(* mqtt_relay_wait_publish_idle waits until every publication has ended.   *)
Published(c) == [c EXCEPT !.publishing = @ - 1]

EnqueueReturn(t) ==
  /\ \/ Goes(t, "return", After(t, TRUE))
     \/ Goes(t, "return_failed", After(t, FALSE))
  /\ ctx' = Published(ctx)
  /\ UNCHANGED << relayVars, clientVars, message, notified, observers, appVars, availability >>

-----------------------------------------------------------------------------
(***************************************************************************)
(* The worker: mqtt_relay_worker, mqtt_relay_publish_retained_status,      *)
(* mqtt_relay_drain_queue.                                                 *)
(***************************************************************************)
WorkerOnly == UNCHANGED << clientVars, observers, appVars, availability >>

Worker(from, to) == Goes("worker", from, to) /\ WorkerOnly

Says(m) == message' = [message EXCEPT !["worker"] = m]

WorkerWakes ==
  /\ Worker("wait", "top") /\ notified /\ notified' = FALSE
  /\ UNCHANGED << ctx, relayVars, message >>

WorkerEnds ==
  /\ Worker("top", "gone") /\ ~ctx.running /\ ctx' = [ctx EXCEPT !.task = FALSE]
  /\ UNCHANGED << relayVars, message, notified >>

WorkerAnnounces ==
  /\ Worker("top", "enqueue") /\ ctx.running /\ ctx.refresh /\ ctx.connected
  /\ ctx' = [ctx EXCEPT !.refresh = FALSE, !.busy = TRUE]
  /\ Says(Plain("online"))
  /\ UNCHANGED << relayVars, notified >>

(* publish_retained_status returns at once when it gets no memory.         *)
WorkerCannotAnnounce ==
  /\ "memory" \in Faults
  /\ Worker("top", "announced") /\ ctx.running /\ ctx.refresh /\ ctx.connected
  /\ ctx' = [ctx EXCEPT !.refresh = FALSE, !.busy = TRUE]
  /\ UNCHANGED << relayVars, message, notified >>

WorkerSkips ==
  /\ Worker("top", "drain") /\ ctx.running /\ ~(ctx.refresh /\ ctx.connected)
  /\ UNCHANGED << ctx, relayVars, message, notified >>

(* mqtt_relay_wait_outbox_empty: the flags under the lock, then the        *)
(* client's outbox without it; its 30 seconds may run out.                 *)
OutboxAsk ==
  /\ Worker("outbox", IF ctx.client /\ ctx.connected /\ ctx.publish_allowed
                      THEN "size" ELSE "announced")
  /\ UNCHANGED << ctx, relayVars, message, notified >>

OutboxHolds ==
  /\ Worker("size", "outbox") /\ ApiFree /\ ~(outbox = << >> /\ unacked = {})
  /\ UNCHANGED << ctx, relayVars, message, notified >>

OutboxTimesOut ==
  /\ "slow" \in Faults /\ Worker("size", "announced")
  /\ ApiFree /\ ~(outbox = << >> /\ unacked = {})
  /\ UNCHANGED << ctx, relayVars, message, notified >>

OutboxEmpty ==
  /\ ApiFree /\ outbox = << >> /\ unacked = {}
  /\ \/ message["worker"].kind = "online" /\ Worker("size", "enqueue") /\ Says(Plain("state"))
     \/ message["worker"].kind = "state" /\ Worker("size", "discover") /\ UNCHANGED message
     \/ message["worker"].kind = "discovery" /\ Worker("size", "mark") /\ UNCHANGED message
  /\ UNCHANGED << ctx, relayVars, notified >>

(* The discovery messages go out once per configuration, as one.           *)
Discover ==
  /\ Worker("discover", IF ctx.discovered THEN "announced" ELSE "enqueue")
  /\ Says(Plain("discovery"))
  /\ UNCHANGED << ctx, relayVars, notified >>

DiscoveryDone ==
  /\ Worker("mark", "announced") /\ ctx' = [ctx EXCEPT !.discovered = TRUE]
  /\ UNCHANGED << relayVars, message, notified >>

(* Faulty variant: the worker stays marked busy.                           *)
AnnouncedBusy ==
  /\ Worker("announced", "drain") /\ Says(Nothing)
  /\ UNCHANGED << ctx, relayVars, notified >>

Announced ==
  /\ Worker("announced", "drain") /\ ctx' = [ctx EXCEPT !.busy = FALSE]
  /\ Says(Nothing)
  /\ UNCHANGED << relayVars, notified >>

DrainStops ==
  /\ Worker("drain", "wait") /\ (~ctx.connected \/ queue = << >>)
  /\ UNCHANGED << ctx, relayVars, message, notified >>

DrainTakes ==
  /\ Worker("drain", "enqueue") /\ ctx.connected /\ queue # << >>
  /\ Says(With("notification", Head(queue))) /\ queue' = Tail(queue)
  /\ ctx' = [ctx EXCEPT !.busy = TRUE]
  /\ UNCHANGED << pending, heap, notified >>

(* Faulty variant: the connection is not looked at again.                  *)
TracksAlways == TRUE

Tracks == ctx.connected

(* The item waits for its PUBACK, or is freed: it was not enqueued or the  *)
(* connection ended meanwhile.                                             *)
Settles(tracked) ==
  /\ ctx' = [ctx EXCEPT !.busy = FALSE] /\ Says(Nothing)
  /\ IF tracked
     THEN pending' = pending \cup {message["worker"].item} /\ UNCHANGED heap
     ELSE heap' = Freed({message["worker"].item}) /\ UNCHANGED pending
  /\ UNCHANGED << queue, notified >>

Track == Worker("track", "drain") /\ Settles(Tracks)
Discard == Worker("discard", "drain") /\ Settles(FALSE)

-----------------------------------------------------------------------------
(***************************************************************************)
(* Observers: mqtt_relay_observe_notification.                             *)
(***************************************************************************)
Held(o) == observers[o].item

Observes(o, from, to, item) ==
  /\ observers[o].at = from
  /\ observers' = [observers EXCEPT ![o] = [at |-> to, item |-> item]]
  /\ UNCHANGED << clientVars, at, message, appVars, availability >>

(* It is let in, and its payload and item are allocated.                   *)
ObserveBegin(o, item) ==
  /\ Accepts(item.notification) /\ item \notin InUse
  /\ Observes(o, "idle", "built", item) /\ heap' = heap \cup {item}
  /\ UNCHANGED << ctx, queue, pending, notified >>

(* Faulty variant: it was let in before.                                   *)
AcceptsOnce(notification) == TRUE

(* It is let in again, with an item of its own, or the item is freed.      *)
AcceptsAgain(notification) == Accepts(notification)

ObserveQueues(o) ==
  /\ Observes(o, "built", "notify", None)
  /\ AcceptsAgain(Held(o).notification) /\ Len(queue) < QueueCapacity
  /\ queue' = Append(queue, Held(o))
  /\ ctx' = [ctx EXCEPT !.recent = MarkRecent(@, Held(o).notification.relay_id)]
  /\ UNCHANGED << pending, heap, notified >>

ObserveDrops(o) ==
  /\ Observes(o, "built", "idle", None)
  /\ ~(AcceptsAgain(Held(o).notification) /\ Len(queue) < QueueCapacity)
  /\ heap' = Freed({Held(o)})
  /\ UNCHANGED << ctx, queue, pending, notified >>

(* Faulty variant: the worker is left to its next connection.              *)
ObserveQuietly(o) ==
  /\ Observes(o, "notify", "idle", None)
  /\ UNCHANGED << ctx, relayVars, notified >>

ObserveNotify(o) ==
  /\ Observes(o, "notify", "idle", None) /\ NotifyWorker
  /\ UNCHANGED << ctx, relayVars >>

-----------------------------------------------------------------------------
(***************************************************************************)
(* The event handler: mqtt_relay_event_is_current, then                    *)
(* mqtt_relay_event_handler.                                               *)
(***************************************************************************)
Kind == Head(events).kind

IsCurrent ==
  /\ ctx.client /\ ctx.accepting
  /\ Kind \in {"disconnected", "error"} \/ ctx.publish_allowed

Handles(from, to) ==
  /\ events # << >> /\ handling = from /\ handling' = to
  /\ UNCHANGED << mqtt, outbox, unacked, at, message, observers, appVars, availability >>

Handled == events' = Tail(events)

EventTaken ==
  /\ Handles("check", "apply") /\ IsCurrent
  /\ UNCHANGED << ctx, relayVars, events, notified >>

EventIgnored ==
  /\ Handles("check", "check") /\ ~IsCurrent /\ Handled
  /\ UNCHANGED << ctx, relayVars, notified >>

OnBeforeConnect ==
  /\ Handles("apply", "check") /\ Kind = "before_connect" /\ Handled
  /\ ctx' = [ctx EXCEPT !.connecting = TRUE]
  /\ UNCHANGED << relayVars, notified >>

OnConnected ==
  /\ Handles("apply", "subscribe") /\ Kind = "connected" /\ UNCHANGED events
  /\ ctx' = [ctx EXCEPT !.connected = TRUE, !.connecting = FALSE, !.refresh = TRUE]
  /\ UNCHANGED << relayVars, notified >>

(* Faulty variant: the worker is not woken.                                *)
SubscribedQuietly ==
  /\ Handles("subscribe", "check") /\ Handled
  /\ UNCHANGED << ctx, relayVars, notified >>

(* The worker is woken when both command topics are subscribed to.         *)
Subscribed ==
  /\ Handles("subscribe", "check") /\ Handled /\ NotifyWorker
  /\ UNCHANGED << ctx, relayVars >>

SubscribeFails ==
  /\ "subscribe" \in Faults /\ Handles("subscribe", "check") /\ Handled
  /\ ctx' = [ctx EXCEPT !.connected = FALSE]
  /\ UNCHANGED << relayVars, notified >>

(* mqtt_relay_handle_published_locked                                      *)
OnPublished ==
  LET item == Head(events).item
  IN  /\ Handles("apply", "check") /\ Kind = "published" /\ Handled
      /\ pending' = pending \ {item}
      /\ heap' = Freed(pending \cap {item})
      /\ UNCHANGED << ctx, queue, notified >>

OnDisconnected ==
  /\ Handles("apply", "check") /\ Kind \in {"disconnected", "error"} /\ Handled
  /\ HandleDisconnect
  /\ UNCHANGED notified

-----------------------------------------------------------------------------
(***************************************************************************)
(* The MQTT client, the broker and the network, from how the relay uses    *)
(* them.  The client reconnects only when it is told to; it posts no event *)
(* when it is stopped; it keeps its outbox while it waits.                 *)
(***************************************************************************)
ClientTask ==
  /\ ApiFree \/ (events = << >> /\ mqtt = "connecting")
  /\ UNCHANGED << ctx, relayVars, handling, taskVars, observers, appVars >>

Lost == {<< Plain("disconnected") >>, << Plain("error"), Plain("disconnected") >>}

ConnectBegins ==
  /\ ClientTask /\ mqtt = "init" /\ mqtt' = "connecting"
  /\ events' = << Plain("before_connect") >>
  /\ UNCHANGED << outbox, unacked, availability >>

ConnectSucceeds ==
  /\ ClientTask /\ mqtt = "connecting" /\ has_ip /\ mqtt' = "online"
  /\ events' = << Plain("connected") >>
  /\ UNCHANGED << outbox, unacked, availability >>

ConnectFails ==
  /\ ClientTask /\ mqtt = "connecting" /\ mqtt' = "waiting"
  /\ events' \in Lost
  /\ UNCHANGED << outbox, unacked, availability >>

(* The connection is lost: the broker publishes the will.  What the client *)
(* has not got rid of expires before the next connection, or is kept.      *)
ConnectionLost ==
  /\ ClientTask /\ mqtt = "online" /\ mqtt' = "waiting"
  /\ events' \in Lost
  /\ availability' = "offline"
  /\ \/ outbox' = << >> /\ unacked' = {}
     \/ Len(outbox) + Cardinality(unacked) <= MaxOutbox /\ UNCHANGED << outbox, unacked >>

MessageSent ==
  /\ ClientTask /\ mqtt = "online" /\ has_ip /\ outbox # << >>
  /\ outbox' = Tail(outbox)
  /\ unacked' = IF IsItem(Head(outbox)) THEN unacked \cup {Head(outbox).item} ELSE unacked
  /\ availability' = IF Head(outbox).kind = "online" THEN "online" ELSE availability
  /\ UNCHANGED << mqtt, events >>

Acknowledged ==
  /\ ClientTask /\ mqtt = "online" /\ has_ip
  /\ \E item \in unacked :
       /\ unacked' = unacked \ {item}
       /\ events' = << With("published", item) >>
  /\ UNCHANGED << mqtt, outbox, availability >>

Ip(ip) ==
  /\ has_ip' = ip
  /\ UNCHANGED << ctx, relayVars, clientVars, taskVars, observers, app, availability >>

IpGained == ~has_ip /\ Ip(TRUE)
IpLost == "wifi" \in Calls /\ has_ip /\ Ip(FALSE)

-----------------------------------------------------------------------------
(***************************************************************************)
(* The coordinator of app_main.c: when it connects, suspends and stops.    *)
(***************************************************************************)
Coordinator(from, to) == Goes("coordinator", from, to) /\ UNCHANGED << observers, has_ip >>

NoCall == UNCHANGED << clientVars, availability >>

(* PROVISION_EVENT_WIFI_CONNECTED                                          *)
WifiConnected ==
  /\ has_ip /\ ~app.wifi /\ Coordinator("idle", "connect") /\ NoCall
  /\ app' = [app EXCEPT !.wifi = TRUE] /\ ctx' = [ctx EXCEPT !.wifi = TRUE]
  /\ UNCHANGED << relayVars, message, notified >>

(* The retry timer, reconcile_network_state or the user's test.  Where a   *)
(* connection is made or under way it would change nothing.                *)
RetryDue ==
  /\ app.wifi /\ ~ctx.connected /\ ~ctx.connecting
  /\ Coordinator("idle", "connect") /\ NoCall
  /\ UNCHANGED << ctx, app, relayVars, message, notified >>

(* start_or_reconnect_mqtt                                                 *)
ConnectAsk ==
  /\ Coordinator("connect",
       IF ~app.wifi \/ ~has_ip \/ ctx.connected \/ ctx.connecting THEN "idle"
       ELSE IF app.initialized THEN "prepare" ELSE "init")
  /\ NoCall /\ UNCHANGED << ctx, app, relayVars, message, notified >>

RelayInit ==
  /\ Coordinator("init", "prepare")
  /\ ctx' = [ctx EXCEPT !.client = TRUE, !.accepting = TRUE,
                        !.publish_allowed = TRUE, !.recent = RecentInit]
  /\ mqtt' = "stopped"
  /\ UNCHANGED << relayVars, outbox, unacked, events, handling, app, message,
                  notified, availability >>

(* mqtt_relay_deinit clears what there was.                                *)
RelayInitFails ==
  /\ "memory" \in Faults /\ Coordinator("init", "idle") /\ ctx' = Cleared
  /\ NoCall /\ UNCHANGED << app, relayVars, message, notified >>

(* mqtt_relay_set_wifi_connected, mqtt_relay_ensure_worker, then the flags *)
(* that mqtt_relay_start and mqtt_relay_reconnect set before they call the *)
(* client: up to four critical sections in one step.                       *)
Prepare ==
  /\ at["coordinator"] = "prepare"
  /\ at' = [at EXCEPT !["coordinator"] = IF app.started THEN "reconnect" ELSE "start",
                      !["worker"] = IF ctx.task THEN @ ELSE "wait"]
  /\ notified' = (ctx.task /\ notified)
  /\ ctx' = [ctx EXCEPT !.wifi = TRUE, !.task = TRUE, !.running = TRUE,
                        !.publish_allowed = TRUE, !.connecting = TRUE]
  /\ UNCHANGED << relayVars, clientVars, message, observers, appVars, availability >>

PrepareFails ==
  /\ "memory" \in Faults /\ ~ctx.task /\ Coordinator("prepare", "failed") /\ NoCall
  /\ ctx' = [ctx EXCEPT !.wifi = TRUE]
  /\ UNCHANGED << app, relayVars, message, notified >>

ClientStarts ==
  /\ ApiFree
  /\ \/ Coordinator("start", "idle") /\ mqtt = "stopped"
     \/ Coordinator("reconnect", "idle") /\ mqtt = "waiting"
  /\ mqtt' = "init"
  /\ app' = [app EXCEPT !.initialized = TRUE, !.started = TRUE]
  /\ UNCHANGED << ctx, relayVars, outbox, unacked, events, handling, message,
                  notified, availability >>

ClientRefuses ==
  /\ ApiFree
  /\ \/ Coordinator("start", "failed") /\ (mqtt # "stopped" \/ "start" \in Faults)
     \/ Coordinator("reconnect", "failed") /\ mqtt # "waiting"
  /\ ctx' = [ctx EXCEPT !.connecting = FALSE]
  /\ NoCall /\ UNCHANGED << app, relayVars, message, notified >>

(* A first start that failed takes the relay down again.                   *)
StartFailed ==
  /\ Coordinator("failed", IF app.initialized THEN "idle" ELSE "stop")
  /\ NoCall /\ UNCHANGED << ctx, app, relayVars, message, notified >>

(* suspend_mqtt_for_wifi                                                   *)
Suspend ==
  /\ ~has_ip /\ app.wifi
  /\ Coordinator("idle", IF app.started THEN "stop" ELSE "idle") /\ NoCall
  /\ app' = [app EXCEPT !.wifi = FALSE, !.started = FALSE]
  /\ ctx' = [ctx EXCEPT !.wifi = FALSE]
  /\ UNCHANGED << relayVars, message, notified >>

(* stop_mqtt, when the configuration changes or is erased; the station is  *)
(* stopped with it.                                                        *)
StopMqtt ==
  /\ "stop" \in Calls /\ app.initialized
  /\ Goes("coordinator", "idle", "stop") /\ NoCall
  /\ app' = [initialized |-> FALSE, started |-> FALSE, wifi |-> FALSE]
  /\ ctx' = [ctx EXCEPT !.wifi = FALSE]
  /\ UNCHANGED << has_ip, relayVars, message, notified, observers >>

(* mqtt_relay_publish_state_snapshot                                       *)
Snapshot ==
  /\ "snapshot" \in Calls /\ ctx.connected /\ Len(outbox) <= MaxOutbox
  /\ Coordinator("idle", "enqueue") /\ NoCall
  /\ message' = [message EXCEPT !["coordinator"] = Plain("state")]
  /\ UNCHANGED << ctx, app, relayVars, notified >>

-----------------------------------------------------------------------------
(***************************************************************************)
(* mqtt_relay_stop, and mqtt_relay_deinit when the coordinator let go of   *)
(* the relay before.                                                       *)
(***************************************************************************)
(* Faulty variant: it does not wait.                                       *)
PublishIdleAtOnce == TRUE

(* mqtt_relay_wait_publish_idle                                            *)
PublishIdle == ctx.publishing = 0

StopBegins ==
  /\ Coordinator("stop", "settle") /\ NoCall
  /\ message' = [message EXCEPT !["coordinator"] =
                   IF ctx.connected THEN Plain("offline") ELSE Nothing]
  /\ HandleDisconnect
  /\ UNCHANGED << app, notified >>

(* mqtt_relay_wait_worker_idle                                             *)
StopSettles ==
  /\ ~ctx.busy /\ ctx.publishing = 0
  /\ Coordinator("settle", IF message["coordinator"].kind = "offline" THEN "offline"
                           ELSE "forbid")
  /\ NoCall /\ UNCHANGED << ctx, app, relayVars, message, notified >>

(* mqtt_relay_publish_raw: published at once, past the outbox.             *)
OfflineAsk ==
  /\ Coordinator("offline", IF ctx.client /\ ctx.publish_allowed THEN "offline_call"
                            ELSE "forbid")
  /\ ctx' = [ctx EXCEPT !.publishing =
               IF ctx.client /\ ctx.publish_allowed THEN @ + 1 ELSE @]
  /\ NoCall /\ UNCHANGED << app, relayVars, message, notified >>

OfflineCall ==
  /\ ApiFree /\ Coordinator("offline_call", "offline_return")
  /\ availability' = IF mqtt = "online" /\ has_ip THEN "offline" ELSE availability
  /\ UNCHANGED << ctx, app, relayVars, clientVars, message, notified >>

OfflineReturn ==
  /\ Coordinator("offline_return", "forbid")
  /\ ctx' = Published(ctx)
  /\ NoCall /\ UNCHANGED << app, relayVars, message, notified >>

Forbid ==
  /\ Coordinator("forbid", "quiet") /\ ctx' = [ctx EXCEPT !.publish_allowed = FALSE]
  /\ message' = [message EXCEPT !["coordinator"] = Nothing]
  /\ NoCall /\ UNCHANGED << app, relayVars, notified >>

(* The client says goodbye to a broker it can reach; one it cannot reach   *)
(* publishes the will.  A client that is not running refuses to be         *)
(* stopped; both callers ignore that (mqtt_relay_deinit, app_main.c:764),  *)
(* and the step then changes nothing of the client, which has nothing in   *)
(* its outbox.                                                             *)
ClientStops ==
  /\ PublishIdle /\ ApiFree
  /\ Coordinator("quiet", IF app.initialized THEN "idle" ELSE "destroy")
  /\ mqtt' = "stopped" /\ outbox' = << >> /\ unacked' = {}
  /\ availability' = IF mqtt = "online" /\ ~has_ip THEN "offline" ELSE availability
  /\ UNCHANGED << ctx, app, relayVars, events, handling, message, notified >>

ClientDestroyed ==
  /\ PublishIdle /\ Coordinator("destroy", "teardown")
  /\ mqtt' = "none" /\ NotifyWorker
  /\ ctx' = [ctx EXCEPT !.running = FALSE]
  /\ UNCHANGED << app, relayVars, outbox, unacked, events, handling, message,
                  availability >>

(* The worker is gone; everything is freed and cleared.                    *)
RelayCleared ==
  /\ ~ctx.task /\ ~ctx.busy /\ Coordinator("teardown", "idle")
  /\ FreesAll /\ ctx' = Cleared /\ notified' = FALSE
  /\ NoCall /\ UNCHANGED << app, message >>

-----------------------------------------------------------------------------
Init ==
  /\ ctx = Cleared /\ queue = << >> /\ pending = {} /\ heap = {}
  /\ mqtt = "none" /\ outbox = << >> /\ unacked = {} /\ events = << >>
  /\ handling = "check"
  /\ at = [t \in Task |-> IF t = "worker" THEN "gone" ELSE "idle"]
  /\ message = [t \in Task |-> Nothing] /\ notified = FALSE
  /\ observers = [o \in Observer |-> [at |-> "idle", item |-> None]]
  /\ app = [initialized |-> FALSE, started |-> FALSE, wifi |-> FALSE]
  /\ has_ip = FALSE /\ availability = "offline"

WorkerStep ==
  \/ WorkerWakes \/ WorkerEnds \/ WorkerAnnounces \/ WorkerCannotAnnounce
  \/ WorkerSkips \/ OutboxAsk \/ OutboxHolds \/ OutboxTimesOut \/ OutboxEmpty
  \/ Discover \/ DiscoveryDone \/ Announced \/ DrainStops \/ DrainTakes
  \/ Track \/ Discard

PublisherStep(t) == EnqueueAsk(t) \/ EnqueueCall(t) \/ EnqueueReturn(t)

ObserverStep(o) ==
  \/ \E item \in Item : ObserveBegin(o, item)
  \/ ObserveQueues(o) \/ ObserveDrops(o) \/ ObserveNotify(o)

HandlerStep ==
  \/ EventTaken \/ EventIgnored \/ OnBeforeConnect \/ OnConnected \/ Subscribed
  \/ SubscribeFails \/ OnPublished \/ OnDisconnected

ClientStep ==
  \/ ConnectBegins \/ ConnectSucceeds \/ ConnectFails \/ ConnectionLost
  \/ MessageSent \/ Acknowledged \/ IpGained \/ IpLost

(* What the coordinator does of itself, once it has begun something.       *)
CoordinatorGoesOn ==
  \/ ConnectAsk \/ RelayInit \/ RelayInitFails \/ Prepare \/ PrepareFails
  \/ ClientStarts \/ ClientRefuses \/ StartFailed \/ StopBegins \/ StopSettles
  \/ OfflineAsk \/ OfflineCall \/ OfflineReturn \/ Forbid \/ ClientStops
  \/ ClientDestroyed \/ RelayCleared

CoordinatorBegins == WifiConnected \/ RetryDue \/ Suspend \/ StopMqtt \/ Snapshot

Next ==
  \/ WorkerStep \/ (\E t \in Task : PublisherStep(t))
  \/ (\E o \in Observer : ObserverStep(o))
  \/ HandlerStep \/ ClientStep \/ CoordinatorGoesOn \/ CoordinatorBegins

Spec == Init /\ [][Next]_vars

(***************************************************************************)
(* The tasks run; a wait for the outbox runs out; a connection attempt     *)
(* ends, and succeeds now and then if attempts go on; an online client     *)
(* sends and hears back; the coordinator polls the network's state and     *)
(* retries; a connection without a network is found lost.                  *)
(***************************************************************************)
Fairness ==
  /\ WF_vars(WorkerStep) /\ SF_vars(OutboxTimesOut)
  /\ \A t \in Task : WF_vars(PublisherStep(t))
  /\ \A o \in Observer : WF_vars(ObserveQueues(o) \/ ObserveDrops(o) \/ ObserveNotify(o))
  /\ WF_vars(HandlerStep) /\ WF_vars(CoordinatorGoesOn)
  /\ WF_vars(ConnectBegins) /\ WF_vars(ConnectSucceeds \/ ConnectFails)
  /\ SF_vars(ConnectSucceeds)
  /\ WF_vars(MessageSent) /\ WF_vars(Acknowledged)
  /\ WF_vars(~has_ip /\ ConnectionLost) /\ WF_vars(IpGained)
  /\ WF_vars(WifiConnected) /\ WF_vars(RetryDue) /\ WF_vars(Suspend)

FairSpec == Spec /\ Fairness

-----------------------------------------------------------------------------
Hand == IF IsItem(message["worker"]) THEN {message["worker"].item} ELSE {}
Building == {o \in Observer : observers[o].at = "built"}
Built == {Held(o) : o \in Building}

Context ==
  [client : BOOLEAN, accepting : BOOLEAN, publish_allowed : BOOLEAN,
   wifi : BOOLEAN, connected : BOOLEAN, connecting : BOOLEAN, refresh : BOOLEAN,
   discovered : BOOLEAN, running : BOOLEAN, task : BOOLEAN, busy : BOOLEAN,
   publishing : 0 .. 2, recent : Recent]

Publishing == {"enqueue", "call", "return", "return_failed"}
WorkerAt == Publishing \cup
  {"gone", "wait", "top", "drain", "outbox", "size", "discover", "mark",
   "announced", "track", "discard"}
CoordinatorAt == Publishing \cup
  {"idle", "connect", "init", "prepare", "start", "reconnect", "failed", "stop",
   "settle", "offline", "offline_call", "offline_return", "forbid", "quiet",
   "destroy", "teardown"}

Statement == {Plain(k) : k \in {"nothing", "online", "state", "discovery", "offline"}}
Message == Statement \cup {With("notification", item) : item \in Item}
Report ==
  {Plain(k) : k \in {"before_connect", "connected", "disconnected", "error"}}
    \cup {With("published", item) : item \in Item}

TypeOK ==
  /\ ctx \in Context
  /\ queue \in Seq(Item) /\ Len(queue) <= QueueCapacity
  /\ pending \subseteq Item /\ heap \subseteq Item /\ unacked \subseteq Item
  /\ mqtt \in {"none", "stopped", "init", "connecting", "online", "waiting"}
  /\ outbox \in Seq(Message) /\ events \in Seq(Report)
  /\ handling \in {"check", "apply", "subscribe"}
  /\ at["worker"] \in WorkerAt /\ at["coordinator"] \in CoordinatorAt
  /\ message["worker"] \in Message /\ message["coordinator"] \in Statement
  /\ DOMAIN at = Task /\ DOMAIN message = Task
  /\ observers \in [Observer -> [at : {"idle", "built", "notify"}, item : Item \cup {None}]]
  /\ \A o \in Building : Held(o) \in Item
  /\ app \in [initialized : BOOLEAN, started : BOOLEAN, wifi : BOOLEAN]
  /\ notified \in BOOLEAN /\ has_ip \in BOOLEAN
  /\ availability \in {"online", "offline"}

(* "observer enqueues only and PUBACK frees exactly once" (mqtt_relay's    *)
(* test_mqtt_payload.c:748): every item allocated and not freed is         *)
(* in exactly one place - the queue, the pending list, or the hand of one  *)
(* task - whatever ends the connection meanwhile.                          *)
ItemsHaveOneOwner ==
  /\ heap = InQueue \cup pending \cup Hand \cup Built
  /\ InQueue \cap (pending \cup Hand \cup Built) = {}
  /\ pending \cap (Hand \cup Built) = {} /\ Hand \cap Built = {}
  /\ \A i, j \in 1 .. Len(queue) : queue[i] = queue[j] => i = j
  /\ \A o, p \in Building : Held(o) = Held(p) => o = p

(* mqtt_relay_handle_disconnect_locked (mqtt_relay.c:1999): once the end   *)
(* of a connection was handled no notification waits in the relay's queue  *)
(* or for its acknowledgement, so that the relay hands none in again; what *)
(* the client has in its own outbox it may still send.                     *)
OfflineHoldsNothing ==
  mqtt = "waiting" /\ events = << >> => queue = << >> /\ pending = {}

(* publish_in_flight (mqtt_relay.c:1503): no task is in a publishing call  *)
(* of a client that was stopped or destroyed meanwhile.  The question for  *)
(* the outbox's size (1582) is not counted in it and can meet one.         *)
CallsFindTheClient ==
  \A t \in Task :
    at[t] \in {"call", "offline_call"} => mqtt \notin {"none", "stopped"}

(* mqtt_relay_notify_worker (mqtt_relay.c:1928): no wake-up is lost, so    *)
(* that a notification queued on a connection is taken up.                 *)
QueuedIsTakenUp == queue # << >> ~> queue = << >> \/ ~ctx.connected

(* mqtt_relay_publish_retained_status (mqtt_relay.c:1700): a connection    *)
(* that lasts is announced to Home Assistant.                              *)
OnlineIsAnnounced == ctx.connected ~> availability = "online" \/ ~ctx.connected

(* mqtt_relay_stop and mqtt_relay_deinit (mqtt_relay.c:1938, :1951): the   *)
(* coordinator, which waits for the worker, is not kept waiting for ever.  *)
CoordinatorReturns == at["coordinator"] # "idle" ~> at["coordinator"] = "idle"

(* "it reconnects after 5, 15 and 30 seconds and then every 60 seconds"    *)
(* (README.en.md:41): while there is a network and the relay is wanted, it *)
(* gets connected again and again, however often the broker goes away.     *)
ComesBack ==
  <>[](has_ip /\ app.wifi) => []<>(ctx.connected /\ mqtt = "online")
=============================================================================
