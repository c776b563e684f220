-------------------------- MODULE MqttRelay_proofs --------------------------
(***************************************************************************)
(* The relay's items, its connection and its client, for any observers,    *)
(* notifications, capacities and faults.  Three facts carry the proofs:    *)
(* what events the client's task has in each state of the client           *)
(* (EventsFit); what the positions of the coordinator say about the client *)
(* and the relay (CoordinatorFits), so that a stopped client has no        *)
(* connection that calls are made on (DoorShut); and that publishing       *)
(* counts the tasks in a publishing call (CountFits).                      *)
(***************************************************************************)
EXTENDS MqttRelay, TLAPS

(* What the client's task may have to handle in each state of the client.  *)
EventsFit ==
  /\ mqtt \in {"none", "stopped", "init"} => events = << >>
  /\ mqtt = "connecting" => events \in {<< >>, << Plain("before_connect") >>}
  /\ mqtt = "online" =>
       \/ events \in {<< >>, << Plain("connected") >>}
       \/ \E item \in Item : events = << With("published", item) >>
  /\ mqtt = "waiting" => events \in Lost \cup {<< >>, << Plain("disconnected") >>}
  /\ events = << >> => handling = "check"
  /\ handling = "subscribe" => Kind = "connected"

(* The worker holds an item from when it takes it until it settles it.     *)
HandFits ==
  /\ IsItem(message["worker"]) => at["worker"] \in Publishing \cup {"track", "discard"}
  /\ at["worker"] \in {"track", "discard"} => IsItem(message["worker"])

(* The tasks in a publishing call, which publishing counts.                *)
Calling(t) ==
  at[t] \in {"call", "return", "return_failed", "offline_call", "offline_return"}
InCall(t) == IF Calling(t) THEN 1 ELSE 0
CountFits == ctx.publishing = InCall("worker") + InCall("coordinator")

CoordinatorFits ==
  LET c == at["coordinator"]
  IN  /\ ctx.task <=> at["worker"] # "gone"
      /\ mqtt # "none" => ctx.client /\ ctx.accepting
      /\ mqtt = "none" => c \in {"idle", "connect", "init", "teardown"} /\ ~app.initialized
      /\ mqtt = "none" /\ c # "teardown" => ~ctx.connected /\ ~ctx.task
      /\ ~app.initialized /\ c \in {"idle", "connect", "init"} => mqtt = "none"
      /\ c \in {"init", "teardown"} => mqtt = "none"
      /\ c \in {"quiet", "destroy", "teardown"} => ~ctx.publish_allowed
      /\ c = "destroy" => mqtt = "stopped" /\ ~app.initialized
      /\ c \in Publishing => app.initialized
      /\ app.started => app.initialized

(* No call goes to a client that is stopped or not there.                  *)
DoorShut ==
  /\ mqtt \in {"none", "stopped"} => ~(ctx.publish_allowed /\ ctx.connected)
  /\ mqtt = "stopped" /\ at["coordinator"] = "prepare" => ~ctx.connected
  /\ mqtt = "stopped" /\ at["coordinator"] = "offline" => ~ctx.publish_allowed
  /\ /\ mqtt = "stopped" /\ at["coordinator"] = "settle"
     /\ message["coordinator"].kind = "offline"
     => ~ctx.publish_allowed

OfflineIsEmpty ==
  mqtt = "waiting" /\ events = << >> => ~ctx.connected /\ queue = << >> /\ pending = {}

IInv ==
  /\ TypeOK /\ EventsFit /\ HandFits /\ CountFits /\ CoordinatorFits /\ DoorShut
  /\ ItemsHaveOneOwner /\ OfflineIsEmpty /\ CallsFindTheClient

-----------------------------------------------------------------------------
(* s_ctx with one flag set, and with a notification in its recent ring.    *)
LEMMA FieldSet ==
  ASSUME NEW c \in Context, NEW b \in BOOLEAN
  PROVE  /\ [c EXCEPT !.client = b] \in Context
         /\ [c EXCEPT !.accepting = b] \in Context
         /\ [c EXCEPT !.publish_allowed = b] \in Context
         /\ [c EXCEPT !.wifi = b] \in Context
         /\ [c EXCEPT !.connected = b] \in Context
         /\ [c EXCEPT !.connecting = b] \in Context
         /\ [c EXCEPT !.refresh = b] \in Context
         /\ [c EXCEPT !.discovered = b] \in Context
         /\ [c EXCEPT !.running = b] \in Context
         /\ [c EXCEPT !.task = b] \in Context
         /\ [c EXCEPT !.busy = b] \in Context
BY DEF Context

LEMMA RecentSet ==
  ASSUME NEW c \in Context, NEW r \in Recent
  PROVE  [c EXCEPT !.recent = r] \in Context
BY DEF Context

LEMMA CountSet ==
  ASSUME NEW c \in Context, NEW n \in 0 .. 2
  PROVE  [c EXCEPT !.publishing = n] \in Context
BY DEF Context

LEMMA MarkRecentType ==
  ASSUME NEW r \in Recent, NEW id \in RelayId
  PROVE  MarkRecent(r, id) \in Recent
<1>1. RecentCapacity \in Nat /\ RecentCapacity > 0
  BY RecentAssumption
<1>2. /\ r.next_index \in RecentSlot /\ r.count \in 0 .. RecentCapacity
      /\ r.relay_ids \in [RecentSlot -> RelayId \cup {NoId}]
  BY DEF Recent
<1>3. (r.next_index + 1) % RecentCapacity \in RecentSlot
  BY <1>1, <1>2 DEF RecentSlot
<1>4. Counted(r) \in 0 .. RecentCapacity
  BY <1>1, <1>2 DEF Counted
<1>5. [r.relay_ids EXCEPT ![r.next_index] = id] \in [RecentSlot -> RelayId \cup {NoId}]
  BY <1>2
<1> QED
  BY <1>3, <1>4, <1>5 DEF MarkRecent, Recent

LEMMA RecentInitType == RecentInit \in Recent
<1>1. RecentCapacity \in Nat /\ RecentCapacity > 0
  BY RecentAssumption
<1>2. 0 \in RecentSlot /\ 0 \in 0 .. RecentCapacity
  BY <1>1 DEF RecentSlot
<1> QED
  BY <1>2 DEF RecentInit, Recent

LEMMA ClearedType == Cleared \in Context
BY RecentInitType DEF Cleared, Context

-----------------------------------------------------------------------------
(***************************************************************************)
(* What a step of each task leaves alone.                                  *)
(***************************************************************************)
KeepsDoor ==
  /\ ctx'.client = ctx.client /\ ctx'.accepting = ctx.accepting
  /\ ctx'.publish_allowed = ctx.publish_allowed
KeepsConnection == ctx'.connected = ctx.connected
KeepsCount == ctx'.publishing = ctx.publishing
KeepsTask == ctx'.task = ctx.task

LEMMA WorkerFrame ==
  ASSUME TypeOK, WorkerStep
  PROVE  /\ UNCHANGED << clientVars, observers, appVars, availability >>
         /\ DOMAIN at' = Task /\ at'["coordinator"] = at["coordinator"]
         /\ at["worker"] # "gone" /\ at'["worker"] \in WorkerAt
         /\ at["worker"] \notin {"call", "return", "return_failed"}
         /\ at'["worker"] \notin {"call", "return", "return_failed"}
         /\ DOMAIN message' = Task /\ message'["coordinator"] = message["coordinator"]
         /\ ctx' \in Context /\ KeepsDoor /\ KeepsConnection /\ KeepsCount
         /\ ctx'.task = (ctx.task /\ at'["worker"] # "gone")
<1> USE DEF TypeOK, Worker, WorkerOnly, Goes, Says, clientVars, appVars, relayVars,
            KeepsDoor, KeepsConnection, KeepsCount, WorkerAt, Publishing, Task
<1>1. CASE WorkerWakes
  BY <1>1 DEF WorkerWakes, Context
<1>2. CASE WorkerEnds
  <2>1. ctx' \in Context
    BY <1>2, FieldSet DEF WorkerEnds
  <2> QED
    BY <1>2, <2>1 DEF WorkerEnds, Context
<1>3. CASE WorkerAnnounces
  <2>1. ctx' \in Context
    BY <1>3, FieldSet DEF WorkerAnnounces
  <2> QED
    BY <1>3, <2>1 DEF WorkerAnnounces, Context
<1>4. CASE WorkerCannotAnnounce
  <2>1. ctx' \in Context
    BY <1>4, FieldSet DEF WorkerCannotAnnounce
  <2> QED
    BY <1>4, <2>1 DEF WorkerCannotAnnounce, Context
<1>5. CASE WorkerSkips
  BY <1>5 DEF WorkerSkips, Context
<1>6. CASE OutboxAsk
  BY <1>6 DEF OutboxAsk, Context
<1>7. CASE OutboxHolds
  BY <1>7 DEF OutboxHolds, Context
<1>8. CASE OutboxTimesOut
  BY <1>8 DEF OutboxTimesOut, Context
<1>9. CASE OutboxEmpty
  BY <1>9 DEF OutboxEmpty, Context
<1>10. CASE Discover
  BY <1>10 DEF Discover, Context
<1>11. CASE DiscoveryDone
  <2>1. ctx' \in Context
    BY <1>11, FieldSet DEF DiscoveryDone
  <2> QED
    BY <1>11, <2>1 DEF DiscoveryDone, Context
<1>12. CASE Announced
  <2>1. ctx' \in Context
    BY <1>12, FieldSet DEF Announced
  <2> QED
    BY <1>12, <2>1 DEF Announced, Context
<1>13. CASE DrainStops
  BY <1>13 DEF DrainStops, Context
<1>14. CASE DrainTakes
  <2>1. ctx' \in Context
    BY <1>14, FieldSet DEF DrainTakes
  <2> QED
    BY <1>14, <2>1 DEF DrainTakes, Context
<1>15. CASE Track
  <2>1. ctx' \in Context
    BY <1>15, FieldSet DEF Track, Settles
  <2> QED
    BY <1>15, <2>1 DEF Track, Settles, Context
<1>16. CASE Discard
  <2>1. ctx' \in Context
    BY <1>16, FieldSet DEF Discard, Settles
  <2> QED
    BY <1>16, <2>1 DEF Discard, Settles, Context
<1> QED
  BY <1>1, <1>2, <1>3, <1>4, <1>5, <1>6, <1>7, <1>8, <1>9, <1>10, <1>11, <1>12, <1>13,
     <1>14, <1>15, <1>16
  DEF WorkerStep

LEMMA PublisherFrame ==
  ASSUME TypeOK, CountFits, NEW t \in Task, PublisherStep(t)
  PROVE  /\ UNCHANGED << relayVars, mqtt, unacked, events, handling, message, notified,
                         observers, appVars, availability >>
         /\ DOMAIN at' = Task /\ \A u \in Task : u # t => at'[u] = at[u]
         /\ ctx' \in Context /\ KeepsDoor /\ KeepsConnection /\ KeepsTask /\ CountFits'
<1>1. /\ ctx \in Context /\ ctx.publishing \in 0 .. 2
      /\ ctx.publishing = InCall("worker") + InCall("coordinator")
      /\ \A u \in Task : InCall(u) \in 0 .. 1
  BY DEF TypeOK, Context, CountFits, InCall
<1>2. /\ DOMAIN at' = Task /\ \A u \in Task : u # t => at'[u] = at[u]
      /\ \A u \in Task : u # t => InCall(u)' = InCall(u)
  BY
  DEF PublisherStep, EnqueueAsk, EnqueueCall, EnqueueReturn, Goes, TypeOK, InCall,
      Calling
<1>3. ASSUME ctx'.publishing = ctx.publishing + InCall(t)' - InCall(t)
      PROVE  CountFits'
  BY <1>1, <1>2, <1>3 DEF CountFits, Task, InCall
<1>4. CASE EnqueueAsk(t)
  <2>1. ~Calling(t) /\ (MayEnqueue <=> Calling(t)')
    BY <1>4 DEF EnqueueAsk, Goes, TypeOK, Task, After, Calling
  <2>2. ctx.publishing \in 0 .. 1
    BY <1>1, <2>1 DEF Task, InCall
  <2>3. ctx' \in Context /\ ctx'.publishing = ctx.publishing + InCall(t)' - InCall(t)
    <3>1. CASE MayEnqueue
      <4>1. ctx.publishing + 1 \in 0 .. 2 /\ ctx' = [ctx EXCEPT !.publishing = ctx.publishing + 1]
        BY <1>4, <2>2, <3>1 DEF EnqueueAsk
      <4>2. ctx' \in Context /\ ctx'.publishing = ctx.publishing + 1
        BY <1>1, <4>1, CountSet DEF Context
      <4> QED
        BY <2>1, <2>2, <3>1, <4>2 DEF InCall
    <3>2. CASE ~MayEnqueue
      <4>1. ctx' = [ctx EXCEPT !.publishing = ctx.publishing]
        BY <1>4, <3>2 DEF EnqueueAsk
      <4>2. ctx' \in Context /\ ctx'.publishing = ctx.publishing
        BY <1>1, <4>1, CountSet DEF Context
      <4> QED
        BY <2>1, <2>2, <3>2, <4>2 DEF InCall
    <3> QED
      BY <3>1, <3>2
  <2> QED
    BY <1>1, <1>2, <1>3, <1>4, <2>3
    DEF EnqueueAsk, relayVars, appVars, clientVars, KeepsDoor, KeepsConnection,
        KeepsTask, Context
<1>5. CASE EnqueueCall(t)
  <2>1. InCall(t)' = InCall(t) /\ InCall(t) \in 0 .. 1 /\ ctx' = ctx
    BY <1>5 DEF EnqueueCall, Goes, TypeOK, Task, Calling, InCall
  <2>2. CountFits'
    BY <1>1, <1>3, <2>1
  <2> QED
    BY <1>1, <1>2, <1>5, <2>1, <2>2
    DEF EnqueueCall, relayVars, appVars, KeepsDoor, KeepsConnection, KeepsTask
<1>6. CASE EnqueueReturn(t)
  <2>1. Calling(t) /\ ~Calling(t)'
    BY <1>6 DEF EnqueueReturn, Goes, TypeOK, Task, After, Calling
  <2>2. ctx.publishing - 1 \in 0 .. 2
    BY <1>1, <2>1 DEF Task, InCall
  <2>3. ctx' \in Context /\ ctx'.publishing = ctx.publishing - 1
    BY <1>1, <1>6, <2>2, CountSet DEF EnqueueReturn, Published, Context
  <2>4. CountFits'
    BY <1>1, <1>3, <2>1, <2>3 DEF InCall
  <2> QED
    BY <1>1, <1>2, <1>6, <2>3, <2>4
    DEF EnqueueReturn, Published, relayVars, appVars, clientVars, KeepsDoor,
        KeepsConnection, KeepsTask, Context
<1> QED
  BY <1>4, <1>5, <1>6 DEF PublisherStep

LEMMA ObserverFrame ==
  ASSUME TypeOK, NEW o \in Observer, ObserverStep(o)
  PROVE  /\ UNCHANGED << clientVars, at, message, appVars, availability >>
         /\ ctx' \in Context /\ KeepsDoor /\ KeepsConnection /\ KeepsTask /\ KeepsCount
<1> USE DEF TypeOK, Observes, relayVars, KeepsDoor, KeepsConnection, KeepsTask,
            KeepsCount
<1>1. CASE \E item \in Item : ObserveBegin(o, item)
  BY <1>1 DEF ObserveBegin, Context
<1>2. CASE ObserveQueues(o)
  <2>1. Held(o).notification.relay_id \in RelayId
    BY <1>2, RelayAssumption DEF ObserveQueues, Building, Item
  <2>2. ctx' \in Context
    BY <1>2, <2>1, RecentSet, MarkRecentType DEF ObserveQueues, Context
  <2> QED
    BY <1>2, <2>2 DEF ObserveQueues, Context
<1>3. CASE ObserveDrops(o)
  BY <1>3 DEF ObserveDrops, Context
<1>4. CASE ObserveNotify(o)
  BY <1>4 DEF ObserveNotify, Context
<1> QED
  BY <1>1, <1>2, <1>3, <1>4 DEF ObserverStep

LEMMA HandlerFrame ==
  ASSUME TypeOK, HandlerStep
  PROVE  /\ events # << >>
         /\ UNCHANGED << mqtt, outbox, unacked, at, message, observers, appVars, availability >>
         /\ ctx' \in Context /\ KeepsDoor /\ KeepsTask /\ KeepsCount
         /\ ctx'.connected => ctx.connected \/ (handling = "apply" /\ Kind = "connected")
<1> USE DEF TypeOK, Handles, relayVars, KeepsDoor, KeepsTask, KeepsCount
<1>1. CASE EventTaken
  BY <1>1 DEF EventTaken, Context
<1>2. CASE EventIgnored
  BY <1>2 DEF EventIgnored, Context
<1>3. CASE OnBeforeConnect
  <2>1. ctx' \in Context
    BY <1>3, FieldSet DEF OnBeforeConnect
  <2> QED
    BY <1>3, <2>1 DEF OnBeforeConnect, Context
<1>4. CASE OnConnected
  <2>1. ctx' \in Context
    BY <1>4, FieldSet DEF OnConnected
  <2> QED
    BY <1>4, <2>1 DEF OnConnected, Context
<1>5. CASE Subscribed
  BY <1>5 DEF Subscribed, Context
<1>6. CASE SubscribeFails
  <2>1. ctx' \in Context
    BY <1>6, FieldSet DEF SubscribeFails
  <2> QED
    BY <1>6, <2>1 DEF SubscribeFails, Context
<1>7. CASE OnPublished
  BY <1>7 DEF OnPublished, Context
<1>8. CASE OnDisconnected
  <2>1. ctx' \in Context
    BY <1>8, FieldSet DEF OnDisconnected, HandleDisconnect, Disconnected
  <2> QED
    BY <1>8, <2>1 DEF OnDisconnected, HandleDisconnect, Disconnected, Context
<1> QED
  BY <1>1, <1>2, <1>3, <1>4, <1>5, <1>6, <1>7, <1>8 DEF HandlerStep

LEMMA ClientFrame ==
  ASSUME ClientStep
  PROVE  UNCHANGED << ctx, relayVars, handling, taskVars, observers, app >>
<1> USE DEF ClientTask, Ip, clientVars, taskVars, appVars, relayVars
<1>1. CASE ConnectBegins
  BY <1>1 DEF ConnectBegins
<1>2. CASE ConnectSucceeds
  BY <1>2 DEF ConnectSucceeds
<1>3. CASE ConnectFails
  BY <1>3 DEF ConnectFails
<1>4. CASE ConnectionLost
  BY <1>4 DEF ConnectionLost
<1>5. CASE MessageSent
  BY <1>5 DEF MessageSent
<1>6. CASE Acknowledged
  BY <1>6 DEF Acknowledged
<1>7. CASE IpGained
  BY <1>7 DEF IpGained
<1>8. CASE IpLost
  BY <1>8 DEF IpLost
<1> QED
  BY <1>1, <1>2, <1>3, <1>4, <1>5, <1>6, <1>7, <1>8 DEF ClientStep

-----------------------------------------------------------------------------
(* The coordinator.                                                        *)
LEMMA CoordinatorContext ==
  ASSUME TypeOK, CountFits, CoordinatorGoesOn \/ CoordinatorBegins
  PROVE  ctx' \in Context
<1>1. ctx \in Context /\ ctx.publishing \in 0 .. 2
  BY DEF TypeOK, Context
<1>2. CASE ConnectAsk
  BY <1>1, <1>2, FieldSet DEF ConnectAsk
<1>3. CASE RelayInit
  BY <1>1, <1>3, FieldSet, RecentSet, RecentInitType DEF RelayInit
<1>4. CASE RelayInitFails
  BY <1>1, <1>4, ClearedType DEF RelayInitFails
<1>5. CASE Prepare
  BY <1>1, <1>5, FieldSet DEF Prepare
<1>6. CASE PrepareFails
  BY <1>1, <1>6, FieldSet DEF PrepareFails
<1>7. CASE ClientStarts
  BY <1>1, <1>7, FieldSet DEF ClientStarts
<1>8. CASE ClientRefuses
  BY <1>1, <1>8, FieldSet DEF ClientRefuses
<1>9. CASE StartFailed
  BY <1>1, <1>9, FieldSet DEF StartFailed
<1>10. CASE StopBegins
  BY <1>1, <1>10, FieldSet DEF StopBegins, HandleDisconnect, Disconnected
<1>11. CASE StopSettles
  BY <1>1, <1>11, FieldSet DEF StopSettles
<1>12. CASE OfflineAsk
  <2>1. ctx.publishing \in 0 .. 1
    BY <1>1, <1>12 DEF OfflineAsk, Coordinator, Goes, CountFits, InCall, Calling
  <2>2. \/ ctx' = [ctx EXCEPT !.publishing = ctx.publishing + 1]
        \/ ctx' = [ctx EXCEPT !.publishing = ctx.publishing]
    BY <1>12 DEF OfflineAsk
  <2>3. ctx.publishing \in 0 .. 2 /\ ctx.publishing + 1 \in 0 .. 2
    BY <2>1
  <2> QED
    BY <1>1, <2>2, <2>3, CountSet
<1>13. CASE OfflineCall
  BY <1>1, <1>13, FieldSet DEF OfflineCall
<1>14. CASE OfflineReturn
  <2>1. ctx.publishing - 1 \in 0 .. 2
    BY <1>1, <1>14 DEF OfflineReturn, Coordinator, Goes, CountFits, InCall, Calling
  <2> QED
    BY <1>1, <1>14, <2>1, CountSet DEF OfflineReturn, Published
<1>15. CASE Forbid
  BY <1>1, <1>15, FieldSet DEF Forbid
<1>16. CASE ClientStops
  BY <1>1, <1>16, FieldSet DEF ClientStops, PublishIdle
<1>17. CASE ClientDestroyed
  BY <1>1, <1>17, FieldSet DEF ClientDestroyed, NotifyWorker, PublishIdle
<1>18. CASE RelayCleared
  BY <1>1, <1>18, ClearedType DEF RelayCleared
<1>19. CASE WifiConnected
  BY <1>1, <1>19, FieldSet DEF WifiConnected
<1>20. CASE RetryDue
  BY <1>1, <1>20, FieldSet DEF RetryDue
<1>21. CASE Suspend
  BY <1>1, <1>21, FieldSet DEF Suspend
<1>22. CASE StopMqtt
  BY <1>1, <1>22, FieldSet DEF StopMqtt
<1>23. CASE Snapshot
  BY <1>1, <1>23, FieldSet DEF Snapshot
<1> QED
  BY <1>2, <1>3, <1>4, <1>5, <1>6, <1>7, <1>8, <1>9, <1>10, <1>11, <1>12, <1>13,
     <1>14, <1>15, <1>16, <1>17, <1>18, <1>19, <1>20, <1>21, <1>22, <1>23
  DEF CoordinatorGoesOn, CoordinatorBegins

LEMMA CoordinatorKeeps ==
  ASSUME TypeOK, CountFits, CoordinatorFits, DoorShut, EventsFit,
         CoordinatorGoesOn \/ CoordinatorBegins
  PROVE  ctx' \in Context /\ CountFits' /\ CoordinatorFits' /\ DoorShut'
<1> USE CoordinatorContext
    DEF Coordinator, Goes, NoCall, clientVars, appVars, Task, Context, Publishing, Plain,
        Nothing, EventsFit, CountFits, InCall, Calling, CoordinatorFits, DoorShut
<1>1. /\ ctx \in Context /\ ctx.publishing \in 0 .. 2 /\ DOMAIN at = Task /\ DOMAIN message = Task
      /\ app \in [initialized : BOOLEAN, started : BOOLEAN, wifi : BOOLEAN]
      /\ at["worker"] \in WorkerAt /\ message["coordinator"] \in Statement
      /\ mqtt \in {"none", "stopped", "init", "connecting", "online", "waiting"}
  BY DEF TypeOK, Context
<1>2. CASE ConnectAsk
  BY <1>1, <1>2 DEF ConnectAsk
<1>3. CASE RelayInit
  BY <1>1, <1>3 DEF RelayInit
<1>4. CASE RelayInitFails
  BY <1>1, <1>4 DEF RelayInitFails, Cleared
<1>5. CASE Prepare
  BY <1>1, <1>5 DEF Prepare
<1>6. CASE PrepareFails
  BY <1>1, <1>6 DEF PrepareFails
<1>7. CASE ClientStarts
  BY <1>1, <1>7 DEF ClientStarts
<1>8. CASE ClientRefuses
  BY <1>1, <1>8 DEF ClientRefuses
<1>9. CASE StartFailed
  BY <1>1, <1>9 DEF StartFailed
<1>10. CASE StopBegins
  BY <1>1, <1>10 DEF StopBegins, HandleDisconnect, Disconnected
<1>11. CASE StopSettles
  BY <1>1, <1>11 DEF StopSettles
<1>12. CASE OfflineAsk
  BY <1>1, <1>12 DEF OfflineAsk
<1>13. CASE OfflineCall
  BY <1>1, <1>13 DEF OfflineCall
<1>14. CASE OfflineReturn
  BY <1>1, <1>14 DEF OfflineReturn, Published
<1>15. CASE Forbid
  BY <1>1, <1>15 DEF Forbid
<1>16. CASE ClientStops
  BY <1>1, <1>16 DEF ClientStops
<1>17. CASE ClientDestroyed
  BY <1>1, <1>17 DEF ClientDestroyed, NotifyWorker
<1>18. CASE RelayCleared
  BY <1>1, <1>18 DEF RelayCleared, Cleared, FreesAll
<1>19. CASE WifiConnected
  BY <1>1, <1>19 DEF WifiConnected
<1>20. CASE RetryDue
  BY <1>1, <1>20 DEF RetryDue
<1>21. CASE Suspend
  BY <1>1, <1>21 DEF Suspend
<1>22. CASE StopMqtt
  BY <1>1, <1>22 DEF StopMqtt
<1>23. CASE Snapshot
  BY <1>1, <1>23 DEF Snapshot
<1> QED
  BY <1>2, <1>3, <1>4, <1>5, <1>6, <1>7, <1>8, <1>9, <1>10, <1>11, <1>12, <1>13,
     <1>14, <1>15, <1>16, <1>17, <1>18, <1>19, <1>20, <1>21, <1>22, <1>23
  DEF CoordinatorGoesOn, CoordinatorBegins

-----------------------------------------------------------------------------
(* The events of the client's task.                                        *)
LEMMA Lists ==
  ASSUME NEW x, NEW y
  PROVE  /\ << x >> # << >> /\ Head(<< x >>) = x /\ Tail(<< x >>) = << >>
         /\ << x, y >> # << >> /\ Head(<< x, y >>) = x /\ Tail(<< x, y >>) = << y >>
OBVIOUS

LEMMA HandlerEvents ==
  ASSUME TypeOK, EventsFit, HandlerStep
  PROVE  EventsFit'
<1>1. /\ mqtt' = mqtt /\ events # << >> /\ handling' \in {"check", "apply", "subscribe"}
      /\ \/ events' = Tail(events) /\ handling' = "check"
         \/ events' = events /\ handling' # "subscribe"
         \/ events' = events /\ handling' = "subscribe" /\ Kind = "connected"
  BY
  DEF HandlerStep, EventTaken, EventIgnored, OnBeforeConnect, OnConnected, Subscribed,
         SubscribeFails, OnPublished, OnDisconnected, Handles, Handled
<1>2. /\ mqtt = "connecting" => events = << Plain("before_connect") >>
      /\ mqtt = "online" => \/ events = << Plain("connected") >>
                            \/ \E item \in Item : events = << With("published", item) >>
      /\ mqtt = "waiting" => \/ events = << Plain("disconnected") >>
                             \/ events = << Plain("error"), Plain("disconnected") >>
      /\ mqtt \in {"connecting", "online", "waiting"}
  BY <1>1 DEF EventsFit, TypeOK, Lost
<1>3. /\ mqtt \in {"connecting", "online"} => Tail(events) = << >>
      /\ mqtt = "waiting" => Tail(events) \in {<< >>, << Plain("disconnected") >>}
  <2>1. CASE mqtt = "connecting"
    <3>1. Tail(<< Plain("before_connect") >>) = << >>
      BY Lists
    <3> QED
      BY <1>2, <2>1, <3>1
  <2>2. CASE mqtt = "online"
    <3>1. Tail(<< Plain("connected") >>) = << >>
      BY Lists
    <3>2. \A item \in Item : Tail(<< With("published", item) >>) = << >>
      BY Lists
    <3> QED
      BY <1>2, <2>2, <3>1, <3>2
  <2>3. CASE mqtt = "waiting"
    <3>1. Tail(<< Plain("disconnected") >>) = << >>
      BY Lists
    <3>2. Tail(<< Plain("error"), Plain("disconnected") >>) = << Plain("disconnected") >>
      BY Lists
    <3> QED
      BY <1>2, <2>3, <3>1, <3>2
  <2> QED
    BY <1>2, <2>1, <2>2, <2>3
<1>4. CASE events' = events
  BY <1>1, <1>4 DEF EventsFit, Kind
<1>5. CASE events' = Tail(events) /\ handling' = "check"
  BY <1>1, <1>2, <1>3, <1>5 DEF EventsFit, Lost
<1> QED
  BY <1>1, <1>4, <1>5

LEMMA ClientEvents ==
  ASSUME TypeOK, EventsFit, ClientStep
  PROVE  EventsFit'
<1>1. handling' = handling
  BY ClientFrame
<1>2. CASE ConnectBegins
  BY <1>1, <1>2, Lists
  DEF ConnectBegins, ClientTask, ApiFree, Ip, clientVars, EventsFit, Kind, Lost,
      TypeOK
<1>3. CASE ConnectSucceeds
  BY <1>1, <1>3, Lists
  DEF ConnectSucceeds, ClientTask, ApiFree, Ip, clientVars, EventsFit, Kind, Lost,
      TypeOK
<1>4. CASE ConnectFails
  BY <1>1, <1>4, Lists
  DEF ConnectFails, ClientTask, ApiFree, Ip, clientVars, EventsFit, Kind, Lost, TypeOK
<1>5. CASE ConnectionLost
  BY <1>1, <1>5, Lists
  DEF ConnectionLost, ClientTask, ApiFree, Ip, clientVars, EventsFit, Kind, Lost,
      TypeOK
<1>6. CASE MessageSent
  BY <1>1, <1>6, Lists
  DEF MessageSent, ClientTask, ApiFree, Ip, clientVars, EventsFit, Kind, Lost, TypeOK
<1>7. CASE Acknowledged
  BY <1>1, <1>7, Lists
  DEF Acknowledged, ClientTask, ApiFree, Ip, clientVars, EventsFit, Kind, Lost, TypeOK
<1>8. CASE IpGained
  BY <1>1, <1>8, Lists
  DEF IpGained, ClientTask, ApiFree, Ip, clientVars, EventsFit, Kind, Lost, TypeOK
<1>9. CASE IpLost
  BY <1>1, <1>9, Lists
  DEF IpLost, ClientTask, ApiFree, Ip, clientVars, EventsFit, Kind, Lost, TypeOK
<1> QED
  BY <1>2, <1>3, <1>4, <1>5, <1>6, <1>7, <1>8, <1>9 DEF ClientStep

LEMMA CoordinatorEvents ==
  ASSUME TypeOK, EventsFit, CoordinatorFits, CoordinatorGoesOn \/ CoordinatorBegins
  PROVE  EventsFit'
<1>1. /\ UNCHANGED << events, handling >>
      /\ mqtt' = mqtt \/ (mqtt' \in {"none", "stopped", "init"} /\ events = << >>)
  <2>1. CASE ConnectAsk
    BY <2>1
    DEF ConnectAsk, Coordinator, Goes, NoCall, clientVars, EventsFit, CoordinatorFits
  <2>2. CASE RelayInit
    BY <2>2
    DEF RelayInit, Coordinator, Goes, NoCall, clientVars, EventsFit, CoordinatorFits
  <2>3. CASE RelayInitFails
    BY <2>3
    DEF RelayInitFails, Coordinator, Goes, NoCall, clientVars, EventsFit,
        CoordinatorFits
  <2>4. CASE Prepare
    BY <2>4
    DEF Prepare, Coordinator, Goes, NoCall, clientVars, EventsFit, CoordinatorFits
  <2>5. CASE PrepareFails
    BY <2>5
    DEF PrepareFails, Coordinator, Goes, NoCall, clientVars, EventsFit,
        CoordinatorFits
  <2>6. CASE ClientStarts
    BY <2>6
    DEF ClientStarts, ApiFree, Coordinator, Goes, NoCall, clientVars, EventsFit,
        CoordinatorFits
  <2>7. CASE ClientRefuses
    BY <2>7
    DEF ClientRefuses, Coordinator, Goes, NoCall, clientVars, EventsFit,
        CoordinatorFits
  <2>8. CASE StartFailed
    BY <2>8
    DEF StartFailed, Coordinator, Goes, NoCall, clientVars, EventsFit, CoordinatorFits
  <2>9. CASE StopBegins
    BY <2>9
    DEF StopBegins, Coordinator, Goes, NoCall, clientVars, EventsFit, CoordinatorFits
  <2>10. CASE StopSettles
    BY <2>10
    DEF StopSettles, Coordinator, Goes, NoCall, clientVars, EventsFit, CoordinatorFits
  <2>11. CASE OfflineAsk
    BY <2>11
    DEF OfflineAsk, Coordinator, Goes, NoCall, clientVars, EventsFit, CoordinatorFits
  <2>12. CASE OfflineCall
    BY <2>12
    DEF OfflineCall, Coordinator, Goes, NoCall, clientVars, EventsFit, CoordinatorFits
  <2>13. CASE OfflineReturn
    BY <2>13
    DEF OfflineReturn, Coordinator, Goes, NoCall, clientVars, EventsFit,
        CoordinatorFits
  <2>14. CASE Forbid
    BY <2>14
    DEF Forbid, Coordinator, Goes, NoCall, clientVars, EventsFit, CoordinatorFits
  <2>15. CASE ClientStops
    BY <2>15
    DEF ClientStops, ApiFree, Coordinator, Goes, NoCall, clientVars, EventsFit,
        CoordinatorFits
  <2>16. CASE ClientDestroyed
    BY <2>16
    DEF ClientDestroyed, Coordinator, Goes, NoCall, clientVars, EventsFit,
        CoordinatorFits
  <2>17. CASE RelayCleared
    BY <2>17
    DEF RelayCleared, Coordinator, Goes, NoCall, clientVars, EventsFit,
        CoordinatorFits
  <2>18. CASE WifiConnected
    BY <2>18
    DEF WifiConnected, Coordinator, Goes, NoCall, clientVars, EventsFit,
        CoordinatorFits
  <2>19. CASE RetryDue
    BY <2>19
    DEF RetryDue, Coordinator, Goes, NoCall, clientVars, EventsFit, CoordinatorFits
  <2>20. CASE Suspend
    BY <2>20
    DEF Suspend, Coordinator, Goes, NoCall, clientVars, EventsFit, CoordinatorFits
  <2>21. CASE StopMqtt
    BY <2>21
    DEF StopMqtt, Coordinator, Goes, NoCall, clientVars, EventsFit, CoordinatorFits
  <2>22. CASE Snapshot
    BY <2>22
    DEF Snapshot, Coordinator, Goes, NoCall, clientVars, EventsFit, CoordinatorFits
  <2> QED
    BY <2>1, <2>2, <2>3, <2>4, <2>5, <2>6, <2>7, <2>8, <2>9, <2>10, <2>11, <2>12,
       <2>13, <2>14, <2>15, <2>16, <2>17, <2>18, <2>19, <2>20, <2>21, <2>22
    DEF CoordinatorGoesOn, CoordinatorBegins
<1> QED
  BY <1>1 DEF EventsFit, Kind, TypeOK

-----------------------------------------------------------------------------
(* What the worker holds, and where it is.                                 *)
LEMMA WorkerHand ==
  ASSUME TypeOK, HandFits, WorkerStep
  PROVE  HandFits' /\ message'["worker"] \in Message
<1> USE DEF Worker, WorkerOnly, Goes, Says, HandFits, IsItem, Publishing
<1>0. DOMAIN at = Task /\ DOMAIN message = Task /\ "worker" \in Task
      /\ message["worker"] \in Message /\ queue \in Seq(Item)
  BY DEF TypeOK, Task
<1>m. \A k \in {"nothing", "online", "state", "discovery", "offline"} :
        Plain(k) \in Message /\ Plain(k).kind = k
  BY DEF Message, Statement, Plain
<1>1. CASE WorkerWakes
  BY <1>0, <1>m, <1>1 DEF WorkerWakes, Nothing
<1>2. CASE WorkerEnds
  BY <1>0, <1>m, <1>2 DEF WorkerEnds, Nothing
<1>3. CASE WorkerAnnounces
  BY <1>0, <1>m, <1>3 DEF WorkerAnnounces, Nothing
<1>4. CASE WorkerCannotAnnounce
  BY <1>0, <1>m, <1>4 DEF WorkerCannotAnnounce, Nothing
<1>5. CASE WorkerSkips
  BY <1>0, <1>m, <1>5 DEF WorkerSkips, Nothing
<1>6. CASE OutboxAsk
  BY <1>0, <1>m, <1>6 DEF OutboxAsk, Nothing
<1>7. CASE OutboxHolds
  BY <1>0, <1>m, <1>7 DEF OutboxHolds, Nothing
<1>8. CASE OutboxTimesOut
  BY <1>0, <1>m, <1>8 DEF OutboxTimesOut, Nothing
<1>9. CASE OutboxEmpty
  BY <1>0, <1>m, <1>9 DEF OutboxEmpty, Nothing
<1>10. CASE Discover
  BY <1>0, <1>m, <1>10 DEF Discover, Nothing
<1>11. CASE DiscoveryDone
  BY <1>0, <1>m, <1>11 DEF DiscoveryDone, Nothing
<1>12. CASE Announced
  BY <1>0, <1>m, <1>12 DEF Announced, Nothing
<1>13. CASE DrainStops
  BY <1>0, <1>m, <1>13 DEF DrainStops, Nothing
<1>14. CASE DrainTakes
  <2>1. Head(queue) \in Item
    BY <1>0, <1>14 DEF DrainTakes
  <2>2. /\ With("notification", Head(queue)) \in Message
        /\ With("notification", Head(queue)).kind = "notification"
    BY <2>1 DEF Message, With
  <2> QED
    BY <1>0, <1>14, <2>2 DEF DrainTakes
<1>15. CASE Track
  BY <1>0, <1>m, <1>15 DEF Track, Settles, Nothing
<1>16. CASE Discard
  BY <1>0, <1>m, <1>16 DEF Discard, Settles, Nothing
<1> QED
  BY <1>1, <1>2, <1>3, <1>4, <1>5, <1>6, <1>7, <1>8, <1>9, <1>10, <1>11, <1>12, <1>13,
     <1>14, <1>15, <1>16
  DEF WorkerStep

LEMMA PublisherHand ==
  ASSUME TypeOK, HandFits, NEW t \in Task, PublisherStep(t)
  PROVE  /\ HandFits' /\ at'["worker"] \in WorkerAt /\ at'["coordinator"] \in CoordinatorAt
         /\ at[t] \in Publishing
         /\ at'["worker"] # "gone" \/ at'["worker"] = at["worker"]
         /\ (t = "worker" /\ at["worker"] # "gone") \/ at'["worker"] = at["worker"]
         /\ at'["coordinator"] = at["coordinator"]
            \/ (at["coordinator"] \in Publishing
                /\ at'["coordinator"] \in {"call", "return", "return_failed", "idle"})
<1>1. DOMAIN at = Task /\ at["worker"] \in WorkerAt /\ at["coordinator"] \in CoordinatorAt
  BY DEF TypeOK
<1>2. CASE EnqueueAsk(t)
  BY <1>1, <1>2
  DEF EnqueueAsk, Goes, After, HandFits, Publishing, WorkerAt, CoordinatorAt, Task,
      IsItem
<1>3. CASE EnqueueCall(t)
  BY <1>1, <1>3
  DEF EnqueueCall, Goes, HandFits, Publishing, WorkerAt, CoordinatorAt, Task, IsItem
<1>4. CASE EnqueueReturn(t)
  BY <1>1, <1>4
  DEF EnqueueReturn, Goes, After, HandFits, Publishing, WorkerAt, CoordinatorAt, Task,
      IsItem
<1> QED
  BY <1>2, <1>3, <1>4 DEF PublisherStep

LEMMA CoordinatorHand ==
  ASSUME TypeOK, HandFits, CoordinatorFits, CoordinatorGoesOn \/ CoordinatorBegins
  PROVE  /\ HandFits' /\ DOMAIN at' = Task /\ DOMAIN message' = Task
         /\ at'["worker"] \in WorkerAt /\ at'["coordinator"] \in CoordinatorAt
         /\ message'["worker"] = message["worker"] /\ message'["coordinator"] \in Statement
         /\ at'["worker"] = at["worker"] \/ (at["worker"] = "gone" /\ at'["worker"] = "wait")
<1>0. DOMAIN at = Task /\ at["worker"] \in WorkerAt /\ at["coordinator"] \in CoordinatorAt
      /\ DOMAIN message = Task /\ message["coordinator"] \in Statement
  BY DEF TypeOK
<1>m. \A k \in {"nothing", "state", "offline"} : Plain(k) \in Statement
  BY DEF Statement, Plain
<1>1. CASE ConnectAsk
  BY <1>0, <1>m, <1>1
  DEF ConnectAsk, Coordinator, Goes, HandFits, CoordinatorAt, WorkerAt, Publishing,
      Task, Nothing
<1>2. CASE RelayInit
  BY <1>0, <1>m, <1>2
  DEF RelayInit, Coordinator, Goes, HandFits, CoordinatorAt, WorkerAt, Publishing,
      Task, Nothing
<1>3. CASE RelayInitFails
  BY <1>0, <1>m, <1>3
  DEF RelayInitFails, Coordinator, Goes, HandFits, CoordinatorAt, WorkerAt,
      Publishing, Task, Nothing
<1>4. CASE Prepare
  BY <1>0, <1>m, <1>4
  DEF Prepare, Coordinator, Goes, HandFits, CoordinatorAt, WorkerAt, Publishing, Task,
      Nothing, CoordinatorFits
<1>5. CASE PrepareFails
  BY <1>0, <1>m, <1>5
  DEF PrepareFails, Coordinator, Goes, HandFits, CoordinatorAt, WorkerAt, Publishing,
      Task, Nothing
<1>6. CASE ClientStarts
  BY <1>0, <1>m, <1>6
  DEF ClientStarts, Coordinator, Goes, HandFits, CoordinatorAt, WorkerAt, Publishing,
      Task, Nothing
<1>7. CASE ClientRefuses
  BY <1>0, <1>m, <1>7
  DEF ClientRefuses, Coordinator, Goes, HandFits, CoordinatorAt, WorkerAt, Publishing,
      Task, Nothing
<1>8. CASE StartFailed
  BY <1>0, <1>m, <1>8
  DEF StartFailed, Coordinator, Goes, HandFits, CoordinatorAt, WorkerAt, Publishing,
      Task, Nothing
<1>9. CASE StopBegins
  BY <1>0, <1>m, <1>9
  DEF StopBegins, Coordinator, Goes, HandFits, CoordinatorAt, WorkerAt, Publishing,
      Task, Nothing
<1>10. CASE StopSettles
  BY <1>0, <1>m, <1>10
  DEF StopSettles, Coordinator, Goes, HandFits, CoordinatorAt, WorkerAt, Publishing,
      Task, Nothing
<1>11. CASE OfflineAsk
  BY <1>0, <1>m, <1>11
  DEF OfflineAsk, Coordinator, Goes, HandFits, CoordinatorAt, WorkerAt, Publishing,
      Task, Nothing
<1>12. CASE OfflineCall
  BY <1>0, <1>m, <1>12
  DEF OfflineCall, Coordinator, Goes, HandFits, CoordinatorAt, WorkerAt, Publishing,
      Task, Nothing
<1>13. CASE OfflineReturn
  BY <1>0, <1>m, <1>13
  DEF OfflineReturn, Coordinator, Goes, HandFits, CoordinatorAt, WorkerAt, Publishing,
      Task, Nothing
<1>14. CASE Forbid
  BY <1>0, <1>m, <1>14
  DEF Forbid, Coordinator, Goes, HandFits, CoordinatorAt, WorkerAt, Publishing, Task,
      Nothing
<1>15. CASE ClientStops
  BY <1>0, <1>m, <1>15
  DEF ClientStops, Coordinator, Goes, HandFits, CoordinatorAt, WorkerAt, Publishing,
      Task, Nothing
<1>16. CASE ClientDestroyed
  BY <1>0, <1>m, <1>16
  DEF ClientDestroyed, Coordinator, Goes, HandFits, CoordinatorAt, WorkerAt,
      Publishing, Task, Nothing
<1>17. CASE RelayCleared
  BY <1>0, <1>m, <1>17
  DEF RelayCleared, Coordinator, Goes, HandFits, CoordinatorAt, WorkerAt, Publishing,
      Task, Nothing
<1>18. CASE WifiConnected
  BY <1>0, <1>m, <1>18
  DEF WifiConnected, Coordinator, Goes, HandFits, CoordinatorAt, WorkerAt, Publishing,
      Task, Nothing
<1>19. CASE RetryDue
  BY <1>0, <1>m, <1>19
  DEF RetryDue, Coordinator, Goes, HandFits, CoordinatorAt, WorkerAt, Publishing,
      Task, Nothing
<1>20. CASE Suspend
  BY <1>0, <1>m, <1>20
  DEF Suspend, Coordinator, Goes, HandFits, CoordinatorAt, WorkerAt, Publishing, Task,
      Nothing
<1>21. CASE StopMqtt
  BY <1>0, <1>m, <1>21
  DEF StopMqtt, Coordinator, Goes, HandFits, CoordinatorAt, WorkerAt, Publishing,
      Task, Nothing
<1>22. CASE Snapshot
  BY <1>0, <1>m, <1>22
  DEF Snapshot, Coordinator, Goes, HandFits, CoordinatorAt, WorkerAt, Publishing,
      Task, Nothing
<1> QED
  BY <1>1, <1>2, <1>3, <1>4, <1>5, <1>6, <1>7, <1>8, <1>9, <1>10, <1>11, <1>12, <1>13,
     <1>14, <1>15, <1>16, <1>17, <1>18, <1>19, <1>20, <1>21, <1>22
  DEF CoordinatorGoesOn, CoordinatorBegins

-----------------------------------------------------------------------------
(* Types.                                                                  *)
ItemsTyped ==
  /\ queue \in Seq(Item) /\ Len(queue) <= QueueCapacity
  /\ pending \subseteq Item /\ heap \subseteq Item

LEMMA EmptyQueue == << >> \in Seq(Item) /\ Len(<< >>) <= QueueCapacity
BY RelayAssumption

LEMMA ItemOf ==
  ASSUME NEW m \in Message, IsItem(m)
  PROVE  m.item \in Item
BY DEF Message, Statement, Plain, With, IsItem

LEMMA WorkerItems ==
  ASSUME TypeOK, HandFits, WorkerStep
  PROVE  ItemsTyped' /\ notified' \in BOOLEAN
<1>1. ItemsTyped /\ notified \in BOOLEAN
  BY DEF TypeOK, ItemsTyped
<1>2. CASE DrainTakes
  BY <1>1, <1>2, RelayAssumption DEF DrainTakes, ItemsTyped
<1>3. CASE Track \/ Discard
  <2>1. message["worker"].item \in Item
    <3>1. message["worker"] \in Message /\ IsItem(message["worker"])
      BY <1>3 DEF Track, Discard, Worker, Goes, HandFits, TypeOK
    <3> QED
      BY <3>1, ItemOf
  <2> QED
    BY <1>1, <1>3, <2>1 DEF Track, Discard, Settles, Freed, ItemsTyped
<1>4. CASE ~DrainTakes /\ ~Track /\ ~Discard
  BY <1>1, <1>4
  DEF WorkerStep, WorkerWakes, WorkerEnds, WorkerAnnounces, WorkerCannotAnnounce,
     WorkerSkips, OutboxAsk, OutboxHolds, OutboxTimesOut, OutboxEmpty, Discover,
     DiscoveryDone, Announced, DrainStops, relayVars, ItemsTyped
<1> QED
  BY <1>2, <1>3, <1>4

LEMMA WorkerTypes ==
  ASSUME TypeOK, HandFits, WorkerStep
  PROVE  TypeOK'
BY WorkerFrame, WorkerHand, WorkerItems
DEF TypeOK, ItemsTyped, clientVars, appVars, Building, Held

LEMMA PublisherTypes ==
  ASSUME TypeOK, CountFits, HandFits, NEW t \in Task, PublisherStep(t)
  PROVE  TypeOK'
<1>1. outbox' \in Seq(Message)
  <2>1. message[t] \in Message /\ outbox \in Seq(Message)
    BY DEF TypeOK, Task, Message
  <2> QED
    <3>1. outbox' = outbox \/ outbox' = Append(outbox, message[t])
      BY DEF PublisherStep, EnqueueAsk, EnqueueCall, EnqueueReturn, clientVars
    <3> QED
      BY <2>1, <3>1
<1> QED
  BY <1>1, PublisherFrame, PublisherHand
  DEF TypeOK, relayVars, appVars, Building, Held

LEMMA ObserverTypes ==
  ASSUME TypeOK, NEW o \in Observer, ObserverStep(o)
  PROVE  TypeOK'
<1>1. ItemsTyped /\ notified \in BOOLEAN /\ ctx.task \in BOOLEAN
      /\ observers \in [Observer -> [at : {"idle", "built", "notify"}, item : Item \cup {None}]]
      /\ \A p \in Observer : observers[p].at = "built" => observers[p].item \in Item
  BY DEF TypeOK, ItemsTyped, Context, Building, Held
<1>2. ASSUME NEW to \in {"idle", "built", "notify"}, NEW item \in Item \cup {None},
             NEW from, Observes(o, from, to, item), to = "built" => item \in Item
      PROVE  /\ observers' \in [Observer -> [at : {"idle", "built", "notify"}, item : Item \cup {None}]]
             /\ \A p \in Observer : observers'[p].at = "built" => observers'[p].item \in Item
  BY <1>1, <1>2 DEF Observes
<1>3. /\ ItemsTyped' /\ notified' \in BOOLEAN
      /\ observers' \in [Observer -> [at : {"idle", "built", "notify"}, item : Item \cup {None}]]
      /\ \A p \in Observer : observers'[p].at = "built" => observers'[p].item \in Item
  <2>1. CASE \E item \in Item : ObserveBegin(o, item)
    <3>1. PICK item \in Item : ObserveBegin(o, item)
      BY <2>1
    <3> QED
      BY <1>1, <1>2, <3>1 DEF ObserveBegin, ItemsTyped
  <2>2. CASE ObserveQueues(o)
    <3>1. Held(o) \in Item
      BY <1>1, <2>2 DEF ObserveQueues, Observes, Held
    <3>2. ItemsTyped'
      BY <1>1, <2>2, <3>1, RelayAssumption DEF ObserveQueues, ItemsTyped
    <3> QED
      BY <1>1, <1>2, <2>2, <3>2 DEF ObserveQueues
  <2>3. CASE ObserveDrops(o)
    BY <1>1, <1>2, <2>3 DEF ObserveDrops, ItemsTyped, Freed
  <2>4. CASE ObserveNotify(o)
    BY <1>1, <1>2, <2>4 DEF ObserveNotify, ItemsTyped, NotifyWorker, relayVars
  <2> QED
    BY <2>1, <2>2, <2>3, <2>4 DEF ObserverStep
<1> QED
  BY <1>3, ObserverFrame DEF TypeOK, ItemsTyped, Building, Held, clientVars, appVars

LEMMA HandlerTypes ==
  ASSUME TypeOK, HandlerStep
  PROVE  TypeOK'
<1>1. ItemsTyped /\ notified \in BOOLEAN /\ ctx.task \in BOOLEAN /\ events \in Seq(Report)
  BY DEF TypeOK, ItemsTyped, Context
<1>2. events' \in Seq(Report) /\ handling' \in {"check", "apply", "subscribe"}
  BY <1>1, HandlerFrame DEF HandlerStep, EventTaken, EventIgnored, OnBeforeConnect,
     OnConnected, Subscribed, SubscribeFails, OnPublished, OnDisconnected, Handles, Handled
<1>3. ItemsTyped' /\ notified' \in BOOLEAN
  BY <1>1, EmptyQueue
  DEF HandlerStep, EventTaken, EventIgnored, OnBeforeConnect, OnConnected,
     Subscribed, SubscribeFails, OnPublished, OnDisconnected, HandleDisconnect, FreesAll,
     Freed, NotifyWorker, ItemsTyped, relayVars
<1> QED
  BY <1>2, <1>3, HandlerFrame DEF TypeOK, ItemsTyped, Building, Held, appVars

LEMMA ClientTypes ==
  ASSUME TypeOK, ClientStep
  PROVE  TypeOK'
<1>1. /\ events \in Seq(Report) /\ outbox \in Seq(Message) /\ unacked \subseteq Item
      /\ has_ip \in BOOLEAN /\ availability \in {"online", "offline"}
      /\ mqtt \in {"none", "stopped", "init", "connecting", "online", "waiting"}
  BY DEF TypeOK
<1>2. /\ \A k \in {"before_connect", "connected", "disconnected", "error"} : Plain(k) \in Report
      /\ \A item \in Item : With("published", item) \in Report
  BY DEF Report
<1>3. /\ events' \in Seq(Report) /\ outbox' \in Seq(Message) /\ unacked' \subseteq Item
      /\ has_ip' \in BOOLEAN /\ availability' \in {"online", "offline"}
      /\ mqtt' \in {"none", "stopped", "init", "connecting", "online", "waiting"}
  <2>1. CASE ConnectBegins
    BY <1>1, <1>2, <2>1 DEF ConnectBegins, ClientTask, Ip, clientVars, appVars, Lost
  <2>2. CASE ConnectSucceeds
    BY <1>1, <1>2, <2>2 DEF ConnectSucceeds, ClientTask, Ip, clientVars, appVars, Lost
  <2>3. CASE ConnectFails
    BY <1>1, <1>2, <2>3 DEF ConnectFails, ClientTask, Ip, clientVars, appVars, Lost
  <2>4. CASE ConnectionLost
    <3>1. /\ events' \in Lost /\ mqtt' = "waiting" /\ availability' = "offline"
          /\ has_ip' = has_ip
      BY <2>4, Zenon DEF ConnectionLost, ClientTask, appVars
    <3>2. (outbox' = << >> /\ unacked' = {}) \/ (outbox' = outbox /\ unacked' = unacked)
      BY <2>4, Zenon DEF ConnectionLost
    <3>3. events' \in Seq(Report)
      <4>1. \A x, y \in Report : << x >> \in Seq(Report) /\ << x, y >> \in Seq(Report)
        OBVIOUS
      <4> QED
        BY <1>2, <3>1, <4>1, Zenon DEF Lost
    <3>4. outbox' \in Seq(Message)
      <4>1. << >> \in Seq(Message)
        OBVIOUS
      <4> QED
        BY <1>1, <3>2, <4>1, Zenon
    <3>5. unacked' \subseteq Item
      BY <1>1, <3>2
    <3> QED
      BY <1>1, <3>1, <3>3, <3>4, <3>5
  <2>5. CASE MessageSent
    <3>1. Head(outbox) \in Message /\ Tail(outbox) \in Seq(Message)
      BY <1>1, <2>5 DEF MessageSent
    <3>2. IsItem(Head(outbox)) => Head(outbox).item \in Item
      BY <3>1, ItemOf
    <3> QED
      BY <1>1, <2>5, <3>1, <3>2 DEF MessageSent, ClientTask, appVars
  <2>6. CASE Acknowledged
    BY <1>1, <1>2, <2>6 DEF Acknowledged, ClientTask, Ip, clientVars, appVars, Lost
  <2>7. CASE IpGained
    BY <1>1, <1>2, <2>7 DEF IpGained, ClientTask, Ip, clientVars, appVars, Lost
  <2>8. CASE IpLost
    BY <1>1, <1>2, <2>8 DEF IpLost, ClientTask, Ip, clientVars, appVars, Lost
  <2> QED
    BY <2>1, <2>2, <2>3, <2>4, <2>5, <2>6, <2>7, <2>8 DEF ClientStep
<1> QED
  BY <1>3, ClientFrame DEF TypeOK, Building, Held, relayVars, taskVars

LEMMA CoordinatorTypes ==
  ASSUME TypeOK, CountFits, HandFits, CoordinatorFits, DoorShut, EventsFit,
         CoordinatorGoesOn \/ CoordinatorBegins
  PROVE  TypeOK'
<1>1. /\ outbox \in Seq(Message) /\ unacked \subseteq Item /\ ItemsTyped
      /\ has_ip \in BOOLEAN /\ availability \in {"online", "offline"} /\ notified \in BOOLEAN
      /\ mqtt \in {"none", "stopped", "init", "connecting", "online", "waiting"}
      /\ app \in [initialized : BOOLEAN, started : BOOLEAN, wifi : BOOLEAN]
      /\ ctx.task \in BOOLEAN
  BY DEF TypeOK, ItemsTyped, Context
<1>2. /\ outbox' \in Seq(Message) /\ unacked' \subseteq Item /\ ItemsTyped'
      /\ has_ip' \in BOOLEAN /\ availability' \in {"online", "offline"} /\ notified' \in BOOLEAN
      /\ mqtt' \in {"none", "stopped", "init", "connecting", "online", "waiting"}
      /\ app' \in [initialized : BOOLEAN, started : BOOLEAN, wifi : BOOLEAN]
      /\ UNCHANGED << events, handling, observers >>
  <2>1. CASE ConnectAsk
    BY <1>1, EmptyQueue, <2>1
    DEF ConnectAsk, Coordinator, NoCall, clientVars, appVars, relayVars, ItemsTyped
  <2>2. CASE RelayInit
    BY <1>1, EmptyQueue, <2>2
    DEF RelayInit, Coordinator, NoCall, clientVars, appVars, relayVars, ItemsTyped
  <2>3. CASE RelayInitFails
    BY <1>1, EmptyQueue, <2>3
    DEF RelayInitFails, Coordinator, NoCall, clientVars, appVars, relayVars,
        ItemsTyped
  <2>4. CASE Prepare
    BY <1>1, EmptyQueue, <2>4
    DEF Prepare, Coordinator, NoCall, clientVars, appVars, relayVars, ItemsTyped
  <2>5. CASE PrepareFails
    BY <1>1, EmptyQueue, <2>5
    DEF PrepareFails, Coordinator, NoCall, clientVars, appVars, relayVars, ItemsTyped
  <2>6. CASE ClientStarts
    BY <1>1, EmptyQueue, <2>6
    DEF ClientStarts, Coordinator, NoCall, clientVars, appVars, relayVars, ItemsTyped
  <2>7. CASE ClientRefuses
    BY <1>1, EmptyQueue, <2>7
    DEF ClientRefuses, Coordinator, NoCall, clientVars, appVars, relayVars, ItemsTyped
  <2>8. CASE StartFailed
    BY <1>1, EmptyQueue, <2>8
    DEF StartFailed, Coordinator, NoCall, clientVars, appVars, relayVars, ItemsTyped
  <2>9. CASE StopBegins
    BY <1>1, EmptyQueue, <2>9
    DEF StopBegins, HandleDisconnect, FreesAll, Freed, Coordinator, NoCall,
        clientVars, appVars, relayVars, ItemsTyped
  <2>10. CASE StopSettles
    BY <1>1, EmptyQueue, <2>10
    DEF StopSettles, Coordinator, NoCall, clientVars, appVars, relayVars, ItemsTyped
  <2>11. CASE OfflineAsk
    BY <1>1, EmptyQueue, <2>11
    DEF OfflineAsk, Coordinator, NoCall, clientVars, appVars, relayVars, ItemsTyped
  <2>12. CASE OfflineCall
    BY <1>1, EmptyQueue, <2>12
    DEF OfflineCall, Coordinator, NoCall, clientVars, appVars, relayVars, ItemsTyped
  <2>13. CASE OfflineReturn
    BY <1>1, EmptyQueue, <2>13
    DEF OfflineReturn, Coordinator, NoCall, clientVars, appVars, relayVars, ItemsTyped
  <2>14. CASE Forbid
    BY <1>1, EmptyQueue, <2>14
    DEF Forbid, Coordinator, NoCall, clientVars, appVars, relayVars, ItemsTyped
  <2>15. CASE ClientStops
    BY <1>1, EmptyQueue, <2>15
    DEF ClientStops, Coordinator, NoCall, clientVars, appVars, relayVars, ItemsTyped
  <2>16. CASE ClientDestroyed
    BY <1>1, EmptyQueue, <2>16
    DEF ClientDestroyed, NotifyWorker, Coordinator, NoCall, clientVars, appVars,
        relayVars, ItemsTyped
  <2>17. CASE RelayCleared
    BY <1>1, EmptyQueue, <2>17
    DEF RelayCleared, FreesAll, Freed, Coordinator, NoCall, clientVars, appVars,
        relayVars, ItemsTyped
  <2>18. CASE WifiConnected
    BY <1>1, EmptyQueue, <2>18
    DEF WifiConnected, Coordinator, NoCall, clientVars, appVars, relayVars, ItemsTyped
  <2>19. CASE RetryDue
    BY <1>1, EmptyQueue, <2>19
    DEF RetryDue, Coordinator, NoCall, clientVars, appVars, relayVars, ItemsTyped
  <2>20. CASE Suspend
    BY <1>1, EmptyQueue, <2>20
    DEF Suspend, Coordinator, NoCall, clientVars, appVars, relayVars, ItemsTyped
  <2>21. CASE StopMqtt
    BY <1>1, EmptyQueue, <2>21
    DEF StopMqtt, Coordinator, NoCall, clientVars, appVars, relayVars, ItemsTyped
  <2>22. CASE Snapshot
    BY <1>1, EmptyQueue, <2>22
    DEF Snapshot, Coordinator, NoCall, clientVars, appVars, relayVars, ItemsTyped
  <2> QED
    BY <2>1, <2>2, <2>3, <2>4, <2>5, <2>6, <2>7, <2>8, <2>9, <2>10, <2>11, <2>12,
       <2>13, <2>14, <2>15, <2>16, <2>17, <2>18, <2>19, <2>20, <2>21, <2>22
    DEF CoordinatorGoesOn, CoordinatorBegins
<1> QED
  BY <1>2, CoordinatorKeeps, CoordinatorHand DEF TypeOK, ItemsTyped, Building, Held

-----------------------------------------------------------------------------
(* The client's state, the calls and the coordinator's positions under the *)
(* steps of the other tasks.                                               *)
ClientFits == CountFits /\ CoordinatorFits /\ DoorShut /\ CallsFindTheClient

LEMMA WorkerClient ==
  ASSUME TypeOK, ClientFits, WorkerStep
  PROVE  ClientFits'
<1>1. CountFits'
  BY WorkerFrame
  DEF ClientFits, CountFits, KeepsCount, InCall, Calling, WorkerAt, Publishing, TypeOK
<1>2. CoordinatorFits' /\ DoorShut'
  BY WorkerFrame
  DEF ClientFits, CoordinatorFits, DoorShut, KeepsDoor, KeepsConnection, clientVars,
      appVars
<1>3. CallsFindTheClient'
  BY WorkerFrame
  DEF ClientFits, CallsFindTheClient, clientVars, Task, WorkerAt, Publishing
<1> QED
  BY <1>1, <1>2, <1>3 DEF ClientFits

LEMMA PublisherClient ==
  ASSUME TypeOK, HandFits, ClientFits, NEW t \in Task, PublisherStep(t)
  PROVE  ClientFits'
<1>1. CountFits'
  BY PublisherFrame DEF ClientFits
<1>2. CoordinatorFits' /\ DoorShut'
  BY PublisherFrame, PublisherHand
  DEF ClientFits, CoordinatorFits, DoorShut, KeepsDoor, KeepsConnection, KeepsTask,
      appVars, Publishing
<1>3. CallsFindTheClient'
  <2>1. at'[t] \in {"call", "offline_call"} => mqtt \notin {"none", "stopped"}
    BY
    DEF PublisherStep, EnqueueAsk, EnqueueCall, EnqueueReturn, Goes, After,
        MayEnqueue,
           TypeOK, ClientFits, DoorShut, Task
  <2> QED
    BY <2>1, PublisherFrame DEF ClientFits, CallsFindTheClient
<1> QED
  BY <1>1, <1>2, <1>3 DEF ClientFits

LEMMA ObserverClient ==
  ASSUME TypeOK, ClientFits, NEW o \in Observer, ObserverStep(o)
  PROVE  ClientFits'
BY ObserverFrame
DEF ClientFits, CountFits, InCall, Calling, CoordinatorFits, DoorShut,
    CallsFindTheClient,
    KeepsDoor, KeepsConnection, KeepsTask, KeepsCount, clientVars, appVars

LEMMA HandlerClient ==
  ASSUME TypeOK, EventsFit, ClientFits, HandlerStep
  PROVE  ClientFits'
<1>1. mqtt \notin {"none", "stopped"}
  BY HandlerFrame DEF EventsFit
<1> QED
  BY <1>1, HandlerFrame
  DEF ClientFits, CountFits, InCall, Calling, CoordinatorFits, DoorShut,
      CallsFindTheClient,
      KeepsDoor, KeepsTask, KeepsCount, appVars

LEMMA ClientClient ==
  ASSUME TypeOK, ClientFits, ClientStep
  PROVE  ClientFits'
<1>1. \/ mqtt' = mqtt
      \/ mqtt \notin {"none", "stopped"} /\ mqtt' \notin {"none", "stopped"}
  BY Zenon
  DEF ClientStep, ConnectBegins, ConnectSucceeds, ConnectFails, ConnectionLost,
     MessageSent, Acknowledged, IpGained, IpLost, Ip, clientVars
<1> QED
  BY <1>1, ClientFrame
  DEF ClientFits, CountFits, InCall, Calling, CoordinatorFits, DoorShut,
      CallsFindTheClient, taskVars

LEMMA CoordinatorClient ==
  ASSUME TypeOK, HandFits, EventsFit, ClientFits, CoordinatorGoesOn \/ CoordinatorBegins
  PROVE  ClientFits'
<1>1. CountFits' /\ CoordinatorFits' /\ DoorShut'
  BY CoordinatorKeeps DEF ClientFits
<1>2. /\ DOMAIN at = Task
      /\ ctx.publishing = 0 => at["worker"] # "call"
      /\ at["coordinator"] = "init" => at["worker"] # "call"
  BY DEF TypeOK, ClientFits, CountFits, InCall, Calling, CoordinatorFits
<1>3. \/ mqtt' = mqtt \/ mqtt' = "init" \/ ctx.publishing = 0 \/ at["coordinator"] = "init"
  BY
  DEF CoordinatorGoesOn, CoordinatorBegins, ConnectAsk, RelayInit, RelayInitFails,
      Prepare, PrepareFails, ClientStarts, ClientRefuses, StartFailed, StopBegins,
      StopSettles, OfflineAsk, OfflineCall, OfflineReturn, Forbid, ClientStops,
      ClientDestroyed, RelayCleared, WifiConnected, RetryDue, Suspend, StopMqtt,
      Snapshot,
         Coordinator, Goes, NoCall, clientVars, PublishIdle
<1>4. at'["worker"] = "call" => mqtt' \notin {"none", "stopped"}
  BY <1>2, <1>3, CoordinatorHand DEF ClientFits, CallsFindTheClient, Task
<1>5. at'["coordinator"] \in {"call", "offline_call"} => OfflineAsk
  BY <1>2
  DEF CoordinatorGoesOn, CoordinatorBegins, ConnectAsk, RelayInit, RelayInitFails,
      Prepare, PrepareFails, ClientStarts, ClientRefuses, StartFailed, StopBegins,
      StopSettles, OfflineCall, OfflineReturn, Forbid, ClientStops, ClientDestroyed,
      RelayCleared, WifiConnected, RetryDue, Suspend, StopMqtt, Snapshot,
         Coordinator, Goes, Task
<1>6. at'["coordinator"] \in {"call", "offline_call"} => mqtt' \notin {"none", "stopped"}
  BY <1>2, <1>5
  DEF OfflineAsk, Coordinator, Goes, NoCall, clientVars, ClientFits, DoorShut,
     CoordinatorFits, Task
<1>7. at'["worker"] # "offline_call"
  BY CoordinatorHand DEF ClientFits, WorkerAt, Publishing
<1> QED
  BY <1>1, <1>4, <1>6, <1>7 DEF ClientFits, CallsFindTheClient, Task

-----------------------------------------------------------------------------
(* The items.                                                              *)
Once(q) == \A i, j \in 1 .. Len(q) : q[i] = q[j] => i = j

LEMMA ElementsAppend ==
  ASSUME NEW q \in Seq(Item), NEW x \in Item
  PROVE  /\ Elements(Append(q, x)) = Elements(q) \cup {x}
         /\ Once(q) /\ x \notin Elements(q) => Once(Append(q, x))
<1>1. /\ Len(q) \in Nat /\ Len(Append(q, x)) = Len(q) + 1
      /\ Append(q, x)[Len(q) + 1] = x
      /\ \A i \in 1 .. Len(q) : Append(q, x)[i] = q[i]
  OBVIOUS
<1>2. \A i : i \in 1 .. Len(q) + 1 <=> i \in 1 .. Len(q) \/ i = Len(q) + 1
  BY <1>1
<1>3. Elements(Append(q, x)) = Elements(q) \cup {x}
  BY <1>1, <1>2 DEF Elements
<1>4. ASSUME Once(q), x \notin Elements(q)
      PROVE  Once(Append(q, x))
  <2>1. \A i \in 1 .. Len(q) : q[i] # x
    BY <1>4 DEF Elements
  <2> QED
    BY <1>1, <1>2, <1>4, <2>1 DEF Once
<1> QED
  BY <1>3, <1>4

LEMMA ElementsTail ==
  ASSUME NEW q \in Seq(Item), q # << >>
  PROVE  /\ Elements(q) = {Head(q)} \cup Elements(Tail(q))
         /\ Once(q) => Once(Tail(q)) /\ Head(q) \notin Elements(Tail(q))
<1>1. /\ Len(q) \in Nat /\ Len(q) > 0 /\ Len(Tail(q)) = Len(q) - 1 /\ Head(q) = q[1]
      /\ \A i \in 1 .. Len(q) - 1 : Tail(q)[i] = q[i + 1]
  OBVIOUS
<1>2. /\ \A i \in 1 .. Len(q) : i = 1 \/ i - 1 \in 1 .. Len(q) - 1
      /\ \A i \in 1 .. Len(q) - 1 : i + 1 \in 1 .. Len(q) /\ i + 1 # 1
      /\ 1 \in 1 .. Len(q)
  BY <1>1
<1>3. \A i \in 1 .. Len(q) : i = 1 \/ (q[i] = Tail(q)[i - 1] /\ i - 1 \in 1 .. Len(Tail(q)))
  BY <1>1, <1>2
<1>4. Elements(q) \subseteq {Head(q)} \cup Elements(Tail(q))
  BY <1>1, <1>3 DEF Elements
<1>5. {Head(q)} \cup Elements(Tail(q)) \subseteq Elements(q)
  BY <1>1, <1>2 DEF Elements
<1>6. ASSUME Once(q)
      PROVE  Once(Tail(q)) /\ Head(q) \notin Elements(Tail(q))
  <2>1. Once(Tail(q))
    <3> SUFFICES ASSUME NEW i \in 1 .. Len(Tail(q)), NEW j \in 1 .. Len(Tail(q)),
                        Tail(q)[i] = Tail(q)[j]
                 PROVE  i = j
      BY DEF Once
    <3>1. i + 1 = j + 1
      BY <1>1, <1>2, <1>6 DEF Once
    <3> QED
      BY <1>1, <3>1
  <2>2. Head(q) \notin Elements(Tail(q))
    BY <1>1, <1>2, <1>6 DEF Once, Elements
  <2> QED
    BY <2>1, <2>2
<1> QED
  BY <1>4, <1>5, <1>6

LEMMA ElementsEmpty == Elements(<< >>) = {} /\ Once(<< >>)
BY DEF Elements, Once

(* Nobody else gets or loses an item.                                      *)
LEMMA SameOwners ==
  ASSUME ItemsHaveOneOwner, UNCHANGED << queue, pending, heap, observers >>, Hand' = Hand
  PROVE  ItemsHaveOneOwner'
BY DEF ItemsHaveOneOwner, InQueue, Elements, Building, Built, Held

(* A connection ends: the queue and the pending list are freed.            *)
LEMMA FreedOwners ==
  ASSUME ItemsHaveOneOwner, FreesAll, UNCHANGED observers, Hand' = Hand
  PROVE  ItemsHaveOneOwner'
<1>1. Built' = Built /\ Building' = Building /\ \A o \in Building : Held(o)' = Held(o)
  BY DEF Built, Building, Held
<1>2. InQueue' = {} /\ Once(queue)'
  BY ElementsEmpty DEF FreesAll, InQueue, Elements, Once
<1>3. heap' = heap \ (InQueue \cup pending) /\ pending' = {}
  BY DEF FreesAll, Freed
<1> QED
  BY <1>1, <1>2, <1>3 DEF ItemsHaveOneOwner, Once

LEMMA WorkerOwners ==
  ASSUME TypeOK, HandFits, ItemsHaveOneOwner, WorkerStep
  PROVE  ItemsHaveOneOwner'
<1>1. UNCHANGED observers /\ DOMAIN message = Task /\ "worker" \in Task /\ queue \in Seq(Item)
  BY WorkerFrame DEF TypeOK, Task
<1>2. Built' = Built /\ Building' = Building /\ \A o \in Building : Held(o)' = Held(o)
  BY <1>1 DEF Built, Building, Held
<1>3. CASE DrainTakes
  <2>1. /\ queue # << >> /\ queue' = Tail(queue) /\ UNCHANGED << pending, heap >>
        /\ message'["worker"] = With("notification", Head(queue)) /\ Hand = {}
    BY <1>1, <1>3 DEF DrainTakes, Says, Worker, Goes, HandFits, Hand, Publishing
  <2>2. Hand' = {Head(queue)}
    BY <2>1 DEF Hand, IsItem, With
  <2>3. /\ InQueue = {Head(queue)} \cup InQueue' /\ Once(queue)'
        /\ Head(queue) \notin InQueue'
    BY SMTT(30), <1>1, <2>1, ElementsTail DEF InQueue, ItemsHaveOneOwner, Once, Elements
  <2> QED
    BY <1>2, <2>1, <2>2, <2>3 DEF ItemsHaveOneOwner, Once
<1>4. CASE Track \/ Discard
  <2>1. Hand = {message["worker"].item} /\ UNCHANGED queue
    BY <1>4 DEF Track, Discard, Settles, Worker, Goes, HandFits, Hand
  <2>2. Hand' = {}
    BY <1>1, <1>4 DEF Track, Discard, Settles, Says, Nothing, Plain, Hand, IsItem
  <2>3. \/ pending' = pending \cup Hand /\ heap' = heap
        \/ heap' = heap \ Hand /\ pending' = pending
    BY <1>4, <2>1 DEF Track, Discard, Settles, Freed
  <2>4. InQueue' = InQueue
    BY <2>1 DEF InQueue, Elements
  <2> QED
    BY <1>2, <2>1, <2>2, <2>3, <2>4 DEF ItemsHaveOneOwner
<1>5. CASE ~DrainTakes /\ ~Track /\ ~Discard
  <2>1. UNCHANGED << queue, pending, heap >> /\ ~IsItem(message["worker"]) /\ ~IsItem(message'["worker"])
    <3>1. UNCHANGED << queue, pending, heap >> /\ at["worker"] \notin Publishing \cup {"track", "discard"}
      BY <1>5
      DEF WorkerStep, WorkerWakes, WorkerEnds, WorkerAnnounces, WorkerCannotAnnounce,
         WorkerSkips, OutboxAsk, OutboxHolds, OutboxTimesOut, OutboxEmpty, Discover,
         DiscoveryDone, Announced, DrainStops, relayVars, Worker, Goes, Publishing
    <3>2. /\ ~IsItem(message["worker"])
          /\ \A k \in {"nothing", "online", "state", "discovery"} : ~IsItem(Plain(k))
      BY <3>1 DEF HandFits, IsItem, Plain
    <3> QED
      BY <1>1, <1>5, <3>1, <3>2
      DEF WorkerStep, WorkerWakes, WorkerEnds, WorkerAnnounces, WorkerCannotAnnounce,
         WorkerSkips, OutboxAsk, OutboxHolds, OutboxTimesOut, OutboxEmpty, Discover,
         DiscoveryDone, Announced, DrainStops, Says, Nothing
  <2> QED
    BY <1>1, <2>1, SameOwners DEF Hand
<1> QED
  BY <1>3, <1>4, <1>5
LEMMA PublisherOwners ==
  ASSUME TypeOK, CountFits, ItemsHaveOneOwner, NEW t \in Task, PublisherStep(t)
  PROVE  ItemsHaveOneOwner'
BY PublisherFrame, SameOwners DEF Hand, relayVars

LEMMA ObserverOwners ==
  ASSUME TypeOK, ItemsHaveOneOwner, NEW o \in Observer, ObserverStep(o)
  PROVE  ItemsHaveOneOwner'
<1>1. /\ Hand' = Hand /\ DOMAIN observers = Observer /\ queue \in Seq(Item)
      /\ \A p \in Building : Held(p) \in Item
  BY ObserverFrame DEF Hand, TypeOK
<1>2. ASSUME NEW from, NEW to, NEW item, Observes(o, from, to, item)
      PROVE  /\ observers[o].at = from /\ observers'[o] = [at |-> to, item |-> item]
             /\ observers'[o].at = to
             /\ \A p \in Observer : p # o => observers'[p] = observers[p]
  BY <1>1, <1>2 DEF Observes
<1>3. ASSUME NEW item \in Item, ObserveBegin(o, item)
      PROVE  ItemsHaveOneOwner'
  <2> Observes(o, "idle", "built", item)
    BY <1>3 DEF ObserveBegin
  <2>0. /\ observers[o].at = "idle" /\ observers'[o] = [at |-> "built", item |-> item]
        /\ \A p \in Observer : p # o => observers'[p] = observers[p]
    BY <1>2
  <2>1. o \notin Building /\ Building' = Building \cup {o}
    BY <2>0 DEF Building
  <2>2. Held(o)' = item /\ \A p \in Building : Held(p)' = Held(p)
    BY <2>0, <2>1 DEF Held, Building
  <2>3. Built' = Built \cup {item}
    BY <2>1, <2>2 DEF Built
  <2>4. item \notin heap /\ heap' = heap \cup {item} /\ UNCHANGED << queue, pending >>
    BY <1>3 DEF ObserveBegin, InUse
  <2>5. InQueue' = InQueue
    BY <2>4 DEF InQueue, Elements
  <2>6. \A p \in Building : Held(p) # item
    BY <2>4 DEF ItemsHaveOneOwner, Built
  <2>7. \A p, q \in Building' : Held(p)' = Held(q)' => p = q
    BY <2>1, <2>2, <2>6 DEF ItemsHaveOneOwner
  <2> QED
    BY <1>1, <2>3, <2>4, <2>5, <2>7 DEF ItemsHaveOneOwner
<1>4. ASSUME ObserveQueues(o) \/ ObserveDrops(o)
      PROVE  /\ o \in Building /\ Building' = Building \ {o} /\ Built' = Built \ {Held(o)}
             /\ \A p \in Building' : Held(p)' = Held(p)
             /\ Held(o) \in Built /\ Held(o) \notin InQueue \cup pending \cup Hand
  <2>0. /\ observers[o].at = "built" /\ observers'[o].at # "built"
        /\ \A p \in Observer : p # o => observers'[p] = observers[p]
    <3>1. CASE ObserveQueues(o)
      <4> Observes(o, "built", "notify", None)
        BY <3>1 DEF ObserveQueues
      <4>1. /\ observers[o].at = "built" /\ observers'[o].at = "notify"
            /\ \A p \in Observer : p # o => observers'[p] = observers[p]
        BY <1>2
      <4> QED
        BY <4>1
    <3>2. CASE ObserveDrops(o)
      <4> Observes(o, "built", "idle", None)
        BY <3>2 DEF ObserveDrops
      <4>1. /\ observers[o].at = "built" /\ observers'[o].at = "idle"
            /\ \A p \in Observer : p # o => observers'[p] = observers[p]
        BY <1>2
      <4> QED
        BY <4>1
    <3> QED
      BY <1>4, <3>1, <3>2
  <2>1. o \in Building /\ Building' = Building \ {o}
    BY <2>0 DEF Building
  <2>2. \A p \in Building' : Held(p)' = Held(p)
    BY <2>0, <2>1 DEF Building, Held
  <2>3. Built' = Built \ {Held(o)} /\ Held(o) \in Built
    BY <2>1, <2>2 DEF Built, ItemsHaveOneOwner
  <2> QED
    BY <2>1, <2>2, <2>3 DEF ItemsHaveOneOwner
<1>5. CASE ObserveQueues(o)
  <2>1. queue' = Append(queue, Held(o)) /\ UNCHANGED << pending, heap >>
    BY <1>5 DEF ObserveQueues
  <2>2. InQueue' = InQueue \cup {Held(o)} /\ Once(queue)'
    <3>1. Held(o) \in Item /\ Held(o) \notin Elements(queue) /\ Once(queue)
      BY <1>1, <1>4, <1>5 DEF ItemsHaveOneOwner, Once, InQueue
    <3>2. Elements(queue') = Elements(queue) \cup {Held(o)} /\ Once(queue')
      BY <1>1, <2>1, <3>1, ElementsAppend
    <3> QED
      BY <3>2 DEF InQueue, Elements, Once
  <2>3. \A p, q \in Building' : Held(p)' = Held(q)' => p = q
    BY <1>4, <1>5 DEF ItemsHaveOneOwner
  <2> QED
    BY <1>1, <1>4, <1>5, <2>1, <2>2, <2>3 DEF ItemsHaveOneOwner, Once
<1>6. CASE ObserveDrops(o)
  <2>1. heap' = heap \ {Held(o)} /\ UNCHANGED << queue, pending >>
    BY <1>6 DEF ObserveDrops, Freed
  <2>2. InQueue' = InQueue
    BY <2>1 DEF InQueue, Elements
  <2>3. \A p, q \in Building' : Held(p)' = Held(q)' => p = q
    BY <1>4, <1>6 DEF ItemsHaveOneOwner
  <2> QED
    BY <1>1, <1>4, <1>6, <2>1, <2>2, <2>3 DEF ItemsHaveOneOwner
<1>7. CASE ObserveNotify(o)
  <2> Observes(o, "notify", "idle", None)
    BY <1>7 DEF ObserveNotify
  <2>0. /\ observers[o].at = "notify" /\ observers'[o].at = "idle"
        /\ \A p \in Observer : p # o => observers'[p] = observers[p]
    BY <1>2
  <2>1. Building' = Building /\ \A p \in Building : Held(p)' = Held(p)
    BY <2>0 DEF Building, Held
  <2>2. Built' = Built /\ UNCHANGED << queue, pending, heap >>
    BY <1>7, <2>1 DEF ObserveNotify, Built, relayVars
  <2>3. InQueue' = InQueue
    BY <2>2 DEF InQueue, Elements
  <2> QED
    BY <1>1, <2>1, <2>2, <2>3 DEF ItemsHaveOneOwner
<1> QED
  BY <1>3, <1>5, <1>6, <1>7 DEF ObserverStep

LEMMA HandlerOwners ==
  ASSUME TypeOK, ItemsHaveOneOwner, HandlerStep
  PROVE  ItemsHaveOneOwner'
<1>1. UNCHANGED observers /\ Hand' = Hand
  BY HandlerFrame DEF Hand
<1>2. CASE OnPublished
  <2>1. PICK item : /\ pending' = pending \ {item} /\ heap' = heap \ (pending \cap {item})
                    /\ UNCHANGED queue
    BY <1>2 DEF OnPublished, Freed
  <2>2. /\ InQueue' = InQueue /\ Building' = Building /\ Built' = Built
        /\ \A o \in Building : Held(o)' = Held(o)
    BY <1>1, <2>1 DEF InQueue, Elements, Building, Built, Held
  <2> QED
    BY <1>1, <2>1, <2>2 DEF ItemsHaveOneOwner
<1>3. CASE OnDisconnected
  BY <1>1, <1>3, FreedOwners DEF OnDisconnected, HandleDisconnect
<1>4. CASE ~OnPublished /\ ~OnDisconnected
  <2>1. UNCHANGED << queue, pending, heap >>
    BY <1>4 DEF HandlerStep, EventTaken, EventIgnored, OnBeforeConnect, OnConnected,
       Subscribed, SubscribeFails, relayVars
  <2> QED
    BY <1>1, <2>1, SameOwners
<1> QED
  BY <1>2, <1>3, <1>4

LEMMA ClientOwners ==
  ASSUME ItemsHaveOneOwner, ClientStep
  PROVE  ItemsHaveOneOwner'
BY ClientFrame, SameOwners DEF Hand, relayVars, taskVars

LEMMA CoordinatorOwners ==
  ASSUME TypeOK, HandFits, CoordinatorFits, ItemsHaveOneOwner,
         CoordinatorGoesOn \/ CoordinatorBegins
  PROVE  ItemsHaveOneOwner'
<1>1. Hand' = Hand
  BY CoordinatorHand DEF Hand
<1>2. UNCHANGED observers /\ (FreesAll \/ UNCHANGED << queue, pending, heap >>)
  BY DEF CoordinatorGoesOn, CoordinatorBegins, ConnectAsk, RelayInit, RelayInitFails,
     Prepare, PrepareFails, ClientStarts, ClientRefuses, StartFailed, StopBegins,
     StopSettles, OfflineAsk, OfflineCall, OfflineReturn, Forbid, ClientStops,
     ClientDestroyed, RelayCleared, WifiConnected, RetryDue, Suspend, StopMqtt, Snapshot,
     Coordinator, HandleDisconnect, relayVars
<1> QED
  BY <1>1, <1>2, SameOwners, FreedOwners


-----------------------------------------------------------------------------
(***************************************************************************)
(* A client that waits has no connection, and nothing is queued or         *)
(* unacknowledged: the end of every connection is handled, for the relay   *)
(* takes the events of a client it has, and nothing is taken in without a  *)
(* connection.                                                             *)
(***************************************************************************)
LEMMA WorkerOffline ==
  ASSUME TypeOK, OfflineIsEmpty, WorkerStep
  PROVE  OfflineIsEmpty'
<1>1. SUFFICES ASSUME mqtt = "waiting", events = << >>
               PROVE  ~ctx'.connected /\ queue' = << >> /\ pending' = {}
  BY WorkerFrame DEF OfflineIsEmpty, clientVars
<1>2. ~ctx.connected /\ queue = << >> /\ pending = {}
  BY <1>1 DEF OfflineIsEmpty
<1>3. ~ctx'.connected
  BY <1>2, WorkerFrame DEF KeepsConnection
<1>4. queue' = queue /\ pending' = pending
  BY <1>2
  DEF WorkerStep, WorkerWakes, WorkerEnds, WorkerAnnounces, WorkerCannotAnnounce,
     WorkerSkips, OutboxAsk, OutboxHolds, OutboxTimesOut, OutboxEmpty, Discover,
     DiscoveryDone, Announced, DrainStops, DrainTakes, Track, Discard, Settles, Tracks,
     relayVars
<1> QED
  BY <1>2, <1>3, <1>4

LEMMA PublisherOffline ==
  ASSUME TypeOK, CountFits, OfflineIsEmpty, NEW t \in Task, PublisherStep(t)
  PROVE  OfflineIsEmpty'
BY PublisherFrame DEF OfflineIsEmpty, KeepsConnection, relayVars

LEMMA ObserverOffline ==
  ASSUME TypeOK, OfflineIsEmpty, NEW o \in Observer, ObserverStep(o)
  PROVE  OfflineIsEmpty'
<1>1. SUFFICES ASSUME mqtt = "waiting", events = << >>
               PROVE  ~ctx'.connected /\ queue' = << >> /\ pending' = {}
  BY ObserverFrame DEF OfflineIsEmpty, clientVars
<1>2. ~ctx.connected /\ queue = << >> /\ pending = {}
  BY <1>1 DEF OfflineIsEmpty
<1>3. ~ctx'.connected
  BY <1>2, ObserverFrame DEF KeepsConnection
<1>4. queue' = queue /\ pending' = pending
  BY <1>2 DEF ObserverStep, ObserveBegin, ObserveQueues, ObserveDrops, ObserveNotify,
     AcceptsAgain, Accepts, Publishes, relayVars
<1> QED
  BY <1>2, <1>3, <1>4

LEMMA HandlerOffline ==
  ASSUME TypeOK, EventsFit, CoordinatorFits, OfflineIsEmpty, HandlerStep
  PROVE  OfflineIsEmpty'
<1>1. SUFFICES ASSUME mqtt = "waiting", events' = << >>
               PROVE  ~ctx'.connected /\ queue' = << >> /\ pending' = {}
  BY HandlerFrame DEF OfflineIsEmpty
<1>2. Kind \in {"disconnected", "error"}
  <2>1. events # << >> /\ events \in Lost \cup {<< >>, << Plain("disconnected") >>}
    BY <1>1, HandlerFrame DEF EventsFit
  <2>2. \/ events = << Plain("disconnected") >>
        \/ events = << Plain("error"), Plain("disconnected") >>
    BY <2>1 DEF Lost
  <2> QED
    BY <2>2, Lists DEF Kind, Plain
<1>3. ctx.client /\ ctx.accepting
  BY <1>1 DEF CoordinatorFits
<1>4. OnDisconnected
  BY <1>1, <1>2, <1>3, HandlerFrame
  DEF HandlerStep, EventTaken, EventIgnored, OnBeforeConnect,
     OnConnected, Subscribed, SubscribeFails, OnPublished, Handles, IsCurrent, EventsFit
<1> QED
  BY <1>4
  DEF OnDisconnected, HandleDisconnect, Disconnected, FreesAll, TypeOK, Context

LEMMA ClientOffline ==
  ASSUME TypeOK, OfflineIsEmpty, ClientStep
  PROVE  OfflineIsEmpty'
<1>1. mqtt' = "waiting" /\ events' = << >> => mqtt = "waiting" /\ events = << >>
  <2>1. Lost \cap {<< >>} = {}
    BY Lists DEF Lost
  <2> QED
    BY <2>1, Lists DEF ClientStep, ConnectBegins, ConnectSucceeds, ConnectFails,
       ConnectionLost, MessageSent, Acknowledged, IpGained, IpLost, Ip, clientVars
<1> QED
  BY <1>1, ClientFrame DEF OfflineIsEmpty, relayVars

LEMMA CoordinatorOffline ==
  ASSUME TypeOK, EventsFit, CoordinatorFits, OfflineIsEmpty,
         CoordinatorGoesOn \/ CoordinatorBegins
  PROVE  OfflineIsEmpty'
<1>1. /\ mqtt' = "waiting" => mqtt = "waiting"
      /\ UNCHANGED events
      /\ FreesAll \/ UNCHANGED << queue, pending, heap >>
  BY DEF CoordinatorGoesOn, CoordinatorBegins, ConnectAsk, RelayInit, RelayInitFails,
     Prepare, PrepareFails, ClientStarts, ClientRefuses, StartFailed, StopBegins,
     StopSettles, OfflineAsk, OfflineCall, OfflineReturn, Forbid, ClientStops,
     ClientDestroyed, RelayCleared, WifiConnected, RetryDue, Suspend, StopMqtt, Snapshot,
     HandleDisconnect, relayVars, NoCall, clientVars
<1>2. ~ctx.connected => ~ctx'.connected
  <2> SUFFICES ASSUME ~ctx.connected PROVE ~ctx'.connected
    OBVIOUS
  <2>1. ctx \in Context
    BY DEF TypeOK
  <2>2. CASE RelayInit
    BY <2>1, <2>2 DEF RelayInit, Context
  <2>3. CASE RelayInitFails
    BY <2>1, <2>3 DEF RelayInitFails, Cleared, Context
  <2>4. CASE Prepare
    BY <2>1, <2>4 DEF Prepare, Context
  <2>5. CASE PrepareFails
    BY <2>1, <2>5 DEF PrepareFails, Context
  <2>6. CASE ClientRefuses
    BY <2>1, <2>6 DEF ClientRefuses, Context
  <2>7. CASE StopBegins
    BY <2>1, <2>7 DEF StopBegins, HandleDisconnect, Disconnected, Context
  <2>8. CASE OfflineAsk
    BY <2>1, <2>8 DEF OfflineAsk, Context
  <2>9. CASE OfflineReturn
    BY <2>1, <2>9 DEF OfflineReturn, Published, Context
  <2>10. CASE Forbid
    BY <2>1, <2>10 DEF Forbid, Context
  <2>11. CASE ClientDestroyed
    BY <2>1, <2>11 DEF ClientDestroyed, Context
  <2>12. CASE RelayCleared
    BY <2>1, <2>12 DEF RelayCleared, Cleared, Context
  <2>13. CASE WifiConnected
    BY <2>1, <2>13 DEF WifiConnected, Context
  <2>14. CASE Suspend
    BY <2>1, <2>14 DEF Suspend, Context
  <2>15. CASE StopMqtt
    BY <2>1, <2>15 DEF StopMqtt, Context
  <2> QED
    BY <2>2, <2>3, <2>4, <2>5, <2>6, <2>7, <2>8, <2>9, <2>10, <2>11, <2>12, <2>13,
       <2>14, <2>15
    DEF CoordinatorGoesOn, CoordinatorBegins, ConnectAsk, ClientStarts, StartFailed,
        StopSettles, OfflineCall, ClientStops, RetryDue, Snapshot
<1> QED
  BY <1>1, <1>2 DEF OfflineIsEmpty, FreesAll

-----------------------------------------------------------------------------
LEMMA InitIInv == Init => IInv
<1> SUFFICES ASSUME Init PROVE IInv
  OBVIOUS
<1>1. /\ ctx = Cleared /\ queue = << >> /\ pending = {} /\ heap = {} /\ mqtt = "none"
      /\ outbox = << >> /\ unacked = {} /\ events = << >> /\ handling = "check"
      /\ at = [t \in Task |-> IF t = "worker" THEN "gone" ELSE "idle"]
      /\ message = [t \in Task |-> Nothing] /\ notified = FALSE
      /\ observers = [o \in Observer |-> [at |-> "idle", item |-> None]]
      /\ app = [initialized |-> FALSE, started |-> FALSE, wifi |-> FALSE]
      /\ has_ip = FALSE /\ availability = "offline"
  BY DEF Init
<1>2. /\ at["worker"] = "gone" /\ at["coordinator"] = "idle" /\ DOMAIN at = Task
      /\ message["worker"] = Nothing /\ message["coordinator"] = Nothing
      /\ DOMAIN message = Task
  BY <1>1 DEF Task
<1>3. Nothing \in Statement /\ ~IsItem(Nothing)
  BY DEF Nothing, Plain, Statement, IsItem
<1>4. Building = {}
  BY <1>1 DEF Building
<1>5. TypeOK
  <2>1. ctx \in Context /\ queue \in Seq(Item) /\ Len(queue) <= QueueCapacity
    BY <1>1, ClearedType, EmptyQueue
  <2>2. outbox \in Seq(Message) /\ events \in Seq(Report)
    BY <1>1
  <2>3. /\ pending \subseteq Item /\ heap \subseteq Item /\ unacked \subseteq Item
        /\ notified \in BOOLEAN /\ has_ip \in BOOLEAN
    BY <1>1
  <2>4. observers \in [Observer -> [at : {"idle", "built", "notify"}, item : Item \cup {None}]]
    BY <1>1
  <2>5. /\ at["worker"] \in WorkerAt /\ at["coordinator"] \in CoordinatorAt
        /\ message["worker"] \in Message /\ message["coordinator"] \in Statement
    BY <1>2, <1>3 DEF WorkerAt, CoordinatorAt, Message
  <2>6. /\ app \in [initialized : BOOLEAN, started : BOOLEAN, wifi : BOOLEAN]
        /\ mqtt \in {"none", "stopped", "init", "connecting", "online", "waiting"}
        /\ handling \in {"check", "apply", "subscribe"}
        /\ availability \in {"online", "offline"}
    BY <1>1
  <2> QED
    BY <1>2, <1>4, <2>1, <2>2, <2>3, <2>4, <2>5, <2>6 DEF TypeOK
<1>6. EventsFit /\ OfflineIsEmpty
  BY <1>1 DEF EventsFit, OfflineIsEmpty
<1>7. HandFits
  BY <1>2, <1>3 DEF HandFits
<1>8. CountFits /\ CoordinatorFits /\ DoorShut /\ CallsFindTheClient
  BY <1>1, <1>2
  DEF CountFits, InCall, Calling, CoordinatorFits, DoorShut, CallsFindTheClient,
     Cleared, Task, Publishing
<1>9. ItemsHaveOneOwner
  <2>1. Hand = {} /\ Built = {} /\ InQueue = {} /\ Once(queue)
    BY <1>1, <1>2, <1>3, <1>4, ElementsEmpty DEF Hand, Built, InQueue
  <2> QED
    BY <1>1, <1>4, <2>1 DEF ItemsHaveOneOwner, Once
<1> QED
  BY <1>5, <1>6, <1>7, <1>8, <1>9 DEF IInv

LEMMA StepIInv == IInv /\ [Next]_vars => IInv'
<1> SUFFICES ASSUME IInv, [Next]_vars PROVE IInv'
  OBVIOUS
<1> USE DEF IInv
<1>1. ClientFits
  BY DEF ClientFits
<1>2. ASSUME UNCHANGED << mqtt, events, handling >>
      PROVE  EventsFit'
  BY <1>2 DEF EventsFit, Kind
<1>3. CASE WorkerStep
  <2>1. EventsFit'
    BY <1>2, <1>3, WorkerFrame DEF clientVars
  <2> QED
    BY <1>1, <1>3, <2>1, WorkerTypes, WorkerHand, WorkerClient, WorkerOwners,
       WorkerOffline
    DEF ClientFits
<1>4. ASSUME NEW t \in Task, PublisherStep(t)
      PROVE  IInv'
  <2>1. EventsFit'
    BY <1>2, <1>4, PublisherFrame
  <2> QED
    BY <1>1, <1>4, <2>1, PublisherTypes, PublisherHand, PublisherClient,
       PublisherOwners,
       PublisherOffline
    DEF ClientFits
<1>5. ASSUME NEW o \in Observer, ObserverStep(o)
      PROVE  IInv'
  <2>1. EventsFit' /\ HandFits'
    BY <1>2, <1>5, ObserverFrame DEF clientVars, HandFits
  <2> QED
    BY <1>1, <1>5, <2>1, ObserverTypes, ObserverClient, ObserverOwners,
       ObserverOffline
    DEF ClientFits
<1>6. CASE HandlerStep
  <2>1. HandFits'
    BY <1>6, HandlerFrame DEF HandFits
  <2> QED
    BY <1>1, <1>6, <2>1, HandlerTypes, HandlerEvents, HandlerClient, HandlerOwners,
       HandlerOffline
    DEF ClientFits
<1>7. CASE ClientStep
  <2>1. HandFits'
    BY <1>7, ClientFrame DEF HandFits, taskVars
  <2> QED
    BY <1>1, <1>7, <2>1, ClientTypes, ClientEvents, ClientClient, ClientOwners,
       ClientOffline
    DEF ClientFits
<1>8. CASE CoordinatorGoesOn \/ CoordinatorBegins
  BY <1>1, <1>8, CoordinatorTypes, CoordinatorHand, CoordinatorEvents,
     CoordinatorClient,
     CoordinatorOwners, CoordinatorOffline
  DEF ClientFits
<1>9. CASE UNCHANGED vars
  <2>1. Hand' = Hand /\ UNCHANGED << queue, pending, heap, observers >>
    BY <1>9 DEF vars, relayVars, taskVars, Hand
  <2>2. ItemsHaveOneOwner'
    BY <2>1, SameOwners
  <2>3. TypeOK'
    BY <1>9 DEF vars, relayVars, clientVars, taskVars, appVars, TypeOK, Building, Held
  <2>4. EventsFit' /\ HandFits' /\ OfflineIsEmpty'
    BY <1>2, <1>9 DEF vars, relayVars, clientVars, taskVars, HandFits, OfflineIsEmpty
  <2>5. CountFits' /\ CoordinatorFits' /\ DoorShut' /\ CallsFindTheClient'
    BY <1>9 DEF vars, clientVars, taskVars, appVars, CountFits, InCall, Calling,
       CoordinatorFits, DoorShut, CallsFindTheClient
  <2> QED
    BY <2>2, <2>3, <2>4, <2>5
<1> QED
  BY <1>3, <1>4, <1>5, <1>6, <1>7, <1>8, <1>9 DEF Next

-----------------------------------------------------------------------------
LEMMA Inductive == Spec => []IInv
BY InitIInv, StepIInv, PTL DEF Spec

(* Every variable of the relay and of its client keeps its type: at most   *)
(* two publications are in flight, the queue stays within its capacity.    *)
THEOREM TypeCorrect == Spec => []TypeOK
<1>1. IInv => TypeOK
  BY DEF IInv
<1> QED
  BY <1>1, Inductive, PTL

(* mqtt_relay_free_item is called once for every item, for any number of   *)
(* observers, any capacity and any end of a connection: an item is always  *)
(* in exactly one place until it is freed, and none is forgotten.          *)
THEOREM OneOwner == Spec => []ItemsHaveOneOwner
<1>1. IInv => ItemsHaveOneOwner
  BY DEF IInv
<1> QED
  BY <1>1, Inductive, PTL

(* mqtt_relay_handle_disconnect_locked leaves nothing to be sent or        *)
(* acknowledged, and nothing gets in again before the next connection.     *)
THEOREM OfflineEmpty == Spec => []OfflineHoldsNothing
<1>1. IInv => OfflineHoldsNothing
  BY DEF IInv, OfflineIsEmpty, OfflineHoldsNothing
<1> QED
  BY <1>1, Inductive, PTL

(* The two waits of mqtt_relay_stop and mqtt_relay_deinit are enough: a    *)
(* publishing call finds a client that is neither stopped nor destroyed.   *)
THEOREM CallsFind == Spec => []CallsFindTheClient
<1>1. IInv => CallsFindTheClient
  BY DEF IInv
<1> QED
  BY <1>1, Inductive, PTL
=============================================================================
