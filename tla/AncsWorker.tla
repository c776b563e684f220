----------------------------- MODULE AncsWorker ----------------------------
(***************************************************************************)
(* The ancs_worker task of components/ancs_client/ancs_client.c and the    *)
(* work queue that feeds it.  The BTC task (the Bluetooth callbacks) turns *)
(* notifications of the phone into work items tagged with the generation   *)
(* of the connection; the worker asks the phone for the attributes of one  *)
(* event at a time, gathers the fragments of the answer, asks for the      *)
(* app's name where it does not know it, and publishes the result.         *)
(*                                                                         *)
(* The link is reduced to what the worker reads of it (connected, ready,   *)
(* generation, session_id); AncsLink models it in full.  A notification is *)
(* its uid and its event id, an answer the write response and the two      *)
(* fragments that carry it.                                                *)
(* Time is abstracted: a deadline may be found passed at any look at it,   *)
(* and "within the duplicate window" is a choice.                          *)
(***************************************************************************)
EXTENDS EventRing, FiniteSets, TLC, SequencesExt

CONSTANTS
  Uid,             \* notification uids
  EventId,         \* the event ids the phone uses
  App,             \* app ids
  AppOf,           \* [Uid -> App]: the app that posted a notification
  WorkCapacity,    \* CONFIG_ANCS_WORK_QUEUE_LENGTH
  CacheCapacity,   \* CONFIG_ANCS_CACHE_CAPACITY
  ResolverCapacity,\* CONFIG_ANCS_APP_CACHE_CAPACITY
  None,            \* no request, item, event or notification
  MaxGeneration,   \* bound: generations a behaviour reaches
  MaxArrivals      \* bound: events the phone sends in a behaviour

ADDED == 0
MODIFIED == 1
REMOVED == 2

ASSUME WorkerAssumption ==
  /\ EventId \subseteq {ADDED, MODIFIED, REMOVED}
  /\ AppOf \in [Uid -> App]
  /\ {WorkCapacity, CacheCapacity, ResolverCapacity} \subseteq Nat \ {0}
  /\ {MaxGeneration, MaxArrivals} \subseteq Nat

Event == [uid: Uid, id: EventId]

VARIABLES
  \* s_client, as far as the worker reads it
  link,            \* "down", "preparing", "ready", "recovering"
  generation,
  session_id,
  \* between the BTC task and the worker
  work,            \* the FreeRTOS queue of work items
  answers,         \* what the phone has still to send on this connection
  \* s_worker
  at,              \* where the loop of worker_task stands
  held,            \* the item received and not yet processed
  worker_generation,
  pending,         \* the ring of events that wait for their request
  active,          \* the request in flight, or None
  app_resolver,    \* app ids whose name is known, least recently used first
  cache,           \* [session, uid] of cached notifications, oldest first
  last_event,
  \* the sink, and history for the properties
  sink,            \* what this turn of the loop published last
  gone,            \* uids whose removal was published, with no event since
  disturbed,       \* on this connection a fragment was lost or came too late
  arrivals         \* how many events the phone has sent

linkVars   == << link, generation, session_id >>
queueVars  == << work, answers >>
workerVars == << at, held, worker_generation, pending, active,
                 app_resolver, cache, last_event >>
history    == << sink, gone, disturbed, arrivals >>
vars == << linkVars, queueVars, workerVars, history >>

-----------------------------------------------------------------------------
(***************************************************************************)
(* Work items.  xQueueSend with no wait: a full queue drops the item.      *)
(***************************************************************************)
Reset(g)       == [type |-> "reset", generation |-> g]
EventItem(e)   == [type |-> "event", generation |-> generation, event |-> e]
Fragment(f)    == [type |-> "fragment", generation |-> generation, fragment |-> f]
WriteResult(ok) == [type |-> "write_result", generation |-> generation, ok |-> ok]

(* Faulty variant: no reset is posted, the loop checks the generation.     *)
EnqueuedButReset(item) ==
  IF Len(work) < WorkCapacity /\ item.type # "reset" THEN Append(work, item)
  ELSE work

Enqueued(item) == IF Len(work) < WorkCapacity THEN Append(work, item) ELSE work

(***************************************************************************)
(* Requests and answers.  A request is for a notification's attributes or  *)
(* for an app's name.  The phone responds to the write, then sends a head  *)
(* fragment, which names what was asked for, and a tail; the parser has    *)
(* met nothing of them, or the head.                                       *)
(***************************************************************************)
Subject(request) == IF request.kind = "notification" THEN request.event.uid
                    ELSE AppOf[request.event.uid]

Answer(request) ==
  << [of |-> Subject(request), part |-> "response"],
     [of |-> Subject(request), part |-> "head"],
     [of |-> Subject(request), part |-> "tail"] >>

NewRequest(event) ==
  [event |-> event, kind |-> "notification", attempt |-> 0, canceled |-> FALSE,
   session |-> session_id, parser |-> "fresh"]

(* ancs_notification_init and the parser's init, as a request is written.  *)
Prepared(request) ==
  [request EXCEPT !.parser = "fresh",
     !.session = IF request.kind = "notification" THEN session_id ELSE @]

(* Faulty variant: a retry is not counted.                                 *)
AttemptKept(request) == request

NextAttempt(request) == [request EXCEPT !.attempt = @ + 1]

(* Faulty variants: a removed uid's request goes on, or ends before its    *)
(* answer is in.                                                           *)
CanceledNever(request, uid) == request
CanceledAtOnce(request, uid) ==
  IF request # None /\ request.event.uid = uid THEN None ELSE request

(* The request in flight after the removal of uid.                         *)
Canceled(request, uid) ==
  IF request # None /\ request.event.uid = uid
  THEN [request EXCEPT !.canceled = TRUE] ELSE request

(* ancs_data_parser_feed and ancs_app_data_parser_feed: a fresh parser     *)
(* wants the header of its own request.  A started one takes the next      *)
(* bytes for the rest: when they belong to another answer it may fail on   *)
(* them or swallow them.                                                   *)
InStep(request, f) ==
  /\ f.of = Subject(request)
  /\ f.part = IF request.parser = "fresh" THEN "head" ELSE "tail"

ParseResults(request, f) ==
  IF request.parser = "fresh"
  THEN {IF InStep(request, f) THEN "more" ELSE "error"}
  ELSE IF InStep(request, f) THEN {"complete"} ELSE {"complete", "error"}

(***************************************************************************)
(* Least-recently-used stores: the app resolver and the notification cache.*)
(***************************************************************************)
(* Faulty variant: a store's old entry stays.                              *)
DropNothing(store, key) == store

(* The entry that the search from the start of the store finds is freed.   *)
Drop(store, key) ==
  IF Contains(store, key)
  THEN RemoveAt(store, CHOOSE i \in 1 .. Len(store) : store[i] = key)
  ELSE store

Touch(store, key, capacity) ==
  LET others == Drop(store, key)
  IN  IF Len(others) < capacity THEN Append(others, key)
      ELSE Append(Tail(others), key)

CacheKey(session, uid) == [session |-> session, uid |-> uid]

(***************************************************************************)
(* What the sink receives.                                                 *)
(***************************************************************************)
Complete(uid) == [type |-> "complete", uid |-> uid]
Failed(uid)   == [type |-> "failed", uid |-> uid]
Removed(uid)  == [type |-> "removed", uid |-> uid]

-----------------------------------------------------------------------------
Init ==
  /\ link = "down" /\ generation = 0 /\ session_id = 0
  /\ work = << >> /\ answers = << >>
  /\ at = "top" /\ held = None /\ worker_generation = 0
  /\ pending = EmptyRing /\ active = None
  /\ app_resolver = << >> /\ cache = << >> /\ last_event = None
  /\ sink = None /\ gone = {} /\ disturbed = FALSE /\ arrivals = 0

-----------------------------------------------------------------------------
(***************************************************************************)
(* The BTC task.  Its handlers of the connection, as far as the worker     *)
(* notices them.                                                           *)
(***************************************************************************)
Connect ==
  /\ link = "down" /\ generation < MaxGeneration
  /\ link' = "preparing" /\ generation' = generation + 1
  /\ UNCHANGED << session_id, queueVars, workerVars, history >>

BecomeReady ==
  /\ link = "preparing"
  /\ link' = "ready" /\ session_id' = session_id + 1
  /\ UNCHANGED << generation, queueVars, workerVars, history >>

(* The stack drops what the phone had still to send on this connection.    *)
Disconnect ==
  /\ link # "down" /\ generation < MaxGeneration
  /\ link' = "down" /\ generation' = generation + 1
  /\ work' = Enqueued(Reset(generation'))
  /\ answers' = << >> /\ disturbed' = FALSE
  /\ UNCHANGED << session_id, workerVars, sink, gone, arrivals >>

(* The connection stays, so answers to old requests may still come.        *)
ServiceChanged ==
  /\ link # "down" /\ generation < MaxGeneration
  /\ link' = "preparing" /\ generation' = generation + 1
  /\ work' = Enqueued(Reset(generation'))
  /\ disturbed' = (answers # << >>)
  /\ UNCHANGED << session_id, answers, workerVars, sink, gone, arrivals >>

(* ESP_GATTC_NOTIFY_EVT of the Notification Source.                        *)
NotificationSource(event) ==
  /\ link # "down" /\ arrivals < MaxArrivals
  /\ arrivals' = arrivals + 1
  /\ work' = Enqueued(EventItem(event))
  /\ UNCHANGED << linkVars, answers, workerVars, sink, gone, disturbed >>

(* What the phone sends next.  Its event is dropped when its handle was    *)
(* forgotten, the queue is full or there is no memory for a copy.          *)
Sends(part) == link # "down" /\ answers # << >> /\ Head(answers).part \in part

(* ESP_GATTC_NOTIFY_EVT of the Data Source.                                *)
DataSource ==
  /\ Sends({"head", "tail"})
  /\ answers' = Tail(answers)
  /\ work' \in {Enqueued(Fragment(Head(answers))), work}
  /\ disturbed' = (disturbed \/ work' = work)
  /\ UNCHANGED << linkVars, workerVars, sink, gone, arrivals >>

(* ESP_GATTC_WRITE_CHAR_EVT of the Control Point.  A request the phone     *)
(* refuses gets no fragments.                                              *)
ControlPoint(ok) ==
  /\ Sends({"response"})
  /\ answers' = IF ok THEN Tail(answers) ELSE SubSeq(answers, 4, Len(answers))
  /\ work' \in {Enqueued(WriteResult(ok)), work}
  /\ UNCHANGED << linkVars, workerVars, history >>

-----------------------------------------------------------------------------
(***************************************************************************)
(* The pieces of the worker's handlers.  Each says what becomes of         *)
(* active, answers, sink, cache and link.                                  *)
(***************************************************************************)
(* The check of write_active_control_request under the lock.               *)
ConnectionValid == link = "ready" /\ generation = worker_generation

(* recover_data_stream: the session is over, a disconnect is requested.    *)
Recovered(l) == IF l = "ready" THEN "recovering" ELSE l

Abandon == active' = None /\ UNCHANGED << answers, sink, cache, link >>

Send(request) ==
  /\ ConnectionValid
  /\ active' = Prepared(request)
  /\ answers' = answers \o Answer(request)
  /\ UNCHANGED << sink, cache, link >>

Finalize(request) ==
  /\ active' = None
  /\ sink' = Complete(request.event.uid)
  /\ cache' = Touch(cache, CacheKey(request.session, request.event.uid),
                    CacheCapacity)
  /\ UNCHANGED answers

Fail(request) ==
  /\ active' = None
  /\ sink' = Failed(request.event.uid)
  /\ link' = Recovered(link)
  /\ UNCHANGED << answers, cache >>

(* The end of retry_or_finish_active: an app without a name is published   *)
(* by its id, a notification without attributes as failed.                 *)
GiveUp(request, recover_stream) ==
  \/ /\ request.kind = "app"
     /\ Finalize(request)
     /\ link' = IF recover_stream THEN Recovered(link) ELSE link
  \/ request.kind = "notification" /\ Fail(request)

(* retry_or_finish_active: one more attempt, which the GATT layer may      *)
(* refuse.                                                                 *)
RetryOrFinish(request, recover_stream) ==
  LET again == NextAttempt(request)
  IN  \/ link # "ready" /\ Abandon
      \/ link = "ready" /\ request.attempt >= 1 /\ GiveUp(request, recover_stream)
      \/ /\ link = "ready" /\ request.attempt < 1
         /\ \/ Send(again)
            \/ ~ConnectionValid /\ Abandon
            \/ ConnectionValid /\ GiveUp(Prepared(again), recover_stream)

(* A first write: of start_next_request and of begin_app_name_resolution.  *)
(* When the GATT layer refuses it, retry_or_finish_active writes again.    *)
FirstWrite(request) ==
  \/ Send(request)
  \/ ~ConnectionValid /\ Abandon
  \/ ConnectionValid /\ RetryOrFinish(Prepared(request), FALSE)

(* finish_canceled_request.                                                *)
FinishCanceled == Abandon

-----------------------------------------------------------------------------
(***************************************************************************)
(* The loop of worker_task.                                                *)
(***************************************************************************)
ResetSession(g) ==
  /\ worker_generation' = g
  /\ pending' = EmptyRing
  /\ active' = None
  /\ app_resolver' = << >>
  /\ cache' = << >>
  /\ last_event' = None

CheckGeneration ==
  /\ at = "top" /\ at' = "receive"
  /\ IF worker_generation # generation THEN ResetSession(generation)
     ELSE UNCHANGED << worker_generation, pending, active, app_resolver,
                       cache, last_event >>
  /\ sink' = None
  /\ UNCHANGED << linkVars, queueVars, held, gone, disturbed, arrivals >>

IsCurrent(item) == item.generation = generation

(* xQueueReceive, and the check of the item's generation.                  *)
Receive ==
  /\ at = "receive" /\ work # << >>
  /\ work' = Tail(work)
  /\ IF IsCurrent(Head(work))
     THEN at' = "process" /\ held' = Head(work)
     ELSE at' = "top" /\ UNCHANGED held
  /\ UNCHANGED << linkVars, answers, worker_generation, pending, active,
                  app_resolver, cache, last_event, history >>

(* xQueueReceive returns with nothing after its 50 ms.                     *)
ReceiveNothing ==
  /\ at = "receive" /\ work = << >>
  /\ at' = "deadline"
  /\ UNCHANGED << linkVars, queueVars, held, worker_generation, pending,
                  active, app_resolver, cache, last_event, history >>

Processed == at = "process" /\ at' = "deadline" /\ held' = None

(* duplicate_event: the same event again, within the window.               *)
ProcessDuplicate ==
  /\ Processed /\ held.type = "event" /\ held.event = last_event
  /\ UNCHANGED << linkVars, queueVars, worker_generation, pending, active,
                  app_resolver, cache, last_event, history >>

ProcessRemoved ==
  /\ Processed /\ held.type = "event" /\ held.event.id = REMOVED
  /\ LET uid == held.event.uid
     IN  /\ pending' = CancelUid(pending, uid)
         /\ active' = Canceled(active, uid)
         /\ sink' = Removed(uid)
         /\ cache' = Drop(cache, CacheKey(session_id, uid))
         /\ gone' = gone \cup {uid}
  /\ last_event' = held.event
  /\ UNCHANGED << linkVars, queueVars, worker_generation, app_resolver, disturbed, arrivals >>

ProcessPosted ==
  /\ Processed /\ held.type = "event" /\ held.event.id # REMOVED
  /\ last_event' = held.event
  /\ gone' = gone \ {held.event.uid}
  /\ IF IsFull(pending)
     THEN sink' = Failed(held.event.uid) /\ UNCHANGED pending
     ELSE pending' = Push(pending, held.event) /\ UNCHANGED sink
  /\ UNCHANGED << linkVars, queueVars, worker_generation, active,
                  app_resolver, cache, disturbed, arrivals >>

-----------------------------------------------------------------------------
(* begin_app_name_resolution, once the notification's own attributes are   *)
(* in; the app id may also be one the resolver refuses.                    *)
BeginAppName(request) ==
  LET app == AppOf[request.event.uid]
  IN  \/ /\ Contains(app_resolver, app)
         /\ app_resolver' = Touch(app_resolver, app, ResolverCapacity)
         /\ Finalize(request) /\ UNCHANGED link
      \/ /\ ~Contains(app_resolver, app)
         /\ FirstWrite([request EXCEPT !.kind = "app", !.attempt = 0])
         /\ UNCHANGED app_resolver

(* complete_app_name_resolution: a name that is empty or was cut is used   *)
(* this once and not remembered.                                           *)
CompleteAppName(request) ==
  /\ app_resolver' \in
       {app_resolver,
        Touch(app_resolver, AppOf[request.event.uid], ResolverCapacity)}
  /\ Finalize(request) /\ UNCHANGED link

FragmentCompletes(request) ==
  \/ request.canceled /\ FinishCanceled /\ UNCHANGED app_resolver
  \/ /\ ~request.canceled /\ request.kind = "notification"
     /\ BeginAppName(request)
  \/ ~request.canceled /\ request.kind = "app" /\ CompleteAppName(request)

FragmentBreaks(request) ==
  /\ \/ request.canceled /\ FinishCanceled
     \/ ~request.canceled /\ RetryOrFinish(request, TRUE)
  /\ UNCHANGED app_resolver

ProcessFragment ==
  /\ Processed /\ held.type = "fragment"
  /\ UNCHANGED << generation, session_id, work, worker_generation, pending,
                  last_event, gone, disturbed, arrivals >>
  /\ IF active = None
     THEN UNCHANGED << link, answers, active, app_resolver, cache, sink >>
     ELSE LET f == held.fragment
          IN  \E result \in ParseResults(active, f) :
                \/ /\ result = "more"
                   /\ active' = [active EXCEPT !.parser = "started"]
                   /\ UNCHANGED << link, answers, app_resolver, cache, sink >>
                \/ result = "complete" /\ FragmentCompletes(active)
                \/ result = "error" /\ FragmentBreaks(active)

ProcessWriteResult ==
  /\ Processed /\ held.type = "write_result"
  /\ \/ ~held.ok /\ active # None /\ active.canceled /\ FinishCanceled
     \/ ~held.ok /\ active # None /\ ~active.canceled /\ RetryOrFinish(active, FALSE)
     \/ (held.ok \/ active = None) /\ UNCHANGED << active, answers, sink, cache, link >>
  /\ UNCHANGED << generation, session_id, work, worker_generation, pending,
                  app_resolver, last_event, gone, disturbed, arrivals >>

ProcessReset ==
  /\ Processed /\ held.type = "reset"
  /\ ResetSession(held.generation)
  /\ UNCHANGED << linkVars, queueVars, history >>

(* The request's deadline has passed.                                      *)
Timeout ==
  /\ at = "deadline" /\ at' = "next"
  /\ active # None
  /\ disturbed' = TRUE
  /\ \/ /\ active.canceled
        /\ active' = None
        /\ link' = Recovered(link)
        /\ UNCHANGED << answers, sink, cache >>
     \/ ~active.canceled /\ RetryOrFinish(active, TRUE)
  /\ UNCHANGED << generation, session_id, work, held, worker_generation,
                  pending, app_resolver, last_event, gone, arrivals >>

InTime ==
  /\ at = "deadline" /\ at' = "next"
  /\ UNCHANGED << linkVars, queueVars, held, worker_generation, pending,
                  active, app_resolver, cache, last_event, history >>

StartNextRequest ==
  /\ at = "next" /\ at' = "top"
  /\ IF active = None /\ link = "ready" /\ ~IsEmpty(pending)
     THEN /\ pending' = Pop(pending)
          /\ FirstWrite(NewRequest(Oldest(pending)))
     ELSE UNCHANGED << pending, active, answers, sink, cache, link >>
  /\ UNCHANGED << generation, session_id, work, held, worker_generation,
                  app_resolver, last_event, gone, disturbed, arrivals >>

-----------------------------------------------------------------------------
Environment ==
  \/ Connect \/ BecomeReady \/ Disconnect \/ ServiceChanged
  \/ \E event \in Event : NotificationSource(event)
  \/ DataSource
  \/ \E ok \in BOOLEAN : ControlPoint(ok)

Process ==
  \/ ProcessDuplicate \/ ProcessRemoved \/ ProcessPosted
  \/ ProcessFragment \/ ProcessWriteResult \/ ProcessReset

WorkerStep ==
  \/ CheckGeneration \/ Receive \/ ReceiveNothing \/ Process
  \/ Timeout \/ InTime \/ StartNextRequest

Next == Environment \/ WorkerStep

(* FreeRTOS runs the worker, and a deadline passes: a request that stays   *)
(* in flight is found late at some turn of the loop.                       *)
Fairness == WF_vars(WorkerStep) /\ SF_vars(Timeout)

Spec == Init /\ [][Next]_vars

FairSpec == Spec /\ Fairness

-----------------------------------------------------------------------------
RequestType ==
  [event: Event, kind: {"notification", "app"}, attempt: 0 .. 1,
   canceled: BOOLEAN, session: Nat, parser: {"fresh", "started"}]

ASSUME NoneAssumption == None \notin RequestType

Piece == [of: Uid \cup App, part: {"response", "head", "tail"}]

Item ==
  [type: {"reset"}, generation: Nat]
    \cup [type: {"event"}, generation: Nat, event: Event]
    \cup [type: {"fragment"}, generation: Nat, fragment: Piece]
    \cup [type: {"write_result"}, generation: Nat, ok: BOOLEAN]

CacheEntry == [session: Nat, uid: Uid]

TypeOK ==
  /\ link \in {"down", "preparing", "ready", "recovering"}
  /\ generation \in 0 .. MaxGeneration /\ session_id \in Nat
  /\ work \in Seq(Item) /\ Len(work) <= WorkCapacity
  /\ \A i \in 1 .. Len(work) : work[i].generation \in 0 .. generation
  /\ answers \in Seq(Piece)
  /\ at = "process" => held \in Item /\ held.generation \in 0 .. generation
  /\ at \in {"top", "receive", "process", "deadline", "next"}
  /\ worker_generation \in 0 .. generation
  /\ pending \in RingType(Event)
  /\ active # None => active \in RequestType
  /\ app_resolver \in Seq(App) /\ Len(app_resolver) <= ResolverCapacity
  /\ cache \in Seq(CacheEntry) /\ Len(cache) <= CacheCapacity
  /\ last_event \in Event \cup {None}
  /\ gone \subseteq Uid /\ disturbed \in BOOLEAN /\ arrivals \in 0 .. MaxArrivals

(* process_notification_event on event id 2 (ancs_client.c:835-845): once  *)
(* the removal of a uid was published, nothing the worker still had queued *)
(* or in flight for it is published, until the phone posts the uid again.  *)
RemovedStaysRemoved ==
  [][ sink' \notin {sink, None} /\ sink'.type # "removed" => sink'.uid \notin gone' ]_vars

(* "active request canceled; draining response" (ancs_client.c:839): a     *)
(* canceled request stays in flight until its answer is in, so while no    *)
(* fragment was lost and no request timed out on this connection, each     *)
(* fragment meets the parser that waits for exactly it.                    *)
AnswersStayInStep ==
  at = "process" /\ held.type = "fragment" /\ held.generation = generation /\ ~disturbed =>
    active # None /\ InStep(active, held.fragment)

(* The generation tags of the work items (ancs_client.c:907): a fragment   *)
(* is only ever given to a request of its own generation, although the     *)
(* loop compares it with the connection's and not with the request's.      *)
FragmentMeetsItsGeneration ==
  at = "process" /\ held.type = "fragment" /\ active # None =>
    held.generation = worker_generation

(* cache_find and publish_removed: a notification cached for the present   *)
(* session is not one whose removal was already published, and none is     *)
(* cached twice, where the removal would leave one behind.                 *)
CachedIsLive ==
  \A i \in 1 .. Len(cache) :
    /\ cache[i].session = session_id => cache[i].uid \notin gone
    /\ \A j \in 1 .. Len(cache) : cache[i] = cache[j] => i = j

(* The request timeout (ancs_client.c:937-945): no request stays in flight *)
(* for ever, answered or not, canceled or not.                             *)
RequestEnds == active # None ~> active = None

(* start_next_request: events do not wait for ever on a ready link.        *)
PendingDrains ==
  link = "ready" /\ ~IsEmpty(pending) ~> link # "ready" \/ IsEmpty(pending)

=============================================================================
