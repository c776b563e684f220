------------------------- MODULE AncsWorker_proofs -------------------------
(***************************************************************************)
(* The worker, its queue and the answer it waits for, for any uids, apps,  *)
(* capacities and numbers of connections.  Most of the work is to say      *)
(* which fragments can still reach the request in flight: none but those   *)
(* of its own answer, in their order (StreamFits), unless the stream was   *)
(* disturbed.  It needs that an item of an earlier connection is refused   *)
(* (HeldFits, HeadFits) and that the reset of the present one comes before *)
(* everything else of it and finds no request (ResetComesFirst).  That     *)
(* nothing is published after its removal needs that a canceled uid waits  *)
(* nowhere in the ring (NothingGone), which RequestQueue_proofs says of a  *)
(* cancellation.                                                           *)
(***************************************************************************)
EXTENDS AncsWorker, RequestQueue_proofs

-----------------------------------------------------------------------------
Distinct(store) ==
  \A i, j \in 1 .. Len(store) : store[i] = store[j] => i = j

(* What Drop leaves of a store, and where it was before.                   *)
LEMMA RemoveAtFacts ==
  ASSUME NEW S, NEW store \in Seq(S), NEW k \in 1 .. Len(store)
  PROVE  /\ RemoveAt(store, k) \in Seq(S)
         /\ Len(RemoveAt(store, k)) = Len(store) - 1
         /\ \A i \in 1 .. k - 1 : RemoveAt(store, k)[i] = store[i]
         /\ \A i \in k .. Len(store) - 1 : RemoveAt(store, k)[i] = store[i + 1]
<1> DEFINE low  == SubSeq(store, 1, k - 1)
           high == SubSeq(store, k + 1, Len(store))
<1>1. /\ low \in Seq(S) /\ Len(low) = k - 1
      /\ \A i \in 1 .. k - 1 : low[i] = store[i]
  BY SubSeqProperties
<1>2. /\ high \in Seq(S) /\ Len(high) = Len(store) - k
      /\ \A i \in 1 .. Len(store) - k : high[i] = store[k + i]
  BY SubSeqProperties
<1>3. RemoveAt(store, k) = low \o high
  BY DEF RemoveAt
<1> HIDE DEF low, high
<1>4. /\ low \o high \in Seq(S) /\ Len(low \o high) = Len(store) - 1
      /\ \A i \in 1 .. k - 1 : (low \o high)[i] = low[i]
      /\ \A i \in k .. Len(store) - 1 : (low \o high)[i] = high[i - k + 1]
  BY <1>1, <1>2, ConcatProperties
<1>5. \A i \in k .. Len(store) - 1 : high[i - k + 1] = store[i + 1]
  BY <1>2
<1> QED
  BY <1>1, <1>3, <1>4, <1>5

LEMMA DropFacts ==
  ASSUME NEW S, NEW store \in Seq(S), NEW key
  PROVE  /\ Drop(store, key) \in Seq(S)
         /\ Len(Drop(store, key)) <= Len(store)
         /\ \A i \in 1 .. Len(Drop(store, key)) :
              \E j \in 1 .. Len(store) : Drop(store, key)[i] = store[j]
<1>1. CASE ~Contains(store, key)
  BY <1>1 DEF Drop
<1>2. CASE Contains(store, key)
  <2> DEFINE k == CHOOSE i \in 1 .. Len(store) : store[i] = key
  <2>1. k \in 1 .. Len(store)
    BY <1>2 DEF Contains
  <2>2. Drop(store, key) = RemoveAt(store, k)
    BY <1>2 DEF Drop
  <2> HIDE DEF k
  <2> DEFINE rest == RemoveAt(store, k)
  <2>3. /\ rest \in Seq(S) /\ Len(rest) = Len(store) - 1
        /\ \A i \in 1 .. k - 1 : rest[i] = store[i]
        /\ \A i \in k .. Len(store) - 1 : rest[i] = store[i + 1]
    BY <2>1, RemoveAtFacts
  <2> HIDE DEF rest
  <2>4. \A i \in 1 .. Len(rest) : \E j \in 1 .. Len(store) : rest[i] = store[j]
    <3> TAKE i \in 1 .. Len(rest)
    <3>1. CASE i < k
      BY <2>1, <2>3, <3>1
    <3>2. CASE i >= k
      <4>1. i + 1 \in 1 .. Len(store) /\ rest[i] = store[i + 1]
        BY <2>1, <2>3, <3>2
      <4> QED
        BY <4>1
    <3> QED
      BY <2>1, <2>3, <3>1, <3>2
  <2> QED
    BY <2>2, <2>3, <2>4 DEF rest
<1> QED
  BY <1>1, <1>2

LEMMA DropDistinct ==
  ASSUME NEW S, NEW store \in Seq(S), NEW key, Distinct(store)
  PROVE  /\ Distinct(Drop(store, key))
         /\ \A i \in 1 .. Len(Drop(store, key)) : Drop(store, key)[i] # key
<1>1. CASE ~Contains(store, key)
  BY <1>1 DEF Drop, Contains
<1>2. CASE Contains(store, key)
  <2> DEFINE k == CHOOSE i \in 1 .. Len(store) : store[i] = key
  <2>1. k \in 1 .. Len(store) /\ store[k] = key
    BY <1>2 DEF Contains
  <2>2. Drop(store, key) = RemoveAt(store, k)
    BY <1>2 DEF Drop
  <2> HIDE DEF k
  <2> DEFINE rest == RemoveAt(store, k)
  <2>3. /\ rest \in Seq(S) /\ Len(rest) = Len(store) - 1
        /\ \A i \in 1 .. k - 1 : rest[i] = store[i]
        /\ \A i \in k .. Len(store) - 1 : rest[i] = store[i + 1]
    BY <2>1, RemoveAtFacts
  <2> HIDE DEF rest
  <2>4. Distinct(rest)
    BY <2>1, <2>3 DEF Distinct
  <2>5. \A i \in 1 .. Len(rest) : rest[i] # key
    BY <2>1, <2>3 DEF Distinct
  <2> QED
    BY <2>2, <2>4, <2>5 DEF rest
<1> QED
  BY <1>1, <1>2

(* Touch keeps a store within its capacity and its keys apart.             *)
LEMMA TouchFacts ==
  ASSUME NEW S, NEW store \in Seq(S), NEW key \in S, NEW capacity \in Nat \ {0},
         Len(store) <= capacity
  PROVE  LET after == Touch(store, key, capacity)
         IN  /\ after \in Seq(S)
             /\ Len(after) <= capacity
             /\ \A i \in 1 .. Len(after) :
                  after[i] = key \/ \E j \in 1 .. Len(store) : after[i] = store[j]
             /\ Distinct(store) => Distinct(after)
<1> DEFINE others == Drop(store, key)
           after  == Touch(store, key, capacity)
<1>1. /\ others \in Seq(S)
      /\ Len(others) <= Len(store)
      /\ \A i \in 1 .. Len(others) : \E j \in 1 .. Len(store) : others[i] = store[j]
      /\ Distinct(store) => Distinct(others) /\ \A i \in 1 .. Len(others) : others[i] # key
  BY DropFacts, DropDistinct
<1>2. after = IF Len(others) < capacity THEN Append(others, key)
              ELSE Append(Tail(others), key)
  BY DEF Touch
<1> HIDE DEF others, after
<1> DEFINE base == IF Len(others) < capacity THEN others ELSE Tail(others)
<1>3. /\ base \in Seq(S) /\ Len(base) < capacity
      /\ \A i \in 1 .. Len(base) : \E j \in 1 .. Len(store) : base[i] = store[j]
      /\ Distinct(store) => Distinct(base) /\ \A i \in 1 .. Len(base) : base[i] # key
  <2>1. CASE Len(others) < capacity
    BY <1>1, <2>1
  <2>2. CASE Len(others) >= capacity
    <3>1. others # << >>
      BY <1>1, <2>2
    <3>2. /\ Tail(others) \in Seq(S) /\ Len(Tail(others)) = Len(others) - 1
          /\ \A i \in 1 .. Len(others) - 1 : Tail(others)[i] = others[i + 1]
      BY <1>1, <3>1, HeadTailProperties
    <3>3. \A i \in 1 .. Len(others) - 1 : i + 1 \in 1 .. Len(others)
      BY <1>1
    <3>4. base = Tail(others)
      BY <1>1, <2>2
    <3> HIDE DEF base
    <3>5. \A i \in 1 .. Len(base) : \E j \in 1 .. Len(store) : base[i] = store[j]
      BY ZenonT(60), <1>1, <3>2, <3>3, <3>4
    <3>6. ASSUME Distinct(store)
          PROVE  Distinct(base) /\ \A i \in 1 .. Len(base) : base[i] # key
      BY <1>1, <3>2, <3>3, <3>4, <3>6 DEF Distinct
    <3> QED
      BY <1>1, <2>2, <3>2, <3>4, <3>5, <3>6
  <2> QED
    BY <1>1, <2>1, <2>2
<1>4. after = Append(base, key)
  BY <1>2
<1> HIDE DEF base
<1>5. /\ after \in Seq(S) /\ Len(after) = Len(base) + 1
      /\ \A i \in 1 .. Len(base) : after[i] = base[i]
      /\ after[Len(base) + 1] = key
  BY <1>3, <1>4, AppendProperties
<1>6. \A i \in 1 .. Len(after) : i \in 1 .. Len(base) \/ i = Len(base) + 1
  BY <1>3, <1>5
<1>7. Distinct(store) => Distinct(after)
  BY <1>3, <1>5, <1>6 DEF Distinct
<1> QED
  BY <1>3, <1>5, <1>6, <1>7 DEF after

-----------------------------------------------------------------------------
(* What the ring keeps of the uids in G: none of their events waits.       *)
Other(G) == {event \in Event : event.uid \notin G}

Waits(q, G) == Holds(q, Other(G))

LEMMA WaitsFewer ==
  ASSUME NEW q, NEW G, NEW H, H \subseteq G, Waits(q, G)
  PROVE  Waits(q, H)
  BY DEF Waits, Holds, Other

LEMMA OtherEvents == \A G : Other(G) \in SUBSET Event
  BY DEF Other

LEMMA EmptyFacts ==
  ASSUME NEW G
  PROVE  EmptyRing \in RingType(Event) /\ Waits(EmptyRing, G)
  BY RingEmpty DEF Waits

LEMMA CancelFacts ==
  ASSUME NEW q \in RingType(Event), NEW uid, NEW G, Waits(q, G)
  PROVE  /\ CancelUid(q, uid) \in RingType(Event)
         /\ Waits(CancelUid(q, uid), G \cup {uid})
<1>1. /\ CancelUid(q, uid) \in RingType(Event)
      /\ Holds(CancelUid(q, uid), {event \in Other(G) : event.uid # uid})
  BY OtherEvents, RingCancel DEF Waits
<1>2. {event \in Other(G) : event.uid # uid} = Other(G \cup {uid})
  BY DEF Other
<1> QED
  BY <1>1, <1>2 DEF Waits

LEMMA PushFacts ==
  ASSUME NEW q \in RingType(Event), NEW event \in Event, NEW G, Waits(q, G),
         ~IsFull(q), event.uid \notin G
  PROVE  Push(q, event) \in RingType(Event) /\ Waits(Push(q, event), G)
<1>1. event \in Other(G)
  BY DEF Other
<1> QED
  BY <1>1, OtherEvents, RingPush DEF Waits

LEMMA PopFacts ==
  ASSUME NEW q \in RingType(Event), NEW G, Waits(q, G), ~IsEmpty(q)
  PROVE  /\ Oldest(q) \in Event /\ Oldest(q).uid \notin G
         /\ Pop(q) \in RingType(Event) /\ Waits(Pop(q), G)
<1>1. /\ Oldest(q) \in Other(G)
      /\ Pop(q) \in RingType(Event) /\ Holds(Pop(q), Other(G))
  BY OtherEvents, RingPop DEF Waits
<1> QED
  BY <1>1 DEF Waits, Other

-----------------------------------------------------------------------------
(* The requests that the handlers make of a request.                       *)
LEMMA RequestFacts ==
  ASSUME NEW r \in RequestType
  PROVE  /\ r.event \in Event /\ r.event.uid \in Uid /\ r.event.id \in EventId
         /\ r.kind \in {"notification", "app"} /\ r.attempt \in 0 .. 1
         /\ r.canceled \in BOOLEAN /\ r.session \in Nat
         /\ r.parser \in {"fresh", "started"}
  BY DEF RequestType, Event

LEMMA PreparedFacts ==
  ASSUME NEW r \in RequestType, session_id \in Nat
  PROVE  /\ Prepared(r) \in RequestType
         /\ Prepared(r).event = r.event /\ Prepared(r).canceled = r.canceled
         /\ Prepared(r).kind = r.kind /\ Prepared(r).attempt = r.attempt
         /\ Prepared(r).session \in {r.session, session_id}
         /\ Prepared(r).parser = "fresh"
  BY DEF Prepared, RequestType

LEMMA NextAttemptFacts ==
  ASSUME NEW r \in RequestType, r.attempt < 1
  PROVE  /\ NextAttempt(r) \in RequestType
         /\ NextAttempt(r).event = r.event /\ NextAttempt(r).canceled = r.canceled
         /\ NextAttempt(r).kind = r.kind /\ NextAttempt(r).session = r.session
  BY DEF NextAttempt, RequestType

LEMMA AppRequestFacts ==
  ASSUME NEW r \in RequestType
  PROVE  LET a == [r EXCEPT !.kind = "app", !.attempt = 0]
         IN  /\ a \in RequestType
             /\ a.event = r.event /\ a.canceled = r.canceled /\ a.session = r.session
<1> DEFINE named == [r EXCEPT !.kind = "app"]
<1>1. /\ named \in RequestType /\ named.event = r.event
      /\ named.canceled = r.canceled /\ named.session = r.session
  BY DEF RequestType
<1>2. [r EXCEPT !.kind = "app", !.attempt = 0] = [named EXCEPT !.attempt = 0]
  OBVIOUS
<1> HIDE DEF named
<1> QED
  BY <1>1, <1>2 DEF RequestType

LEMMA NewRequestFacts ==
  ASSUME NEW event \in Event, session_id \in Nat
  PROVE  /\ NewRequest(event) \in RequestType
         /\ NewRequest(event).event = event /\ ~NewRequest(event).canceled
         /\ NewRequest(event).session = session_id
  BY DEF NewRequest, RequestType

(* What becomes of a request that is written, or written again, or given   *)
(* up: it is in flight with its answer to come, or it has ended.           *)
Sent(request) ==
  \E r \in RequestType :
    /\ r.event = request.event /\ r.canceled = request.canceled
    /\ r.session <= session_id /\ r.parser = "fresh"
    /\ ConnectionValid
    /\ active' = r /\ answers' = answers \o Answer(r)
    /\ UNCHANGED << sink, cache, link >>

Ended(request) ==
  /\ active' = None /\ answers' = answers
  /\ link' \in {link, Recovered(link)}
  /\ sink' \in {sink, Complete(request.event.uid), Failed(request.event.uid)}
  /\ \/ cache' = cache
     \/ \E s \in 0 .. session_id :
          cache' = Touch(cache, CacheKey(s, request.event.uid), CacheCapacity)

LEMMA AbandonEnds ==
  ASSUME NEW request, Abandon
  PROVE  Ended(request)
  BY DEF Abandon, Ended

LEMMA FinalizeEnds ==
  ASSUME NEW request \in RequestType, session_id \in Nat, request.session <= session_id,
         Finalize(request), link' \in {link, Recovered(link)}
  PROVE  Ended(request)
<1>1. request.session \in 0 .. session_id
  BY RequestFacts
<1> QED
  BY <1>1 DEF Finalize, Ended

LEMMA GiveUpEnds ==
  ASSUME NEW request \in RequestType, NEW recover_stream, session_id \in Nat,
         request.session <= session_id, GiveUp(request, recover_stream)
  PROVE  Ended(request)
<1>1. CASE Finalize(request) /\ link' = IF recover_stream THEN Recovered(link) ELSE link
  BY <1>1, FinalizeEnds
<1>2. CASE Fail(request)
  BY <1>2 DEF Fail, Ended
<1> QED
  BY <1>1, <1>2 DEF GiveUp

LEMMA SendSends ==
  ASSUME NEW request \in RequestType, session_id \in Nat,
         request.session <= session_id, Send(request)
  PROVE  Sent(request)
<1>1. Prepared(request).session <= session_id
  BY PreparedFacts, RequestFacts
<1>2. Answer(Prepared(request)) = Answer(request)
  BY PreparedFacts DEF Answer, Subject
<1> QED
  BY <1>1, <1>2, PreparedFacts DEF Send, Sent

LEMMA RetryOutcome ==
  ASSUME NEW request \in RequestType, NEW recover_stream, session_id \in Nat,
         request.session <= session_id, RetryOrFinish(request, recover_stream)
  PROVE  Sent(request) \/ Ended(request)
<1> DEFINE again == NextAttempt(request)
<1>1. CASE Abandon
  BY <1>1, AbandonEnds
<1>2. CASE GiveUp(request, recover_stream)
  BY <1>2, GiveUpEnds
<1>3. CASE request.attempt < 1 /\ Send(again)
  <2>1. /\ again \in RequestType /\ again.session <= session_id
        /\ again.event = request.event /\ again.canceled = request.canceled
    BY <1>3, NextAttemptFacts
  <2> HIDE DEF again
  <2>2. Sent(again)
    BY <1>3, <2>1, SendSends
  <2> QED
    BY <2>1, <2>2 DEF Sent
<1>4. CASE request.attempt < 1 /\ GiveUp(Prepared(again), recover_stream)
  <2>1. /\ again \in RequestType /\ again.session <= session_id
        /\ again.event = request.event
    BY <1>4, NextAttemptFacts
  <2> HIDE DEF again
  <2>2. /\ Prepared(again) \in RequestType /\ Prepared(again).session <= session_id
        /\ Prepared(again).event = request.event
    BY <2>1, PreparedFacts, RequestFacts
  <2>3. Ended(Prepared(again))
    BY <1>4, <2>2, GiveUpEnds
  <2> QED
    BY <2>2, <2>3 DEF Ended
<1> QED
  BY <1>1, <1>2, <1>3, <1>4 DEF RetryOrFinish

LEMMA FirstWriteOutcome ==
  ASSUME NEW request \in RequestType, session_id \in Nat,
         request.session <= session_id, FirstWrite(request)
  PROVE  Sent(request) \/ Ended(request)
<1>1. CASE Send(request)
  BY <1>1, SendSends
<1>2. CASE Abandon
  BY <1>2, AbandonEnds
<1>3. CASE RetryOrFinish(Prepared(request), FALSE)
  <2> DEFINE ready == Prepared(request)
  <2>1. /\ ready \in RequestType /\ ready.session <= session_id
        /\ ready.event = request.event /\ ready.canceled = request.canceled
    BY PreparedFacts, RequestFacts
  <2> HIDE DEF ready
  <2>2. Sent(ready) \/ Ended(ready)
    BY <1>3, <2>1, RetryOutcome DEF ready
  <2> QED
    BY <2>1, <2>2 DEF Sent, Ended
<1> QED
  BY <1>1, <1>2, <1>3 DEF FirstWrite

-----------------------------------------------------------------------------
(* The items the worker has still to look at: the one it holds, at place   *)
(* 0, and those of the queue.                                              *)
Place == 1 .. Len(work) \cup (IF at = "process" THEN {0} ELSE {})
ItemAt(n) == IF n = 0 THEN held ELSE work[n]

IsFragment(item) == item.type = "fragment" /\ item.generation = generation
IsRefusal(item) ==
  item.type = "write_result" /\ item.generation = generation /\ ~item.ok
Matters(item) == IsFragment(item) \/ IsRefusal(item)

(* An item of another generation is held only by a worker that is behind.  *)
HeldFits ==
  at = "process" =>
    /\ held.generation # generation => worker_generation # generation
    /\ held.type = "fragment" => held.generation = worker_generation

(* A worker that is behind meets an old item or the reset first, or there  *)
(* is no fragment it could meet.                                           *)
HeadFits ==
  at = "receive" /\ worker_generation # generation =>
    \/ work # << >> /\ (work[1].generation # generation \/ work[1].type = "reset")
    \/ answers = << >> /\ \A n \in 1 .. Len(work) : ~IsFragment(work[n])

DownIsSilent == link = "down" => answers = << >>

(* The reset of the present generation comes before all of its other items *)
(* and finds no request in flight.                                         *)
ResetComesFirst ==
  \A n \in Place :
    ItemAt(n).type = "reset" /\ ItemAt(n).generation = generation =>
      /\ \A m \in Place : m < n => ItemAt(m).generation # generation
      /\ worker_generation = generation =>
           active = None /\ at \in {"top", "receive", "process"}

Part(part) == [of |-> Subject(active), part |-> part]
Bears(n, part) == IsFragment(ItemAt(n)) /\ ItemAt(n).fragment = Part(part)
QuietBut(S) == \A n \in Place : n \notin S => ~Matters(ItemAt(n))

(* How far the answer to the request in flight has come.                   *)
Asked ==
  /\ QuietBut({}) /\ active.parser = "fresh"
  /\ answers \in {Answer(active), << Part("head"), Part("tail") >>}
HeadHeard ==
  /\ active.parser = "fresh" /\ answers = << Part("tail") >>
  /\ \E n \in Place : Bears(n, "head") /\ QuietBut({n})
HeadRead ==
  QuietBut({}) /\ active.parser = "started" /\ answers = << Part("tail") >>
AllHeard ==
  /\ active.parser = "fresh" /\ answers = << >>
  /\ \E n, m \in Place :
       n < m /\ Bears(n, "head") /\ Bears(m, "tail") /\ QuietBut({n, m})
TailLeft ==
  /\ active.parser = "started" /\ answers = << >>
  /\ \E n \in Place : Bears(n, "tail") /\ QuietBut({n})
Refused ==
  answers = << >> /\ \E n \in Place : IsRefusal(ItemAt(n)) /\ QuietBut({n})
Silent == QuietBut({}) /\ answers = << >>

StreamFits ==
  ~disturbed =>
    \/ Silent
    \/ /\ worker_generation = generation /\ active # None
       /\ Asked \/ HeadHeard \/ HeadRead \/ AllHeard \/ TailLeft \/ Refused

(* Nothing waits or is in flight for a uid whose removal was published,    *)
(* unless it was canceled.                                                 *)
NothingGone ==
  /\ Waits(pending, gone)
  /\ active # None /\ ~active.canceled => active.event.uid \notin gone

SessionsFit ==
  /\ active # None => active.session <= session_id
  /\ \A n \in 1 .. Len(cache) : cache[n].session <= session_id

IInv ==
  /\ TypeOK /\ HeldFits /\ HeadFits /\ DownIsSilent /\ ResetComesFirst
  /\ StreamFits /\ NothingGone /\ SessionsFit /\ CachedIsLive

-----------------------------------------------------------------------------
LEMMA ItemFacts ==
  ASSUME generation \in Nat
  PROVE  /\ \A g \in Nat : Reset(g) \in Item
         /\ \A event \in Event : EventItem(event) \in Item
         /\ \A f \in Piece : Fragment(f) \in Item
         /\ \A ok \in BOOLEAN : WriteResult(ok) \in Item
  BY DEF Item, Reset, EventItem, Fragment, WriteResult

(* xQueueSend leaves the queue alone, or adds the item at its end.         *)
LEMMA EnqueuedFacts ==
  ASSUME work \in Seq(Item), Len(work) <= WorkCapacity, NEW item \in Item
  PROVE  /\ Enqueued(item) \in Seq(Item) /\ Len(Enqueued(item)) <= WorkCapacity
         /\ work = << >> => Len(Enqueued(item)) = 1
         /\ \A n \in 1 .. Len(work) : Enqueued(item)[n] = work[n]
         /\ \/ Len(Enqueued(item)) = Len(work)
            \/ /\ Len(Enqueued(item)) = Len(work) + 1
               /\ Enqueued(item)[Len(work) + 1] = item
  BY WorkerAssumption, AppendProperties DEF Enqueued

(* The queue after a call of xQueueSend, or after none.                    *)
Grown(item) ==
  /\ work' \in Seq(Item) /\ Len(work') <= WorkCapacity
  /\ \A n \in 1 .. Len(work) : work'[n] = work[n]
  /\ \/ Len(work') = Len(work)
     \/ Len(work') = Len(work) + 1 /\ work'[Len(work) + 1] = item

LEMMA Grows ==
  ASSUME work \in Seq(Item), Len(work) <= WorkCapacity, NEW item \in Item,
         work' \in {Enqueued(item), work}
  PROVE  Grown(item)
  BY SMTT(30), EnqueuedFacts DEF Grown

LEMMA GrownAt ==
  ASSUME work \in Seq(Item), NEW item, Grown(item), NEW n \in 1 .. Len(work')
  PROVE  \/ n \in 1 .. Len(work) /\ work'[n] = work[n]
         \/ n = Len(work) + 1 /\ work'[n] = item
<1>1. Len(work) \in Nat /\ Len(work') \in Nat
  BY DEF Grown
<1>2. CASE n \in 1 .. Len(work)
  BY <1>2 DEF Grown
<1>3. CASE n \notin 1 .. Len(work)
  <2>1. n = Len(work) + 1 /\ Len(work') = Len(work) + 1
    BY <1>1, <1>3 DEF Grown
  <2> QED
    BY <1>1, <2>1 DEF Grown
<1> QED
  BY <1>2, <1>3

LEMMA AnswerFacts ==
  ASSUME NEW r \in RequestType
  PROVE  /\ Subject(r) \in Uid \cup App
         /\ Answer(r) \in Seq(Piece) /\ Answer(r) # << >>
<1>1. Subject(r) \in Uid \cup App
  BY RequestFacts, WorkerAssumption DEF Subject
<1> QED
  BY <1>1 DEF Answer, Piece

(* What a handler does with the request in flight: it ends, silently when  *)
(* it was canceled, or it is written again.                                *)
Settles ==
  /\ active # None
  /\ \/ Ended(active) /\ (active.canceled => UNCHANGED << sink, cache >>)
     \/ ~active.canceled /\ Sent(active)

LEMMA FinishSettles ==
  ASSUME active # None, active.canceled, FinishCanceled
  PROVE  Settles
  BY AbandonEnds DEF FinishCanceled, Abandon, Settles

LEMMA RetrySettles ==
  ASSUME active \in RequestType, active # None, ~active.canceled, session_id \in Nat,
         active.session <= session_id, NEW recover_stream,
         RetryOrFinish(active, recover_stream)
  PROVE  Settles
  BY RetryOutcome DEF Settles

LEMMA CompleteSettles ==
  ASSUME active \in RequestType, active # None, session_id \in Nat,
         active.session <= session_id, FragmentCompletes(active)
  PROVE  Settles /\ \/ app_resolver' = app_resolver
                    \/ app_resolver' = Touch(app_resolver, AppOf[active.event.uid],
                                             ResolverCapacity)
<1>1. CASE active.canceled /\ FinishCanceled /\ UNCHANGED app_resolver
  BY <1>1, FinishSettles
<1>2. CASE ~active.canceled /\ BeginAppName(active)
  <2>1. CASE /\ app_resolver' = Touch(app_resolver, AppOf[active.event.uid], ResolverCapacity)
             /\ Finalize(active) /\ UNCHANGED link
    BY <1>2, <2>1, FinalizeEnds DEF Settles
  <2>2. CASE /\ FirstWrite([active EXCEPT !.kind = "app", !.attempt = 0])
             /\ UNCHANGED app_resolver
    <3> DEFINE a == [active EXCEPT !.kind = "app", !.attempt = 0]
    <3>1. /\ a \in RequestType /\ a.session <= session_id
          /\ a.event = active.event /\ a.canceled = active.canceled
      BY AppRequestFacts
    <3>2. FirstWrite(a)
      BY <2>2
    <3> HIDE DEF a
    <3>3. Sent(a) \/ Ended(a)
      BY <3>1, <3>2, FirstWriteOutcome
    <3>4. Sent(active) \/ Ended(active)
      BY <3>1, <3>3 DEF Sent, Ended
    <3> QED
      BY <1>2, <2>2, <3>4 DEF Settles
  <2> QED
    BY <1>2, <2>1, <2>2 DEF BeginAppName
<1>3. CASE ~active.canceled /\ CompleteAppName(active)
  BY <1>3, FinalizeEnds DEF Settles, CompleteAppName
<1> QED
  BY <1>1, <1>2, <1>3 DEF FragmentCompletes

(* The three things that a fragment can do.                                *)
Reads ==
  /\ active # None /\ active.parser = "fresh" /\ InStep(active, held.fragment)
  /\ active' = [active EXCEPT !.parser = "started"]
  /\ UNCHANGED << link, answers, app_resolver, cache, sink >>

LEMMA FragmentOutcome ==
  ASSUME TypeOK, SessionsFit, ProcessFragment
  PROVE  \/ active = None /\ UNCHANGED << link, answers, active, app_resolver, cache, sink >>
         \/ Reads
         \/ /\ Settles
            /\ InStep(active, held.fragment) => active.parser = "started"
            /\ \/ app_resolver' = app_resolver
               \/ app_resolver' = Touch(app_resolver, AppOf[active.event.uid],
                                        ResolverCapacity)
<1> USE DEF TypeOK, SessionsFit
<1>1. CASE active = None
  BY <1>1 DEF ProcessFragment
<1>2. CASE active # None
  <2>1. active \in RequestType /\ active.session <= session_id /\ session_id \in Nat
    BY <1>2
  <2> DEFINE Effect(result) ==
          \/ /\ result = "more"
             /\ active' = [active EXCEPT !.parser = "started"]
             /\ UNCHANGED << link, answers, app_resolver, cache, sink >>
          \/ result = "complete" /\ FragmentCompletes(active)
          \/ result = "error" /\ FragmentBreaks(active)
  <2>2. PICK result \in ParseResults(active, held.fragment) : Effect(result)
    BY <1>2, Zenon DEF ProcessFragment
  <2>3. /\ result = "more" => active.parser = "fresh" /\ InStep(active, held.fragment)
        /\ result = "complete" => active.parser # "fresh"
        /\ result = "error" /\ InStep(active, held.fragment) => active.parser # "fresh"
    BY <2>2 DEF ParseResults
  <2>4. active.parser \in {"fresh", "started"}
    BY <2>1, RequestFacts
  <2>5. CASE result = "more"
    BY <1>2, <2>2, <2>3, <2>5 DEF Reads
  <2>6. CASE result = "complete" /\ FragmentCompletes(active)
    BY <1>2, <2>1, <2>3, <2>4, <2>6, CompleteSettles
  <2>7. CASE result = "error" /\ FragmentBreaks(active)
    <3>1. Settles /\ app_resolver' = app_resolver
      BY <1>2, <2>1, <2>7, FinishSettles, RetrySettles DEF FragmentBreaks
    <3> QED
      BY <2>3, <2>4, <2>7, <3>1
  <2> QED
    BY <2>2, <2>5, <2>6, <2>7
<1> QED
  BY <1>1, <1>2

LEMMA WriteResultOutcome ==
  ASSUME TypeOK, SessionsFit, ProcessWriteResult
  PROVE  \/ (held.ok \/ active = None) /\ UNCHANGED << active, answers, sink, cache, link >>
         \/ ~held.ok /\ Settles
<1> USE DEF TypeOK, SessionsFit
<1>1. CASE ~held.ok /\ active # None /\ active.canceled /\ FinishCanceled
  BY <1>1, FinishSettles
<1>2. CASE ~held.ok /\ active # None /\ ~active.canceled /\ RetryOrFinish(active, FALSE)
  BY <1>2, RetrySettles
<1> QED
  BY <1>1, <1>2 DEF ProcessWriteResult

LEMMA TimeoutOutcome ==
  ASSUME TypeOK, SessionsFit, Timeout
  PROVE  Settles
<1> USE DEF TypeOK, SessionsFit
<1>1. CASE /\ active.canceled /\ active' = None /\ link' = Recovered(link)
           /\ UNCHANGED << answers, sink, cache >>
  BY <1>1 DEF Settles, Ended, Timeout
<1>2. CASE ~active.canceled /\ RetryOrFinish(active, TRUE)
  BY <1>2, RetrySettles DEF Timeout
<1> QED
  BY <1>1, <1>2 DEF Timeout

(* A request that starts is for the oldest event that waits.               *)
Starts(r) ==
  /\ active = None /\ link = "ready" /\ ~IsEmpty(pending)
  /\ r \in RequestType /\ r.event = Oldest(pending) /\ ~r.canceled
  /\ pending' = Pop(pending)
  /\ Sent(r) \/ Ended(r)

LEMMA StartOutcome ==
  ASSUME TypeOK, NothingGone, StartNextRequest
  PROVE  \/ UNCHANGED << pending, active, answers, sink, cache, link >>
         \/ \E r : Starts(r)
<1> USE DEF TypeOK, NothingGone
<1>1. CASE active = None /\ link = "ready" /\ ~IsEmpty(pending)
  <2> DEFINE r == NewRequest(Oldest(pending))
  <2>1. Oldest(pending) \in Event
    BY <1>1, PopFacts
  <2>2. /\ r \in RequestType /\ r.session <= session_id
        /\ r.event = Oldest(pending) /\ ~r.canceled
    <3>1. session_id \in Nat
      OBVIOUS
    <3> HIDE DEF TypeOK, NothingGone
    <3> QED
      BY <2>1, <3>1, NewRequestFacts
  <2>3. FirstWrite(r) /\ pending' = Pop(pending)
    BY <1>1 DEF StartNextRequest
  <2> HIDE DEF r
  <2>4. Sent(r) \/ Ended(r)
    BY <2>2, <2>3, FirstWriteOutcome
  <2> QED
    BY <1>1, <2>2, <2>3, <2>4 DEF Starts
<1> QED
  BY <1>1 DEF StartNextRequest

-----------------------------------------------------------------------------
(***************************************************************************)
(* Type correctness.                                                       *)
(***************************************************************************)
(* What a request's end, or its being written, does to the types.          *)
RequestTyped ==
  /\ link \in {"down", "preparing", "ready", "recovering"}
  /\ answers \in Seq(Piece)
  /\ active # None => active \in RequestType
  /\ cache \in Seq(CacheEntry) /\ Len(cache) <= CacheCapacity

LEMMA OutcomeTyped ==
  ASSUME TypeOK, NEW r \in RequestType, Sent(r) \/ Ended(r)
  PROVE  RequestTyped'
<1> USE DEF TypeOK, RequestTyped
<1>1. CASE Sent(r)
  <2>1. PICK s \in RequestType : active' = s /\ answers' = answers \o Answer(s)
    BY <1>1 DEF Sent
  <2>2. answers' \in Seq(Piece)
    BY <2>1, AnswerFacts, ConcatProperties
  <2> QED
    BY <1>1, <2>1, <2>2 DEF Sent
<1>2. CASE Ended(r)
  <2>1. link' \in {"down", "preparing", "ready", "recovering"}
    BY <1>2 DEF Ended, Recovered
  <2>2. cache' \in Seq(CacheEntry) /\ Len(cache') <= CacheCapacity
    <3>1. CASE cache' = cache
      BY <3>1
    <3>2. ASSUME NEW s \in 0 .. session_id,
                 cache' = Touch(cache, CacheKey(s, r.event.uid), CacheCapacity)
          PROVE  cache' \in Seq(CacheEntry) /\ Len(cache') <= CacheCapacity
      <4>1. CacheKey(s, r.event.uid) \in CacheEntry
        BY RequestFacts DEF CacheKey, CacheEntry
      <4>2. CacheCapacity \in Nat \ {0}
        BY WorkerAssumption
      <4> QED
        BY <3>2, <4>1, <4>2, TouchFacts
    <3> QED
      BY <1>2, <3>1, <3>2 DEF Ended
  <2> QED
    BY <1>2, <2>1, <2>2 DEF Ended
<1> QED
  BY <1>1, <1>2

LEMMA SettlesTyped ==
  ASSUME TypeOK, Settles
  PROVE  RequestTyped'
<1>1. active \in RequestType /\ (Sent(active) \/ Ended(active))
  BY DEF TypeOK, Settles
<1> QED
  BY <1>1, OutcomeTyped

LEMMA ResolverTyped ==
  ASSUME TypeOK, active # None,
         \/ app_resolver' = app_resolver
         \/ app_resolver' = Touch(app_resolver, AppOf[active.event.uid], ResolverCapacity)
  PROVE  app_resolver' \in Seq(App) /\ Len(app_resolver') <= ResolverCapacity
<1> USE DEF TypeOK
<1>1. AppOf[active.event.uid] \in App /\ ResolverCapacity \in Nat \ {0}
  BY RequestFacts, WorkerAssumption
<1> QED
  BY <1>1, TouchFacts

LEMMA TypeInit == Init => TypeOK
<1>1. EmptyRing \in RingType(Event)
  BY EmptyFacts
<1>2. /\ MaxGeneration \in Nat /\ MaxArrivals \in Nat /\ WorkCapacity \in Nat
      /\ CacheCapacity \in Nat /\ ResolverCapacity \in Nat
  BY WorkerAssumption
<1> SUFFICES ASSUME Init PROVE TypeOK
  OBVIOUS
<1>3. pending \in RingType(Event) /\ active = None /\ last_event \in Event \cup {None}
  BY <1>1 DEF Init
<1>4. /\ work \in Seq(Item) /\ Len(work) = 0 /\ answers \in Seq(Piece)
      /\ cache \in Seq(CacheEntry) /\ Len(cache) = 0
      /\ app_resolver \in Seq(App) /\ Len(app_resolver) = 0
  BY DEF Init
<1>5. disturbed \in BOOLEAN
  BY DEF Init
<1>6. link = "down" /\ generation = 0 /\ session_id = 0 /\ at = "top"
      /\ worker_generation = 0 /\ gone = {} /\ arrivals = 0
  BY DEF Init
<1>7. 0 \in 0 .. MaxGeneration /\ 0 \in 0 .. MaxArrivals
  BY <1>2
<1> QED
  BY <1>2, <1>3, <1>4, <1>5, <1>6, <1>7 DEF TypeOK

LEMMA TypeEnvironment ==
  ASSUME IInv, Environment
  PROVE  TypeOK'
<1> USE DEF IInv, TypeOK, linkVars, queueVars, workerVars, history
<1>0. generation \in Nat /\ MaxGeneration \in Nat /\ MaxArrivals \in Nat
  BY WorkerAssumption
<1>1. CASE Connect
  BY SMTT(30), <1>0, <1>1 DEF Connect
<1>2. CASE BecomeReady
  BY <1>2 DEF BecomeReady
<1>3. ASSUME NEW item \in Item, work' \in {Enqueued(item), work},
             generation' \in Nat, generation <= generation',
             item.generation \in 0 .. generation'
      PROVE  /\ work' \in Seq(Item) /\ Len(work') <= WorkCapacity
             /\ \A n \in 1 .. Len(work') : work'[n].generation \in 0 .. generation'
  <2>1. Grown(item)
    BY <1>3, Grows
  <2>2. \A n \in 1 .. Len(work) : work[n].generation \in 0 .. generation'
    BY <1>0, <1>3
  <2>3. \A n \in 1 .. Len(work') :
          \/ n \in 1 .. Len(work) /\ work'[n] = work[n]
          \/ n = Len(work) + 1 /\ work'[n] = item
    BY <2>1, GrownAt
  <2> QED
    BY <1>3, <2>1, <2>2, <2>3 DEF Grown
<1>4. ASSUME NEW item \in Item, work' \in {Enqueued(item), work},
             generation' = generation, item.generation = generation
      PROVE  /\ work' \in Seq(Item) /\ Len(work') <= WorkCapacity
             /\ \A n \in 1 .. Len(work') : work'[n].generation \in 0 .. generation'
  <2> HIDE DEF TypeOK, IInv
  <2>1. generation' \in Nat /\ generation <= generation' /\ item.generation \in 0 .. generation'
    BY <1>0, <1>4
  <2> QED
    BY <1>3, <1>4, <2>1
<1>5. CASE Disconnect \/ ServiceChanged
  <2>1. generation' = generation + 1 /\ generation' \in 0 .. MaxGeneration /\ generation' \in Nat
    BY <1>0, <1>5 DEF Disconnect, ServiceChanged
  <2>2. /\ Reset(generation') \in Item /\ Reset(generation').generation = generation'
        /\ work' = Enqueued(Reset(generation'))
        /\ generation <= generation' /\ generation' \in 0 .. generation'
    BY <1>0, <1>5, <2>1, ItemFacts DEF Disconnect, ServiceChanged, Reset
  <2>3. /\ work' \in Seq(Item) /\ Len(work') <= WorkCapacity
        /\ \A n \in 1 .. Len(work') : work'[n].generation \in 0 .. generation'
    <3> HIDE DEF TypeOK, IInv
    <3> QED
      BY <1>3, <2>1, <2>2
  <2>4. worker_generation' \in 0 .. generation'
        /\ (at' = "process" => held' \in Item /\ held'.generation \in 0 .. generation')
    BY <1>0, <1>5, <2>1 DEF Disconnect, ServiceChanged
  <2>5. link' \in {"down", "preparing"} /\ (answers' = answers \/ answers' = << >>)
    BY <1>5, Zenon DEF Disconnect, ServiceChanged
  <2>6. disturbed' \in BOOLEAN
    <3>1. CASE Disconnect
      BY <3>1 DEF Disconnect
    <3>2. CASE ServiceChanged
      BY <3>2 DEF ServiceChanged
    <3> QED
      BY <1>5, <3>1, <3>2
  <2>7. UNCHANGED << session_id, workerVars, sink, gone, arrivals >>
    BY <1>5, Zenon DEF Disconnect, ServiceChanged
  <2>8. link' \in {"down", "preparing", "ready", "recovering"} /\ answers' \in Seq(Piece)
    <3>1. answers \in Seq(Piece) /\ << >> \in Seq(Piece)
      OBVIOUS
    <3> HIDE DEF TypeOK, IInv
    <3> QED
      BY <2>5, <3>1
  <2> QED
    BY <2>1, <2>3, <2>4, <2>6, <2>7, <2>8
<1>6. ASSUME NEW event \in Event, NotificationSource(event) PROVE TypeOK'
  <2>1. EventItem(event) \in Item /\ EventItem(event).generation = generation
    BY <1>0, ItemFacts DEF EventItem
  <2>2. /\ work' \in Seq(Item) /\ Len(work') <= WorkCapacity
        /\ \A n \in 1 .. Len(work') : work'[n].generation \in 0 .. generation'
    BY <1>4, <1>6, <2>1 DEF NotificationSource
  <2> QED
    BY <1>0, <1>6, <2>2 DEF NotificationSource
<1>7. CASE DataSource
  <2>1. Head(answers) \in Piece /\ Tail(answers) \in Seq(Piece)
    BY <1>7, HeadTailProperties DEF DataSource, Sends
  <2>2. Fragment(Head(answers)) \in Item /\ Fragment(Head(answers)).generation = generation
    BY <1>0, <2>1, ItemFacts DEF Fragment
  <2>3. /\ work' \in Seq(Item) /\ Len(work') <= WorkCapacity
        /\ \A n \in 1 .. Len(work') : work'[n].generation \in 0 .. generation'
    BY <1>4, <1>7, <2>2 DEF DataSource
  <2> QED
    BY <1>7, <2>1, <2>3 DEF DataSource
<1>8. ASSUME NEW ok \in BOOLEAN, ControlPoint(ok) PROVE TypeOK'
  <2>1. WriteResult(ok) \in Item /\ WriteResult(ok).generation = generation
    BY <1>0, ItemFacts DEF WriteResult
  <2>2. answers' \in Seq(Piece)
    <3>1. Tail(answers) \in Seq(Piece) /\ SubSeq(answers, 4, Len(answers)) \in Seq(Piece)
      BY <1>8, HeadTailProperties, SubSeqProperties DEF ControlPoint, Sends
    <3> QED
      BY <1>8, <3>1 DEF ControlPoint
  <2>3. /\ work' \in Seq(Item) /\ Len(work') <= WorkCapacity
        /\ \A n \in 1 .. Len(work') : work'[n].generation \in 0 .. generation'
    BY <1>4, <1>8, <2>1 DEF ControlPoint
  <2> QED
    BY <1>8, <2>2, <2>3 DEF ControlPoint
<1> QED
  BY <1>1, <1>2, <1>5, <1>6, <1>7, <1>8 DEF Environment

LEMMA TypeWorker ==
  ASSUME IInv, WorkerStep
  PROVE  TypeOK'
<1> USE DEF IInv, TypeOK, linkVars, queueVars, history
<1>0. generation \in Nat /\ EmptyRing \in RingType(Event)
  BY WorkerAssumption, EmptyFacts
<1>1. CASE CheckGeneration
  <2>1. CASE worker_generation # generation
    BY <1>0, <1>1, <2>1, WorkerAssumption DEF CheckGeneration, ResetSession
  <2>2. CASE worker_generation = generation
    BY <1>1, <2>2 DEF CheckGeneration
  <2> QED
    BY <2>1, <2>2
<1>2. CASE Receive
  <2>1. /\ Head(work) = work[1] /\ 1 \in 1 .. Len(work) /\ Head(work) \in Item
        /\ Tail(work) \in Seq(Item) /\ Len(Tail(work)) = Len(work) - 1
        /\ \A n \in 1 .. Len(work) - 1 : Tail(work)[n] = work[n + 1]
    BY <1>2, HeadTailProperties DEF Receive
  <2>2. \A n \in 1 .. Len(Tail(work)) : Tail(work)[n].generation \in 0 .. generation
    BY <2>1
  <2>3. Len(Tail(work)) <= WorkCapacity
    BY <2>1, WorkerAssumption
  <2>4. at' = "process" => held' \in Item /\ held'.generation \in 0 .. generation
    BY <1>2, <2>1 DEF Receive
  <2>5. at' \in {"process", "top"}
    BY <1>2 DEF Receive
  <2> QED
    BY <1>2, <2>1, <2>2, <2>3, <2>4, <2>5 DEF Receive
<1>3. CASE ReceiveNothing
  BY <1>3 DEF ReceiveNothing
<1>4. CASE ProcessDuplicate
  BY <1>4 DEF ProcessDuplicate, Processed
<1>5. ASSUME at = "process", held.type = "event"
      PROVE  held.event \in Event /\ held.event.uid \in Uid
  BY <1>5 DEF Item, Event
<1>6. CASE ProcessRemoved
  <2>1. held.event \in Event /\ held.event.uid \in Uid
    BY <1>5, <1>6 DEF ProcessRemoved, Processed
  <2>2. pending' \in RingType(Event)
    BY <1>6, CancelFacts DEF ProcessRemoved, NothingGone
  <2>3. active' # None => active' \in RequestType
    BY <1>6 DEF ProcessRemoved, Canceled, RequestType
  <2>4. cache' \in Seq(CacheEntry) /\ Len(cache') <= CacheCapacity
    BY <1>6, DropFacts, WorkerAssumption DEF ProcessRemoved
  <2> QED
    BY <1>6, <2>1, <2>2, <2>3, <2>4 DEF ProcessRemoved, Processed
<1>7. CASE ProcessPosted
  <2>1. held.event \in Event /\ held.event.uid \in Uid
    BY <1>5, <1>7 DEF ProcessPosted, Processed
  <2>2. pending' \in RingType(Event)
    <3>1. CASE IsFull(pending)
      BY <1>7, <3>1 DEF ProcessPosted
    <3>2. CASE ~IsFull(pending)
      <4>1. Waits(pending, {})
        BY WaitsFewer DEF NothingGone
      <4> QED
        BY <1>7, <2>1, <3>2, <4>1, PushFacts DEF ProcessPosted
    <3> QED
      BY <3>1, <3>2
  <2> QED
    BY <1>7, <2>1, <2>2 DEF ProcessPosted, Processed
<1>8. CASE ProcessFragment
  <2>1. RequestTyped' /\ app_resolver' \in Seq(App) /\ Len(app_resolver') <= ResolverCapacity
    <3>1. CASE UNCHANGED << link, answers, active, app_resolver, cache, sink >>
      BY <3>1 DEF RequestTyped
    <3>2. CASE Reads
      BY <3>2 DEF Reads, RequestTyped, RequestType
    <3>3. CASE Settles /\ \/ app_resolver' = app_resolver
                          \/ app_resolver' = Touch(app_resolver, AppOf[active.event.uid],
                                                   ResolverCapacity)
      BY <3>3, SettlesTyped, ResolverTyped DEF Settles
    <3> QED
      BY <1>8, <3>1, <3>2, <3>3, FragmentOutcome
  <2> QED
    BY <1>8, <2>1 DEF ProcessFragment, Processed, RequestTyped
<1>9. CASE ProcessWriteResult
  <2>1. RequestTyped'
    <3>1. CASE UNCHANGED << active, answers, sink, cache, link >>
      BY <3>1 DEF RequestTyped
    <3> QED
      BY <1>9, <3>1, WriteResultOutcome, SettlesTyped
  <2> QED
    BY <1>9, <2>1 DEF ProcessWriteResult, Processed, RequestTyped
<1>10. CASE ProcessReset
  BY <1>0, <1>10, WorkerAssumption DEF ProcessReset, Processed, ResetSession
<1>11. CASE Timeout
  <2>1. RequestTyped'
    BY <1>11, TimeoutOutcome, SettlesTyped
  <2> QED
    BY <1>11, <2>1 DEF Timeout, RequestTyped
<1>12. CASE InTime
  BY <1>12 DEF InTime
<1>13. CASE StartNextRequest
  <2>1. RequestTyped' /\ pending' \in RingType(Event)
    <3>1. CASE UNCHANGED << pending, active, answers, sink, cache, link >>
      BY <3>1 DEF RequestTyped
    <3>2. ASSUME NEW r, Starts(r) PROVE RequestTyped' /\ pending' \in RingType(Event)
      BY <3>2, OutcomeTyped, PopFacts DEF Starts, NothingGone
    <3> QED
      BY <1>13, <3>1, <3>2, StartOutcome
  <2> QED
    BY <1>13, <2>1 DEF StartNextRequest, RequestTyped
<1> QED
  BY <1>1, <1>2, <1>3, <1>4, <1>6, <1>7, <1>8, <1>9, <1>10, <1>11, <1>12, <1>13
     DEF WorkerStep, Process

-----------------------------------------------------------------------------
(***************************************************************************)
(* Items and generations.                                                  *)
(***************************************************************************)
(* What every step of the other tasks leaves alone, and what the steps     *)
(* that end a generation do.                                               *)
LEMMA EnvironmentFacts ==
  ASSUME Environment
  PROVE  /\ UNCHANGED << workerVars, sink, gone >>
         /\ Connect \/ Disconnect \/ ServiceChanged \/ UNCHANGED generation
  BY DEF Environment, Connect, BecomeReady, Disconnect, ServiceChanged,
         NotificationSource, DataSource, ControlPoint, linkVars, history

LEMMA ChangeFacts ==
  ASSUME TypeOK, Connect \/ Disconnect \/ ServiceChanged
  PROVE  /\ generation' = generation + 1 /\ worker_generation' = worker_generation
         /\ worker_generation' # generation'
         /\ at = "process" => held.generation # generation'
         /\ \A n \in 1 .. Len(work) : work[n].generation # generation'
         /\ work' = work \/ Disconnect \/ ServiceChanged
<1>1. generation' = generation + 1 /\ UNCHANGED workerVars
  BY DEF Connect, Disconnect, ServiceChanged
<1>2. work' = work \/ Disconnect \/ ServiceChanged
  BY DEF Connect, queueVars
<1>3. /\ generation \in Nat /\ worker_generation \in 0 .. generation
      /\ at = "process" => held.generation \in 0 .. generation
      /\ \A n \in 1 .. Len(work) : work[n].generation \in 0 .. generation
  BY WorkerAssumption DEF TypeOK
<1>4. \A g \in 0 .. generation : g # generation + 1
  BY <1>3
<1> QED
  BY <1>1, <1>2, <1>3, <1>4 DEF workerVars

LEMMA ResetGrows ==
  ASSUME TypeOK, Disconnect \/ ServiceChanged
  PROVE  /\ Grown(Reset(generation')) /\ (work = << >> => Len(work') = 1)
         /\ answers' = answers \/ answers' = << >>
<1>1. generation' \in Nat /\ generation \in Nat
  BY ChangeFacts, WorkerAssumption DEF TypeOK
<1>2. Reset(generation') \in Item
  BY <1>1, ItemFacts
<1>3. work' = Enqueued(Reset(generation')) /\ (answers' = answers \/ answers' = << >>)
  BY Zenon DEF Disconnect, ServiceChanged
<1> QED
  BY <1>2, <1>3, EnqueuedFacts, Grows DEF TypeOK

(* What the queue gains, when it gains something, in the same generation.  *)
LEMMA ItemGrows ==
  ASSUME TypeOK, NEW item \in Item, work' \in {Enqueued(item), work}
  PROVE  Grown(item)
  BY Grows DEF TypeOK

LEMMA ReceiveFacts ==
  ASSUME TypeOK, Receive
  PROVE  /\ 1 \in 1 .. Len(work) /\ work # << >> /\ Head(work) = work[1]
         /\ work' \in Seq(Item) /\ Len(work') = Len(work) - 1
         /\ \A n \in 1 .. Len(work') : work'[n] = work[n + 1]
         /\ \/ work[1].generation = generation /\ at' = "process" /\ held' = work[1]
            \/ work[1].generation # generation /\ at' = "top"
<1>1. /\ Head(work) = work[1] /\ 1 \in 1 .. Len(work) /\ work # << >>
      /\ Tail(work) \in Seq(Item) /\ Len(Tail(work)) = Len(work) - 1
      /\ \A n \in 1 .. Len(work) - 1 : Tail(work)[n] = work[n + 1]
  BY HeadTailProperties DEF Receive, TypeOK
<1> QED
  BY <1>1 DEF Receive, IsCurrent

LEMMA WorkerFacts ==
  ASSUME WorkerStep
  PROVE  /\ UNCHANGED << generation, session_id, arrivals >>
         /\ Receive \/ (UNCHANGED work /\ at' # "process")
         /\ at' = "receive" => CheckGeneration
  BY
  DEF WorkerStep, Process, CheckGeneration, Receive, ReceiveNothing, ProcessDuplicate,
         ProcessRemoved, ProcessPosted, ProcessFragment, ProcessWriteResult,
         ProcessReset, Processed, Timeout, InTime, StartNextRequest,
         linkVars, queueVars, history

LEMMA HeldNext ==
  ASSUME IInv, Environment \/ WorkerStep
  PROVE  HeldFits'
<1> USE DEF IInv, HeldFits
<1>1. CASE Environment
  <2>1. CASE UNCHANGED generation
    BY <1>1, <2>1, EnvironmentFacts DEF workerVars
  <2>2. CASE Connect \/ Disconnect \/ ServiceChanged
    BY <1>1, <2>2, EnvironmentFacts, ChangeFacts DEF workerVars
  <2> QED
    BY <1>1, <2>1, <2>2, EnvironmentFacts
<1>2. CASE Receive
  <2>1. UNCHANGED << generation, worker_generation >> /\ at = "receive"
    BY <1>2 DEF Receive, linkVars
  <2> QED
    BY <1>2, <2>1, ReceiveFacts DEF HeadFits, IsFragment
<1>3. CASE WorkerStep /\ ~Receive
  BY <1>3, WorkerFacts
<1> QED
  BY <1>1, <1>2, <1>3

LEMMA HeadNext ==
  ASSUME IInv, Environment \/ WorkerStep
  PROVE  HeadFits'
<1> SUFFICES ASSUME at' = "receive", worker_generation' # generation'
             PROVE  \/ /\ work' # << >>
                       /\ work'[1].generation # generation' \/ work'[1].type = "reset"
                    \/ answers' = << >> /\ \A n \in 1 .. Len(work') :
                         ~(work'[n].type = "fragment" /\ work'[n].generation = generation')
  BY DEF HeadFits, IsFragment
<1>0. work \in Seq(Item) /\ answers \in Seq(Piece) /\ generation \in Nat
  BY WorkerAssumption DEF IInv, TypeOK
<1>1. CASE WorkerStep
  BY <1>1, WorkerFacts DEF CheckGeneration, ResetSession, linkVars
<1>2. CASE Environment
  <2>1. at = "receive" /\ worker_generation' = worker_generation
    BY <1>2, EnvironmentFacts DEF workerVars
  <2>2. CASE Connect
    <3>1. answers' = << >> /\ work' = work
      BY <2>2 DEF Connect, queueVars, IInv, DownIsSilent
    <3> QED
      BY <2>2, <3>1, ChangeFacts DEF IInv
  <2>3. CASE Disconnect \/ ServiceChanged
    <3>1. CASE work = << >>
      <4>1. Len(work') = 1 /\ Len(work) = 0 /\ work'[1] = Reset(generation') /\ work' # << >>
        BY <2>3, <3>1, ResetGrows DEF Grown, IInv
      <4> QED
        BY <4>1 DEF Reset
    <3>2. CASE work # << >>
      <4>1. 1 \in 1 .. Len(work)
        BY <1>0, <3>2
      <4>2. work'[1] = work[1] /\ work' # << >>
        BY <2>3, <4>1, ResetGrows DEF Grown, IInv
      <4> QED
        BY <2>3, <4>1, <4>2, ChangeFacts DEF IInv
    <3> QED
      BY <3>1, <3>2
  <2>4. CASE BecomeReady
    BY <2>1, <2>4 DEF BecomeReady, IInv, HeadFits, IsFragment, queueVars
  <2>5. ASSUME NEW item \in Item, Grown(item), UNCHANGED generation,
               \/ answers # << >>
               \/ UNCHANGED answers /\ item.type # "fragment"
        PROVE  \/ /\ work' # << >>
                  /\ work'[1].generation # generation' \/ work'[1].type = "reset"
               \/ answers' = << >> /\ \A n \in 1 .. Len(work') :
                    ~(work'[n].type = "fragment" /\ work'[n].generation = generation')
    <3>1. CASE work # << >> /\ (work[1].generation # generation \/ work[1].type = "reset")
      <4>1. 1 \in 1 .. Len(work)
        BY <1>0, <3>1
      <4> QED
        BY <2>5, <3>1, <4>1 DEF Grown
    <3>2. CASE answers = << >> /\ \A n \in 1 .. Len(work) : ~IsFragment(work[n])
      <4>1. \A n \in 1 .. Len(work') : \/ n \in 1 .. Len(work) /\ work'[n] = work[n]
                                       \/ work'[n] = item
        BY <1>0, <2>5, GrownAt
      <4> QED
        BY <2>5, <3>2, <4>1 DEF IsFragment
    <3> QED
      BY <2>1, <2>5, <3>1, <3>2 DEF IInv, HeadFits
  <2>6. ASSUME NEW event \in Event, NotificationSource(event)
        PROVE  \E item \in Item : Grown(item) /\ UNCHANGED << generation, answers >>
                                  /\ item.type # "fragment"
    <3>1. EventItem(event) \in Item /\ EventItem(event).type # "fragment"
      BY <1>0, ItemFacts DEF EventItem
    <3> QED
      BY <2>6, <3>1, ItemGrows DEF NotificationSource, linkVars, IInv
  <2>7. ASSUME DataSource \/ \E ok \in BOOLEAN : ControlPoint(ok)
        PROVE  \E item \in Item : Grown(item) /\ UNCHANGED generation /\ answers # << >>
    <3>1. CASE DataSource
      <4>1. Fragment(Head(answers)) \in Item
        BY <1>0, <3>1, ItemFacts, HeadTailProperties DEF DataSource, Sends
      <4> QED
        BY <3>1, <4>1, ItemGrows DEF DataSource, Sends, linkVars, IInv
    <3>2. ASSUME NEW ok \in BOOLEAN, ControlPoint(ok)
          PROVE  \E item \in Item : Grown(item) /\ UNCHANGED generation /\ answers # << >>
      <4>1. WriteResult(ok) \in Item
        BY <1>0, ItemFacts
      <4> QED
        BY <3>2, <4>1, ItemGrows DEF ControlPoint, Sends, linkVars, IInv
    <3> QED
      BY <2>7, <3>1, <3>2
  <2> QED
    BY <1>2, <2>2, <2>3, <2>4, <2>5, <2>6, <2>7 DEF Environment
<1> QED
  BY <1>1, <1>2

LEMMA DownNext ==
  ASSUME IInv, Environment \/ WorkerStep
  PROVE  DownIsSilent'
<1> USE DEF IInv, DownIsSilent
<1>1. ASSUME NEW r, Sent(r) \/ Ended(r) PROVE DownIsSilent'
  BY <1>1 DEF Sent, Ended, ConnectionValid, Recovered
<1>2. CASE Environment
  BY <1>2 DEF Environment, Connect, BecomeReady, Disconnect, ServiceChanged,
              NotificationSource, DataSource, ControlPoint, Sends, linkVars, queueVars
<1>3. CASE ProcessFragment
  BY <1>1, <1>3, FragmentOutcome DEF Reads, Settles
<1>4. CASE ProcessWriteResult
  BY <1>1, <1>4, WriteResultOutcome DEF Settles
<1>5. CASE Timeout
  BY <1>1, <1>5, TimeoutOutcome DEF Settles
<1>6. CASE StartNextRequest
  BY <1>1, <1>6, StartOutcome DEF Starts
<1>7. ASSUME UNCHANGED << linkVars, answers >> PROVE DownIsSilent'
  BY <1>7 DEF linkVars
<1>8. CASE WorkerStep /\ ~ProcessFragment /\ ~ProcessWriteResult
           /\ ~Timeout /\ ~StartNextRequest
  <2>1. UNCHANGED << linkVars, answers >>
    BY <1>8 DEF WorkerStep, Process, CheckGeneration, Receive, ReceiveNothing,
                ProcessDuplicate, ProcessRemoved, ProcessPosted, ProcessReset, InTime,
                queueVars
  <2> QED
    BY <1>7, <2>1
<1> QED
  BY <1>2, <1>3, <1>4, <1>5, <1>6, <1>8

(* The places after a step of the environment, and what is at them.        *)
LEMMA GrownPlaces ==
  ASSUME TypeOK, UNCHANGED << at, held >>, NEW item, Grown(item)
  PROVE  /\ \A n \in Place : n \in Place' /\ ItemAt(n)' = ItemAt(n)
         /\ \A n \in Place' : n \in Place \/ (n = Len(work) + 1 /\ ItemAt(n)' = item)
         /\ \A n \in Place : n < Len(work) + 1
<1>1. work \in Seq(Item) /\ Len(work) \in Nat /\ Len(work') \in Nat
  BY DEF TypeOK, Grown
<1>2. \A n \in 1 .. Len(work') : \/ n \in 1 .. Len(work) /\ work'[n] = work[n]
                                 \/ n = Len(work) + 1 /\ work'[n] = item
  BY <1>1, GrownAt
<1>3. \A n \in 1 .. Len(work) : n \in 1 .. Len(work') /\ work'[n] = work[n]
  BY <1>1 DEF Grown
<1> QED
  BY <1>1, <1>2, <1>3 DEF Place, ItemAt

(* The places after the worker took an item: each is one further on.       *)
LEMMA ReceivePlaces ==
  ASSUME TypeOK, Receive
  PROVE  /\ \A n \in Place' : n + 1 \in Place /\ ItemAt(n)' = ItemAt(n + 1)
         /\ \A n \in Place : ItemAt(n).generation = generation =>
              n - 1 \in Place' /\ ItemAt(n - 1)' = ItemAt(n)
         /\ Place \subseteq Nat /\ Place' \subseteq Nat
<1>1. work \in Seq(Item) /\ Len(work) \in Nat /\ Len(work') \in Nat /\ at = "receive"
  BY ReceiveFacts DEF TypeOK, Receive
<1>2. ASSUME NEW n \in Place'
      PROVE  n + 1 \in Place /\ ItemAt(n)' = ItemAt(n + 1)
  <2>1. CASE n = 0
    BY <1>1, <1>2, <2>1, ReceiveFacts DEF Place, ItemAt
  <2>2. CASE n # 0
    BY <1>1, <1>2, <2>2, ReceiveFacts DEF Place, ItemAt
  <2> QED
    BY <2>1, <2>2
<1>3. ASSUME NEW n \in Place, ItemAt(n).generation = generation
      PROVE  n - 1 \in Place' /\ ItemAt(n - 1)' = ItemAt(n)
  <2>1. n \in 1 .. Len(work) /\ ItemAt(n) = work[n]
    BY <1>1, <1>3 DEF Place, ItemAt
  <2>2. CASE n = 1
    BY <1>1, <1>3, <2>1, <2>2, ReceiveFacts DEF Place, ItemAt
  <2>3. CASE n # 1
    <3>1. n - 1 \in 1 .. Len(work') /\ work'[n - 1] = work[n]
      BY SMTT(30), <1>1, <2>1, <2>3, ReceiveFacts
    <3> QED
      BY <1>1, <2>1, <3>1 DEF Place, ItemAt
  <2> QED
    BY <2>2, <2>3
<1> QED
  BY <1>1, <1>2, <1>3 DEF Place

(* The places after any other step of the worker.                          *)
LEMMA WorkerPlaces ==
  ASSUME TypeOK, WorkerStep, ~Receive
  PROVE  /\ Place' = 1 .. Len(work)
         /\ \A n \in Place' : n \in Place /\ n > 0 /\ ItemAt(n)' = ItemAt(n)
         /\ \A n \in Place : n \in Place' \/ (n = 0 /\ at = "process")
<1>1. work' = work /\ at' # "process" /\ Len(work) \in Nat
  BY WorkerFacts DEF TypeOK
<1> QED
  BY <1>1 DEF Place, ItemAt

(* What the queue gains from a step of the environment.                    *)
LEMMA EnvironmentGrows ==
  ASSUME TypeOK, Environment
  PROVE  \E item \in Item :
           /\ Grown(item)
           /\ \/ UNCHANGED generation /\ item.type # "reset"
              \/ Connect \/ Disconnect \/ ServiceChanged
<1> USE DEF TypeOK
<1>1. generation \in Nat /\ WriteResult(TRUE) \in Item
  <2>1. generation \in Nat
    BY WorkerAssumption
  <2>2. \A ok \in BOOLEAN : WriteResult(ok) \in Item
    BY <2>1, ItemFacts
  <2> QED
    BY <2>1, <2>2
<1>2. ASSUME NEW item \in Item, UNCHANGED work PROVE Grown(item)
  BY <1>2, ItemGrows
<1>3. CASE Connect
  BY <1>1, <1>2, <1>3 DEF Connect, queueVars
<1>4. CASE Disconnect \/ ServiceChanged
  <2>1. Reset(generation') \in Item
    BY <1>1, <1>4, ItemFacts DEF Disconnect, ServiceChanged
  <2> QED
    BY <1>4, <2>1, ResetGrows
<1>5. CASE BecomeReady
  <2>1. WriteResult(TRUE).type # "reset"
    BY DEF WriteResult
  <2> QED
    BY <1>1, <1>2, <1>5, <2>1 DEF BecomeReady, queueVars
<1>6. ASSUME NEW event \in Event, NotificationSource(event)
      PROVE  \E item \in Item : Grown(item) /\ UNCHANGED generation /\ item.type # "reset"
  <2>1. EventItem(event) \in Item /\ EventItem(event).type # "reset"
    BY <1>1, ItemFacts DEF EventItem
  <2> QED
    BY <1>6, <2>1, ItemGrows DEF NotificationSource, linkVars
<1>7. CASE DataSource
  <2>1. Head(answers) \in Piece
    BY <1>7, HeadTailProperties DEF DataSource, Sends
  <2>2. Fragment(Head(answers)) \in Item /\ Fragment(Head(answers)).type # "reset"
    BY <1>1, <2>1, ItemFacts DEF Fragment
  <2> QED
    BY <1>7, <2>2, ItemGrows DEF DataSource, linkVars
<1>8. ASSUME NEW ok \in BOOLEAN, ControlPoint(ok)
      PROVE  \E item \in Item : Grown(item) /\ UNCHANGED generation /\ item.type # "reset"
  <2>1. WriteResult(ok) \in Item /\ WriteResult(ok).type # "reset"
    BY <1>1, ItemFacts DEF WriteResult
  <2> QED
    BY <1>8, <2>1, ItemGrows DEF ControlPoint, linkVars
<1> QED
  BY <1>3, <1>4, <1>5, <1>6, <1>7, <1>8 DEF Environment

LEMMA ResetNext ==
  ASSUME IInv, Environment \/ WorkerStep
  PROVE  ResetComesFirst'
<1> USE DEF IInv
<1> SUFFICES ASSUME NEW n \in Place', ItemAt(n)'.type = "reset",
                    ItemAt(n)'.generation = generation'
             PROVE  /\ \A m \in Place' : m < n => ItemAt(m)'.generation # generation'
                    /\ worker_generation' = generation' =>
                         active' = None /\ at' \in {"top", "receive", "process"}
  BY DEF ResetComesFirst
<1>0. Len(work) \in Nat /\ Place \subseteq Nat
  BY DEF TypeOK, Place
<1>1. CASE Environment
  <2>1. PICK item \in Item :
          /\ Grown(item)
          /\ \/ UNCHANGED generation /\ item.type # "reset"
             \/ Connect \/ Disconnect \/ ServiceChanged
    BY <1>1, EnvironmentGrows
  <2>2. UNCHANGED << at, held, worker_generation, active >>
    BY <1>1, EnvironmentFacts DEF workerVars
  <2>3. /\ \A m \in Place : m \in Place' /\ ItemAt(m)' = ItemAt(m)
        /\ \A m \in Place' : m \in Place \/ (m = Len(work) + 1 /\ ItemAt(m)' = item)
        /\ \A m \in Place : m < Len(work) + 1
    BY <2>1, <2>2, GrownPlaces
  <2>4. CASE UNCHANGED generation /\ item.type # "reset"
    <3>1. n \in Place /\ ItemAt(n)' = ItemAt(n) /\ n < Len(work) + 1
      BY <2>3, <2>4
    <3>2. \A m \in Place' : m < n => m \in Place /\ ItemAt(m)' = ItemAt(m)
      BY <1>0, <2>3, <3>1
    <3> QED
      BY <2>2, <2>4, <3>1, <3>2 DEF ResetComesFirst
  <2>5. CASE Connect \/ Disconnect \/ ServiceChanged
    <3>1. \A m \in Place : ItemAt(m).generation # generation'
      BY <2>5, ChangeFacts DEF Place, ItemAt
    <3>2. n = Len(work) + 1 /\ worker_generation' # generation'
      BY <2>3, <2>5, <3>1, ChangeFacts
    <3> QED
      BY <1>0, <2>3, <3>1, <3>2
  <2> QED
    BY <2>1, <2>4, <2>5
<1>2. CASE Receive
  <2>1. UNCHANGED << generation, worker_generation, active >>
    BY <1>2 DEF Receive, linkVars
  <2>2. at' \in {"process", "top"}
    BY <1>2, ReceiveFacts
  <2>3. n + 1 \in Place /\ ItemAt(n)' = ItemAt(n + 1)
    BY <1>2, ReceivePlaces
  <2>4. \A m \in Place' : m < n => m + 1 < n + 1 /\ m + 1 \in Place /\ ItemAt(m)' = ItemAt(m + 1)
    BY <1>2, ReceivePlaces
  <2> QED
    BY <2>1, <2>2, <2>3, <2>4 DEF ResetComesFirst
<1>3. CASE WorkerStep /\ ~Receive
  <2>1. /\ n \in Place /\ n > 0 /\ ItemAt(n)' = ItemAt(n) /\ generation' = generation
        /\ \A m \in Place' : m \in Place /\ ItemAt(m)' = ItemAt(m)
    BY <1>3, WorkerPlaces, WorkerFacts
  <2>2. /\ \A m \in Place : m < n => ItemAt(m).generation # generation
        /\ worker_generation = generation =>
             active = None /\ at \in {"top", "receive", "process"}
    BY <2>1 DEF ResetComesFirst
  <2>3. at = "process" => held.generation # generation /\ worker_generation # generation
    BY <2>1, <2>2 DEF Place, ItemAt, HeldFits
  <2>4. work # << >>
    BY <1>3, <2>1, WorkerPlaces DEF TypeOK
  <2>5. CASE CheckGeneration
    BY <2>1, <2>2, <2>5 DEF CheckGeneration, ResetSession
  <2>6. CASE ProcessReset
    BY <2>1, <2>2, <2>3, <2>6 DEF ProcessReset, Processed, ResetSession
  <2>7. CASE ~CheckGeneration /\ ~ProcessReset
    <3>1. worker_generation' = worker_generation /\ at \in {"process", "deadline", "next"}
      BY <1>3, <2>4, <2>7 DEF WorkerStep, Process, ReceiveNothing, ProcessDuplicate,
           ProcessRemoved, ProcessPosted, ProcessFragment, ProcessWriteResult,
           Processed, Timeout, InTime, StartNextRequest
    <3> QED
      BY <2>1, <2>2, <2>3, <3>1
  <2> QED
    BY <2>5, <2>6, <2>7
<1> QED
  BY <1>1, <1>2, <1>3

-----------------------------------------------------------------------------
(***************************************************************************)
(* Removed notifications.                                                  *)
(***************************************************************************)
LiveInv == NothingGone /\ SessionsFit /\ CachedIsLive

LEMMA CachedDistinct ==
  CachedIsLive <=>
    /\ Distinct(cache)
    /\ \A n \in 1 .. Len(cache) :
         cache[n].session = session_id => cache[n].uid \notin gone
  BY DEF CachedIsLive, Distinct

(* A request ends, or is written, for a uid that is not gone or silently.  *)
LEMMA OutcomeLive ==
  ASSUME IInv, NEW r \in RequestType, Sent(r) \/ Ended(r),
         \/ r.event.uid \notin gone
         \/ active' = None /\ UNCHANGED cache,
         UNCHANGED << gone, session_id >>, Waits(pending', gone)
  PROVE  LiveInv'
<1> USE DEF IInv, TypeOK
<1>1. CASE cache' = cache
  <2>1. CachedIsLive'
    BY <1>1 DEF CachedIsLive
  <2>2. active' # None => /\ active'.session <= session_id
                          /\ active'.event.uid \notin gone
    BY DEF Sent, Ended
  <2> QED
    BY <1>1, <2>1, <2>2 DEF LiveInv, NothingGone, SessionsFit
<1>2. ASSUME NEW s \in 0 .. session_id, r.event.uid \notin gone, active' = None,
             cache' = Touch(cache, CacheKey(s, r.event.uid), CacheCapacity)
      PROVE  LiveInv'
  <2> DEFINE key == CacheKey(s, r.event.uid)
  <2>1. key \in CacheEntry /\ key.session = s /\ key.uid = r.event.uid
    BY RequestFacts DEF CacheKey, CacheEntry
  <2>2. CacheCapacity \in Nat \ {0} /\ Distinct(cache)
    BY WorkerAssumption, CachedDistinct
  <2>3. cache' = Touch(cache, key, CacheCapacity)
    BY <1>2
  <2> HIDE DEF key
  <2>4. /\ Distinct(cache')
        /\ \A n \in 1 .. Len(cache') :
             cache'[n] = key \/ \E m \in 1 .. Len(cache) : cache'[n] = cache[m]
    BY <2>1, <2>2, <2>3, TouchFacts
  <2>5. \A n \in 1 .. Len(cache') :
          /\ cache'[n].session <= session_id
          /\ cache'[n].session = session_id => cache'[n].uid \notin gone
    <3>1. \A n \in 1 .. Len(cache) :
            /\ cache[n].session <= session_id
            /\ cache[n].session = session_id => cache[n].uid \notin gone
      BY DEF SessionsFit, CachedIsLive
    <3>2. key.session <= session_id /\ key.uid \notin gone
      BY <1>2, <2>1
    <3> HIDE DEF IInv, TypeOK
    <3> QED
      BY <2>4, <3>1, <3>2
  <2>6. CachedIsLive'
    BY <2>4, <2>5 DEF CachedIsLive, Distinct
  <2> QED
    BY <1>2, <2>5, <2>6 DEF LiveInv, NothingGone, SessionsFit
<1> QED
  BY <1>1, <1>2 DEF Sent, Ended

LEMMA SettlesLive ==
  ASSUME IInv, Settles, UNCHANGED << gone, session_id, pending >>
  PROVE  LiveInv'
<1>1. active \in RequestType /\ (Sent(active) \/ Ended(active))
  BY DEF IInv, TypeOK, Settles
<1>2. active.canceled => active' = None /\ UNCHANGED cache
  BY DEF Settles, Ended
<1>3. ~active.canceled => active.event.uid \notin gone
  BY DEF IInv, NothingGone, Settles
<1>4. Waits(pending', gone)
  BY DEF IInv, NothingGone
<1> QED
  BY <1>1, <1>2, <1>3, <1>4, OutcomeLive

LEMMA RemovedLive ==
  ASSUME IInv, ProcessRemoved
  PROVE  LiveInv'
<1> USE DEF IInv, TypeOK
<1> DEFINE uid == held.event.uid
           key == CacheKey(session_id, uid)
<1>1. /\ pending' = CancelUid(pending, uid) /\ active' = Canceled(active, uid)
      /\ cache' = Drop(cache, key) /\ gone' = gone \cup {uid}
      /\ session_id' = session_id
  BY DEF ProcessRemoved, linkVars
<1>2. Waits(pending', gone')
  BY <1>1, CancelFacts DEF NothingGone
<1>3. /\ active' # None => active'.session <= session_id
      /\ active' # None /\ ~active'.canceled => active'.event.uid \notin gone'
  <2>1. CASE active = None
    BY <1>1, <2>1 DEF Canceled
  <2>2. CASE active # None /\ active.event.uid = uid
    BY <1>1, <2>2 DEF Canceled, RequestType, SessionsFit
  <2>3. CASE active # None /\ active.event.uid # uid
    BY <1>1, <2>3 DEF Canceled, SessionsFit, NothingGone
  <2> QED
    BY <2>1, <2>2, <2>3
<1>4. /\ Distinct(cache') /\ cache' \in Seq(CacheEntry)
      /\ \A n \in 1 .. Len(cache') : cache'[n] # key
      /\ \A n \in 1 .. Len(cache') : \E m \in 1 .. Len(cache) : cache'[n] = cache[m]
  <2>1. cache \in Seq(CacheEntry) /\ Distinct(cache) /\ cache' = Drop(cache, key)
    BY <1>1, CachedDistinct
  <2> HIDE DEF IInv, TypeOK, key
  <2>2. Drop(cache, key) \in Seq(CacheEntry) /\ Distinct(Drop(cache, key))
    BY <2>1, DropFacts, DropDistinct
  <2>3. \A n \in 1 .. Len(Drop(cache, key)) :
          /\ Drop(cache, key)[n] # key
          /\ \E m \in 1 .. Len(cache) : Drop(cache, key)[n] = cache[m]
    BY <2>1, DropFacts, DropDistinct
  <2> QED
    BY <2>1, <2>2, <2>3
<1>5. \A k \in CacheEntry : k # key => k.session # session_id \/ k.uid # uid
  BY DEF CacheKey, CacheEntry
<1>6. \A n \in 1 .. Len(cache) :
        /\ cache[n].session <= session_id
        /\ cache[n].session = session_id => cache[n].uid \notin gone
  BY DEF SessionsFit, CachedIsLive
<1> HIDE DEF key, uid, IInv, TypeOK
<1>7. \A n \in 1 .. Len(cache') :
        /\ cache'[n].session <= session_id
        /\ cache'[n].session = session_id => cache'[n].uid \notin gone'
  <2> TAKE n \in 1 .. Len(cache')
  <2>1. PICK m \in 1 .. Len(cache) : cache'[n] = cache[m]
    BY <1>4
  <2>2. cache'[n] \in CacheEntry /\ cache'[n] # key
    BY <1>4
  <2> QED
    BY <1>1, <1>5, <1>6, <2>1, <2>2
<1>8. CachedIsLive'
  BY <1>1, <1>4, <1>7 DEF CachedIsLive, Distinct
<1> QED
  BY <1>1, <1>2, <1>3, <1>7, <1>8 DEF LiveInv, NothingGone, SessionsFit

LEMMA LiveNext ==
  ASSUME IInv, Environment \/ WorkerStep
  PROVE  LiveInv'
<1> USE DEF IInv
<1>1. CASE UNCHANGED << pending, active, cache, gone, session_id >>
  BY <1>1 DEF LiveInv, NothingGone, SessionsFit, CachedIsLive, Waits
<1>2. CASE Environment
  <2>1. UNCHANGED << pending, active, cache, gone >>
    BY <1>2, EnvironmentFacts DEF workerVars
  <2>2. CASE BecomeReady
    <3>1. session_id' = session_id + 1 /\ session_id \in Nat
      BY <2>2 DEF BecomeReady, TypeOK
    <3>2. active # None => active.session \in Nat
      BY RequestFacts DEF TypeOK
    <3>3. \A n \in 1 .. Len(cache) :
            cache[n].session \in Nat /\ cache[n].session <= session_id
      <4>1. \A n \in 1 .. Len(cache) : cache[n] \in CacheEntry
        BY DEF TypeOK
      <4>2. \A k \in CacheEntry : k.session \in Nat
        BY DEF CacheEntry
      <4> QED
        BY <4>1, <4>2 DEF SessionsFit
    <3>4. SessionsFit'
      BY <2>1, <3>1, <3>2, <3>3 DEF SessionsFit
    <3>5. CachedIsLive'
      BY <2>1, <3>1, <3>3 DEF CachedIsLive
    <3> QED
      BY <2>1, <3>4, <3>5 DEF LiveInv, NothingGone, Waits
  <2>3. CASE ~BecomeReady
    <3>1. session_id' = session_id
      BY <1>2, <2>3 DEF Environment, Connect, Disconnect, ServiceChanged,
           NotificationSource, DataSource, ControlPoint, linkVars
    <3> QED
      BY <1>1, <2>1, <3>1
  <2> QED
    BY <2>2, <2>3
<1>3. ASSUME NEW g, ResetSession(g), UNCHANGED << gone, session_id >> PROVE LiveInv'
  BY <1>3, EmptyFacts
  DEF ResetSession, LiveInv, NothingGone, SessionsFit, CachedIsLive
<1>4. CASE CheckGeneration
  BY <1>1, <1>3, <1>4 DEF CheckGeneration, linkVars
<1>5. CASE ProcessReset
  BY <1>3, <1>5 DEF ProcessReset, linkVars, history
<1>6. CASE Receive \/ ReceiveNothing \/ ProcessDuplicate \/ InTime
  BY <1>1, <1>6
  DEF Receive, ReceiveNothing, ProcessDuplicate, InTime, linkVars, history
<1>7. CASE ProcessRemoved
  BY <1>7, RemovedLive
<1>8. CASE ProcessPosted
  <2>1. UNCHANGED << active, cache, session_id >> /\ gone' = gone \ {held.event.uid}
    BY <1>8 DEF ProcessPosted, linkVars
  <2>2. held.event \in Event
    BY <1>8 DEF ProcessPosted, Processed, TypeOK, Item
  <2>3. Waits(pending, gone')
    BY <2>1, WaitsFewer DEF NothingGone
  <2>4. Waits(pending', gone')
    <3>1. CASE IsFull(pending)
      BY <1>8, <2>3, <3>1 DEF ProcessPosted
    <3>2. CASE ~IsFull(pending)
      BY <1>8, <2>1, <2>2, <2>3, <3>2, PushFacts DEF ProcessPosted, TypeOK
    <3> QED
      BY <3>1, <3>2
  <2> QED
    BY <2>1, <2>4 DEF LiveInv, NothingGone, SessionsFit, CachedIsLive
<1>9. CASE ProcessFragment
  <2>1. UNCHANGED << gone, session_id, pending >>
    BY <1>9 DEF ProcessFragment
  <2>2. CASE Reads
    <3>1. /\ active'.session = active.session /\ active'.canceled = active.canceled
          /\ active'.event = active.event /\ cache' = cache /\ active # None
      BY <2>2 DEF Reads, TypeOK, RequestType
    <3> QED
      BY <2>1, <3>1 DEF LiveInv, NothingGone, SessionsFit, CachedIsLive
  <2> QED
    BY <1>1, <1>9, <2>1, <2>2, FragmentOutcome, SettlesLive
<1>10. CASE ProcessWriteResult
  <2>1. UNCHANGED << gone, session_id, pending >>
    BY <1>10 DEF ProcessWriteResult
  <2> QED
    BY <1>1, <1>10, <2>1, WriteResultOutcome, SettlesLive
<1>11. CASE Timeout
  BY <1>11, TimeoutOutcome, SettlesLive DEF Timeout
<1>12. CASE StartNextRequest
  <2>1. UNCHANGED << gone, session_id >>
    BY <1>12 DEF StartNextRequest
  <2>2. ASSUME NEW r, Starts(r) PROVE LiveInv'
    <3>1. Waits(pending', gone) /\ r.event.uid \notin gone
      BY <2>2, PopFacts DEF Starts, NothingGone, TypeOK
    <3> QED
      BY <2>1, <2>2, <3>1, OutcomeLive DEF Starts
  <2> QED
    BY <1>1, <1>12, <2>1, <2>2, StartOutcome
<1> QED
  BY <1>2, <1>4, <1>5, <1>6, <1>7, <1>8, <1>9, <1>10, <1>11, <1>12
  DEF WorkerStep, Process

-----------------------------------------------------------------------------
(***************************************************************************)
(* The stream of fragments.                                                *)
(***************************************************************************)
LEMMA Tuples ==
  ASSUME NEW a, NEW b, NEW c
  PROVE  /\ << a, b, c >> # << >> /\ << b, c >> # << >> /\ << c >> # << >>
         /\ Head(<< a, b, c >>) = a /\ Head(<< b, c >>) = b /\ Head(<< c >>) = c
         /\ Tail(<< a, b, c >>) = << b, c >> /\ Tail(<< b, c >>) = << c >>
         /\ Tail(<< c >>) = << >>
         /\ SubSeq(<< a, b, c >>, 4, Len(<< a, b, c >>)) = << >>
  OBVIOUS

(* A step that leaves the answer alone, and moves the items that matter by *)
(* the same distance, leaves the stream where it was.                      *)
LEMMA StreamMoves ==
  ASSUME StreamFits, UNCHANGED << generation, worker_generation, answers, disturbed >>,
         active' = None <=> active = None,
         active # None => active'.parser = active.parser /\ Subject(active') = Subject(active),
         NEW d \in Nat, Place \subseteq Nat, Place' \subseteq Nat,
         \A n \in Place : Matters(ItemAt(n)) => n - d \in Place' /\ ItemAt(n - d)' = ItemAt(n),
         \A n \in Place' : Matters(ItemAt(n))' => n + d \in Place /\ ItemAt(n)' = ItemAt(n + d)
  PROVE  StreamFits'
<1> SUFFICES ASSUME ~disturbed'
             PROVE  \/ Silent'
                    \/ /\ worker_generation' = generation' /\ active' # None
                       /\ (Asked \/ HeadHeard \/ HeadRead \/ AllHeard \/ TailLeft \/ Refused)'
  BY DEF StreamFits
<1>1. \A x : Matters(x)' <=> Matters(x)
  BY DEF Matters, IsFragment, IsRefusal
<1>2. QuietBut({}) => QuietBut({})'
  BY <1>1 DEF QuietBut
<1>3. ASSUME NEW n \in Place, QuietBut({n}) PROVE QuietBut({n - d})'
  <2> SUFFICES ASSUME NEW k \in Place', k # n - d, Matters(ItemAt(k))' PROVE FALSE
    BY DEF QuietBut
  <2>1. k + d \in Place /\ k + d # n /\ Matters(ItemAt(k + d))
    BY <1>1
  <2> QED
    BY <1>3, <2>1 DEF QuietBut
<1>4. ASSUME NEW n \in Place, NEW m \in Place, QuietBut({n, m})
      PROVE  QuietBut({n - d, m - d})'
  <2> SUFFICES ASSUME NEW k \in Place', k # n - d, k # m - d, Matters(ItemAt(k))'
               PROVE  FALSE
    BY DEF QuietBut
  <2>1. k + d \in Place /\ k + d # n /\ k + d # m /\ Matters(ItemAt(k + d))
    BY <1>1
  <2> QED
    BY <1>4, <2>1 DEF QuietBut
<1>5. CASE Silent
  BY <1>2, <1>5 DEF Silent
<1>6. CASE /\ worker_generation = generation /\ active # None
           /\ Asked \/ HeadHeard \/ HeadRead \/ AllHeard \/ TailLeft \/ Refused
  <2>1. worker_generation' = generation' /\ active' # None /\ active'.parser = active.parser
        /\ Subject(active') = Subject(active)
    BY <1>6
  <2>2. \A p : Part(p)' = Part(p)
    BY <2>1 DEF Part
  <2>3. Answer(active)' = Answer(active)
    BY <2>1 DEF Answer
  <2>4. \A n \in Place : \A p : Bears(n, p) => n - d \in Place' /\ Bears(n - d, p)'
    BY <2>2 DEF Bears, Matters, IsFragment
  <2>5. \A n \in Place : IsRefusal(ItemAt(n)) => n - d \in Place' /\ IsRefusal(ItemAt(n - d))'
    BY DEF Matters, IsRefusal
  <2>6. CASE Asked
    BY <1>2, <2>1, <2>2, <2>3, <2>6 DEF Asked
  <2>7. CASE HeadHeard
    BY <1>3, <2>1, <2>2, <2>4, <2>7 DEF HeadHeard
  <2>8. CASE HeadRead
    BY <1>2, <2>1, <2>2, <2>8 DEF HeadRead
  <2>9. CASE AllHeard
    <3>1. PICK n \in Place, m \in Place :
            n < m /\ Bears(n, "head") /\ Bears(m, "tail") /\ QuietBut({n, m})
      BY <2>9 DEF AllHeard
    <3>2. /\ n - d \in Place' /\ m - d \in Place' /\ n - d < m - d
          /\ Bears(n - d, "head")' /\ Bears(m - d, "tail")' /\ QuietBut({n - d, m - d})'
      BY <1>4, <2>4, <3>1
    <3> QED
      BY <2>1, <2>9, <3>2 DEF AllHeard
  <2>10. CASE TailLeft
    BY <1>3, <2>1, <2>4, <2>10 DEF TailLeft
  <2>11. CASE Refused
    BY <1>3, <2>1, <2>5, <2>11 DEF Refused
  <2> QED
    BY <1>6, <2>1, <2>6, <2>7, <2>8, <2>9, <2>10, <2>11
<1> QED
  BY <1>5, <1>6 DEF StreamFits

LEMMA PlacesAreNat ==
  ASSUME TypeOK
  PROVE  Place \subseteq Nat /\ Len(work) \in Nat
  BY DEF TypeOK, Place

(* The stream is silent while the worker is behind or has no request.      *)
LEMMA BehindIsSilent ==
  ASSUME StreamFits, ~disturbed, worker_generation # generation \/ active = None
  PROVE  Silent
  BY DEF StreamFits

(* Items of an older generation, and resets, do not matter.                *)
LEMMA StreamChange ==
  ASSUME IInv, Connect \/ Disconnect \/ ServiceChanged, TypeOK'
  PROVE  StreamFits'
<1> USE DEF IInv
<1> SUFFICES ASSUME ~disturbed' PROVE Silent'
  BY DEF StreamFits
<1>1. answers' = << >>
  <2>1. CASE Connect
    BY <2>1 DEF Connect, queueVars, DownIsSilent
  <2>2. CASE Disconnect
    BY <2>2 DEF Disconnect
  <2>3. CASE ServiceChanged
    BY <2>3, Zenon DEF ServiceChanged
  <2> QED
    BY <2>1, <2>2, <2>3
<1>2. PICK item : Grown(item) /\ item.type = "reset"
  <2>1. CASE Connect
    <3>1. work' = work /\ Reset(0).type = "reset"
      BY <2>1 DEF Connect, queueVars, Reset
    <3>2. Grown(Reset(0))
      BY <3>1 DEF Grown, TypeOK
    <3> QED
      BY <3>1, <3>2
  <2>2. CASE Disconnect \/ ServiceChanged
    <3>1. Reset(generation').type = "reset"
      BY DEF Reset
    <3> QED
      BY <2>2, <3>1, ResetGrows
  <2> QED
    BY <2>1, <2>2
<1>3. UNCHANGED << at, held >>
  BY DEF Connect, Disconnect, ServiceChanged, workerVars
<1>4. \A n \in Place : ItemAt(n).generation # generation'
  BY ChangeFacts DEF Place, ItemAt
<1>5. \A n \in Place' : ItemAt(n)'.generation # generation' \/ ItemAt(n)'.type = "reset"
  BY <1>2, <1>3, <1>4, GrownPlaces
<1> QED
  BY <1>1, <1>5 DEF Silent, QuietBut, Matters, IsFragment, IsRefusal

(* The phone's next fragment enters the queue.                             *)
LEMMA StreamData ==
  ASSUME IInv, DataSource
  PROVE  StreamFits'
<1> USE DEF IInv
<1> SUFFICES ASSUME ~disturbed'
             PROVE  /\ worker_generation' = generation' /\ active' # None
                    /\ (HeadHeard \/ AllHeard \/ TailLeft)'
  BY DEF StreamFits
<1> DEFINE item == Fragment(Head(answers))
<1>0. PICK last \in Nat : last = Len(work) + 1
  BY PlacesAreNat
<1>1. /\ ~disturbed /\ work' # work /\ work' = Enqueued(item)
      /\ answers' = Tail(answers) /\ answers # << >> /\ Head(answers).part # "response"
  BY DEF DataSource, Sends
<1>2. UNCHANGED << generation, worker_generation, active, at, held >>
  BY DEF DataSource, linkVars, workerVars
<1>3. item \in Item
  <2>1. generation \in Nat /\ Head(answers) \in Piece
    BY <1>1, WorkerAssumption, HeadTailProperties DEF TypeOK
  <2> QED
    BY <2>1, ItemFacts
<1>4. Grown(item) /\ Len(work') = last /\ work'[last] = item
  <2>1. Len(work) < WorkCapacity /\ work' = Append(work, item)
    BY <1>1 DEF Enqueued
  <2>2. Grown(item)
    BY <1>1, <1>3, ItemGrows
  <2> QED
    BY <1>0, <2>1, <2>2 DEF TypeOK
<1>5. /\ \A n \in Place : n \in Place' /\ ItemAt(n)' = ItemAt(n) /\ n < last
      /\ \A n \in Place' : n \in Place \/ n = last
      /\ last \in Place' /\ ItemAt(last)' = item
  <2>1. /\ \A n \in Place : n \in Place' /\ ItemAt(n)' = ItemAt(n) /\ n < last
        /\ \A n \in Place' : n \in Place \/ n = last
    BY <1>0, <1>2, <1>4, GrownPlaces
  <2>2. last \in Place' /\ ItemAt(last)' = item
    BY <1>0, <1>4, PlacesAreNat DEF Place, ItemAt
  <2> QED
    BY <2>1, <2>2
<1>6. item.type = "fragment" /\ item.generation = generation /\ item.fragment = Head(answers)
  BY DEF Fragment
<1> HIDE DEF item
<1>7. /\ worker_generation = generation /\ active # None
      /\ Asked \/ HeadHeard \/ HeadRead \/ AllHeard \/ TailLeft \/ Refused
  BY <1>1 DEF StreamFits, Silent
<1>8. /\ \A p : Part(p)' = Part(p)
      /\ \A x : Matters(x)' <=> Matters(x)
      /\ \A n \in Place : \A p : Bears(n, p) => Bears(n, p)'
  BY <1>2, <1>5 DEF Part, Matters, IsFragment, IsRefusal, Bears, Subject
<1>9. ASSUME QuietBut({}) PROVE QuietBut({last})'
  BY <1>5, <1>8, <1>9 DEF QuietBut
<1>10. ASSUME NEW n, QuietBut({n}) PROVE QuietBut({n, last})'
  BY <1>5, <1>8, <1>10 DEF QuietBut
<1>11. \A p : Head(answers) = Part(p) => Bears(last, p)'
  BY <1>2, <1>5, <1>6, <1>8 DEF Bears, IsFragment
<1>12. CASE Asked
  <2>1. answers = << Part("head"), Part("tail") >>
    <3>1. Head(Answer(active)).part = "response"
      BY Tuples DEF Answer
    <3> QED
      BY <1>1, <1>12, <3>1 DEF Asked
  <2>2. Head(answers) = Part("head") /\ answers' = << Part("tail") >>
    BY <1>1, <2>1, Tuples
  <2>3. active'.parser = "fresh" /\ answers' = << Part("tail")' >>
    BY <1>2, <1>8, <1>12, <2>2 DEF Asked
  <2>4. Bears(last, "head")' /\ QuietBut({last})'
    BY <1>9, <1>11, <1>12, <2>2 DEF Asked
  <2>5. HeadHeard'
    BY <1>5, <2>3, <2>4 DEF HeadHeard
  <2> QED
    BY <1>2, <1>7, <2>5
<1>13. CASE HeadHeard
  <2>1. Head(answers) = Part("tail") /\ answers' = << >> /\ active'.parser = "fresh"
    BY <1>1, <1>2, <1>13, Tuples DEF HeadHeard
  <2>2. PICK n \in Place : Bears(n, "head") /\ QuietBut({n})
    BY <1>13 DEF HeadHeard
  <2>3. /\ n \in Place' /\ n < last /\ Bears(n, "head")' /\ Bears(last, "tail")'
        /\ QuietBut({n, last})'
    BY <1>5, <1>8, <1>10, <1>11, <2>1, <2>2
  <2>4. AllHeard'
    BY <1>5, <2>1, <2>3 DEF AllHeard
  <2> QED
    BY <1>2, <1>7, <2>4
<1>14. CASE HeadRead
  <2>1. Head(answers) = Part("tail") /\ answers' = << >> /\ active'.parser = "started"
    BY <1>1, <1>2, <1>14, Tuples DEF HeadRead
  <2>2. TailLeft'
    BY <1>5, <1>9, <1>11, <1>14, <2>1 DEF HeadRead, TailLeft
  <2> QED
    BY <1>2, <1>7, <2>2
<1> QED
  BY <1>1, <1>7, <1>12, <1>13, <1>14 DEF AllHeard, TailLeft, Refused

(* The phone responds to the write.                                        *)
LEMMA StreamControl ==
  ASSUME IInv, NEW ok \in BOOLEAN, ControlPoint(ok)
  PROVE  StreamFits'
<1> USE DEF IInv
<1> SUFFICES ASSUME ~disturbed'
             PROVE  \/ Silent'
                    \/ /\ worker_generation' = generation' /\ active' # None
                       /\ Asked' \/ Refused'
  BY DEF StreamFits
<1> DEFINE item == WriteResult(ok)
<1>0. PICK last \in Nat : last = Len(work) + 1
  BY PlacesAreNat
<1>1. /\ ~disturbed /\ work' \in {Enqueued(item), work}
      /\ answers' = IF ok THEN Tail(answers) ELSE SubSeq(answers, 4, Len(answers))
      /\ answers # << >> /\ Head(answers).part = "response"
  BY DEF ControlPoint, Sends, history
<1>2. UNCHANGED << generation, worker_generation, active, at, held >>
  BY DEF ControlPoint, linkVars, workerVars
<1>3. item \in Item
  BY ItemFacts, WorkerAssumption DEF TypeOK
<1>4. Grown(item)
  BY <1>1, <1>3, ItemGrows
<1>5. /\ \A n \in Place : n \in Place' /\ ItemAt(n)' = ItemAt(n) /\ n < last
      /\ \A n \in Place' : n \in Place \/ (n = last /\ ItemAt(n)' = item)
  BY <1>0, <1>2, <1>4, GrownPlaces
<1>6. item.type = "write_result" /\ item.generation = generation /\ item.ok = ok
  BY DEF WriteResult
<1> HIDE DEF item
<1>7. /\ worker_generation = generation /\ active # None
      /\ Asked \/ HeadHeard \/ HeadRead \/ AllHeard \/ TailLeft \/ Refused
  BY <1>1 DEF StreamFits, Silent
<1>8. /\ \A p : Part(p)' = Part(p)
      /\ \A x : Matters(x)' <=> Matters(x)
  BY <1>2 DEF Part, Matters, IsFragment, IsRefusal, Subject
<1>9. \A p : Part(p).part = p
  BY DEF Part
<1>10. Asked /\ answers = Answer(active)
  <2>1. ~HeadHeard /\ ~HeadRead
    BY <1>1, <1>9, Tuples DEF HeadHeard, HeadRead
  <2>2. answers # << Part("head"), Part("tail") >>
    BY <1>1, <1>9, Tuples
  <2> QED
    BY <1>1, <1>7, <2>1, <2>2 DEF AllHeard, TailLeft, Refused, Asked
<1>11. /\ Tail(answers) = << Part("head"), Part("tail") >>
       /\ SubSeq(answers, 4, Len(answers)) = << >>
  BY <1>10, Tuples DEF Answer, Part
<1>12. \A n \in Place : ~Matters(ItemAt(n))
  BY <1>10 DEF Asked, QuietBut
<1>13. CASE ok
  <2>1. QuietBut({})'
    BY <1>5, <1>6, <1>8, <1>12, <1>13 DEF QuietBut, Matters, IsFragment, IsRefusal
  <2>2. answers' = << Part("head")', Part("tail")' >>
    BY <1>1, <1>8, <1>11, <1>13
  <2>3. active'.parser = "fresh"
    BY <1>2, <1>10 DEF Asked
  <2>4. Asked'
    BY <2>1, <2>2, <2>3 DEF Asked
  <2> QED
    BY <1>2, <1>7, <2>4
<1>14. CASE ~ok
  <2>1. answers' = << >>
    BY <1>1, <1>11, <1>14
  <2>2. CASE last \in Place'
    <3>1. ItemAt(last)' = item
      BY <1>0, <1>5, <2>2
    <3>2. IsRefusal(ItemAt(last))'
      BY <1>2, <1>6, <1>14, <3>1 DEF IsRefusal
    <3>3. QuietBut({last})'
      BY <1>5, <1>8, <1>12 DEF QuietBut
    <3>4. Refused'
      BY <2>1, <2>2, <3>2, <3>3 DEF Refused
    <3> QED
      BY <1>2, <1>7, <3>4
  <2>3. CASE last \notin Place'
    BY <1>5, <1>8, <1>12, <2>1, <2>3 DEF Silent, QuietBut
  <2> QED
    BY <2>2, <2>3
<1> QED
  BY <1>13, <1>14

(* The worker takes up a request, or ends one, when nothing is under way.  *)
LEMMA OutcomeStream ==
  ASSUME TypeOK, answers = << >>, \A n \in Place' : ~Matters(ItemAt(n)'),
         UNCHANGED << generation, worker_generation >>,
         NEW r, Sent(r) \/ Ended(r)
  PROVE  StreamFits'
<1>1. QuietBut({})'
  BY DEF QuietBut, Matters, IsFragment, IsRefusal
<1>2. CASE Ended(r)
  BY <1>1, <1>2 DEF Ended, StreamFits, Silent
<1>3. CASE Sent(r)
  <2>1. PICK s \in RequestType : /\ active' = s /\ s.parser = "fresh" /\ ConnectionValid
                                 /\ answers' = answers \o Answer(s)
    BY <1>3 DEF Sent
  <2>2. answers' = Answer(s)
    BY <2>1, AnswerFacts, ConcatEmptySeq
  <2>3. active' # None /\ worker_generation' = generation'
    BY <2>1, NoneAssumption DEF ConnectionValid
  <2>4. Answer(active)' = Answer(s)
    BY <2>1 DEF Answer, Subject
  <2>5. Asked'
    BY <1>1, <2>1, <2>2, <2>4 DEF Asked
  <2> QED
    BY <2>3, <2>5 DEF StreamFits
<1> QED
  BY <1>2, <1>3

(* A step after which nothing is under way, as before it.                  *)
LEMMA SilentStays ==
  ASSUME IInv, WorkerStep, ~Receive, Silent, UNCHANGED answers
  PROVE  StreamFits'
<1>1. UNCHANGED generation
  BY WorkerFacts
<1>2. \A n \in Place' : n \in Place /\ ItemAt(n)' = ItemAt(n)
  BY WorkerPlaces DEF IInv
<1> QED
  BY <1>1, <1>2 DEF Silent, QuietBut, Matters, IsFragment, IsRefusal, StreamFits

(* A step of the worker that leaves the request in flight alone, and takes *)
(* no item that matters.                                                   *)
LEMMA StreamStays ==
  ASSUME IInv, WorkerStep, ~Receive,
         UNCHANGED << worker_generation, answers, disturbed >>,
         active' = None <=> active = None,
         active # None => active'.parser = active.parser /\ Subject(active') = Subject(active),
         at = "process" => ~Matters(held)
  PROVE  StreamFits'
<1>1. UNCHANGED generation
  BY WorkerFacts
<1>2. /\ \A n \in Place' : n \in Place /\ n > 0 /\ ItemAt(n)' = ItemAt(n)
      /\ \A n \in Place : n \in Place' \/ (n = 0 /\ at = "process")
  BY WorkerPlaces DEF IInv
<1>3. Place \subseteq Nat /\ Place' \subseteq Nat
  BY <1>2, PlacesAreNat DEF IInv
<1>4. /\ \A n \in Place : Matters(ItemAt(n)) => n \in Place' /\ ItemAt(n)' = ItemAt(n)
      /\ \A n \in Place' : n \in Place /\ ItemAt(n)' = ItemAt(n)
  BY <1>2 DEF ItemAt
<1>5. \A n \in Nat : n - 0 = n /\ n + 0 = n
  OBVIOUS
<1>6. /\ \A n \in Place : Matters(ItemAt(n)) => n - 0 \in Place' /\ ItemAt(n - 0)' = ItemAt(n)
      /\ \A n \in Place' : n + 0 \in Place /\ ItemAt(n)' = ItemAt(n + 0)
  BY <1>3, <1>4, <1>5
<1> QED
  BY <1>1, <1>3, <1>6, StreamMoves DEF IInv

LEMMA StreamReceive ==
  ASSUME IInv, Receive
  PROVE  StreamFits'
<1>1. UNCHANGED << generation, worker_generation, answers, disturbed, active >>
  BY DEF Receive, linkVars, history
<1>2. /\ \A n \in Place' : n + 1 \in Place /\ ItemAt(n)' = ItemAt(n + 1)
      /\ \A n \in Place : Matters(ItemAt(n)) => n - 1 \in Place' /\ ItemAt(n - 1)' = ItemAt(n)
      /\ Place \subseteq Nat /\ Place' \subseteq Nat
  BY ReceivePlaces DEF IInv, Matters, IsFragment, IsRefusal
<1>3. Subject(active') = Subject(active)
  BY <1>1
<1> QED
  BY <1>1, <1>2, <1>3, StreamMoves DEF IInv

LEMMA ReadsFacts ==
  ASSUME TypeOK, Reads
  PROVE  /\ active'.parser = "started" /\ active' # None /\ answers' = answers
         /\ Subject(active') = Subject(active)
<1>1. active \in RequestType
  BY DEF Reads, TypeOK
<1>2. /\ active' \in RequestType /\ active'.parser = "started"
      /\ active'.event = active.event /\ active'.kind = active.kind
  BY <1>1 DEF Reads, RequestType
<1>3. Subject(active') = Subject(active)
  BY <1>2 DEF Subject
<1> QED
  BY <1>2, <1>3, NoneAssumption DEF Reads

(* A fragment meets the request in flight.                                 *)
LEMMA StreamFragment ==
  ASSUME IInv, ProcessFragment
  PROVE  StreamFits'
<1> USE DEF IInv
<1> SUFFICES ASSUME ~disturbed' PROVE StreamFits'
  BY DEF StreamFits
<1>1. /\ ~disturbed /\ at = "process" /\ held.type = "fragment"
      /\ UNCHANGED << generation, worker_generation, work >>
      /\ WorkerStep /\ ~Receive
  BY DEF ProcessFragment, Processed, WorkerStep, Process, Receive
<1>2. 0 \in Place /\ ItemAt(0) = held /\ Place \subseteq Nat
  BY <1>1, PlacesAreNat DEF Place, ItemAt
<1>3. /\ \A n \in Place' : n \in Place /\ n > 0 /\ ItemAt(n)' = ItemAt(n)
      /\ \A n \in Place : n > 0 => n \in Place'
  BY <1>1, WorkerPlaces
<1>4. \A x : Matters(x)' <=> Matters(x)
  BY <1>1 DEF Matters, IsFragment, IsRefusal
<1>5. CASE worker_generation # generation
  <2>1. Silent
    BY <1>1, <1>5, BehindIsSilent
  <2>2. UNCHANGED answers
    BY <1>5, FragmentOutcome DEF Reads, Settles, Ended, Sent, ConnectionValid
  <2> QED
    BY <1>1, <2>1, <2>2, SilentStays
<1>6. CASE worker_generation = generation
  <2>1. IsFragment(held) /\ Matters(ItemAt(0)) /\ ~IsRefusal(ItemAt(0))
    BY <1>1, <1>2, <1>6 DEF HeldFits, IsFragment, IsRefusal, Matters
  <2>2. \A S : QuietBut(S) => 0 \in S
    BY <1>2, <2>1 DEF QuietBut
  <2>3. active # None /\ (HeadHeard \/ AllHeard \/ TailLeft)
    BY <1>1, <2>1, <2>2 DEF StreamFits, Silent, Asked, HeadRead, Refused
  <2>4. \A p : Bears(0, p) => held.fragment = Part(p)
    BY <1>2 DEF Bears
  <2>5. CASE HeadHeard
    <3>1. Bears(0, "head") /\ QuietBut({0})
      BY <2>2, <2>5 DEF HeadHeard
    <3>2. InStep(active, held.fragment) /\ active.parser = "fresh"
      <4>1. held.fragment = Part("head") /\ active.parser = "fresh"
        BY <2>4, <2>5, <3>1 DEF HeadHeard
      <4> QED
        BY <4>1 DEF InStep, Part
    <3>3. Reads
      BY <2>3, <3>2, FragmentOutcome
    <3>4. /\ active'.parser = "started" /\ active' # None /\ Subject(active') = Subject(active)
          /\ answers' = answers
      BY <3>3, ReadsFacts
    <3>5. QuietBut({})'
      BY <1>3, <1>4, <3>1 DEF QuietBut
    <3>6. HeadRead'
      BY <2>5, <3>4, <3>5 DEF HeadRead, HeadHeard, Part
    <3> QED
      BY <1>1, <1>6, <3>4, <3>6 DEF StreamFits
  <2>6. CASE AllHeard
    <3>1. PICK n \in Place, m \in Place :
            n < m /\ Bears(n, "head") /\ Bears(m, "tail") /\ QuietBut({n, m})
      BY <2>6 DEF AllHeard
    <3>2. n = 0 /\ m > 0
      BY <1>2, <2>2, <3>1
    <3>3. InStep(active, held.fragment) /\ active.parser = "fresh"
      <4>1. held.fragment = Part("head") /\ active.parser = "fresh"
        BY <2>4, <2>6, <3>1, <3>2 DEF AllHeard
      <4> QED
        BY <4>1 DEF InStep, Part
    <3>4. Reads
      BY <2>3, <3>3, FragmentOutcome
    <3>5. /\ active'.parser = "started" /\ active' # None /\ Subject(active') = Subject(active)
          /\ answers' = answers
      BY <3>4, ReadsFacts
    <3>6. QuietBut({m})'
      <4>1. \A k \in Place : k # 0 /\ k # m => ~Matters(ItemAt(k))
        BY <3>1, <3>2 DEF QuietBut
      <4>2. \A k \in Place' : k \in Place /\ k # 0 /\ ItemAt(k)' = ItemAt(k)
        BY <1>2, <1>3
      <4>3. \A k \in Place' : k # m => ~Matters(ItemAt(k))'
        BY <1>4, <4>1, <4>2
      <4> QED
        BY <4>3 DEF QuietBut
    <3>7. m \in Place' /\ Bears(m, "tail")'
      BY <1>1, <1>3, <3>1, <3>2, <3>5 DEF Bears, IsFragment, Part
    <3>8. TailLeft'
      BY <2>6, <3>5, <3>6, <3>7 DEF TailLeft, AllHeard
    <3> QED
      BY <1>1, <1>6, <3>5, <3>8 DEF StreamFits
  <2>7. CASE TailLeft
    <3>1. Bears(0, "tail") /\ QuietBut({0}) /\ active.parser = "started" /\ answers = << >>
      BY <2>2, <2>7 DEF TailLeft
    <3>2. Settles
      BY <2>3, <3>1, FragmentOutcome DEF Reads
    <3>3. Sent(active) \/ Ended(active)
      BY <3>2 DEF Settles
    <3>4. \A n \in Place' : ~Matters(ItemAt(n)')
      BY <1>3, <3>1 DEF QuietBut
    <3> QED
      BY <1>1, <3>1, <3>3, <3>4, OutcomeStream
  <2> QED
    BY <2>3, <2>5, <2>6, <2>7
<1> QED
  BY <1>5, <1>6

(* A refused write comes back to the request in flight.                    *)
LEMMA StreamWriteResult ==
  ASSUME IInv, ProcessWriteResult
  PROVE  StreamFits'
<1> USE DEF IInv
<1> SUFFICES ASSUME ~disturbed' PROVE StreamFits'
  BY DEF StreamFits
<1>1. /\ ~disturbed /\ at = "process" /\ held.type = "write_result"
      /\ UNCHANGED << generation, worker_generation, work, disturbed >>
      /\ WorkerStep /\ ~Receive
  BY DEF ProcessWriteResult, Processed, WorkerStep, Process, Receive
<1>2. 0 \in Place /\ ItemAt(0) = held
  BY <1>1 DEF Place, ItemAt
<1>3. CASE /\ held.ok \/ active = None
           /\ UNCHANGED << active, answers, sink, cache, link >>
  <2>1. CASE held.ok
    <3>1. ~Matters(held)
      BY <1>1, <2>1 DEF Matters, IsFragment, IsRefusal
    <3>2. Subject(active') = Subject(active)
      BY <1>3
    <3> QED
      BY <1>1, <1>3, <3>1, <3>2, StreamStays
  <2>2. CASE active = None
    BY <1>1, <1>3, <2>2, BehindIsSilent, SilentStays
  <2> QED
    BY <1>3, <2>1, <2>2
<1>4. CASE ~held.ok /\ Settles
  <2>1. CASE worker_generation # generation
    <3>1. UNCHANGED answers
      BY <1>4, <2>1 DEF Settles, Ended, Sent, ConnectionValid
    <3> QED
      BY <1>1, <2>1, <3>1, BehindIsSilent, SilentStays
  <2>2. CASE worker_generation = generation
    <3>1. Matters(ItemAt(0)) /\ ~IsFragment(ItemAt(0))
      BY <1>1, <1>2, <1>4, <2>2 DEF HeldFits, Matters, IsFragment, IsRefusal
    <3>2. \A S : QuietBut(S) => 0 \in S
      BY <1>2, <3>1 DEF QuietBut
    <3>3. Refused
      <4>1. ~Silent /\ ~Asked /\ ~HeadRead
        BY <3>2 DEF Silent, Asked, HeadRead
      <4>2. ~HeadHeard /\ ~AllHeard /\ ~TailLeft
        BY <3>1, <3>2 DEF HeadHeard, AllHeard, TailLeft, Bears
      <4> QED
        BY <1>1, <4>1, <4>2 DEF StreamFits
    <3>4. QuietBut({0}) /\ answers = << >>
      BY <3>2, <3>3 DEF Refused
    <3>5. \A n \in Place' : ~Matters(ItemAt(n)')
      BY <1>1, <3>4, WorkerPlaces DEF QuietBut
    <3>6. Sent(active) \/ Ended(active)
      BY <1>4 DEF Settles
    <3> QED
      BY <1>1, <3>4, <3>5, <3>6, OutcomeStream
  <2> QED
    BY <2>1, <2>2
<1> QED
  BY <1>3, <1>4, WriteResultOutcome

LEMMA StreamReset ==
  ASSUME IInv, ProcessReset
  PROVE  StreamFits'
<1> USE DEF IInv
<1> SUFFICES ASSUME ~disturbed' PROVE StreamFits'
  BY DEF StreamFits
<1>1. /\ ~disturbed /\ at = "process" /\ held.type = "reset"
      /\ UNCHANGED answers /\ WorkerStep /\ ~Receive
  BY DEF ProcessReset, Processed, WorkerStep, Process, Receive, history, queueVars
<1>2. 0 \in Place /\ ItemAt(0) = held
  BY <1>1 DEF Place, ItemAt
<1>3. worker_generation # generation \/ active = None
  BY <1>1, <1>2 DEF HeldFits, ResetComesFirst
<1> QED
  BY <1>1, <1>3, BehindIsSilent, SilentStays

LEMMA StreamWorker ==
  ASSUME IInv, WorkerStep
  PROVE  StreamFits'
<1> USE DEF IInv
<1>1. CASE CheckGeneration
  <2>1. at # "process" /\ UNCHANGED << answers, disturbed >> /\ ~Receive
    BY <1>1 DEF CheckGeneration, queueVars, Receive
  <2>2. CASE worker_generation # generation
    <3> SUFFICES ASSUME ~disturbed' PROVE StreamFits'
      BY DEF StreamFits
    <3> QED
      BY <2>1, <2>2, BehindIsSilent, SilentStays
  <2>3. CASE worker_generation = generation
    <3>1. UNCHANGED << worker_generation, active >>
      BY <1>1, <2>3 DEF CheckGeneration
    <3>2. Subject(active') = Subject(active)
      BY <3>1
    <3> QED
      BY <2>1, <3>1, <3>2, StreamStays
  <2> QED
    BY <2>2, <2>3
<1>2. CASE Receive
  BY <1>2, StreamReceive
<1>3. CASE ReceiveNothing \/ InTime
  <2>1. at # "process" /\ ~Receive
        /\ UNCHANGED << worker_generation, answers, disturbed, active >>
    BY <1>3 DEF ReceiveNothing, InTime, Receive, queueVars, history
  <2>2. Subject(active') = Subject(active)
    BY <2>1
  <2> QED
    BY <2>1, <2>2, StreamStays
<1>4. CASE ProcessDuplicate \/ ProcessPosted
  <2>1. /\ held.type = "event" /\ ~Receive
        /\ UNCHANGED << worker_generation, answers, disturbed, active >>
    BY <1>4
    DEF ProcessDuplicate, ProcessPosted, Processed, Receive, queueVars, history
  <2>2. Subject(active') = Subject(active) /\ ~Matters(held)
    BY <2>1 DEF Matters, IsFragment, IsRefusal
  <2> QED
    BY <2>1, <2>2, StreamStays
<1>5. CASE ProcessRemoved
  <2>1. /\ held.type = "event" /\ ~Receive
        /\ UNCHANGED << worker_generation, answers, disturbed >>
        /\ active' = Canceled(active, held.event.uid)
    BY <1>5 DEF ProcessRemoved, Processed, Receive, queueVars
  <2>2. ~Matters(held)
    BY <2>1 DEF Matters, IsFragment, IsRefusal
  <2>3. CASE active' = active
    <3>1. Subject(active') = Subject(active)
      BY <2>3
    <3> QED
      BY <2>1, <2>2, <2>3, <3>1, StreamStays
  <2>4. CASE active # None /\ active' = [active EXCEPT !.canceled = TRUE]
    <3>1. active \in RequestType
      BY <2>4 DEF TypeOK
    <3>2. /\ active' \in RequestType /\ active'.parser = active.parser
          /\ active'.event = active.event /\ active'.kind = active.kind
      BY <2>4, <3>1 DEF RequestType
    <3>3. Subject(active') = Subject(active) /\ active' # None
      BY <3>2, NoneAssumption DEF Subject
    <3> QED
      BY <2>1, <2>2, <2>4, <3>2, <3>3, StreamStays
  <2> QED
    BY <2>1, <2>3, <2>4 DEF Canceled
<1>6. CASE ProcessFragment
  BY <1>6, StreamFragment
<1>7. CASE ProcessWriteResult
  BY <1>7, StreamWriteResult
<1>8. CASE ProcessReset
  BY <1>8, StreamReset
<1>9. CASE Timeout
  BY <1>9 DEF Timeout, StreamFits
<1>10. CASE StartNextRequest
  <2>1. /\ at # "process" /\ ~Receive
        /\ UNCHANGED << generation, worker_generation, work, disturbed >>
    BY <1>10 DEF StartNextRequest, Receive
  <2>2. CASE UNCHANGED << pending, active, answers, sink, cache, link >>
    <3>1. Subject(active') = Subject(active)
      BY <2>2
    <3> QED
      BY <2>1, <2>2, <3>1, StreamStays
  <2>3. ASSUME NEW r, Starts(r) PROVE StreamFits'
    <3> SUFFICES ASSUME ~disturbed' PROVE StreamFits'
      BY DEF StreamFits
    <3>1. Silent
      BY <2>1, <2>3, BehindIsSilent DEF Starts
    <3>2. \A n \in Place' : ~Matters(ItemAt(n)')
      BY <2>1, <3>1, WorkerPlaces DEF Silent, QuietBut
    <3> QED
      BY <2>1, <2>3, <3>1, <3>2, OutcomeStream DEF Starts, Silent
  <2> QED
    BY <1>10, <2>2, <2>3, StartOutcome
<1> QED
  BY <1>1, <1>2, <1>3, <1>4, <1>5, <1>6, <1>7, <1>8, <1>9, <1>10
  DEF WorkerStep, Process

LEMMA StreamEnvironment ==
  ASSUME IInv, Environment, TypeOK'
  PROVE  StreamFits'
<1> USE DEF IInv
<1>1. CASE Connect \/ Disconnect \/ ServiceChanged
  BY <1>1, StreamChange
<1>2. ASSUME NEW item \in Item, Grown(item), ~Matters(item),
             UNCHANGED << generation, answers, disturbed >>
      PROVE  StreamFits'
  <2>1. UNCHANGED << at, held, worker_generation, active >>
    BY EnvironmentFacts DEF workerVars
  <2>2. /\ \A n \in Place : n \in Place' /\ ItemAt(n)' = ItemAt(n)
        /\ \A n \in Place' : n \in Place \/ ItemAt(n)' = item
    BY <1>2, <2>1, GrownPlaces
  <2>3. Place \subseteq Nat /\ Place' \subseteq Nat
    BY SMTT(30), PlacesAreNat DEF Place, TypeOK
  <2>4. \A n \in Place' : Matters(ItemAt(n))' => n \in Place /\ ItemAt(n)' = ItemAt(n)
    BY <1>2, <2>2 DEF Matters, IsFragment, IsRefusal
  <2>5. \A n \in Nat : n - 0 = n /\ n + 0 = n
    OBVIOUS
  <2>6. /\ \A n \in Place : n - 0 \in Place' /\ ItemAt(n - 0)' = ItemAt(n)
        /\ \A n \in Place' : Matters(ItemAt(n))' => n + 0 \in Place /\ ItemAt(n)' = ItemAt(n + 0)
    BY <2>2, <2>3, <2>4, <2>5
  <2>7. Subject(active') = Subject(active)
    BY <2>1
  <2> QED
    BY <1>2, <2>1, <2>3, <2>6, <2>7, StreamMoves
<1>3. generation \in Nat
  BY WorkerAssumption DEF TypeOK
<1>4. CASE BecomeReady
  <2>1. UNCHANGED << work, generation, answers, disturbed >>
    BY <1>4 DEF BecomeReady, queueVars, history
  <2>2. Reset(0) \in Item /\ ~Matters(Reset(0))
    BY <1>3, ItemFacts DEF Reset, Matters, IsFragment, IsRefusal
  <2> QED
    BY <1>2, <2>1, <2>2, ItemGrows
<1>5. ASSUME NEW event \in Event, NotificationSource(event) PROVE StreamFits'
  <2>1. EventItem(event) \in Item /\ ~Matters(EventItem(event))
    BY <1>3, ItemFacts DEF EventItem, Matters, IsFragment, IsRefusal
  <2>2. Grown(EventItem(event)) /\ UNCHANGED << generation, answers, disturbed >>
    BY <1>5, <2>1, ItemGrows DEF NotificationSource, linkVars
  <2> QED
    BY <1>2, <2>1, <2>2
<1>6. CASE DataSource
  BY <1>6, StreamData
<1>7. ASSUME NEW ok \in BOOLEAN, ControlPoint(ok) PROVE StreamFits'
  BY <1>7, StreamControl
<1> QED
  BY <1>1, <1>4, <1>5, <1>6, <1>7 DEF Environment

-----------------------------------------------------------------------------
LEMMA InvInit == Init => IInv
<1> SUFFICES ASSUME Init PROVE IInv
  OBVIOUS
<1>1. TypeOK
  BY TypeInit
<1>2. Place = {}
  BY DEF Init, Place
<1>3. HeldFits /\ HeadFits /\ DownIsSilent /\ SessionsFit /\ CachedIsLive
  BY DEF Init, HeldFits, HeadFits, DownIsSilent, SessionsFit, CachedIsLive
<1>4. ResetComesFirst
  BY <1>2 DEF ResetComesFirst
<1>5. StreamFits
  BY <1>2 DEF Init, StreamFits, Silent, QuietBut
<1>6. NothingGone
  BY EmptyFacts DEF Init, NothingGone
<1> QED
  BY <1>1, <1>3, <1>4, <1>5, <1>6 DEF IInv

LEMMA InvNext ==
  ASSUME IInv, [Next]_vars
  PROVE  IInv'
<1>1. CASE Environment \/ WorkerStep
  <2>1. TypeOK'
    BY <1>1, TypeEnvironment, TypeWorker
  <2>2. HeldFits' /\ HeadFits' /\ DownIsSilent' /\ ResetComesFirst'
    BY <1>1, HeldNext, HeadNext, DownNext, ResetNext
  <2>3. StreamFits'
    BY <1>1, <2>1, StreamEnvironment, StreamWorker
  <2>4. LiveInv'
    BY <1>1, LiveNext
  <2> QED
    BY <2>1, <2>2, <2>3, <2>4 DEF IInv, LiveInv
<1>2. CASE UNCHANGED vars
  <2> USE <1>2 DEF vars, linkVars, queueVars, workerVars, history, IInv
  <2>1. TypeOK' /\ HeldFits' /\ DownIsSilent'
    BY DEF TypeOK, HeldFits, DownIsSilent
  <2>2. HeadFits' /\ SessionsFit' /\ CachedIsLive' /\ NothingGone'
    BY DEF HeadFits, IsFragment, SessionsFit, CachedIsLive, NothingGone, Waits
  <2>3. Place' = Place /\ \A n : ItemAt(n)' = ItemAt(n)
    BY DEF Place, ItemAt
  <2>4. ResetComesFirst'
    BY <2>3 DEF ResetComesFirst
  <2>5. StreamFits'
    <3>1. \A x : Matters(x)' <=> Matters(x)
      BY DEF Matters, IsFragment, IsRefusal
    <3>2. \A S : QuietBut(S)' <=> QuietBut(S)
      BY <2>3, <3>1 DEF QuietBut
    <3>3. \A p : Part(p)' = Part(p)
      BY DEF Part, Subject
    <3>4. \A n, p : Bears(n, p)' <=> Bears(n, p)
      BY <2>3, <3>3 DEF Bears, IsFragment
    <3>5. \A n : IsRefusal(ItemAt(n))' <=> IsRefusal(ItemAt(n))
      BY <2>3 DEF IsRefusal
    <3>6. Answer(active)' = Answer(active)
      BY DEF Answer, Subject
    <3> QED
      BY <2>3, <3>2, <3>3, <3>4, <3>5, <3>6 DEF StreamFits, Silent, Asked, HeadHeard,
         HeadRead, AllHeard, TailLeft, Refused
  <2> QED
    BY <2>1, <2>2, <2>4, <2>5
<1> QED
  BY <1>1, <1>2 DEF Next

LEMMA Inductive == Spec => []IInv
  BY InvInit, InvNext, PTL DEF Spec

(* The worker's state keeps its types: its queues, caches and counters     *)
(* stay within their capacities, a retry is counted once at most, and no   *)
(* slot of the ring that was never written is taken for an event.          *)
THEOREM TypeCorrect == Spec => []TypeOK
<1>1. IInv => TypeOK
  BY DEF IInv
<1> QED
  BY <1>1, Inductive, PTL

(* worker_task compares an item with the connection's generation, not with *)
(* the request's (ancs_client.c:907): a fragment is still only given to a  *)
(* request of its own generation, however full the queue was when the      *)
(* reset was posted.                                                       *)
THEOREM FragmentMeets == Spec => []FragmentMeetsItsGeneration
<1>1. IInv => FragmentMeetsItsGeneration
  BY DEF IInv, HeldFits, FragmentMeetsItsGeneration
<1> QED
  BY <1>1, Inductive, PTL

(* publish_removed and cache_store: a notification that is cached for the  *)
(* present session is not one whose removal was published, and no key is   *)
(* cached twice.                                                           *)
THEOREM CachedLive == Spec => []CachedIsLive
<1>1. IInv => CachedIsLive
  BY DEF IInv
<1> QED
  BY <1>1, Inductive, PTL

(* "active request canceled; draining response" (ancs_client.c:839): while *)
(* no fragment was lost and no request timed out, each fragment meets the  *)
(* parser that waits for exactly it.                                       *)
THEOREM AnswersInStep == Spec => []AnswersStayInStep
<1>1. IInv => AnswersStayInStep
  <2> SUFFICES ASSUME IInv, at = "process", held.type = "fragment",
                      held.generation = generation, ~disturbed
               PROVE  active # None /\ InStep(active, held.fragment)
    BY DEF AnswersStayInStep
  <2>1. /\ 0 \in Place /\ ItemAt(0) = held /\ Matters(ItemAt(0)) /\ Place \subseteq Nat
        /\ ~IsRefusal(ItemAt(0))
    BY PlacesAreNat DEF Place, ItemAt, Matters, IsFragment, IsRefusal, IInv
  <2>2. \A S : QuietBut(S) => 0 \in S
    BY <2>1 DEF QuietBut
  <2>3. active # None /\ (HeadHeard \/ AllHeard \/ TailLeft)
    BY <2>1, <2>2 DEF IInv, StreamFits, Silent, Asked, HeadRead, Refused
  <2>4. \A p : Bears(0, p) => held.fragment = Part(p)
    BY <2>1 DEF Bears
  <2>5. CASE HeadHeard
    <3>1. held.fragment = Part("head") /\ active.parser = "fresh"
      BY <2>2, <2>4, <2>5 DEF HeadHeard
    <3> QED
      BY <2>3, <3>1 DEF InStep, Part
  <2>6. CASE AllHeard
    <3>1. PICK n \in Place, m \in Place : n < m /\ Bears(n, "head") /\ QuietBut({n, m})
      BY <2>6 DEF AllHeard
    <3>2. n = 0
      BY <2>1, <2>2, <3>1
    <3>3. held.fragment = Part("head") /\ active.parser = "fresh"
      BY <2>4, <2>6, <3>1, <3>2 DEF AllHeard
    <3> QED
      BY <2>3, <3>3 DEF InStep, Part
  <2>7. CASE TailLeft
    <3>1. held.fragment = Part("tail") /\ active.parser = "started"
      BY <2>2, <2>4, <2>7 DEF TailLeft
    <3> QED
      BY <2>3, <3>1 DEF InStep, Part
  <2> QED
    BY <2>3, <2>5, <2>6, <2>7
<1> QED
  BY <1>1, Inductive, PTL

(* What a request's end publishes, when anything.                          *)
LEMMA SettlesPublishes ==
  ASSUME IInv, Settles, sink' # sink
  PROVE  sink'.uid \notin gone
<1>1. Ended(active) /\ ~active.canceled
  BY DEF Settles, Sent
<1>2. active.event.uid \notin gone
  BY <1>1 DEF IInv, NothingGone, Settles
<1> QED
  BY <1>1, <1>2 DEF Ended, Complete, Failed

(* process_notification_event on event id 2 (ancs_client.c:835-845): once  *)
(* the removal of a uid was published, nothing the worker still had queued *)
(* or in flight for it is published, until the phone posts the uid again.  *)
THEOREM RemovedStays == Spec => RemovedStaysRemoved
<1>1. ASSUME IInv, [Next]_vars
      PROVE  [sink' \notin {sink, None} /\ sink'.type # "removed" => sink'.uid \notin gone']_vars
  <2> SUFFICES ASSUME Next, sink' # sink, sink' # None, sink'.type # "removed"
               PROVE  sink'.uid \notin gone'
    BY <1>1
  <2> USE <1>1 DEF IInv
  <2>1. CASE Environment
    BY <2>1, EnvironmentFacts
  <2>2. CASE ProcessFragment
    BY <2>2, FragmentOutcome, SettlesPublishes DEF ProcessFragment, Reads
  <2>3. CASE ProcessWriteResult
    BY <2>3, WriteResultOutcome, SettlesPublishes DEF ProcessWriteResult
  <2>4. CASE Timeout
    BY <2>4, TimeoutOutcome, SettlesPublishes DEF Timeout
  <2>5. CASE StartNextRequest
    <3>1. PICK r : Starts(r)
      BY <2>5, StartOutcome
    <3>2. Ended(r) /\ r.event.uid \notin gone
      BY <3>1, PopFacts DEF Starts, Sent, NothingGone, TypeOK
    <3> QED
      BY <2>5, <3>2 DEF Ended, Complete, Failed, StartNextRequest
  <2>6. CASE ProcessRemoved
    BY <2>6 DEF ProcessRemoved, Removed
  <2>7. CASE ProcessPosted
    BY <2>7 DEF ProcessPosted, Failed
  <2>8. CASE CheckGeneration \/ Receive \/ ReceiveNothing \/ ProcessDuplicate
             \/ ProcessReset \/ InTime
    BY <2>8
    DEF CheckGeneration, Receive, ReceiveNothing, ProcessDuplicate, ProcessReset,
                InTime, history
  <2> QED
    BY <2>1, <2>2, <2>3, <2>4, <2>5, <2>6, <2>7, <2>8 DEF Next, WorkerStep, Process
<1> QED
  BY <1>1, Inductive, PTL DEF Spec, RemovedStaysRemoved

=============================================================================
