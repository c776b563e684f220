----------------------------- MODULE EventRing -----------------------------
(***************************************************************************)
(* The ring buffer of Notification Source events that wait for their       *)
(* attributes to be requested: ancs_request_queue_t of                     *)
(* components/ancs_protocol (items[], head, count) and its five            *)
(* functions, as operators on one record.  RequestQueue checks it alone    *)
(* against a plain FIFO; AncsWorker uses it as the worker's queue.         *)
(*                                                                         *)
(* An event is a record with at least a field uid; NoEvent is the content  *)
(* of a slot nothing was written to yet.                                   *)
(***************************************************************************)
EXTENDS Integers, Sequences

CONSTANTS
  Capacity,  \* CONFIG_ANCS_REQUEST_QUEUE_CAPACITY
  NoEvent    \* a slot as memset leaves it

ASSUME CapacityAssumption == Capacity \in Nat \ {0}

RingSlot == 0 .. Capacity - 1

(* ancs_request_queue_init and ancs_request_queue_clear: the memset.       *)
EmptyRing == [items |-> [s \in RingSlot |-> NoEvent], head |-> 0, count |-> 0]

RingType(Events) ==
  [items: [RingSlot -> Events \cup {NoEvent}], head: RingSlot, count: 0 .. Capacity]

SlotAt(q, n) == (q.head + n) % Capacity

(* The events in the order they will be popped.                            *)
Waiting(q) == [n \in 1 .. q.count |-> q.items[SlotAt(q, n - 1)]]

(* Faulty variant: one event too many is let in.                           *)
IsFullLate(q) == q.count > Capacity

IsFull(q) == q.count >= Capacity
IsEmpty(q) == q.count = 0

(* The occupied slots are a run that does not pass the end of the array.   *)
IsContiguous(q) == q.head + q.count <= Capacity

Oldest(q) == q.items[q.head]

Push(q, event) ==
  [items |-> [q.items EXCEPT ![SlotAt(q, q.count)] = event],
   head  |-> q.head,
   count |-> q.count + 1]

Pop(q) ==
  [items |-> q.items, head |-> (q.head + 1) % Capacity, count |-> q.count - 1]

(***************************************************************************)
(* The in-place compaction of ancs_request_queue_cancel_uid.  sweep[n] is  *)
(* the array and write_count after n turns of its loop.  A turn reads a    *)
(* slot counted from head and writes from slot 0, so what it reads is what *)
(* the earlier turns left there.                                           *)
(***************************************************************************)
Turn(before, slot, uid) ==
  LET event == before.items[slot]
  IN  IF event.uid = uid THEN before
      ELSE [items   |-> [before.items EXCEPT ![before.written] = event],
            written |-> before.written + 1]

Compact(q, uid) ==
  LET sweep[n \in 0 .. q.count] ==
        IF n = 0 THEN [items |-> q.items, written |-> 0]
        ELSE Turn(sweep[n - 1], SlotAt(q, n - 1), uid)
  IN  sweep[q.count]

(* Faulty variant: head stays where it was.                                *)
CancelKeepsHead(q, uid) ==
  LET swept == Compact(q, uid)
  IN  [items |-> swept.items, head |-> q.head, count |-> swept.written]

CancelUid(q, uid) ==
  IF IsEmpty(q) THEN q
  ELSE LET swept == Compact(q, uid)
       IN  [items |-> swept.items, head |-> 0, count |-> swept.written]

=============================================================================
