--------------------------- MODULE RequestQueue ----------------------------
(***************************************************************************)
(* The pending-event queue of the ANCS worker on its own: one action per   *)
(* function of components/ancs_protocol/ancs_protocol.c.  The worker task  *)
(* is its only user, so the functions never overlap.  What the functions   *)
(* return is left out: push and pop return whether their guard held, and   *)
(* the one caller of cancel_uid discards its result.                       *)
(***************************************************************************)
EXTENDS EventRing

CONSTANT Events   \* records [uid, ...]: what the worker may queue

VARIABLE queue    \* ancs_request_queue_t: [items, head, count]

Uids == {event.uid : event \in Events}

QueueInit == queue = EmptyRing

PushCall(event) == ~IsFull(queue) /\ queue' = Push(queue, event)

PopCall == ~IsEmpty(queue) /\ queue' = Pop(queue)

CancelCall(uid) == queue' = CancelUid(queue, uid)

ClearCall == queue' = EmptyRing

QueueNext ==
  \/ \E event \in Events : PushCall(event)
  \/ PopCall
  \/ \E uid \in Uids : CancelCall(uid)
  \/ ClearCall

QueueSpec == QueueInit /\ [][QueueNext]_queue

-----------------------------------------------------------------------------
Fifo == INSTANCE EventFifo WITH fifo <- Waiting(queue)

(* Every call acts as the same call of a FIFO would on the waiting events, *)
(* except cancel_uid on a ring whose occupied slots pass the array's end.  *)
ImplementsFifoUnlessWrapped ==
  [][ \/ Fifo!Next
      \/ ~IsContiguous(queue) /\ \E uid \in Uids : CancelCall(uid) ]_queue

(* Wherever the occupied slots lie, cancel_uid leaves no event of the uid, *)
(* never makes the queue longer, and keeps only events that were waiting:  *)
(* what the worker still relies on when the compaction overwrites slots.   *)
CancelRemovesUid ==
  [][ \A uid \in Uids :
        CancelCall(uid) =>
          /\ queue'.count <= queue.count
          /\ \A n \in 1 .. queue'.count :
               /\ Waiting(queue')[n].uid # uid
               /\ \E m \in 1 .. queue.count :
                    Waiting(queue)[m] = Waiting(queue')[n] ]_queue

=============================================================================
