---------------------------- MODULE RelayPolicy ----------------------------
(***************************************************************************)
(* relay_policy.c: which notifications the relay passes on.  A             *)
(* notification is a record of what the decision looks at; relay_id stands *)
(* for the hash of its contents.  Every reason to drop one has the same    *)
(* effect on the relay, so the decision is whether it is passed on.        *)
(***************************************************************************)
EXTENDS Naturals

CONSTANTS
  RelayId,          \* hashes of notifications
  RecentCapacity,   \* RELAY_POLICY_RECENT_CAPACITY
  NoId              \* an unused slot, an empty app identifier

ASSUME RecentAssumption == RecentCapacity \in Nat \ {0} /\ NoId \notin RelayId

RecentSlot == 0 .. RecentCapacity - 1

Recent ==
  [relay_ids : [RecentSlot -> RelayId \cup {NoId}], next_index : RecentSlot,
   count : 0 .. RecentCapacity]

RecentInit ==
  [relay_ids |-> [slot \in RecentSlot |-> NoId], next_index |-> 0, count |-> 0]

IsRecent(recent, id) ==
  \E slot \in RecentSlot : slot < recent.count /\ recent.relay_ids[slot] = id

Counted(recent) ==
  IF recent.count < RecentCapacity THEN recent.count + 1 ELSE recent.count

(* Faulty variant: the next index stays at the last slot.                  *)
MarkLastSlot(recent, id) ==
  [relay_ids  |-> [recent.relay_ids EXCEPT ![recent.next_index] = id],
   next_index |-> IF recent.next_index + 1 < RecentCapacity
                  THEN recent.next_index + 1 ELSE recent.next_index,
   count      |-> Counted(recent)]

MarkRecent(recent, id) ==
  [relay_ids  |-> [recent.relay_ids EXCEPT ![recent.next_index] = id],
   next_index |-> (recent.next_index + 1) % RecentCapacity,
   count      |-> Counted(recent)]

Added == 0
Modified == 1

Publishes(notification, wifi, mqtt, recent) ==
  /\ notification.app_id # NoId
  /\ notification.event_id \in {Added, Modified}
  /\ notification.complete /\ ~notification.pre_existing
  /\ wifi /\ mqtt
  /\ ~notification.home_assistant
  /\ ~IsRecent(recent, notification.relay_id)
=============================================================================
