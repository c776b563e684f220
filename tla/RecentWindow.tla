---------------------------- MODULE RecentWindow ----------------------------
(***************************************************************************)
(* The ring of recent notifications as a state machine: what the relay     *)
(* does with a stream of notifications while it stays online               *)
(* (mqtt_relay_observe_notification), and what the ring promises.          *)
(***************************************************************************)
EXTENDS RelayPolicy, Sequences, FiniteSets

VARIABLES
  recent,   \* s_ctx.recent
  passed    \* the ids passed on last, the oldest first (a history variable)

windowVars == << recent, passed >>

Notification ==
  [app_id : {"app", NoId}, event_id : 0 .. 2, complete : BOOLEAN,
   pre_existing : BOOLEAN, home_assistant : BOOLEAN, relay_id : RelayId]

WindowInit == recent = RecentInit /\ passed = << >>

(* The history keeps as many ids as the ring.                              *)
Remember(id) ==
  LET all == Append(passed, id)
  IN  passed' = IF Len(all) > RecentCapacity THEN Tail(all) ELSE all

Pass(notification) ==
  /\ Publishes(notification, TRUE, TRUE, recent)
  /\ recent' = MarkRecent(recent, notification.relay_id)
  /\ Remember(notification.relay_id)

WindowNext == \E notification \in Notification : Pass(notification)

WindowSpec == WindowInit /\ [][WindowNext]_windowVars

-----------------------------------------------------------------------------
(* The ring's fields stay in their ranges (relay_policy.c:200-211).        *)
WindowTypeOK == recent \in Recent /\ passed \in Seq(RelayId)

(* recent_cache_contains (relay_policy.c:186): the ring suppresses the     *)
(* RecentCapacity notifications passed on last, and no other, whatever     *)
(* their order and however often its index went round.                     *)
SuppressesTheLast ==
  \A id \in RelayId :
    IsRecent(recent, id) <=> \E i \in 1 .. Len(passed) : passed[i] = id

(* relay_policy_decide (relay_policy.c:213): a notification is passed on   *)
(* again only after RecentCapacity others, so never twice among the last.  *)
PassedOnceInTheWindow ==
  \A i, j \in 1 .. Len(passed) : passed[i] = passed[j] => i = j
=============================================================================
