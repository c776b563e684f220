---------------------------- MODULE MCMqttRelay ----------------------------
(* Notifications that are to be passed on, from the ANCS worker.           *)
EXTENDS MqttRelay, TLC

Notifications ==
  {[app_id |-> "app", event_id |-> Added, complete |-> TRUE,
    pre_existing |-> FALSE, home_assistant |-> FALSE, relay_id |-> id] : id \in RelayId}

Interchangeable == Permutations(RelayId)

(* A bound: what the client has not got rid of.                            *)
OneInFlight == Len(outbox) + Cardinality(unacked) <= 1
=============================================================================
