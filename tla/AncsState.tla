----------------------------- MODULE AncsState -----------------------------
(***************************************************************************)
(* components/ancs_state: the reducer that keeps the client's reported     *)
(* state.  It does not drive the client; the flags of s_client do.         *)
(***************************************************************************)
State ==
  {"boot", "advertising", "connected", "encrypting", "bonded",
   "discovering_ancs", "subscribing_data_source",
   "subscribing_notification_source", "ancs_ready", "disconnected",
   "recovering"}

(* Where each signal is heeded, and what it makes of the state.            *)
Heeded ==
  [boot_complete           |-> {"boot"},
   connected               |-> {"advertising"},
   encryption_started      |-> {"connected"},
   bonded                  |-> {"encrypting"},
   discovery_started       |-> {"bonded", "recovering"},
   data_subscribe_started  |-> {"discovering_ancs"},
   data_subscribed         |-> {"subscribing_data_source"},
   notification_subscribed |-> {"subscribing_notification_source"},
   service_changed         |-> State,
   disconnected            |-> State]

Reached ==
  [boot_complete           |-> "advertising",
   connected               |-> "connected",
   encryption_started      |-> "encrypting",
   bonded                  |-> "bonded",
   discovery_started       |-> "discovering_ancs",
   data_subscribe_started  |-> "subscribing_data_source",
   data_subscribed         |-> "subscribing_notification_source",
   notification_subscribed |-> "ancs_ready",
   service_changed         |-> "recovering",
   disconnected            |-> "disconnected"]

StateAfter(current, signal) ==
  IF current \in Heeded[signal] THEN Reached[signal] ELSE current

=============================================================================
