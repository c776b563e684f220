----------------------------- MODULE Enrollment ----------------------------
(***************************************************************************)
(* The other half of s_client in components/ancs_client/ancs_client.c,     *)
(* with s_enroll of components/ble_enroll: advertising, the enrollment     *)
(* window, what is known of the bond store, the guard against repeated     *)
(* authentication failures and the replacement of the enrolled phone.  The *)
(* operators take an enrollment to the next; AncsLink calls them.          *)
(*                                                                         *)
(* The window is closed, open, or open past its deadline and not noticed   *)
(* yet.  commands is what was asked of the advertiser and not carried out, *)
(* oldest first.                                                           *)
(***************************************************************************)
EXTENDS Integers, Sequences

CONSTANT RepairThreshold   \* AUTH_FAILURE_REPAIR_THRESHOLD

ASSUME ThresholdAssumption == RepairThreshold \in Nat \ {0}

Enrollment ==
  [adv_configured: BOOLEAN,          \* adv_config_pending = 0
   advertising: BOOLEAN, advertising_starting: BOOLEAN,
   advertising_retry: BOOLEAN,       \* the retry timer runs
   commands: Seq({"start", "stop"}),
   window: {"closed", "open", "expired"}, has_bond: BOOLEAN,
   auth_failure_count: 0 .. RepairThreshold,
   pairing_repair_required: BOOLEAN,
   replace_pending: BOOLEAN, reopen_after_disconnect: BOOLEAN]

(* ble_enroll_window_active and ble_enroll_should_advertise.               *)
WindowActive(e) == e.window = "open"
ShouldAdvertise(e) == e.has_bond \/ WindowActive(e)

CloseWindow(e) == [e EXCEPT !.window = "closed"]
NoteBonded(e) == CloseWindow([e EXCEPT !.has_bond = TRUE])
ClearBond(e) == [e EXCEPT !.has_bond = FALSE]

(* ble_enroll_open_window: a phone that is bonded is never replaced.       *)
OpenWindow(e) ==
  IF e.has_bond THEN CloseWindow(e) ELSE [e EXCEPT !.window = "open"]

(* clear_auth_failure_guard.                                               *)
ClearGuard(e) ==
  [e EXCEPT !.auth_failure_count = 0, !.pairing_repair_required = FALSE]

(* Faulty variant: the window stays as it is.                              *)
RecordWithoutClosing(e, in_window, missing_local_bond) ==
  LET before == IF in_window THEN e.auth_failure_count ELSE 0
      count  == IF before < RepairThreshold THEN before + 1 ELSE before
      noted  == [e EXCEPT !.auth_failure_count = count]
  IN  IF missing_local_bond /\ count >= RepairThreshold
      THEN [noted EXCEPT !.pairing_repair_required = TRUE]
      ELSE noted

(* record_auth_failure: failures too far apart start a new count.          *)
RecordAuthFailure(e, in_window, missing_local_bond) ==
  LET before == IF in_window THEN e.auth_failure_count ELSE 0
      count  == IF before < RepairThreshold THEN before + 1 ELSE before
      noted  == [e EXCEPT !.auth_failure_count = count]
  IN  IF missing_local_bond /\ count >= RepairThreshold
      THEN CloseWindow([noted EXCEPT !.pairing_repair_required = TRUE])
      ELSE noted

(* sync_existing_ble_bond, with the number of bonds it was told, or Unknown *)
(* when the query failed.                                                  *)
Unknown == -1
SyncBonds(e, count) ==
  IF count > 0 THEN NoteBonded(e)
  ELSE IF count = 0 THEN ClearBond(e) ELSE e

-----------------------------------------------------------------------------
Commands(e, command) == [e EXCEPT !.commands = Append(@, command)]

MayAdvertise(e, connected) ==
  ~connected /\ ~e.advertising /\ ~e.advertising_starting /\ ShouldAdvertise(e)

(* Faulty variant: no retry is scheduled.                                  *)
NoAdvertisingRetry(e, connected) == e

(* schedule_advertising_retry.                                             *)
ScheduleAdvertisingRetry(e, connected) ==
  IF MayAdvertise(e, connected) THEN [e EXCEPT !.advertising_retry = TRUE] ELSE e

(* start_advertising; accepted is what the stack's call returns.           *)
StartAdvertising(e, connected, hid_ready, accepted) ==
  IF ~(MayAdvertise(e, connected) /\ e.adv_configured) THEN e
  ELSE IF hid_ready /\ accepted
       THEN Commands([e EXCEPT !.advertising_starting = TRUE], "start")
       ELSE ScheduleAdvertisingRetry(e, connected)

(* Faulty variant: the flags are cleared before they are looked at.        *)
StopForgotten(e) ==
  [e EXCEPT !.advertising = FALSE, !.advertising_starting = FALSE]

(* stop_advertising.                                                       *)
StopAdvertising(e) ==
  LET stopped == [e EXCEPT !.advertising = FALSE, !.advertising_starting = FALSE]
  IN  IF e.advertising \/ e.advertising_starting
      THEN Commands(stopped, "stop") ELSE stopped

(* Faulty variant: a start that is not wanted any more is only noted.      *)
StartedUnattended(e, connected) ==
  [e EXCEPT !.advertising_starting = FALSE,
     !.advertising = ~connected /\ ShouldAdvertise(e)]

(* ESP_GAP_BLE_ADV_START_COMPLETE_EVT.                                     *)
AdvertisingStarted(e, connected) ==
  LET wanted == ~connected /\ ShouldAdvertise(e)
      after  == [e EXCEPT !.advertising_starting = FALSE, !.advertising = wanted]
  IN  IF wanted THEN after ELSE Commands(after, "stop")

AdvertisingFailed(e, connected) ==
  ScheduleAdvertisingRetry(
    [e EXCEPT !.advertising_starting = FALSE, !.advertising = FALSE], connected)

-----------------------------------------------------------------------------
(***************************************************************************)
(* ancs_client_request_enroll, in the pieces other tasks may come between: *)
(* whether it goes on, and its last piece for the count it was told.       *)
(***************************************************************************)
EnrollBusy(e, connected) == connected \/ e.replace_pending

(* timed: the window's timer could be started.                             *)
EnrollGranted(e, connected, count, hid_ready, accepted, timed) ==
  IF count > 0
  THEN StartAdvertising(CloseWindow(e), connected, hid_ready, accepted)
  ELSE IF count < 0 \/ EnrollBusy(e, connected) THEN e
  ELSE LET opened == OpenWindow(ClearGuard(e))
       IN  IF e.has_bond THEN opened
           ELSE IF timed
                THEN StartAdvertising(opened, connected, hid_ready, accepted)
                ELSE CloseWindow(opened)

(* The whole of it, for a caller nothing comes between.                    *)
RequestEnroll(e, connected, count, hid_ready, accepted, timed) ==
  IF EnrollBusy(e, connected) THEN e
  ELSE EnrollGranted(SyncBonds(e, count), connected, count, hid_ready,
                     accepted, timed)

(* Faulty variant: the replacement is still pending when no bond is left.  *)
BondRemovedPending(e, count) == SyncBonds(e, count)

(* ESP_GAP_BLE_REMOVE_BOND_DEV_COMPLETE_EVT, up to the replacement window, *)
(* and open_replacement_window.                                            *)
BondRemoved(e, count) ==
  LET synced == SyncBonds(e, count)
  IN  IF count = 0 THEN [synced EXCEPT !.replace_pending = FALSE] ELSE synced

OpenReplacementWindow(e, connected, count, hid_ready, accepted, timed) ==
  IF connected THEN [e EXCEPT !.reopen_after_disconnect = TRUE]
  ELSE RequestEnroll(e, connected, count, hid_ready, accepted, timed)

BondRemovalFailed(e, connected, count, hid_ready, accepted) ==
  LET synced == SyncBonds([e EXCEPT !.replace_pending = FALSE], count)
  IN  IF count > 0 THEN StartAdvertising(synced, connected, hid_ready, accepted)
      ELSE synced

InitialEnrollment(has_bond) ==
  [adv_configured |-> FALSE, advertising |-> FALSE,
   advertising_starting |-> FALSE, advertising_retry |-> FALSE,
   commands |-> << >>, window |-> "closed", has_bond |-> has_bond,
   auth_failure_count |-> 0, pairing_repair_required |-> FALSE,
   replace_pending |-> FALSE, reopen_after_disconnect |-> FALSE]

=============================================================================
