------------------------- MODULE ProvisioningState -------------------------
(***************************************************************************)
(* provisioning_reduce of components/provisioning/provisioning_state.c:    *)
(* when the setup access point is required.  One operator per event or     *)
(* rule, on the record of the program's fields.                            *)
(*                                                                         *)
(* The three deadlines are compared with the clock and otherwise only set: *)
(* an event that makes a comparison carries its outcome,                   *)
(*   over   recovery_deadline_ms has been reached,                         *)
(*   long   refusals have gone on for PROVISION_MQTT_REJECTED_RECOVERY_MS, *)
(*   pair   the last refusal is PROVISION_MQTT_REFUSAL_PAIR_MS ago or less.*)
(* has_bond is left out: nothing else depends on it.                       *)
(***************************************************************************)
ReducerState ==
  [valid_config : BOOLEAN, wifi_connected : BOOLEAN, mqtt_connected : BOOLEAN,
   recovery_required : BOOLEAN, recovery_window : BOOLEAN,
   mqtt_settings_verified : BOOLEAN, mqtt_rejecting : BOOLEAN,
   mqtt_refusal_recovery : BOOLEAN]

(* reconcile_requirements.                                                 *)
ApRequired(s) == ~s.valid_config \/ s.recovery_required \/ s.recovery_window

(* provisioning_initial, and the two boot events, which leave has_bond.    *)
AfterBoot(valid) ==
  [valid_config |-> valid, wifi_connected |-> FALSE, mqtt_connected |-> FALSE,
   recovery_required |-> FALSE, recovery_window |-> FALSE,
   mqtt_settings_verified |-> FALSE, mqtt_rejecting |-> FALSE,
   mqtt_refusal_recovery |-> FALSE]

ForgetRefusal(s) ==
  [s EXCEPT !.mqtt_rejecting = FALSE, !.mqtt_refusal_recovery = FALSE]

(* PROVISION_EVENT_WIFI_CONNECTED, _DISCONNECTED and _TIMEOUT.             *)
WifiUp(s) == [s EXCEPT !.wifi_connected = TRUE]

WifiLost(s) == [s EXCEPT !.wifi_connected = FALSE, !.mqtt_connected = FALSE]

WifiTimeout(s) == [WifiLost(s) EXCEPT !.recovery_required = TRUE]

(* PROVISION_EVENT_MQTT_CONNECTED counts only over Wi-Fi.                  *)
MqttUp(s) ==
  IF s.wifi_connected
  THEN [ForgetRefusal(s) EXCEPT !.mqtt_connected = TRUE,
                                !.recovery_required = FALSE,
                                !.mqtt_settings_verified = TRUE]
  ELSE [s EXCEPT !.mqtt_connected = FALSE]

(* Settings that never connected may be a typo: the portal opens.          *)
Unproven(s) == [s EXCEPT !.mqtt_connected = FALSE, !.recovery_required = TRUE]

(* PROVISION_EVENT_MQTT_FAILED.  The disconnect that closes a refused      *)
(* attempt says nothing new (ends_refused_attempt).                        *)
MqttFailed(s, pair) ==
  LET offline == [s EXCEPT !.mqtt_connected = FALSE]
      kept    == IF s.mqtt_refusal_recovery THEN offline
                 ELSE ForgetRefusal(offline)
  IN  IF ~s.mqtt_settings_verified THEN Unproven(s)
      ELSE IF ~s.wifi_connected \/ (s.mqtt_rejecting /\ pair) THEN offline
      ELSE [kept EXCEPT !.recovery_required = s.mqtt_refusal_recovery]

(* PROVISION_EVENT_MQTT_REJECTED.  Ten minutes of refusals open the portal *)
(* for proven settings too; the first refusal starts the count.            *)
MqttRejected(s, long) ==
  LET recovery == s.mqtt_refusal_recovery \/ (s.mqtt_rejecting /\ long)
      counted  == [s EXCEPT !.mqtt_connected = FALSE, !.mqtt_rejecting = TRUE,
                            !.mqtt_refusal_recovery = recovery]
  IN  IF ~s.mqtt_settings_verified THEN Unproven(s)
      ELSE IF s.wifi_connected THEN [counted EXCEPT !.recovery_required = recovery]
      ELSE counted

(* PROVISION_EVENT_MQTT_SETTINGS_VERIFIED, _BOOT_HELD_3S and               *)
(* _PORTAL_IDLE_TIMEOUT.                                                   *)
SettingsVerified(s) == [s EXCEPT !.mqtt_settings_verified = s.valid_config]

BootHeld(s) == [s EXCEPT !.recovery_window = TRUE]

PortalIdle(s, over) ==
  IF over THEN [s EXCEPT !.recovery_window = FALSE] ELSE s

=============================================================================
