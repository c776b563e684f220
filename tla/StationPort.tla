---------------------------- MODULE StationPort ----------------------------
(***************************************************************************)
(* What the Wi-Fi station of components/provisioning promises the          *)
(* coordinator through provisioning_runtime_get_status: an address comes   *)
(* and goes, a long outage is announced, and nothing comes up on a station *)
(* that was stopped or whose retries were paused.  ProvisioningRuntime is  *)
(* shown to implement it; Coordinator is built on it.                      *)
(***************************************************************************)
VARIABLE station

Station ==
  [started : BOOLEAN, has_ip : BOOLEAN,
   retry_paused : BOOLEAN,
   recovery_due : BOOLEAN]   \* automatic_recovery_due: out for 45 s

Stopped ==
  [started |-> FALSE, has_ip |-> FALSE, retry_paused |-> FALSE,
   recovery_due |-> FALSE]

Started == [Stopped EXCEPT !.started = TRUE]

Paused(s) == [s EXCEPT !.retry_paused = TRUE, !.recovery_due = FALSE]

Runs == station.started /\ ~station.retry_paused

Start == ~station.started /\ station' = Started
Stop == station' = Stopped
Pause == station' = Paused(station)

IpUp ==
  /\ Runs
  /\ station' = [station EXCEPT !.has_ip = TRUE, !.recovery_due = FALSE]

IpDown ==
  /\ station.started /\ station.has_ip
  /\ station' = [station EXCEPT !.has_ip = FALSE]

OutageLong ==
  /\ Runs /\ ~station.has_ip /\ ~station.recovery_due
  /\ station' = [station EXCEPT !.recovery_due = TRUE]

Init == station = Stopped

Next == Start \/ Stop \/ Pause \/ IpUp \/ IpDown \/ OutageLong

Spec == Init /\ [][Next]_station

=============================================================================
