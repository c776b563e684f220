------------------------- MODULE ProvisioningRetry -------------------------
(***************************************************************************)
(* The retry policy of the Wi-Fi station with its times:                   *)
(* components/provisioning/provisioning_retry.c, called by the runtime's   *)
(* task every 250 ms and by its event handler.  Deadlines are kept as the  *)
(* time that is left, starting times as the time that has passed, both in  *)
(* units of five seconds; no unit passes while a poll has something to do. *)
(***************************************************************************)
EXTENDS Naturals

VARIABLES
  policy,   \* provisioning_retry_t
  tried     \* what the attempts came to (history)

retryVars == << policy, tried >>

Delays == << 1, 3, 6, 12 >>    \* 5, 15, 30, 60 s
AuthDelay == 60                \* PROVISION_RETRY_AUTH_MS
AttemptTime == 4               \* PROVISION_RETRY_ATTEMPT_MS
RecoveryTime == 9              \* PROVISION_RETRY_RECOVERY_MS
StableTime == 6                \* PROVISION_RETRY_STABLE_MS
AuthLimit == 3                 \* as many and more are the same

AtMost(n, limit) == IF n < limit THEN n ELSE limit
Less(n) == IF n = 0 THEN 0 ELSE n - 1

Backoffs == 0 .. 3
Refusals == 0 .. AuthLimit
Attempts == 0 .. AttemptTime
Waits == 0 .. AuthDelay + 1
Outages == 0 .. RecoveryTime
Spells == 0 .. StableTime

Policy ==
  [mode : {"stopped", "enabled", "paused"},
   online : BOOLEAN, in_flight : BOOLEAN, announced : BOOLEAN,
   backoff : Backoffs, auth_failures : Refusals,
   attempt_left : Attempts, next_in : Waits,
   outage_for : Outages, stable_for : Spells]

(* failures: attempts that failed since the link was last stable; refused: *)
(* those at the end that failed for the password; rest: since the last of  *)
(* them; lost: the link was, after it.                                     *)
Failures == 0 .. 4
Rests == 0 .. AuthDelay

Tried == [failures : Failures, refused : Refusals, rest : Rests, lost : BOOLEAN]

RetryTypeOK == policy \in Policy /\ tried \in Tried

Stopped ==
  [mode |-> "stopped", online |-> FALSE, in_flight |-> FALSE, announced |-> FALSE,
   backoff |-> 0, auth_failures |-> 0, attempt_left |-> 0, next_in |-> 0,
   outage_for |-> 0, stable_for |-> 0]

Untried == [failures |-> 0, refused |-> 0, rest |-> 0, lost |-> FALSE]

RetryInit == policy = Stopped /\ tried = Untried

-----------------------------------------------------------------------------
(* provisioning_retry_start, _stop, and _pause with its caller's in_flight.*)
Start == policy' = [Stopped EXCEPT !.mode = "enabled"] /\ tried' = Untried

Stop == policy' = Stopped /\ tried' = Untried

Pause ==
  /\ policy' = [policy EXCEPT !.mode = IF @ = "stopped" THEN @ ELSE "paused",
                              !.next_in = 0, !.in_flight = FALSE]
  /\ UNCHANGED tried

(* Faulty variant: a link that comes up, however shortly, ends the backoff.*)
ConnectedAnew(p) ==
  [p EXCEPT !.online = TRUE, !.in_flight = FALSE, !.attempt_left = 0,
            !.next_in = 0, !.stable_for = 0, !.announced = FALSE,
            !.backoff = 0]

(* provisioning_retry_connected.                                           *)
Connected(p) ==
  [p EXCEPT !.online = TRUE, !.in_flight = FALSE, !.attempt_left = 0,
            !.next_in = 0, !.stable_for = 0, !.announced = FALSE]

(* provisioning_retry_failed: of a link that was up, and of an attempt.    *)
LinkLost(p) ==
  [p EXCEPT !.online = FALSE, !.in_flight = FALSE, !.outage_for = 0,
            !.stable_for = 0, !.announced = FALSE, !.next_in = 0]

AttemptFailed(p, auth, jitter) ==
  LET refused == IF auth THEN AtMost(p.auth_failures + 1, AuthLimit) ELSE 0
      delay   == IF refused = AuthLimit THEN AuthDelay ELSE Delays[p.backoff + 1]
  IN  [p EXCEPT !.in_flight = FALSE, !.attempt_left = 0,
                !.auth_failures = refused, !.backoff = AtMost(@ + 1, 3),
                !.next_in = delay + IF delay >= 10 THEN jitter ELSE 0]

CountFailure(auth) ==
  tried' = [failures |-> AtMost(tried.failures + 1, 4),
            refused  |-> IF auth THEN AtMost(tried.refused + 1, AuthLimit) ELSE 0,
            rest     |-> 0,
            lost     |-> FALSE]

-----------------------------------------------------------------------------
(* The driver's events, as wifi_event_handler passes them on.              *)
GotIp ==
  /\ policy.mode = "enabled"
  /\ policy' = Connected(policy)
  /\ UNCHANGED tried

LosesOrFails(auth) ==
  /\ policy.mode = "enabled"
  /\ \/ /\ policy.online
        /\ policy' = LinkLost(policy)
        /\ tried' = [tried EXCEPT !.lost = TRUE]
     \/ /\ ~policy.online /\ policy.in_flight
        /\ policy' = AttemptFailed(policy, auth, 0)
        /\ CountFailure(auth)

(* provisioning_retry_poll.  Each action is a poll, or the part of one.    *)
Tries == policy.mode = "enabled" /\ ~policy.online

Stable ==
  /\ policy.mode = "enabled" /\ policy.online /\ policy.stable_for = StableTime
  /\ policy.backoff # 0 \/ policy.auth_failures # 0

Announces == Tries /\ ~policy.announced /\ policy.outage_for = RecoveryTime
GivesUp == Tries /\ policy.in_flight /\ policy.attempt_left = 0
Connects == Tries /\ ~policy.in_flight /\ policy.next_in = 0

PollStable ==
  /\ Stable
  /\ policy' = [policy EXCEPT !.backoff = 0, !.auth_failures = 0]
  /\ tried' = [tried EXCEPT !.failures = 0, !.refused = 0]

PollOpensAp ==
  /\ Announces
  /\ policy' = [policy EXCEPT !.announced = TRUE]
  /\ UNCHANGED tried

PollGivesUp ==
  /\ GivesUp
  /\ \E jitter \in 0 .. 1 : policy' = AttemptFailed(policy, FALSE, jitter)
  /\ CountFailure(FALSE)

PollTries ==
  /\ Connects
  /\ policy' = [policy EXCEPT !.in_flight = TRUE, !.attempt_left = AttemptTime]
  /\ UNCHANGED tried

(* Five seconds, with nothing left for a poll to do.                       *)
Tick ==
  /\ ~Stable /\ ~Announces /\ ~GivesUp /\ ~Connects
  /\ policy' = [policy EXCEPT !.attempt_left = Less(@), !.next_in = Less(@),
                              !.outage_for = AtMost(@ + 1, RecoveryTime),
                              !.stable_for = AtMost(@ + 1, StableTime)]
  /\ tried' = [tried EXCEPT !.rest = AtMost(@ + 1, AuthDelay)]

RetryNext ==
  \/ Start \/ Stop \/ Pause
  \/ GotIp
  \/ \E auth \in BOOLEAN : LosesOrFails(auth)
  \/ PollStable \/ PollOpensAp \/ PollGivesUp \/ PollTries
  \/ Tick

RetrySpec == RetryInit /\ [][RetryNext]_retryVars

-----------------------------------------------------------------------------
(* After a failed attempt the next one waits, longer from one to the next, *)
(* until the link has been stable for thirty seconds, and for five minutes *)
(* from the third in a row that the network refused: an access point that  *)
(* lets the station in and drops it again does not start this over.  Only  *)
(* the loss of a link is answered at once (provisioning_retry.c:52-87).    *)
RestAfter(failures, refused) ==
  IF refused = AuthLimit THEN AuthDelay ELSE Delays[failures]

AttemptsAreSpaced ==
  [][PollTries /\ tried.failures > 0 /\ ~tried.lost
       => tried.rest >= RestAfter(tried.failures, tried.refused)]_retryVars

=============================================================================
