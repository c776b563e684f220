------------------------------ MODULE MCParts ------------------------------
(* The parts that work alone, each on its own instance; part is the one    *)
(* that runs: the worker's ring of pending events (four slots, two uids    *)
(* with two events each), the relay's ring of recent notifications (three  *)
(* of five ids), the provision store (three configurations, five           *)
(* generations), the Wi-Fi station's runtime and its retry policy.         *)
EXTENDS RequestQueue, RecentWindow, ProvisionStore, ProvisioningRuntime, ProvisioningRetry

CONSTANTS u1, u2

VARIABLE part

TwoUids == [uid: {u1, u2}, id: {0, 1}]

partsVars == << part, queue, windowVars, vars, runtimeVars, retryVars >>

PartsInit ==
  /\ part \in {"queue", "window", "store", "runtime", "retry"}
  /\ QueueInit /\ WindowInit /\ Init /\ RuntimeInit /\ RetryInit

QueueStep ==
  /\ part = "queue" /\ QueueNext
  /\ UNCHANGED << part, windowVars, vars, runtimeVars, retryVars >>

WindowStep ==
  /\ part = "window" /\ WindowNext
  /\ UNCHANGED << part, queue, vars, runtimeVars, retryVars >>

StoreStep ==
  /\ part = "store" /\ Next
  /\ UNCHANGED << part, queue, windowVars, runtimeVars, retryVars >>

RuntimeStep ==
  /\ part = "runtime" /\ RuntimeNext
  /\ UNCHANGED << part, queue, windowVars, vars, retryVars >>

RetryStep ==
  /\ part = "retry" /\ RetryNext
  /\ UNCHANGED << part, queue, windowVars, vars, runtimeVars >>

PartsNext == QueueStep \/ WindowStep \/ StoreStep \/ RuntimeStep \/ RetryStep

PartsSpec ==
  PartsInit /\ [][PartsNext]_partsVars /\ (part = "runtime" => RuntimeFairness)

=============================================================================
