--------------------------- MODULE SettingsStore ---------------------------
(***************************************************************************)
(* What the provision store promises its users, the boot and the portal:   *)
(* at every moment, whatever call was interrupted, there is at most one    *)
(* live configuration, and it is one that was handed to a save since the   *)
(* last acknowledged one.  A save may overlook what is stored when the     *)
(* reads of the flash may fail: only then is an older one on offer again.  *)
(* ProvisionStore is shown to implement it.                                *)
(***************************************************************************)
CONSTANTS
  Config, NoConfig,
  ReadsFail    \* stored configurations may fail to be read

VARIABLES
  live,        \* what provision_store_load returns, if it reads all there is
  candidates   \* what it may return: the configuration acknowledged last
               \* and those handed to a save since

Init == live = NoConfig /\ candidates = {}

(* A save begins; nothing is live yet that was not before.                 *)
Offer(config) ==
  /\ candidates' = candidates \cup {config}
  /\ UNCHANGED live

(* A save begins that overlooks what is live or would be after a failure:  *)
(* one older configuration is on offer again.                              *)
Overlook(config, older) ==
  /\ ReadsFail
  /\ candidates' = candidates \cup {config, older}
  /\ UNCHANGED live

(* Inside a save, the calls of one that failed before included.            *)
Waver ==
  /\ live' \in candidates
  /\ UNCHANGED candidates

(* A save returns ESP_OK: its configuration is live, and the only one.     *)
Acknowledge(config) ==
  /\ config \in candidates
  /\ live' = config
  /\ candidates' = {config}

(* So does one that overlooked everything stored: an older configuration   *)
(* stays behind and may be taken for newer.                                *)
AcknowledgeBlindly(config, older) ==
  /\ ReadsFail
  /\ {config, older} \subseteq candidates
  /\ live' = config
  /\ candidates' = {config, older}

Erase == live' = NoConfig /\ candidates' = {}

(* Flash is worn, an erase ends half-way, or a save that overlooked what   *)
(* is stored writes over it: an older configuration, or none, is left.     *)
Damage ==
  /\ live' \in Config \cup {NoConfig}
  /\ candidates' = IF live' = NoConfig THEN candidates
                   ELSE candidates \cup {live'}

Next ==
  \/ \E config \in Config : Offer(config) \/ Acknowledge(config)
  \/ \E config, older \in Config :
       Overlook(config, older) \/ AcknowledgeBlindly(config, older)
  \/ Waver
  \/ Erase
  \/ Damage

Spec == Init /\ [][Next]_<< live, candidates >>

=============================================================================
