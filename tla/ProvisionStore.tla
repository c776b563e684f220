--------------------------- MODULE ProvisionStore ---------------------------
(***************************************************************************)
(* The provision store of components/provision_store: two slots and a      *)
(* pointer in the NVS partition "provision", and a save that takes several *)
(* NVS calls, each of which can fail or be the last before a power cut.    *)
(*                                                                         *)
(* NVS is modelled from how it is called: the effect of setting a value    *)
(* is certain once nvs_commit has returned, before that it may be there or *)
(* not, and a slot's blob, which spans several entries, may be left        *)
(* unreadable.  A value that is there may fail to be read (no memory for   *)
(* the blob, an error of NVS), and is then taken for absent.  Nobody reads *)
(* the slots while a save is going on: the HTTP server's task is alone in  *)
(* calling load and save.                                                  *)
(***************************************************************************)
EXTENDS Naturals

CONSTANTS
  Config,           \* valid configurations
  NoConfig,
  NoSlot,           \* the pointer's entry is not there
  GenerationLimit,  \* UINT32_MAX
  ReadFaults        \* of "a", "b", "active": the values whose reads may fail

ASSUME ConfigAssumption == NoConfig \notin Config
ASSUME SlotAssumption == NoSlot \notin {"a", "b"}
ASSUME LimitAssumption == GenerationLimit \in Nat \ {0}
ASSUME ReadFaultsAssumption == ReadFaults \subseteq {"a", "b", "active"}

Slot == {"a", "b"}
Other(s) == IF s = "a" THEN "b" ELSE "a"

(* provision_store_slot_blob_t as provision_store_decode sees it: absent,  *)
(* torn and corrupt blobs (CRC, length, schema) are all refused.           *)
Unreadable == [config |-> NoConfig, generation |-> 0]
Generations == 0 .. GenerationLimit
Blob == [config : Config, generation : Generations]
Readable(blob) == blob.config # NoConfig

VARIABLES
  slot,        \* "cfg_a", "cfg_b": the two blobs
  active,      \* "active": the slot in use
  call,        \* provision_store_save_atomic: where it is, and its locals
  candidates   \* what load may return (history; see SettingsStore)

vars == << slot, active, call, candidates >>

Positions == {"idle", "promote", "fill", "readback", "point"}

NoCall == [at |-> "idle", config |-> NoConfig, live |-> NoSlot, generation |-> 0]

TypeOK ==
  /\ slot \in [Slot -> Blob \cup {Unreadable}]
  /\ active \in Slot \cup {NoSlot}
  /\ call \in [at : Positions, config : Config \cup {NoConfig},
               live : Slot \cup {NoSlot}, generation : Generations]
  /\ candidates \subseteq Config

-----------------------------------------------------------------------------
(* read_best_nvs_slot: it reads the pointer and both slots, and goes on    *)
(* without what it could not read.                                         *)
Present == {s \in Slot : Readable(slot[s])}

Readings ==
  {r \in [slots : SUBSET Present, pointer : {active, NoSlot}] :
     /\ Present \ r.slots \subseteq ReadFaults
     /\ r.pointer = active \/ "active" \in ReadFaults}

FullReading == [slots |-> Present, pointer |-> active]

(* Faulty variant: the last slot read, whatever its generation.            *)
LastSlot(r) == IF "b" \in r.slots THEN "b" ELSE "a"

BestSlot(r) ==
  IF /\ "b" \in r.slots
     /\ "a" \in r.slots => slot["b"].generation >= slot["a"].generation
  THEN "b" ELSE "a"

(* select_live_slot.                                                       *)
LiveSlot(r) == IF r.pointer \in r.slots THEN r.pointer ELSE BestSlot(r)

(* provision_store_load, by what it read.                                  *)
LoadFrom(r) == IF r.slots = {} THEN NoConfig ELSE slot[LiveSlot(r)].config

Found == Present # {}

Newest == BestSlot(FullReading)

Load == LoadFrom(FullReading)

(* The slot with the newest blob is there and was not read.                *)
Overlooks(r) == Found /\ Newest \notin r.slots

(* The live generation cannot be followed by another: ESP_ERR_INVALID_STATE*)
Exhausted(r) == r.slots # {} /\ slot[LiveSlot(r)].generation = GenerationLimit

(* The bound of the model: the save that would count past GenerationLimit, *)
(* after 2^32 - 1 others and a failed one, is not made.                    *)
DoesNotWrap(r) == r.slots = {} \/ slot[BestSlot(r)].generation < GenerationLimit

(* save_nvs_atomic first makes the newest slot it read the active one.     *)
NeedsPromotion(r) == r.slots # {} /\ r.pointer # BestSlot(r)

(* Faulty variant: the blob does not count up.                             *)
SameGeneration(r) == IF r.slots = {} THEN 1 ELSE slot[BestSlot(r)].generation

NextGeneration(r) == IF r.slots = {} THEN 1 ELSE slot[BestSlot(r)].generation + 1

-----------------------------------------------------------------------------
Init ==
  /\ slot = [s \in Slot |-> Unreadable]
  /\ active = NoSlot
  /\ call = NoCall
  /\ candidates = {}

(* The call opens the namespace, reads both slots and chooses.  When it    *)
(* overlooks the newest blob, it may put any configuration back in use     *)
(* that a slot still holds.                                                *)
SaveBegins(config, r) ==
  /\ call.at = "idle"
  /\ ~Exhausted(r)
  /\ DoesNotWrap(r)
  /\ call' = [at |-> IF NeedsPromotion(r) THEN "promote" ELSE "fill",
              config |-> config,
              live |-> IF r.slots = {} THEN NoSlot ELSE BestSlot(r),
              generation |-> NextGeneration(r)]
  /\ candidates' = candidates \cup {config} \cup
       IF Overlooks(r) THEN {slot[s].config : s \in Present} ELSE {}
  /\ UNCHANGED << slot, active >>

SaveRefused(config, r) ==
  /\ call.at = "idle"
  /\ Exhausted(r)
  /\ candidates' = candidates \cup {config}
  /\ UNCHANGED << slot, active, call >>

(* nvs_set_u8 of the pointer to the newest slot, and nvs_commit.           *)
Promote ==
  /\ call.at = "promote"
  /\ active' = call.live
  /\ call' = [call EXCEPT !.at = "fill"]
  /\ UNCHANGED << slot, candidates >>

Inactive == IF call.live = NoSlot THEN "a" ELSE Other(call.live)

NewBlob == [config |-> call.config, generation |-> call.generation]

(* Faulty variant: the slot in use is written over.                        *)
FillInUse ==
  /\ call.at = "fill"
  /\ \E left \in {NewBlob, Unreadable} :
       slot' = [slot EXCEPT ![Other(Inactive)] = left]
  /\ call' = [call EXCEPT !.at = "readback"]
  /\ UNCHANGED << active, candidates >>

(* nvs_set_blob of the other slot, and nvs_commit.                         *)
Fill ==
  /\ call.at = "fill"
  /\ slot' = [slot EXCEPT ![Inactive] = NewBlob]
  /\ call' = [call EXCEPT !.at = "readback"]
  /\ UNCHANGED << active, candidates >>

ReadBack ==
  /\ call.at = "readback"
  /\ slot[Inactive] = NewBlob
  /\ call' = [call EXCEPT !.at = "point"]
  /\ UNCHANGED << slot, active, candidates >>

(* nvs_set_u8 of the pointer to the new slot, and nvs_commit, after which  *)
(* the call returns ESP_OK.  The blob is the newest, unless the call read  *)
(* neither slot and started from generation 1 again: then the other slot,  *)
(* if it holds a blob, will pass for newer and be promoted one day.        *)
Point ==
  /\ call.at = "point"
  /\ active' = Inactive
  /\ call' = NoCall
  /\ candidates' = {call.config} \cup
       IF call.live = NoSlot THEN {slot[s].config : s \in Present} ELSE {}
  /\ UNCHANGED slot

(* An NVS call fails and the save returns its error, or the power is cut:  *)
(* what was being written may have reached the flash or not, and a slot    *)
(* may be left unreadable.                                                 *)
SaveEndsEarly ==
  /\ call.at # "idle"
  /\ call' = NoCall
  /\ UNCHANGED candidates
  /\ CASE call.at = "promote"  -> /\ active' \in {active, call.live}
                                 /\ UNCHANGED slot
       [] call.at = "fill"     -> /\ \E left \in {slot[Inactive], NewBlob, Unreadable} :
                                      slot' = [slot EXCEPT ![Inactive] = left]
                                 /\ UNCHANGED active
       [] call.at = "readback" -> UNCHANGED << slot, active >>
       [] call.at = "point"    -> /\ active' \in {active, Inactive}
                                 /\ UNCHANGED slot

(* provision_store_reset: the partition is erased whole.  Nothing else is  *)
(* read from it in between; a save in progress has lost its handle.        *)
Reset ==
  /\ slot' = [s \in Slot |-> Unreadable]
  /\ active' = NoSlot
  /\ call' = NoCall
  /\ candidates' = {}

-----------------------------------------------------------------------------
(* External: entries that are gone, after years of wear or an erase of the *)
(* partition that failed or was cut half-way.                              *)
LoseEntries ==
  /\ call.at = "idle"
  /\ \E lost \in SUBSET Slot :
       slot' = [s \in Slot |-> IF s \in lost THEN Unreadable ELSE slot[s]]
  /\ active' \in {active, NoSlot}
  /\ UNCHANGED call
  /\ candidates' = IF Load' = NoConfig THEN candidates
                   ELSE candidates \cup {Load'}

Next ==
  \/ \E config \in Config, r \in Readings :
       SaveBegins(config, r) \/ SaveRefused(config, r)
  \/ Promote
  \/ Fill
  \/ ReadBack
  \/ Point
  \/ SaveEndsEarly
  \/ Reset
  \/ LoseEntries

Spec == Init /\ [][Next]_vars

-----------------------------------------------------------------------------
(* save_nvs_atomic (provision_store.c:556) writes the slot that is not in  *)
(* use and moves the pointer last: no failed call and no power cut within  *)
(* a save that read a configuration takes the device from one to none,     *)
(* whichever other reads failed.  A save that could read neither slot      *)
(* (415-432) takes the flash for empty and writes "cfg_a" in place.        *)
SaveKeepsAConfig ==
  [][call.at # "idle" /\ call.live # NoSlot /\ Found => Found' \/ Reset]_vars

(* Whatever calls failed, and however many saves after them: a load that   *)
(* gets to read the newest slot, whatever it fails to read besides,        *)
(* returns the configuration acknowledged last or one handed to a save     *)
(* since (select_live_slot, provision_store.c:335).  Older ones are among  *)
(* them once a save has overlooked the newest slot, until the next that    *)
(* reads one is acknowledged.                                              *)
LiveWasOffered ==
  \A r \in Readings : Found /\ ~Overlooks(r) => LoadFrom(r) \in candidates

Settings == INSTANCE SettingsStore WITH
  live <- Load, ReadsFail <- ReadFaults \cap Slot # {}

(* The store is a SettingsStore: a save that returns ESP_OK has made its   *)
(* configuration live, and every step within one leaves a whole            *)
(* configuration live (provision_store_save_atomic, 654).                  *)
ImplementsSettingsStore == Settings!Spec

=============================================================================
