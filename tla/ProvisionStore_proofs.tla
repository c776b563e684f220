----------------------- MODULE ProvisionStore_proofs -----------------------
(***************************************************************************)
(* The provision store implements SettingsStore, for any configurations    *)
(* and any number of generations, whichever calls and reads fail.  The     *)
(* invariant behind it: a save that read a slot makes the newest it read   *)
(* the active one and writes only the other, with the next generation.     *)
(* Where its reads overlooked a blob, whatever the slots hold is on offer. *)
(***************************************************************************)
EXTENDS ProvisionStore, TLAPS

AllOffered == \A s \in Present : slot[s].config \in candidates

LoadOffered == Found => Load \in candidates
NewestOffered == Found => slot[Newest].config \in candidates

(* The call's slot in use holds a blob, one generation before the call's.  *)
Follows ==
  /\ call.live \in Present
  /\ call.generation = slot[call.live].generation + 1

(* The call read no slot: there was none, or the reads failed.             *)
StartsOver ==
  /\ call.live = NoSlot /\ call.generation = 1 /\ AllOffered
  /\ Present \subseteq ReadFaults \cup {Inactive}

(* The slot in use is active, and the newest unless one was overlooked.    *)
FillsOther ==
  /\ Follows /\ active = call.live
  /\ \/ AllOffered
     \/ /\ Inactive \in Present
        => slot[Inactive].generation <= slot[call.live].generation

(* The other slot was written to and not made the active one yet.          *)
WroteOther ==
  /\ slot[Inactive] = NewBlob
  /\ StartsOver \/ (Follows /\ active = call.live)

CallIsSafe ==
  /\ call.at # "idle" => call.config \in candidates
  /\ call.at = "promote" => Follows /\ (AllOffered \/ call.live = Newest)
  /\ call.at = "fill" => StartsOver \/ FillsOther
  /\ call.at \in {"readback", "point"} => WroteOther

IInv == TypeOK /\ LoadOffered /\ NewestOffered /\ CallIsSafe

-----------------------------------------------------------------------------
LEMMA Slots ==
  /\ Slot = {"a", "b"} /\ Other("a") = "b" /\ Other("b") = "a" /\ NoSlot \notin Slot
  /\ \A s \in Slot : Other(s) \in Slot /\ Other(s) # s /\ Other(Other(s)) = s
BY SlotAssumption DEF Slot, Other

LEMMA Typed ==
  ASSUME TypeOK
  PROVE  /\ slot \in [Slot -> Blob \cup {Unreadable}]
         /\ call.at \in Positions /\ call.config \in Config \cup {NoConfig}
         /\ call.live \in Slot \cup {NoSlot} /\ call.generation \in Generations
         /\ active \in Slot \cup {NoSlot} /\ candidates \subseteq Config
BY DEF TypeOK

LEMMA InactiveIs ==
  ASSUME TypeOK
  PROVE  /\ Inactive \in Slot /\ Inactive # call.live
         /\ call.live \in Slot => \A s \in Slot : s = Inactive \/ s = call.live
BY Slots, Typed DEF Inactive

LEMMA UnreadableIs ==
  Unreadable.config = NoConfig /\ ~Readable(Unreadable)
BY DEF Unreadable, Readable

LEMMA BlobIs ==
  ASSUME NEW blob \in Blob
  PROVE  blob.config \in Config /\ Readable(blob) /\ blob.generation \in Generations
BY ConfigAssumption DEF Blob, Readable

LEMMA NewBlobIs ==
  ASSUME TypeOK, call.config \in candidates
  PROVE  NewBlob \in Blob /\ Readable(NewBlob) /\ NewBlob.config = call.config
BY Typed, ConfigAssumption DEF Blob, Readable, NewBlob

LEMMA PresentIs ==
  /\ Present \subseteq Slot
  /\ \A s \in Slot : s \in Present <=> Readable(slot[s])
BY DEF Present

LEMMA StoredIs ==
  ASSUME TypeOK, NEW s \in Present
  PROVE  /\ s \in Slot /\ slot[s] \in Blob /\ slot[s].config \in Config
         /\ slot[s].generation \in Generations
<1>1. s \in Slot /\ slot[s] \in Blob
  BY PresentIs, UnreadableIs, Typed
<1> QED
  BY <1>1, BlobIs

-----------------------------------------------------------------------------
(* The choice among the slots a call has read.                             *)
LEMMA BestIs ==
  ASSUME TypeOK, NEW r, r.slots \subseteq Present, r.slots # {}
  PROVE  /\ BestSlot(r) \in r.slots
         /\ \A s \in r.slots : slot[s].generation <= slot[BestSlot(r)].generation
<1>1. r.slots \subseteq {"a", "b"}
  BY PresentIs, Slots
<1>2. BestSlot(r) \in r.slots
  BY <1>1 DEF BestSlot
<1>3. ASSUME NEW s \in r.slots PROVE slot[s].generation <= slot[BestSlot(r)].generation
  <2>1. /\ slot[s].generation \in Generations
        /\ slot[BestSlot(r)].generation \in Generations
    BY <1>2, StoredIs
  <2>2. CASE s = BestSlot(r)
    BY <2>1, <2>2, LimitAssumption DEF Generations
  <2>3. CASE s # BestSlot(r)
    BY <1>1, <1>2, <2>1, <2>3, LimitAssumption DEF BestSlot, Generations
  <2> QED
    BY <2>2, <2>3
<1> QED
  BY <1>2, <1>3

LEMMA NewestIs ==
  ASSUME TypeOK, Found
  PROVE  /\ Newest \in Present
         /\ \A s \in Present : slot[s].generation <= slot[Newest].generation
<1>1. FullReading.slots = Present
  BY DEF FullReading
<1> QED
  BY <1>1, BestIs DEF Newest, Found

LEMMA LoadIs ==
  ASSUME TypeOK
  PROVE  /\ ~Found => Load = NoConfig
         /\ Found /\ active \in Present => Load = slot[active].config
         /\ Found /\ active \notin Present => Load = slot[Newest].config
         /\ Found => \E s \in Present : Load = slot[s].config
<1>1. FullReading.slots = Present /\ FullReading.pointer = active
  BY DEF FullReading
<1> QED
  BY <1>1, NewestIs DEF Load, LoadFrom, LiveSlot, Newest, Found

LEMMA SeenNewest ==
  ASSUME TypeOK, NEW r, r.slots \subseteq Present, Newest \in r.slots
  PROVE  BestSlot(r) = Newest
BY PresentIs, Slots DEF BestSlot, Newest, FullReading

LEMMA ReadingIs ==
  ASSUME NEW r \in Readings
  PROVE  /\ r.slots \subseteq Present /\ r.pointer \in {active, NoSlot}
         /\ Present \ r.slots \subseteq ReadFaults
BY DEF Readings

LEMMA AllMeans ==
  ASSUME TypeOK, AllOffered
  PROVE  LoadOffered /\ NewestOffered
BY LoadIs, NewestIs DEF AllOffered, LoadOffered, NewestOffered

(* What a load returns that read the newest slot.                          *)
LEMMA OfferedIs ==
  ASSUME TypeOK, LoadOffered, NewestOffered
  PROVE  LiveWasOffered
<1> SUFFICES ASSUME NEW r \in Readings, Found, ~Overlooks(r)
             PROVE  LoadFrom(r) \in candidates
  BY DEF LiveWasOffered
<1>1. r.slots \subseteq Present /\ r.pointer \in {active, NoSlot} /\ Newest \in r.slots
  BY ReadingIs DEF Overlooks
<1>2. BestSlot(r) = Newest
  BY <1>1, SeenNewest
<1>3. CASE r.pointer \in r.slots
  <2>1. r.pointer = active /\ active \in Present
    BY <1>1, <1>3, PresentIs, Slots
  <2> QED
    BY <1>3, <2>1, LoadIs DEF LoadFrom, LiveSlot, LoadOffered
<1>4. CASE r.pointer \notin r.slots
  BY <1>1, <1>2, <1>4 DEF LoadFrom, LiveSlot, NewestOffered
<1> QED
  BY <1>3, <1>4

(* A step that leaves the slots alone leaves their newest where it is.     *)
LEMMA SameSlots ==
  ASSUME slot' = slot
  PROVE  /\ Present' = Present /\ Found' = Found /\ Newest' = Newest
         /\ active' = active => Load' = Load
<1>1. Present' = Present
  BY DEF Present
<1>2. Newest' = Newest
  BY <1>1 DEF Newest, BestSlot, FullReading
<1>3. active' = active => Load' = Load
  BY <1>1 DEF Load, LoadFrom, LiveSlot, BestSlot, FullReading
<1> QED
  BY <1>1, <1>2, <1>3 DEF Found

-----------------------------------------------------------------------------
(* What each step does to the store's readers.                             *)
SettingsStep == [Settings!Next]_<< Load, candidates >>

LEMMA SaveBeginsKeeps ==
  ASSUME IInv, NEW config \in Config, NEW r \in Readings, SaveBegins(config, r)
  PROVE  IInv' /\ SettingsStep
<1> DEFINE stored == {slot[s].config : s \in Present}
<1>1. /\ slot' = slot /\ active' = active
      /\ candidates' = candidates \cup {config} \cup IF Overlooks(r) THEN stored ELSE {}
      /\ call' = [at |-> IF NeedsPromotion(r) THEN "promote" ELSE "fill",
                  config |-> config,
                  live |-> IF r.slots = {} THEN NoSlot ELSE BestSlot(r),
                  generation |-> NextGeneration(r)]
      /\ r.slots # {} => slot[BestSlot(r)].generation < GenerationLimit
  BY DEF SaveBegins, DoesNotWrap
<1>2. /\ Present' = Present /\ Found' = Found /\ Newest' = Newest /\ Load' = Load
  BY <1>1, SameSlots
<1>3. r.slots \subseteq Present /\ r.pointer \in {active, NoSlot} /\ TypeOK
  BY ReadingIs DEF IInv
<1>4. ASSUME r.slots # {}
      PROVE  /\ BestSlot(r) \in r.slots /\ BestSlot(r) \in Present /\ BestSlot(r) \in Slot
             /\ slot[BestSlot(r)].generation \in Generations
             /\ NextGeneration(r) = slot[BestSlot(r)].generation + 1
             /\ NextGeneration(r) \in Generations
  <2>1. BestSlot(r) \in r.slots
    BY <1>3, <1>4, BestIs
  <2>2. BestSlot(r) \in Slot /\ slot[BestSlot(r)].generation \in Generations
    BY <1>3, <2>1, StoredIs
  <2>3. NextGeneration(r) = slot[BestSlot(r)].generation + 1
    BY <1>4 DEF NextGeneration
  <2> QED
    BY <1>1, <1>3, <1>4, <2>1, <2>2, <2>3, LimitAssumption DEF Generations
<1>5. r.slots = {} => NextGeneration(r) = 1 /\ NextGeneration(r) \in Generations
  BY LimitAssumption DEF NextGeneration, Generations
<1>6. /\ call'.config = config /\ config \in candidates'
      /\ call'.at = IF NeedsPromotion(r) THEN "promote" ELSE "fill"
      /\ call'.generation = NextGeneration(r)
      /\ call'.live = IF r.slots = {} THEN NoSlot ELSE BestSlot(r)
  BY <1>1
<1>7. stored \subseteq Config
  BY <1>3, StoredIs
<1>8. TypeOK'
  <2>1. candidates' \subseteq Config
    BY <1>1, <1>3, <1>7, Typed
  <2>2. call' \in [at : Positions, config : Config \cup {NoConfig},
                   live : Slot \cup {NoSlot}, generation : Generations]
    BY <1>1, <1>4, <1>5 DEF Positions
  <2> QED
    BY <1>1, <1>3, <2>1, <2>2 DEF TypeOK
<1>9. LoadOffered' /\ NewestOffered'
  BY <1>1, <1>2 DEF IInv, LoadOffered, NewestOffered
<1>10. ASSUME Found, Newest \notin r.slots PROVE AllOffered'
  BY <1>1, <1>2, <1>10 DEF AllOffered, Overlooks
<1>11. ASSUME r.slots = {} PROVE CallIsSafe'
  <2>1. AllOffered'
    BY <1>2, <1>10, <1>11 DEF AllOffered, Found
  <2>2. StartsOver' /\ call'.at = "fill"
    BY <1>2, <1>5, <1>6, <1>11, <2>1, ReadingIs DEF StartsOver, NeedsPromotion
  <2> QED
    BY <1>6, <2>2 DEF CallIsSafe
<1>12. ASSUME r.slots # {} PROVE CallIsSafe'
  <2>1. Follows'
    BY <1>1, <1>2, <1>4, <1>6, <1>12 DEF Follows
  <2>2. Found /\ (AllOffered' \/ BestSlot(r) = Newest)
    BY <1>3, <1>10, <1>12, SeenNewest DEF Found
  <2>3. CASE NeedsPromotion(r)
    BY <1>2, <1>6, <1>12, <2>1, <2>2, <2>3 DEF CallIsSafe
  <2>4. CASE ~NeedsPromotion(r)
    <3>1. active' = call'.live
      BY <1>1, <1>3, <1>4, <1>6, <1>12, <2>4, Slots DEF NeedsPromotion
    <3>2. ASSUME BestSlot(r) = Newest, Inactive' \in Present'
          PROVE  slot'[Inactive'].generation <= slot'[call'.live].generation
      BY <1>1, <1>2, <1>3, <1>6, <1>12, <2>2, <3>2, NewestIs
    <3>3. FillsOther'
      BY <2>1, <2>2, <3>1, <3>2 DEF FillsOther
    <3> QED
      BY <1>6, <2>4, <3>3 DEF CallIsSafe
  <2> QED
    BY <2>3, <2>4
<1>13. SettingsStep
  <2>1. CASE ~Overlooks(r)
    BY <1>1, <1>2, <2>1 DEF SettingsStep, Settings!Next, Settings!Offer
  <2>2. CASE Overlooks(r)
    <3>1. Newest \in Present /\ slot[Newest].config \in candidates
      BY <1>3, <2>2, NewestIs DEF Overlooks, IInv, NewestOffered
    <3>2. ReadFaults \cap Slot # {}
      BY <2>2, <3>1, ReadingIs, PresentIs DEF Overlooks
    <3>3. PICK older \in Config : candidates' = candidates \cup {config, older}
      <4>1. CASE Present = {Newest}
        <5>1. stored = {slot[Newest].config}
          BY <4>1
        <5> QED
          BY <1>1, <1>7, <2>2, <3>1, <5>1
      <4>2. CASE Present # {Newest}
        <5>1. PICK s \in Present : s # Newest
          BY <3>1, <4>2
        <5>2. Present = {Newest, s}
          BY <3>1, <5>1, PresentIs, Slots
        <5>3. stored = {slot[Newest].config, slot[s].config}
          BY <5>2
        <5> QED
          BY <1>1, <1>7, <2>2, <3>1, <5>3
      <4> QED
        BY <4>1, <4>2
    <3>4. Settings!Overlook(config, older)
      BY <1>2, <3>2, <3>3 DEF Settings!Overlook
    <3> QED
      BY <3>4 DEF SettingsStep, Settings!Next
  <2> QED
    BY <2>1, <2>2
<1> QED
  BY <1>8, <1>9, <1>11, <1>12, <1>13 DEF IInv

LEMMA SaveRefusedKeeps ==
  ASSUME IInv, NEW config \in Config, NEW r \in Readings, SaveRefused(config, r)
  PROVE  IInv' /\ SettingsStep
<1>1. /\ slot' = slot /\ active' = active /\ call' = call /\ call.at = "idle"
      /\ candidates' = candidates \cup {config}
  BY DEF SaveRefused
<1>2. Found' = Found /\ Newest' = Newest /\ Load' = Load
  BY <1>1, SameSlots
<1>3. TypeOK' /\ LoadOffered' /\ NewestOffered' /\ CallIsSafe'
  BY <1>1, <1>2 DEF IInv, TypeOK, LoadOffered, NewestOffered, CallIsSafe
<1> QED
  BY <1>1, <1>2, <1>3 DEF IInv, SettingsStep, Settings!Next, Settings!Offer

(* The pointer alone moves, to a slot whose configuration is on offer.     *)
LEMMA PointerMoved ==
  ASSUME IInv, slot' = slot, candidates' = candidates, NEW s \in Present,
         slot[s].config \in candidates, active' \in {active, s}
  PROVE  /\ LoadOffered' /\ NewestOffered' /\ SettingsStep
         /\ active' \in Slot \cup {NoSlot} /\ slot' \in [Slot -> Blob \cup {Unreadable}]
<1>1. Present' = Present /\ Found' = Found /\ Newest' = Newest /\ Found /\ s \in Slot
      /\ (active' = active => Load' = Load)
  BY SameSlots, PresentIs DEF Found
<1>2. active' = s => Load' = slot[s].config
  BY <1>1 DEF Load, LoadFrom, LiveSlot, FullReading
<1> QED
  BY <1>1, <1>2, Typed
  DEF IInv, LoadOffered, NewestOffered, SettingsStep, Settings!Next, Settings!Waver

LEMMA PromoteKeeps ==
  ASSUME IInv, Promote
  PROVE  IInv' /\ SettingsStep
<1>1. /\ slot' = slot /\ active' = call.live /\ candidates' = candidates
      /\ call' = [call EXCEPT !.at = "fill"] /\ call.config \in candidates
      /\ Follows /\ (AllOffered \/ call.live = Newest) /\ TypeOK
  BY DEF Promote, IInv, CallIsSafe
<1>2. /\ call'.at = "fill" /\ call'.config = call.config
      /\ call'.live = call.live /\ call'.generation = call.generation
  BY <1>1 DEF TypeOK
<1>3. /\ call.live \in Present /\ Found /\ slot[call.live].config \in candidates
  BY <1>1, NewestIs DEF Follows, Found, AllOffered, IInv, NewestOffered
<1>4. /\ LoadOffered' /\ NewestOffered' /\ SettingsStep
      /\ active' \in Slot \cup {NoSlot} /\ slot' \in [Slot -> Blob \cup {Unreadable}]
  BY <1>1, <1>3, PointerMoved
<1>5. TypeOK'
  BY <1>1, <1>4 DEF TypeOK, Positions
<1>6. Present' = Present /\ Follows' /\ Inactive' = Inactive /\ (AllOffered => AllOffered')
  BY <1>1, <1>2, SameSlots DEF Follows, Inactive, AllOffered
<1>7. call.live = Newest /\ Inactive \in Present =>
        slot[Inactive].generation <= slot[call.live].generation
  BY <1>1, <1>3, NewestIs
<1>8. FillsOther'
  BY <1>1, <1>2, <1>6, <1>7 DEF FillsOther
<1> QED
  BY <1>1, <1>2, <1>4, <1>5, <1>8 DEF IInv, CallIsSafe

(* Whatever a write leaves in the slot that is not in use, the live and    *)
(* the newest configuration stay on offer.                                 *)
LEMMA InactiveWritten ==
  ASSUME IInv, StartsOver \/ FillsOther, call.config \in candidates, NEW left,
         left \in {slot[Inactive], NewBlob, Unreadable},
         slot' = [slot EXCEPT ![Inactive] = left],
         active' = active, candidates' = candidates
  PROVE  /\ slot' \in [Slot -> Blob \cup {Unreadable}]
         /\ LoadOffered' /\ NewestOffered' /\ SettingsStep
         /\ \A s \in Slot \ {Inactive} : slot'[s] = slot[s]
         /\ Present' \subseteq Present \cup {Inactive}
         /\ AllOffered => AllOffered'
<1>1. /\ Inactive \in Slot /\ Inactive # call.live /\ TypeOK
      /\ call.live \in Slot => \A s \in Slot : s = Inactive \/ s = call.live
      /\ slot \in [Slot -> Blob \cup {Unreadable}]
  BY InactiveIs, Typed DEF IInv
<1>2. NewBlob \in Blob /\ Readable(NewBlob) /\ NewBlob.config = call.config
  BY <1>1, NewBlobIs
<1>3. slot'[Inactive] = left /\ \A s \in Slot \ {Inactive} : slot'[s] = slot[s]
  BY <1>1
<1>4. slot' \in [Slot -> Blob \cup {Unreadable}]
  BY <1>1, <1>2
(* Found', Newest' and Load' in terms of what is present after the write.  *)
<1>5. /\ Present' \subseteq Slot
      /\ \A s \in Slot : s \in Present' <=> Readable(slot'[s])
      /\ Found' <=> Present' # {}
  BY DEF Present, Found
<1>6. ASSUME Found'
      PROVE  /\ Newest' \in Present'
             /\ active \in Present' => Load' = slot'[active].config
             /\ active \notin Present' => Load' = slot'[Newest'].config
  <2>1. FullReading'.slots = Present' /\ FullReading'.pointer = active
    BY DEF FullReading
  <2>2. Newest' \in Present'
    BY <1>5, <1>6, <2>1, Slots DEF Newest, BestSlot, FullReading
  <2> QED
    BY <1>5, <1>6, <2>1, <2>2 DEF Load, LoadFrom, LiveSlot, Newest
<1>7. ~Found' => Load' = NoConfig
  BY <1>5 DEF Load, LoadFrom, FullReading
<1>8. left = NewBlob => Inactive \in Present'
  BY <1>1, <1>2, <1>3, <1>5
<1>9. \A s \in Present' \ {Inactive} : s \in Present /\ slot'[s] = slot[s]
  BY <1>3, <1>5, PresentIs
<1>10. Inactive \in Present' => \/ left = NewBlob
                                \/ slot' = slot /\ left = slot[Inactive]
  BY <1>1, <1>3, <1>5, UnreadableIs
<1>11. ASSUME AllOffered PROVE AllOffered'
  <2>1. ASSUME NEW s \in Present' PROVE slot'[s].config \in candidates
    <3>1. CASE s # Inactive
      BY <1>9, <1>11, <3>1 DEF AllOffered
    <3>2. CASE s = Inactive /\ left = NewBlob
      BY <1>2, <1>3, <3>2
    <3>3. CASE s = Inactive /\ slot' = slot
      BY <1>11, <3>3, SameSlots DEF AllOffered
    <3> QED
      BY <1>10, <3>1, <3>2, <3>3
  <2> QED
    BY <2>1 DEF AllOffered
<1>12. CASE AllOffered
  <2>1. \A s \in Present' : slot'[s].config \in candidates
    BY <1>11, <1>12 DEF AllOffered
  <2>2. Found' => Load' \in candidates /\ slot'[Newest'].config \in candidates
    BY <1>6, <2>1
  <2>3. SettingsStep
    BY <1>7, <2>2
    DEF SettingsStep, Settings!Next, Settings!Waver, Settings!Damage
  <2> QED
    BY <1>3, <1>4, <1>9, <1>11, <1>12, <2>2, <2>3 DEF LoadOffered, NewestOffered
<1>13. CASE ~AllOffered
  <2>1. Follows /\ active = call.live /\ call.live \in Slot /\ call.live \in Present
    BY <1>13, PresentIs DEF StartsOver, FillsOther, Follows
  <2>2. call.live \in Present' /\ slot'[call.live] = slot[call.live] /\ Found'
    BY <1>1, <1>3, <1>5, <2>1, PresentIs
  <2>3. Found /\ Load = slot[call.live].config /\ Load' = Load
    BY <1>1, <1>6, <2>1, <2>2, LoadIs DEF Found
  <2>4. Load \in candidates
    BY <2>3 DEF IInv, LoadOffered
  <2>5. slot'[Newest'].config \in candidates
    <3>1. Newest' \in Slot /\ (Newest' = Inactive \/ Newest' = call.live)
      BY <1>1, <1>5, <1>6, <2>1, <2>2
    <3>2. CASE Newest' = call.live
      BY <2>2, <2>3, <2>4, <3>2
    <3>3. CASE Newest' = Inactive /\ left = NewBlob
      BY <1>2, <1>3, <3>3
    <3>4. CASE slot' = slot
      BY <2>3, <3>4, SameSlots DEF IInv, NewestOffered
    <3> QED
      BY <1>6, <1>10, <2>2, <3>1, <3>2, <3>3, <3>4
  <2> QED
    BY <1>3, <1>4, <1>9, <1>11, <2>3, <2>4, <2>5
    DEF LoadOffered, NewestOffered, SettingsStep
<1> QED
  BY <1>12, <1>13

LEMMA FillKeeps ==
  ASSUME IInv, Fill
  PROVE  IInv' /\ SettingsStep
<1>1. /\ slot' = [slot EXCEPT ![Inactive] = NewBlob]
      /\ active' = active /\ candidates' = candidates
      /\ call' = [call EXCEPT !.at = "readback"]
      /\ StartsOver \/ FillsOther
      /\ call.config \in candidates /\ TypeOK
  BY DEF Fill, IInv, CallIsSafe
<1>2. /\ slot' \in [Slot -> Blob \cup {Unreadable}]
      /\ LoadOffered' /\ NewestOffered' /\ SettingsStep
      /\ \A s \in Slot \ {Inactive} : slot'[s] = slot[s]
      /\ Present' \subseteq Present \cup {Inactive}
      /\ AllOffered => AllOffered'
  BY <1>1, InactiveWritten
<1>3. /\ call'.at = "readback" /\ call'.config = call.config
      /\ call'.live = call.live /\ call'.generation = call.generation
  BY <1>1 DEF TypeOK
<1>4. /\ Inactive' = Inactive /\ NewBlob' = NewBlob
      /\ Inactive \in Slot /\ Inactive # call.live
  BY <1>1, <1>3, InactiveIs DEF Inactive, NewBlob
<1>5. slot'[Inactive'] = NewBlob'
  BY <1>1, <1>4, Typed
<1>6. TypeOK'
  BY <1>1, <1>2 DEF TypeOK, Positions
<1>7. Follows => Follows'
  <2>1. ASSUME call.live \in Present
        PROVE  call.live \in Present' /\ slot'[call.live] = slot[call.live]
    BY <1>2, <1>4, <2>1, PresentIs DEF Present
  <2> QED
    BY <1>3, <2>1 DEF Follows
<1>8. WroteOther'
  BY <1>1, <1>2, <1>3, <1>4, <1>5, <1>7 DEF WroteOther, FillsOther, StartsOver
<1> QED
  BY <1>1, <1>2, <1>3, <1>6, <1>8 DEF IInv, CallIsSafe

LEMMA ReadBackKeeps ==
  ASSUME IInv, ReadBack
  PROVE  IInv' /\ SettingsStep
<1>1. /\ slot' = slot /\ active' = active /\ candidates' = candidates
      /\ call' = [call EXCEPT !.at = "point"]
      /\ WroteOther /\ call.config \in candidates /\ TypeOK
  BY DEF ReadBack, IInv, CallIsSafe
<1>2. /\ call'.at = "point" /\ call'.config = call.config
      /\ call'.live = call.live /\ call'.generation = call.generation
  BY <1>1 DEF TypeOK
<1>3. Present' = Present /\ Found' = Found /\ Newest' = Newest /\ Load' = Load
  BY <1>1, SameSlots
<1>4. TypeOK'
  BY <1>1 DEF TypeOK, Positions
<1>5. CallIsSafe'
  BY <1>1, <1>2, <1>3
  DEF CallIsSafe, WroteOther, Follows, StartsOver, AllOffered, Inactive, NewBlob
<1> QED
  BY <1>1, <1>3, <1>4, <1>5
  DEF IInv, LoadOffered, NewestOffered, SettingsStep

(* The slot written holds the call's configuration, and is the newest      *)
(* unless the call had read no slot.                                       *)
LEMMA WrittenIs ==
  ASSUME IInv, WroteOther, call.config \in candidates
  PROVE  /\ Found /\ Inactive \in Present /\ slot[Inactive].config = call.config
         /\ StartsOver \/ Newest = Inactive
<1>1. /\ Inactive \in Slot /\ TypeOK
      /\ call.live \in Slot => \A s \in Slot : s = Inactive \/ s = call.live
  BY InactiveIs DEF IInv
<1>2. Found /\ Inactive \in Present /\ slot[Inactive].config = call.config
  BY <1>1, NewBlobIs, PresentIs DEF WroteOther, Found
<1>3. ASSUME Follows PROVE Newest = Inactive
  <2>1. /\ Newest \in Present /\ Newest \in Slot /\ call.live \in Slot
        /\ slot[Inactive].generation <= slot[Newest].generation
    BY <1>1, <1>2, <1>3, NewestIs, PresentIs DEF Follows
  <2>2. /\ slot[Inactive].generation = slot[call.live].generation + 1
        /\ slot[call.live].generation \in Generations
    BY <1>1, <1>3, StoredIs DEF WroteOther, Follows, NewBlob
  <2> QED
    BY <1>1, <2>1, <2>2, LimitAssumption DEF Generations
<1> QED
  BY <1>2, <1>3 DEF WroteOther

LEMMA NoCallType == NoCall \in [at : Positions, config : Config \cup {NoConfig},
                                live : Slot \cup {NoSlot}, generation : Generations]
BY LimitAssumption DEF NoCall, Positions, Generations

LEMMA IdleIsSafe == call' = NoCall => CallIsSafe'
BY DEF CallIsSafe, NoCall

LEMMA PointKeeps ==
  ASSUME IInv, Point
  PROVE  IInv' /\ SettingsStep
<1> DEFINE stored == {slot[s].config : s \in Present}
<1>1. /\ slot' = slot /\ active' = Inactive /\ call' = NoCall
      /\ candidates' = {call.config} \cup IF call.live = NoSlot THEN stored ELSE {}
      /\ WroteOther /\ call.config \in candidates /\ TypeOK
  BY DEF Point, IInv, CallIsSafe
<1>2. /\ Found /\ Inactive \in Present /\ slot[Inactive].config = call.config
      /\ StartsOver \/ Newest = Inactive
  BY <1>1, WrittenIs
<1>3. Present' = Present /\ Found' = Found /\ Newest' = Newest /\ Newest \in Present
  BY <1>1, <1>2, SameSlots, NewestIs
<1>4. Load' = call.config
  BY <1>1, <1>2, <1>3 DEF Load, LoadFrom, LiveSlot, FullReading
<1>5. stored \subseteq Config
  BY <1>1, StoredIs
<1>6. TypeOK'
  <2>1. candidates' \subseteq Config
    BY <1>1, <1>5, Typed
  <2>2. Inactive \in Slot
    BY <1>1, InactiveIs
  <2> QED
    BY <1>1, <2>1, <2>2, NoCallType DEF TypeOK
<1>7. LoadOffered' /\ NewestOffered'
  <2>1. slot[Newest].config \in candidates'
    BY <1>1, <1>2, <1>3 DEF StartsOver
  <2> QED
    BY <1>1, <1>3, <1>4, <2>1 DEF LoadOffered, NewestOffered
<1>8. SettingsStep
  <2>1. call.config \in Config
    BY <1>1, Typed
  <2>2. CASE candidates' = {call.config}
    BY <1>1, <1>4, <2>1, <2>2 DEF SettingsStep, Settings!Next, Settings!Acknowledge
  <2>3. CASE candidates' # {call.config}
    (* A call that had read no slot, with a blob left in the other one.      *)
    <3>1. call.live = NoSlot /\ StartsOver /\ Inactive \in Slot
      BY <1>1, <1>2, <2>3, InactiveIs, PresentIs, Slots DEF WroteOther, Follows
    <3>2. PICK s \in Present : s # Inactive
      BY <1>1, <1>2, <2>3
    <3>3. Present = {Inactive, s}
      BY <1>2, <3>1, <3>2, PresentIs, Slots
    <3>4. /\ candidates' = {call.config, slot[s].config}
          /\ slot[s].config \in candidates /\ slot[s].config \in Config
      BY <1>1, <1>2, <1>5, <3>1, <3>2, <3>3 DEF StartsOver, AllOffered
    <3>5. ReadFaults \cap Slot # {}
      BY <1>2, <3>1, <3>2, PresentIs DEF StartsOver
    <3>6. Settings!AcknowledgeBlindly(call.config, slot[s].config)
      BY <1>1, <1>4, <3>4, <3>5 DEF Settings!AcknowledgeBlindly
    <3> QED
      BY <2>1, <3>4, <3>6 DEF SettingsStep, Settings!Next
  <2> QED
    BY <2>2, <2>3
<1> QED
  BY <1>1, <1>6, <1>7, <1>8, IdleIsSafe DEF IInv

LEMMA SaveEndsEarlyKeeps ==
  ASSUME IInv, SaveEndsEarly
  PROVE  IInv' /\ SettingsStep
<1>1. call' = NoCall /\ candidates' = candidates /\ call.config \in candidates /\ TypeOK
  BY DEF SaveEndsEarly, IInv, CallIsSafe
<1>2. call.at \in {"promote", "fill", "readback", "point"}
  BY <1>1, Typed DEF SaveEndsEarly, Positions
(* The pointer alone was to be moved, and moved or not.                    *)
<1>3. ASSUME slot' = slot, NEW s \in Present, active' \in {active, s},
             slot[s].config \in candidates
      PROVE  IInv' /\ SettingsStep
  <2>1. /\ LoadOffered' /\ NewestOffered' /\ SettingsStep
        /\ active' \in Slot \cup {NoSlot} /\ slot' \in [Slot -> Blob \cup {Unreadable}]
    BY <1>1, <1>3, PointerMoved
  <2> QED
    BY <1>1, <2>1, NoCallType, IdleIsSafe DEF IInv, TypeOK
<1>4. CASE call.at = "promote"
  <2>1. /\ slot' = slot /\ active' \in {active, call.live}
        /\ Follows /\ (AllOffered \/ call.live = Newest)
    BY <1>4 DEF SaveEndsEarly, IInv, CallIsSafe
  <2>2. call.live \in Present /\ slot[call.live].config \in candidates
    BY <2>1 DEF Follows, AllOffered, IInv, NewestOffered, Found
  <2> QED
    BY <1>3, <2>1, <2>2
<1>5. CASE call.at = "fill"
  <2>1. /\ active' = active /\ (StartsOver \/ FillsOther)
        /\ \E left \in {slot[Inactive], NewBlob, Unreadable} :
             slot' = [slot EXCEPT ![Inactive] = left]
    BY <1>5 DEF SaveEndsEarly, IInv, CallIsSafe
  <2>2. /\ slot' \in [Slot -> Blob \cup {Unreadable}]
        /\ LoadOffered' /\ NewestOffered' /\ SettingsStep
    BY <1>1, <2>1, InactiveWritten
  <2>3. TypeOK'
    BY <1>1, <2>1, <2>2, NoCallType DEF TypeOK
  <2> QED
    BY <1>1, <2>2, <2>3, IdleIsSafe DEF IInv
<1>6. CASE call.at \in {"readback", "point"}
  <2>1. slot' = slot /\ active' \in {active, Inactive} /\ WroteOther
    BY <1>6 DEF SaveEndsEarly, IInv, CallIsSafe
  <2>2. Inactive \in Present /\ slot[Inactive].config \in candidates
    BY <1>1, <2>1, WrittenIs
  <2> QED
    BY <1>3, <2>1, <2>2
<1> QED
  BY <1>2, <1>4, <1>5, <1>6

LEMMA ResetKeeps ==
  ASSUME IInv, Reset
  PROVE  IInv' /\ SettingsStep
<1>1. /\ slot' = [s \in Slot |-> Unreadable] /\ active' = NoSlot
      /\ call' = NoCall /\ candidates' = {}
  BY DEF Reset
<1>2. Present' = {} /\ ~Found' /\ Load' = NoConfig
  BY <1>1, UnreadableIs DEF Present, Found, Load, LoadFrom, FullReading
<1>3. TypeOK'
  BY <1>1, NoCallType DEF TypeOK
<1> QED
  BY <1>1, <1>2, <1>3, IdleIsSafe
  DEF IInv, LoadOffered, NewestOffered, SettingsStep, Settings!Next, Settings!Erase

LEMMA LoseEntriesKeeps ==
  ASSUME IInv, LoseEntries
  PROVE  IInv' /\ SettingsStep
<1> PICK lost \in SUBSET Slot :
      slot' = [s \in Slot |-> IF s \in lost THEN Unreadable ELSE slot[s]]
  BY DEF LoseEntries
<1>1. /\ call.at = "idle" /\ call' = call /\ active' \in {active, NoSlot}
      /\ candidates' = IF Load' = NoConfig THEN candidates
                       ELSE candidates \cup {Load'}
  BY DEF LoseEntries
<1>2. \A s \in Slot : slot'[s] = IF s \in lost THEN Unreadable ELSE slot[s]
  OBVIOUS
<1>3. slot' \in [Slot -> Blob \cup {Unreadable}]
  BY Typed DEF IInv
<1>4. ASSUME Found'
      PROVE  /\ Newest' \in Present' /\ slot'[Newest'].config \in Config
             /\ active' \in Present' => Load' = slot'[active'].config
             /\ active' \notin Present' => Load' = slot'[Newest'].config
             /\ Load' \in Config
  <2>1. /\ Present' \subseteq Slot
        /\ \A s \in Present' : Readable(slot'[s])
    BY DEF Present
  <2>2. FullReading'.slots = Present' /\ FullReading'.pointer = active'
    BY DEF FullReading
  <2>3. Newest' \in Present'
    BY <1>4, <2>1, <2>2, Slots DEF Newest, BestSlot, FullReading, Found
  <2>4. \A s \in Present' : slot'[s].config \in Config
    BY <1>3, <2>1, UnreadableIs, BlobIs
  <2>5. /\ active' \in Present' => Load' = slot'[active'].config
        /\ active' \notin Present' => Load' = slot'[Newest'].config
    BY <1>4, <2>2, <2>3 DEF Load, LoadFrom, LiveSlot, Newest, Found
  <2> QED
    BY <2>3, <2>4, <2>5
<1>5. ~Found' => Load' = NoConfig
  BY DEF Load, LoadFrom, FullReading, Found
<1>6. candidates' \subseteq Config
  BY <1>1, <1>4, <1>5, Typed DEF IInv
<1>7. LoadOffered'
  BY <1>1, <1>4, ConfigAssumption DEF LoadOffered
<1>8. ASSUME Found' PROVE slot'[Newest'].config \in candidates'
  <2>1. CASE active' \notin Present' \/ active' = Newest'
    BY <1>4, <1>7, <1>8, <2>1 DEF LoadOffered
  (* Two readable slots and a pointer: nothing was lost.                   *)
  <2>2. CASE active' \in Present' /\ active' # Newest'
    <3>1. \A s \in Slot : Readable(slot'[s])
      BY <1>4, <1>8, <2>2, Slots DEF Present
    <3>2. slot' = slot
      <4>1. \A s \in Slot : slot'[s] = slot[s]
        BY <1>2, <3>1, UnreadableIs
      <4> QED
        BY <1>3, <4>1, Typed DEF IInv
    <3>3. Found /\ Newest' = Newest
      BY <1>8, <3>2, SameSlots
    <3> QED
      BY <1>1, <3>2, <3>3 DEF IInv, NewestOffered
  <2> QED
    BY <2>1, <2>2
<1>9. TypeOK'
  BY <1>1, <1>3, <1>6 DEF IInv, TypeOK
<1>10. CallIsSafe'
  BY <1>1 DEF CallIsSafe
<1>11. SettingsStep
  <2>1. Load' \in Config \cup {NoConfig}
    BY <1>4, <1>5
  <2> QED
    BY <1>1, <2>1 DEF SettingsStep, Settings!Next, Settings!Damage
<1> QED
  BY <1>7, <1>8, <1>9, <1>10, <1>11 DEF IInv, NewestOffered

LEMMA InitHolds == Init => IInv /\ Settings!Init
<1> SUFFICES ASSUME Init PROVE IInv /\ Settings!Init
  OBVIOUS
<1>1. ~Found /\ Load = NoConfig
  BY UnreadableIs DEF Init, Present, Found, Load, LoadFrom, FullReading
<1>2. TypeOK
  BY NoCallType DEF Init, TypeOK
<1>3. CallIsSafe
  BY DEF Init, CallIsSafe, NoCall
<1> QED
  BY <1>1, <1>2, <1>3
  DEF Init, IInv, LoadOffered, NewestOffered, Settings!Init

LEMMA StepKeeps == IInv /\ [Next]_vars => IInv' /\ SettingsStep
<1> SUFFICES ASSUME IInv, [Next]_vars PROVE IInv' /\ SettingsStep
  OBVIOUS
<1>1. CASE UNCHANGED vars
  <2>1. slot' = slot /\ active' = active /\ call' = call /\ candidates' = candidates
    BY <1>1 DEF vars
  <2>2. Present' = Present /\ Found' = Found /\ Newest' = Newest /\ Load' = Load
    BY <2>1, SameSlots
  <2>3. CallIsSafe' = CallIsSafe
    BY <2>1, <2>2
    DEF CallIsSafe, StartsOver, FillsOther, WroteOther, Follows, AllOffered, Inactive,
        NewBlob
  <2> QED
    BY <2>1, <2>2, <2>3
    DEF IInv, TypeOK, LoadOffered, NewestOffered, SettingsStep
<1> QED
  BY <1>1, SaveBeginsKeeps, SaveRefusedKeeps, PromoteKeeps, FillKeeps, ReadBackKeeps,
     PointKeeps, SaveEndsEarlyKeeps, ResetKeeps, LoseEntriesKeeps DEF Next

-----------------------------------------------------------------------------
(* The slots, the pointer and the call in progress keep their types.       *)
THEOREM TypeCorrect == Spec => []TypeOK
<1>1. IInv => TypeOK
  BY DEF IInv
<1> QED
  BY InitHolds, StepKeeps, <1>1, PTL DEF Spec

(* select_live_slot (provision_store.c:335): whatever failed and whenever  *)
(* the power was cut, what a load returns that read the newest slot was    *)
(* acknowledged last or handed to a save since, or put back on offer by a  *)
(* save that overlooked that slot.                                         *)
THEOREM LiveOffered == Spec => []LiveWasOffered
<1>1. IInv => LiveWasOffered
  BY OfferedIs DEF IInv
<1> QED
  BY InitHolds, StepKeeps, <1>1, PTL DEF Spec

(* save_nvs_atomic (provision_store.c:556): no step of a save that read a  *)
(* configuration, failed or not, takes the device from one to none,        *)
(* whichever of its other reads failed.                                    *)
THEOREM KeepsAConfig == Spec => SaveKeepsAConfig
<1>1. ASSUME IInv, [Next]_vars
      PROVE  [call.at # "idle" /\ call.live # NoSlot /\ Found => Found' \/ Reset]_vars
  <2>1. ASSUME call.at # "idle", call.live # NoSlot, Found, Next, ~Reset PROVE Found'
    <3>1. CASE slot' = slot
      BY <2>1, <3>1, SameSlots
    <3>2. CASE Fill \/ (call.at = "fill" /\ SaveEndsEarly)
      <4>1. Follows /\ call.live \in Slot /\ Inactive # call.live
        BY <1>1, <2>1, <3>2, InactiveIs, PresentIs
        DEF Fill, IInv, CallIsSafe, FillsOther, StartsOver, Follows
      <4>2. \E left : slot' = [slot EXCEPT ![Inactive] = left]
        BY <3>2 DEF Fill, SaveEndsEarly
      <4>3. slot'[call.live] = slot[call.live]
        BY <1>1, <4>1, <4>2, Typed DEF IInv
      <4> QED
        BY <4>1, <4>3 DEF Found, Follows, Present
    <3> QED
      BY <1>1, <2>1, <3>1, <3>2, Typed
      DEF Next, SaveBegins, SaveRefused, Promote, ReadBack, Point, SaveEndsEarly,
          LoseEntries, IInv, Positions
  <2> QED
    BY <1>1, <2>1
<1>2. IInv /\ [Next]_vars =>
        [call.at # "idle" /\ call.live # NoSlot /\ Found => Found' \/ Reset]_vars
  BY <1>1
<1> QED
  BY InitHolds, StepKeeps, <1>2, PTL DEF Spec, SaveKeepsAConfig

(* provision_store_save_atomic (provision_store.c:654): the two slots and  *)
(* the pointer implement a store that promises its users one live          *)
(* configuration, the acknowledged one or one offered since.               *)
THEOREM IsSettingsStore == Spec => ImplementsSettingsStore
<1>1. IInv /\ [Next]_vars => [Settings!Next]_<< Load, candidates >>
  BY StepKeeps DEF SettingsStep
<1> QED
  BY InitHolds, StepKeeps, <1>1, PTL DEF Spec, ImplementsSettingsStore, Settings!Spec

=============================================================================
