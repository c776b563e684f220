------------------------ MODULE RecentWindow_proofs ------------------------
(***************************************************************************)
(* The ring of recent notifications suppresses the ones passed on last,    *)
(* for any capacity and any notifications.  The invariant behind it says   *)
(* where each of them is: before the ring is full the i-th is in slot      *)
(* i - 1, then the oldest is where the next one will go.                   *)
(***************************************************************************)
EXTENDS RecentWindow, TLAPS

(* The slot of the i-th of the last notifications in a full ring.          *)
Wrapped(j) == IF j < RecentCapacity THEN j ELSE j - RecentCapacity

Place(i) ==
  IF recent.count < RecentCapacity THEN i - 1 ELSE Wrapped(recent.next_index + i - 1)

Aligned ==
  /\ Len(passed) = recent.count
  /\ recent.count < RecentCapacity => recent.next_index = recent.count
  /\ \A i \in 1 .. Len(passed) : passed[i] = recent.relay_ids[Place(i)]

IInv == WindowTypeOK /\ Aligned /\ PassedOnceInTheWindow

-----------------------------------------------------------------------------
LEMMA Typed ==
  ASSUME WindowTypeOK
  PROVE  /\ recent.relay_ids \in [RecentSlot -> RelayId \cup {NoId}]
         /\ recent.next_index \in RecentSlot /\ recent.count \in 0 .. RecentCapacity
         /\ passed \in Seq(RelayId) /\ Len(passed) \in Nat
BY DEF WindowTypeOK, Recent

(* Every place of the ring that is used is the place of one of them.       *)
LEMMA PlaceIs ==
  ASSUME WindowTypeOK, Aligned
  PROVE  /\ \A i \in 1 .. Len(passed) : Place(i) \in RecentSlot /\ Place(i) < recent.count
         /\ \A slot \in RecentSlot : slot < recent.count =>
              \E i \in 1 .. Len(passed) : Place(i) = slot
<1>1. /\ RecentCapacity \in Nat \ {0} /\ recent.next_index \in Nat
      /\ recent.next_index < RecentCapacity
      /\ recent.count \in Nat /\ recent.count <= RecentCapacity
      /\ Len(passed) = recent.count
  BY RecentAssumption, Typed DEF RecentSlot, Aligned
<1>2. ASSUME NEW i \in 1 .. Len(passed)
      PROVE  Place(i) \in RecentSlot /\ Place(i) < recent.count
  BY <1>1, <1>2 DEF Place, Wrapped, RecentSlot
<1>3. ASSUME NEW slot \in RecentSlot, slot < recent.count
      PROVE  \E i \in 1 .. Len(passed) : Place(i) = slot
  <2>1. CASE recent.count < RecentCapacity
    <3>1. slot + 1 \in 1 .. Len(passed) /\ Place(slot + 1) = slot
      BY <1>1, <1>3, <2>1 DEF Place, RecentSlot
    <3> QED
      BY <3>1
  <2>2. CASE recent.count = RecentCapacity /\ slot >= recent.next_index
    <3>1. /\ slot - recent.next_index + 1 \in 1 .. Len(passed)
          /\ Place(slot - recent.next_index + 1) = slot
      BY <1>1, <1>3, <2>2 DEF Place, Wrapped, RecentSlot
    <3> QED
      BY <3>1
  <2>3. CASE recent.count = RecentCapacity /\ slot < recent.next_index
    <3>1. /\ slot + RecentCapacity - recent.next_index + 1 \in 1 .. Len(passed)
          /\ Place(slot + RecentCapacity - recent.next_index + 1) = slot
      BY <1>1, <1>3, <2>3 DEF Place, Wrapped, RecentSlot
    <3> QED
      BY <3>1
  <2> QED
    BY <1>1, <1>3, <2>1, <2>2, <2>3 DEF RecentSlot
<1> QED
  BY <1>2, <1>3

LEMMA Suppresses ==
  ASSUME WindowTypeOK, Aligned
  PROVE  SuppressesTheLast
<1> SUFFICES ASSUME NEW id \in RelayId
             PROVE  IsRecent(recent, id) <=> \E i \in 1 .. Len(passed) : passed[i] = id
  BY DEF SuppressesTheLast
<1>1. ASSUME NEW slot \in RecentSlot, slot < recent.count, recent.relay_ids[slot] = id
      PROVE  \E i \in 1 .. Len(passed) : passed[i] = id
  <2>1. PICK i \in 1 .. Len(passed) : Place(i) = slot
    BY <1>1, PlaceIs
  <2> QED
    BY <1>1, <2>1 DEF Aligned
<1>2. ASSUME NEW i \in 1 .. Len(passed), passed[i] = id
      PROVE  IsRecent(recent, id)
  <2>1. Place(i) \in RecentSlot /\ Place(i) < recent.count
    BY PlaceIs
  <2> QED
    BY <1>2, <2>1 DEF Aligned, IsRecent
<1> QED
  BY <1>1, <1>2 DEF IsRecent

-----------------------------------------------------------------------------
LEMMA NextIndex ==
  ASSUME NEW n \in RecentSlot
  PROVE  /\ (n + 1) % RecentCapacity = IF n + 1 < RecentCapacity THEN n + 1 ELSE 0
         /\ (n + 1) % RecentCapacity \in RecentSlot
<1>1. /\ RecentCapacity \in Nat \ {0} /\ n \in Nat /\ n < RecentCapacity
  BY RecentAssumption DEF RecentSlot
<1>2. CASE n + 1 < RecentCapacity
  BY <1>1, <1>2 DEF RecentSlot
<1>3. CASE n + 1 = RecentCapacity
  BY <1>1, <1>3 DEF RecentSlot
<1> QED
  BY <1>1, <1>2, <1>3

LEMMA PassKeeps ==
  ASSUME IInv, NEW notification \in Notification, Pass(notification)
  PROVE  IInv'
<1> DEFINE id == notification.relay_id
           n == recent.next_index
           count == recent.count
           ids == recent.relay_ids
           all == Append(passed, id)
<1>1. id \in RelayId /\ ~IsRecent(recent, id)
  BY DEF Notification, Pass, Publishes
<1>2. /\ RecentCapacity \in Nat \ {0} /\ n \in RecentSlot /\ n \in Nat /\ n < RecentCapacity
      /\ count \in Nat /\ count <= RecentCapacity
      /\ ids \in [RecentSlot -> RelayId \cup {NoId}]
      /\ passed \in Seq(RelayId) /\ Len(passed) = count
      /\ count < RecentCapacity => n = count
  BY RecentAssumption, Typed DEF IInv, Aligned, RecentSlot
<1>3. /\ recent' = [relay_ids  |-> [ids EXCEPT ![n] = id],
                    next_index |-> (n + 1) % RecentCapacity,
                    count      |-> Counted(recent)]
      /\ passed' = IF Len(all) > RecentCapacity THEN Tail(all) ELSE all
  BY DEF Pass, MarkRecent, Remember
<1>4. /\ recent'.relay_ids = [ids EXCEPT ![n] = id]
      /\ recent'.next_index = IF n + 1 < RecentCapacity THEN n + 1 ELSE 0
      /\ recent'.count = IF count < RecentCapacity THEN count + 1 ELSE count
  BY <1>2, <1>3, NextIndex DEF Counted
<1>5. /\ all \in Seq(RelayId) /\ Len(all) = count + 1
      /\ all[count + 1] = id
      /\ \A i \in 1 .. count : all[i] = passed[i]
  BY <1>1, <1>2
<1>6. /\ count < RecentCapacity => passed' = all
      /\ count = RecentCapacity => passed' = Tail(all)
  <2> HIDE DEF all
  <2> QED
    BY <1>2, <1>3, <1>5
<1>7. WindowTypeOK'
  <2>1. recent' \in Recent
    BY <1>1, <1>2, <1>3, NextIndex DEF Recent, Counted
  <2>2. passed' \in Seq(RelayId)
    <3> HIDE DEF all
    <3>1. all # << >> /\ Tail(all) \in Seq(RelayId)
      BY <1>2, <1>5
    <3>2. all \in Seq(RelayId) /\ (passed' = all \/ passed' = Tail(all))
      BY <1>2, <1>5, <1>6
    <3> QED
      BY <3>1, <3>2
  <2> QED
    BY <2>1, <2>2 DEF WindowTypeOK
<1>8. \A i \in 1 .. count : passed[i] # id
  BY <1>1, Suppresses, <1>2 DEF IInv, SuppressesTheLast
<1>9. \A i \in 1 .. count : passed[i] = ids[Place(i)]
  BY <1>2 DEF IInv, Aligned
<1>10. \A i, j \in 1 .. count : passed[i] = passed[j] => i = j
  BY <1>2 DEF IInv, PassedOnceInTheWindow
<1> HIDE DEF all
<1>11. ASSUME NEW i \in 1 .. count + 1, NEW j \in 1 .. count + 1, all[i] = all[j]
       PROVE  i = j
  BY SMTT(30), <1>2, <1>5, <1>8, <1>10, <1>11
<1>12. CASE count < RecentCapacity
  <2>1. passed' = all /\ recent'.count = count + 1 /\ n = count
    BY <1>2, <1>4, <1>6, <1>12
  <2>2. ASSUME NEW i \in 1 .. Len(passed')
        PROVE  passed'[i] = recent'.relay_ids[Place(i)']
    <3>1. Place(i)' = i - 1
      BY <1>2, <1>4, <1>5, <1>12, <2>1 DEF Place, Wrapped
    <3>2. CASE i = count + 1
      BY <1>2, <1>4, <1>5, <2>1, <3>1, <3>2
    <3>3. CASE i # count + 1
      <4>1. i \in 1 .. count /\ i - 1 \in RecentSlot /\ i - 1 # n /\ Place(i) = i - 1
        BY <1>2, <1>5, <1>12, <2>1, <3>3 DEF Place, RecentSlot
      <4>2. recent'.relay_ids[i - 1] = ids[i - 1]
        BY <1>2, <1>4, <4>1
      <4> QED
        BY <1>5, <1>9, <2>1, <3>1, <4>1, <4>2
    <3> QED
      BY <3>2, <3>3
  <2>3. Aligned'
    BY <1>2, <1>4, <1>5, <1>12, <2>1, <2>2 DEF Aligned
  <2>4. PassedOnceInTheWindow'
    BY <1>5, <1>11, <2>1 DEF PassedOnceInTheWindow
  <2> QED
    BY <1>7, <2>3, <2>4 DEF IInv
<1>13. CASE count = RecentCapacity
  <2>1. /\ passed' = Tail(all) /\ recent'.count = count
        /\ Len(Tail(all)) = count
        /\ \A i \in 1 .. count : Tail(all)[i] = all[i + 1]
    BY <1>2, <1>4, <1>5, <1>6, <1>13
  <2>2. ASSUME NEW i \in 1 .. Len(passed')
        PROVE  passed'[i] = recent'.relay_ids[Place(i)']
    <3>1. /\ i \in 1 .. count /\ passed'[i] = all[i + 1]
          /\ Place(i)' = Wrapped(recent'.next_index + i - 1)
      BY <1>2, <1>13, <2>1 DEF Place
    <3>2. CASE i = count
      <4>1. Place(i)' = n
        BY <1>2, <1>4, <1>13, <3>1, <3>2 DEF Wrapped
      <4> QED
        BY <1>2, <1>4, <1>5, <3>1, <3>2, <4>1
    <3>3. CASE i # count
      <4>1. i + 1 \in 1 .. count /\ Place(i + 1) = Wrapped(n + i)
        BY <1>2, <1>13, <3>1, <3>3 DEF Place
      <4>2. /\ Place(i)' = Wrapped(n + i) /\ Wrapped(n + i) \in RecentSlot
            /\ Wrapped(n + i) # n
        <5>1. i \in Nat /\ 1 <= i /\ i < RecentCapacity
          BY <1>2, <1>13, <3>1, <3>3
        <5>2. Wrapped(n + i) \in RecentSlot /\ Wrapped(n + i) # n
          BY <1>2, <5>1 DEF Wrapped, RecentSlot
        <5>3. CASE n + 1 < RecentCapacity
          <6>1. recent'.next_index + i - 1 = n + i
            BY <1>2, <1>4, <5>1, <5>3
          <6> QED
            BY <3>1, <5>2, <6>1
        <5>4. CASE n + 1 = RecentCapacity
          <6>1. recent'.next_index + i - 1 = i - 1 /\ n + i = RecentCapacity + (i - 1)
            BY SMTT(30), <1>2, <1>4, <5>1, <5>4
          <6> QED
            BY <1>2, <3>1, <5>1, <5>2, <6>1 DEF Wrapped
        <5> QED
          BY <1>2, <5>3, <5>4
      <4>3. recent'.relay_ids[Wrapped(n + i)] = ids[Wrapped(n + i)]
        BY <1>2, <1>4, <4>2
      <4> QED
        BY <1>5, <1>9, <3>1, <4>1, <4>2, <4>3
    <3> QED
      BY <3>2, <3>3
  <2>3. Aligned'
    BY <1>2, <1>13, <2>1, <2>2 DEF Aligned
  <2>4. PassedOnceInTheWindow'
    <3>1. ASSUME NEW i \in 1 .. count, NEW j \in 1 .. count, Tail(all)[i] = Tail(all)[j]
          PROVE  i = j
      <4>1. i + 1 \in 1 .. count + 1 /\ j + 1 \in 1 .. count + 1
            /\ all[i + 1] = all[j + 1]
        BY <1>2, <2>1, <3>1
      <4>2. i + 1 = j + 1
        BY <1>11, <4>1
      <4> QED
        BY <1>2, <4>2
    <3> QED
      BY <2>1, <3>1 DEF PassedOnceInTheWindow
  <2> QED
    BY <1>7, <2>3, <2>4 DEF IInv
<1> QED
  BY <1>2, <1>12, <1>13

LEMMA InitInvariant == WindowInit => IInv
<1> SUFFICES ASSUME WindowInit PROVE IInv
  OBVIOUS
<1>1. recent = RecentInit /\ passed = << >> /\ Len(passed) = 0
  BY DEF WindowInit
<1>2. 0 \in RecentSlot /\ 0 \in 0 .. RecentCapacity /\ 0 < RecentCapacity
  BY RecentAssumption DEF RecentSlot
<1>3. WindowTypeOK
  BY <1>1, <1>2 DEF WindowTypeOK, Recent, RecentInit
<1> QED
  BY <1>1, <1>2, <1>3 DEF IInv, Aligned, PassedOnceInTheWindow, RecentInit

LEMMA NextKeeps == IInv /\ [WindowNext]_windowVars => IInv'
<1> SUFFICES ASSUME IInv, [WindowNext]_windowVars PROVE IInv'
  OBVIOUS
<1>1. CASE WindowNext
  BY <1>1, PassKeeps DEF WindowNext
<1>2. CASE UNCHANGED windowVars
  BY <1>2 DEF IInv, WindowTypeOK, Aligned, Place, PassedOnceInTheWindow, windowVars
<1> QED
  BY <1>1, <1>2

LEMMA Invariant == WindowSpec => []IInv
BY InitInvariant, NextKeeps, PTL DEF WindowSpec

(* The ring's index and count stay in their ranges however often the index *)
(* goes round (relay_policy.c:200-211).                                    *)
THEOREM TypeCorrect == WindowSpec => []WindowTypeOK
<1>1. IInv => WindowTypeOK
  BY DEF IInv
<1> QED
  BY Invariant, <1>1, PTL

(* recent_cache_contains (relay_policy.c:186): the ring suppresses exactly *)
(* the last notifications passed on, as many as it has slots.              *)
THEOREM RemembersTheLast == WindowSpec => []SuppressesTheLast
<1>1. IInv => SuppressesTheLast
  BY Suppresses DEF IInv
<1> QED
  BY Invariant, <1>1, PTL

(* relay_policy_decide (relay_policy.c:213): no notification is passed on  *)
(* twice among the last.                                                   *)
THEOREM PassedOnce == WindowSpec => []PassedOnceInTheWindow
<1>1. IInv => PassedOnceInTheWindow
  BY DEF IInv
<1> QED
  BY Invariant, <1>1, PTL
=============================================================================
