------------------------ MODULE RequestQueue_proofs ------------------------
(***************************************************************************)
(* The ring of pending events, for any events and any capacity: it is a    *)
(* FIFO as long as no cancellation finds it wrapped around the end of its  *)
(* array, and a cancellation leaves no event of its uid even then.  The    *)
(* compaction is a loop whose every turn reads what the turns before have  *)
(* written; what it leaves is proved by contradiction, from a least turn   *)
(* that would go wrong (Least).                                            *)
(***************************************************************************)
EXTENDS RequestQueue, SequenceTheorems, WellFoundedInduction, TLAPS

-----------------------------------------------------------------------------
(* Each set of natural numbers that is not empty has a least element.      *)
LEMMA Least ==
  ASSUME NEW T, T \subseteq Nat, T # {}
  PROVE  \E m \in T : \A n \in T : m <= n
<1>1. PICK m \in T : \A n \in T : ~(<< n, m >> \in OpToRel(<, Nat))
  BY NatLessThanWellFounded, WFMin
<1>2. \A n \in T : ~(n < m)
  BY <1>1 DEF OpToRel
<1> QED
  BY <1>2

LEMMA Wrap ==
  ASSUME NEW c \in Nat \ {0}, NEW x \in 0 .. 2 * c - 1
  PROVE  x % c = IF x < c THEN x ELSE x - c
  OBVIOUS

(* The slots of the waiting events of a ring, with how far each is from    *)
(* the head.                                                               *)
LEMMA SlotFacts ==
  ASSUME NEW E, NEW q \in RingType(E), NEW n \in 0 .. Capacity - 1
  PROVE  /\ SlotAt(q, n) \in RingSlot
         /\ SlotAt(q, n) = IF q.head + n < Capacity THEN q.head + n
                           ELSE q.head + n - Capacity
<1>1. q.head \in 0 .. Capacity - 1 /\ q.head + n \in 0 .. 2 * Capacity - 1
  BY CapacityAssumption DEF RingType, RingSlot
<1> DEFINE x == q.head + n
<1>2. x % Capacity = IF x < Capacity THEN x ELSE x - Capacity
  BY <1>1, Wrap, CapacityAssumption
<1> QED
  BY <1>1, <1>2, CapacityAssumption DEF SlotAt, RingSlot

(* The events that wait are in W.                                          *)
Holds(q, W) == \A n \in 0 .. q.count - 1 : q.items[SlotAt(q, n)] \in W

(* What a turn of the compaction leaves, when it was given such a ring.    *)
Swept(r, q, n, uid, E, W) ==
  /\ r.items \in [RingSlot -> E \cup {NoEvent}]
  /\ r.written \in 0 .. n
  /\ \A s \in 0 .. r.written - 1 :
       r.items[s] \in W /\ r.items[s].uid # uid
  /\ \A s \in RingSlot : s >= r.written => r.items[s] = q.items[s]

LEMMA TurnSweeps ==
  ASSUME NEW E, NEW W \in SUBSET E, NEW q \in RingType(E), NEW uid, Holds(q, W),
         NEW n \in 0 .. q.count - 1, NEW r, Swept(r, q, n, uid, E, W)
  PROVE  Swept(Turn(r, SlotAt(q, n), uid), q, n + 1, uid, E, W)
<1> DEFINE slot == SlotAt(q, n)
           event == r.items[slot]
<1>1. q.count \in 0 .. Capacity /\ Capacity \in Nat /\ n \in 0 .. Capacity - 1
  BY CapacityAssumption DEF RingType
<1>2. slot \in RingSlot
  BY <1>1, SlotFacts
<1>3. event \in W
  BY <1>2 DEF Holds, Swept, RingSlot
<1>4. CASE event.uid = uid
  BY <1>1, <1>4 DEF Turn, Swept
<1>5. CASE event.uid # uid
  <2> DEFINE items == [r.items EXCEPT ![r.written] = event]
  <2>1. r.written \in RingSlot /\ r.written \in Nat
    BY <1>1 DEF Swept, RingSlot
  <2>2. /\ items \in [RingSlot -> E \cup {NoEvent}]
        /\ items[r.written] = event
        /\ \A s \in RingSlot : s # r.written => items[s] = r.items[s]
    BY <1>3, <2>1 DEF Swept
  <2> HIDE DEF items
  <2>3. \A s \in 0 .. r.written :
          items[s] \in W /\ items[s].uid # uid
    <3> TAKE s \in 0 .. r.written
    <3> HIDE DEF event
    <3>1. CASE s = r.written
      BY <1>3, <1>5, <2>2, <3>1
    <3>2. CASE s # r.written
      <4>1. s \in 0 .. r.written - 1 /\ s \in RingSlot
        BY <1>1, <2>1, <3>2 DEF RingSlot
      <4> QED
        BY <2>2, <3>2, <4>1 DEF Swept
    <3> QED
      BY <3>1, <3>2
  <2>4. \A s \in RingSlot : s >= r.written + 1 => items[s] = q.items[s]
    <3> TAKE s \in RingSlot
    <3> HAVE s >= r.written + 1
    <3>1. s # r.written /\ s >= r.written
      BY <1>1, <2>1 DEF RingSlot
    <3>2. r.items[s] = q.items[s]
      BY <3>1 DEF Swept
    <3> QED
      BY <2>2, <3>1, <3>2
  <2> DEFINE after == Turn(r, slot, uid)
  <2>5. after.items = items /\ after.written = r.written + 1
    BY <1>5 DEF Turn, items
  <2> HIDE DEF after
  <2>6. after.written \in 0 .. n + 1 /\ after.written - 1 = r.written
    BY <1>1, <2>1, <2>5 DEF Swept
  <2>7. Swept(after, q, n + 1, uid, E, W)
    BY <2>2, <2>3, <2>4, <2>5, <2>6 DEF Swept
  <2> QED
    BY <2>7 DEF after
<1> QED
  BY <1>4, <1>5

(* The turns of the compaction, one after the other.                       *)
Turns(f, d, q, uid) ==
  f = [n \in 0 .. d |->
         IF n = 0 THEN [items |-> q.items, written |-> 0]
         ELSE Turn(f[n - 1], SlotAt(q, n - 1), uid)]

LEMMA TurnsExist ==
  ASSUME NEW q, NEW uid, NEW d \in Nat
  PROVE  \E f : Turns(f, d, q, uid)
<1> DEFINE T == {n \in Nat : ~\E f : Turns(f, n, q, uid)}
<1>1. SUFFICES ASSUME T # {} PROVE FALSE
  OBVIOUS
<1>2. PICK m \in T : \A n \in T : m <= n
  BY <1>1, Least, Zenon
<1>3. CASE m = 0
  <2> DEFINE f == [n \in 0 .. 0 |-> [items |-> q.items, written |-> 0]]
  <2>1. Turns(f, 0, q, uid)
    BY DEF Turns
  <2> QED
    BY <1>2, <1>3, <2>1
<1>4. CASE m > 0
  <2>1. m - 1 \in Nat /\ m - 1 \notin T
    BY <1>2, <1>4
  <2>2. PICK f : Turns(f, m - 1, q, uid)
    BY <2>1
  <2> DEFINE g == [n \in 0 .. m |->
                     IF n = 0 THEN [items |-> q.items, written |-> 0]
                     ELSE Turn(f[n - 1], SlotAt(q, n - 1), uid)]
  <2>3. \A n \in 0 .. m - 1 : g[n] = f[n]
    BY <1>2, <1>4, <2>2 DEF Turns
  <2>4. g = [n \in 0 .. m |->
               IF n = 0 THEN [items |-> q.items, written |-> 0]
               ELSE Turn(g[n - 1], SlotAt(q, n - 1), uid)]
    <3> DEFINE Value(h, n) ==
          IF n = 0 THEN [items |-> q.items, written |-> 0]
          ELSE Turn(h[n - 1], SlotAt(q, n - 1), uid)
    <3>1. ASSUME NEW n \in 0 .. m
          PROVE  Value(f, n) = Value(g, n)
      <4>1. CASE n = 0
        BY <4>1
      <4>2. CASE n # 0
        <5>1. n - 1 \in 0 .. m - 1
          BY <1>2, <4>2
        <5>2. g[n - 1] = f[n - 1]
          <6> HIDE DEF g
          <6> QED
            BY <2>3, <5>1
        <5> QED
          BY <4>2, <5>2
      <4> QED
        BY <4>1, <4>2
    <3>2. g = [n \in 0 .. m |-> Value(f, n)]
      OBVIOUS
    <3> HIDE DEF Value, g
    <3>3. g = [n \in 0 .. m |-> Value(g, n)]
      BY <3>1, <3>2
    <3> QED
      BY <3>3 DEF Value
  <2> HIDE DEF g
  <2>5. Turns(g, m, q, uid)
    BY <2>4 DEF Turns
  <2> QED
    BY <1>2, <2>5
<1> QED
  BY <1>2, <1>3, <1>4

LEMMA TurnAfterTurn ==
  ASSUME NEW q, q.count \in Nat, NEW uid, NEW f, Turns(f, q.count, q, uid)
  PROVE  /\ f[0] = [items |-> q.items, written |-> 0]
         /\ \A n \in 0 .. q.count - 1 : f[n + 1] = Turn(f[n], SlotAt(q, n), uid)
<1>1. f[0] = [items |-> q.items, written |-> 0]
  BY DEF Turns
<1>2. ASSUME NEW n \in 0 .. q.count - 1
      PROVE  f[n + 1] = Turn(f[n], SlotAt(q, n), uid)
  <2>1. n + 1 \in 0 .. q.count /\ n + 1 # 0 /\ (n + 1) - 1 = n
    OBVIOUS
  <2> QED
    BY <2>1 DEF Turns
<1> QED
  BY <1>1, <1>2

(* The turns leave no event of the uid they cancel behind them, and no     *)
(* other than those that waited, although they may lose or double them.    *)
LEMMA TurnsSweep ==
  ASSUME NEW E, NEW W \in SUBSET E, NEW q \in RingType(E), NEW uid, Holds(q, W),
         NEW f, Turns(f, q.count, q, uid)
  PROVE  \A n \in 0 .. q.count : Swept(f[n], q, n, uid, E, W)
<1> DEFINE T == {n \in 0 .. q.count : ~Swept(f[n], q, n, uid, E, W)}
<1>1. q.count \in Nat
  BY CapacityAssumption DEF RingType
<1>2. /\ f[0] = [items |-> q.items, written |-> 0]
      /\ \A n \in 0 .. q.count - 1 : f[n + 1] = Turn(f[n], SlotAt(q, n), uid)
  BY <1>1, TurnAfterTurn
<1>3. SUFFICES ASSUME T # {} PROVE FALSE
  BY <1>1
<1>4. PICK m \in T : \A n \in T : m <= n
  <2>1. T \subseteq Nat
    BY <1>1
  <2> HIDE DEF T
  <2> QED
    BY <1>3, <2>1, Least, Zenon
<1>5. CASE m = 0
  <2>1. Swept(f[0], q, 0, uid, E, W)
    BY <1>2 DEF Swept, RingType
  <2> QED
    BY <1>4, <1>5, <2>1
<1>6. CASE m # 0
  <2>1. m - 1 \in 0 .. q.count - 1 /\ m - 1 \notin T /\ (m - 1) + 1 = m
    BY <1>1, <1>4, <1>6
  <2>2. Swept(f[m - 1], q, m - 1, uid, E, W)
    BY <1>1, <2>1
  <2>3. Swept(Turn(f[m - 1], SlotAt(q, m - 1), uid), q, (m - 1) + 1, uid, E, W)
    BY <2>1, <2>2, TurnSweeps
  <2>4. f[(m - 1) + 1] = Turn(f[m - 1], SlotAt(q, m - 1), uid)
    BY <1>2, <2>1
  <2> QED
    BY <1>4, <2>1, <2>3, <2>4
<1> QED
  BY <1>5, <1>6

LEMMA CompactTurns ==
  ASSUME NEW E, NEW q \in RingType(E), NEW uid
  PROVE  \E f : Turns(f, q.count, q, uid) /\ Compact(q, uid) = f[q.count]
<1> DEFINE f == CHOOSE g : Turns(g, q.count, q, uid)
<1>1. q.count \in Nat
  BY CapacityAssumption DEF RingType
<1>2. Turns(f, q.count, q, uid)
  BY <1>1, TurnsExist
<1>3. Compact(q, uid) = f[q.count]
  BY DEF Compact, Turns
<1> QED
  BY <1>2, <1>3

LEMMA CompactSweeps ==
  ASSUME NEW E, NEW W \in SUBSET E, NEW q \in RingType(E), NEW uid, Holds(q, W)
  PROVE  Swept(Compact(q, uid), q, q.count, uid, E, W)
<1>1. PICK f : Turns(f, q.count, q, uid) /\ Compact(q, uid) = f[q.count]
  BY CompactTurns
<1>2. q.count \in 0 .. q.count
  BY CapacityAssumption DEF RingType
<1> QED
  BY <1>1, <1>2, TurnsSweep

(* The operations of the ring keep it a ring whose events wait.            *)
LEMMA RingEmpty ==
  ASSUME NEW E, NEW W
  PROVE  EmptyRing \in RingType(E) /\ Holds(EmptyRing, W)
  BY CapacityAssumption DEF EmptyRing, RingType, Holds, RingSlot

LEMMA RingCancel ==
  ASSUME NEW E, NEW W \in SUBSET E, NEW q \in RingType(E), NEW uid, Holds(q, W)
  PROVE  /\ CancelUid(q, uid) \in RingType(E)
         /\ Holds(CancelUid(q, uid), {e \in W : e.uid # uid})
         /\ CancelUid(q, uid).count <= q.count
<1>1. q.count \in 0 .. Capacity /\ Capacity \in Nat \ {0}
  BY CapacityAssumption DEF RingType
<1>2. CASE IsEmpty(q)
  BY <1>1, <1>2 DEF CancelUid, IsEmpty, Holds
<1>3. CASE ~IsEmpty(q)
  <2> DEFINE c == Compact(q, uid)
             after == CancelUid(q, uid)
  <2>1. Swept(c, q, q.count, uid, E, W)
    BY CompactSweeps
  <2>2. after = [items |-> c.items, head |-> 0, count |-> c.written]
    BY <1>3 DEF CancelUid
  <2> HIDE DEF c, after
  <2>3. after \in RingType(E) /\ after.head = 0
    BY <1>1, <2>1, <2>2 DEF Swept, RingType, RingSlot
  <2>4. ASSUME NEW n \in 0 .. after.count - 1
        PROVE  SlotAt(after, n) = n
    <3>1. n \in 0 .. Capacity - 1
      BY <1>1, <2>1, <2>2 DEF Swept
    <3> QED
      BY <1>1, <2>3, <3>1, SlotFacts
  <2>5. Holds(after, {e \in W : e.uid # uid})
    BY <2>1, <2>2, <2>4 DEF Swept, Holds
  <2>6. after.count <= q.count
    BY <1>1, <2>1, <2>2 DEF Swept
  <2> QED
    BY <2>3, <2>5, <2>6 DEF after
<1> QED
  BY <1>2, <1>3

LEMMA RingPush ==
  ASSUME NEW E, NEW W \in SUBSET E, NEW q \in RingType(E), NEW event \in W,
         Holds(q, W), ~IsFull(q)
  PROVE  Push(q, event) \in RingType(E) /\ Holds(Push(q, event), W)
<1>1. /\ q.count \in 0 .. Capacity - 1 /\ Capacity \in Nat \ {0}
      /\ q.items \in [RingSlot -> E \cup {NoEvent}] /\ q.head \in RingSlot
  BY CapacityAssumption DEF RingType, IsFull
<1> DEFINE last == SlotAt(q, q.count)
           after == Push(q, event)
<1>2. last \in RingSlot
  BY <1>1, SlotFacts
<1>3. /\ after.items = [q.items EXCEPT ![last] = event]
      /\ after.count = q.count + 1 /\ after.head = q.head
      /\ after = [items |-> after.items, head |-> after.head, count |-> after.count]
  BY DEF Push
<1>4. \A n \in 0 .. q.count - 1 : SlotAt(q, n) # last /\ SlotAt(q, n) \in RingSlot
  <2> TAKE n \in 0 .. q.count - 1
  <2>1. /\ n \in 0 .. Capacity - 1 /\ q.count \in 0 .. Capacity - 1 /\ n < q.count
        /\ q.head \in 0 .. Capacity - 1
    BY <1>1 DEF RingSlot
  <2>2. /\ SlotAt(q, n) \in RingSlot
        /\ SlotAt(q, n) = IF q.head + n < Capacity THEN q.head + n
                          ELSE q.head + n - Capacity
    BY <2>1, SlotFacts
  <2>3. last = IF q.head + q.count < Capacity THEN q.head + q.count
               ELSE q.head + q.count - Capacity
    BY <2>1, SlotFacts
  <2> HIDE DEF last
  <2> QED
    BY <1>1, <2>1, <2>2, <2>3
<1>5. \A n \in 0 .. q.count : SlotAt(after, n) = SlotAt(q, n)
  BY <1>3 DEF SlotAt
<1> HIDE DEF after, last
<1>6. after \in RingType(E)
  <2>1. after.items \in [RingSlot -> E \cup {NoEvent}]
    BY <1>1, <1>2, <1>3
  <2>2. after.count \in 0 .. Capacity
    BY <1>1, <1>3
  <2> QED
    BY <1>1, <1>3, <2>1, <2>2 DEF RingType
<1>7. Holds(after, W)
  <2>1. ASSUME NEW n \in 0 .. after.count - 1
        PROVE  after.items[SlotAt(after, n)] \in W
    <3>1. CASE n = q.count
      BY <1>1, <1>2, <1>3, <1>5, <3>1 DEF last
    <3>2. CASE n # q.count
      <4>1. n \in 0 .. q.count - 1
        BY <1>1, <1>3, <3>2
      <4>2. after.items[SlotAt(after, n)] = q.items[SlotAt(q, n)]
        BY <1>1, <1>2, <1>3, <1>4, <1>5, <4>1
      <4> QED
        BY <4>1, <4>2 DEF Holds
    <3> QED
      BY <3>1, <3>2
  <2> QED
    BY <2>1 DEF Holds
<1> QED
  BY <1>6, <1>7 DEF after

LEMMA PopSlots ==
  ASSUME NEW E, NEW q \in RingType(E), ~IsEmpty(q)
  PROVE  /\ Pop(q) \in RingType(E) /\ Pop(q).items = q.items
         /\ Pop(q).count = q.count - 1 /\ q.count \in 1 .. Capacity
         /\ \A n \in 0 .. q.count - 2 : SlotAt(Pop(q), n) = SlotAt(q, n + 1)
<1>1. /\ q.count \in 1 .. Capacity /\ Capacity \in Nat \ {0}
      /\ q.items \in [RingSlot -> E \cup {NoEvent}] /\ q.head \in RingSlot
  BY CapacityAssumption DEF RingType, IsEmpty
<1> DEFINE after == Pop(q)
<1>2. /\ after.items = q.items /\ after.count = q.count - 1
      /\ after.head = (q.head + 1) % Capacity
      /\ after = [items |-> after.items, head |-> after.head, count |-> after.count]
  BY DEF Pop
<1>3. (q.head + 1) % Capacity = IF q.head + 1 < Capacity THEN q.head + 1 ELSE 0
  <2> DEFINE x == q.head + 1
  <2>1. x \in 0 .. 2 * Capacity - 1
    BY <1>1 DEF RingSlot
  <2>2. x % Capacity = IF x < Capacity THEN x ELSE x - Capacity
    BY <1>1, <2>1, Wrap
  <2> QED
    BY <1>1, <2>2 DEF RingSlot
<1> HIDE DEF after
<1>4. after \in RingType(E)
  <2>1. after.head \in RingSlot /\ after.count \in 0 .. Capacity
    BY <1>1, <1>2, <1>3 DEF RingSlot
  <2> QED
    BY <1>1, <1>2, <2>1 DEF RingType
<1>5. ASSUME NEW n \in 0 .. q.count - 2
      PROVE  SlotAt(after, n) = SlotAt(q, n + 1)
  <2>1. n \in 0 .. Capacity - 1 /\ n + 1 \in 0 .. Capacity - 1
    BY <1>1
  <2>2. SlotAt(after, n) = IF after.head + n < Capacity THEN after.head + n
                           ELSE after.head + n - Capacity
    BY <1>4, <2>1, SlotFacts
  <2>3. SlotAt(q, n + 1) = IF q.head + (n + 1) < Capacity THEN q.head + (n + 1)
                           ELSE q.head + (n + 1) - Capacity
    BY <2>1, SlotFacts
  <2>4. q.head \in 0 .. Capacity - 1
    BY <1>1 DEF RingSlot
  <2>5. CASE q.head + 1 < Capacity
    BY <1>1, <1>2, <1>3, <2>1, <2>2, <2>3, <2>4, <2>5
  <2>6. CASE ~(q.head + 1 < Capacity)
    <3>1. after.head = 0 /\ q.head = Capacity - 1
      BY <1>1, <1>2, <1>3, <2>4, <2>6
    <3> QED
      BY <1>1, <2>1, <2>2, <2>3, <3>1
  <2> QED
    BY <2>5, <2>6
<1> QED
  BY <1>1, <1>2, <1>4, <1>5 DEF after

LEMMA RingPop ==
  ASSUME NEW E, NEW W \in SUBSET E, NEW q \in RingType(E), Holds(q, W), ~IsEmpty(q)
  PROVE  /\ Oldest(q) \in W
         /\ Pop(q) \in RingType(E) /\ Holds(Pop(q), W)
<1>1. /\ Pop(q) \in RingType(E) /\ Pop(q).items = q.items
      /\ Pop(q).count = q.count - 1 /\ q.count \in 1 .. Capacity
      /\ \A n \in 0 .. q.count - 2 : SlotAt(Pop(q), n) = SlotAt(q, n + 1)
  BY PopSlots
<1>2. Capacity \in Nat \ {0} /\ q.head \in RingSlot
  BY CapacityAssumption DEF RingType
<1>3. SlotAt(q, 0) = q.head
  BY <1>2, SlotFacts DEF RingSlot
<1>4. Oldest(q) \in W
  BY <1>1, <1>2, <1>3 DEF Holds, Oldest
<1>5. ASSUME NEW n \in 0 .. Pop(q).count - 1
      PROVE  Pop(q).items[SlotAt(Pop(q), n)] \in W
  <2>1. n \in 0 .. q.count - 2 /\ n + 1 \in 0 .. q.count - 1
    BY <1>1, <1>2
  <2> QED
    BY <1>1, <2>1 DEF Holds
<1> QED
  BY <1>1, <1>4, <1>5 DEF Holds

-----------------------------------------------------------------------------
(* The ring as a sequence.                                                 *)
LEMMA WaitingFacts ==
  ASSUME NEW E, NEW q \in RingType(E), Holds(q, E)
  PROVE  /\ Waiting(q) \in Seq(E) /\ Len(Waiting(q)) = q.count /\ q.count \in Nat
         /\ \A n \in 1 .. q.count : Waiting(q)[n] = q.items[SlotAt(q, n - 1)]
         /\ \A n \in 0 .. q.count - 1 : q.items[SlotAt(q, n)] = Waiting(q)[n + 1]
<1>1. q.count \in Nat
  BY CapacityAssumption DEF RingType
<1>2. \A n \in 1 .. q.count : q.items[SlotAt(q, n - 1)] \in E
  BY <1>1 DEF Holds
<1>3. Waiting(q) \in [1 .. q.count -> E]
  BY <1>2 DEF Waiting
<1>4. Waiting(q) \in Seq(E) /\ Len(Waiting(q)) = q.count
  BY <1>1, <1>3
<1>5. \A n \in 1 .. q.count : Waiting(q)[n] = q.items[SlotAt(q, n - 1)]
  BY DEF Waiting
<1>6. ASSUME NEW n \in 0 .. q.count - 1
      PROVE  q.items[SlotAt(q, n)] = Waiting(q)[n + 1]
  <2>1. n + 1 \in 1 .. q.count /\ (n + 1) - 1 = n
    BY <1>1
  <2> QED
    BY <1>5, <2>1
<1> QED
  BY <1>1, <1>4, <1>5, <1>6

(* Two sequences that agree at every place are one.                        *)
LEMMA SameSequence ==
  ASSUME NEW S, NEW s \in Seq(S), NEW t \in Seq(S), Len(s) = Len(t),
         \A n \in 1 .. Len(s) : s[n] = t[n]
  PROVE  s = t
  BY SeqEqual

LEMMA PushAppends ==
  ASSUME NEW E, NEW q \in RingType(E), Holds(q, E), NEW event \in E, ~IsFull(q)
  PROVE  Waiting(Push(q, event)) = Append(Waiting(q), event) /\ q.count < Capacity
<1>1. PICK after : after = Push(q, event)
  OBVIOUS
<1>2. after \in RingType(E) /\ Holds(after, E)
  BY <1>1, RingPush
<1> DEFINE old == Waiting(q)
           new == Waiting(after)
<1>3. /\ old \in Seq(E) /\ Len(old) = q.count /\ q.count \in Nat
      /\ \A n \in 1 .. q.count : old[n] = q.items[SlotAt(q, n - 1)]
  BY WaitingFacts
<1>4. /\ new \in Seq(E) /\ Len(new) = after.count
      /\ \A n \in 1 .. after.count : new[n] = after.items[SlotAt(after, n - 1)]
  BY <1>2, WaitingFacts
<1>5. /\ after.items = [q.items EXCEPT ![SlotAt(q, q.count)] = event]
      /\ after.count = q.count + 1 /\ after.head = q.head
  BY <1>1 DEF Push
<1>6. q.count \in 0 .. Capacity - 1 /\ q.items \in [RingSlot -> E \cup {NoEvent}]
      /\ q.head \in 0 .. Capacity - 1
  BY CapacityAssumption DEF RingType, RingSlot, IsFull
<1>7. \A n \in Nat : SlotAt(after, n) = SlotAt(q, n)
  BY <1>5 DEF SlotAt
<1> HIDE DEF old, new
<1>8. ASSUME NEW n \in 1 .. q.count PROVE new[n] = old[n]
  <2>1. /\ n - 1 \in 0 .. Capacity - 1 /\ n \in 1 .. after.count /\ n - 1 \in Nat
        /\ n - 1 < q.count
    BY <1>5, <1>6, CapacityAssumption
  <2>2. /\ SlotAt(q, n - 1) \in RingSlot
        /\ SlotAt(q, n - 1) = IF q.head + (n - 1) < Capacity THEN q.head + (n - 1)
                              ELSE q.head + (n - 1) - Capacity
    BY <2>1, SlotFacts
  <2>3. SlotAt(q, q.count) = IF q.head + q.count < Capacity THEN q.head + q.count
                             ELSE q.head + q.count - Capacity
    BY <1>6, SlotFacts
  <2>4. SlotAt(q, n - 1) # SlotAt(q, q.count)
    BY <1>6, <2>1, <2>2, <2>3, CapacityAssumption
  <2> QED
    BY <1>3, <1>4, <1>5, <1>6, <1>7, <2>1, <2>2, <2>4
<1>9. new[q.count + 1] = event
  <2>1. q.count + 1 \in 1 .. after.count /\ (q.count + 1) - 1 = q.count
    BY <1>5, <1>6
  <2>2. SlotAt(q, q.count) \in RingSlot
    BY <1>6, SlotFacts
  <2> QED
    BY <1>4, <1>5, <1>6, <1>7, <2>1, <2>2
<1>10. new = Append(old, event)
  <2>1. /\ Append(old, event) \in Seq(E) /\ Len(Append(old, event)) = q.count + 1
        /\ \A n \in 1 .. q.count : Append(old, event)[n] = old[n]
        /\ Append(old, event)[q.count + 1] = event
    BY <1>3, AppendProperties
  <2> DEFINE longer == Append(old, event)
  <2> HIDE DEF longer
  <2>2. \A n \in 1 .. Len(new) : new[n] = longer[n]
    BY <1>3, <1>4, <1>5, <1>8, <1>9, <2>1 DEF longer
  <2>3. Len(new) = Len(longer) /\ longer \in Seq(E)
    BY <1>4, <1>5, <2>1 DEF longer
  <2>4. new = longer
    BY <1>4, <2>2, <2>3, SameSequence
  <2> QED
    BY <2>4 DEF longer
<1> QED
  BY <1>1, <1>6, <1>10, CapacityAssumption DEF old, new

LEMMA PopIsTail ==
  ASSUME NEW E, NEW q \in RingType(E), Holds(q, E), ~IsEmpty(q)
  PROVE  Waiting(q) # << >> /\ Waiting(Pop(q)) = Tail(Waiting(q))
<1>1. PICK after : after = Pop(q)
  OBVIOUS
<1>2. after \in RingType(E) /\ Holds(after, E)
  BY <1>1, RingPop
<1> DEFINE old == Waiting(q)
           new == Waiting(after)
<1>3. /\ old \in Seq(E) /\ Len(old) = q.count /\ q.count \in Nat
      /\ \A n \in 1 .. q.count : old[n] = q.items[SlotAt(q, n - 1)]
  BY WaitingFacts
<1>4. /\ new \in Seq(E) /\ Len(new) = after.count
      /\ \A n \in 1 .. after.count : new[n] = after.items[SlotAt(after, n - 1)]
  BY <1>2, WaitingFacts
<1>5. after.items = q.items /\ after.count = q.count - 1 /\ q.count > 0
  BY <1>1, <1>3 DEF Pop, IsEmpty
<1> HIDE DEF old, new
<1>6. ASSUME NEW n \in 1 .. after.count PROVE new[n] = old[n + 1]
  <2>1. /\ n - 1 \in 0 .. after.count - 1 /\ n + 1 \in 1 .. q.count
        /\ (n + 1) - 1 = n /\ (n - 1) + 1 = n
    BY <1>3, <1>5
  <2>2. SlotAt(after, n - 1) = SlotAt(q, (n - 1) + 1)
    <3>1. n - 1 \in 0 .. q.count - 2
      BY <1>3, <1>5
    <3> QED
      BY <1>1, <3>1, PopSlots
  <2>3. new[n] = after.items[SlotAt(after, n - 1)]
    BY <1>4
  <2>4. old[n + 1] = q.items[SlotAt(q, n)]
    BY <1>3, <2>1
  <2> QED
    BY <1>5, <2>1, <2>2, <2>3, <2>4
<1>7. old # << >> /\ new = Tail(old)
  <2>1. old # << >>
    BY <1>3, <1>5
  <2>2. /\ Tail(old) \in Seq(E) /\ Len(Tail(old)) = q.count - 1
        /\ \A n \in 1 .. q.count - 1 : Tail(old)[n] = old[n + 1]
    BY <1>3, <2>1, HeadTailProperties
  <2> DEFINE rest == Tail(old)
  <2> HIDE DEF rest
  <2>3. Len(new) = Len(rest) /\ rest \in Seq(E) /\ \A n \in 1 .. Len(new) : new[n] = rest[n]
    BY <1>4, <1>5, <1>6, <2>2 DEF rest
  <2>4. new = rest
    BY <1>4, <2>3, SameSequence
  <2> QED
    BY <2>1, <2>4 DEF rest
<1> QED
  BY <1>1, <1>7 DEF old, new

(* What EventFifo keeps of a sequence, one place after the other.          *)
KeepsUpTo(k, d, w, uid) ==
  k = [n \in 0 .. d |->
         IF n = 0 THEN << >>
         ELSE IF w[n].uid = uid THEN k[n - 1]
         ELSE Append(k[n - 1], w[n])]

LEMMA KeptExists ==
  ASSUME NEW w, NEW uid, NEW d \in Nat
  PROVE  \E k : KeepsUpTo(k, d, w, uid)
<1> DEFINE T == {n \in Nat : ~\E k : KeepsUpTo(k, n, w, uid)}
<1>1. SUFFICES ASSUME T # {} PROVE FALSE
  OBVIOUS
<1>2. PICK m \in T : \A n \in T : m <= n
  BY <1>1, Least, Zenon
<1>3. CASE m = 0
  <2> DEFINE k == [n \in 0 .. 0 |-> << >>]
  <2>1. KeepsUpTo(k, 0, w, uid)
    BY DEF KeepsUpTo
  <2> QED
    BY <1>2, <1>3, <2>1
<1>4. CASE m > 0
  <2>1. m - 1 \in Nat /\ m - 1 \notin T
    BY <1>2, <1>4
  <2>2. PICK k : KeepsUpTo(k, m - 1, w, uid)
    BY <2>1
  <2> DEFINE Value(h, n) ==
        IF n = 0 THEN << >>
        ELSE IF w[n].uid = uid THEN h[n - 1]
        ELSE Append(h[n - 1], w[n])
  <2> DEFINE g == [n \in 0 .. m |-> Value(k, n)]
  <2>3. \A n \in 0 .. m - 1 : g[n] = k[n]
    <3>1. k = [n \in 0 .. m - 1 |-> Value(k, n)]
      BY <2>2 DEF KeepsUpTo
    <3>2. \A n \in 0 .. m - 1 : n \in 0 .. m
      BY <1>2
    <3> HIDE DEF Value
    <3> QED
      BY <3>1, <3>2
  <2>4. ASSUME NEW n \in 0 .. m
        PROVE  Value(k, n) = Value(g, n)
    <3>1. CASE n = 0
      BY <3>1
    <3>2. CASE n # 0
      <4>1. n - 1 \in 0 .. m - 1
        BY <1>2, <3>2
      <4>2. g[n - 1] = k[n - 1]
        <5> HIDE DEF g
        <5> QED
          BY <2>3, <4>1
      <4> QED
        BY <3>2, <4>2
    <3> QED
      BY <3>1, <3>2
  <2>5. g = [n \in 0 .. m |-> Value(k, n)]
    OBVIOUS
  <2> HIDE DEF g
  <2>6. g = [n \in 0 .. m |-> Value(g, n)]
    <3> HIDE DEF Value
    <3> QED
      BY <2>4, <2>5
  <2>7. KeepsUpTo(g, m, w, uid)
    BY <2>6 DEF KeepsUpTo
  <2> QED
    BY <1>2, <2>7
<1> QED
  BY <1>2, <1>3, <1>4

(* A slot of a ring that is not wrapped is read before it is overwritten.  *)
LEMMA ContiguousSlot ==
  ASSUME NEW E, NEW q \in RingType(E), IsContiguous(q), NEW n \in 0 .. q.count - 1
  PROVE  SlotAt(q, n) \in RingSlot /\ SlotAt(q, n) >= n
<1>1. /\ q.count \in 0 .. Capacity /\ Capacity \in Nat \ {0}
      /\ q.head \in 0 .. Capacity - 1
  BY CapacityAssumption DEF RingType, RingSlot
<1>2. n \in 0 .. Capacity - 1 /\ q.head + n < Capacity
  BY <1>1 DEF IsContiguous
<1> QED
  BY <1>1, <1>2, SlotFacts

(* As far as the turns have come they hold what is kept so far.            *)
Alike(r, k, E) ==
  /\ k \in Seq(E) /\ r.written = Len(k)
  /\ \A i \in 1 .. Len(k) : r.items[i - 1] = k[i]

LEMMA TurnKeeps ==
  ASSUME NEW E, NEW q \in RingType(E), Holds(q, E), NEW uid, IsContiguous(q),
         NEW n \in 0 .. q.count - 1, NEW r, Swept(r, q, n, uid, E, E),
         NEW k, Alike(r, k, E), NEW event \in E, event = q.items[SlotAt(q, n)]
  PROVE  Alike(Turn(r, SlotAt(q, n), uid),
               IF event.uid = uid THEN k ELSE Append(k, event), E)
<1> DEFINE slot == SlotAt(q, n)
<1>1. q.count \in 0 .. Capacity /\ Capacity \in Nat \ {0}
  BY CapacityAssumption DEF RingType
<1>2. slot \in RingSlot /\ slot >= n
  BY ContiguousSlot
<1>3. r.written \in 0 .. n
  BY DEF Swept
<1>4. slot >= r.written
  BY <1>1, <1>2, <1>3 DEF RingSlot
<1>5. r.items[slot] = event
  BY <1>2, <1>4 DEF Swept
<1> HIDE DEF slot
<1>6. CASE event.uid = uid
  <2>1. Turn(r, slot, uid) = r
    BY <1>5, <1>6 DEF Turn
  <2> QED
    BY <1>6, <2>1 DEF slot
<1>7. CASE event.uid # uid
  <2> DEFINE after == Turn(r, slot, uid)
             longer == Append(k, event)
  <2>1. after.items = [r.items EXCEPT ![r.written] = event] /\ after.written = r.written + 1
    BY <1>5, <1>7 DEF Turn
  <2>2. r.items \in [RingSlot -> E \cup {NoEvent}] /\ r.written \in RingSlot
    <3>1. r.written \in 0 .. Capacity - 1
      BY <1>1, <1>3
    <3> QED
      BY <3>1 DEF Swept, RingSlot
  <2>3. /\ longer \in Seq(E) /\ Len(longer) = Len(k) + 1
        /\ \A i \in 1 .. Len(k) : longer[i] = k[i]
        /\ longer[Len(k) + 1] = event
    BY AppendProperties DEF Alike
  <2> HIDE DEF after, longer
  <2>4. Len(k) \in Nat /\ r.written = Len(k)
    BY DEF Alike
  <2>5. ASSUME NEW i \in 1 .. Len(k) + 1
        PROVE  after.items[i - 1] = longer[i]
    <3>1. CASE i = Len(k) + 1
      BY <2>1, <2>2, <2>3, <2>4, <3>1
    <3>2. CASE i # Len(k) + 1
      <4>1. i \in 1 .. Len(k) /\ i - 1 \in 0 .. r.written - 1
        BY <2>4, <3>2
      <4>2. i - 1 \in RingSlot /\ i - 1 # r.written
        BY <1>1, <2>2, <4>1 DEF RingSlot
      <4> QED
        BY <2>1, <2>2, <2>3, <4>1, <4>2 DEF Alike
    <3> QED
      BY <3>1, <3>2
  <2>6. Alike(after, longer, E)
    BY <2>1, <2>3, <2>4, <2>5 DEF Alike
  <2> QED
    BY <1>7, <2>6 DEF after, longer, slot
<1> QED
  BY <1>6, <1>7

LEMMA TurnsKeep ==
  ASSUME NEW E, NEW q \in RingType(E), Holds(q, E), NEW uid, IsContiguous(q),
         NEW f, Turns(f, q.count, q, uid),
         NEW k, KeepsUpTo(k, q.count, Waiting(q), uid)
  PROVE  \A n \in 0 .. q.count : Alike(f[n], k[n], E)
<1> DEFINE T == {n \in 0 .. q.count : ~Alike(f[n], k[n], E)}
           w == Waiting(q)
<1>1. /\ q.count \in Nat
      /\ \A n \in 0 .. q.count - 1 : w[n + 1] = q.items[SlotAt(q, n)]
  BY WaitingFacts
<1>2. /\ f[0] = [items |-> q.items, written |-> 0]
      /\ \A n \in 0 .. q.count - 1 : f[n + 1] = Turn(f[n], SlotAt(q, n), uid)
  BY <1>1, TurnAfterTurn
<1>3. k[0] = << >>
  BY <1>1 DEF KeepsUpTo
<1>4. ASSUME NEW n \in 0 .. q.count - 1
      PROVE  k[n + 1] = IF w[n + 1].uid = uid THEN k[n] ELSE Append(k[n], w[n + 1])
  <2>1. n + 1 \in 0 .. q.count /\ n + 1 # 0 /\ (n + 1) - 1 = n
    BY <1>1
  <2> HIDE DEF w
  <2> QED
    BY <2>1 DEF KeepsUpTo, w
<1> HIDE DEF w
<1>5. SUFFICES ASSUME T # {} PROVE FALSE
  OBVIOUS
<1>6. PICK m \in T : \A n \in T : m <= n
  <2>1. T \subseteq Nat
    BY <1>1
  <2> HIDE DEF T
  <2> QED
    BY <1>5, <2>1, Least, Zenon
<1>7. CASE m = 0
  <2>1. Alike(f[0], k[0], E)
    BY <1>2, <1>3 DEF Alike
  <2> QED
    BY <1>6, <1>7, <2>1
<1>8. CASE m # 0
  <2>1. PICK n \in 0 .. q.count - 1 : m = n + 1 /\ n \notin T
    <3>1. m - 1 \in 0 .. q.count - 1 /\ m - 1 \notin T /\ (m - 1) + 1 = m
      BY <1>1, <1>6, <1>8
    <3> QED
      BY <3>1
  <2>2. Alike(f[n], k[n], E)
    BY <1>1, <2>1
  <2>3. Swept(f[n], q, n, uid, E, E)
    <3>1. n \in 0 .. q.count
      BY <1>1
    <3> QED
      BY <3>1, TurnsSweep
  <2>4. w[n + 1] \in E /\ w[n + 1] = q.items[SlotAt(q, n)]
    BY <1>1 DEF Holds
  <2>5. Alike(Turn(f[n], SlotAt(q, n), uid),
              IF w[n + 1].uid = uid THEN k[n] ELSE Append(k[n], w[n + 1]), E)
    BY <2>2, <2>3, <2>4, TurnKeeps
  <2> QED
    BY <1>2, <1>4, <1>6, <2>1, <2>5
<1> QED
  BY <1>7, <1>8

(* A cancellation of a ring that is not wrapped leaves what EventFifo      *)
(* keeps.                                                                  *)
LEMMA CancelKeeps ==
  ASSUME NEW E, NEW q \in RingType(E), Holds(q, E), NEW uid, IsContiguous(q),
         NEW k, KeepsUpTo(k, q.count, Waiting(q), uid)
  PROVE  Waiting(CancelUid(q, uid)) = k[q.count]
<1> DEFINE w == Waiting(q)
           after == CancelUid(q, uid)
           kept == k[q.count]
<1>1. /\ w \in Seq(E) /\ Len(w) = q.count /\ q.count \in Nat
  BY WaitingFacts
<1>2. after \in RingType(E) /\ Holds(after, E)
  <2>1. Holds(after, {e \in E : e.uid # uid}) /\ after \in RingType(E)
    BY RingCancel
  <2> QED
    BY <2>1 DEF Holds
<1>3. /\ Waiting(after) \in Seq(E) /\ Len(Waiting(after)) = after.count
      /\ \A n \in 1 .. after.count : Waiting(after)[n] = after.items[SlotAt(after, n - 1)]
  BY <1>2, WaitingFacts
<1>4. CASE IsEmpty(q)
  <2>1. after = q /\ q.count = 0
    BY <1>4 DEF CancelUid, IsEmpty
  <2>2. kept = << >>
    BY <2>1 DEF KeepsUpTo
  <2> HIDE DEF after, w, kept
  <2>3. w = << >>
    BY <1>1, <2>1
  <2> QED
    BY <2>1, <2>2, <2>3 DEF w, after, kept
<1>5. CASE ~IsEmpty(q)
  <2>1. PICK f : Turns(f, q.count, q, uid) /\ Compact(q, uid) = f[q.count]
    BY CompactTurns
  <2>2. q.count \in 0 .. q.count
    BY <1>1
  <2>3. Alike(f[q.count], kept, E)
    BY <2>1, <2>2, TurnsKeep
  <2>4. after = [items |-> f[q.count].items, head |-> 0, count |-> f[q.count].written]
    BY <1>5, <2>1 DEF CancelUid
  <2>5. kept \in Seq(E) /\ after.count = Len(kept) /\ after.head = 0
        /\ \A n \in 1 .. Len(kept) : after.items[n - 1] = kept[n]
    BY <2>3, <2>4 DEF Alike
  <2> HIDE DEF after, kept
  <2>6. ASSUME NEW n \in 1 .. Len(kept)
        PROVE  Waiting(after)[n] = kept[n]
    <3>1. n - 1 \in 0 .. Capacity - 1 /\ after.head + (n - 1) = n - 1 /\ n - 1 < Capacity
      BY <1>2, <2>5, CapacityAssumption DEF RingType
    <3>2. SlotAt(after, n - 1) = n - 1
      BY <1>2, <3>1, SlotFacts
    <3> QED
      BY <1>3, <2>5, <3>2
  <2>7. Waiting(after) = kept
    BY <1>3, <2>5, <2>6, SameSequence
  <2> QED
    BY <2>7 DEF after, kept
<1> QED
  BY <1>4, <1>5

-----------------------------------------------------------------------------
(* The queue is a ring, and no slot that nothing was written to waits.     *)
RingInv == queue \in RingType(Events) /\ Holds(queue, Events)

LEMMA RingInit == QueueInit => RingInv
  BY RingEmpty DEF QueueInit, RingInv

LEMMA RingNext ==
  ASSUME RingInv, [QueueNext]_queue
  PROVE  RingInv'
<1>1. ASSUME NEW event \in Events, PushCall(event) PROVE RingInv'
  BY <1>1, RingPush DEF RingInv, PushCall
<1>2. CASE PopCall
  BY <1>2, RingPop DEF RingInv, PopCall
<1>3. ASSUME NEW uid \in Uids, CancelCall(uid) PROVE RingInv'
  <2>1. /\ queue' \in RingType(Events)
        /\ Holds(queue', {e \in Events : e.uid # uid})
    BY <1>3, RingCancel DEF RingInv, CancelCall
  <2> QED
    BY <2>1 DEF RingInv, Holds
<1>4. CASE ClearCall
  BY <1>4, RingEmpty DEF RingInv, ClearCall
<1>5. CASE UNCHANGED queue
  BY <1>5 DEF RingInv
<1> QED
  BY <1>1, <1>2, <1>3, <1>4, <1>5 DEF QueueNext

LEMMA RingAlways == QueueSpec => []RingInv
  BY RingInit, RingNext, PTL DEF QueueSpec

(* ancs_request_queue_cancel_uid (ancs_protocol.c): wherever the ring      *)
(* lies, a cancellation leaves no event of its uid, does not lengthen the  *)
(* queue, and keeps only events that were waiting.                         *)
THEOREM CancelRemoves == QueueSpec => CancelRemovesUid
<1>1. ASSUME RingInv, NEW uid \in Uids, CancelCall(uid)
      PROVE  /\ queue'.count <= queue.count
             /\ \A n \in 1 .. queue'.count :
                  /\ Waiting(queue')[n].uid # uid
                  /\ \E m \in 1 .. queue.count :
                       Waiting(queue)[m] = Waiting(queue')[n]
  <2> DEFINE W == {Waiting(queue)[m] : m \in 1 .. queue.count}
  <2>1. /\ queue \in RingType(Events) /\ Holds(queue, Events) /\ queue' = CancelUid(queue, uid)
    BY <1>1 DEF RingInv, CancelCall
  <2>2. /\ queue.count \in Nat
        /\ \A n \in 1 .. queue.count : Waiting(queue)[n] = queue.items[SlotAt(queue, n - 1)]
        /\ \A n \in 0 .. queue.count - 1 : queue.items[SlotAt(queue, n)] = Waiting(queue)[n + 1]
    BY <2>1, WaitingFacts
  <2>3. W \in SUBSET Events
    BY <2>1, <2>2 DEF Holds
  <2>4. \A n \in 0 .. queue.count - 1 : Waiting(queue)[n + 1] \in W
    BY <2>2
  <2>5. Holds(queue, W)
    BY <2>2, <2>4 DEF Holds
  <2>6. /\ queue' \in RingType(Events) /\ queue'.count <= queue.count
        /\ Holds(queue', {e \in W : e.uid # uid})
    <3> HIDE DEF W
    <3> QED
      BY <2>1, <2>3, <2>5, RingCancel
  <2>7. queue'.count \in Nat
    BY <2>6, CapacityAssumption DEF RingType
  <2>8. ASSUME NEW n \in 1 .. queue'.count
        PROVE  Waiting(queue')[n] \in W /\ Waiting(queue')[n].uid # uid
    <3>1. n - 1 \in 0 .. queue'.count - 1
      BY <2>7
    <3>2. Waiting(queue')[n] = queue'.items[SlotAt(queue', n - 1)]
      BY DEF Waiting
    <3> QED
      BY <2>6, <3>1, <3>2 DEF Holds
  <2> QED
    BY <2>6, <2>8
<1>2. ASSUME RingInv, [QueueNext]_queue
      PROVE  [ \A uid \in Uids :
                 CancelCall(uid) =>
                   /\ queue'.count <= queue.count
                   /\ \A n \in 1 .. queue'.count :
                        /\ Waiting(queue')[n].uid # uid
                        /\ \E m \in 1 .. queue.count :
                             Waiting(queue)[m] = Waiting(queue')[n] ]_queue
  BY <1>1, <1>2
<1> QED
  BY <1>2, RingAlways, PTL DEF QueueSpec, CancelRemovesUid

-----------------------------------------------------------------------------
(* Each call of the ring is the call of EventFifo of the same name.        *)
LEMMA PushIsFifo ==
  ASSUME RingInv, NEW event \in Events, PushCall(event)
  PROVE  Fifo!Push(event)
<1>1. Waiting(queue') = Append(Waiting(queue), event) /\ queue.count < Capacity
  BY PushAppends DEF RingInv, PushCall
<1>2. Len(Waiting(queue)) = queue.count
  BY WaitingFacts DEF RingInv
<1> QED
  BY <1>1, <1>2 DEF Fifo!Push

LEMMA PopIsFifo ==
  ASSUME RingInv, PopCall
  PROVE  Fifo!Pop
  BY PopIsTail DEF RingInv, PopCall, Fifo!Pop

LEMMA ClearIsFifo ==
  ASSUME ClearCall
  PROVE  Fifo!Clear
<1>1. Waiting(EmptyRing) = << >>
  BY DEF EmptyRing, Waiting
<1> QED
  BY <1>1 DEF ClearCall, Fifo!Clear

LEMMA CancelIsFifo ==
  ASSUME RingInv, IsContiguous(queue), NEW uid \in Uids, CancelCall(uid)
  PROVE  Fifo!Cancel(uid)
<1> DEFINE k == CHOOSE g : KeepsUpTo(g, Len(Waiting(queue)), Waiting(queue), uid)
<1>1. Len(Waiting(queue)) = queue.count /\ queue.count \in Nat
  BY WaitingFacts DEF RingInv
<1>2. KeepsUpTo(k, Len(Waiting(queue)), Waiting(queue), uid)
  <2>1. \E g : KeepsUpTo(g, Len(Waiting(queue)), Waiting(queue), uid)
    BY <1>1, KeptExists
  <2> QED
    BY <2>1
<1>3. Fifo!Without(uid) = k[Len(Waiting(queue))]
  BY DEF Fifo!Without, KeepsUpTo
<1> HIDE DEF k
<1>4. Waiting(queue') = k[queue.count]
  BY <1>1, <1>2, CancelKeeps DEF RingInv, CancelCall
<1> QED
  BY <1>1, <1>3, <1>4 DEF Fifo!Cancel

(* The queue implements a FIFO of the events it is given; only a           *)
(* cancellation that finds the ring wrapped around the end of its array    *)
(* may do otherwise (it compacts from slot 0 while it reads from head).    *)
THEOREM IsFifoUnlessWrapped == QueueSpec => ImplementsFifoUnlessWrapped
<1>1. ASSUME RingInv, [QueueNext]_queue
      PROVE  [ \/ Fifo!Next
               \/ ~IsContiguous(queue) /\ \E uid \in Uids : CancelCall(uid) ]_queue
  <2>1. ASSUME NEW event \in Events, PushCall(event) PROVE Fifo!Next
    BY <1>1, <2>1, PushIsFifo DEF Fifo!Next
  <2>2. CASE PopCall
    BY <1>1, <2>2, PopIsFifo DEF Fifo!Next
  <2>3. CASE ClearCall
    BY <2>3, ClearIsFifo DEF Fifo!Next
  <2>4. ASSUME NEW uid \in Uids, CancelCall(uid), IsContiguous(queue) PROVE Fifo!Next
    <3>1. PICK event \in Events : uid = event.uid
      BY DEF Uids
    <3>2. Fifo!Cancel(event.uid)
      BY <1>1, <2>4, <3>1, CancelIsFifo
    <3> QED
      BY <3>2 DEF Fifo!Next
  <2> QED
    BY <1>1, <2>1, <2>2, <2>3, <2>4 DEF QueueNext
<1> QED
  BY <1>1, RingAlways, PTL DEF QueueSpec, ImplementsFifoUnlessWrapped

=============================================================================
