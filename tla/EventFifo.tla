----------------------------- MODULE EventFifo -----------------------------
(***************************************************************************)
(* What the queue of pending events promises its user: events leave in     *)
(* the order they came, and canceling a uid takes that uid's events out    *)
(* and touches nothing else.  RequestQueue is compared with it.            *)
(***************************************************************************)
EXTENDS Naturals, Sequences

CONSTANTS Events, Capacity

VARIABLE fifo

Init == fifo = << >>

Push(event) == Len(fifo) < Capacity /\ fifo' = Append(fifo, event)

Pop == fifo # << >> /\ fifo' = Tail(fifo)

(* The events of other uids, in their order.                               *)
Without(uid) ==
  LET kept[n \in 0 .. Len(fifo)] ==
        IF n = 0 THEN << >>
        ELSE IF fifo[n].uid = uid THEN kept[n - 1]
        ELSE Append(kept[n - 1], fifo[n])
  IN  kept[Len(fifo)]

Cancel(uid) == fifo' = Without(uid)

Clear == fifo' = << >>

Next ==
  \/ \E event \in Events : Push(event) \/ Cancel(event.uid)
  \/ Pop
  \/ Clear

Spec == Init /\ [][Next]_fifo

=============================================================================
