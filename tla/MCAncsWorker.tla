--------------------------- MODULE MCAncsWorker ----------------------------
(* Notifications of one app, whose uids are interchangeable.               *)
EXTENDS AncsWorker

CONSTANTS u1, u2, a1

OneApp == [uid \in Uid |-> a1]

Symmetric == Permutations(Uid)

=============================================================================
