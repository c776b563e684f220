---------------------------- MODULE MCAncsLink -----------------------------
(* An iPhone to enroll and, in some instances, another phone.              *)
EXTENDS AncsLink, TLC

CONSTANTS p1, p2

Symmetric == Permutations(Phone)

=============================================================================
