--------------------------- MODULE MCCoordinator ---------------------------
EXTENDS Coordinator, TLC

(* The configurations differ in nothing but their identity.                *)
Symmetry == Permutations(Config)
=============================================================================
