CONSTANTS
  Config = {c1, c2}
  None = None
  MaxEvents = 1
  MaxCommands = 1
  Faults = {"station", "flash", "loss", "restart"}
SPECIFICATION Spec
SYMMETRY Symmetry
INVARIANT MarkerIsEarned
PROPERTY RecoveryHasAReason
CHECK_DEADLOCK FALSE
