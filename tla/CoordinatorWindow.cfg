CONSTANTS
  Config = {c1}
  None = None
  MaxEvents = 4
  MaxCommands = 1
  Faults = {}
SPECIFICATION Spec
INVARIANT WindowIsBounded
CHECK_DEADLOCK FALSE
