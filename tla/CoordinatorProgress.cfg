CONSTANTS
  Config = {c1}
  None = None
  MaxEvents = 1
  MaxCommands = 1
  Faults = {"access point", "relay", "loss", "reads"}
SPECIFICATION PollingSpec
PROPERTY OutageOpensAP
PROPERTY AttemptsGoOn
PROPERTY ConnectionEndsRecovery
CHECK_DEADLOCK FALSE
