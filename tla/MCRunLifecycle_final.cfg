SPECIFICATION Spec
CONSTANTS
  alice = alice
  bob = bob
  Lanes <- OneLane
  EvidenceTypes = {}
  Modes = {"MULTI"}
  Managers = {alice}
  MaxAttempts = 2
  MaxFaults = 1
  MayRefuse = TRUE
PROPERTY
  TerminalStatusIsFinal
CHECK_DEADLOCK FALSE
