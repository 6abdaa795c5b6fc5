SPECIFICATION Spec
CONSTANTS
  alice = alice
  bob = bob
  Lanes <- OneLane
  EvidenceTypes = {}
  Modes = {"MULTI"}
  Managers = {alice}
  MaxAttempts = 2
  MaxFaults = 2
  MayRefuse = TRUE
INVARIANT
  EndOfRunIsDelivered
CHECK_DEADLOCK FALSE
