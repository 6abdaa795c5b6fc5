SPECIFICATION Spec
CONSTANTS
  alice = alice
  bob = bob
  Lanes <- OneLane
  EvidenceTypes = {}
  Modes = {"MULTI"}
  Managers = {alice}
  MaxAttempts = 2
  MaxFaults = 0
  MayRefuse = TRUE
INVARIANT
  PartialRunIsNotCompleted
CHECK_DEADLOCK FALSE
