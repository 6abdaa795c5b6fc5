SPECIFICATION Spec
CONSTANTS
  alice = alice
  bob = bob
  Lanes <- OneLane
  EvidenceTypes = {"tool.completed"}
  Modes = {"SINGLE", "MULTI"}
  Managers = {alice, bob}
  MaxAttempts = 2
  MaxFaults = 2
  MayRefuse = TRUE
SYMMETRY ManagerSymmetry
INVARIANTS
  TypeOK
  LogIsContiguous
  AwaitingCanBeDecided
  OneConsistentDecision
  OnlyTheWinnerIsTold
  DeliveredEventsAreRecorded
PROPERTIES
  DecisionIsFinal
  ImplementsLedger
CHECK_DEADLOCK FALSE
