SPECIFICATION FairSpec
CONSTANTS
  alice = alice
  bob = bob
  Lanes <- TwoLanes
  EvidenceTypes = {}
  Modes = {"SINGLE", "MULTI"}
  Managers = {alice}
  MaxAttempts = 3
  MaxFaults = 2
  MayRefuse = FALSE
INVARIANTS
  CompletedRunIsWhole
  TasksMatchLog
  TicketWasProposed
PROPERTY
  RunEventuallySettles
CHECK_DEADLOCK FALSE
