SPECIFICATION Spec
CONSTANTS
  tab = tab
  Clients = {tab}
  Stories <- PageRuns
  MaxFaults = 2
  MayMiss = TRUE
  MaxReloads = 2
INVARIANTS
  PageTypeOK
  StopsOnlyAtTheEnd
PROPERTIES
  VersionNeverReverts
  TimelineHeals
CHECK_DEADLOCK FALSE
