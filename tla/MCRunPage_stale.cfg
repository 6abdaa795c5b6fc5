SPECIFICATION Spec
CONSTANTS
  tab = tab
  Clients = {tab}
  Stories <- PageRuns
  MaxFaults = 1
  MayMiss = TRUE
  MaxReloads = 1
PROPERTY
  StaleReloadNeverWins
CHECK_DEADLOCK FALSE
