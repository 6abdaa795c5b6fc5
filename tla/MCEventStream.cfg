SPECIFICATION StreamSpec
CONSTANTS
  tab = tab
  Clients = {tab}
  Stories <- ShortRuns
  MaxFaults = 2
  MayMiss = TRUE
INVARIANTS
  GivenInOrder
  NothingSkipped
PROPERTIES
  ImplementsTimeline
  StreamCatchesUp
CHECK_DEADLOCK FALSE
