SPECIFICATION Spec
CONSTANTS
  ada = ada
  eve = eve
  bob = bob
  dan = dan
  carol = carol
  hanoi = hanoi
  hue = hue
  h1 = h1
  h2 = h2
  NoBranch = NoBranch
  Accounts = {ada, eve, bob, dan, carol}
  Branches = {hanoi, hue}
  Grantable = {"admin", "employee"}
  Seed <- Staff
  Handlers = {h1}
  MaxCalls = 3
  MaxFaults = 1
SYMMETRY AdminSymmetry
INVARIANTS
  IdentityTypeOK
  AdminRemains
  KeycloakAgrees
PROPERTY
  DeactivatedBranchIsEmpty
CHECK_DEADLOCK FALSE
