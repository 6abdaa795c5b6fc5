SPECIFICATION Spec
CONSTANTS
  ada = ada
  eve = eve
  bob = bob
  dan = dan
  carol = carol
  hanoi = hanoi
  hue = hue
  h1 = h1
  h2 = h2
  NoBranch = NoBranch
  Accounts = {ada, eve, bob, dan, carol}
  Branches = {hanoi, hue}
  Grantable = {"admin", "employee"}
  Seed <- Staff
  Handlers = {h1, h2}
  MaxCalls = 2
  MaxFaults = 0
INVARIANT AdminRemains
CHECK_DEADLOCK FALSE
