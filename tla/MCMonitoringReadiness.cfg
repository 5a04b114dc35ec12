\* No fault, and candidates that are not funded.
SPECIFICATION Spec
CONSTANTS
  w1 = w1
  cheap = cheap
  dear = dear
  Workers = {w1}
  Actions = {cheap, dear}
  NoAction = NoAction
  Offers <- SomeOffers
  Levels = {"WATCH"}
  Policies <- SomePolicies
  Faults = {}
  MaxFaults = 0
  MaxRuns = 2
  MaxSaves = 1
INVARIANTS
  ReadinessBlocks
CHECK_DEADLOCK FALSE
