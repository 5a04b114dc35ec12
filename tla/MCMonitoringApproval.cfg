\* The owner moves the approval threshold while a cycle is under way.
SPECIFICATION Spec
CONSTANTS
  w1 = w1
  cheap = cheap
  dear = dear
  Workers = {w1}
  Actions = {cheap, dear}
  NoAction = NoAction
  Offers <- SomeOffers
  Levels = {"WATCH"}
  Policies <- TwoThresholds
  Faults = {}
  MaxFaults = 0
  MaxRuns = 2
  MaxSaves = 2
INVARIANTS
  ApprovalRespected
CHECK_DEADLOCK FALSE
