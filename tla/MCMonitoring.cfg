\* One worker, three runs, the owner saves once, and every fault.
SPECIFICATION Spec
CONSTANTS
  w1 = w1
  cheap = cheap
  dear = dear
  Workers = {w1}
  Actions = {cheap, dear}
  NoAction = NoAction
  Offers <- SomeOffers
  Levels = {"WATCH", "HIGH"}
  Policies <- SomePolicies
  Faults = {"crash", "throw", "lost"}
  MaxFaults = 1
  MaxRuns = 3
  MaxSaves = 2
INVARIANTS
  TypeOK
  RiskCovered
  RecoveryPerEpisode
  BlockedKnown
  ApprovalAsked
  ExecutionAuthorized
  OwnerToldFirst
CHECK_DEADLOCK FALSE
