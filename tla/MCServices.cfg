\* Eight services, each on a small instance of its own.
SPECIFICATION ServicesSpec
CONSTANTS
  \* WalletAuth
  Wallets = {w1}
  Challenges = {c1}
  Requests = {q1, q2}
  Nobody = Nobody
  ChallengeTtl = 2
  ChallengeLimit = 2
  VerifyLimit = 2
  RateWindow = 2
  LastTick = 2
  \* Delivery and NotificationCenter
  Notices = {n1}
  Callers = {p1, p2}
  NoNotice = NoNotice
  FaultBudget = 1
  Everything = Everything
  \* NotificationList
  e1 = e1
  e2 = e2
  x1 = x1
  repay = repay
  Kinds <- NoticesOfMC
  NoAction = NoAction
  NoEpisode = NoEpisode
  NoIdentity = NoIdentity
  Filters = {"all", "recommendations", "executions"}
  PageSize = 2
  MaxNotices = 4
  \* WorkerProcess
  Instances = {i1, i2}
  OneShot = {i2}
  DegradedAfter = 1
  OfflineAfter = 2
  MaxLosses = 1
  \* Browser
  Accounts = {a1}
  MaxSessions = 2
  SignedOut = SignedOut
  Unset = Unset
  Asked = Asked
  \* PolicyForm
  Modes = {Approve, Autonomous}
  Autonomous = Autonomous
  DefaultMode = Approve
  Absent = Absent
  MaxPuts = 2
  \* ProductPages
  HealthFactors = {1, 2}
  Targets = {3}
  Verdicts = {"READY"}
  Writers = {v1, v2}
  MaxTime = 3
  \* AaveReading
  ReserveCount = 3
  Workers = 2
  MaxBlocks = 3
INVARIANTS
  ServicesTypeOK
  OneSessionPerChallenge
  SessionsAreEarned
  PassesBounded
  FoldingIsHonest
  StatusTruthful
  ShellNamesCookie
  AutonomyConsented
  AdviceIsTimely
  PositionIsOfOneBlock
PROPERTIES
  ImplementsAnnouncement
  CenterCatchesUp
  StopHonoured
  EndedSessionIsSeen
CHECK_DEADLOCK FALSE
