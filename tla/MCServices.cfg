\* Every part at the bounds the README gives; Breaker under the fairness of asyncio.
CONSTANTS
  c1 = c1
  c2 = c2
  c3 = c3
  Callers = {c1, c2, c3}
  Retries = 2
  Threshold = 3
  ResetTicks = 2
  FailureCap = 4
  None = None
  Agents = {"a", "b", "c", "f"}
  Jims = {"a", "b", "c"}
  MaxDepth = 2
  Calls = {1, 2, 3}
  ForeignHeaders <- McHeaders
  Nonces = {"n1", "n2"}
  Tolerance = 2
  Skews = {0, 1}
  MaxTime = 6
  Labels <- McLabels
  Snapshots <- McSnapshots
  Requests <- McRequests
  Keyed = TRUE
  Quiet = 1
  NoMonitor = NoMonitor
  Primary = "edgar"
  PeerSources = {"p", "q"}
  Filed <- McFiled
  PriceFeed <- McFeed
  PeerRows <- McPeerRows
  Segments <- McSegments
  MaxSegments = 2
  FloorPercent = 30
  BoughtRows <- McBought
  BookedRows <- McBooked
  SettledRows <- McSettled
  InsightRows <- McInsights
  MemoRows <- McMemos
  EventRows <- McEvents
  WatchRows <- McWatches
  RunRows <- McRuns
  Nearness <- McNearness
  MemoTTL = 1
  MaxCalls = 3
  Runners = {1, 2}
  Shas = {7}
  OfflineCases <- McOfflineCases
  LiveCases <- McLiveCases
  LiveResults <- McLiveResults
  JudgeCases <- McJudgeCases
  JudgeScores <- McJudgeScores
  Requested = {"gate", "live"}
  JudgeThreshold = 55
  MinBalanced = 7000
  MaxFalseReject = 2000
  GateDrop = 500
  RubricDrop = 200
  CostIncrease = 25
  LatencyIncrease = 50
  MaxCommands = 2
  MaxClock = 1
  Idle = Idle
  Hosts = {"host"}
  Settings <- McSettings
  Down = Down
SPECIFICATION ServicesSpec
CHECK_DEADLOCK FALSE
INVARIANTS
  TypeOK
  StampMatchesCount
  StrayBound
  NoPaymentLoop
  DepthBounded
  AcceptedOnce
  QuietPollIsQuiet
  CrossesAlternate
  EverySignalIsHeard
  FiguresTraceToSeller
  BlameIsJust
  BackendsAgree
  FloorMetIffAttainable
  ReadyMeansSettles
PROPERTIES
  ImplementsCircuitBreaker
  CallTerminates
  Recovery
  PinHolds
  PromotedRunStands
