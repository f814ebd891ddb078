CONSTANTS
  v1 = v1
  v2 = v2
  scanner = scanner
  Viewers <- TwoViewers
  Scanners <- OneScanner
  Agent = Agent
  MaxConnections = 1
  MaxEvents = 3
SPECIFICATION FeedFairSpec
CHECK_DEADLOCK FALSE
INVARIANT StreamIsExact
INVARIANT SkipsAreBounded
PROPERTY BroadcastEnds
