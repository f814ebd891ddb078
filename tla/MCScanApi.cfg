SPECIFICATION ScanSpec
CONSTANTS
  NonString = "NonString"
  NoServer = "NoServer"
  Call <- MCCall
  Event <- MCEvent
  RuleChoice <- MCRuleChoice
  Capability <- MCCapability
  Deployment <- MCDeployment
  BlockAt = 50
  QuarantineAt = 30
  Sensitivity = 70
  RateWindow = 2
  MaxOps = 2
  MaxNow = 3
  Peer = {p1}
  RateLimit = 1
  EpsWindow = 0
  RecentCap = 1
CHECK_DEADLOCK FALSE
INVARIANT RecordsAgree
INVARIANT DecisionsFit
INVARIANT RatesAreExact
PROPERTY ConfigurationIsKept
