CONSTANTS
  t1 = t1
  t2 = t2
  t3 = t3
  Threads <- ThreeThreads
  FailureThreshold = 2
  RecoveryTimeout = 2
  MaxFailures = 4
SPECIFICATION FairSpec
INVARIANT StateMatchesCount
INVARIANT OpenBlocksNewCalls
PROPERTY ProbeFailureReopens
PROPERTY SelfHeals
