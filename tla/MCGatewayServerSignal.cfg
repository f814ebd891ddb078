CONSTANTS
  c1 = c1
  c2 = c2
  Conns <- TwoConns
  FailureThreshold = 1
  RecoveryTimeout = 1
  DiskFaults = TRUE
  Garbled = Garbled
  NoTail = NoTail
SPECIFICATION FairSpec
PROPERTY SignalStopsTheServer
