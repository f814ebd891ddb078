CONSTANTS
  MaxEntries = 4
  DiskFaults = TRUE
  Garbled = Garbled
  NoTail = NoTail
SPECIFICATION Spec
INVARIANT RecoverKeepsAcked
INVARIANT RecoverIsExact
