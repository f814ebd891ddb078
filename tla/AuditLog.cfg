CONSTANTS
  MaxEntries = 4
  DiskFaults = TRUE
  Garbled = Garbled
  NoTail = NoTail
SPECIFICATION Spec
INVARIANT BreaksOnlyAtFailedAppends
INVARIANT NothingReturnedIsLost
INVARIANT MemoryMatchesFile
