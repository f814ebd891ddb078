CONSTANTS
  MaxRecords = 4
  Garbled = Garbled
  NoTail = NoTail
SPECIFICATION FairSpec
INVARIANT CursorBehindByAtMostOne
PROPERTY CursorNeverGoesBack
PROPERTY DeliversInOrder
PROPERTY CursorCatchesUp
