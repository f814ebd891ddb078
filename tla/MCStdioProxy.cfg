CONSTANTS
  MalformedLine = MalformedLine
  Malformed = MalformedLine
  Note = Note
  Refusal = Refusal
  Lines <- AllLines
  MaxLines = 2
  Burst = 2
  MaxNotes = 2
SPECIFICATION FairSpec
CHECK_DEADLOCK FALSE
INVARIANT OnlyCleanLinesAreForwarded
INVARIANT LinesAreAccounted
INVARIANT RepliesMatchLines
PROPERTY EveryLineIsHandled
