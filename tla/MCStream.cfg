SPECIFICATION StreamFairSpec
CONSTANTS
  Bytes <- SomeBytes
  ThinkingTags <- Tags
  Deltas <- SomeDeltas
  InPieces <- CutDeltas
  Marked = {}
  Leads = {"c3"}
  Kinds <- SomeKinds
  MaxLines = 4
  ProbeLines = 1
  IncludeUsage = TRUE
INVARIANTS StreamTypeOK OneDone AnswerIsWhole CallsAreWhole TornAtTags PartialIsTold
PROPERTIES StreamEnds
CHECK_DEADLOCK FALSE
