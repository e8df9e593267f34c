SPECIFICATION StreamSpec
CONSTANTS
  Bytes <- SomeBytes
  ThinkingTags <- Tags
  Deltas <- SomeDeltas
  InPieces <- CutDeltas
  Marked = {}
  Leads = {"c3"}
  Kinds <- SomeKinds
  MaxLines = 3
  ProbeLines = 1
  IncludeUsage = TRUE
INVARIANTS ProbeBounded
CHECK_DEADLOCK FALSE
