SPECIFICATION Spec
CONSTANTS
  Lines <- RedactedLines
  MaxLines = 3
  Marks = {"start", "in", "gap"}
  Limit = 6
  Overlap = 1
  Special = 2
  Fragile = {FALSE}
INVARIANTS EveryFileIsChunked
CHECK_DEADLOCK FALSE
