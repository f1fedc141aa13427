SPECIFICATION Spec
CONSTANTS
  MaxLines = 2
  MaxPartialLine = 3
CHECK_DEADLOCK FALSE
INVARIANTS
  NoErrorFrameAfterDone
