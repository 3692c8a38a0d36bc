SPECIFICATION Spec
CONSTANTS
  MaxSends = 3
  Huge = {}
  Errors = {}
INVARIANTS OneWriteInProgress
CHECK_DEADLOCK FALSE
