SPECIFICATION Spec
CONSTANTS
  Master = m
  Slaves = {s1, s2}
  None = none
  Editors = {s1}
  MaxEdits = 1
  MaxTakeovers = 1
INVARIANTS SameChanges
CHECK_DEADLOCK FALSE
