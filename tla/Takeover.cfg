SPECIFICATION FairSpec
CONSTANTS
  Master = m
  Slaves = {s1, s2}
  None = none
  Editors = {m, s1, s2}
  MaxEdits = 1
  MaxTakeovers = 1
INVARIANTS IInv FlushInv LosslessInv OneMaster NoneRefused OldSessionFlushed TakeoverIsLossless TakeoverIsAccounted
PROPERTIES TakeoverEnds RestartsFlushed
CHECK_DEADLOCK FALSE
