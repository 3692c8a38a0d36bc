SPECIFICATION Spec
CONSTANTS
  Master = m
  Slaves = {s1}
  NoDoc = nodoc
  Saved = FALSE
  InitLen = 2
  Kinds = {"insert"}
  Lengths = {1}
  MasterEdits = 2
  SlaveEdits = 2
  Redos = 0
  EarlySlaves = {s1}
  KnownAuthors = {}
INVARIANTS NothingLost StacksAgree NeverSilentlyApart SyncInv
PROPERTIES RevertIsExact RevertBalances
CHECK_DEADLOCK FALSE
