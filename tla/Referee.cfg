SPECIFICATION FairSpec
CONSTANTS
  Master = m
  Slaves = {s1, s2}
  NoDoc = nodoc
  Saved = FALSE
  InitLen = 1
  Kinds = {"insert", "docprop"}
  Lengths = {1}
  MasterEdits = 1
  SlaveEdits = 1
  Redos = 0
  EarlySlaves = {s1}
  KnownAuthors = {}
INVARIANTS IInv NoFailedAssertion Converged
PROPERTIES AwaitEnds
CHECK_DEADLOCK FALSE
