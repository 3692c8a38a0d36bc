SPECIFICATION Spec
CONSTANTS
  Master = m
  Slaves = {s1}
  NoDoc = nodoc
  Saved = TRUE
  InitLen = 4
  Kinds = {"insert", "delete", "undo", "redo"}
  Lengths = {1, 2}
  MasterEdits = 1
  SlaveEdits = 2
  Redos = 1
  EarlySlaves = {}
  KnownAuthors = {s1}
INVARIANTS TypeOK NoFailedAssertion Converged RedoUndoes
CHECK_DEADLOCK FALSE
