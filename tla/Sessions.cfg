SPECIFICATION FairSpec
CONSTANTS
  hub = hub
  left = left
  right = right
  doc = doc
  paper = paper
  Peers = {hub, left, right}
  Links <- Star
  Sessions = {doc, paper}
  Stored = {paper}
  None = None
  Impatient = FALSE
  MayStart <- Hosting
  MaxJoins = 2
  MaxSaves = 1
  MaxBreaks = 1
  MaxCalls = 1
  Quitters = {left}
INVARIANTS GhostInv SessionsExist NoGhosts NoEcho
PROPERTIES EndIsKnown
CHECK_DEADLOCK FALSE
