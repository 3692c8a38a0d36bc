SPECIFICATION FairSpec
CONSTANTS
  MaxSends = 3
  Huge = {3}
  Errors = {2}
INVARIANTS IInv OneWriteUntilRace HandledBeforeDropped
PROPERTIES EndIsNoticed ChannelSpec
CHECK_DEADLOCK FALSE
