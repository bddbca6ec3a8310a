CONSTANTS
  Slots = {1, 2}
  QueueLen = 1
  Window = 1
SPECIFICATION FairSpec
INVARIANTS NoDeadEntry
PROPERTIES IdleCleansUp KeepsFlowing
CHECK_DEADLOCK FALSE
