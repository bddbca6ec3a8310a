CONSTANTS
  MaxStream = 4
  QueueLen = 2
  BadTarget = {4}
SPECIFICATION FairSpec
INVARIANTS ForwardedInOrder NothingVanishes
PROPERTIES IsLossyQueue QueuedIsServed AcceptLoopEnds
CHECK_DEADLOCK FALSE
