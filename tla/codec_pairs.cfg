SPECIFICATION CodecSpec
CONSTANTS
  Streams = {2, 3}
  MaxOpen = 2
  Talkers = {"A"}
  Faults = {"evict", "shake", "io", "timeout", "misread"}
  MaxFaults = 1
INVARIANTS Exclusive FreshIsFaithful FailedNotReused NoStandstill
CHECK_DEADLOCK FALSE
