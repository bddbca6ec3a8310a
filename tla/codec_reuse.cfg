SPECIFICATION CodecSpec
CONSTANTS
  Streams = {2, 3, 4}
  MaxOpen = 1
  Talkers = {"A"}
  Faults = {}
  MaxFaults = 0
INVARIANT ReuseAgrees
CHECK_DEADLOCK FALSE
