CONSTANTS
  IntervalArg = 0
  TimeoutArg = 0
  MaxMs = 65535
  SeqMod = 3
SPECIFICATION FairSpec
INVARIANTS ResponsesMatch OneInFlight HealthyStaysOpen
PROPERTIES FailureNoticed StopHangsUp
CHECK_DEADLOCK FALSE
