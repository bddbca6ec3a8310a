CONSTANTS
  Modes = {"plain", "zstd", "lazy"}
  MaxItems = 2
  Window = 1
SPECIFICATION FlowSpec
INVARIANTS EofIsFaithful RestsWhenOver HeldIsWritten
PROPERTIES IsDuplexPipe ComesToRest
CHECK_DEADLOCK FALSE
