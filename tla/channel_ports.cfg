SPECIFICATION FairPortsSpec
CONSTANTS
  Flows = {s1, s2}
  V6 = {}
  Nobody = Nobody
  PortMod = 3
  FirstPort = 1
  ReplyLen = 1
INVARIANTS OneOwner BailsNearlyFull
PROPERTIES ClosingEnds RouterMovesOn LostCleansUp
CHECK_DEADLOCK FALSE
