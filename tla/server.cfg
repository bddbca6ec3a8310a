CONSTANTS
  Conns = {c1, c2}
  Kinds = {"tcp", "udp", "out"}
  QueueLen = 2
SPECIFICATION FairSpec
INVARIANTS ListenersAreOwned LiveTunnelKept
PROPERTIES PortReleased OnlyOrphansBlock ClosedForgotten
