CONSTANTS
  Conns = {c1, c2}
  Kinds = {"tcp"}
  QueueLen = 2
SPECIFICATION FairSpec
PROPERTY InboundReconnects
