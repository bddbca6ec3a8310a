CONSTANTS
  Tunnels = {t1}
  TcpOut = {t1}
  UdpOut = {}
  Channel = {}
  Families = {"v4", "v6"}
  HeartbeatEnabled = TRUE
SPECIFICATION FairSpec
INVARIANTS JoinedStopClosesWhatItSaw TcpReceiverKept
PROPERTIES StopEndsEverything Reconnects
CHECK_DEADLOCK FALSE
