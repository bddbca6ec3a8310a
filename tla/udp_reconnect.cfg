CONSTANTS
  Tunnels = {t1}
  TcpOut = {}
  UdpOut = {t1}
  Channel = {}
  Families = {"v4"}
  HeartbeatEnabled = TRUE
SPECIFICATION FairSpec
PROPERTY Reconnects
CHECK_DEADLOCK FALSE
