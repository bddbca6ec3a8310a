CONSTANTS
  Tunnels = {t1, t2}
  TcpOut = {}
  UdpOut = {t1}
  Channel = {t2}
  Families = {"v4"}
  HeartbeatEnabled = TRUE
SPECIFICATION Spec
INVARIANTS RetriesUntilStopped RegistryMatchesTasks OneLateAttempt
PROPERTIES FollowsLifecycle
CHECK_DEADLOCK FALSE
