\* One experiment with two applications, both endpoints able to break.
CONSTANT NumApps <- MCNumApps
CONSTANTS
  IpAddress = "me"
  Peers <- MCPeers
  IpBlacklist <- MCIpBlacklist
  Ports <- MCPorts
  PortBlacklist <- MCPortBlacklist
  LocalPort <- MCLocalPort
  MaxPackets <- MCMaxPackets
SPECIFICATION Spec
\* experiment() returns or raises: pc = "done" has no successor.
CHECK_DEADLOCK FALSE
\* analysis_1 failing raises SmallException (line 333) before analysis_2
\* is waited for.
INVARIANT AnalysisWaitedFor
