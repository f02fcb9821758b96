\* One experiment with two applications, both endpoints able to break, with
\* every branch of every step.
CONSTANT NumApps <- MCNumApps
CONSTANTS
  IpAddress = "me"
  Peers <- MCPeers
  IpBlacklist <- MCIpBlacklist
  Ports <- MCPorts
  PortBlacklist <- MCPortBlacklist
  LocalPort <- MCLocalPort
  MaxPackets <- MCMaxPackets
SPECIFICATION Spec
\* experiment() returns or raises: pc = "done" has no successor.
CHECK_DEADLOCK FALSE
INVARIANT TypeOK
INVARIANT ReleasedBeforeNextExperiment
INVARIANT DemotesOnlyBrokenSite
INVARIANT ScanFaithful
INVARIANT MeasureFaithful
