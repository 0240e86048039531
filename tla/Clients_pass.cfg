SPECIFICATION Spec
CONSTANTS
  SAMSockets = {1, 2, 3}
  SAMIds = {"x"}
  SAMObjects = {1, 2}
  SAMCommands <- MCSAMCommands
  BobSessions = {1, 2}
  BobNicks = {1}
  BobObjects = {1, 2}
  BobClients = {1}
  BobCommands <- MCBobCommands
  BobPending = 2
  Octets = 6
  PortSize = 1
  IPv4Size = 2
  IPv6Size = 2
  SocksOctets = {0, 1, 3, 4, 5}
  HTTPOctets = {10, 13, 32}
  ProxyChunk = 2
  MaxHeard <- MCMaxHeard
  TunSockets = {1, 2, 3}
  TunKind <- MCTunKind
\* The interfaces stop.
CHECK_DEADLOCK FALSE
INVARIANTS SAMStreamsOwned SAMAcceptorLive BobSerial RequestExact TunnelOwned
