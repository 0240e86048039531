SPECIFICATION Spec
CONSTANTS
  In <- MCIn
  Out <- MCOut
  TUNNEL_CREATION_TIMEOUT = 1
  TUNNEL_EXPIRATION_TIMEOUT = 3
  TUNNEL_EXPIRATION_THRESHOLD = 1
  TUNNEL_RECREATION_THRESHOLD = 2
  MinTunnels = 1
  NumTunnels = 1
  None = None
CHECK_DEADLOCK FALSE
INVARIANTS PoolSound TwoStrikes
PROPERTIES PendingResolved StoppedPoolDrains
