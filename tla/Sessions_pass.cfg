SPECIFICATION Spec
CONSTANTS
  routerA = routerA
  routerB = routerB
  routerC = routerC
  Nodes = {"A", "B"}
  LongIdents = {"A"}
  Conns = {1, 2}
  Faulty = {1}
  Dialer <- MCDialer
  Blocks <- MCBlocks
  MaxBlocks = 2
  Senders <- MCSenders
  Together = 1
  Routers = {routerA, routerB, routerC}
  Introducers = {routerB}
  Hidden = {routerC}
  Via = routerB
  Dials <- MCDials
  Testers <- MCTesters
  NoSession = NoSession
  MaxSessions = 6
  MaxKeys = 4
  MaxNet = 2
  MaxHops = 5
  Batch = 1
CHECK_DEADLOCK FALSE
INVARIANTS SendQueueMoves SessionTimed ClientAfterServer
PROPERTY NTCPInOrder
