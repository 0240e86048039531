SPECIFICATION MCSpec
CONSTANTS
  Incoming <- MCOneIncoming
  MTU = 1
  SynMTU = 1
  WINDOW_SIZE = 2
  MAX_WINDOW_SIZE = 3
  MAX_NUM_RESEND_ATTEMPTS = 1
  MaxNacks = 256
  AcceptorSet <- MCAnyAcceptor
  Closers = {1, 2}
  WriteSizes = {3}
  MaxUnits = 3
  MaxReplyUnits = 0
  MaxDups = 1
  alice = alice
  bob = bob
  status = status
  storeA = storeA
  storeB = storeB
  d1 = d1
  Alice = alice
  Bob = bob
  Status = status
  Store <- MCStore
  Data <- MCData
  None = None
  NumFragments = 3
  BitsPerByte = 2
  RESEND_INTERVAL = 1
  MAX_NUM_RESENDS = 1
  DECAY_INTERVAL = 1
  MAX_NUM_RECEIVED_MESSAGES = 1
  INCOMPLETE_MESSAGES_CLEANUP_TIMEOUT = 2
  MaxSends = 2
  Starts = {TRUE, FALSE}
CHECK_DEADLOCK FALSE
INVARIANTS ServerInOrder AckSound NoStall GracefulClose
INVARIANTS HandedWhole FirstByteAcked
