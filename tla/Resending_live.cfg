SPECIFICATION MCSpec
CONSTANTS
  Incoming <- MCOneIncoming
  MTU = 1
  SynMTU = 1
  WINDOW_SIZE = 2
  MAX_WINDOW_SIZE = 3
  MAX_NUM_RESEND_ATTEMPTS = 1
  MaxNacks = 256
  AcceptorSet <- MCAccepting
  Closers = {1}
  WriteSizes = {2}
  MaxUnits = 2
  MaxReplyUnits = 0
  MaxDups = 0
  alice = alice
  bob = bob
  status = status
  storeA = storeA
  storeB = storeB
  d1 = d1
  Alice = alice
  Bob = bob
  Status = status
  Store <- MCStore
  Data <- MCData
  None = None
  NumFragments = 2
  BitsPerByte = 1
  RESEND_INTERVAL = 1
  MAX_NUM_RESENDS = 1
  DECAY_INTERVAL = 1
  MAX_NUM_RECEIVED_MESSAGES = 1
  INCOMPLETE_MESSAGES_CLEANUP_TIMEOUT = 1
  MaxSends = 2
  Starts = {FALSE}
CHECK_DEADLOCK FALSE
PROPERTIES SendResolves CloseCompletes SentResolves IncompleteResolves
