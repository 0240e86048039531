SPECIFICATION SSUDataSpec
CONSTANTS
  alice = alice
  bob = bob
  status = status
  storeA = storeA
  storeB = storeB
  d1 = d1
  Alice = alice
  Bob = bob
  Status = status
  Store <- MCStore
  Data <- MCData
  None = None
  NumFragments = 3
  BitsPerByte = 2
  RESEND_INTERVAL = 1
  MAX_NUM_RESENDS = 1
  DECAY_INTERVAL = 1
  MAX_NUM_RECEIVED_MESSAGES = 1
  INCOMPLETE_MESSAGES_CLEANUP_TIMEOUT = 2
  MaxSends = 1
  Starts = {FALSE}
CHECK_DEADLOCK FALSE
INVARIANT FragmentAckSound
