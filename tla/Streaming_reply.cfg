SPECIFICATION Spec
CONSTANTS
  Incoming <- MCOneIncoming
  MTU = 1
  SynMTU = 1
  WINDOW_SIZE = 2
  MAX_WINDOW_SIZE = 3
  MAX_NUM_RESEND_ATTEMPTS = 1
  MaxNacks = 256
  AcceptorSet <- MCAccepting
  Closers = {}
  WriteSizes = {0, 1}
  MaxUnits = 1
  MaxReplyUnits = 1
  MaxDups = 0
CHECK_DEADLOCK FALSE
INVARIANT ClientInOrder
