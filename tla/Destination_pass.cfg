SPECIFICATION Spec
CONSTANTS
  d1 = d1
  Dests = {d1}
  Floodfills = {f1, f2}
  Unknown = unknown
  Callers = {c1, c2}
  Wants <- MCWants
  MaxFloodfills = 2
  MaxTimeouts = 3
  MaxReplies = 2
  MaxVersions = 1
  NoOne = NoOne
  NumTags = 2
  Outgoing = 2
  Incoming = 3
  Confirmation = 1
  Objects = {1, 2}
  MaxMessages = 3
  MaxUpdates = 1
  MaxClock = 8
  MaxWire = 2
CHECK_DEADLOCK FALSE
INVARIANTS CallbackOnce DecryptableInTime
