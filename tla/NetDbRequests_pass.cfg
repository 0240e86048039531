CONSTANTS
  c1 = c1
  c2 = c2
  n1 = n1
  i1 = i1
  i2 = i2
  f1 = f1
  f2 = f2
  None = None
  NetDbThread = NetDbThread
  MaxAttempts = 2
  Idents <- MCTwoIdents
  Floodfills <- MCFloodfills
  ClientCalls <- MCOneClient
  NetDbCalls <- MCNetDbCalls
SPECIFICATION Spec
CHECK_DEADLOCK FALSE
INVARIANTS
  TypeOK
  NoLostCallback
  SingleCompletion
PROPERTIES
  FreshKept
  EventuallyAnswered
