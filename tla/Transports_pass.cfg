SPECIFICATION TransportsSpec
CONSTANTS
  peer1 = peer1
  Idents = {peer1}
  Self = self
  NoPeer = NoPeer
  MaxMsgs <- MCMaxMsgs
  MaxLinks = 2
  MaxIncoming = 1
CHECK_DEADLOCK FALSE
PROPERTIES TransportsInOrder DelayedResolves
