SPECIFICATION Spec
CONSTANTS
  I2NPMsgs = {0, 1, 2, 3, 4, 5}
  MsgLen <- MCMsgLen
  MsgDelivery <- MCMsgDelivery
  OwnBlocks <- MCOwnBlocks
  MaxPosted = 3
  MaxSent = 1
  MaxLost = 1
  MaxDuplicated = 1
  MaxOvertaken = 2
  DbIdents = {1, 2, 3}
  DbPublished <- MCDbPublished
  DbDistance <- MCDbDistance
  DbStores <- MCDbStores
  DbCuts <- MCDbCuts
  DbDestinations = {1}
  DbExcluded = {{}, {3}}
  DbLeft = {{}, {1, 2, 3}}
  DbFew = 0
  DbSome = 1
  DbMany = 2
  DbAgeFlood = 0
  DbAgeMany = 0
  DbAgeSome = 1
  DbUptime = 1
  DbNumClosest = 2
  DbMaxTime = 2
  DbMaxHandled = 3
  DbMaxCrashes = 1
  ProfMaxAgreed = 1
  ProfMaxDeclined = 5
  ProfMaxTaken = 1
  CtxPeers = {"p", "q"}
  CtxElsewhere = {"q"}
  CtxTags = {1, 2}
  CtxMaxIntroducers = 2
  CtxMaxAddresses = 6
  CtxMaxStarts = 3
INVARIANTS HandedInFull OneOvertakenHarmless HeldOnlyBehindBuild
INVARIANTS FloodfillKnown FileKept AnswersNearest
INVARIANTS NotShunned PublishedConsistent
CHECK_DEADLOCK FALSE
