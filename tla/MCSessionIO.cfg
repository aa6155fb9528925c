SPECIFICATION FairSpec
CONSTANTS
  ServerId <- MCServerId
  sendChannelSize = 1
  readChannelSize = 1
  MaxSeq = 3
  MaxFrames = 4
INVARIANTS TypeOK MeasuresItsOwn UnauthenticatedIsTimed
PROPERTIES HandlerReturns
CHECK_DEADLOCK FALSE
