SPECIFICATION FairSpec
CONSTANTS
  readChannelSize = 1
  sendChannelSize = 1
PROPERTIES LostEnds UnansweredEnds CloseReleases
CHECK_DEADLOCK FALSE
