SPECIFICATION PollerFairSpec
CONSTANTS
  h1 = h1
  l1 = l1
  Host <- MCHost
  Loop <- MCLoop
  File <- MCFile
  AgentToken = ""
  ValidSnetRegions = {"region"}
  registrationsChannelSize = 1
  sendChannelSize = 1
  metricsChannelSize = 1
  signalChannelSize = 1
  crsChannelSize = 1
  MaxConnections = 1
  Reconnecting = {}
  MaxMetrics = 4
INVARIANTS StatsdLosesNoOther HostsPersist
PROPERTIES SignalEndsProcess SendMetricsReturns
CHECK_DEADLOCK FALSE
