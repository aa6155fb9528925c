SPECIFICATION FairSpec
CONSTANTS
  h1 = h1
  h2 = h2
  Host <- MCHost
  Reconnecting <- MCReconnecting
  registrationsChannelSize = 3
  sendChannelSize = 1
  metricsChannelSize = 1
  MaxConnections = 2
  MaxMetrics = 2
INVARIANTS MapFollowsConnections
PROPERTIES DeadIsDeregistered
CHECK_DEADLOCK FALSE
