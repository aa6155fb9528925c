SPECIFICATION FairSpec
CONSTANTS
  PluginMetric <- MCPluginMetric
  KnownUnit <- MCKnownUnit
INVARIANTS AvailableIsWhole SocketIsClosed
PROPERTIES ResultIsFinal RunEnds
CHECK_DEADLOCK FALSE
