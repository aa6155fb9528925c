SPECIFICATION Spec
CONSTANTS
  a1 = a1
  a2 = a2
  a3 = a3
  Conn <- MCConn
  Source <- MCSource
  SourceOf <- MCSourceOf
  NoAgent = NoAgent
  framesChanSize = 1
  GreeterChanSize = 1
  MetricsPostsChanSize = 1
  MetricsStoreChanSize = 1
  Earlier <- MCEarlier
  MaxFrames <- MCMaxFrames
INVARIANTS MapIsConfined
CHECK_DEADLOCK FALSE
