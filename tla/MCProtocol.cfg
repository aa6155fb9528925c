SPECIFICATION ProtocolFairSpec
CONSTANTS
  CheckId <- MCCheckId
  Definition = {"enabled"}
  NoPrep = NoPrep
  NoMsg = NoMsg
  NoSet = NoSet
  Version = {}
  MaxFrames = 0
  prepareBlockSize = 2
  MaxLoads = 4
  MaxFiles = 3
INVARIANTS HandlerSurvives Agreement CommitsInOrder
PROPERTIES ImplementsTwoPhaseCommit PrepareResolved
CHECK_DEADLOCK FALSE
