SPECIFICATION Spec
CONSTANTS
  c1 = c1
  c2 = c2
  CheckId <- MCOneCheck
  Definition = {"enabled"}
  NoPrep = NoPrep
  NoMsg = NoMsg
  Version <- MCAnyVersion
  MaxFrames = 4
INVARIANTS NewerThanCommitted
CHECK_DEADLOCK FALSE
