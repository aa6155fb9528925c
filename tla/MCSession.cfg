SPECIFICATION FairSpec
CONSTANTS
  c1 = c1
  c2 = c2
  CheckId <- MCCheckId
  Definition = {"enabled"}
  NoPrep = NoPrep
  NoMsg = NoMsg
  Version <- MCVersion
  MaxFrames = 4
INVARIANTS PrepLinked VotedIsComplete UnansweredIsTimed
PROPERTIES PrepareIsAnswered
CHECK_DEADLOCK FALSE
