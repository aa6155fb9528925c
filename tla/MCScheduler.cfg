SPECIFICATION FairSpec
CONSTANTS
  c1 = c1
  s1 = s1
  s2 = s2
  CheckId <- MCCheckId
  Definition = {"enabled", "disabled", "invalid"}
  NoPrep = NoPrep
  Sessions <- MCSessions
  checkPreparationBufferSize = 1
  metricsChannelSize = 1
  MaxPreparations = 2
INVARIANTS NoOrphan
PROPERTIES RefusalStrands ContinueNeverInterrupts OnlyNamedRemain CancelledStops HandedIsReconciled
CHECK_DEADLOCK FALSE
