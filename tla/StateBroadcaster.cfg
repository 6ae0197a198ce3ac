SPECIFICATION Spec
CONSTANTS
  TryCounts <- MCTryCounts
  MaxCycles = 3
INVARIANTS SentIsReleased
PROPERTIES ReleasedIsSent
CHECK_DEADLOCK FALSE
