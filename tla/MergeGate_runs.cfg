SPECIFICATION FairSpec
CONSTANTS
  w1 = w1
  MaxMergeGateRounds = 3
  Workflows = {w1}
  MaxHead = 3
  MaxStrays = 1
INVARIANTS MergedWasChecked SilenceMeansChecked
PROPERTIES GateSettles
CHECK_DEADLOCK FALSE
