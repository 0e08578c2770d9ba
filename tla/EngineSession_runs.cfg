SPECIFICATION FairSpec
CONSTANTS
  Invocations = {"coding", "review"}
  Descendants = {"child", "detached"}
  MaxLines = 2
INVARIANTS WatchdogLeavesNoOrphan ReportedLimitWins KillIsReported StartupTakenBeforeFirstLine
PROPERTIES SilentSessionEnds
CHECK_DEADLOCK FALSE
