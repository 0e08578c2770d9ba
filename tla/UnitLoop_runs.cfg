SPECIFICATION FairSpec
CONSTANTS
  N = 2
  MaxCommits = 3
INVARIANTS UnitsInOrder FinishedUnlessLimited EveryCommitReviewed
PROPERTIES RunEnds
CHECK_DEADLOCK FALSE
