SPECIFICATION FairSpec
CONSTANTS
  MaxPlanRounds = 2
  Sizes <- SomeSizes
  Replies <- SomeReplies
  Plans <- SomePlans
  Budget <- Most
INVARIANTS UnitsArePlan RoundAskedOnce OnlyClearedPlansRun OneJob UnseenPlanIsSure
PROPERTIES ReviewIsSettled
CHECK_DEADLOCK FALSE
