SPECIFICATION Spec
CONSTANTS
  MaxPlanRounds = 3
  Sizes <- SomeSizes
  Replies <- SomeReplies
  Plans <- SomePlans
  Budget <- LimitOnly
INVARIANTS UnclearedPlansWait
CHECK_DEADLOCK FALSE
