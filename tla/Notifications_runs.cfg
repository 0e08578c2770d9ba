SPECIFICATION FairSpec
CONSTANTS
  n1 = n1  n2 = n2
  Notes = {n1}
  HealthAlertThreshold = 2
  MaxEpisodes = 2
  MaxFaults = 1
  MaxRestarts = 1
INVARIANTS NotifiedIsTrue ToldTwiceOnlyAfterFault
PROPERTIES OutageIsReported FirstStatusIsTried WedgedGateIsReported
CHECK_DEADLOCK FALSE
