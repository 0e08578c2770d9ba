SPECIFICATION FairSpec
CONSTANTS
  r1 = r1  r2 = r2  rx = rx  e1 = e1  e2 = e2
  j1 = j1  j2 = j2  j3 = j3  j4 = j4  NoJob = NoJob
  Repos = {r1, r2}
  Engines = {e1, e2}
  Jobs = {j1, j2, j3, j4}
  RepoOf <- MCRepoOf
  EngineOf <- MCEngineOf
  Slots = 1
  Limited = {e1}
INVARIANTS PoolBooks NoLostWakeup
PROPERTIES ImplementsPool RunnableJobLeavesQueue
CHECK_DEADLOCK FALSE
