SPECIFICATION FairSpec
CONSTANTS
  n1 = n1  n2 = n2  None = None
  Tasks = {n1, n2}
  Drafts = {n2}
  Budget <- Most
INVARIANTS OneJobPerTask QueuedIsInPool InProgressIsRunning WithdrawnStaysOut
PROPERTIES ImplementsLifecycle ClaimableIsClaimed SessionWorkIsKept
CHECK_DEADLOCK FALSE
