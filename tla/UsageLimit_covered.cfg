SPECIFICATION Spec
CONSTANTS
  e1 = e1  n1 = n1  n2 = n2  t1 = t1  t2 = t2
  Manual = Manual  None = None
  Engines = {e1}
  EngineOf <- OneEngine
  Notes = {n1, n2}
  TimerIds = {t1, t2}
  Scopes = {"one", "all"}
  Faults = {"hand"}
INVARIANTS KnownPauseIsCovered RecordedNoteIsCovered CollectedIsBlocked
SYMMETRY Alike
CHECK_DEADLOCK FALSE
