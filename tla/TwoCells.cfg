SPECIFICATION Spec
CONSTANTS
  t1 = t1
  t2 = t2
  s1 = s1
  s2 = s2
  Task = {t1, t2}
  Source = {s1, s2}
  Inputs <- TwoTasks
  Handler = {h1, h2}
  Level = 2
  Commands = {"Continue", "CancelledByUserForced", "Retried", "RetryForced"}
  MaxCommands = 3
  MaxFaults = 1
SYMMETRY HandlerSymmetry
INVARIANTS
  CountersMatch
  NothingLost
  ServedOnce
  InputsStayLocked
  EffectiveIsComplete
  IndexedOnce
  IndexedHasFile
PROPERTIES
  KeepsPromise
  RollbackIsClean
CHECK_DEADLOCK FALSE
