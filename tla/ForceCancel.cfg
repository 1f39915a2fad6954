SPECIFICATION Spec
CONSTANTS
  t1 = t1
  t2 = t2
  s1 = s1
  s2 = s2
  Task = {t1}
  Source = {s1}
  Inputs <- OneTask
  Handler = {h1, h2}
  Level = 1
  Commands = {"CancelledByUserForced"}
  MaxCommands = 1
  MaxFaults = 0
INVARIANT FailedChangesNothing
CHECK_DEADLOCK FALSE
