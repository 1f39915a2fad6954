SPECIFICATION FairSpec
CONSTANTS
  t1 = t1
  t2 = t2
  s1 = s1
  s2 = s2
  Task = {t1, t2}
  Source = {s1, s2}
  Inputs <- TwoTasks
  Handler = {h1, h2}
  Level = 1
  Commands = {"CancelledByUser", "CancelledByUserForced"}
  MaxCommands = 2
  MaxFaults = 0
INVARIANTS
  NoOrphanFile
  PendingIsInFlight
PROPERTY EventuallySettles
CHECK_DEADLOCK FALSE
