SPECIFICATION Spec
CONSTANTS
  d1 = d1
  d2 = d2
  d3 = d3
  d4 = d4
  d5 = d5
  c1 = c1
  c2 = c2
  c3 = c3
  c4 = c4
  Dataset = {d1, d2, d3, d4, d5}
  Container = {c1, c2, c3, c4}
  In <- FourContainers
  Managed = {c1, c2, c3}
  Chosen = {d1, d2, d3, d5}
  Handler = {h1, h2}
  Level = 1
  Commands = {"CancelledByUserForced", "RetryForced", "Retried"}
  MaxCommands = 3
  MaxFaults = 2
SYMMETRY HandlerSymmetry
INVARIANTS
  CountersMatch
  NoDanglingDataset
  NoForgottenFile
  DoneIsDeleted
  HiddenIsLocked
PROPERTY RollbackRestores
CHECK_DEADLOCK FALSE
