SPECIFICATION Spec
CONSTANTS
  a1 = a1
  r1 = r1
  v1 = v1
  i1 = i1
  u1 = u1
  d1 = d1
  d2 = d2
  p1 = p1
  p2 = p2
  Aoi = {a1}
  Record = {r1}
  Variable = {v1}
  Instance = {i1}
  Uri = {u1}
  Dataset = {d1, d2}
  AoiOf <- OneAoi
  VariableOf <- OneVariable
  RecordOf <- OneRecord
  InstanceOf <- OneInstance
  UriOf <- OneUri
  PlaceOf <- Places
  Deletion = {j1, j2}
  Consolidation = {j3}
  Client = {c1, c2}
  MaxRequests = 4
SYMMETRY Symmetries
INVARIANTS
  FilesAreKept
  NoForgottenFile
  JobsHoldTheirDatasets
PROPERTY ParamsAreKept
CHECK_DEADLOCK FALSE
