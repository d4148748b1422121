SPECIFICATION Spec
CONSTANTS
  t1 = t1
  t2 = t2
  t3 = t3
  t4 = t4
  t5 = t5
  c1 = c1
  heavy = heavy
  light = light
  NoTask = NoTask
  NoClass = NoClass
  Client = {c1}
  Class = {heavy, light}
  ClassOf <- OneLight
  OptWeight <- Weights
  Elapsed = {4}
  num_workers = 2
  Task = {t1, t2}
  Submitter <- OneClient
  Awaits <- NoAwaits
  RegWeight = {}
INVARIANT SnapshotAfterJoin
CHECK_DEADLOCK FALSE
