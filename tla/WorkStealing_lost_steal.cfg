SPECIFICATION Spec
CONSTANTS
  t1 = t1
  t2 = t2
  t3 = t3
  c1 = c1
  c2 = c2
  NoTask = NoTask
  Task = {t1, t2, t3}
  Client = {c1}
  Submitter <- BatchSubmitter
  Awaits <- BatchAwaits
  Prio <- OnePrio
  num_workers = 3
  kPriorityCount = 1
  kInjectorBatchSize = 3
SYMMETRY Interchangeable
INVARIANT NoJobLeftBehind
CHECK_DEADLOCK FALSE
