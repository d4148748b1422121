SPECIFICATION FairSpec
CONSTANTS
  t1 = t1
  t2 = t2
  t3 = t3
  c1 = c1
  c2 = c2
  NoTask = NoTask
  Task = {t1, t2, t3}
  Client = {c1, c2}
  Submitter <- MixedSubmitter
  Awaits <- NoAwaits
  num_workers = 3
  num_cores = 1
  Home <- OneQueue
  kPriorityCount = 1
  Prio <- NoPriority
INVARIANT NoLostNotify
PROPERTIES Refines TasksFinish ReturnsOutsideWindow
CHECK_DEADLOCK FALSE
