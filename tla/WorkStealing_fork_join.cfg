SPECIFICATION FairSpec
CONSTANTS
  t1 = t1
  t2 = t2
  t3 = t3
  c1 = c1
  c2 = c2
  NoTask = NoTask
  Task = {t1, t2, t3}
  Client = {c1}
  Submitter <- ForkSubmitter
  Awaits <- ForkAwaits
  Prio <- OnePrio
  num_workers = 2
  kPriorityCount = 1
  kInjectorBatchSize = 2
PROPERTIES TasksFinish ShutdownReturns
CHECK_DEADLOCK FALSE
