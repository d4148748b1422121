SPECIFICATION FairSpec
CONSTANTS
  t1 = t1
  t2 = t2
  t3 = t3
  c1 = c1
  c2 = c2
  NoTask = NoTask
  Task = {t2, t3}
  Client = {c1}
  Submitter <- ForkSubmitter
  Awaits <- NoAwaits
  num_workers = 2
  num_cores = 1
  Home <- OneQueue
  kPriorityCount = 1
  Prio <- NoPriority
PROPERTY ShutdownReturns
CHECK_DEADLOCK FALSE
