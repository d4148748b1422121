SPECIFICATION Spec
CONSTANTS
  t1 = t1
  t2 = t2
  t3 = t3
  c1 = c1
  c2 = c2
  NoTask = NoTask
  NoHint = NoHint
  Task = {t1, t2, t3}
  Client = {c1, c2}
  Submitter <- MixedSubmitter
  Awaits <- NoAwaits
  Prio <- MixedPrio
  Hint <- RoundRobin
  kPriorityCount = 2
  num_workers = 2
  num_cores = 2
  Home <- OwnCore
INVARIANT DrainsEveryQueue
CHECK_DEADLOCK FALSE
