SPECIFICATION Spec
CONSTANTS
  t1 = t1
  t2 = t2
  t3 = t3
  c1 = c1
  c2 = c2
  NoTask = NoTask
  Task = {t1, t2, t3}
  Client = {c1, c2}
  Submitter <- MixedSubmitter
  Awaits <- NoAwaits
  Prio <- MixedPrio
  num_workers = 2
  kPriorityCount = 2
  kInjectorBatchSize = 2
INVARIANTS TypeOK Conservation PendingExact DrainBeforeExit NoMissedWakeup IdleOwnerIsDry
PROPERTY Refines
