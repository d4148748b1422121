SPECIFICATION FairSpec
CONSTANTS
  t1 = t1
  t2 = t2
  t3 = t3
  t4 = t4
  t5 = t5
  c1 = c1
  heavy = heavy
  light = light
  NoTask = NoTask
  NoClass = NoClass
  Client = {c1}
  Class = {heavy, light}
  ClassOf <- OneLight
  OptWeight <- Weights
  Elapsed = {4}
  num_workers = 2
  Task = {t1, t2, t3, t4, t5}
  Submitter <- TreeSubmitter
  Awaits <- JoinFirst
  RegWeight = {0, 4}
INVARIANTS TypeOK OneEntryPerClass NothingBelowFloor BoundedStaleness BoundedLag
INVARIANTS NoMissedWakeup DrainBeforeExit AccountedAtReturn
PROPERTIES Refines TasksFinish ShutdownReturns
CHECK_DEADLOCK FALSE
