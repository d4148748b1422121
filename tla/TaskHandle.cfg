SPECIFICATION FairSpec
CONSTANTS
  t1 = t1
  t2 = t2
  c1 = c1
  c2 = c2
  NoTask = NoTask
  Task = {t1, t2}
  Client = {c1, c2}
  Submitter <- ParentChild
  Awaits <- JoinChild
  num_workers = 2
  ClientJoin <- Joins
  Polling = {t2}
  Fragile = {t2}
INVARIANTS TypeOK ResultConserved MetricsAfterJoin MetricsAtReturn
PROPERTY JoinReturns
CHECK_DEADLOCK FALSE
