------------------------- MODULE DoorbellPool_proofs -------------------------
(***************************************************************************)
(* Proofs about the protocol that WorkStealingScheduler and FairScheduler  *)
(* share.  Every lemma says of one action of DoorbellPool that it keeps    *)
(* PoolInv; a scheduler that adds its queues has only to show that a job   *)
(* it finds is a queued one.                                               *)
(***************************************************************************)
EXTENDS DoorbellPool, FiniteSetTheorems, TLAPS

\* A job can be found only when submit() has counted and queued it.
SubStage == \A t \in Task : sub[t] \in {"idle", "counted"} <=> stage[t] = "none"

PoolInv(search) ==
  /\ PoolTypeOK(search)
  /\ SubStage
  /\ HeldOnce
  /\ PendingExact
  /\ DrainBeforeExit

\* Where a worker has no job in its hand and has not left.
Searching(w) == pc[w] \notin {"body", "settle", "exited"}

-----------------------------------------------------------------------------
(***************************************************************************)
(* Facts about pending.                                                    *)
(***************************************************************************)

\* There are finitely many jobs to count.
LEMMA CountedFinite == IsFiniteSet(Counted)
BY FS_Subset, WorkloadAssumption DEF Counted

\* pending = 0 is what the workers test; it means that nothing is left.
LEMMA PendingZero ==
  ASSUME PendingExact, pending = 0
  PROVE  Counted = {}
BY CountedFinite, FS_EmptySet DEF PendingExact

\* What does not touch sub and stage does not touch the set that is counted.
LEMMA CountedUnchanged ==
  ASSUME UNCHANGED <<sub, stage>>
  PROVE  Counted' = Counted
BY DEF Counted

-----------------------------------------------------------------------------
\* A pool as its constructor leaves it: no job, every worker about to look.
LEMMA PoolInitInv ==
  ASSUME NEW search, PoolInit
  PROVE  PoolInv(search)
<1>1. PoolTypeOK(search)
  BY DEF PoolInit, IdleInit, PoolTypeOK, IdleTypeOK, CommonStep, InSubmit, Stage
<1>2. SubStage
  BY DEF PoolInit, SubStage
<1>3. HeldOnce
  BY DEF PoolInit, HeldOnce
<1>4. PendingExact
  <2>1. Counted = {}
    BY DEF PoolInit, Counted
  <2> QED
    BY <2>1, FS_EmptySet DEF PoolInit, PendingExact
<1>5. DrainBeforeExit
  BY DEF PoolInit, DrainBeforeExit
<1> QED
  BY <1>1, <1>2, <1>3, <1>4, <1>5 DEF PoolInv

(***************************************************************************)
(* submit().                                                               *)
(***************************************************************************)

\* pending.fetch_add in submit().  If a worker has left already, the drain
\* it saw covers a running submitter, so the new job is a late one as well.
LEMMA SubmitCountInv ==
  ASSUME NEW search, PoolInv(search), NEW t \in Task, SubmitCount(t)
  PROVE  PoolInv(search)'
<1> USE DEF PoolInv
<1>1. PoolTypeOK(search)'
  BY DEF SubmitCount, PoolTypeOK, IdleTypeOK, idleVars, InSubmit
<1>2. SubStage'
  BY DEF SubmitCount, MaySubmit, SubStage, PoolTypeOK
<1>3. HeldOnce'
  BY DEF SubmitCount, HeldOnce
<1>4. t \notin Counted /\ Counted' = Counted \cup {t}
  BY DEF SubmitCount, MaySubmit, Counted, SubStage, PoolTypeOK
<1>5. PendingExact'
  BY <1>4, CountedFinite, FS_AddElement DEF SubmitCount, PendingExact
<1>6. DrainBeforeExit'
  <2> SUFFICES ASSUME NEW w \in Worker, pc'[w] = "exited"
               PROVE  shutdown_flag' /\ Counted' \subseteq late'
    BY DEF DrainBeforeExit
  <2>1. shutdown_flag /\ Counted \subseteq late
    BY DEF SubmitCount, DrainBeforeExit
  <2>2. IsLate(t)
    <3>1. CASE Nested(t)
      <4>1. Submitter[t] \in Counted
        BY <3>1 DEF SubmitCount, MaySubmit, Nested, Counted, SubStage
      <4> QED
        BY <3>1, <4>1, <2>1 DEF IsLate
    <3>2. CASE ~Nested(t)
      BY <3>2, <2>1 DEF IsLate
    <3> QED
      BY <3>1, <3>2
  <2> QED
    BY <1>4, <2>1, <2>2 DEF SubmitCount
<1> QED
  BY <1>1, <1>2, <1>3, <1>5, <1>6

\* The job becomes findable; it has been counted before.
LEMMA SubmitQueuedInv ==
  ASSUME NEW search, PoolInv(search), NEW t \in Task, SubmitQueued(t)
  PROVE  PoolInv(search)'
<1> USE DEF PoolInv
<1>1. PoolTypeOK(search)'
  BY DEF SubmitQueued, PoolTypeOK, IdleTypeOK, idleVars, InSubmit, Stage
<1>2. SubStage'
  BY DEF SubmitQueued, SubStage, PoolTypeOK
<1>3. stage[t] = "none"
  BY DEF SubmitQueued, SubStage
<1>4. HeldOnce'
  BY <1>3, WorkloadAssumption DEF SubmitQueued, HeldOnce, PoolTypeOK
<1>5. Counted' = Counted
  BY <1>3 DEF SubmitQueued, Counted, PoolTypeOK
<1>6. PendingExact' /\ DrainBeforeExit'
  BY <1>5 DEF SubmitQueued, PendingExact, DrainBeforeExit
<1> QED
  BY <1>1, <1>2, <1>4, <1>6

\* The notify() of submit() does not touch the jobs.
LEMMA SubmitNotifyInv ==
  ASSUME NEW search, PoolInv(search), NEW t \in Task, SubmitNotify(t)
  PROVE  PoolInv(search)'
<1> USE DEF PoolInv, SubmitNotify
<1>1. PoolTypeOK(search)'
  BY DEF SubmitBump, SubmitRing, IdleBump, IdleRing, PoolTypeOK, IdleTypeOK, InSubmit
<1>2. SubStage'
  BY DEF SubmitBump, SubmitRing, SubStage, PoolTypeOK
<1>3. HeldOnce'
  BY DEF SubmitBump, SubmitRing, HeldOnce
<1>4. Counted' = Counted
  BY DEF SubmitBump, SubmitRing, Counted, PoolTypeOK
<1>5. PendingExact' /\ DrainBeforeExit'
  BY <1>4 DEF SubmitBump, SubmitRing, PendingExact, DrainBeforeExit
<1> QED
  BY <1>1, <1>2, <1>3, <1>5

-----------------------------------------------------------------------------
(***************************************************************************)
(* The worker's loop.                                                      *)
(***************************************************************************)

\* A worker that searched starts a queued job, which no other worker holds.
LEMMA FoundInv ==
  ASSUME NEW search, PoolInv(search), NEW w \in Worker, NEW t \in Task,
         Searching(w), stage[t] = "queued", Found(w, t)
  PROVE  PoolInv(search)'
<1> USE DEF PoolInv
<1>1. PoolTypeOK(search)'
  BY DEF Found, PoolTypeOK, IdleTypeOK, idleVars, CommonStep, Stage
<1>2. SubStage'
  BY DEF Found, SubStage, PoolTypeOK
<1>3. HeldOnce'
  <2>1. job[w] = NoTask /\ \A v \in Worker : job[v] # t
    BY WorkloadAssumption DEF HeldOnce, Searching, PoolTypeOK
  <2>2. /\ pc' = [pc EXCEPT ![w] = "body"]
        /\ job' = [job EXCEPT ![w] = t]
        /\ stage' = [stage EXCEPT ![t] = "body"]
    BY DEF Found
  <2> QED
    BY <2>1, <2>2, WorkloadAssumption DEF HeldOnce, PoolTypeOK
<1>4. Counted' = Counted
  BY DEF Found, Counted, PoolTypeOK
<1>5. PendingExact' /\ DrainBeforeExit'
  BY <1>4 DEF Found, PendingExact, DrainBeforeExit, PoolTypeOK
<1> QED
  BY <1>1, <1>2, <1>3, <1>5

\* A worker without a job goes on looking for one, or to sleep.
LEMMA MoveInv ==
  ASSUME NEW search, PoolInv(search), NEW w \in Worker, Searching(w),
         NEW s \in (CommonStep \cup search) \ {"body", "settle", "exited"},
         pc' = [pc EXCEPT ![w] = s], IdleTypeOK',
         UNCHANGED <<pending, shutdown_flag, job, taskVars, down>>
  PROVE  PoolInv(search)'
<1> USE DEF PoolInv, taskVars
<1>1. PoolTypeOK(search)'
  BY DEF PoolTypeOK
<1>2. SubStage'
  BY DEF SubStage
<1>3. HeldOnce'
  BY DEF HeldOnce, Searching, PoolTypeOK
<1>4. PendingExact' /\ DrainBeforeExit'
  BY CountedUnchanged DEF PendingExact, DrainBeforeExit, PoolTypeOK
<1> QED
  BY <1>1, <1>2, <1>3, <1>4

\* A step of the search that finds nothing.
LEMMA GoToInv ==
  ASSUME NEW search, PoolInv(search), NEW w \in Worker, Searching(w),
         NEW s \in (CommonStep \cup search) \ {"body", "settle", "exited"}, GoTo(w, s)
  PROVE  PoolInv(search)'
<1>1. IdleTypeOK'
  BY DEF PoolInv, PoolTypeOK, IdleTypeOK, GoTo, idleVars
<1> QED
  BY <1>1, MoveInv DEF GoTo

\* idle.current(), before the search.
LEMMA SnapshotInv ==
  ASSUME NEW search, PoolInv(search), NEW w \in Worker,
         NEW s \in (CommonStep \cup search) \ {"body", "settle", "exited"}, Snapshot(w, s)
  PROVE  PoolInv(search)'
<1>1. IdleTypeOK'
  BY DEF PoolInv, PoolTypeOK, IdleTypeOK, Snapshot, IdleCurrent
<1>2. Searching(w)
  BY DEF Snapshot, Searching
<1> QED
  BY <1>1, <1>2, MoveInv DEF Snapshot

\* The end of the notify() with which a job settles.
LEMMA RingInv ==
  ASSUME NEW search, PoolInv(search), NEW w \in Worker,
         NEW s \in (CommonStep \cup search) \ {"body", "settle", "exited"}, Ring(w, s)
  PROVE  PoolInv(search)'
<1>1. IdleTypeOK'
  BY DEF PoolInv, PoolTypeOK, IdleTypeOK, Ring, IdleRing
<1>2. Searching(w)
  BY DEF Ring, Searching
<1> QED
  BY <1>1, <1>2, MoveInv DEF Ring

\* The only way out of the loop: nothing is pending, so nothing is left.
LEMMA StopOrWaitInv ==
  ASSUME NEW search, PoolInv(search), NEW w \in Worker, Searching(w), StopOrWait(w)
  PROVE  PoolInv(search)'
<1>1. CASE ~ShouldStop
  <2>1. GoTo(w, "wait")
    BY <1>1 DEF StopOrWait
  <2> QED
    BY <2>1, GoToInv DEF CommonStep
<1>2. CASE ShouldStop
  <2> USE DEF PoolInv
  <2>1. GoTo(w, "exited")
    BY <1>2 DEF StopOrWait
  <2>2. PoolTypeOK(search)'
    BY <2>1 DEF GoTo, PoolTypeOK, IdleTypeOK, idleVars, taskVars, CommonStep
  <2>3. SubStage'
    BY <2>1 DEF GoTo, taskVars, SubStage
  <2>4. HeldOnce'
    BY <2>1 DEF GoTo, taskVars, HeldOnce, Searching, PoolTypeOK
  <2>5. Counted' = Counted /\ Counted = {}
    BY <2>1, <1>2, CountedUnchanged, PendingZero DEF GoTo, taskVars, ShouldStop
  <2>6. PendingExact' /\ DrainBeforeExit'
    BY <2>1, <2>5, <1>2 DEF GoTo, PendingExact, DrainBeforeExit, ShouldStop
  <2> QED
    BY <2>2, <2>3, <2>4, <2>6
<1> QED
  BY <1>1, <1>2

\* A body returns; its job stays counted until it settles.
LEMMA FinishBodyInv ==
  ASSUME NEW search, PoolInv(search), NEW w \in Worker, FinishBody(w)
  PROVE  PoolInv(search)'
<1> USE DEF PoolInv
<1>1. job[w] \in Task /\ stage[job[w]] = "body"
  BY DEF FinishBody, HeldOnce, PoolTypeOK
<1>2. PoolTypeOK(search)'
  BY <1>1 DEF FinishBody, PoolTypeOK, IdleTypeOK, idleVars, CommonStep, Stage
<1>3. SubStage'
  BY <1>1 DEF FinishBody, SubStage, PoolTypeOK
<1>4. HeldOnce'
  <2>1. /\ pc' = [pc EXCEPT ![w] = "settle"]
        /\ stage' = [stage EXCEPT ![job[w]] = "published"]
        /\ job' = job
    BY DEF FinishBody
  <2> QED
    BY <1>1, <2>1, WorkloadAssumption DEF HeldOnce, PoolTypeOK
<1>5. Counted' = Counted
  BY <1>1 DEF FinishBody, Counted, PoolTypeOK
<1>6. PendingExact' /\ DrainBeforeExit'
  BY <1>5 DEF FinishBody, PendingExact, DrainBeforeExit, PoolTypeOK
<1> QED
  BY <1>2, <1>3, <1>4, <1>6

\* pending.fetch_sub: the job is one of those counted, so pending was not 0.
LEMMA SettleInv ==
  ASSUME NEW search, PoolInv(search), NEW w \in Worker, Settle(w)
  PROVE  PoolInv(search)'
<1> USE DEF PoolInv
<1>1. job[w] \in Task /\ stage[job[w]] = "published"
  BY DEF Settle, HeldOnce, PoolTypeOK
<1>2. job[w] \in Counted /\ Counted' = Counted \ {job[w]}
  BY <1>1 DEF Settle, Counted, SubStage, PoolTypeOK
<1>3. pending' = Cardinality(Counted') /\ pending' \in Nat
  <2>1. /\ Cardinality(Counted') = Cardinality(Counted) - 1
        /\ IsFiniteSet(Counted')
    BY <1>2, CountedFinite, FS_RemoveElement
  <2> QED
    BY <2>1, FS_CardinalityType DEF Settle, PendingExact
<1>4. PoolTypeOK(search)'
  BY <1>1, <1>3 DEF Settle, PoolTypeOK, IdleTypeOK, idleVars, CommonStep, Stage
<1>5. SubStage'
  BY <1>1 DEF Settle, SubStage, PoolTypeOK
<1>6. HeldOnce'
  <2>1. /\ pc' = [pc EXCEPT ![w] = "bump"]
        /\ stage' = [stage EXCEPT ![job[w]] = "done"]
        /\ job' = [job EXCEPT ![w] = NoTask]
    BY DEF Settle
  <2> QED
    BY <1>1, <2>1, WorkloadAssumption DEF HeldOnce, PoolTypeOK
<1>7. DrainBeforeExit'
  BY <1>2 DEF Settle, DrainBeforeExit, PoolTypeOK
<1> QED
  BY <1>3, <1>4, <1>5, <1>6, <1>7 DEF PendingExact

\* The steps around the search, taken together.
LEMMA WorkerCommonInv ==
  ASSUME NEW search, PoolInv(search), NEW w \in Worker, WorkerCommon(w)
  PROVE  PoolInv(search)'
<1>1. CASE Bump(w)
  <2>1. IdleTypeOK'
    BY <1>1 DEF PoolInv, PoolTypeOK, IdleTypeOK, Bump, IdleBump
  <2>2. Searching(w)
    BY <1>1 DEF Bump, Searching
  <2> QED
    BY <1>1, <2>1, <2>2, MoveInv DEF Bump, CommonStep
<1>2. CASE WaitBlock(w)
  <2>1. IdleTypeOK' /\ pc' = [pc EXCEPT ![w] = "wait"]
    BY <1>2 DEF PoolInv, PoolTypeOK, IdleTypeOK, WaitBlock, IdleBlock
  <2>2. Searching(w)
    BY <1>2 DEF WaitBlock, Searching
  <2> QED
    BY <1>2, <2>1, <2>2, MoveInv DEF WaitBlock, CommonStep
<1>3. CASE WaitReturn(w)
  <2>1. Searching(w)
    BY <1>3 DEF WaitReturn, Searching
  <2> QED
    BY <1>3, <2>1, GoToInv DEF WaitReturn, CommonStep
<1> QED
  BY <1>1, <1>2, <1>3, FinishBodyInv, SettleInv DEF WorkerCommon

-----------------------------------------------------------------------------
(***************************************************************************)
(* shutdown().                                                             *)
(***************************************************************************)

\* shutdown() itself takes no job away and lets no worker go.
LEMMA ShutdownInv ==
  ASSUME NEW search, PoolInv(search), ShutdownFlag \/ ShutdownRest
  PROVE  PoolInv(search)'
<1> USE DEF PoolInv, ShutdownFlag, ShutdownRest, ShutdownBump, ShutdownRing, ShutdownJoin
<1>1. PoolTypeOK(search)'
  BY DEF PoolTypeOK, IdleTypeOK, idleVars, taskVars, IdleBump, IdleRing
<1>2. SubStage' /\ HeldOnce'
  BY DEF taskVars, SubStage, HeldOnce
<1>3. Counted' = Counted
  BY DEF taskVars, Counted
<1>4. PendingExact' /\ DrainBeforeExit'
  BY <1>3 DEF taskVars, PendingExact, DrainBeforeExit, PoolTypeOK
<1> QED
  BY <1>1, <1>2, <1>4

\* Nothing happens.
LEMMA PoolStutterInv ==
  ASSUME NEW search, PoolInv(search), UNCHANGED poolVars
  PROVE  PoolInv(search)'
<1> USE DEF PoolInv, poolVars, taskVars, idleVars
<1>1. PoolTypeOK(search)'
  BY DEF PoolTypeOK, IdleTypeOK
<1>2. SubStage' /\ HeldOnce' /\ DrainBeforeExit' /\ PendingExact'
  BY DEF SubStage, HeldOnce, DrainBeforeExit, PendingExact, Counted
<1> QED
  BY <1>1, <1>2

-----------------------------------------------------------------------------
(***************************************************************************)
(* Sleeping and waking.  NoMissedWakeupFor({}) is what the protocol        *)
(* guarantees whatever the queues are; a scheduler adds the jobs its       *)
(* search covers.                                                          *)
(***************************************************************************)
WakeInv ==
  /\ shutdown_flag <=> down # "no"
  /\ down = "returned" => AllExited
  /\ \A w \in asleep : pc[w] = "wait"
  /\ NoMissedWakeupFor({})

\* Nobody sleeps in a new pool.
LEMMA PoolInitWake ==
  ASSUME PoolInit
  PROVE  WakeInv
BY WorkersAssumption DEF PoolInit, IdleInit, WakeInv, AllExited, NoMissedWakeupFor

\* submit() makes pending positive, so nobody has to stop.
LEMMA SubmitWake ==
  ASSUME NEW search, PoolInv(search), WakeInv, NEW t \in Task,
         SubmitCount(t) \/ SubmitQueued(t) \/ SubmitNotify(t)
  PROVE  WakeInv'
<1> USE DEF PoolInv, PoolTypeOK, IdleTypeOK, idleVars, WakeInv, AllExited, NoMissedWakeupFor,
            Advanced, ShouldStop
<1>1. CASE SubmitCount(t)
  BY <1>1 DEF SubmitCount, MaySubmit
<1>2. CASE SubmitQueued(t)
  BY <1>2 DEF SubmitQueued
<1>3. CASE SubmitBump(t)
  BY <1>3 DEF SubmitBump, IdleBump
<1>4. CASE SubmitRing(t)
  BY <1>4 DEF SubmitRing, IdleRing
<1> QED
  BY <1>1, <1>2, <1>3, <1>4 DEF SubmitNotify

\* A worker that runs or looks for a job is awake.
LEMMA FoundWake ==
  ASSUME NEW search, PoolInv(search), WakeInv, NEW w \in Worker, NEW t \in Task,
         Searching(w), pc[w] \notin {"wait", "bump", "ring"}, Found(w, t)
  PROVE  WakeInv'
BY DEF Found, PoolInv, PoolTypeOK, IdleTypeOK, idleVars, WakeInv, AllExited, NoMissedWakeupFor,
       Advanced, ShouldStop, Searching

\* A step of the search that finds nothing.
LEMMA GoToWake ==
  ASSUME NEW search, PoolInv(search), WakeInv, NEW w \in Worker, Searching(w),
         pc[w] \notin {"bump", "ring"}, w \notin asleep,
         NEW s \in (CommonStep \cup search) \ {"wait", "exited"}, GoTo(w, s)
  PROVE  WakeInv'
BY DEF GoTo, PoolInv, PoolTypeOK, IdleTypeOK, idleVars, taskVars, WakeInv, AllExited,
       NoMissedWakeupFor, Advanced, ShouldStop, Searching

\* A new snapshot, and with it a new generation that counts as seen.
LEMMA SnapshotWake ==
  ASSUME NEW search, PoolInv(search), WakeInv, NEW w \in Worker,
         NEW s \in (CommonStep \cup search) \ {"wait", "exited"}, Snapshot(w, s)
  PROVE  WakeInv'
BY DEF Snapshot, IdleCurrent, PoolInv, PoolTypeOK, IdleTypeOK, idleVars, taskVars, WakeInv,
       AllExited, NoMissedWakeupFor, Advanced, ShouldStop

\* notify_all() leaves nobody asleep.
LEMMA RingWake ==
  ASSUME NEW search, PoolInv(search), WakeInv, NEW w \in Worker,
         NEW s \in (CommonStep \cup search) \ {"wait", "exited"}, Ring(w, s)
  PROVE  WakeInv'
BY DEF Ring, IdleRing, PoolInv, PoolTypeOK, IdleTypeOK, taskVars, WakeInv, AllExited,
       NoMissedWakeupFor, Advanced, ShouldStop

\* A worker goes to wait() only when it need not stop.
LEMMA StopOrWaitWake ==
  ASSUME NEW search, PoolInv(search), WakeInv, NEW w \in Worker, Searching(w),
         pc[w] \notin {"wait", "bump", "ring"}, StopOrWait(w)
  PROVE  WakeInv'
BY DEF StopOrWait, GoTo, PoolInv, PoolTypeOK, IdleTypeOK, idleVars, taskVars, WakeInv,
       AllExited, NoMissedWakeupFor, Advanced, ShouldStop, Searching

\* Settling may make it time to stop, and is followed by a notify().
LEMMA WorkerCommonWake ==
  ASSUME NEW search, PoolInv(search), WakeInv, NEW w \in Worker, WorkerCommon(w)
  PROVE  WakeInv'
<1> USE DEF PoolInv, PoolTypeOK, IdleTypeOK, idleVars, taskVars, WakeInv, AllExited,
            NoMissedWakeupFor, Advanced, ShouldStop
<1>1. CASE FinishBody(w)
  BY <1>1 DEF FinishBody
<1>2. CASE Settle(w)
  BY <1>2 DEF Settle
<1>3. CASE Bump(w)
  BY <1>3 DEF Bump, IdleBump
<1>4. CASE WaitBlock(w)
  BY <1>4 DEF WaitBlock, IdleBlock
<1>5. CASE WaitReturn(w)
  BY <1>5 DEF WaitReturn, GoTo
<1> QED
  BY <1>1, <1>2, <1>3, <1>4, <1>5 DEF WorkerCommon

\* shutdown() sets the flag and then rings, too.
LEMMA ShutdownWake ==
  ASSUME NEW search, PoolInv(search), WakeInv, ShutdownFlag \/ ShutdownRest
  PROVE  WakeInv'
<1> USE DEF PoolInv, PoolTypeOK, IdleTypeOK, idleVars, taskVars, WakeInv, AllExited,
            NoMissedWakeupFor, Advanced, ShouldStop
<1>1. CASE ShutdownFlag
  BY <1>1 DEF ShutdownFlag
<1>2. CASE ShutdownBump
  BY <1>2 DEF ShutdownBump, IdleBump
<1>3. CASE ShutdownRing
  BY <1>3 DEF ShutdownRing, IdleRing
<1>4. CASE ShutdownJoin
  BY <1>4 DEF ShutdownJoin
<1> QED
  BY <1>1, <1>2, <1>3, <1>4 DEF ShutdownRest

\* Nothing happens.
LEMMA PoolStutterWake ==
  ASSUME WakeInv, UNCHANGED poolVars
  PROVE  WakeInv'
BY DEF poolVars, idleVars, taskVars, WakeInv, AllExited, NoMissedWakeupFor, Advanced, ShouldStop

-----------------------------------------------------------------------------
(***************************************************************************)
(* The pool implements TaskPool: each action is one step of the contract,  *)
(* or none.                                                                *)
(***************************************************************************)

\* No task is submitted, started, finished or late in a way it was not before.
LEMMA SimStutter ==
  ASSUME UNCHANGED <<sub, stage, late, shutdown_flag>>,
         (down = "returned")' <=> (down = "returned")
  PROVE  UNCHANGED Pool!vars
BY DEF Pool!vars

\* A new pool.
LEMMA SimInit ==
  ASSUME PoolInit
  PROVE  Pool!Init
BY DEF PoolInit, Pool!Init

\* The contract sees a submit() when it counts the job.
LEMMA SimSubmitCount ==
  ASSUME NEW search, PoolInv(search), NEW t \in Task, SubmitCount(t)
  PROVE  Pool!Submit(t)
BY DEF SubmitCount, MaySubmit, IsLate, PoolInv, PoolTypeOK, SubStage, Nested, Pool!Submit,
       Pool!IsLate, Pool!Nested

\* The rest of submit() changes nothing the contract speaks of.
LEMMA SimSubmitRest ==
  ASSUME NEW search, PoolInv(search), NEW t \in Task, SubmitQueued(t) \/ SubmitNotify(t)
  PROVE  UNCHANGED Pool!vars
BY DEF SubmitQueued, SubmitNotify, SubmitBump, SubmitRing, PoolInv, PoolTypeOK, SubStage, Pool!vars

\* A worker that has found a job starts it; shutdown() has not returned, for
\* it waits for this worker.
LEMMA SimFound ==
  ASSUME NEW search, PoolInv(search), WakeInv, NEW w \in Worker, NEW t \in Task,
         Searching(w), stage[t] = "queued", Found(w, t)
  PROVE  Pool!Start(t)
BY DEF Found, Searching, PoolInv, PoolTypeOK, SubStage, WakeInv, AllExited, Pool!Start

\* The contract's task is finished when its job settles.
LEMMA SimWorkerCommon ==
  ASSUME NEW search, PoolInv(search), NEW w \in Worker, WorkerCommon(w)
  PROVE  UNCHANGED Pool!vars \/ \E t \in Task : Pool!Finish(t)
<1> USE DEF PoolInv, PoolTypeOK, SubStage, HeldOnce
<1>1. CASE FinishBody(w)
  BY <1>1 DEF FinishBody, Pool!vars
<1>2. CASE Settle(w)
  <2>1. PICK t \in Task : job[w] = t /\ stage[t] = "published"
    BY <1>2 DEF Settle
  <2>2. /\ stage'[t] = "done" /\ \A u \in Task \ {t} : stage'[u] = stage[u]
        /\ UNCHANGED <<sub, late, shutdown_flag, down>>
    BY <1>2, <2>1 DEF Settle
  <2>3. sub[t] # "idle"
    BY <2>1
  <2> HIDE DEF PoolInv, PoolTypeOK, SubStage, HeldOnce
  <2> DEFINE Phase(u) == CASE sub[u] = "idle" -> "unsubmitted"
                           [] stage[u] \in {"body", "published"} -> "running"
                           [] stage[u] = "done" -> "finished"
                           [] OTHER -> "waiting"
  <2>4. Phase(t) = "running" /\ Phase(t)' = "finished"
    BY <2>1, <2>2, <2>3
  <2>5. \A u \in Task \ {t} : Phase(u)' = Phase(u)
    BY <2>2
  <2>6. [u \in Task |-> Phase(u)]' = [[u \in Task |-> Phase(u)] EXCEPT ![t] = "finished"]
    <3> HIDE DEF Phase
    <3> QED
      BY <2>4, <2>5
  <2>7. Pool!Finish(t)
    BY <2>2, <2>4, <2>6 DEF Pool!Finish
  <2> QED
    BY <2>7
<1>3. CASE Bump(w) \/ WaitBlock(w) \/ WaitReturn(w)
  BY <1>3, SimStutter DEF Bump, WaitBlock, WaitReturn, GoTo, taskVars
<1> QED
  BY <1>1, <1>2, <1>3 DEF WorkerCommon

\* shutdown() returns when all workers have left, and then only late jobs
\* are in the queues and no body is running.
LEMMA SimShutdown ==
  ASSUME NEW search, PoolInv(search), WakeInv, ShutdownFlag \/ ShutdownRest
  PROVE  UNCHANGED Pool!vars \/ Pool!Shutdown \/ Pool!Return
<1> USE DEF PoolInv, PoolTypeOK
<1>1. CASE ShutdownFlag
  BY <1>1 DEF ShutdownFlag, WakeInv, taskVars, Pool!Shutdown
<1>2. CASE ShutdownBump \/ ShutdownRing
  BY <1>2, SimStutter DEF ShutdownBump, ShutdownRing, taskVars
<1>3. CASE ShutdownJoin
  <2>1. \A w \in Worker : job[w] = NoTask
    BY <1>3 DEF ShutdownJoin, AllExited, HeldOnce
  <2>2. \A t \in Task : stage[t] \notin {"body", "published"}
    BY <2>1, WorkloadAssumption DEF HeldOnce
  <2>3. Counted \subseteq late
    BY <1>3, WorkersAssumption DEF ShutdownJoin, AllExited, DrainBeforeExit, Worker
  <2> QED
    BY <1>3, <2>2, <2>3 DEF ShutdownJoin, WakeInv, taskVars, Counted, Pool!Return
<1> QED
  BY <1>1, <1>2, <1>3 DEF ShutdownRest
=============================================================================
