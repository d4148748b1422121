------------------------- MODULE GlobalQueue_proofs -------------------------
(***************************************************************************)
(* Proofs about GlobalQueueScheduler, from the ones of CondVarPool_proofs. *)
(***************************************************************************)
EXTENDS GlobalQueueScheduler, CondVarPool_proofs

\* The one queue.
LEMMA OneCore == Core = {0} /\ \A w \in Worker : Home[w] = 0
BY OneQueueAssumption, QueueAssumption DEF Core

\* Every step keeps the pool's invariant.
LEMMA NextInv == QueueInv /\ [Next]_vars => QueueInv'
<1> SUFFICES ASSUME QueueInv, [Next]_vars PROVE QueueInv'
  OBVIOUS
<1>1. ASSUME NEW t \in Task, SubmitPush(t) PROVE QueueInv'
  BY <1>1, OneCore, PushInv DEF SubmitPush, MaySubmit
<1>2. ASSUME NEW t \in Task, SubmitNotify(t) PROVE QueueInv'
  BY <1>2, OneCore, NotifyInv DEF SubmitNotify
<1>3. ASSUME NEW w \in Worker, WorkerNext(w) \/ SpuriousWake(w) PROVE QueueInv'
  BY <1>3, GoToInv, TakeInv, FinishBodyInv DEF WorkerNext, Loop
<1>4. CASE UNCHANGED vars
  BY <1>4, StutterInv DEF vars
<1> QED
  BY <1>1, <1>2, <1>3, <1>4, ShutdownInv DEF Next

\* So it holds whenever the scheduler runs.
LEMMA Inductive == Spec => []QueueInv
<1>1. Init => QueueInv
  BY InitInv DEF Init
<1> QED
  BY <1>1, NextInv, PTL DEF Spec

-----------------------------------------------------------------------------
(***************************************************************************)
(* Jobs and the notifications and workers that come for them are counted.  *)
(***************************************************************************)
Queued == {t \in Task : stage[t] = "queued"}

\* The queue holds the tasks that are queued.
LEMMA QueuedIs ==
  ASSUME QueueInv
  PROVE  QueuedOn(0) = Queued
<1>1. \A t \in Task : stage[t] = "queued" => \E p \in Priority : InQueue(queues[0][p], t)
  BY OneCore, QueueAssumption DEF QueueInv, QueuesOK
<1>2. \A t \in Task, p \in Priority : InQueue(queues[0][p], t) => stage[t] = "queued"
  BY OneCore DEF QueueInv, QueuesOK
<1> QED
  BY <1>1, <1>2 DEF QueuedOn, InQueue, Queued

\* There are finitely many of each.
LEMMA CountsFinite ==
  /\ IsFiniteSet(Queued) /\ Cardinality(Queued) \in Nat
  /\ IsFiniteSet(Announcing) /\ Cardinality(Announcing) \in Nat
  /\ IsFiniteSet(Coming) /\ Cardinality(Coming) \in Nat
<1>1. IsFiniteSet(Worker)
  BY FS_Interval, WorkersAssumption DEF Worker
<1>2. IsFiniteSet(Queued) /\ IsFiniteSet(Announcing) /\ IsFiniteSet(Coming)
  BY <1>1, WorkloadAssumption, FS_Subset DEF Queued, Announcing, Coming
<1> QED
  BY <1>2, FS_CardinalityType

Balanced == Cardinality(Queued) <= Cardinality(Announcing) + Cardinality(Coming)

\* Every step keeps the balance while a worker waits: a job comes with its
\* announcement, which turns into a worker on its way when somebody waits, and
\* such a worker takes a job, or finds none and waits itself.
LEMMA NextBalanced ==
  ASSUME QueueInv, Waiting(0) # {} => Balanced, [Next]_vars, Waiting(0)' # {}
  PROVE  Balanced'
<1>0. /\ sub \in [Task -> {"idle", "done"} \cup InSubmit]
      /\ pc \in [Worker -> {"lock", "scan", "block", "waiting", "body", "exited"}]
      /\ stage \in [Task -> {"none", "queued", "body", "done"}]
  BY DEF QueueInv, QueueTypeOK
<1>1. ASSUME NEW t \in Task, SubmitPush(t) PROVE Balanced'
  <2>1. stage[t] = "none" /\ sub[t] = "idle"
    BY <1>1 DEF SubmitPush, MaySubmit, QueueInv, SubStage
  <2>2. /\ Queued' = Queued \cup {t} /\ t \notin Queued
        /\ Announcing' = Announcing \cup {t} /\ t \notin Announcing
        /\ Coming' = Coming /\ Waiting(0) # {}
    BY <1>0, <1>1, <2>1 DEF SubmitPush, Push, Queued, Announcing, Coming, Waiting
  <2>3. /\ Cardinality(Queued') = Cardinality(Queued) + 1
        /\ Cardinality(Announcing') = Cardinality(Announcing) + 1
    BY <2>2, CountsFinite, FS_AddElement
  <2> QED
    BY <2>2, <2>3, CountsFinite DEF Balanced
<1>2. ASSUME NEW t \in Task, SubmitNotify(t) PROVE Balanced'
  <2>1. PICK w \in Waiting(0) : pc' = [pc EXCEPT ![w] = "lock"]
    BY <1>2 DEF SubmitNotify, Notify, NotifyOne, Waiting
  <2>2. /\ Queued' = Queued
        /\ Announcing' = Announcing \ {t} /\ t \in Announcing
        /\ Coming' = Coming \cup {w} /\ w \notin Coming
    BY <1>0, <1>2, <2>1 DEF SubmitNotify, Notify, Queued, Announcing, Coming, Waiting
  <2>3. /\ Cardinality(Announcing') = Cardinality(Announcing) - 1
        /\ Cardinality(Coming') = Cardinality(Coming) + 1
    BY <2>2, CountsFinite, FS_AddElement, FS_RemoveElement
  <2> QED
    BY <2>1, <2>2, <2>3, CountsFinite DEF Balanced
<1>3. ASSUME NEW w \in Worker, Take(w) PROVE Balanced'
  <2>1. PICK t \in Task :
          /\ stage[t] = "queued" /\ stage' = [stage EXCEPT ![t] = "body"]
          /\ pc[w] = "scan" /\ pc' = [pc EXCEPT ![w] = "body"] /\ UNCHANGED sub
    BY <1>3, TakeFinds DEF Take
  <2>2. /\ Queued' = Queued \ {t} /\ t \in Queued
        /\ Coming' = Coming \ {w} /\ w \in Coming
        /\ Announcing' = Announcing /\ Waiting(0) # {}
    BY <1>0, <2>1 DEF Queued, Announcing, Coming, Waiting
  <2>3. /\ Cardinality(Queued') = Cardinality(Queued) - 1
        /\ Cardinality(Coming') = Cardinality(Coming) - 1
    BY <2>2, CountsFinite, FS_RemoveElement
  <2> QED
    BY <2>2, <2>3, CountsFinite DEF Balanced
<1>4. ASSUME NEW w \in Worker, Lock(w) PROVE Balanced'
  <2>1. UNCHANGED <<Queued, Announcing, Coming>> /\ Waiting(0) # {}
    BY <1>0, <1>4 DEF Lock, GoTo, taskVars, Queued, Announcing, Coming, Waiting
  <2> QED
    BY <2>1 DEF Balanced
<1>5. ASSUME NEW w \in Worker, FinishBody(w) \/ SpuriousWake(w) PROVE Balanced'
  <2>1. /\ pc[w] \in {"body", "waiting"} /\ pc' = [pc EXCEPT ![w] = "lock"] /\ UNCHANGED sub
        /\ \A t \in Task : stage'[t] = "queued" <=> stage[t] = "queued"
    BY <1>0, <1>5 DEF FinishBody, SpuriousWake, GoTo, taskVars, QueueInv, HeldOnce
  <2>2. /\ Queued' = Queued /\ Announcing' = Announcing /\ Waiting(0) # {}
        /\ Coming' = Coming \cup {w} /\ w \notin Coming
    BY <1>0, <2>1 DEF Queued, Announcing, Coming, Waiting
  <2>3. Cardinality(Coming') = Cardinality(Coming) + 1
    BY <2>2, CountsFinite, FS_AddElement
  <2> QED
    BY <2>2, <2>3, CountsFinite DEF Balanced
<1>6. ASSUME NEW w \in Worker, Stop(w) \/ GoOn(w) \/ Block(w) PROVE Balanced'
  <2>1. Dry(0)
    BY <1>6, OneCore DEF Stop, GoOn, Block, GoTo, QueueInv, MutexOK
  <2>2. Queued = {}
    BY <2>1, OneCore, DryEmpty, QueuedIs
  <2>3. Queued' = {} /\ UNCHANGED Announcing
    BY <1>6, <2>2 DEF Stop, GoOn, Block, GoTo, taskVars, Queued, Announcing
  <2>4. Cardinality(Queued') = 0
    BY <2>3, FS_EmptySet
  <2>5. Cardinality(Announcing') \in Nat /\ Cardinality(Coming') \in Nat
    <3>1. IsFiniteSet(Worker)
      BY FS_Interval, WorkersAssumption DEF Worker
    <3>2. IsFiniteSet(Coming')
      BY <3>1, FS_Subset DEF Coming
    <3> QED
      BY <2>3, <3>2, CountsFinite, FS_CardinalityType
  <2> QED
    BY <2>4, <2>5 DEF Balanced
<1>7. ASSUME ShutdownNotify PROVE Balanced'
  <2>1. notified = 0
    BY <1>7, OneQueueAssumption DEF ShutdownNotify, QueueInv, QueueTypeOK, DownOK
  <2>2. Waiting(0)' = {}
    BY <1>7, <2>1 DEF ShutdownNotify, NotifyAll, Waiting
  <2> QED
    BY <2>2
<1>8. ASSUME ShutdownFlag \/ ShutdownJoin \/ UNCHANGED vars PROVE Balanced'
  <2>1. UNCHANGED <<Queued, Announcing, Coming>> /\ Waiting(0) # {}
    BY <1>8 DEF ShutdownFlag, ShutdownJoin, vars, queueVars, taskVars, Queued, Announcing,
                Coming, Waiting
  <2> QED
    BY <2>1 DEF Balanced
<1> QED
  BY <1>1, <1>2, <1>3, <1>4, <1>5, <1>6, <1>7, <1>8 DEF Next, WorkerNext, Loop

(***************************************************************************)
(* For any number of workers, tasks and submitters: while a worker waits   *)
(* on cv_, every job in the queue has a notify_one() to come or a worker   *)
(* on its way to the queue to itself, so no notification is lost or has to *)
(* do for two jobs.                                                        *)
(***************************************************************************)
THEOREM NotifyKept == Spec => []NoLostNotify
<1>1. Init => (Waiting(0) # {} => Balanced)
  BY DEF Init, QueueInit, Waiting
<1>2. QueueInv /\ (Waiting(0) # {} => Balanced) /\ [Next]_vars => (Waiting(0) # {} => Balanced)'
  BY NextBalanced
<1>3. QueueInv /\ (Waiting(0) # {} => Balanced) => NoLostNotify
  BY QueuedIs DEF NoLostNotify, Balanced
<1> QED
  BY <1>1, <1>2, <1>3, Inductive, PTL DEF Spec

-----------------------------------------------------------------------------
\* The last worker to leave has seen the queue empty, and what is pushed
\* later is late: its submitter does not run on a worker of the pool.
LastDrains ==
  \A t \in Task : stage[t] = "queued" /\ t \notin late => \E w \in Worker : pc[w] # "exited"

\* No step leaves a job that is not late to a pool without workers.
LEMMA NextDrains ==
  ASSUME QueueInv, LastDrains, [Next]_vars
  PROVE  LastDrains'
<1>0. pc \in [Worker -> {"lock", "scan", "block", "waiting", "body", "exited"}]
  BY DEF QueueInv, QueueTypeOK
<1>1. ASSUME NEW t \in Task, SubmitPush(t) PROVE LastDrains'
  <2>1. UNCHANGED pc /\ late \subseteq late' /\ (IsLate(t) => t \in late')
    BY <1>1 DEF SubmitPush, Push
  <2>2. ~IsLate(t) => \E w \in Worker : pc[w] # "exited"
    <3>1. CASE Nested(t)
      <4>1. PICK w \in Worker : job[w] = Submitter[t]
        BY <1>1, <3>1 DEF SubmitPush, MaySubmit, Nested, QueueInv, HeldOnce
      <4>2. pc[w] = "body"
        BY <3>1, <4>1, WorkloadAssumption DEF Nested, QueueInv, HeldOnce
      <4> QED
        BY <4>2
    <3>2. CASE ~Nested(t)
      <4>1. 0 \in Worker
        BY WorkersAssumption DEF Worker
      <4> QED
        BY <3>2, <4>1 DEF IsLate, QueueInv, DownOK
    <3> QED
      BY <3>1, <3>2
  <2>3. \A u \in Task \ {t} : stage'[u] = stage[u]
    BY <1>1 DEF SubmitPush, Push, QueueInv, QueueTypeOK
  <2> QED
    BY <2>1, <2>2, <2>3 DEF LastDrains
<1>2. ASSUME NEW w \in Worker, pc'[w] # "exited" PROVE LastDrains'
  BY <1>2 DEF LastDrains
<1>3. ASSUME NEW w \in Worker,
             \/ Lock(w) \/ Take(w) \/ FinishBody(w) \/ SpuriousWake(w) \/ GoOn(w) \/ Block(w)
      PROVE  LastDrains'
  BY <1>0, <1>2, <1>3 DEF Lock, Take, FinishBody, SpuriousWake, GoOn, Block, GoTo
<1>4. ASSUME NEW w \in Worker, Stop(w) PROVE LastDrains'
  <2>1. \A t \in Task : stage[t] # "queued"
    BY <1>4, OneCore, DryEmpty DEF Stop, QueueInv, QueuesOK
  <2> QED
    BY <1>4, <2>1 DEF LastDrains, Stop, GoTo, taskVars
<1>5. ASSUME UNCHANGED <<stage, late>>, \A w \in Worker : pc[w] # "exited" => pc'[w] # "exited"
      PROVE  LastDrains'
  BY <1>5 DEF LastDrains
<1>6. ASSUME NEW t \in Task, SubmitNotify(t) PROVE LastDrains'
  <2>1. Woken
    BY <1>6, OneCore, NotifyInv DEF SubmitNotify
  <2> QED
    BY <1>5, <1>6, <2>1 DEF SubmitNotify, Notify, Woken
<1>7. ASSUME ShutdownNotify PROVE LastDrains'
  BY <1>0, <1>5, <1>7 DEF ShutdownNotify, NotifyAll, taskVars
<1>8. ASSUME ShutdownFlag \/ ShutdownJoin \/ UNCHANGED vars PROVE LastDrains'
  BY <1>5, <1>8 DEF ShutdownFlag, ShutdownJoin, vars, queueVars, taskVars
<1> QED
  BY <1>1, <1>3, <1>4, <1>6, <1>7, <1>8 DEF Next, WorkerNext, Loop

\* Every step is one of the contract's, or none.
LEMMA NextSim ==
  ASSUME QueueInv, LastDrains, [Next]_vars
  PROVE  [Pool!Next]_(Pool!vars)
<1>1. ASSUME NEW t \in Task, SubmitPush(t) PROVE [Pool!Next]_(Pool!vars)
  BY <1>1, OneCore, SimPush DEF SubmitPush, MaySubmit, Pool!Next
<1>2. ASSUME NEW t \in Task, SubmitNotify(t) PROVE [Pool!Next]_(Pool!vars)
  BY <1>2, SimStutter DEF SubmitNotify, Notify, downVars
<1>3. ASSUME NEW w \in Worker, Take(w) \/ FinishBody(w) PROVE [Pool!Next]_(Pool!vars)
  BY <1>3, SimTake, SimFinish DEF Pool!Next
<1>4. ASSUME NEW w \in Worker, Lock(w) \/ Stop(w) \/ GoOn(w) \/ Block(w) \/ SpuriousWake(w)
      PROVE  [Pool!Next]_(Pool!vars)
  BY <1>4, SimStutter DEF Lock, Stop, GoOn, Block, SpuriousWake, GoTo, taskVars, downVars
<1>5. ASSUME ShutdownFlag \/ ShutdownNotify \/ ShutdownJoin PROVE [Pool!Next]_(Pool!vars)
  BY <1>5, SimShutdown DEF LastDrains, Pool!Next
<1>6. CASE UNCHANGED vars
  BY <1>6, SimStutter DEF vars, queueVars, taskVars, downVars
<1> QED
  BY <1>1, <1>2, <1>3, <1>4, <1>5, <1>6 DEF Next, WorkerNext, Loop

(***************************************************************************)
(* The global queue keeps the contract of a Scheduler: each task is run    *)
(* once, and shutdown() returns only when all but the late tasks are done. *)
(* (That shutdown() returns at all is another question.)                   *)
(***************************************************************************)
THEOREM KeepsContract == Spec => Refines
<1>1. Init => Pool!Init /\ LastDrains
  BY SimInit DEF Init, QueueInit, LastDrains
<1>2. QueueInv /\ LastDrains /\ [Next]_vars => LastDrains' /\ [Pool!Next]_(Pool!vars)
  BY NextDrains, NextSim
<1> QED
  BY <1>1, <1>2, Inductive, PTL DEF Spec, Refines, Pool!Spec
=============================================================================
