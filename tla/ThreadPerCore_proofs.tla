------------------------ MODULE ThreadPerCore_proofs ------------------------
(***************************************************************************)
(* Proofs about ThreadPerCoreScheduler, from the ones of                   *)
(* CondVarPool_proofs.                                                     *)
(***************************************************************************)
EXTENDS ThreadPerCoreScheduler, CondVarPool_proofs

\* Each worker is its core's only one.
LEMMA OwnCores == Core = Worker /\ \A w \in Worker : Home[w] = w
BY PlacementAssumption DEF Core, Worker

\* Any number is wrapped to a core.
LEMMA WrappedCore == \A n \in Nat : Wrapped(n) \in Core
<1> SUFFICES ASSUME NEW n \in Nat PROVE n % num_cores \in 0 .. (num_cores - 1)
  BY DEF Wrapped, Core
<1> QED
  BY QueueAssumption

\* While a body submits a task, the body runs: it waits for the call.
CallsOpen ==
  \A t \in Task : sub[t] = "placed" /\ Nested(t) => stage[Submitter[t]] = "body"

PlaceInv ==
  /\ QueueInv
  /\ TypeOK
  /\ NeverMigrates
  /\ NoLostNotify
  /\ CallsOpen

-----------------------------------------------------------------------------
\* submit() chooses a core for a task that is nowhere yet.
LEMMA PlaceStep ==
  ASSUME PlaceInv, NEW t \in Task, Place(t)
  PROVE  PlaceInv'
<1> USE DEF PlaceInv
<1>1. /\ MaySubmit(t) /\ sub' = [sub EXCEPT ![t] = "placed"]
      /\ UNCHANGED <<queues, shutdown_flag_, pc, job, stage, late, down, notified>>
  BY DEF Place, downVars
<1>2. sub[t] = "idle" /\ stage[t] = "none"
  BY <1>1 DEF MaySubmit, QueueInv, SubStage
<1>3. QueueInv'
  <2>1. QueueTypeOK' /\ SubStage'
    BY <1>1, <1>2 DEF QueueInv, QueueTypeOK, SubStage, InSubmit
  <2> QED
    BY <1>1, <2>1 DEF QueueInv, HeldOnce, QueuesOK, MutexOK, DownOK, Dry
<1>4. TypeOK'
  <2> DEFINE n == IF Hint[t] = NoHint THEN next_ ELSE Hint[t]
  <2>1. n \in Nat
    BY PlacementAssumption DEF TypeOK
  <2>2. Wrapped(n) \in Core
    BY <2>1, WrappedCore
  <2>3. target' = [target EXCEPT ![t] = Wrapped(n)]
    BY DEF Place
  <2> HIDE DEF n
  <2>4. target' \in [Task -> Core]
    BY <2>2, <2>3 DEF TypeOK
  <2> QED
    BY <1>3, <2>4 DEF Place, TypeOK, QueueInv
<1>5. \A u \in Task \ {t} : target'[u] = target[u] /\ sub'[u] = sub[u]
  BY <1>1 DEF Place, TypeOK, QueueInv, QueueTypeOK
<1>6. \A c \in Core : QueuedOn(c)' = QueuedOn(c) /\ t \notin QueuedOn(c)
  <2>1. \A c \in Core, p \in Priority : ~InQueue(queues[c][p], t)
    BY <1>2 DEF QueueInv, QueuesOK
  <2> QED
    BY <1>1, <2>1 DEF QueuedOn, InQueue
<1>7. \A w \in Worker : job[w] # t
  BY <1>2, WorkloadAssumption DEF QueueInv, HeldOnce
<1>8. NeverMigrates'
  <2>1. \A c \in Core : \A u \in QueuedOn(c) : u \in Task
    BY DEF QueuedOn
  <2>2. \A w \in Worker : job[w] # NoTask => job[w] \in Task
    BY DEF QueueInv, QueueTypeOK
  <2> QED
    BY <1>1, <1>5, <1>6, <1>7, <2>1, <2>2 DEF NeverMigrates
<1>9. NoLostNotify'
  <2>1. \A c \in Core : \A u \in QueuedOn(c) : u \in Task
    BY DEF QueuedOn
  <2> QED
    BY <1>1, <1>5, <1>6, <2>1, OwnCores DEF NoLostNotify
<1>10. CallsOpen'
  BY <1>1, <1>5 DEF CallsOpen, MaySubmit
<1> QED
  BY <1>3, <1>4, <1>8, <1>9, <1>10

\* submit() pushes the task there, and its notify_one() is still to come.
LEMMA PushStep ==
  ASSUME PlaceInv, NEW t \in Task, SubmitPush(t)
  PROVE  PlaceInv'
<1> USE DEF PlaceInv
<1>1. PICK c \in Core : c = target[t]
  BY DEF TypeOK
<1>2. /\ sub[t] = "placed" /\ Push(t, c) /\ UNCHANGED <<next_, target>>
  BY <1>1 DEF SubmitPush, Destination, placeVars
<1>3. QueueInv'
  BY <1>2, PushInv
<1>4. TypeOK'
  BY <1>2, <1>3 DEF TypeOK, QueueInv
<1>5. \A d \in Core : QueuedOn(d)' \subseteq QueuedOn(d) \cup (IF d = c THEN {t} ELSE {})
  BY <1>2, QueuedChanges
<1>6. /\ sub'[t] = "pushed" /\ \A u \in Task \ {t} : sub'[u] = sub[u] /\ stage'[u] = stage[u]
      /\ stage[t] = "none" /\ UNCHANGED <<pc, job>>
  BY <1>2 DEF Push, QueueInv, QueueTypeOK, SubStage
<1>7. \A d \in Core : \A u \in QueuedOn(d) : u \in Task
  BY DEF QueuedOn
<1>8. NeverMigrates'
  BY <1>1, <1>2, <1>5, <1>6 DEF NeverMigrates
<1>9. NoLostNotify'
  BY <1>5, <1>6, <1>7, OwnCores DEF NoLostNotify
<1>10. CallsOpen'
  BY <1>6 DEF CallsOpen, Nested
<1> QED
  BY <1>3, <1>4, <1>8, <1>9, <1>10

\* The notify_one() reaches the core's worker if it waits.
LEMMA NotifyStep ==
  ASSUME PlaceInv, NEW t \in Task, SubmitNotify(t)
  PROVE  PlaceInv'
<1> USE DEF PlaceInv
<1>1. PICK c \in Core : c = target[t]
  BY DEF TypeOK
<1>2. Notify(t, c) /\ UNCHANGED <<next_, target>>
  BY <1>1 DEF SubmitNotify, Destination, placeVars
<1>3. QueueInv' /\ Woken
  BY <1>2, NotifyInv
<1>4. TypeOK'
  BY <1>2, <1>3 DEF TypeOK, QueueInv
<1>5. /\ UNCHANGED <<queues, job, stage>> /\ sub[t] = "pushed" /\ sub'[t] = "done"
      /\ \A u \in Task \ {t} : sub'[u] = sub[u]
      /\ \A d : QueuedOn(d)' = QueuedOn(d)
  BY <1>2 DEF Notify, QueueInv, QueueTypeOK, QueuedOn
<1>6. NeverMigrates'
  BY <1>2, <1>5 DEF NeverMigrates
<1>7. NoLostNotify'
  <2> SUFFICES ASSUME NEW w \in Worker, pc'[w] = "waiting", NEW u \in QueuedOn(w)
               PROVE  sub'[u] = "pushed"
    BY <1>5 DEF NoLostNotify
  <2>1. pc[w] = "waiting" /\ w \in Core /\ u \in Task
    BY <1>3, OwnCores DEF Woken, QueuedOn
  <2>2. pc'[c] # "waiting"
    <3>1. \A v \in Waiting(c) : v = c
      BY OwnCores DEF Waiting
    <3>2. c \in Worker /\ (pc[c] = "waiting" => c \in Waiting(c))
      BY OwnCores DEF Waiting
    <3> QED
      BY <1>2, <3>1, <3>2 DEF Notify, NotifyOne, QueueInv, QueueTypeOK
  <2>3. u # t
    BY <1>1, <2>1, <2>2 DEF NeverMigrates
  <2> QED
    BY <1>5, <2>1, <2>3 DEF NoLostNotify
<1>8. CallsOpen'
  BY <1>5 DEF CallsOpen
<1> QED
  BY <1>3, <1>4, <1>6, <1>7, <1>8

\* A worker waits when it has seen its queues empty, and takes jobs from them
\* only; a body that submits does not return.
LEMMA WorkerStep ==
  ASSUME PlaceInv, NEW w \in Worker, Loop(w) \/ SpuriousWake(w), UNCHANGED placeVars
  PROVE  PlaceInv'
<1> USE DEF PlaceInv
<1>1. QueueInv'
  BY GoToInv, TakeInv, FinishBodyInv DEF Loop
<1>2. TypeOK' /\ UNCHANGED target
  BY <1>1 DEF TypeOK, QueueInv, placeVars
<1>3. \A d \in Core : \A u \in QueuedOn(d) : u \in Task
  BY DEF QueuedOn
<1>4. CASE Lock(w) \/ Stop(w) \/ GoOn(w) \/ Block(w) \/ SpuriousWake(w)
  <2> USE DEF Lock, Stop, GoOn, Block, SpuriousWake, GoTo, taskVars, downVars
  <2>1. UNCHANGED <<queues, job, sub, stage>> /\ \A d : QueuedOn(d)' = QueuedOn(d)
    BY <1>4 DEF QueuedOn
  <2>2. \A v \in Worker : pc'[v] = "waiting" => pc[v] = "waiting" \/ (v = w /\ pc[w] = "block")
    BY <1>4 DEF QueueInv, QueueTypeOK
  <2>3. pc[w] = "block" => QueuedOn(w) = {}
    BY OwnCores, DryEmpty DEF QueueInv, MutexOK
  <2>4. NoLostNotify'
    BY <2>1, <2>2, <2>3 DEF NoLostNotify
  <2>5. NeverMigrates' /\ CallsOpen'
    BY <1>2, <2>1 DEF NeverMigrates, CallsOpen
  <2> QED
    BY <1>1, <1>2, <2>4, <2>5
<1>5. CASE Take(w)
  <2>1. /\ \A d \in Core : QueuedOn(d)' \subseteq QueuedOn(d)
        /\ \E t \in QueuedOn(w) : job' = [job EXCEPT ![w] = t]
    BY <1>5, OwnCores, QueuedChanges
  <2>2. PICK t \in QueuedOn(w) : job' = [job EXCEPT ![w] = t]
    BY <2>1
  <2>3. NeverMigrates'
    <3>1. target[t] = w
      BY OwnCores DEF NeverMigrates
    <3>2. job'[w] = t /\ \A v \in Worker \ {w} : job'[v] = job[v]
      BY <2>2 DEF QueueInv, QueueTypeOK
    <3> QED
      BY <1>2, <2>1, <3>1, <3>2 DEF NeverMigrates
  <2>4. NoLostNotify'
    <3>1. UNCHANGED sub /\ \A v \in Worker : pc'[v] = "waiting" => pc[v] = "waiting"
      BY <1>5 DEF Take, QueueInv, QueueTypeOK
    <3> QED
      BY <2>1, <3>1, OwnCores DEF NoLostNotify
  <2>5. CallsOpen'
    <3>1. PICK u \in Task : stage' = [stage EXCEPT ![u] = "body"]
      BY <1>5, TakeFinds
    <3> QED
      BY <1>5, <3>1 DEF Take, CallsOpen, Nested, QueueInv, QueueTypeOK
  <2> QED
    BY <1>1, <1>2, <2>3, <2>4, <2>5
<1>6. CASE FinishBody(w)
  <2>1. PICK t \in Task : /\ t = job[w] /\ stage' = [stage EXCEPT ![t] = "done"]
                          /\ \A u \in Children(t) : sub[u] = "done"
    BY <1>6 DEF FinishBody, QueueInv, HeldOnce
  <2>2. /\ job'[w] = NoTask /\ \A v \in Worker \ {w} : job'[v] = job[v] /\ pc'[v] = pc[v]
        /\ pc'[w] = "lock" /\ UNCHANGED <<queues, sub>> /\ \A d : QueuedOn(d)' = QueuedOn(d)
    BY <1>6 DEF FinishBody, QueueInv, QueueTypeOK, QueuedOn
  <2>3. NeverMigrates' /\ NoLostNotify'
    BY <1>2, <2>2 DEF NeverMigrates, NoLostNotify
  <2>4. CallsOpen'
    <3>1. \A u \in Task : Submitter[u] = t => sub[u] # "placed"
      BY <2>1 DEF Children
    <3>2. \A u \in Task \ {t} : stage'[u] = stage[u]
      BY <2>1 DEF QueueInv, QueueTypeOK
    <3> QED
      BY <2>2, <3>1, <3>2 DEF CallsOpen, Nested
  <2> QED
    BY <1>1, <1>2, <2>3, <2>4
<1> QED
  BY <1>4, <1>5, <1>6 DEF Loop

\* shutdown() wakes workers and touches no task.
LEMMA ShutdownStep ==
  ASSUME PlaceInv, ShutdownFlag \/ ShutdownRest, UNCHANGED placeVars
  PROVE  PlaceInv'
<1> USE DEF PlaceInv
<1>1. QueueInv'
  BY ShutdownInv DEF ShutdownRest
<1>2. TypeOK' /\ UNCHANGED target
  BY <1>1 DEF TypeOK, QueueInv, placeVars
<1>3. /\ UNCHANGED <<queues, job, sub, stage>> /\ \A d : QueuedOn(d)' = QueuedOn(d)
      /\ \A w \in Worker : pc'[w] = "waiting" => pc[w] = "waiting"
  BY DEF ShutdownFlag, ShutdownRest, ShutdownNotify, ShutdownJoin, NotifyAll, taskVars, QueuedOn
<1>4. NeverMigrates' /\ NoLostNotify' /\ CallsOpen'
  BY <1>2, <1>3 DEF NeverMigrates, NoLostNotify, CallsOpen
<1> QED
  BY <1>1, <1>2, <1>4

\* Every step keeps the invariant.
LEMMA NextInv == PlaceInv /\ [Next]_vars => PlaceInv'
<1> SUFFICES ASSUME PlaceInv, [Next]_vars PROVE PlaceInv'
  OBVIOUS
<1>1. CASE UNCHANGED vars
  <2>1. QueueInv'
    BY <1>1, StutterInv DEF PlaceInv, vars
  <2> QED
    BY <1>1, <2>1 DEF PlaceInv, vars, queueVars, taskVars, downVars, placeVars, TypeOK, QueueInv,
                      NeverMigrates, NoLostNotify, CallsOpen, QueuedOn
<1> QED
  BY <1>1, PlaceStep, PushStep, NotifyStep, WorkerStep, ShutdownStep
     DEF Next, SubmitRest, WorkerNext

\* So it holds whenever the scheduler runs.
LEMMA Inductive == Spec => []PlaceInv
<1>1. Init => PlaceInv
  <2> SUFFICES ASSUME Init PROVE PlaceInv
    OBVIOUS
  <2>1. QueueInv
    BY InitInv DEF Init
  <2>2. TypeOK
    <3>1. 0 \in Core
      BY QueueAssumption DEF Core
    <3> QED
      BY <2>1, <3>1 DEF Init, TypeOK, QueueInv
  <2>3. \A c \in Core : QueuedOn(c) = {}
    <3> SUFFICES ASSUME NEW c \in Core PROVE Dry(c)
      BY <2>1, DryEmpty
    <3> QED
      BY DEF Init, QueueInit, Dry
  <2>4. NeverMigrates /\ NoLostNotify /\ CallsOpen
    BY <2>3 DEF Init, QueueInit, NeverMigrates, NoLostNotify, CallsOpen
  <2> QED
    BY <2>1, <2>2, <2>4 DEF PlaceInv
<1> QED
  BY <1>1, NextInv, PTL DEF Spec

(***************************************************************************)
(* Every variable keeps its type; above all, submit() never chooses a core *)
(* that does not exist, whatever hint it is given.                         *)
(***************************************************************************)
THEOREM TypeCorrect == Spec => []TypeOK
BY Inductive, PTL DEF PlaceInv

(***************************************************************************)
(* include/wss/thread_per_core_scheduler.hpp, 21-25: once submit() has     *)
(* chosen a core for a task, the task is found nowhere else, for any       *)
(* number of cores and submitters.                                         *)
(***************************************************************************)
THEOREM StaysHome == Spec => []NeverMigrates
BY Inductive, PTL DEF PlaceInv

(***************************************************************************)
(* A core's worker waits on its condition variable only while the          *)
(* notify_one() of every job in its queues is still to come.               *)
(***************************************************************************)
THEOREM NotifyKept == Spec => []NoLostNotify
BY Inductive, PTL DEF PlaceInv

-----------------------------------------------------------------------------
(***************************************************************************)
(* The contract.  A core's worker leaves when its own queues are empty, so *)
(* a running task may still submit to a core that nobody serves any more   *)
(* (DrainsEveryQueue is violated).  The contract is kept when every task   *)
(* that a body submits has a core_hint for the core its submitter runs on. *)
(***************************************************************************)
ChildrenStay ==
  \A t \in Task : Nested(t) => /\ Hint[t] # NoHint /\ Hint[Submitter[t]] # NoHint
                               /\ Wrapped(Hint[t]) = Wrapped(Hint[Submitter[t]])

\* A hint is obeyed.
HintObeyed == \A t \in Task : sub[t] # "idle" /\ Hint[t] # NoHint => target[t] = Wrapped(Hint[t])

\* The worker of the core a task waits on has not left, unless it is late.
OwnerServes == \A t \in Task : stage[t] = "queued" /\ t \notin late => pc[target[t]] # "exited"

ServeInv == HintObeyed /\ OwnerServes

\* The core of a hint is fixed when submit() is called.
LEMMA NextHints ==
  ASSUME PlaceInv, HintObeyed, [Next]_vars
  PROVE  HintObeyed'
<1>1. sub \in [Task -> {"idle", "done"} \cup InSubmit] /\ target \in [Task -> Core]
  BY DEF PlaceInv, QueueInv, QueueTypeOK, TypeOK
<1>2. ASSUME NEW t \in Task, Place(t) PROVE HintObeyed'
  BY <1>1, <1>2 DEF Place, HintObeyed
<1>3. ASSUME NEW t \in Task, SubmitRest(t) PROVE HintObeyed'
  BY <1>1, <1>3 DEF SubmitRest, SubmitPush, SubmitNotify, Push, Notify, placeVars, HintObeyed, PlaceInv,
                    QueueInv, SubStage
<1>4. ASSUME UNCHANGED <<sub, target>> PROVE HintObeyed'
  BY <1>4 DEF HintObeyed
<1>5. ASSUME NEW w \in Worker, Loop(w) \/ SpuriousWake(w), UNCHANGED placeVars PROVE HintObeyed'
  BY <1>4, <1>5 DEF Loop, SpuriousWake, Lock, Take, Stop, GoOn, Block, FinishBody, GoTo, taskVars,
                    placeVars
<1>6. ASSUME ShutdownFlag \/ ShutdownRest, UNCHANGED placeVars PROVE HintObeyed'
  BY <1>4, <1>6 DEF ShutdownFlag, ShutdownRest, ShutdownNotify, ShutdownJoin, taskVars, placeVars
<1>7. CASE UNCHANGED vars
  BY <1>4, <1>7 DEF vars, queueVars, taskVars, placeVars
<1> QED
  BY <1>2, <1>3, <1>5, <1>6, <1>7 DEF Next, WorkerNext

\* A worker leaves when its core's queues are empty, and from then on only
\* clients can push to them.
LEMMA NextServes ==
  ASSUME ChildrenStay, PlaceInv, ServeInv, [Next]_vars
  PROVE  OwnerServes'
<1> USE DEF ServeInv
<1>1. /\ stage \in [Task -> {"none", "queued", "body", "done"}] /\ target \in [Task -> Core]
      /\ pc \in [Worker -> {"lock", "scan", "block", "waiting", "body", "exited"}]
      /\ \A t \in Task : target[t] \in Worker
  BY OwnCores DEF PlaceInv, QueueInv, QueueTypeOK, TypeOK
<1>2. ASSUME NEW t \in Task, Place(t) PROVE OwnerServes'
  <2>1. stage[t] = "none" /\ UNCHANGED <<stage, late, pc>>
    BY <1>2 DEF Place, MaySubmit, PlaceInv, QueueInv, SubStage
  <2>2. \A u \in Task \ {t} : target'[u] = target[u]
    BY <1>1, <1>2 DEF Place
  <2> QED
    BY <2>1, <2>2 DEF OwnerServes
<1>3. ASSUME NEW t \in Task, SubmitPush(t) PROVE OwnerServes'
  <2>1. /\ sub[t] = "placed" /\ UNCHANGED <<pc, target>>
        /\ \A u \in Task \ {t} : stage'[u] = stage[u]
        /\ late \subseteq late' /\ (IsLate(t) => t \in late')
    BY <1>1, <1>3 DEF SubmitPush, Push, placeVars
  <2>2. ~IsLate(t) => pc[target[t]] # "exited"
    <3>1. CASE Nested(t)
      <4>1. PICK s \in Task : s = Submitter[t] /\ stage[s] = "body"
        BY <2>1, <3>1 DEF PlaceInv, CallsOpen, Nested
      <4>2. PICK w \in Worker : job[w] = s
        BY <4>1 DEF PlaceInv, QueueInv, HeldOnce
      <4>3. pc[w] = "body" /\ target[s] = w
        BY <4>2, WorkloadAssumption DEF PlaceInv, QueueInv, HeldOnce, NeverMigrates
      <4>4. target[t] = target[s]
        BY <2>1, <3>1, <4>1 DEF ChildrenStay, HintObeyed, PlaceInv, QueueInv, SubStage
      <4> QED
        BY <4>3, <4>4
    <3>2. CASE ~Nested(t)
      BY <1>1, <3>2 DEF IsLate, PlaceInv, QueueInv, DownOK
    <3> QED
      BY <3>1, <3>2
  <2> QED
    BY <2>1, <2>2 DEF OwnerServes
<1>4. ASSUME UNCHANGED <<late, target>>,
             \A t \in Task : stage'[t] = "queued" => stage[t] = "queued",
             \A w \in Worker : pc'[w] = "exited" => pc[w] = "exited"
      PROVE  OwnerServes'
  BY <1>1, <1>4 DEF OwnerServes
<1>5. ASSUME NEW t \in Task, SubmitNotify(t) PROVE OwnerServes'
  <2>1. Woken
    <3>1. target[t] \in Core
      BY <1>1
    <3> QED
      BY <1>5, <3>1, NotifyInv DEF SubmitNotify, Destination, PlaceInv
  <2> QED
    BY <1>4, <1>5, <2>1 DEF SubmitNotify, Notify, placeVars, Woken
<1>6. ASSUME NEW w \in Worker, UNCHANGED placeVars,
             Lock(w) \/ GoOn(w) \/ Block(w) \/ SpuriousWake(w)
      PROVE  OwnerServes'
  BY <1>1, <1>4, <1>6 DEF Lock, GoOn, Block, SpuriousWake, GoTo, taskVars, placeVars
<1>7. ASSUME NEW w \in Worker, Take(w), UNCHANGED placeVars PROVE OwnerServes'
  <2>1. PICK t \in Task : stage' = [stage EXCEPT ![t] = "body"]
    BY <1>7, TakeFinds DEF PlaceInv
  <2> QED
    BY <1>1, <1>4, <1>7, <2>1 DEF Take, placeVars
<1>8. ASSUME NEW w \in Worker, FinishBody(w), UNCHANGED placeVars PROVE OwnerServes'
  BY <1>1, <1>4, <1>8 DEF FinishBody, placeVars, PlaceInv, QueueInv, HeldOnce
<1>9. ASSUME NEW w \in Worker, Stop(w), UNCHANGED placeVars PROVE OwnerServes'
  <2>1. /\ UNCHANGED <<stage, late, target>> /\ Dry(w)
        /\ \A v \in Worker \ {w} : pc'[v] = pc[v]
    BY <1>1, <1>9, OwnCores DEF Stop, GoTo, taskVars, placeVars
  <2>2. ASSUME NEW t \in Task, stage[t] = "queued" PROVE target[t] # w
    <3>1. PICK c \in Core : InQueue(queues[c][Prio[t]], t)
      BY <2>2 DEF PlaceInv, QueueInv, QueuesOK
    <3>2. c # w
      BY <2>1, <3>1, OwnCores, DryEmpty DEF PlaceInv
    <3>3. t \in QueuedOn(c)
      BY <3>1, QueueAssumption DEF QueuedOn, InQueue
    <3> QED
      BY <3>2, <3>3 DEF PlaceInv, NeverMigrates
  <2> QED
    BY <1>1, <2>1, <2>2 DEF OwnerServes
<1>10. ASSUME ShutdownFlag \/ ShutdownRest, UNCHANGED placeVars PROVE OwnerServes'
  BY <1>1, <1>4, <1>10 DEF ShutdownFlag, ShutdownRest, ShutdownNotify, ShutdownJoin, NotifyAll,
                           taskVars, placeVars
<1>11. CASE UNCHANGED vars
  BY <1>4, <1>11 DEF vars, queueVars, taskVars, placeVars
<1> QED
  BY <1>2, <1>3, <1>5, <1>6, <1>7, <1>8, <1>9, <1>10, <1>11 DEF Next, SubmitRest, WorkerNext, Loop

\* Every step is one of the contract's, or none.
LEMMA NextSim ==
  ASSUME PlaceInv, OwnerServes, [Next]_vars
  PROVE  [Pool!Next]_(Pool!vars)
<1> USE DEF PlaceInv
<1>1. ASSUME NEW t \in Task, Place(t) PROVE [Pool!Next]_(Pool!vars)
  BY <1>1, SimStutter DEF Place, downVars
<1>2. ASSUME NEW t \in Task, SubmitPush(t) PROVE [Pool!Next]_(Pool!vars)
  <2>1. /\ target[t] \in Core /\ sub[t] = "placed" /\ Push(t, target[t])
        /\ Nested(t) => stage[Submitter[t]] = "body"
    BY <1>2 DEF SubmitPush, Destination, TypeOK, CallsOpen
  <2>2. Pool!Submit(t)
    BY <2>1, SimPush
  <2> QED
    BY <2>2 DEF Pool!Next
<1>3. ASSUME NEW t \in Task, SubmitNotify(t) PROVE [Pool!Next]_(Pool!vars)
  BY <1>3, SimStutter DEF SubmitNotify, Notify, downVars
<1>4. ASSUME NEW w \in Worker, Take(w) \/ FinishBody(w) PROVE [Pool!Next]_(Pool!vars)
  BY <1>4, SimTake, SimFinish DEF Pool!Next
<1>5. ASSUME NEW w \in Worker, Lock(w) \/ Stop(w) \/ GoOn(w) \/ Block(w) \/ SpuriousWake(w)
      PROVE  [Pool!Next]_(Pool!vars)
  BY <1>5, SimStutter DEF Lock, Stop, GoOn, Block, SpuriousWake, GoTo, taskVars, downVars
<1>6. ASSUME ShutdownFlag \/ ShutdownRest PROVE [Pool!Next]_(Pool!vars)
  <2>1. (\A w \in Worker : pc[w] = "exited") => \A t \in Task : stage[t] = "queued" => t \in late
    BY OwnCores DEF OwnerServes, TypeOK
  <2> QED
    BY <1>6, <2>1, SimShutdown DEF ShutdownRest, Pool!Next
<1>7. CASE UNCHANGED vars
  BY <1>7, SimStutter DEF vars, queueVars, taskVars, downVars
<1> QED
  BY <1>1, <1>2, <1>3, <1>4, <1>5, <1>6, <1>7 DEF Next, SubmitRest, WorkerNext, Loop

(***************************************************************************)
(* If every task that a body submits is sent to the core of its submitter, *)
(* the scheduler keeps the contract of a Scheduler: shutdown() returns     *)
(* only when all but the late tasks are done.  The condition is what the   *)
(* code does not enforce.                                                  *)
(***************************************************************************)
THEOREM KeepsContract == ChildrenStay => (Spec => Refines)
<1> SUFFICES ASSUME ChildrenStay PROVE Spec => Refines
  OBVIOUS
<1>1. Init => Pool!Init /\ ServeInv
  BY SimInit DEF Init, QueueInit, ServeInv, HintObeyed, OwnerServes
<1>2. PlaceInv /\ ServeInv /\ [Next]_vars => ServeInv' /\ [Pool!Next]_(Pool!vars)
  BY NextHints, NextServes, NextSim DEF ServeInv
<1> QED
  BY <1>1, <1>2, Inductive, PTL DEF Spec, Refines, Pool!Spec

=============================================================================
