------------------------ MODULE GlobalQueueScheduler ------------------------
(***************************************************************************)
(* src/global_queue_scheduler.cpp: a CondVarPool with one queue that all   *)
(* workers serve.  submit() ignores its options, so the queue has a single *)
(* priority.                                                               *)
(***************************************************************************)
EXTENDS CondVarPool

ASSUME OneQueueAssumption == num_cores = 1 /\ kPriorityCount = 1

vars == queueVars

TypeOK == QueueTypeOK

Init == QueueInit

SubmitPush(t) == MaySubmit(t) /\ Push(t, 0)

SubmitNotify(t) == Notify(t, 0)

WorkerNext(w) == Loop(w)

Next ==
  \/ \E t \in Task : SubmitPush(t) \/ SubmitNotify(t)
  \/ \E w \in Worker : WorkerNext(w) \/ SpuriousWake(w)
  \/ ShutdownFlag \/ ShutdownNotify \/ ShutdownJoin

Spec == Init /\ [][Next]_vars

(***************************************************************************)
(* Threads that can run do run, and one that asks for the mutex again and  *)
(* again gets it.  No thread may count on a spurious wake-up, and no       *)
(* client need submit anything or call shutdown().                         *)
(***************************************************************************)
Fairness ==
  /\ \A w \in Worker : WF_vars(WorkerNext(w)) /\ SF_vars(Lock(w))
  /\ \A t \in Task : WF_vars(SubmitNotify(t)) /\ SF_vars(Nested(t) /\ SubmitPush(t))
  /\ WF_vars(ShutdownRest)

FairSpec == Spec /\ Fairness

-----------------------------------------------------------------------------
\* The submit() calls whose notify_one() is still to come.
Announcing == {t \in Task : sub[t] = "pushed"}

\* The workers that will look at the queue before they wait again.
Coming == {w \in Worker : pc[w] \in {"lock", "scan"}}

(***************************************************************************)
(* No submitted job waits next to a worker that nobody will wake: while a  *)
(* worker waits on cv_, every job in the queue has a notify_one() to come  *)
(* or a worker on its way to the queue to itself.  A worker in a body does *)
(* not count, since it may be waiting for that very job.  A notification   *)
(* that is lost, or one that stands for two jobs, would break this.        *)
(***************************************************************************)
NoLostNotify ==
  Waiting(0) # {} =>
    Cardinality(QueuedOn(0)) <= Cardinality(Announcing) + Cardinality(Coming)
=============================================================================
