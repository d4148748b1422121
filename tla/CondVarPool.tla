----------------------------- MODULE CondVarPool -----------------------------
(***************************************************************************)
(* The part that GlobalQueueScheduler and ThreadPerCoreScheduler have in   *)
(* common: queues, each with a mutex and a condition variable that its     *)
(* workers wait on.  The global queue is one such queue for all workers, a *)
(* core of the thread-per-core scheduler is one with a worker of its own,  *)
(* split by priority.  A step is a critical section, or one access to      *)
(* shared state outside of one; shutdown_flag_ is an atomic that           *)
(* shutdown() sets without a mutex.                                        *)
(*                                                                         *)
(* An operator Bug_... is the definition after it with a plausible mistake *)
(* in it; no specification uses one.  The properties are shown to notice.  *)
(***************************************************************************)
EXTENDS Workload, Sequences

CONSTANTS
  num_cores,        \* the number of queues
  Home,             \* the queue each worker serves
  kPriorityCount,   \* 3 in the code
  Prio              \* opts.priority of each task

Core == 0 .. (num_cores - 1)
Priority == 0 .. (kPriorityCount - 1)

ASSUME QueueAssumption ==
  /\ num_cores \in Nat \ {0}
  /\ Home \in [Worker -> Core]
  /\ kPriorityCount \in Nat \ {0}
  /\ Prio \in [Task -> Priority]

VARIABLES
  queues,           \* of each core, by priority
  shutdown_flag_,
  pc,               \* where each worker is in worker_loop
  job,              \* the task in its hand
  sub,              \* how far the submit() call of each task has come
  stage,            \* how far each task has come
  late,             \* the tasks shutdown() does not promise to run
  down,             \* how far the shutdown() call has come
  notified          \* how many cores its loop has notified

taskVars == <<sub, stage, late>>
downVars == <<down, notified>>
queueVars == <<queues, shutdown_flag_, pc, job, taskVars, downVars>>

InSubmit == {"placed", "pushed"}

QueueTypeOK ==
  /\ queues \in [Core -> [Priority -> Seq(Task)]]
  /\ shutdown_flag_ \in BOOLEAN
  /\ pc \in [Worker -> {"lock", "scan", "block", "waiting", "body", "exited"}]
  /\ job \in [Worker -> Task \cup {NoTask}]
  /\ sub \in [Task -> {"idle", "done"} \cup InSubmit]
  /\ stage \in [Task -> {"none", "queued", "body", "done"}]
  /\ late \in SUBSET Task
  /\ down \in {"no", "notifying", "joining", "returned"}
  /\ notified \in 0 .. num_cores

QueueInit ==
  /\ queues = [c \in Core |-> [p \in Priority |-> << >>]]
  /\ shutdown_flag_ = FALSE
  /\ pc = [w \in Worker |-> "lock"]
  /\ job = [w \in Worker |-> NoTask]
  /\ sub = [t \in Task |-> "idle"]
  /\ stage = [t \in Task |-> "none"]
  /\ late = {}
  /\ down = "no"
  /\ notified = 0

-----------------------------------------------------------------------------
(***************************************************************************)
(* submit(), once the queue is known.                                      *)
(***************************************************************************)

\* A thread makes one call at a time, and a task's body only while it runs.
MaySubmit(t) ==
  /\ sub[t] = "idle"
  /\ Nested(t) => stage[Submitter[t]] = "body"
  /\ \A u \in Task : Submitter[u] = Submitter[t] => sub[u] \notin InSubmit

\* A worker keeps its queue's mutex from Lock until it has a job, stops or waits.
Unlocked(c) == \A w \in Worker : Home[w] = c => pc[w] \notin {"scan", "block"}

IsLate(t) == IF Nested(t) THEN Submitter[t] \in late ELSE shutdown_flag_

Push(t, c) ==
  /\ Unlocked(c)
  /\ queues' = [queues EXCEPT ![c][Prio[t]] = Append(@, t)]
  /\ sub' = [sub EXCEPT ![t] = "pushed"]
  /\ stage' = [stage EXCEPT ![t] = "queued"]
  /\ late' = IF IsLate(t) THEN late \cup {t} ELSE late
  /\ UNCHANGED <<shutdown_flag_, pc, job, downVars>>

Waiting(c) == {w \in Worker : Home[w] = c /\ pc[w] = "waiting"}

QueuedOn(c) == {t \in Task : \E p \in Priority : \E i \in DOMAIN queues[c][p] : queues[c][p][i] = t}

\* Only a job that comes to an empty queue is announced.
Bug_NotifyFirst(c) ==
  IF Cardinality(QueuedOn(c)) > 1 \/ Waiting(c) = {}
    THEN UNCHANGED pc
    ELSE \E w \in Waiting(c) : pc' = [pc EXCEPT ![w] = "lock"]

\* The notification is forgotten.
Bug_NotifyNone(c) == UNCHANGED pc

\* cv.notify_one(): any one waiter goes back to the mutex, if there is one.
NotifyOne(c) ==
  \/ \E w \in Waiting(c) : pc' = [pc EXCEPT ![w] = "lock"]
  \/ Waiting(c) = {} /\ UNCHANGED pc

\* cv.notify_all()
NotifyAll(c) == pc' = [w \in Worker |-> IF w \in Waiting(c) THEN "lock" ELSE pc[w]]

Notify(t, c) ==
  /\ sub[t] = "pushed"
  /\ NotifyOne(c)
  /\ sub' = [sub EXCEPT ![t] = "done"]
  /\ UNCHANGED <<queues, shutdown_flag_, job, stage, late, downVars>>

-----------------------------------------------------------------------------
(***************************************************************************)
(* worker_loop.                                                            *)
(***************************************************************************)

GoTo(w, from, to) ==
  /\ pc[w] = from
  /\ pc' = [pc EXCEPT ![w] = to]
  /\ UNCHANGED <<queues, shutdown_flag_, job, taskVars, downVars>>

Lock(w) == Unlocked(Home[w]) /\ GoTo(w, "lock", "scan")

\* The queues are scanned in kPriorityOrder.
First(c, p) ==
  /\ queues[c][p] # << >>
  /\ \A q \in Priority : q < p => queues[c][q] = << >>

Take(w) ==
  /\ pc[w] = "scan"
  /\ \E p \in Priority :
       LET c == Home[w]
           t == Head(queues[c][p])
       IN  /\ First(c, p)
           /\ queues' = [queues EXCEPT ![c][p] = Tail(@)]
           /\ job' = [job EXCEPT ![w] = t]
           /\ stage' = [stage EXCEPT ![t] = "body"]
  /\ pc' = [pc EXCEPT ![w] = "body"]
  /\ UNCHANGED <<shutdown_flag_, sub, late, downVars>>

\* The worker looks only at the flag.
Bug_DryUnchecked(c) == TRUE

Dry(c) == \A p \in Priority : queues[c][p] = << >>

Stop(w) == Dry(Home[w]) /\ shutdown_flag_ /\ GoTo(w, "scan", "exited")

\* The flag was not set when the worker read it ...
GoOn(w) == Dry(Home[w]) /\ ~shutdown_flag_ /\ GoTo(w, "scan", "block")

\* ... cv.wait(lock) releases the mutex and starts to wait in one step.
Block(w) == GoTo(w, "block", "waiting")

\* A condition variable may wake a thread for no reason.
SpuriousWake(w) == GoTo(w, "waiting", "lock")

\* The body returns, once its submit() and join() calls have returned.
FinishBody(w) ==
  /\ pc[w] = "body"
  /\ \A u \in Children(job[w]) : sub[u] = "done"
  /\ \A a \in Awaits[job[w]] : stage[a] = "done"
  /\ stage' = [stage EXCEPT ![job[w]] = "done"]
  /\ job' = [job EXCEPT ![w] = NoTask]
  /\ pc' = [pc EXCEPT ![w] = "lock"]
  /\ UNCHANGED <<queues, shutdown_flag_, sub, late, downVars>>

Loop(w) ==
  Lock(w) \/ Take(w) \/ Stop(w) \/ GoOn(w) \/ Block(w) \/ FinishBody(w)

-----------------------------------------------------------------------------
(***************************************************************************)
(* shutdown(), called by one thread outside the pool.                      *)
(***************************************************************************)

ShutdownFlag ==
  /\ down = "no"
  /\ shutdown_flag_' = TRUE
  /\ down' = "notifying"
  /\ UNCHANGED <<queues, pc, job, taskVars, notified>>

ShutdownNotify ==
  /\ down = "notifying"
  /\ NotifyAll(notified)
  /\ notified' = notified + 1
  /\ down' = IF notified' = num_cores THEN "joining" ELSE "notifying"
  /\ UNCHANGED <<queues, shutdown_flag_, job, taskVars>>

ShutdownJoin ==
  /\ down = "joining"
  /\ \A w \in Worker : pc[w] = "exited"
  /\ down' = "returned"
  /\ UNCHANGED <<queues, shutdown_flag_, pc, job, taskVars, notified>>

ShutdownRest == ShutdownNotify \/ ShutdownJoin

-----------------------------------------------------------------------------
(***************************************************************************)
(* The contract of the abstract class Scheduler: each job is run by one    *)
(* worker, once, and shutdown() "drains the queue, then joins all worker   *)
(* threads" (include/wss/global_queue_scheduler.hpp, 36-37): it returns    *)
(* only when all but the late tasks are finished.                          *)
(***************************************************************************)
Pool == INSTANCE TaskPool WITH
  phase <- [t \in Task |-> CASE stage[t] = "none" -> "unsubmitted"
                             [] stage[t] = "queued" -> "waiting"
                             [] stage[t] = "body" -> "running"
                             [] stage[t] = "done" -> "finished"],
  closing <- shutdown_flag_,
  closed <- (down = "returned")

Refines == Pool!Spec

(***************************************************************************)
(* README.md, 235: "Every task submitted to any of these schedulers        *)
(* eventually runs", if shutdown() had not been called before.             *)
(***************************************************************************)
TasksFinish ==
  \A t \in Task : (stage[t] # "none" /\ t \notin late) ~> stage[t] = "done"

(***************************************************************************)
(* include/wss/global_queue_scheduler.hpp, 36-37: shutdown() "joins all    *)
(* worker threads".                                                        *)
(***************************************************************************)
ShutdownReturns == shutdown_flag_ ~> down = "returned"

(***************************************************************************)
(* If no body joins, the one way for shutdown() to hang is a worker that   *)
(* has read the flag before it was set and is about to wait: if no worker  *)
(* is between the two then, all of them leave, whatever is in the queues   *)
(* and whoever submits.                                                    *)
(***************************************************************************)
ReturnsOutsideWindow ==
  [](shutdown_flag_ => \A w \in Worker : pc[w] # "block") => ShutdownReturns
=============================================================================
