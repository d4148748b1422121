---------------------------- MODULE DoorbellPool ----------------------------
(***************************************************************************)
(* The part that WorkStealingScheduler and FairScheduler have in common:   *)
(* submit() counts a job in pending, makes it findable and rings the       *)
(* doorbell; the job's wrapper takes it out of pending after its body and  *)
(* rings again; a worker that finds nothing stops when shutdown_flag is    *)
(* set and pending is zero, and sleeps on the doorbell otherwise.  The two *)
(* sources spell this out separately, line for line alike, and differ in   *)
(* where jobs are kept and how they are found, which their own modules     *)
(* add.  A step is one access to shared state.                             *)
(*                                                                         *)
(* An operator Bug_... is the definition after it with a plausible mistake *)
(* in it; no specification uses one.  The properties are shown to notice.  *)
(***************************************************************************)
EXTENDS IdleSignal

VARIABLES
  pending,         \* submitted and not yet settled
  shutdown_flag,
  pc,              \* where each worker is in its loop
  job,             \* the task in a worker's hand
  sub,             \* how far the submit() call of each task has come
  stage,           \* how far each task has come
  late,            \* the tasks shutdown() does not promise to run
  down             \* how far the shutdown() call has come

taskVars == <<sub, stage, late>>
poolVars == <<idleVars, pending, shutdown_flag, pc, job, taskVars, down>>

InSubmit == {"counted", "pushed", "bumped"}
Stage == {"none", "queued", "body", "published", "done"}

\* The places in the loop that both schedulers have.
CommonStep == {"snap", "body", "settle", "bump", "ring", "wait", "exited"}

PoolTypeOK(search) ==
  /\ IdleTypeOK
  /\ pending \in Nat
  /\ shutdown_flag \in BOOLEAN
  /\ pc \in [Worker -> CommonStep \cup search]
  /\ job \in [Worker -> Task \cup {NoTask}]
  /\ sub \in [Task -> {"idle", "done"} \cup InSubmit]
  /\ stage \in [Task -> Stage]
  /\ late \in SUBSET Task
  /\ down \in {"no", "flagged", "bumped", "joining", "returned"}

PoolInit ==
  /\ IdleInit
  /\ pending = 0
  /\ shutdown_flag = FALSE
  /\ pc = [w \in Worker |-> "snap"]
  /\ job = [w \in Worker |-> NoTask]
  /\ sub = [t \in Task |-> "idle"]
  /\ stage = [t \in Task |-> "none"]
  /\ late = {}
  /\ down = "no"

-----------------------------------------------------------------------------
(***************************************************************************)
(* submit(), called by a client thread or from the body of a task.         *)
(***************************************************************************)

\* A thread makes one call at a time, and a task's body only while it runs.
MaySubmit(t) ==
  /\ sub[t] = "idle"
  /\ Nested(t) => stage[Submitter[t]] = "body"
  /\ \A u \in Task : Submitter[u] = Submitter[t] => sub[u] \notin InSubmit

IsLate(t) == IF Nested(t) THEN Submitter[t] \in late ELSE shutdown_flag

\* The fetch_add is missing.
Bug_SubmitUncounted(t) ==
  /\ MaySubmit(t)
  /\ sub' = [sub EXCEPT ![t] = "counted"]
  /\ late' = IF IsLate(t) THEN late \cup {t} ELSE late
  /\ UNCHANGED <<idleVars, pending, shutdown_flag, pc, job, stage, down>>

SubmitCount(t) ==
  /\ MaySubmit(t)
  /\ pending' = pending + 1
  /\ sub' = [sub EXCEPT ![t] = "counted"]
  /\ late' = IF IsLate(t) THEN late \cup {t} ELSE late
  /\ UNCHANGED <<idleVars, shutdown_flag, pc, job, stage, down>>

\* The wrapped job is in a queue; which one is the scheduler's business.
SubmitQueued(t) ==
  /\ sub[t] = "counted"
  /\ sub' = [sub EXCEPT ![t] = "pushed"]
  /\ stage' = [stage EXCEPT ![t] = "queued"]
  /\ UNCHANGED <<idleVars, pending, shutdown_flag, pc, job, late, down>>

SubmitBump(t) ==
  /\ sub[t] = "pushed"
  /\ IdleBump
  /\ sub' = [sub EXCEPT ![t] = "bumped"]
  /\ UNCHANGED <<pending, shutdown_flag, pc, job, stage, late, down>>

SubmitRing(t) ==
  /\ sub[t] = "bumped"
  /\ IdleRing
  /\ sub' = [sub EXCEPT ![t] = "done"]
  /\ UNCHANGED <<pending, shutdown_flag, pc, job, stage, late, down>>

-----------------------------------------------------------------------------
(***************************************************************************)
(* The worker's loop around its search.                                    *)
(***************************************************************************)

\* The worker w goes on at s and nothing else happens.
GoTo(w, s) ==
  /\ pc' = [pc EXCEPT ![w] = s]
  /\ UNCHANGED <<idleVars, pending, shutdown_flag, job, taskVars, down>>

\* auto gen = idle.current(), then the search, which begins at s.
Snapshot(w, s) ==
  /\ pc[w] = "snap"
  /\ IdleCurrent(w)
  /\ pc' = [pc EXCEPT ![w] = s]
  /\ UNCHANGED <<pending, shutdown_flag, job, taskVars, down>>

\* The search has found t; the worker runs it.
Found(w, t) ==
  /\ pc' = [pc EXCEPT ![w] = "body"]
  /\ job' = [job EXCEPT ![w] = t]
  /\ stage' = [stage EXCEPT ![t] = "body"]
  /\ UNCHANGED <<idleVars, pending, shutdown_flag, sub, late, down>>

\* The task's own code returns or throws, once its submit() and join() calls
\* have returned; spawn()'s wrapper publishes the result.
FinishBody(w) ==
  /\ pc[w] = "body"
  /\ \A c \in Children(job[w]) : sub[c] = "done"
  /\ \A a \in Awaits[job[w]] : stage[a] \in {"published", "done"}
  /\ stage' = [stage EXCEPT ![job[w]] = "published"]
  /\ pc' = [pc EXCEPT ![w] = "settle"]
  /\ UNCHANGED <<idleVars, pending, shutdown_flag, job, sub, late, down>>

\* The wrapper of submit(): pending.fetch_sub(1), then notify().
Settle(w) ==
  /\ pc[w] = "settle"
  /\ pending' = pending - 1
  /\ stage' = [stage EXCEPT ![job[w]] = "done"]
  /\ job' = [job EXCEPT ![w] = NoTask]
  /\ pc' = [pc EXCEPT ![w] = "bump"]
  /\ UNCHANGED <<idleVars, shutdown_flag, sub, late, down>>

Bump(w) ==
  /\ pc[w] = "bump"
  /\ IdleBump
  /\ pc' = [pc EXCEPT ![w] = "ring"]
  /\ UNCHANGED <<pending, shutdown_flag, job, taskVars, down>>

\* The wrapper returns and the worker goes on at s.
Ring(w, s) ==
  /\ pc[w] = "ring"
  /\ IdleRing
  /\ pc' = [pc EXCEPT ![w] = s]
  /\ UNCHANGED <<pending, shutdown_flag, job, taskVars, down>>

\* The worker does not look at pending.
Bug_StopOnFlag == shutdown_flag

ShouldStop == shutdown_flag /\ pending = 0

\* The snapshot is taken after the search, when going to sleep.
Bug_SnapshotLate(w) ==
  /\ IdleCurrent(w)
  /\ pc' = [pc EXCEPT ![w] = IF ShouldStop THEN "exited" ELSE "wait"]
  /\ UNCHANGED <<pending, shutdown_flag, job, taskVars, down>>

\* Nothing was found: break out of the loop, or go to sleep.
StopOrWait(w) == GoTo(w, IF ShouldStop THEN "exited" ELSE "wait")

WaitBlock(w) ==
  /\ pc[w] = "wait"
  /\ w \notin asleep
  /\ IdleBlock(w)
  /\ UNCHANGED <<pending, shutdown_flag, pc, job, taskVars, down>>

WaitReturn(w) ==
  /\ pc[w] = "wait"
  /\ w \notin asleep
  /\ Advanced(w)
  /\ GoTo(w, "snap")

-----------------------------------------------------------------------------
(***************************************************************************)
(* shutdown(), called by one thread outside the pool.                      *)
(***************************************************************************)

ShutdownFlag ==
  /\ down = "no"
  /\ shutdown_flag' = TRUE
  /\ down' = "flagged"
  /\ UNCHANGED <<idleVars, pending, pc, job, taskVars>>

ShutdownBump ==
  /\ down = "flagged"
  /\ IdleBump
  /\ down' = "bumped"
  /\ UNCHANGED <<pending, shutdown_flag, pc, job, taskVars>>

ShutdownRing ==
  /\ down = "bumped"
  /\ IdleRing
  /\ down' = "joining"
  /\ UNCHANGED <<pending, shutdown_flag, pc, job, taskVars>>

\* shutdown() does not wait for the threads.
Bug_Detached == TRUE

AllExited == \A w \in Worker : pc[w] = "exited"

ShutdownJoin ==
  /\ down = "joining"
  /\ AllExited
  /\ down' = "returned"
  /\ UNCHANGED <<idleVars, pending, shutdown_flag, pc, job, taskVars>>

-----------------------------------------------------------------------------
\* The steps in which the scheduler's own state has no part.
SubmitNotify(t) == SubmitBump(t) \/ SubmitRing(t)

WorkerCommon(w) ==
  FinishBody(w) \/ Settle(w) \/ Bump(w) \/ WaitBlock(w) \/ WaitReturn(w)

ShutdownRest == ShutdownBump \/ ShutdownRing \/ ShutdownJoin

-----------------------------------------------------------------------------
Counted == {t \in Task : sub[t] # "idle" /\ stage[t] # "done"}

(***************************************************************************)
(* A task that was started and has not settled is in the hand of exactly   *)
(* one worker: no job is run twice, at the same time or later.             *)
(***************************************************************************)
HeldOnce ==
  /\ \A w \in Worker :
       /\ pc[w] = "body" <=> job[w] # NoTask /\ stage[job[w]] = "body"
       /\ pc[w] = "settle" <=> job[w] # NoTask /\ stage[job[w]] = "published"
       /\ job[w] # NoTask => pc[w] \in {"body", "settle"}
  /\ \A w, v \in Worker : job[w] = job[v] /\ job[w] # NoTask => w = v
  /\ \A t \in Task : stage[t] \in {"body", "published"} => \E w \in Worker : job[w] = t

(***************************************************************************)
(* pending counts the jobs that were submitted and have not settled: it    *)
(* covers a job before it can be found and until its body, nested submits  *)
(* included, is over.  It never wraps below zero.                          *)
(***************************************************************************)
PendingExact == pending = Cardinality(Counted)

(***************************************************************************)
(* The drain of shutdown(): a worker leaves its loop only when every job   *)
(* the contract covers has run, children that running tasks spawn after    *)
(* shutdown() was called included ("can never race a shutdown into         *)
(* stopping early", README.md, 123).                                       *)
(***************************************************************************)
DrainBeforeExit ==
  \A w \in Worker : pc[w] = "exited" => shutdown_flag /\ Counted \subseteq late

(***************************************************************************)
(* The snapshot-before-check pattern of idle_signal.hpp.  While a worker   *)
(* is in wait() with the current generation, each event it would have to   *)
(* react to has a notify() still to come: a job of the queues it searched, *)
(* or the moment when it should stop.  And a worker that sleeps through an *)
(* advance of the generation is about to be woken.                         *)
(***************************************************************************)
NoMissedWakeupFor(searched) ==
  \A w \in Worker : pc[w] = "wait" =>
    /\ ~Advanced(w) =>
         /\ \A t \in searched : sub[t] = "pushed"
         /\ ShouldStop => down = "flagged" \/ \E v \in Worker : pc[v] = "bump"
    /\ w \in asleep /\ Advanced(w) =>
         \/ down = "bumped"
         \/ \E v \in Worker : pc[v] = "ring"
         \/ \E t \in Task : sub[t] = "bumped"

\* The worker w is inside a body whose join() call cannot return yet.
Joining(w) ==
  /\ pc[w] = "body"
  /\ \A c \in Children(job[w]) : sub[c] = "done"
  /\ \E a \in Awaits[job[w]] : stage[a] \notin {"published", "done"}

\* No thread of the pool, and no call into it, can take another step.
Quiescent ==
  /\ \A w \in Worker : w \in asleep \/ pc[w] = "exited" \/ Joining(w)
  /\ \A t \in Task : sub[t] \notin InSubmit
  /\ down \notin {"flagged", "bumped"}

(***************************************************************************)
(* Work conservation: the pool does not come to rest with an idle worker   *)
(* and a job in a queue.  The job would wait for an unrelated notify(), or *)
(* for ever if the busy workers' bodies join it.  README.md, 235: "Every   *)
(* task submitted to any of these schedulers eventually runs".             *)
(***************************************************************************)
NoJobLeftBehind ==
  Quiescent /\ asleep # {} => \A t \in Task : stage[t] # "queued"

(***************************************************************************)
(* The contract of the abstract class Scheduler: every behaviour of the    *)
(* pool is one of TaskPool, where a task is submitted, started by one      *)
(* worker and finished in one step each, and shutdown() returns only when  *)
(* all but the late tasks are finished.                                    *)
(***************************************************************************)
Pool == INSTANCE TaskPool WITH
  phase <- [t \in Task |-> CASE sub[t] = "idle" -> "unsubmitted"
                             [] stage[t] \in {"body", "published"} -> "running"
                             [] stage[t] = "done" -> "finished"
                             [] OTHER -> "waiting"],
  closing <- shutdown_flag,
  closed <- (down = "returned")

Refines == Pool!Spec

(***************************************************************************)
(* Liveness: "every task submitted to any of these schedulers eventually   *)
(* runs" (README.md, 235), if shutdown() had not been called before: there *)
(* is always a later moment at which all of them are done.  (A task that   *)
(* has been submitted or done remains so; this is each task's ~>, in one   *)
(* formula.) ...                                                           *)
(***************************************************************************)
TasksFinish ==
  []<>(\A t \in Task : sub[t] # "idle" /\ t \notin late => stage[t] = "done")

(***************************************************************************)
(* ... and shutdown() "joins all worker threads": no worker oversleeps it, *)
(* if no client submits a job after the call.  A late job that joins its   *)
(* own child can find only one worker left, and block it.                  *)
(***************************************************************************)
ShutdownReturns == [](late = {}) => (shutdown_flag ~> down = "returned")
=============================================================================
