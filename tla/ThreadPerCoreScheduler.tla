----------------------- MODULE ThreadPerCoreScheduler -----------------------
(***************************************************************************)
(* src/thread_per_core_scheduler.cpp: a CondVarPool whose workers have a   *)
(* core each.  submit() chooses the core before it takes the core's mutex. *)
(***************************************************************************)
EXTENDS CondVarPool

CONSTANTS
  Hint,             \* opts.core_hint of each task, or NoHint
  NoHint

ASSUME PlacementAssumption ==
  /\ num_cores = num_workers
  /\ Home = [w \in Worker |-> w]
  /\ Hint \in [Task -> Nat \cup {NoHint}]
  /\ NoHint \notin Nat

VARIABLES
  next_,            \* the round-robin counter
  target            \* the core submit() chose for each task

placeVars == <<next_, target>>
vars == <<queueVars, placeVars>>

TypeOK ==
  /\ QueueTypeOK
  /\ next_ \in Nat
  /\ target \in [Task -> Core]

Init ==
  /\ QueueInit
  /\ next_ = 0
  /\ target = [t \in Task |-> 0]

-----------------------------------------------------------------------------
\* The number is used as it is.
Bug_Unwrapped(n) == n

Wrapped(n) == n % num_cores

Place(t) ==
  /\ MaySubmit(t)
  /\ target' = [target EXCEPT ![t] = Wrapped(IF Hint[t] = NoHint THEN next_ ELSE Hint[t])]
  /\ next_' = IF Hint[t] = NoHint THEN next_ + 1 ELSE next_
  /\ sub' = [sub EXCEPT ![t] = "placed"]
  /\ UNCHANGED <<queues, shutdown_flag_, pc, job, stage, late, downVars>>

\* The core is looked up anew whenever it is needed.
Bug_LookUpAgain(t) == next_ % num_cores

Destination(t) == target[t]

SubmitPush(t) ==
  /\ sub[t] = "placed"
  /\ Push(t, Destination(t))
  /\ UNCHANGED placeVars

SubmitNotify(t) ==
  /\ Notify(t, Destination(t))
  /\ UNCHANGED placeVars

SubmitRest(t) == SubmitPush(t) \/ SubmitNotify(t)

WorkerNext(w) == Loop(w) /\ UNCHANGED placeVars

Next ==
  \/ \E t \in Task : Place(t) \/ SubmitRest(t)
  \/ \E w \in Worker : WorkerNext(w) \/ (SpuriousWake(w) /\ UNCHANGED placeVars)
  \/ (ShutdownFlag \/ ShutdownRest) /\ UNCHANGED placeVars

Spec == Init /\ [][Next]_vars

(***************************************************************************)
(* Threads that can run do run, and a push that asks for a mutex again and *)
(* again gets it.  No thread may count on a spurious wake-up, and no       *)
(* client need submit anything or call shutdown().                         *)
(***************************************************************************)
Fairness ==
  /\ \A w \in Worker : WF_vars(WorkerNext(w))
  /\ \A t \in Task : SF_vars(SubmitRest(t)) /\ WF_vars(Nested(t) /\ Place(t))
  /\ WF_vars(ShutdownRest /\ UNCHANGED placeVars)

FairSpec == Spec /\ Fairness

-----------------------------------------------------------------------------
(***************************************************************************)
(* "A task is assigned to a core at submit time and never migrates         *)
(* afterward" (include/wss/thread_per_core_scheduler.hpp, 21-25): wherever *)
(* the task is found later, it is on the core submit() chose.              *)
(***************************************************************************)
NeverMigrates ==
  /\ \A c \in Core : \A t \in QueuedOn(c) : target[t] = c
  /\ \A w \in Worker : job[w] # NoTask => target[job[w]] = w

(***************************************************************************)
(* A job in a core's queue is on its way to being run: the core's worker   *)
(* waits on its condition variable only while the notify_one() of every    *)
(* job in its queues is still to come.                                     *)
(***************************************************************************)
NoLostNotify ==
  \A w \in Worker : pc[w] = "waiting" => \A t \in QueuedOn(w) : sub[t] = "pushed"

(***************************************************************************)
(* include/wss/thread_per_core_scheduler.hpp, 45-46: shutdown() "drains    *)
(* every core's queue, then joins all worker threads".                     *)
(***************************************************************************)
DrainsEveryQueue ==
  down = "returned" => \A t \in Task : stage[t] = "queued" => t \in late
=============================================================================
