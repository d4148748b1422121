------------------------------ MODULE Workload ------------------------------
(***************************************************************************)
(* What a scheduler of the wss library is asked to do.  The task bodies    *)
(* handed to wss::spawn are opaque closures; three facts about them are    *)
(* enough for every property of the schedulers:                            *)
(*   - who submits a task: a client thread, or the body of another task    *)
(*     (nested spawning, tests/basic_execution_test.cpp);                  *)
(*   - which other tasks the body joins before it returns;                 *)
(*   - that a body whose joins return eventually returns or throws.        *)
(* The pool itself is a number of worker threads, fixed at construction.   *)
(***************************************************************************)
EXTENDS Integers, FiniteSets

CONSTANTS
  Task,          \* the tasks that may ever be submitted
  NoTask,        \* "no job in hand"
  Client,        \* threads outside the pool that call spawn()
  Submitter,     \* who submits each task
  Awaits,        \* the tasks whose JoinHandle a body joins before returning
  num_workers    \* the constructor's argument

(***************************************************************************)
(* Every constructor throws std::invalid_argument for zero workers, so a   *)
(* pool that exists has at least one.                                      *)
(***************************************************************************)
ASSUME WorkersAssumption == num_workers \in Nat \ {0}

ASSUME WorkloadAssumption ==
  /\ IsFiniteSet(Task)
  /\ NoTask \notin Task
  /\ Task \cap Client = {}
  /\ Submitter \in [Task -> Task \cup Client]
  /\ Awaits \in [Task -> SUBSET Task]

Worker == 0 .. (num_workers - 1)

Children(t) == {c \in Task : Submitter[c] = t}

Nested(t) == Submitter[t] \in Task
=============================================================================
