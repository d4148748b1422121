------------------------------ MODULE TaskPool ------------------------------
(***************************************************************************)
(* The contract of the abstract class Scheduler (include/wss/scheduler.hpp)*)
(* as the backends' headers state it: a submitted task is run by exactly   *)
(* one worker, once; shutdown() "lets every already-submitted task run to  *)
(* completion, then joins all worker threads".                             *)
(*                                                                         *)
(* A task that a client submits after shutdown() was called is late, and   *)
(* so is everything a late task submits: the contract promises nothing     *)
(* about it.  A task submitted from the body of a task that is not late is *)
(* never late, whenever shutdown() is called.                              *)
(***************************************************************************)
EXTENDS Workload

VARIABLES
  phase,     \* [Task -> Phase]
  late,      \* the tasks shutdown() does not wait for
  closing,   \* shutdown() has been called
  closed     \* shutdown() has returned

vars == <<phase, late, closing, closed>>

Phase == {"unsubmitted", "waiting", "running", "finished"}

TypeOK ==
  /\ phase \in [Task -> Phase]
  /\ late \in SUBSET Task
  /\ closing \in BOOLEAN
  /\ closed \in BOOLEAN

Init ==
  /\ phase = [t \in Task |-> "unsubmitted"]
  /\ late = {}
  /\ closing = FALSE
  /\ closed = FALSE

IsLate(t) == IF Nested(t) THEN Submitter[t] \in late ELSE closing

Submit(t) ==
  /\ phase[t] = "unsubmitted"
  /\ Nested(t) => phase[Submitter[t]] = "running"
  /\ phase' = [phase EXCEPT ![t] = "waiting"]
  /\ late' = IF IsLate(t) THEN late \cup {t} ELSE late
  /\ UNCHANGED <<closing, closed>>

Start(t) ==
  /\ phase[t] = "waiting"
  /\ ~closed
  /\ phase' = [phase EXCEPT ![t] = "running"]
  /\ UNCHANGED <<late, closing, closed>>

Finish(t) ==
  /\ phase[t] = "running"
  /\ phase' = [phase EXCEPT ![t] = "finished"]
  /\ UNCHANGED <<late, closing, closed>>

Shutdown ==
  /\ ~closing
  /\ closing' = TRUE
  /\ UNCHANGED <<phase, late, closed>>

Return ==
  /\ closing /\ ~closed
  /\ \A t \in Task : phase[t] \in {"waiting", "running"} =>
                       phase[t] = "waiting" /\ t \in late
  /\ closed' = TRUE
  /\ UNCHANGED <<phase, late, closing>>

Next ==
  \/ \E t \in Task : Submit(t) \/ Start(t) \/ Finish(t)
  \/ Shutdown
  \/ Return

Spec == Init /\ [][Next]_vars
=============================================================================
