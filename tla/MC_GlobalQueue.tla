--------------------------- MODULE MC_GlobalQueue ---------------------------
(***************************************************************************)
(* Instances of GlobalQueueScheduler for TLC.                              *)
(***************************************************************************)
EXTENDS GlobalQueueScheduler, TLC

CONSTANTS t1, t2, t3, c1, c2

\* Two clients; t2's body spawns t3 and does not join it.
MixedSubmitter == t1 :> c1 @@ t2 :> c2 @@ t3 :> t2
NoAwaits == [t \in Task |-> {}]

\* The same with one client and one task less.
ForkSubmitter == t2 :> c1 @@ t3 :> t2

\* All workers serve the one queue, and no task has a priority.
OneQueue == [w \in Worker |-> 0]
NoPriority == [t \in Task |-> 0]
=============================================================================
