--------------------------- MODULE MC_WorkStealing ---------------------------
(***************************************************************************)
(* Instances of WorkStealingScheduler for TLC.                             *)
(***************************************************************************)
EXTENDS WorkStealingScheduler, TLC

CONSTANTS t1, t2, t3, c1, c2

\* Two clients; t2's body spawns t3, which has the higher priority.
MixedSubmitter == t1 :> c1 @@ t2 :> c2 @@ t3 :> t2
MixedPrio == t1 :> 1 @@ t2 :> 1 @@ t3 :> 0
NoAwaits == [t \in Task |-> {}]

\* One client submits t1 and t2, which can be pulled as one batch; t2's body
\* spawns t3 and joins it.
ForkSubmitter == t1 :> c1 @@ t2 :> c1 @@ t3 :> t2
ForkAwaits == t1 :> {} @@ t2 :> {t3} @@ t3 :> {}

\* One client submits three tasks of one priority, so that they can be
\* pulled as one batch and fought over by the thieves.
BatchSubmitter == [t \in Task |-> c1]
OnePrio == [t \in Task |-> 0]

\* In addition t1 and t2 join t3.
BatchAwaits == t1 :> {t3} @@ t2 :> {t3} @@ t3 :> {}

\* t1 and t2 play the same part in the batch instances.
Interchangeable == Permutations({t1, t2})
=============================================================================
