-------------------------- MODULE MC_ThreadPerCore --------------------------
(***************************************************************************)
(* Instances of ThreadPerCoreScheduler for TLC.                            *)
(***************************************************************************)
EXTENDS ThreadPerCoreScheduler, TLC

CONSTANTS t1, t2, t3, c1, c2

\* Two clients; t2's body spawns t3.
MixedSubmitter == t1 :> c1 @@ t2 :> c2 @@ t3 :> t2
NoAwaits == [t \in Task |-> {}]
MixedPrio == t1 :> 1 @@ t2 :> 1 @@ t3 :> 0

\* The child is sent to its parent's core, by a hint that has to be wrapped;
\* the first task goes where the round-robin counter says.
SameCore == t1 :> NoHint @@ t2 :> 0 @@ t3 :> 2

\* Every task goes where the round-robin counter says.
RoundRobin == [t \in Task |-> NoHint]

\* Each worker has its own core.
OwnCore == [w \in Worker |-> w]
=============================================================================
