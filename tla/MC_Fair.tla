------------------------------ MODULE MC_Fair ------------------------------
(***************************************************************************)
(* Instances of FairScheduler for TLC.                                     *)
(***************************************************************************)
EXTENDS FairScheduler, TLC

CONSTANTS t1, t2, t3, t4, t5, c1, heavy, light

\* A client submits t1, whose body spawns t2 and t4 and joins t2; the body of
\* t2 spawns t3 and that of t3 spawns t5.
TreeSubmitter == t1 :> c1 @@ t2 :> t1 @@ t3 :> t2 @@ t4 :> t1 @@ t5 :> t3
JoinFirst == [t \in Task |-> IF t = t1 THEN {t2} ELSE {}]

\* t3 is of the class light and gives no usable weight.
OneLight == [t \in Task |-> IF t = t3 THEN light ELSE heavy]
Weights == [t \in Task |-> IF t = t3 THEN 0 ELSE 4]

OneClient == [t \in Task |-> c1]
NoAwaits == [t \in Task |-> {}]
=============================================================================
