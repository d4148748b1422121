---------------------------- MODULE MC_TaskHandle ----------------------------
(***************************************************************************)
(* An instance of TaskHandle for TLC.                                      *)
(***************************************************************************)
EXTENDS TaskHandle, TLC

CONSTANTS t1, t2, c1, c2

\* t1's body spawns t2 and joins it; t2's handle is also copied to a client.
ParentChild == t1 :> c1 @@ t2 :> t1
JoinChild == t1 :> {t2} @@ t2 :> {}
Joins == {<<c1, t1>>, <<c2, t2>>}
=============================================================================
