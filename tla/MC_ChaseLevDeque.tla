-------------------------- MODULE MC_ChaseLevDeque --------------------------
(***************************************************************************)
(* Instances of ChaseLevDeque for TLC.                                     *)
(***************************************************************************)
EXTENDS ChaseLevDeque, TLC

CONSTANTS s1, s2

Thieves == Permutations({s1, s2})
=============================================================================
