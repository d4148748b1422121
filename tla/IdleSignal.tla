----------------------------- MODULE IdleSignal -----------------------------
(***************************************************************************)
(* The doorbell of include/wss/idle_signal.hpp: an atomic generation       *)
(* counter that idle workers block on.  notify() is two atomic operations, *)
(* the increment and the wake-up of whoever sleeps, and other threads run  *)
(* between them.  wait(observed) compares and blocks in one step, which is *)
(* what the futex behind std::atomic::wait does; a woken thread compares   *)
(* again.                                                                  *)
(*                                                                         *)
(* The counter only ever grows (it is 64 bits wide) and is only compared   *)
(* with a snapshot of itself, so the model keeps which workers' snapshots  *)
(* are still the present generation instead of the numbers.                *)
(*                                                                         *)
(* An operator Bug_... is the definition after it with a plausible mistake *)
(* in it; no specification uses one.  The properties are shown to notice.  *)
(***************************************************************************)
EXTENDS Workload

VARIABLES
  fresh,    \* the workers whose snapshot of gen_ is its present value
  asleep    \* the workers blocked inside wait()

idleVars == <<fresh, asleep>>

IdleTypeOK ==
  /\ fresh \in SUBSET Worker
  /\ asleep \in SUBSET Worker

IdleInit ==
  /\ fresh = {}
  /\ asleep = {}

\* current()
IdleCurrent(w) ==
  /\ fresh' = fresh \cup {w}
  /\ UNCHANGED asleep

\* notify() wakes the sleepers but does not move the generation.
Bug_NoBump == UNCHANGED idleVars

\* notify(), first half: gen_.fetch_add(1)
IdleBump ==
  /\ fresh' = {}
  /\ UNCHANGED asleep

\* notify() moves the generation but wakes nobody.
Bug_NoRing == UNCHANGED idleVars

\* notify(), second half: gen_.notify_all()
IdleRing ==
  /\ asleep' = {}
  /\ UNCHANGED fresh

\* Would wait(observed) return at once?
Advanced(w) == w \notin fresh

\* wait(observed), when the generation has not moved.
IdleBlock(w) ==
  /\ ~Advanced(w)
  /\ asleep' = asleep \cup {w}
  /\ UNCHANGED fresh
=============================================================================
