---------------------------- MODULE FairScheduler ----------------------------
(***************************************************************************)
(* src/fair_scheduler.cpp, on top of DoorbellPool: jobs are queued by      *)
(* class, a worker dispatches the class with the smallest entry of the     *)
(* multimap ready_, and a class pays for a task after it has run.  A step  *)
(* is a critical section of mu_, or one access to shared state outside.    *)
(*                                                                         *)
(* Time is counted in ticks, so that the shares elapsed / weight are whole *)
(* numbers; the model leaves the rounding of double out.                   *)
(***************************************************************************)
EXTENDS DoorbellPool, Sequences

CONSTANTS
  Class,         \* class names
  NoClass,       \* "nothing dispatched"
  ClassOf,       \* opts.class_name of each task
  OptWeight,     \* opts.weight of each task, 0 for one that is not positive
  RegWeight,     \* the weights register_class() is called with
  Elapsed        \* what the clock may measure for a task

ASSUME ClassAssumption ==
  /\ NoClass \notin Class
  /\ ClassOf \in [Task -> Class]
  /\ OptWeight \in [Task -> Nat]
  /\ RegWeight \subseteq Nat
  /\ Elapsed \subseteq Nat

\* steady_clock's durations are 64 bits wide, so there is a longest one.
ASSUME ClockAssumption == \E e \in Elapsed : \A f \in Elapsed : f <= e

VARIABLES
  weight,          \* of each class, 0 if it does not exist yet
  vruntime,
  runnable,        \* the class's jobs, oldest first
  has_entry,
  completed,
  ready_,          \* the entries <<key, class>> of the multimap, in its order
  min_vruntime_,
  dispatched       \* the class each worker took its job from

classVars == <<weight, vruntime, runnable, has_entry, completed>>
schedVars == <<classVars, ready_, min_vruntime_, dispatched>>
vars == <<poolVars, schedVars>>

TypeOK ==
  /\ PoolTypeOK({"dispatch", "stop", "account"})
  /\ weight \in [Class -> Nat]
  /\ vruntime \in [Class -> Nat]
  /\ runnable \in [Class -> Seq(Task)]
  /\ has_entry \in [Class -> BOOLEAN]
  /\ completed \in [Class -> Nat]
  /\ ready_ \in Seq(Nat \X Class)
  /\ min_vruntime_ \in Nat
  /\ dispatched \in [Worker -> Class \cup {NoClass}]

Init ==
  /\ PoolInit
  /\ weight = [c \in Class |-> 0]
  /\ vruntime = [c \in Class |-> 0]
  /\ runnable = [c \in Class |-> << >>]
  /\ has_entry = [c \in Class |-> FALSE]
  /\ completed = [c \in Class |-> 0]
  /\ ready_ = << >>
  /\ min_vruntime_ = 0
  /\ dispatched = [w \in Worker |-> NoClass]

-----------------------------------------------------------------------------
\* multimap::insert puts an entry behind those with the same key.
Insert(entries, key, c) ==
  LET n == CHOOSE n \in 0 .. Len(entries) :
             /\ \A i \in 1 .. n : entries[i][1] <= key
             /\ \A i \in (n + 1) .. Len(entries) : key < entries[i][1]
  IN  SubSeq(entries, 1, n) \o << <<key, c>> >> \o SubSeq(entries, n + 1, Len(entries))

Larger(a, b) == IF a < b THEN b ELSE a

\* find_or_create_class_locked: a new class gets the weight of its first use
\* and starts at the floor.
Created(c, wt) == weight' = IF weight[c] = 0 THEN [weight EXCEPT ![c] = wt] ELSE weight

Vruntime0(c) == IF weight[c] = 0 THEN min_vruntime_ ELSE vruntime[c]

\* register_class() throws if the class exists or the weight is not positive.
Register(c, wt) ==
  /\ weight[c] = 0
  /\ wt > 0
  /\ Created(c, wt)
  /\ vruntime' = [vruntime EXCEPT ![c] = Vruntime0(c)]
  /\ UNCHANGED <<poolVars, runnable, has_entry, completed, ready_, min_vruntime_,
                 dispatched>>

\* A reawakened class keeps the vruntime it had.
Bug_NoClamp(c) == Vruntime0(c)

\* An idle class comes back no earlier than at the floor.
Clamped(c) == Larger(Vruntime0(c), min_vruntime_)

\* The critical section of submit().
SubmitEnqueue(t) ==
  LET c == ClassOf[t] IN
    /\ SubmitQueued(t)
    /\ Created(c, IF OptWeight[t] > 0 THEN OptWeight[t] ELSE 1)
    /\ runnable' = [runnable EXCEPT ![c] = Append(@, t)]
    /\ IF has_entry[c]
         THEN UNCHANGED <<vruntime, has_entry, ready_>>
         ELSE /\ vruntime' = [vruntime EXCEPT ![c] = Clamped(c)]
              /\ ready_' = Insert(ready_, Clamped(c), c)
              /\ has_entry' = [has_entry EXCEPT ![c] = TRUE]
    /\ UNCHANGED <<completed, min_vruntime_, dispatched>>

-----------------------------------------------------------------------------
(***************************************************************************)
(* worker_loop.                                                            *)
(***************************************************************************)

\* The flag survives the class's last job.
Bug_FlagSurvives(rest) == TRUE

StillRunnable(rest) == rest # << >>

\* The floor stays where it was.
Bug_FloorStays == min_vruntime_

\* The floor follows the key that is dispatched.
Floor == Larger(min_vruntime_, Head(ready_)[1])

\* The new entry takes the key of the one that was dispatched.
Bug_RequeueAtKey(c) == Insert(Tail(ready_), Head(ready_)[1], c)

Requeue(c) == Insert(Tail(ready_), vruntime[c], c)

\* The first critical section: the smallest entry's class gives up its first
\* job, and gets a new entry, at its present vruntime, if it has another one.
Dispatch(w) ==
  /\ pc[w] = "dispatch"
  /\ ready_ # << >>
  /\ LET c == Head(ready_)[2]
         rest == Tail(runnable[c])
     IN  /\ min_vruntime_' = Floor
         /\ runnable' = [runnable EXCEPT ![c] = rest]
         /\ has_entry' = [has_entry EXCEPT ![c] = StillRunnable(rest)]
         /\ ready_' = IF rest # << >> THEN Requeue(c) ELSE Tail(ready_)
         /\ dispatched' = [dispatched EXCEPT ![w] = c]
         /\ Found(w, Head(runnable[c]))
  /\ UNCHANGED <<weight, vruntime, completed>>

NothingReady(w) ==
  /\ pc[w] = "dispatch"
  /\ ready_ = << >>
  /\ GoTo(w, "stop")
  /\ UNCHANGED schedVars

NoneFound(w) ==
  /\ pc[w] = "stop"
  /\ StopOrWait(w)
  /\ UNCHANGED schedVars

\* What a class pays for a task that took e ticks.
Share(c, e) == e \div weight[c]

\* The second critical section.
Account(w) ==
  LET c == dispatched[w] IN
    /\ pc[w] = "account"
    /\ \E e \in Elapsed : vruntime' = [vruntime EXCEPT ![c] = @ + Share(c, e)]
    /\ completed' = [completed EXCEPT ![c] = @ + 1]
    /\ dispatched' = [dispatched EXCEPT ![w] = NoClass]
    /\ GoTo(w, "snap")
    /\ UNCHANGED <<weight, runnable, has_entry, ready_, min_vruntime_>>

-----------------------------------------------------------------------------
WorkerNext(w) ==
  \/ Dispatch(w) \/ NothingReady(w) \/ NoneFound(w) \/ Account(w)
  \/ (Snapshot(w, "dispatch") \/ WorkerCommon(w) \/ Ring(w, "account"))
       /\ UNCHANGED schedVars

SubmitRest(t) ==
  \/ SubmitEnqueue(t)
  \/ SubmitNotify(t) /\ UNCHANGED schedVars

\* The pool has been joined; nobody is left to run anything.
Halted == down = "returned" /\ UNCHANGED vars

Next ==
  \/ \E c \in Class, wt \in RegWeight : Register(c, wt)
  \/ \E t \in Task : SubmitCount(t) /\ UNCHANGED schedVars
  \/ \E t \in Task : SubmitRest(t)
  \/ \E w \in Worker : WorkerNext(w)
  \/ (ShutdownFlag \/ ShutdownRest) /\ UNCHANGED schedVars
  \/ Halted

Spec == Init /\ [][Next]_vars

(***************************************************************************)
(* Threads that can run do run: every worker, a submit() or shutdown()     *)
(* call once it is under way, and the submit() calls in a task's body.  A  *)
(* client need not submit anything and need not call shutdown().           *)
(***************************************************************************)
Fairness ==
  /\ \A w \in Worker : WF_vars(WorkerNext(w))
  /\ \A t \in Task : WF_vars(SubmitRest(t))
  /\ \A t \in Task : WF_vars(Nested(t) /\ SubmitCount(t) /\ UNCHANGED schedVars)
  /\ WF_vars(ShutdownRest /\ UNCHANGED schedVars)

FairSpec == Spec /\ Fairness

-----------------------------------------------------------------------------
EntriesOf(c) == {n \in DOMAIN ready_ : ready_[n][2] = c}
InFlight(c) == {w \in Worker : dispatched[w] = c}

(***************************************************************************)
(* include/wss/fair_scheduler.hpp, 31-33: "at most one live entry exists   *)
(* per class at a time", and a class with a job to run has one, so that no *)
(* class is forgotten; has_entry tells the truth.                          *)
(***************************************************************************)
OneEntryPerClass ==
  \A c \in Class :
    /\ has_entry[c] <=> runnable[c] # << >>
    /\ Cardinality(EntriesOf(c)) = IF has_entry[c] THEN 1 ELSE 0

(***************************************************************************)
(* include/wss/fair_scheduler.hpp, 47-53: no class is dispatched at a      *)
(* vruntime below the floor, whether it is new, was idle for a while or    *)
(* waits with an entry that has become stale.  So the keys of successive   *)
(* dispatches never go backwards, and no class can hold the pool.          *)
(***************************************************************************)
NothingBelowFloor ==
  \A n \in DOMAIN ready_ :
    /\ min_vruntime_ <= ready_[n][1]
    /\ ready_[n][1] <= vruntime[ready_[n][2]]

MaxElapsed == CHOOSE e \in Elapsed : \A f \in Elapsed : f <= e
MaxShare(c) == MaxElapsed \div weight[c]

(***************************************************************************)
(* include/wss/fair_scheduler.hpp, 37-41: an entry "can be up to           *)
(* num_workers tasks behind the class's true current vruntime".  The tasks *)
(* still in flight are those that can put it further behind.               *)
(***************************************************************************)
BoundedStaleness ==
  \A n \in DOMAIN ready_ :
    LET c == ready_[n][2] IN
      vruntime[c] + Cardinality(InFlight(c)) * MaxShare(c)
        <= ready_[n][1] + num_workers * MaxShare(c)

(***************************************************************************)
(* No class waits for long because of what it ran before: its entry is     *)
(* ahead of the floor by at most what num_workers + 1 of its tasks cost,   *)
(* the ones its last entry was behind and the one that was then            *)
(* dispatched.  The same is true of a class without an entry, which comes  *)
(* back with the vruntime it has by then, its tasks in flight paid for:    *)
(* submit() raises a vruntime to the floor and never lowers one.           *)
(***************************************************************************)
BoundedLag ==
  \A c \in Class : weight[c] # 0 =>
    LET ceiling == min_vruntime_ + (num_workers + 1) * MaxShare(c) IN
      /\ \A n \in EntriesOf(c) : ready_[n][1] <= ceiling
      /\ ~has_entry[c] =>
           vruntime[c] + Cardinality(InFlight(c)) * MaxShare(c) <= ceiling

(***************************************************************************)
(* A job of any class that a sleeping worker has not seen is going to be   *)
(* announced.                                                              *)
(***************************************************************************)
NoMissedWakeup == NoMissedWakeupFor({t \in Task : stage[t] = "queued"})

(***************************************************************************)
(* tests/fair_scheduler_test.cpp, 47-53: fairness_snapshot() counts a task *)
(* whose join() has returned, which it can as soon as the result is        *)
(* published.                                                              *)
(***************************************************************************)
SnapshotAfterJoin ==
  \A c \in Class :
    Cardinality({t \in Task : ClassOf[t] = c /\ stage[t] \in {"published", "done"}})
      <= completed[c]

(***************************************************************************)
(* When shutdown() has returned, every task that ran is in its class's     *)
(* count, although the count is updated after the task left pending.       *)
(***************************************************************************)
AccountedAtReturn ==
  down = "returned" =>
    \A c \in Class :
      completed[c] = Cardinality({t \in Task : ClassOf[t] = c /\ stage[t] = "done"})
=============================================================================
