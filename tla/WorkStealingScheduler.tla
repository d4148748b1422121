------------------------ MODULE WorkStealingScheduler ------------------------
(***************************************************************************)
(* src/work_stealing_scheduler.cpp with the Injector of src/injector.cpp,  *)
(* on top of DoorbellPool: find_task looks at the worker's own deques,     *)
(* then at the injectors, then at its peers' deques, by priority at each   *)
(* stage.                                                                  *)
(*                                                                         *)
(* A Chase-Lev deque is a sequence, top first, next to the index of its    *)
(* top: steal() is the load of that index and of the slot, and the         *)
(* compare-and-swap; push() and pop() are one step, which module           *)
(* ChaseLevDeque justifies.                                                *)
(***************************************************************************)
EXTENDS DoorbellPool, Sequences

CONSTANTS
  kPriorityCount,       \* 3 in the code
  kInjectorBatchSize,   \* 32 in the code
  Prio                  \* opts.priority of each task

ASSUME PriorityAssumption ==
  /\ kPriorityCount \in Nat \ {0}
  /\ kInjectorBatchSize \in Nat \ {0}
  /\ Prio \in [Task -> 0 .. (kPriorityCount - 1)]

VARIABLES
  injectors,       \* injectors[p].queue_
  local_deques,    \* local_deques[w][p], from top_ to bottom_
  top,             \* top_ of each deque
  tasks_stolen,    \* the metric
  pos,             \* a worker's place in its scan of the injectors or peers, else 0
  expected,        \* the top_ a thief read before its compare-and-swap, else 0
  ptr              \* the job it read from the slot at top_, else NoTask

scanVars == <<pos, expected, ptr>>
schedVars == <<injectors, local_deques, top, tasks_stolen, scanVars>>
vars == <<poolVars, schedVars>>

Priority == 0 .. (kPriorityCount - 1)

TypeOK ==
  /\ PoolTypeOK({"local", "inject", "steal", "cas"})
  /\ injectors \in [Priority -> Seq(Task)]
  /\ local_deques \in [Worker -> [Priority -> Seq(Task)]]
  /\ top \in [Worker -> [Priority -> Nat]]
  /\ tasks_stolen \in Nat
  /\ pos \in [Worker -> Nat]
  /\ expected \in [Worker -> Nat]
  /\ ptr \in [Worker -> Task \cup {NoTask}]

Init ==
  /\ PoolInit
  /\ injectors = [p \in Priority |-> << >>]
  /\ local_deques = [w \in Worker |-> [p \in Priority |-> << >>]]
  /\ top = [w \in Worker |-> [p \in Priority |-> 0]]
  /\ tasks_stolen = 0
  /\ pos = [w \in Worker |-> 0]
  /\ expected = [w \in Worker |-> 0]
  /\ ptr = [w \in Worker |-> NoTask]

\* Injector::push, in submit().
SubmitPush(t) ==
  /\ SubmitQueued(t)
  /\ injectors' = [injectors EXCEPT ![Prio[t]] = Append(@, t)]
  /\ UNCHANGED <<local_deques, top, tasks_stolen, scanVars>>

-----------------------------------------------------------------------------
(***************************************************************************)
(* find_task, first stage: the worker's own deques.                        *)
(***************************************************************************)

\* The first non-empty one, in kPriorityOrder.
OwnPriority(w, p) ==
  /\ local_deques[w][p] # << >>
  /\ \A q \in Priority : q < p => local_deques[w][q] = << >>

\* The owner's pop() takes the newest element.  It moves top_ only when that
\* was the last one, which it takes by winning the compare-and-swap.
PopLocal(w) ==
  /\ pc[w] = "local"
  /\ \E p \in Priority :
       LET d == local_deques[w][p] IN
         /\ OwnPriority(w, p)
         /\ local_deques' = [local_deques EXCEPT ![w][p] = SubSeq(d, 1, Len(d) - 1)]
         /\ top' = [top EXCEPT ![w][p] = IF Len(d) = 1 THEN @ + 1 ELSE @]
         /\ Found(w, d[Len(d)])
  /\ UNCHANGED <<injectors, tasks_stolen, scanVars>>

\* Only the deque of the highest priority is looked at.
Bug_LocalEmptyHighOnly(w) ==
  /\ pc[w] = "local"
  /\ local_deques[w][0] = << >>
  /\ GoTo(w, "inject")
  /\ UNCHANGED schedVars

LocalEmpty(w) ==
  /\ pc[w] = "local"
  /\ \A p \in Priority : local_deques[w][p] = << >>
  /\ GoTo(w, "inject")
  /\ UNCHANGED schedVars

-----------------------------------------------------------------------------
(***************************************************************************)
(* Second stage: the injectors, each under its mutex.                      *)
(***************************************************************************)

\* How many jobs pop_batch_into takes from a queue of n.
BatchSize(n) == IF n < kInjectorBatchSize THEN n ELSE kInjectorBatchSize

\* Injector::pop_batch_into: one job for the caller and the rest of the
\* batch into its own deque.
PopBatchInto(w) ==
  LET p == pos[w]
      q == injectors[p]
      n == BatchSize(Len(q))
  IN  /\ pc[w] = "inject"
      /\ q # << >>
      /\ injectors' = [injectors EXCEPT ![p] = SubSeq(q, n + 1, Len(q))]
      /\ local_deques' = [local_deques EXCEPT ![w][p] = @ \o SubSeq(q, 2, n)]
      /\ Found(w, Head(q))
      /\ pos' = [pos EXCEPT ![w] = 0]
      /\ UNCHANGED <<top, tasks_stolen, expected, ptr>>

InjectorEmpty(w) ==
  /\ pc[w] = "inject"
  /\ injectors[pos[w]] = << >>
  /\ IF pos[w] = kPriorityCount - 1
       THEN GoTo(w, "steal") /\ pos' = [pos EXCEPT ![w] = 0]
       ELSE GoTo(w, "inject") /\ pos' = [pos EXCEPT ![w] = @ + 1]
  /\ UNCHANGED <<injectors, local_deques, top, tasks_stolen, expected, ptr>>

-----------------------------------------------------------------------------
(***************************************************************************)
(* Third stage: every peer's High deque, then every peer's Normal one, ... *)
(***************************************************************************)
Peers == num_workers - 1
ScanEnd == kPriorityCount * Peers
ScanPriority(w) == pos[w] \div Peers
ScanPeer(w) == LET j == pos[w] % Peers IN IF j < w THEN j ELSE j + 1

VictimDeque(w) == local_deques[ScanPeer(w)][ScanPriority(w)]
VictimTop(w) == top[ScanPeer(w)][ScanPriority(w)]

ToNextPeer(w) == GoTo(w, "steal") /\ pos' = [pos EXCEPT ![w] = @ + 1]

StealEmpty(w) ==
  /\ pc[w] = "steal"
  /\ pos[w] < ScanEnd
  /\ VictimDeque(w) = << >>
  /\ ToNextPeer(w)
  /\ UNCHANGED <<injectors, local_deques, top, tasks_stolen, expected, ptr>>

StealLoad(w) ==
  /\ pc[w] = "steal"
  /\ pos[w] < ScanEnd
  /\ VictimDeque(w) # << >>
  /\ expected' = [expected EXCEPT ![w] = VictimTop(w)]
  /\ ptr' = [ptr EXCEPT ![w] = Head(VictimDeque(w))]
  /\ GoTo(w, "cas")
  /\ UNCHANGED <<injectors, local_deques, top, tasks_stolen, pos>>

\* steal() returns; what it had read is gone.
ForgetTop(w) ==
  /\ expected' = [expected EXCEPT ![w] = 0]
  /\ ptr' = [ptr EXCEPT ![w] = NoTask]

\* A plain store of top_ instead of the compare-and-swap.
Bug_CasUnchecked(w) == TRUE

CasSucceeds(w) == VictimTop(w) = expected[w]

StealWin(w) ==
  LET v == ScanPeer(w)
      p == ScanPriority(w)
  IN  /\ pc[w] = "cas"
      /\ CasSucceeds(w)
      /\ local_deques' = [local_deques EXCEPT ![v][p] = SubSeq(@, 2, Len(@))]
      /\ top' = [top EXCEPT ![v][p] = @ + 1]
      /\ tasks_stolen' = tasks_stolen + 1
      /\ Found(w, ptr[w])
      /\ pos' = [pos EXCEPT ![w] = 0]
      /\ ForgetTop(w)
      /\ UNCHANGED injectors

\* A lost race is reported like an empty deque: the scan goes on.
StealLose(w) ==
  /\ pc[w] = "cas"
  /\ ~CasSucceeds(w)
  /\ ToNextPeer(w)
  /\ ForgetTop(w)
  /\ UNCHANGED <<injectors, local_deques, top, tasks_stolen>>

\* find_task returns nothing.
NoneFound(w) ==
  /\ pc[w] = "steal"
  /\ pos[w] = ScanEnd
  /\ StopOrWait(w)
  /\ pos' = [pos EXCEPT ![w] = 0]
  /\ UNCHANGED <<injectors, local_deques, top, tasks_stolen, expected, ptr>>

-----------------------------------------------------------------------------
FindTask(w) ==
  \/ PopLocal(w) \/ LocalEmpty(w)
  \/ PopBatchInto(w) \/ InjectorEmpty(w)
  \/ StealEmpty(w) \/ StealLoad(w) \/ StealWin(w) \/ StealLose(w)
  \/ NoneFound(w)

WorkerNext(w) ==
  \/ FindTask(w)
  \/ (Snapshot(w, "local") \/ WorkerCommon(w) \/ Ring(w, "snap")) /\ UNCHANGED schedVars

SubmitRest(t) ==
  \/ SubmitPush(t)
  \/ SubmitNotify(t) /\ UNCHANGED schedVars

\* The pool has been joined; nobody is left to run anything.
Halted == down = "returned" /\ UNCHANGED vars

Next ==
  \/ \E t \in Task : SubmitCount(t) /\ UNCHANGED schedVars
  \/ \E t \in Task : SubmitRest(t)
  \/ \E w \in Worker : WorkerNext(w)
  \/ (ShutdownFlag \/ ShutdownRest) /\ UNCHANGED schedVars
  \/ Halted

Spec == Init /\ [][Next]_vars

(***************************************************************************)
(* Threads that can run do run: every worker, a submit() or shutdown()     *)
(* call once it is under way, and the submit() calls in a task's body.  A  *)
(* client need not submit anything and need not call shutdown().           *)
(***************************************************************************)
Fairness ==
  /\ \A w \in Worker : WF_vars(WorkerNext(w))
  /\ \A t \in Task : WF_vars(SubmitRest(t))
  /\ \A t \in Task : WF_vars(Nested(t) /\ SubmitCount(t) /\ UNCHANGED schedVars)
  /\ WF_vars(ShutdownRest /\ UNCHANGED schedVars)

FairSpec == Spec /\ Fairness

-----------------------------------------------------------------------------
\* The queues a task can be in: the workers' deques, and the injectors under
\* the number no worker has.
Holder == 0 .. num_workers
QueueAt(h, p) == IF h = num_workers THEN injectors[p] ELSE local_deques[h][p]

\* A queued task sits at one position of one queue, of its own priority ...
QueuedOnce ==
  /\ \A h \in Holder, p \in Priority : \A i \in DOMAIN QueueAt(h, p) :
       stage[QueueAt(h, p)[i]] = "queued" /\ Prio[QueueAt(h, p)[i]] = p
  /\ \A h, k \in Holder, p \in Priority :
       \A i \in DOMAIN QueueAt(h, p), j \in DOMAIN QueueAt(k, p) :
         QueueAt(h, p)[i] = QueueAt(k, p)[j] => h = k /\ i = j

\* ... and is not lost.
NothingLost ==
  \A t \in Task : stage[t] = "queued" =>
    \E h \in Holder : \E i \in DOMAIN QueueAt(h, Prio[t]) : QueueAt(h, Prio[t])[i] = t

(***************************************************************************)
(* A job handed to submit() is run by exactly one worker, whatever owner,  *)
(* thieves and batch pulls do to the queues at the same time: no job is    *)
(* duplicated, dropped, or moved to the queue of another priority.         *)
(***************************************************************************)
Conservation == QueuedOnce /\ HeldOnce /\ NothingLost

(***************************************************************************)
(* No worker sleeps through a job in an injector, or through the moment    *)
(* when it should stop.                                                    *)
(***************************************************************************)
NoMissedWakeup ==
  NoMissedWakeupFor({t \in Task : \E p \in Priority : \E i \in DOMAIN injectors[p] :
                                    injectors[p][i] = t})

(***************************************************************************)
(* A worker that looks elsewhere for work, sleeps or has left has nothing  *)
(* in its own deques: only the owner fills them, so no job is stranded     *)
(* there when the owner blocks in wait() or exits.                         *)
(***************************************************************************)
IdleOwnerIsDry ==
  \A w \in Worker : pc[w] \in {"inject", "steal", "cas", "wait", "exited"} =>
    \A p \in Priority : local_deques[w][p] = << >>
=============================================================================
