----------------------------- MODULE TaskHandle -----------------------------
(***************************************************************************)
(* What include/wss/scheduler.hpp builds around every scheduler: spawn()   *)
(* and its wrapper, the JoinHandle that carries a task's Result to whoever *)
(* joins it, the counters of Metrics and the shared flag of a              *)
(* CancellationToken.  The scheduler itself is any pool that keeps the     *)
(* contract TaskPool, which the modules of the four backends implement.    *)
(*                                                                         *)
(* The wrapper is straight-line code: todo[t] is what is left of it.  A    *)
(* JoinHandle can be copied, so a handle may see several join() calls.     *)
(*                                                                         *)
(* An operator Bug_... is the definition after it with a plausible mistake *)
(* in it; no specification uses one.  The properties are shown to notice.  *)
(***************************************************************************)
EXTENDS Workload, Sequences

CONSTANTS
  ClientJoin,    \* the <<client, task>> for which a client calls join()
  Polling,       \* the tasks that run until they see the token cancelled
  Fragile        \* the tasks whose value's move constructor may throw

ASSUME HandleAssumption ==
  /\ ClientJoin \subseteq Client \X Task
  /\ Polling \subseteq Task
  /\ Fragile \subseteq Task

VARIABLES
  phase, late, closing, closed,      \* of TaskPool
  sub,          \* how far the submit() call of each task has come
  outcome,      \* the Result the wrapper is going to set
  todo,         \* the wrapper's remaining steps, once the body is over
  result,       \* HandleShared::result
  call,         \* each join() call: how far it has come, or what it returned
  polled,       \* the calls whose caller has seen is_finished() return true
  rethrown,     \* the tasks whose value threw when it was moved into the handle
  submitted, completed, panicked,    \* Metrics
  snap,         \* what a call of snapshot() has loaded so far
  joined,       \* the join() calls that had returned when it began
  cancelled     \* the token's flag

poolVars == <<phase, late, closing, closed>>
wrapperVars == <<outcome, todo, rethrown>>
handleVars == <<result, call, polled>>
counterVars == <<submitted, completed, panicked>>
snapVars == <<snap, joined>>
vars == <<poolVars, sub, wrapperVars, handleVars, counterVars, snapVars, cancelled>>

Pool == INSTANCE TaskPool

\* A Result holds a value or a JoinError.
Outcome == {"ok", "err"}

\* join() calls, by caller and task.
Call == ClientJoin \cup {j \in Task \X Task : j[2] \in Awaits[j[1]]}

Over == Outcome \cup {"thrown"}

TypeOK ==
  /\ Pool!TypeOK
  /\ sub \in [Task -> {"idle", "counted", "done"}]
  /\ outcome \in [Task -> Outcome \cup {"none"}]
  /\ todo \in [Task -> Seq({"panic", "complete", "set", "notify"})]
  /\ result \in [Task -> Outcome \cup {"none"}]
  /\ call \in [Call -> {"no", "calling", "waiting"} \cup Over]
  /\ polled \subseteq Call
  /\ rethrown \subseteq Fragile
  /\ submitted \in Nat /\ completed \in Nat /\ panicked \in Nat
  /\ snap \in Seq(Nat)
  /\ joined \subseteq Call
  /\ cancelled \in BOOLEAN

Init ==
  /\ Pool!Init
  /\ sub = [t \in Task |-> "idle"]
  /\ outcome = [t \in Task |-> "none"]
  /\ todo = [t \in Task |-> << >>]
  /\ result = [t \in Task |-> "none"]
  /\ call = [j \in Call |-> "no"]
  /\ polled = {}
  /\ rethrown = {}
  /\ submitted = 0 /\ completed = 0 /\ panicked = 0
  /\ snap = << >>
  /\ joined = {}
  /\ cancelled = FALSE

-----------------------------------------------------------------------------
(***************************************************************************)
(* spawn() and spawn_cancellable(), by a client or in a task's body.       *)
(***************************************************************************)

\* A thread makes one call at a time.
Busy(x) ==
  \/ \E t \in Task : Submitter[t] = x /\ sub[t] = "counted"
  \/ \E j \in Call : j[1] = x /\ call[j] \in {"calling", "waiting"}

InBody(t) == phase[t] = "running" /\ outcome[t] = "none"

MayCall(x) == ~Busy(x) /\ (x \in Task => InBody(x))

\* submit() begins with metrics_.record_submitted() ...
RecordSubmitted(t) ==
  /\ sub[t] = "idle"
  /\ MayCall(Submitter[t])
  /\ submitted' = submitted + 1
  /\ sub' = [sub EXCEPT ![t] = "counted"]
  /\ UNCHANGED <<poolVars, wrapperVars, handleVars, completed, panicked, snapVars, cancelled>>

\* ... and goes on to queue the job.
Enqueue(t) ==
  /\ sub[t] = "counted"
  /\ Pool!Submit(t)
  /\ sub' = [sub EXCEPT ![t] = "done"]
  /\ UNCHANGED <<wrapperVars, handleVars, counterVars, snapVars, cancelled>>

Start(t) ==
  /\ Pool!Start(t)
  /\ UNCHANGED <<sub, wrapperVars, handleVars, counterVars, snapVars, cancelled>>

-----------------------------------------------------------------------------
(***************************************************************************)
(* The wrapper.                                                            *)
(***************************************************************************)

\* The completion is recorded when the result is out.
Bug_CompleteLast(o) ==
  IF o = "ok" THEN <<"set", "notify", "complete">>
              ELSE <<"panic", "set", "notify", "complete">>

\* The catch block does not record the panic.
Bug_PanicForgotten(o) == <<"complete", "set", "notify">>

\* What the wrapper does after the body has returned, and after it has thrown.
Wrapper(o) ==
  IF o = "ok" THEN <<"complete", "set", "notify">>
              ELSE <<"panic", "complete", "set", "notify">>

Ends(t, o) ==
  /\ outcome' = [outcome EXCEPT ![t] = o]
  /\ todo' = [todo EXCEPT ![t] = Wrapper(o)]

\* A body that returns has made its spawn() and join() calls; one that throws
\* may have left some of them out.
BodyEnds(t, o) ==
  /\ InBody(t)
  /\ ~Busy(t)
  /\ t \in Polling => cancelled
  /\ o = "ok" =>
       /\ \A c \in Children(t) : sub[c] = "done"
       /\ \A a \in Awaits[t] : call[<<t, a>>] \in Over
  /\ Ends(t, o)
  /\ UNCHANGED <<poolVars, sub, rethrown, handleVars, counterVars, snapVars, cancelled>>

\* The next step of t's wrapper is s.
Do(t, s) ==
  /\ todo[t] # << >>
  /\ Head(todo[t]) = s
  /\ todo' = [todo EXCEPT ![t] = Tail(@)]

RecordCompleted(t) ==
  /\ Do(t, "complete")
  /\ completed' = completed + 1
  /\ UNCHANGED <<poolVars, sub, outcome, rethrown, handleVars, submitted, panicked,
                 snapVars, cancelled>>

RecordPanic(t) ==
  /\ Do(t, "panic")
  /\ panicked' = panicked + 1
  /\ UNCHANGED <<poolVars, sub, outcome, rethrown, handleVars, submitted, completed,
                 snapVars, cancelled>>

\* ResultSetter::set(), the part under the handle's mutex.
SetResult(t) ==
  /\ Do(t, "set")
  /\ result' = [result EXCEPT ![t] = outcome[t]]
  /\ UNCHANGED <<poolVars, sub, outcome, rethrown, call, polled, counterVars, snapVars,
                 cancelled>>

\* Moving the value into the handle throws, inside the try block.
SetThrows(t) ==
  /\ todo[t] # << >>
  /\ Head(todo[t]) = "set"
  /\ t \in Fragile
  /\ outcome[t] = "ok"
  /\ Ends(t, "err")
  /\ rethrown' = rethrown \cup {t}
  /\ UNCHANGED <<poolVars, sub, handleVars, counterVars, snapVars, cancelled>>

\* set() leaves out the notification.
Bug_WakeNone(t) == UNCHANGED call

WakeAll(t) ==
  call' = [j \in Call |-> IF j[2] = t /\ call[j] = "waiting" THEN "calling" ELSE call[j]]

\* The notification that ends set(), and with it the job.
NotifyJoiners(t) ==
  /\ Do(t, "notify")
  /\ WakeAll(t)
  /\ Pool!Finish(t)
  /\ UNCHANGED <<sub, outcome, rethrown, result, polled, counterVars, snapVars, cancelled>>

-----------------------------------------------------------------------------
(***************************************************************************)
(* JoinHandle.                                                             *)
(***************************************************************************)

\* Handles exist once spawn() has returned.
JoinCall(j) ==
  /\ call[j] = "no"
  /\ sub[j[2]] = "done"
  /\ MayCall(j[1])
  /\ call' = [call EXCEPT ![j] = "calling"]
  /\ UNCHANGED <<poolVars, sub, wrapperVars, result, polled, counterVars, snapVars, cancelled>>

IsFinished(j) ==
  /\ call[j] = "no"
  /\ MayCall(j[1])
  /\ result[j[2]] # "none"
  /\ polled' = polled \cup {j}
  /\ UNCHANGED <<poolVars, sub, wrapperVars, result, call, counterVars, snapVars, cancelled>>

\* cv.wait(lock) without the predicate, woken for no reason.
Bug_Unchecked(t) == TRUE

Ready(t) == result[t] # "none"

JoinWait(j) ==
  /\ call[j] = "calling"
  /\ ~Ready(j[2])
  /\ call' = [call EXCEPT ![j] = "waiting"]
  /\ UNCHANGED <<poolVars, sub, wrapperVars, result, polled, counterVars, snapVars, cancelled>>

\* A condition variable may wake a thread for no reason.
SpuriousWake(j) ==
  /\ call[j] = "waiting"
  /\ call' = [call EXCEPT ![j] = "calling"]
  /\ UNCHANGED <<poolVars, sub, wrapperVars, result, polled, counterVars, snapVars, cancelled>>

\* The result is not reset.
Bug_Keep(t) == result[t]

Reset(t) == "none"

JoinTake(j) ==
  /\ call[j] = "calling"
  /\ Ready(j[2])
  /\ call' = [call EXCEPT ![j] = result[j[2]]]
  /\ result' = [result EXCEPT ![j[2]] = Reset(j[2])]
  /\ UNCHANGED <<poolVars, sub, wrapperVars, polled, counterVars, snapVars, cancelled>>

\* Moving the value out of the handle throws, before the reset.
JoinThrows(j) ==
  /\ call[j] = "calling"
  /\ j[2] \in Fragile
  /\ result[j[2]] = "ok"
  /\ call' = [call EXCEPT ![j] = "thrown"]
  /\ UNCHANGED <<poolVars, sub, wrapperVars, result, polled, counterVars, snapVars, cancelled>>

-----------------------------------------------------------------------------
(***************************************************************************)
(* metrics(), cancel() and shutdown(), called by threads outside the pool. *)
(***************************************************************************)

Returned == {j \in Call : call[j] \in Outcome}

\* The order in which snapshot() loads the counters.
Counters == <<submitted, completed, panicked>>

\* One load; the first one is the beginning of the call.
Load ==
  /\ Len(snap) < Len(Counters)
  /\ snap' = Append(snap, Counters[Len(snap) + 1])
  /\ joined' = IF snap = << >> THEN Returned ELSE joined
  /\ UNCHANGED <<poolVars, sub, wrapperVars, handleVars, counterVars, cancelled>>

Cancel ==
  /\ ~cancelled
  /\ cancelled' = TRUE
  /\ UNCHANGED <<poolVars, sub, wrapperVars, handleVars, counterVars, snapVars>>

Shutdown ==
  /\ Pool!Shutdown \/ Pool!Return
  /\ UNCHANGED <<sub, wrapperVars, handleVars, counterVars, snapVars, cancelled>>

-----------------------------------------------------------------------------
WrapperNext(t) ==
  \/ \E o \in Outcome : BodyEnds(t, o)
  \/ RecordCompleted(t) \/ RecordPanic(t)
  \/ SetResult(t) \/ SetThrows(t) \/ NotifyJoiners(t)

JoinNext(j) == JoinWait(j) \/ JoinTake(j) \/ JoinThrows(j)

Next ==
  \/ \E t \in Task : RecordSubmitted(t) \/ Enqueue(t) \/ Start(t) \/ WrapperNext(t)
  \/ \E j \in Call : JoinCall(j) \/ IsFinished(j) \/ JoinNext(j) \/ SpuriousWake(j)
  \/ Load \/ Cancel \/ Shutdown

Spec == Init /\ [][Next]_vars

(***************************************************************************)
(* A submit() or join() call that is under way and a wrapper go on, a body *)
(* makes its calls and ends, and the pool starts the tasks it has promised *)
(* to run (TasksFinish of the backends).  Clients need not do anything.    *)
(***************************************************************************)
Fairness ==
  /\ \A t \in Task :
       /\ WF_vars(Nested(t) /\ RecordSubmitted(t))
       /\ WF_vars(Enqueue(t))
       /\ WF_vars(t \notin late /\ Start(t))
       /\ WF_vars(WrapperNext(t))
  /\ \A j \in Call :
       /\ WF_vars(j[1] \in Task /\ JoinCall(j))
       /\ WF_vars(JoinNext(j))

FairSpec == Spec /\ Fairness

-----------------------------------------------------------------------------
Taken(t) == {j \in Returned : j[2] = t}

(***************************************************************************)
(* join() "returns its result or the error it raised" (join_handle.hpp,    *)
(* 51-52).  A result that has been set is in the handle, or exactly one    *)
(* join() has it, unchanged; no join() has one that was not set.  And what *)
(* is_finished() said is lost only to another caller: a join() after it    *)
(* does not wait unless a copy of the handle was joined first.             *)
(***************************************************************************)
ResultConserved ==
  /\ \A t \in Task :
       LET set == outcome[t] # "none" /\ ~\E i \in DOMAIN todo[t] : todo[t][i] = "set" IN
         /\ Cardinality(Taken(t)) = IF set /\ ~Ready(t) THEN 1 ELSE 0
         /\ Ready(t) => result[t] = outcome[t]
         /\ \A j \in Taken(t) : call[j] = outcome[t]
  /\ \A j \in polled : call[j] = "waiting" => Taken(j[2]) # {}

(***************************************************************************)
(* scheduler.hpp, 48-56: "a caller reading metrics() right after join()"   *)
(* never observes an undercount, of completed tasks or of panicked ones,   *)
(* although the counters are loaded one after the other.                   *)
(***************************************************************************)
MetricsAfterJoin ==
  Len(snap) = Len(Counters) =>
    /\ Cardinality({j[2] : j \in joined}) <= snap[2]
    /\ Cardinality({j[2] : j \in {k \in joined : call[k] = "err"}}) <= snap[3]

Finished == {t \in Task : phase[t] = "finished"}

(***************************************************************************)
(* When shutdown() has returned the counters agree with the outcomes: a    *)
(* finished task counts once in tasks_completed, and once in               *)
(* tasks_panicked if its handle delivers an error.  The exception is a     *)
(* task whose value could not be moved into the handle; the catch block    *)
(* counts it a second time.                                                *)
(***************************************************************************)
MetricsAtReturn ==
  closed =>
    /\ completed = Cardinality(Finished) + Cardinality(rethrown)
    /\ panicked = Cardinality({t \in Finished : outcome[t] = "err"})
    /\ completed <= submitted + Cardinality(rethrown)

(***************************************************************************)
(* join() "blocks until the task completes": of the join() calls on the    *)
(* handle of a task that the pool runs, one comes back.  Tasks that poll   *)
(* the token need it to be cancelled, and a task that joins another one    *)
(* may itself lose that result to a copy of the handle.                    *)
(***************************************************************************)
JoinReturns ==
  \A t \in Task : Awaits[t] = {} =>
    ( /\ cancelled /\ t \notin late
      /\ \E j \in Call : j[2] = t /\ call[j] # "no"
    ) ~> (\E j \in Call : j[2] = t /\ call[j] \in Over)
=============================================================================
