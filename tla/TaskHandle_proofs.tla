------------------------- MODULE TaskHandle_proofs -------------------------
(***************************************************************************)
(* Proofs about spawn()'s wrapper, JoinHandle and Metrics, over any pool   *)
(* that keeps the contract TaskPool.                                       *)
(***************************************************************************)
EXTENDS TaskHandle, FiniteSetTheorems, SequenceTheorems, TLAPS

-----------------------------------------------------------------------------
(***************************************************************************)
(* What may be left of a wrapper.                                          *)
(***************************************************************************)
Q4 == <<"panic", "complete", "set", "notify">>
Q3 == <<"complete", "set", "notify">>
Q2 == <<"set", "notify">>
Q1 == <<"notify">>
Q0 == << >>

Rest == {Q4, Q3, Q2, Q1, Q0}

\* The wrapper's steps come one after the other.
LEMMA Steps ==
  /\ Head(Q4) = "panic" /\ Tail(Q4) = Q3 /\ Head(Q3) = "complete" /\ Tail(Q3) = Q2
  /\ Head(Q2) = "set" /\ Tail(Q2) = Q1 /\ Head(Q1) = "notify" /\ Tail(Q1) = Q0
  /\ Q0 # Q1 /\ Q0 # Q2 /\ Q0 # Q3 /\ Q0 # Q4 /\ Q1 # Q2 /\ Q1 # Q3 /\ Q1 # Q4
  /\ Q2 # Q3 /\ Q2 # Q4 /\ Q3 # Q4
  /\ Rest \subseteq Seq({"panic", "complete", "set", "notify"})
  /\ \A q \in Rest : (\E i \in DOMAIN q : q[i] = "set") <=> q \in {Q4, Q3, Q2}
<1>1. /\ Head(Q4) = "panic" /\ Head(Q3) = "complete" /\ Head(Q2) = "set" /\ Head(Q1) = "notify"
  BY DEF Q4, Q3, Q2, Q1
<1>2. Tail(Q4) = Q3
  BY DEF Q4, Q3
<1>3. Tail(Q3) = Q2
  BY DEF Q3, Q2
<1>4. Tail(Q2) = Q1
  BY DEF Q2, Q1
<1>5. Tail(Q1) = Q0
  BY DEF Q1, Q0
<1>6. Len(Q4) = 4 /\ Len(Q3) = 3 /\ Len(Q2) = 2 /\ Len(Q1) = 1 /\ Len(Q0) = 0
  BY DEF Q4, Q3, Q2, Q1, Q0
<1>7. Rest \subseteq Seq({"panic", "complete", "set", "notify"})
  BY DEF Rest, Q4, Q3, Q2, Q1, Q0
<1>8. /\ \E i \in DOMAIN Q4 : Q4[i] = "set"
      /\ \E i \in DOMAIN Q3 : Q3[i] = "set"
      /\ \E i \in DOMAIN Q2 : Q2[i] = "set"
      /\ \A i \in DOMAIN Q1 : Q1[i] # "set"
      /\ \A i \in DOMAIN Q0 : Q0[i] # "set"
  BY DEF Q4, Q3, Q2, Q1, Q0
<1>9. /\ Q0 # Q1 /\ Q0 # Q2 /\ Q0 # Q3 /\ Q0 # Q4
  <2> HIDE DEF Q4, Q3, Q2, Q1, Q0
  <2> QED  BY <1>6, Z3
<1>10. Q1 # Q2 /\ Q1 # Q3 /\ Q1 # Q4 /\ Q2 # Q3 /\ Q2 # Q4 /\ Q3 # Q4
  BY <1>6, Z3
<1>11. ASSUME NEW q \in Rest
       PROVE  (\E i \in DOMAIN q : q[i] = "set") <=> q \in {Q4, Q3, Q2}
  <2>1. CASE q \in {Q4, Q3, Q2}
    BY <1>8, <2>1
  <2>2. CASE q \in {Q1, Q0}
    <3>1. q \notin {Q4, Q3, Q2}
      BY <1>9, <1>10, <2>2
    <3> QED  BY <1>8, <2>2, <3>1
  <2> QED
    BY <2>1, <2>2 DEF Rest
<1> QED
  BY <1>1, <1>2, <1>3, <1>4, <1>5, <1>7, <1>9, <1>10, <1>11

-----------------------------------------------------------------------------
(***************************************************************************)
(* The invariant.                                                          *)
(***************************************************************************)
IsSet(t) == outcome[t] # "none" /\ todo[t] \in {Q1, Q0}
CompletedTasks == {t \in Task : outcome[t] # "none" /\ todo[t] \in {Q2, Q1, Q0}}
PanickedTasks == {t \in Task : outcome[t] = "err" /\ todo[t] # Q4}
SubmittedTasks == {t \in Task : sub[t] # "idle"}

\* How far the wrapper of a task has come, and that it is the task's job.
WrapperOK ==
  /\ \A t \in Task :
       /\ todo[t] \in Rest
       /\ outcome[t] = "none" => todo[t] = Q0
       /\ outcome[t] = "ok" => todo[t] # Q4
       /\ phase[t] \in {"unsubmitted", "waiting"} => outcome[t] = "none"
       /\ phase[t] = "running" /\ outcome[t] # "none" => todo[t] # Q0
       /\ phase[t] = "finished" => outcome[t] # "none" /\ todo[t] = Q0
       /\ sub[t] = "done" <=> phase[t] # "unsubmitted"
  /\ closed => \A t \in Task : phase[t] # "running"

\* The counters count the tasks that have come that far.
CountersOK ==
  /\ submitted = Cardinality(SubmittedTasks)
  /\ completed = Cardinality(CompletedTasks) + Cardinality(rethrown)
  /\ panicked = Cardinality(PanickedTasks)
  /\ \A t \in rethrown : outcome[t] = "err"

\* A result that has been set is in the handle, or one join() has it.
HandlesOK ==
  /\ \A t \in Task :
       /\ Ready(t) => IsSet(t) /\ result[t] = outcome[t] /\ Taken(t) = {}
       /\ \A i, j \in Taken(t) : i = j
       /\ \A j \in Taken(t) : IsSet(t) /\ call[j] = outcome[t]
       /\ IsSet(t) /\ ~Ready(t) => Taken(t) # {}
  /\ \A j \in polled : IsSet(j[2]) /\ (call[j] = "waiting" => Taken(j[2]) # {})

JoinedTasks == {j[2] : j \in joined}
JoinedErrors == {j[2] : j \in {k \in joined : call[k] = "err"}}

\* What snapshot() has loaded so far.
SnapOK ==
  /\ Len(snap) <= 3
  /\ joined \subseteq Returned
  /\ Len(snap) >= 2 => Cardinality(JoinedTasks) <= snap[2]
  /\ Len(snap) = 3 => Cardinality(JoinedErrors) <= snap[3]

HInv == TypeOK /\ WrapperOK /\ CountersOK /\ HandlesOK /\ SnapOK

-----------------------------------------------------------------------------
(***************************************************************************)
(* The wrapper's own steps.                                                *)
(***************************************************************************)

\* Do(t, s) is the step of the wrapper that todo[t] says is next.
LEMMA DoStep ==
  ASSUME TypeOK, WrapperOK, NEW t \in Task, NEW s, Do(t, s)
  PROVE  /\ outcome[t] # "none"
         /\ todo' = [todo EXCEPT ![t] = Tail(todo[t])]
         /\ s = "panic" => todo[t] = Q4 /\ todo'[t] = Q3
         /\ s = "complete" => todo[t] = Q3 /\ todo'[t] = Q2
         /\ s = "set" => todo[t] = Q2 /\ todo'[t] = Q1
         /\ s = "notify" => todo[t] = Q1 /\ todo'[t] = Q0
<1>1. todo[t] # Q0 /\ Head(todo[t]) = s /\ todo' = [todo EXCEPT ![t] = Tail(todo[t])]
  BY DEF Do, Q0
<1>2. todo[t] \in Rest /\ (outcome[t] = "none" => todo[t] = Q0)
  BY DEF WrapperOK
<1>3. todo'[t] = Tail(todo[t])
  BY <1>1 DEF TypeOK
<1>4. todo[t] \in {Q4, Q3, Q2, Q1}
  BY <1>1, <1>2 DEF Rest
<1> QED
  BY <1>1, <1>2, <1>3, <1>4, Steps

\* What Ends(t, o) leaves the wrapper to do.
LEMMA EndsStep ==
  ASSUME TypeOK, NEW t \in Task, NEW o \in Outcome, Ends(t, o)
  PROVE  /\ outcome' = [outcome EXCEPT ![t] = o] /\ outcome'[t] = o
         /\ todo'[t] = IF o = "ok" THEN Q3 ELSE Q4
         /\ todo' = [todo EXCEPT ![t] = IF o = "ok" THEN Q3 ELSE Q4]
<1>1. Wrapper(o) = IF o = "ok" THEN Q3 ELSE Q4
  BY DEF Wrapper, Q3, Q4
<1> QED
  BY <1>1 DEF Ends, TypeOK

-----------------------------------------------------------------------------
(***************************************************************************)
(* Types.                                                                  *)
(***************************************************************************)

\* A join() call is of a task of the workload.
LEMMA CallTask ==
  ASSUME NEW j \in Call
  PROVE  j[2] \in Task
BY HandleAssumption, WorkloadAssumption DEF Call

\* Types hold at the start.
LEMMA InitType == Init => TypeOK
<1> HAVE Init
<1>1. Pool!TypeOK
  BY DEF Init, Pool!Init, Pool!TypeOK, Pool!Phase
<1>2. todo \in [Task -> Seq({"panic", "complete", "set", "notify"})]
  BY DEF Init
<1>3. snap \in Seq(Nat)
  BY DEF Init
<1>4. /\ sub \in [Task -> {"idle", "counted", "done"}]
      /\ outcome \in [Task -> Outcome \cup {"none"}]
      /\ result \in [Task -> Outcome \cup {"none"}]
      /\ call \in [Call -> {"no", "calling", "waiting"} \cup Over]
  BY DEF Init
<1> QED
  BY <1>1, <1>2, <1>3, <1>4 DEF Init, TypeOK

\* A step of the wrapper keeps to the wrapper's alphabet.
LEMMA DoType ==
  ASSUME TypeOK, WrapperOK, NEW t \in Task, NEW s, Do(t, s)
  PROVE  todo' \in [Task -> Seq({"panic", "complete", "set", "notify"})]
<1>1. todo[t] \in Seq({"panic", "complete", "set", "notify"}) /\ todo[t] # << >>
  BY DEF TypeOK, Do
<1>2. Tail(todo[t]) \in Seq({"panic", "complete", "set", "notify"})
  BY <1>1
<1> QED
  BY <1>2, DoStep DEF TypeOK

\* So does the end of the body.
LEMMA EndsType ==
  ASSUME TypeOK, NEW t \in Task, NEW o \in Outcome, Ends(t, o)
  PROVE  /\ todo' \in [Task -> Seq({"panic", "complete", "set", "notify"})]
         /\ outcome' \in [Task -> Outcome \cup {"none"}]
<1>1. /\ outcome' = [outcome EXCEPT ![t] = o]
      /\ todo' = [todo EXCEPT ![t] = IF o = "ok" THEN Q3 ELSE Q4]
  BY EndsStep
<1>2. Q3 \in Seq({"panic", "complete", "set", "notify"})
  BY Steps DEF Rest
<1>3. Q4 \in Seq({"panic", "complete", "set", "notify"})
  BY Steps DEF Rest
<1> QED
  BY <1>1, <1>2, <1>3 DEF TypeOK

\* snapshot() loads three counters.
LEMMA ThreeCounters ==
  /\ Len(Counters) = 3
  /\ Counters[1] = submitted /\ Counters[2] = completed /\ Counters[3] = panicked
BY DEF Counters

\* Every step keeps the types.
LEMMA NextType ==
  ASSUME TypeOK, WrapperOK, [Next]_vars
  PROVE  TypeOK'
<1> USE DEF poolVars, wrapperVars, handleVars, counterVars, snapVars, Over, Outcome
<1>1. ASSUME NEW t \in Task, RecordSubmitted(t) PROVE TypeOK'
  BY <1>1 DEF RecordSubmitted, TypeOK, Pool!TypeOK
<1>2. ASSUME NEW t \in Task, Enqueue(t) PROVE TypeOK'
  BY <1>2 DEF Enqueue, Pool!Submit, TypeOK, Pool!TypeOK, Pool!Phase
<1>3. ASSUME NEW t \in Task, Start(t) PROVE TypeOK'
  BY <1>3 DEF Start, Pool!Start, TypeOK, Pool!TypeOK, Pool!Phase
<1>4. ASSUME NEW t \in Task, NEW o \in Outcome, BodyEnds(t, o) PROVE TypeOK'
  <2>1. Ends(t, o)
    BY <1>4 DEF BodyEnds
  <2>2. todo' \in [Task -> Seq({"panic", "complete", "set", "notify"})]
    BY <2>1, EndsType
  <2>3. outcome' \in [Task -> Outcome \cup {"none"}]
    BY <2>1, EndsType
  <2> QED
    BY <1>4, <2>2, <2>3 DEF BodyEnds, TypeOK, Pool!TypeOK
<1>5. ASSUME NEW t \in Task, RecordCompleted(t) PROVE TypeOK'
  <2>1. todo' \in [Task -> Seq({"panic", "complete", "set", "notify"})]
    BY <1>5, DoType DEF RecordCompleted
  <2> QED
    BY <1>5, <2>1 DEF RecordCompleted, TypeOK, Pool!TypeOK
<1>6. ASSUME NEW t \in Task, RecordPanic(t) PROVE TypeOK'
  <2>1. todo' \in [Task -> Seq({"panic", "complete", "set", "notify"})]
    BY <1>6, DoType DEF RecordPanic
  <2> QED
    BY <1>6, <2>1 DEF RecordPanic, TypeOK, Pool!TypeOK
<1>7. ASSUME NEW t \in Task, SetResult(t) PROVE TypeOK'
  <2>1. todo' \in [Task -> Seq({"panic", "complete", "set", "notify"})]
    BY <1>7, DoType DEF SetResult
  <2> QED
    BY <1>7, <2>1 DEF SetResult, TypeOK, Pool!TypeOK
<1>8. ASSUME NEW t \in Task, SetThrows(t) PROVE TypeOK'
  <2>1. Ends(t, "err")
    BY <1>8 DEF SetThrows
  <2>2. todo' \in [Task -> Seq({"panic", "complete", "set", "notify"})]
    BY <2>1, EndsType
  <2>3. outcome' \in [Task -> Outcome \cup {"none"}]
    BY <2>1, EndsType
  <2> QED
    BY <1>8, <2>2, <2>3 DEF SetThrows, TypeOK, Pool!TypeOK
<1>9. ASSUME NEW t \in Task, NotifyJoiners(t) PROVE TypeOK'
  <2>1. todo' \in [Task -> Seq({"panic", "complete", "set", "notify"})]
    BY <1>9, DoType DEF NotifyJoiners
  <2> QED
    BY <1>9, <2>1 DEF NotifyJoiners, WakeAll, Pool!Finish, TypeOK, Pool!TypeOK, Pool!Phase
<1>10. ASSUME NEW j \in Call, JoinCall(j) PROVE TypeOK'
  BY <1>10 DEF JoinCall, TypeOK, Pool!TypeOK
<1>11. ASSUME NEW j \in Call, IsFinished(j) PROVE TypeOK'
  BY <1>11 DEF IsFinished, TypeOK, Pool!TypeOK
<1>12. ASSUME NEW j \in Call, JoinWait(j) PROVE TypeOK'
  BY <1>12 DEF JoinWait, TypeOK, Pool!TypeOK
<1>13. ASSUME NEW j \in Call, JoinTake(j) PROVE TypeOK'
  BY <1>13, CallTask DEF JoinTake, Ready, Reset, TypeOK, Pool!TypeOK
<1>14. ASSUME NEW j \in Call, JoinThrows(j) PROVE TypeOK'
  BY <1>14 DEF JoinThrows, TypeOK, Pool!TypeOK
<1>15. ASSUME NEW j \in Call, SpuriousWake(j) PROVE TypeOK'
  BY <1>15 DEF SpuriousWake, TypeOK, Pool!TypeOK
<1>16. CASE Load
  <2>1. snap \in Seq(Nat) /\ Len(snap) \in Nat /\ Len(snap) < 3
    BY <1>16, ThreeCounters DEF Load, TypeOK
  <2>2. Counters[Len(snap) + 1] \in Nat
    <3>1. Len(snap) + 1 \in {1, 2, 3}
      BY <2>1
    <3> QED  BY <3>1, ThreeCounters DEF TypeOK
  <2>3. snap' \in Seq(Nat)
    BY <1>16, <2>1, <2>2 DEF Load
  <2>4. joined' \subseteq Call
    BY <1>16 DEF Load, Returned, TypeOK
  <2> QED
    BY <1>16, <2>3, <2>4 DEF Load, TypeOK, Pool!TypeOK
<1>17. CASE Cancel
  BY <1>17 DEF Cancel, TypeOK, Pool!TypeOK
<1>18. CASE Shutdown
  BY <1>18 DEF Shutdown, Pool!Shutdown, Pool!Return, TypeOK, Pool!TypeOK
<1>19. CASE UNCHANGED vars
  BY <1>19 DEF vars, TypeOK, Pool!TypeOK
<1> HIDE DEF poolVars, wrapperVars, handleVars, counterVars, snapVars, Over, Outcome
<1> QED
  BY <1>1, <1>2, <1>3, <1>4, <1>5, <1>6, <1>7, <1>8, <1>9, <1>10, <1>11, <1>12, <1>13,
     <1>14, <1>15, <1>16, <1>17, <1>18, <1>19 DEF Next, WrapperNext, JoinNext

-----------------------------------------------------------------------------
(***************************************************************************)
(* The wrapper.                                                            *)
(***************************************************************************)

\* The wrapper of t alone moves on, while its job is running.
LEMMA DoWrapper ==
  ASSUME TypeOK, WrapperOK, NEW t \in Task, NEW s, Do(t, s),
         s \in {"panic", "complete", "set"},
         UNCHANGED <<phase, closed, sub, outcome>>
  PROVE  WrapperOK'
<1>0. /\ outcome[t] # "none"
      /\ todo' = [todo EXCEPT ![t] = Tail(todo[t])]
      /\ todo'[t] \in {Q3, Q2, Q1} /\ todo[t] \in {Q4, Q3, Q2}
  BY DoStep
<1>1. outcome[t] # "none" /\ todo'[t] \in {Q3, Q2, Q1} /\ todo[t] # Q0
  BY <1>0, Steps
<1>2. phase[t] = "running"
  BY <1>1 DEF WrapperOK, TypeOK, Pool!TypeOK, Pool!Phase
<1>3. todo'[t] \in Rest /\ todo'[t] # Q0 /\ todo'[t] # Q4
  BY <1>1, Steps DEF Rest
<1>4. \A u \in Task : u # t => todo'[u] = todo[u]
  BY <1>0 DEF TypeOK
<1> QED
  BY <1>1, <1>2, <1>3, <1>4 DEF WrapperOK

\* A body that has ended leaves the wrapper to run.
LEMMA EndsWrapper ==
  ASSUME TypeOK, WrapperOK, NEW t \in Task, NEW o \in Outcome, Ends(t, o),
         phase[t] = "running",
         UNCHANGED <<phase, closed, sub>>
  PROVE  WrapperOK'
<1>1. /\ outcome' = [outcome EXCEPT ![t] = o]
      /\ outcome'[t] = o
      /\ todo' = [todo EXCEPT ![t] = IF o = "ok" THEN Q3 ELSE Q4]
      /\ todo'[t] = IF o = "ok" THEN Q3 ELSE Q4
  BY EndsStep
<1>2. todo'[t] \in Rest /\ todo'[t] # Q0 /\ outcome'[t] # "none"
  BY <1>1, Steps DEF Rest, Outcome
<1>3. outcome'[t] = "ok" => todo'[t] # Q4
  BY <1>1, Steps
<1>4. \A u \in Task : u # t => todo'[u] = todo[u] /\ outcome'[u] = outcome[u]
  BY <1>1 DEF TypeOK
<1> QED
  BY <1>2, <1>3, <1>4 DEF WrapperOK

\* Every step keeps a wrapper in step with its job.
LEMMA NextWrapper ==
  ASSUME TypeOK, WrapperOK, [Next]_vars
  PROVE  WrapperOK'
<1> USE DEF poolVars, wrapperVars, handleVars, counterVars, snapVars
<1>1. ASSUME NEW t \in Task, RecordSubmitted(t) PROVE WrapperOK'
  <2>1. \A u \in Task : sub'[u] = "done" <=> sub[u] = "done"
    BY <1>1 DEF RecordSubmitted, TypeOK
  <2> QED
    BY <1>1, <2>1 DEF RecordSubmitted, WrapperOK
<1>2. ASSUME NEW t \in Task, Enqueue(t) PROVE WrapperOK'
  <2>1. phase[t] = "unsubmitted" /\ phase'[t] = "waiting" /\ sub'[t] = "done"
    BY <1>2 DEF Enqueue, Pool!Submit, TypeOK, Pool!TypeOK
  <2>2. \A u \in Task : u # t => phase'[u] = phase[u] /\ sub'[u] = sub[u]
    BY <1>2 DEF Enqueue, Pool!Submit, TypeOK, Pool!TypeOK
  <2>3. UNCHANGED <<outcome, todo, closed>>
    BY <1>2 DEF Enqueue, Pool!Submit
  <2> QED
    BY <2>1, <2>2, <2>3 DEF WrapperOK
<1>3. ASSUME NEW t \in Task, Start(t) PROVE WrapperOK'
  <2>1. phase[t] = "waiting" /\ phase'[t] = "running" /\ ~closed
    BY <1>3 DEF Start, Pool!Start, TypeOK, Pool!TypeOK
  <2>2. \A u \in Task : u # t => phase'[u] = phase[u]
    BY <1>3 DEF Start, Pool!Start, TypeOK, Pool!TypeOK
  <2>3. UNCHANGED <<outcome, todo, closed, sub>>
    BY <1>3 DEF Start, Pool!Start
  <2> QED
    BY <2>1, <2>2, <2>3 DEF WrapperOK
<1>4. ASSUME NEW t \in Task, NEW o \in Outcome, BodyEnds(t, o) PROVE WrapperOK'
  BY <1>4, EndsWrapper DEF BodyEnds, InBody
<1>5. ASSUME NEW t \in Task, RecordCompleted(t) PROVE WrapperOK'
  BY <1>5, DoWrapper DEF RecordCompleted
<1>6. ASSUME NEW t \in Task, RecordPanic(t) PROVE WrapperOK'
  BY <1>6, DoWrapper DEF RecordPanic
<1>7. ASSUME NEW t \in Task, SetResult(t) PROVE WrapperOK'
  BY <1>7, DoWrapper DEF SetResult
<1>8. ASSUME NEW t \in Task, SetThrows(t) PROVE WrapperOK'
  <2>1. todo[t] # Q0 /\ outcome[t] = "ok"
    BY <1>8 DEF SetThrows, Q0
  <2>2. phase[t] = "running"
    BY <2>1 DEF WrapperOK, TypeOK, Pool!TypeOK, Pool!Phase
  <2> QED
    BY <1>8, <2>2, EndsWrapper DEF SetThrows, Outcome
<1>9. ASSUME NEW t \in Task, NotifyJoiners(t) PROVE WrapperOK'
  <2>1. /\ outcome[t] # "none" /\ todo'[t] = Q0
        /\ todo' = [todo EXCEPT ![t] = Tail(todo[t])]
    BY <1>9, DoStep DEF NotifyJoiners
  <2>2. phase[t] = "running" /\ phase'[t] = "finished"
    BY <1>9 DEF NotifyJoiners, Pool!Finish, TypeOK, Pool!TypeOK
  <2>3. \A u \in Task : u # t => phase'[u] = phase[u] /\ todo'[u] = todo[u]
    BY <1>9, <2>1 DEF NotifyJoiners, Pool!Finish, TypeOK, Pool!TypeOK
  <2>4. UNCHANGED <<outcome, closed, sub>>
    BY <1>9 DEF NotifyJoiners, Pool!Finish
  <2>5. Q0 \in Rest /\ Q0 # Q4
    BY Steps DEF Rest
  <2>6. closed' => \A u \in Task : phase'[u] # "running"
    BY <2>2, <2>4 DEF WrapperOK
  <2> QED
    BY <2>1, <2>2, <2>3, <2>4, <2>5, <2>6 DEF WrapperOK
<1>10. ASSUME NEW j \in Call,
              JoinCall(j) \/ IsFinished(j) \/ JoinNext(j) \/ SpuriousWake(j)
       PROVE  WrapperOK'
  <2>1. UNCHANGED <<phase, closed, sub, outcome, todo>>
    BY <1>10 DEF JoinCall, IsFinished, JoinNext, JoinWait, JoinTake, JoinThrows, SpuriousWake
  <2> QED
    BY <2>1 DEF WrapperOK
<1>11. CASE Load \/ Cancel \/ UNCHANGED vars
  <2>1. UNCHANGED <<phase, closed, sub, outcome, todo>>
    BY <1>11 DEF Load, Cancel, vars
  <2> QED
    BY <2>1 DEF WrapperOK
<1>12. CASE Shutdown
  <2>1. UNCHANGED <<phase, sub, outcome, todo>>
    BY <1>12 DEF Shutdown, Pool!Shutdown, Pool!Return
  <2>2. closed' => \A t \in Task : phase[t] # "running"
    BY <1>12 DEF Shutdown, Pool!Shutdown, Pool!Return, WrapperOK
  <2> QED
    BY <2>1, <2>2 DEF WrapperOK
<1> HIDE DEF poolVars, wrapperVars, handleVars, counterVars, snapVars
<1> QED
  BY <1>1, <1>2, <1>3, <1>4, <1>5, <1>6, <1>7, <1>8, <1>9, <1>10, <1>11, <1>12
  DEF Next, WrapperNext

-----------------------------------------------------------------------------
(***************************************************************************)
(* The counters.                                                           *)
(***************************************************************************)

\* Counting one more.
LEMMA OneMore ==
  ASSUME NEW S, IsFiniteSet(S), NEW x, x \notin S
  PROVE  Cardinality(S \cup {x}) = Cardinality(S) + 1 /\ Cardinality(S) \in Nat
BY FS_AddElement, FS_CardinalityType

\* There are finitely many tasks, so sets of them can be counted.
LEMMA Countable ==
  ASSUME NEW S, S \subseteq Task
  PROVE  IsFiniteSet(S) /\ Cardinality(S) \in Nat
BY FS_Subset, FS_CardinalityType, WorkloadAssumption

\* A task is counted where its wrapper stands.
LEMMA CountersKept ==
  ASSUME CountersOK,
         \A t \in Task : sub'[t] = "idle" <=> sub[t] = "idle",
         \A t \in Task : t \in CompletedTasks' <=> t \in CompletedTasks,
         \A t \in Task : t \in PanickedTasks' <=> t \in PanickedTasks,
         \A t \in Task : outcome[t] = "err" => outcome'[t] = "err",
         rethrown \subseteq Task,
         UNCHANGED <<submitted, completed, panicked, rethrown>>
  PROVE  CountersOK'
<1>1. SubmittedTasks' = SubmittedTasks
  BY DEF SubmittedTasks
<1>2. CompletedTasks' = CompletedTasks
  BY DEF CompletedTasks
<1>3. PanickedTasks' = PanickedTasks
  BY DEF PanickedTasks
<1>4. \A t \in rethrown' : outcome'[t] = "err"
  BY DEF CountersOK
<1> QED
  BY <1>1, <1>2, <1>3, <1>4 DEF CountersOK

\* Steps that leave the wrappers and the submit() calls alone.
LEMMA CountersSame ==
  ASSUME CountersOK, UNCHANGED <<submitted, completed, panicked, rethrown, sub, outcome, todo>>
  PROVE  CountersOK'
BY DEF CountersOK, SubmittedTasks, CompletedTasks, PanickedTasks

\* Every step counts what it does.
LEMMA NextCounters ==
  ASSUME TypeOK, WrapperOK, CountersOK, [Next]_vars
  PROVE  CountersOK'
<1> USE DEF poolVars, wrapperVars, handleVars, counterVars, snapVars
<1>a. rethrown \subseteq Task
  BY HandleAssumption DEF TypeOK
<1>b. submitted \in Nat /\ completed \in Nat /\ panicked \in Nat
  BY DEF TypeOK
<1>c. /\ IsFiniteSet(SubmittedTasks) /\ Cardinality(SubmittedTasks) \in Nat
      /\ IsFiniteSet(CompletedTasks) /\ Cardinality(CompletedTasks) \in Nat
      /\ IsFiniteSet(PanickedTasks) /\ Cardinality(PanickedTasks) \in Nat
      /\ IsFiniteSet(rethrown) /\ Cardinality(rethrown) \in Nat
  <2>1. SubmittedTasks \subseteq Task /\ CompletedTasks \subseteq Task /\ PanickedTasks \subseteq Task
    BY DEF SubmittedTasks, CompletedTasks, PanickedTasks
  <2> QED
    BY <1>a, <2>1, Countable
<1>1. ASSUME NEW t \in Task, RecordSubmitted(t) PROVE CountersOK'
  <2>1. t \notin SubmittedTasks /\ SubmittedTasks' = SubmittedTasks \cup {t}
    BY <1>1 DEF RecordSubmitted, SubmittedTasks, TypeOK
  <2>2. submitted' = Cardinality(SubmittedTasks')
    BY <1>1, <1>c, <2>1, OneMore DEF RecordSubmitted, CountersOK
  <2>3. UNCHANGED <<completed, panicked, rethrown, outcome, todo>>
    BY <1>1 DEF RecordSubmitted
  <2>4. CompletedTasks' = CompletedTasks /\ PanickedTasks' = PanickedTasks
    BY <2>3 DEF CompletedTasks, PanickedTasks
  <2> QED
    BY <2>2, <2>3, <2>4 DEF CountersOK
<1>2. ASSUME NEW t \in Task, Enqueue(t) PROVE CountersOK'
  <2>1. \A u \in Task : sub'[u] = "idle" <=> sub[u] = "idle"
    BY <1>2 DEF Enqueue, TypeOK
  <2>2. UNCHANGED <<submitted, completed, panicked, rethrown, outcome, todo>>
    BY <1>2 DEF Enqueue
  <2>3. CompletedTasks' = CompletedTasks /\ PanickedTasks' = PanickedTasks
    BY <2>2 DEF CompletedTasks, PanickedTasks
  <2> QED
    BY <1>a, <2>1, <2>2, <2>3, CountersKept
<1>3. ASSUME NEW t \in Task, Start(t) PROVE CountersOK'
  BY <1>3, CountersSame DEF Start
<1>4. ASSUME NEW t \in Task, NEW o \in Outcome, BodyEnds(t, o) PROVE CountersOK'
  <2>1. outcome[t] = "none" /\ todo[t] = Q0
    BY <1>4 DEF BodyEnds, InBody, WrapperOK
  <2>2. /\ outcome' = [outcome EXCEPT ![t] = o] /\ outcome'[t] = o
        /\ todo'[t] = IF o = "ok" THEN Q3 ELSE Q4
        /\ todo' = [todo EXCEPT ![t] = IF o = "ok" THEN Q3 ELSE Q4]
    BY <1>4, EndsStep DEF BodyEnds
  <2>3. \A u \in Task : u # t => todo'[u] = todo[u] /\ outcome'[u] = outcome[u]
    BY <2>2 DEF TypeOK
  <2>4. UNCHANGED <<submitted, completed, panicked, rethrown, sub>>
    BY <1>4 DEF BodyEnds
  <2>5. t \notin CompletedTasks /\ t \notin PanickedTasks
    BY <2>1 DEF CompletedTasks, PanickedTasks
  <2>6. t \notin CompletedTasks'
    BY <2>2, Steps DEF CompletedTasks
  <2>7. t \notin PanickedTasks'
    BY <2>2, Steps DEF PanickedTasks
  <2>8. \A u \in Task : u # t =>
           (u \in CompletedTasks' <=> u \in CompletedTasks) /\ (u \in PanickedTasks' <=> u \in PanickedTasks)
    BY <2>3 DEF CompletedTasks, PanickedTasks
  <2>9. /\ \A u \in Task : u \in CompletedTasks' <=> u \in CompletedTasks
        /\ \A u \in Task : u \in PanickedTasks' <=> u \in PanickedTasks
    BY <2>5, <2>6, <2>7, <2>8
  <2>10. \A u \in Task : outcome[u] = "err" => outcome'[u] = "err"
    BY <2>1, <2>3
  <2> QED
    BY <1>a, <2>4, <2>9, <2>10, CountersKept
<1>5. ASSUME NEW t \in Task, RecordCompleted(t) PROVE CountersOK'
  <2>1. /\ outcome[t] # "none" /\ todo[t] = Q3 /\ todo'[t] = Q2
        /\ todo' = [todo EXCEPT ![t] = Tail(todo[t])]
    BY <1>5, DoStep DEF RecordCompleted
  <2>2. \A u \in Task : u # t => todo'[u] = todo[u]
    BY <2>1 DEF TypeOK
  <2>3. UNCHANGED <<submitted, panicked, rethrown, sub, outcome>> /\ completed' = completed + 1
    BY <1>5 DEF RecordCompleted
  <2>4. t \notin CompletedTasks /\ CompletedTasks' = CompletedTasks \cup {t}
    BY <2>1, <2>2, <2>3, Steps DEF CompletedTasks
  <2>5. PanickedTasks' = PanickedTasks /\ SubmittedTasks' = SubmittedTasks
    BY <2>1, <2>2, <2>3, Steps DEF PanickedTasks, SubmittedTasks
  <2>6. Cardinality(CompletedTasks') = Cardinality(CompletedTasks) + 1
    BY <1>c, <2>4, OneMore
  <2>7. completed' = Cardinality(CompletedTasks') + Cardinality(rethrown)
    BY <1>c, <2>3, <2>6 DEF CountersOK
  <2> QED
    BY <2>3, <2>5, <2>7 DEF CountersOK
<1>6. ASSUME NEW t \in Task, RecordPanic(t) PROVE CountersOK'
  <2>1. /\ outcome[t] # "none" /\ todo[t] = Q4 /\ todo'[t] = Q3
        /\ todo' = [todo EXCEPT ![t] = Tail(todo[t])]
    BY <1>6, DoStep DEF RecordPanic
  <2>2. \A u \in Task : u # t => todo'[u] = todo[u]
    BY <2>1 DEF TypeOK
  <2>3. UNCHANGED <<submitted, completed, rethrown, sub, outcome>> /\ panicked' = panicked + 1
    BY <1>6 DEF RecordPanic
  <2>4. outcome[t] = "err"
    BY <2>1 DEF WrapperOK, TypeOK, Outcome
  <2>5. t \notin PanickedTasks /\ PanickedTasks' = PanickedTasks \cup {t}
    BY <2>1, <2>2, <2>3, <2>4, Steps DEF PanickedTasks
  <2>6. CompletedTasks' = CompletedTasks /\ SubmittedTasks' = SubmittedTasks
    BY <2>1, <2>2, <2>3, Steps DEF CompletedTasks, SubmittedTasks
  <2>7. panicked' = Cardinality(PanickedTasks')
    BY <1>c, <2>3, <2>5, OneMore DEF CountersOK
  <2> QED
    BY <2>3, <2>6, <2>7 DEF CountersOK
<1>7. ASSUME NEW t \in Task, SetResult(t) \/ NotifyJoiners(t) PROVE CountersOK'
  <2>1. /\ outcome[t] # "none" /\ todo[t] \in {Q2, Q1} /\ todo'[t] \in {Q1, Q0}
        /\ todo' = [todo EXCEPT ![t] = Tail(todo[t])]
    BY <1>7, DoStep DEF SetResult, NotifyJoiners
  <2>2. \A u \in Task : u # t => todo'[u] = todo[u]
    BY <2>1 DEF TypeOK
  <2>3. UNCHANGED <<submitted, completed, panicked, rethrown, sub, outcome>>
    BY <1>7 DEF SetResult, NotifyJoiners
  <2>4. CompletedTasks' = CompletedTasks
    BY <2>1, <2>2, <2>3, Steps DEF CompletedTasks
  <2>5. PanickedTasks' = PanickedTasks
    BY <2>1, <2>2, <2>3, Steps DEF PanickedTasks
  <2> QED
    BY <1>a, <2>3, <2>4, <2>5, CountersKept
<1>8. ASSUME NEW t \in Task, SetThrows(t) PROVE CountersOK'
  <2>1. todo[t] # Q0 /\ Head(todo[t]) = "set" /\ todo[t] \in Rest /\ outcome[t] = "ok"
    BY <1>8 DEF SetThrows, WrapperOK, Q0
  <2>2. todo[t] = Q2
    BY <2>1, Steps DEF Rest
  <2>3. /\ outcome' = [outcome EXCEPT ![t] = "err"] /\ outcome'[t] = "err"
        /\ todo'[t] = Q4 /\ todo' = [todo EXCEPT ![t] = Q4]
    BY <1>8, EndsStep DEF SetThrows, Outcome
  <2>4. \A u \in Task : u # t => todo'[u] = todo[u] /\ outcome'[u] = outcome[u]
    BY <2>3 DEF TypeOK
  <2>5. UNCHANGED <<submitted, completed, panicked, sub>> /\ rethrown' = rethrown \cup {t}
    BY <1>8 DEF SetThrows
  <2>6. t \notin rethrown
    BY <2>1 DEF CountersOK
  <2>7. t \notin CompletedTasks' /\ CompletedTasks = CompletedTasks' \cup {t}
    BY <2>1, <2>2, <2>3, <2>4, Steps DEF CompletedTasks
  <2>8. PanickedTasks' = PanickedTasks /\ SubmittedTasks' = SubmittedTasks
    BY <2>1, <2>3, <2>4, <2>5 DEF PanickedTasks, SubmittedTasks
  <2>9. IsFiniteSet(CompletedTasks')
    BY Countable DEF CompletedTasks
  <2>10. Cardinality(CompletedTasks) = Cardinality(CompletedTasks') + 1 /\ Cardinality(CompletedTasks') \in Nat
    BY <2>7, <2>9, OneMore
  <2>11. Cardinality(rethrown') = Cardinality(rethrown) + 1
    BY <1>c, <2>5, <2>6, OneMore
  <2>12. completed' = Cardinality(CompletedTasks') + Cardinality(rethrown')
    BY <1>c, <2>5, <2>10, <2>11 DEF CountersOK
  <2>13. \A u \in rethrown' : outcome'[u] = "err"
    BY <1>a, <2>3, <2>4, <2>5 DEF CountersOK
  <2> QED
    BY <2>5, <2>8, <2>12, <2>13 DEF CountersOK
<1>9. ASSUME NEW j \in Call,
             JoinCall(j) \/ IsFinished(j) \/ JoinNext(j) \/ SpuriousWake(j)
      PROVE  CountersOK'
  BY <1>9, CountersSame
  DEF JoinCall, IsFinished, JoinNext, JoinWait, JoinTake, JoinThrows, SpuriousWake
<1>10. CASE Load \/ Cancel \/ Shutdown \/ UNCHANGED vars
  BY <1>10, CountersSame DEF Load, Cancel, Shutdown, vars
<1> HIDE DEF poolVars, wrapperVars, handleVars, counterVars, snapVars
<1> QED
  BY <1>1, <1>2, <1>3, <1>4, <1>5, <1>6, <1>7, <1>8, <1>9, <1>10 DEF Next, WrapperNext

-----------------------------------------------------------------------------
(***************************************************************************)
(* The handles.                                                            *)
(***************************************************************************)

\* Steps that set no result and in which no join() returns one.
LEMMA HandlesKept ==
  ASSUME TypeOK, HandlesOK,
         \A t \in Task : IsSet(t)' <=> IsSet(t),
         \A t \in Task : IsSet(t) => outcome'[t] = outcome[t],
         UNCHANGED <<result, polled>>,
         \A j \in Call : call'[j] \in Outcome <=> call[j] \in Outcome,
         \A j \in Call : call[j] \in Outcome => call'[j] = call[j],
         \A j \in polled : call'[j] = "waiting" => call[j] = "waiting" \/ Taken(j[2]) # {}
  PROVE  HandlesOK'
<1>1. Returned' = Returned
  BY DEF Returned
<1>2. \A t \in Task : Taken(t)' = Taken(t) /\ Ready(t)' = Ready(t)
  BY <1>1 DEF Taken, Ready
<1>3. \A j \in Returned : call'[j] = call[j]
  BY DEF Returned
<1>4. ASSUME NEW t \in Task
      PROVE  /\ Ready(t)' => IsSet(t)' /\ result'[t] = outcome'[t] /\ Taken(t)' = {}
             /\ \A i, j \in Taken(t)' : i = j
             /\ \A j \in Taken(t)' : IsSet(t)' /\ call'[j] = outcome'[t]
             /\ IsSet(t)' /\ ~Ready(t)' => Taken(t)' # {}
  <2>1. /\ Ready(t) => IsSet(t) /\ result[t] = outcome[t] /\ Taken(t) = {}
        /\ \A i, j \in Taken(t) : i = j
        /\ \A j \in Taken(t) : IsSet(t) /\ call[j] = outcome[t]
        /\ IsSet(t) /\ ~Ready(t) => Taken(t) # {}
    BY DEF HandlesOK
  <2>2. \A j \in Taken(t) : call'[j] = call[j]
    BY <1>3 DEF Taken
  <2> QED
    BY <1>2, <2>1, <2>2
<1>5. ASSUME NEW j \in polled
      PROVE  IsSet(j[2])' /\ (call'[j] = "waiting" => Taken(j[2])' # {})
  <2>1. j[2] \in Task
    BY CallTask DEF TypeOK
  <2>2. IsSet(j[2]) /\ (call[j] = "waiting" => Taken(j[2]) # {})
    BY DEF HandlesOK
  <2> QED
    BY <1>2, <2>1, <2>2
<1> QED
  BY <1>4, <1>5 DEF HandlesOK

\* Every step keeps each result in one place.
LEMMA NextHandles ==
  ASSUME TypeOK, WrapperOK, HandlesOK, [Next]_vars
  PROVE  HandlesOK'
<1> USE DEF poolVars, wrapperVars, handleVars, counterVars, snapVars
<1>1. CASE UNCHANGED <<outcome, todo, result, polled, call>>
  BY <1>1, HandlesKept DEF IsSet
<1>2. ASSUME NEW t \in Task, NEW o \in Outcome, BodyEnds(t, o) \/ (SetThrows(t) /\ o = "err")
      PROVE  HandlesOK'
  <2>1. Ends(t, o) /\ UNCHANGED <<result, polled, call>>
    BY <1>2 DEF BodyEnds, SetThrows
  <2>2. /\ todo'[t] \in {Q3, Q4}
        /\ todo' = [todo EXCEPT ![t] = IF o = "ok" THEN Q3 ELSE Q4]
        /\ outcome' = [outcome EXCEPT ![t] = o]
    BY <2>1, EndsStep
  <2>3. \A u \in Task : u # t => todo'[u] = todo[u] /\ outcome'[u] = outcome[u]
    BY <2>2 DEF TypeOK
  <2>4. ~IsSet(t)'
    BY <2>2, Steps DEF IsSet
  <2>5. ~IsSet(t)
    <3>1. CASE outcome[t] = "none"
      BY <3>1 DEF IsSet
    <3>2. CASE SetThrows(t)
      <4>1. todo[t] # Q0 /\ Head(todo[t]) = "set"
        BY <3>2 DEF SetThrows, Q0
      <4> QED
        BY <4>1, Steps DEF IsSet
    <3> QED
      BY <1>2, <3>1, <3>2 DEF BodyEnds, InBody
  <2>6. \A u \in Task : u # t => (IsSet(u)' <=> IsSet(u))
    BY <2>3 DEF IsSet
  <2>7. /\ \A u \in Task : IsSet(u)' <=> IsSet(u)
        /\ \A u \in Task : IsSet(u) => outcome'[u] = outcome[u]
    BY <2>3, <2>4, <2>5, <2>6
  <2> QED
    BY <2>1, <2>7, HandlesKept
<1>3. ASSUME NEW t \in Task, RecordCompleted(t) \/ RecordPanic(t) \/ NotifyJoiners(t)
      PROVE  HandlesOK'
  <2>1. /\ todo' = [todo EXCEPT ![t] = Tail(todo[t])]
        /\ \/ todo[t] \in {Q4, Q3} /\ todo'[t] \in {Q3, Q2}
           \/ todo[t] = Q1 /\ todo'[t] = Q0
    BY <1>3, DoStep DEF RecordCompleted, RecordPanic, NotifyJoiners
  <2>2. UNCHANGED <<outcome, result, polled>>
    BY <1>3 DEF RecordCompleted, RecordPanic, NotifyJoiners
  <2>3. \A u \in Task : u # t => todo'[u] = todo[u]
    BY <2>1 DEF TypeOK
  <2>4. \A u \in Task : IsSet(u)' <=> IsSet(u)
    BY <2>1, <2>2, <2>3, Steps DEF IsSet
  <2>5. \A j \in Call : call'[j] = call[j] \/ (call[j] = "waiting" /\ call'[j] = "calling")
    BY <1>3 DEF RecordCompleted, RecordPanic, NotifyJoiners, WakeAll
  <2>6. /\ \A j \in Call : call'[j] \in Outcome <=> call[j] \in Outcome
        /\ \A j \in Call : call[j] \in Outcome => call'[j] = call[j]
        /\ \A j \in polled : call'[j] = "waiting" => call[j] = "waiting"
    BY <2>5 DEF Outcome, TypeOK
  <2> QED
    BY <2>2, <2>4, <2>6, HandlesKept
<1>4. ASSUME NEW t \in Task, SetResult(t) PROVE HandlesOK'
  <2>1. /\ outcome[t] # "none" /\ todo[t] = Q2 /\ todo'[t] = Q1
        /\ todo' = [todo EXCEPT ![t] = Tail(todo[t])]
    BY <1>4, DoStep DEF SetResult
  <2>2. UNCHANGED <<outcome, call, polled>> /\ result' = [result EXCEPT ![t] = outcome[t]]
    BY <1>4 DEF SetResult
  <2>3. \A u \in Task : u # t => todo'[u] = todo[u] /\ result'[u] = result[u]
    BY <2>1, <2>2 DEF TypeOK
  <2>4. ~IsSet(t) /\ IsSet(t)' /\ result'[t] = outcome'[t] /\ Ready(t)'
    BY <2>1, <2>2, Steps DEF IsSet, Ready, TypeOK
  <2>5. \A u \in Task : Taken(u)' = Taken(u)
    BY <2>2 DEF Taken, Returned
  <2>6. Taken(t) = {}
    BY <2>4 DEF HandlesOK
  <2>7. \A u \in Task : u # t => (IsSet(u)' <=> IsSet(u)) /\ (Ready(u)' <=> Ready(u))
    BY <2>2, <2>3 DEF IsSet, Ready
  <2>8. ASSUME NEW u \in Task
        PROVE  /\ Ready(u)' => IsSet(u)' /\ result'[u] = outcome'[u] /\ Taken(u)' = {}
               /\ \A i, j \in Taken(u)' : i = j
               /\ \A j \in Taken(u)' : IsSet(u)' /\ call'[j] = outcome'[u]
               /\ IsSet(u)' /\ ~Ready(u)' => Taken(u)' # {}
    <3>1. CASE u = t
      BY <2>4, <2>5, <2>6, <3>1
    <3>2. CASE u # t
      BY <2>2, <2>3, <2>5, <2>7, <3>2 DEF HandlesOK
    <3> QED  BY <3>1, <3>2
  <2>9. ASSUME NEW j \in polled'
        PROVE  IsSet(j[2])' /\ (call'[j] = "waiting" => Taken(j[2])' # {})
    <3>1. j \in polled /\ j[2] \in Task
      BY <2>2, CallTask DEF TypeOK
    <3>2. IsSet(j[2]) /\ (call[j] = "waiting" => Taken(j[2]) # {})
      BY <3>1 DEF HandlesOK
    <3> QED
      BY <2>2, <2>4, <2>5, <2>7, <3>1, <3>2
  <2> QED
    BY <2>8, <2>9 DEF HandlesOK
<1>5. ASSUME NEW j \in Call, JoinTake(j) PROVE HandlesOK'
  <2> DEFINE t == j[2]
  <2>1. t \in Task
    BY CallTask
  <2> HIDE DEF t
  <2>2. /\ call[j] = "calling" /\ Ready(t) /\ call' = [call EXCEPT ![j] = result[t]]
        /\ result' = [result EXCEPT ![t] = "none"]
        /\ UNCHANGED <<outcome, todo, polled>>
    BY <1>5 DEF JoinTake, Reset, t
  <2>3. IsSet(t) /\ result[t] = outcome[t] /\ Taken(t) = {}
    BY <2>1, <2>2 DEF HandlesOK
  <2>4. call'[j] = outcome[t] /\ call'[j] \in Outcome /\ call'[j] # "waiting"
    BY <2>1, <2>2, <2>3 DEF TypeOK, Ready, Outcome
  <2>5. \A k \in Call : k # j => call'[k] = call[k]
    BY <2>2 DEF TypeOK
  <2>6. Returned' = Returned \cup {j} /\ j \notin Returned
    BY <2>2, <2>4, <2>5 DEF Returned, Outcome
  <2>7. Taken(t)' = {j}
    BY <2>3, <2>6 DEF Taken, t
  <2>8. \A u \in Task : u # t => Taken(u)' = Taken(u) /\ result'[u] = result[u]
    BY <2>2, <2>6 DEF Taken, t, TypeOK
  <2>9. \A u \in Task : IsSet(u)' <=> IsSet(u)
    BY <2>2 DEF IsSet
  <2>10. ~Ready(t)' /\ \A u \in Task : u # t => (Ready(u)' <=> Ready(u))
    BY <2>1, <2>2, <2>8 DEF Ready, TypeOK
  <2>11. ASSUME NEW u \in Task
        PROVE  /\ Ready(u)' => IsSet(u)' /\ result'[u] = outcome'[u] /\ Taken(u)' = {}
               /\ \A i, k \in Taken(u)' : i = k
               /\ \A k \in Taken(u)' : IsSet(u)' /\ call'[k] = outcome'[u]
               /\ IsSet(u)' /\ ~Ready(u)' => Taken(u)' # {}
    <3>1. CASE u = t
      BY <2>2, <2>3, <2>4, <2>7, <2>9, <2>10, <3>1
    <3>2. CASE u # t
      <4>1. \A k \in Taken(u) : call'[k] = call[k]
        BY <2>5, <2>6 DEF Taken, Returned
      <4>2. /\ Ready(u) => IsSet(u) /\ result[u] = outcome[u] /\ Taken(u) = {}
            /\ \A i, k \in Taken(u) : i = k
            /\ \A k \in Taken(u) : IsSet(u) /\ call[k] = outcome[u]
            /\ IsSet(u) /\ ~Ready(u) => Taken(u) # {}
        BY DEF HandlesOK
      <4> QED
        BY <2>2, <2>8, <2>9, <2>10, <3>2, <4>1, <4>2
    <3> QED  BY <3>1, <3>2
  <2>12. ASSUME NEW k \in polled'
         PROVE  IsSet(k[2])' /\ (call'[k] = "waiting" => Taken(k[2])' # {})
    <3>1. k \in polled /\ k \in Call /\ k[2] \in Task
      BY <2>2, CallTask DEF TypeOK
    <3>2. IsSet(k[2]) /\ (call[k] = "waiting" => Taken(k[2]) # {})
      BY <3>1 DEF HandlesOK
    <3>3. Taken(k[2]) # {} => Taken(k[2])' # {}
      BY <2>7, <2>8, <3>1
    <3> QED
      BY <2>4, <2>5, <2>9, <3>1, <3>2, <3>3
  <2> QED
    BY <2>11, <2>12 DEF HandlesOK
<1>6. ASSUME NEW j \in Call, JoinCall(j) \/ SpuriousWake(j) \/ JoinThrows(j) PROVE HandlesOK'
  <2>1. /\ call[j] \in {"no", "waiting", "calling"}
        /\ \E v \in {"calling", "thrown"} : call' = [call EXCEPT ![j] = v]
        /\ UNCHANGED <<outcome, todo, result, polled>>
    BY <1>6 DEF JoinCall, SpuriousWake, JoinThrows
  <2>2. call'[j] \in {"calling", "thrown"} /\ \A k \in Call : k # j => call'[k] = call[k]
    BY <2>1 DEF TypeOK
  <2>3. /\ \A k \in Call : call'[k] \in Outcome <=> call[k] \in Outcome
        /\ \A k \in Call : call[k] \in Outcome => call'[k] = call[k]
        /\ \A k \in polled : call'[k] = "waiting" => call[k] = "waiting"
    BY <2>1, <2>2 DEF Outcome, TypeOK
  <2> QED
    BY <2>1, <2>3, HandlesKept DEF IsSet
<1>7. ASSUME NEW j \in Call, JoinWait(j) PROVE HandlesOK'
  <2>1. /\ call[j] = "calling" /\ ~Ready(j[2]) /\ call' = [call EXCEPT ![j] = "waiting"]
        /\ UNCHANGED <<outcome, todo, result, polled>>
    BY <1>7 DEF JoinWait
  <2>2. call'[j] = "waiting" /\ \A k \in Call : k # j => call'[k] = call[k]
    BY <2>1 DEF TypeOK
  <2>3. j \in polled => Taken(j[2]) # {}
    BY <2>1, CallTask DEF HandlesOK
  <2>4. /\ \A k \in Call : call'[k] \in Outcome <=> call[k] \in Outcome
        /\ \A k \in Call : call[k] \in Outcome => call'[k] = call[k]
    BY <2>1, <2>2 DEF Outcome, TypeOK
  <2>5. \A k \in polled : call'[k] = "waiting" => call[k] = "waiting" \/ Taken(k[2]) # {}
    BY <2>2, <2>3 DEF TypeOK
  <2> QED
    BY <2>1, <2>4, <2>5, HandlesKept DEF IsSet
<1>8. ASSUME NEW j \in Call, IsFinished(j) PROVE HandlesOK'
  <2>1. /\ call[j] = "no" /\ Ready(j[2]) /\ polled' = polled \cup {j}
        /\ UNCHANGED <<outcome, todo, result, call>>
    BY <1>8 DEF IsFinished, Ready
  <2>2. IsSet(j[2])
    BY <2>1, CallTask DEF HandlesOK
  <2>3. \A t : Taken(t)' = Taken(t) /\ (Ready(t)' <=> Ready(t)) /\ (IsSet(t)' <=> IsSet(t))
    BY <2>1 DEF Taken, Returned, Ready, IsSet
  <2> QED
    BY <2>1, <2>2, <2>3 DEF HandlesOK
<1>9. ASSUME NEW t \in Task, RecordSubmitted(t) \/ Enqueue(t) \/ Start(t) PROVE HandlesOK'
  BY <1>1, <1>9 DEF RecordSubmitted, Enqueue, Start
<1>10. CASE Load \/ Cancel \/ Shutdown \/ UNCHANGED vars
  BY <1>1, <1>10 DEF Load, Cancel, Shutdown, vars
<1>11. "err" \in Outcome
  BY DEF Outcome
<1> HIDE DEF poolVars, wrapperVars, handleVars, counterVars, snapVars
<1> QED
  BY <1>2, <1>3, <1>4, <1>5, <1>6, <1>7, <1>8, <1>9, <1>10, <1>11
  DEF Next, WrapperNext, JoinNext

-----------------------------------------------------------------------------
(***************************************************************************)
(* snapshot().                                                             *)
(***************************************************************************)

\* What join() has returned stays returned.
LEMMA ReturnedStays ==
  ASSUME TypeOK, [Next]_vars, NEW j \in Call, call[j] \in Outcome
  PROVE  call'[j] = call[j]
<1> USE DEF poolVars, wrapperVars, handleVars, counterVars, snapVars
<1>1. CASE UNCHANGED call
  BY <1>1
<1>2. ASSUME NEW t \in Task, NotifyJoiners(t) PROVE call'[j] = call[j]
  BY <1>2 DEF NotifyJoiners, WakeAll, Outcome
<1>3. ASSUME NEW k \in Call, JoinCall(k) \/ JoinNext(k) \/ SpuriousWake(k)
      PROVE  call'[j] = call[j]
  <2>1. call[k] \notin Outcome /\ \E v : call' = [call EXCEPT ![k] = v]
    BY <1>3 DEF JoinCall, JoinNext, JoinWait, JoinTake, JoinThrows, SpuriousWake, Outcome
  <2> QED
    BY <2>1 DEF TypeOK
<1>4. ASSUME NEW k \in Call, IsFinished(k) PROVE UNCHANGED call
  BY <1>4 DEF IsFinished
<1>5. ASSUME NEW t \in Task,
             \/ RecordSubmitted(t) \/ Enqueue(t) \/ Start(t)
             \/ \E o \in Outcome : BodyEnds(t, o)
             \/ RecordCompleted(t) \/ RecordPanic(t) \/ SetResult(t) \/ SetThrows(t)
      PROVE  UNCHANGED call
  BY <1>5 DEF RecordSubmitted, Enqueue, Start, BodyEnds, RecordCompleted, RecordPanic,
              SetResult, SetThrows
<1>6. CASE Load \/ Cancel \/ Shutdown \/ UNCHANGED vars
  BY <1>6 DEF Load, Cancel, Shutdown, vars
<1> HIDE DEF poolVars, wrapperVars, handleVars, counterVars, snapVars
<1> QED
  BY <1>1, <1>2, <1>3, <1>4, <1>5, <1>6 DEF Next, WrapperNext

\* The tasks whose result a join() has returned were counted before it returned.
LEMMA JoinedCounted ==
  ASSUME TypeOK, CountersOK, HandlesOK, joined \subseteq Returned
  PROVE  Cardinality(JoinedTasks) <= completed /\ Cardinality(JoinedErrors) <= panicked
<1>1. ASSUME NEW j \in joined
      PROVE  j[2] \in CompletedTasks /\ (call[j] = "err" => j[2] \in PanickedTasks)
  <2>1. j \in Returned /\ j[2] \in Task
    BY CallTask DEF Returned
  <2>2. j \in Taken(j[2])
    BY <2>1 DEF Taken
  <2>3. IsSet(j[2]) /\ call[j] = outcome[j[2]]
    BY <2>1, <2>2 DEF HandlesOK
  <2>4. todo[j[2]] # Q4
    BY <2>3, Steps DEF IsSet
  <2> QED
    BY <2>1, <2>3, <2>4 DEF CompletedTasks, PanickedTasks, IsSet
<1>2. JoinedTasks \subseteq CompletedTasks /\ JoinedErrors \subseteq PanickedTasks
  BY <1>1 DEF JoinedTasks, JoinedErrors
<1>3. /\ IsFiniteSet(CompletedTasks) /\ Cardinality(CompletedTasks) \in Nat
      /\ IsFiniteSet(PanickedTasks) /\ Cardinality(PanickedTasks) \in Nat
      /\ Cardinality(rethrown) \in Nat
  <2>1. CompletedTasks \subseteq Task /\ PanickedTasks \subseteq Task /\ rethrown \subseteq Task
    BY HandleAssumption DEF CompletedTasks, PanickedTasks, TypeOK
  <2> QED
    BY <2>1, Countable
<1>4. /\ Cardinality(JoinedTasks) <= Cardinality(CompletedTasks)
      /\ Cardinality(JoinedErrors) <= Cardinality(PanickedTasks)
      /\ Cardinality(JoinedTasks) \in Nat /\ Cardinality(JoinedErrors) \in Nat
  BY <1>2, <1>3, FS_Subset, FS_CardinalityType
<1> QED
  BY <1>3, <1>4 DEF CountersOK

\* What a load appends comes last, and the earlier loads keep their places.
LEMMA LastIs ==
  ASSUME NEW q \in Seq(Nat), NEW x \in Nat
  PROVE  /\ Len(q) = 1 => Append(q, x)[2] = x
         /\ Len(q) = 2 => Append(q, x)[3] = x /\ Append(q, x)[2] = q[2]
<1>1. Append(q, x)[Len(q) + 1] = x /\ \A i \in 1 .. Len(q) : Append(q, x)[i] = q[i]
  BY AppendProperties
<1>2. ASSUME Len(q) = 1 PROVE Append(q, x)[2] = x
  <2>1. Len(q) + 1 = 2
    BY <1>2
  <2> QED  BY <1>1, <2>1, Zenon
<1>3. ASSUME Len(q) = 2 PROVE Append(q, x)[3] = x /\ Append(q, x)[2] = q[2]
  <2>1. 2 \in 1 .. Len(q) /\ Len(q) + 1 = 3
    BY <1>3
  <2> QED  BY <1>1, <2>1
<1> QED
  BY <1>2, <1>3

\* Every step keeps the snapshot from falling behind.
LEMMA NextSnap ==
  ASSUME HInv, [Next]_vars
  PROVE  SnapOK'
<1> USE DEF HInv
<1>1. \A j \in Returned : call'[j] = call[j] /\ j \in Returned'
  BY ReturnedStays DEF Returned
<1>2. snap \in Seq(Nat) /\ Len(snap) \in Nat /\ Len(snap) <= 3
  BY DEF TypeOK, SnapOK
<1>3. CASE UNCHANGED <<snap, joined>>
  <2>1. joined' \subseteq Returned'
    BY <1>1, <1>3 DEF SnapOK
  <2>2. JoinedTasks' = JoinedTasks
    BY <1>3 DEF JoinedTasks
  <2>3. \A k \in joined : call'[k] = call[k]
    BY <1>1 DEF SnapOK
  <2>4. JoinedErrors' = JoinedErrors
    BY <1>3, <2>3 DEF JoinedErrors
  <2> QED
    BY <1>3, <2>1, <2>2, <2>4 DEF SnapOK
<1>4. CASE Load
  <2>1. /\ Len(snap) < 3 /\ snap' = Append(snap, Counters[Len(snap) + 1])
        /\ joined' = (IF snap = << >> THEN Returned ELSE joined) /\ UNCHANGED call
    BY <1>4, ThreeCounters DEF Load, handleVars
  <2>2. Len(snap') = Len(snap) + 1 /\ Len(snap') \in Nat
    BY <1>2, <2>1
  <2>3. joined' \subseteq Returned /\ Returned' = Returned
    BY <2>1 DEF SnapOK, Returned
  <2>4. CASE Len(snap) = 0
    BY <2>2, <2>3, <2>4 DEF SnapOK
  <2>5. ASSUME Len(snap) \in {1, 2}
        PROVE  joined' = joined /\ JoinedTasks' = JoinedTasks /\ JoinedErrors' = JoinedErrors
    <3>1. snap # << >>
      BY <2>5
    <3> QED
      BY <2>1, <3>1 DEF JoinedTasks, JoinedErrors
  <2>6. joined \subseteq Returned
    BY DEF SnapOK
  <2>7. Cardinality(JoinedTasks) <= completed /\ Cardinality(JoinedErrors) <= panicked
    BY <2>6, JoinedCounted
  <2>8. CASE Len(snap) = 1
    <3>1. snap'[2] = completed
      <4>1. snap' = Append(snap, completed)
        BY <2>1, <2>8, ThreeCounters
      <4>2. completed \in Nat
        BY DEF TypeOK
      <4> QED  BY <1>2, <2>8, <4>1, <4>2, LastIs
    <3>2. Len(snap') = 2 /\ JoinedTasks' = JoinedTasks
      BY <2>2, <2>5, <2>8
    <3>3. Cardinality(JoinedTasks') <= snap'[2]
      BY <2>7, <3>1, <3>2
    <3> QED
      BY <2>3, <3>2, <3>3 DEF SnapOK
  <2>9. CASE Len(snap) = 2
    <3>1. snap'[3] = panicked /\ snap'[2] = snap[2]
      <4>1. snap' = Append(snap, panicked)
        BY <2>1, <2>9, ThreeCounters
      <4>2. panicked \in Nat
        BY DEF TypeOK
      <4> QED  BY <1>2, <2>9, <4>1, <4>2, LastIs
    <3>2. Cardinality(JoinedTasks) <= snap[2]
      BY <2>9 DEF SnapOK
    <3>3. Len(snap') = 3 /\ JoinedTasks' = JoinedTasks /\ JoinedErrors' = JoinedErrors
      BY <2>2, <2>5, <2>9
    <3>4. Cardinality(JoinedTasks') <= snap'[2] /\ Cardinality(JoinedErrors') <= snap'[3]
      BY <2>7, <3>1, <3>2, <3>3
    <3> QED
      BY <2>3, <3>3, <3>4 DEF SnapOK
  <2>10. Len(snap) \in {0, 1, 2}
    <3>1. \A n \in Nat : n < 3 => n \in {0, 1, 2}
      OBVIOUS
    <3> QED  BY <1>2, <2>1, <3>1
  <2> QED
    BY <2>4, <2>8, <2>9, <2>10
<1>5. ASSUME NEW t \in Task, RecordSubmitted(t) \/ Enqueue(t) \/ Start(t) \/ WrapperNext(t)
      PROVE  UNCHANGED <<snap, joined>>
  BY <1>5 DEF RecordSubmitted, Enqueue, Start, WrapperNext, BodyEnds, RecordCompleted,
              RecordPanic, SetResult, SetThrows, NotifyJoiners, snapVars
<1>6. ASSUME NEW j \in Call, JoinCall(j) \/ IsFinished(j) \/ JoinNext(j) \/ SpuriousWake(j)
      PROVE  UNCHANGED <<snap, joined>>
  BY <1>6 DEF JoinCall, IsFinished, JoinNext, JoinWait, JoinTake, JoinThrows, SpuriousWake, snapVars
<1>7. CASE Cancel \/ Shutdown \/ UNCHANGED vars
  BY <1>3, <1>7 DEF Cancel, Shutdown, vars, snapVars
<1> QED
  BY <1>3, <1>4, <1>5, <1>6, <1>7 DEF Next

-----------------------------------------------------------------------------
(***************************************************************************)
(* Together.                                                               *)
(***************************************************************************)

\* The invariant holds at the start.
LEMMA InitInv == Init => HInv
<1> HAVE Init
<1>1. TypeOK
  BY InitType
<1>2. WrapperOK
  BY DEF Init, Pool!Init, WrapperOK, Rest, Q0
<1>3. CountersOK
  <2>1. SubmittedTasks = {} /\ CompletedTasks = {} /\ PanickedTasks = {} /\ rethrown = {}
    BY DEF Init, SubmittedTasks, CompletedTasks, PanickedTasks
  <2> QED
    BY <2>1, FS_EmptySet DEF Init, CountersOK
<1>4. HandlesOK
  <2>1. \A t \in Task : ~IsSet(t) /\ ~Ready(t)
    BY DEF Init, IsSet, Ready
  <2>2. Returned = {}
    BY DEF Init, Returned, Outcome
  <2> QED
    BY <2>1, <2>2 DEF Init, HandlesOK, Taken
<1>5. SnapOK
  BY DEF Init, SnapOK
<1> QED
  BY <1>1, <1>2, <1>3, <1>4, <1>5 DEF HInv

\* Every step keeps the invariant.
LEMMA NextInv == HInv /\ [Next]_vars => HInv'
BY NextType, NextWrapper, NextCounters, NextHandles, NextSnap DEF HInv

\* The invariant holds throughout.
LEMMA Invariance == Spec => []HInv
BY InitInv, NextInv, PTL DEF Spec

(***************************************************************************)
(* Every variable of spawn(), JoinHandle and Metrics keeps its type.       *)
(***************************************************************************)
THEOREM TypeCorrect == Spec => []TypeOK
BY Invariance, PTL DEF HInv

\* The set in ResultConserved is IsSet.
LEMMA SetIsSet ==
  ASSUME WrapperOK, NEW t \in Task
  PROVE  IsSet(t) <=> outcome[t] # "none" /\ ~\E i \in DOMAIN todo[t] : todo[t][i] = "set"
<1>1. todo[t] \in Rest
  BY DEF WrapperOK
<1>2. todo[t] \in {Q1, Q0} <=> todo[t] \notin {Q4, Q3, Q2}
  BY <1>1, Steps DEF Rest
<1> QED
  BY <1>1, <1>2, Steps DEF IsSet

\* The handles' part of the invariant says where each result is.
LEMMA InvResult == HInv => ResultConserved
<1> HAVE HInv
<1> USE DEF HInv
<1>1. ASSUME NEW t \in Task
      PROVE  /\ Cardinality(Taken(t)) = IF IsSet(t) /\ ~Ready(t) THEN 1 ELSE 0
             /\ Ready(t) => result[t] = outcome[t]
             /\ \A j \in Taken(t) : call[j] = outcome[t]
  <2>1. /\ Ready(t) => IsSet(t) /\ result[t] = outcome[t] /\ Taken(t) = {}
        /\ \A i, j \in Taken(t) : i = j
        /\ \A j \in Taken(t) : IsSet(t) /\ call[j] = outcome[t]
        /\ IsSet(t) /\ ~Ready(t) => Taken(t) # {}
    BY DEF HandlesOK
  <2>2. CASE IsSet(t) /\ ~Ready(t)
    <3>1. PICK j \in Taken(t) : TRUE
      BY <2>1, <2>2
    <3>2. Taken(t) = {j}
      BY <2>1, <3>1
    <3>3. Cardinality(Taken(t)) = 1
      BY <3>2, FS_Singleton
    <3> QED
      BY <2>1, <2>2, <3>3
  <2>3. CASE ~(IsSet(t) /\ ~Ready(t))
    <3>1. Taken(t) = {}
      BY <2>1, <2>3
    <3>2. Cardinality(Taken(t)) = 0
      BY <3>1, FS_EmptySet
    <3> QED
      BY <2>1, <2>3, <3>2
  <2> QED
    BY <2>2, <2>3
<1>2. \A j \in polled : call[j] = "waiting" => Taken(j[2]) # {}
  BY DEF HandlesOK
<1>3. \A t \in Task : IsSet(t) <=> outcome[t] # "none" /\ ~\E i \in DOMAIN todo[t] : todo[t][i] = "set"
  BY SetIsSet
<1> HIDE DEF HInv
<1> QED
  BY <1>1, <1>2, <1>3 DEF ResultConserved

(***************************************************************************)
(* A result that has been set is in the handle or with exactly one join()  *)
(* call, unchanged, however many copies of the handle are joined, and a    *)
(* join() after is_finished() waits only if a copy was joined first.       *)
(***************************************************************************)
THEOREM ResultsConserved == Spec => []ResultConserved
BY Invariance, InvResult, PTL

(***************************************************************************)
(* A snapshot() that begins when some join() calls have returned counts    *)
(* their tasks, completed and panicked, for any number of tasks, callers   *)
(* and copies of a handle.                                                 *)
(***************************************************************************)
THEOREM CountsAfterJoin == Spec => []MetricsAfterJoin
<1>1. HInv => MetricsAfterJoin
  BY ThreeCounters DEF HInv, SnapOK, MetricsAfterJoin, JoinedTasks, JoinedErrors
<1> QED
  BY <1>1, Invariance, PTL

\* When shutdown() has returned, the counted tasks are the finished ones.
LEMMA InvAtReturn == HInv => MetricsAtReturn
<1> SUFFICES ASSUME HInv, closed
             PROVE  /\ completed = Cardinality(Finished) + Cardinality(rethrown)
                    /\ panicked = Cardinality({t \in Finished : outcome[t] = "err"})
                    /\ completed <= submitted + Cardinality(rethrown)
  BY DEF MetricsAtReturn
<1> USE DEF HInv
<1>1. ASSUME NEW t \in Task
      PROVE  /\ outcome[t] # "none" <=> phase[t] = "finished"
             /\ phase[t] = "finished" => todo[t] = Q0 /\ sub[t] # "idle"
  BY DEF WrapperOK, TypeOK, Pool!TypeOK, Pool!Phase
<1>2. CompletedTasks = Finished
  BY <1>1 DEF CompletedTasks, Finished
<1>3. PanickedTasks = {t \in Finished : outcome[t] = "err"}
  BY <1>1, Steps DEF PanickedTasks, Finished
<1>4. Finished \subseteq SubmittedTasks /\ SubmittedTasks \subseteq Task
  BY <1>1 DEF Finished, SubmittedTasks
<1>5. IsFiniteSet(SubmittedTasks) /\ Cardinality(SubmittedTasks) \in Nat
  BY <1>4, Countable
<1>6. Cardinality(Finished) <= Cardinality(SubmittedTasks) /\ Cardinality(Finished) \in Nat
  BY <1>4, <1>5, FS_Subset, FS_CardinalityType
<1>7. Cardinality(rethrown) \in Nat
  BY HandleAssumption, Countable DEF TypeOK
<1> QED
  BY <1>2, <1>3, <1>5, <1>6, <1>7 DEF CountersOK

(***************************************************************************)
(* Once shutdown() has returned, tasks_completed and tasks_panicked agree  *)
(* with the outcomes the handles deliver, up to the tasks whose value      *)
(* could not be moved, which are counted twice.                            *)
(***************************************************************************)
THEOREM CountsAtReturn == Spec => []MetricsAtReturn
BY Invariance, InvAtReturn, PTL

=============================================================================
