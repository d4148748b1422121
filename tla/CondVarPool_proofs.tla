------------------------- MODULE CondVarPool_proofs -------------------------
(***************************************************************************)
(* Proofs about what GlobalQueueScheduler and ThreadPerCoreScheduler have  *)
(* in common.  Every lemma says of one action of CondVarPool that it keeps *)
(* QueueInv, or that it is a step of the contract TaskPool.                *)
(***************************************************************************)
EXTENDS CondVarPool, FiniteSetTheorems, SequenceTheorems, TLAPS

-----------------------------------------------------------------------------
(***************************************************************************)
(* std::queue and std::deque, of which only push_back, front and pop_front *)
(* are used.                                                               *)
(***************************************************************************)
InQueue(q, t) == \E i \in DOMAIN q : q[i] = t
Distinct(q) == \A i, j \in DOMAIN q : q[i] = q[j] => i = j

\* A queue is empty when nothing is in it, and holds only tasks.
LEMMA EmptyQueue ==
  ASSUME NEW S, NEW q \in Seq(S)
  PROVE  /\ q = << >> <=> \A t : ~InQueue(q, t)
         /\ \A t : InQueue(q, t) => t \in S
<1>1. Len(q) \in Nat /\ DOMAIN q = 1 .. Len(q)
  BY LenProperties
<1>2. q = << >> <=> Len(q) = 0
  BY EmptySeq
<1>3. Len(q) # 0 => 1 \in DOMAIN q
  BY <1>1
<1>4. \A i \in DOMAIN q : q[i] \in S
  BY <1>1, ElementOfSeq
<1>5. Len(q) = 0 => DOMAIN q = {}
  BY <1>1
<1> QED
  BY <1>2, <1>3, <1>4, <1>5 DEF InQueue

\* push_back
LEMMA PushBack ==
  ASSUME NEW S, NEW q \in Seq(S), NEW t \in S
  PROVE  /\ Append(q, t) \in Seq(S)
         /\ \A u : InQueue(Append(q, t), u) <=> InQueue(q, u) \/ u = t
         /\ Distinct(q) /\ ~InQueue(q, t) => Distinct(Append(q, t))
<1> DEFINE r == Append(q, t)
           n == Len(q)
<1>1. /\ n \in Nat /\ DOMAIN q = 1 .. n /\ r \in Seq(S) /\ DOMAIN r = 1 .. (n + 1)
      /\ r[n + 1] = t /\ \A i \in 1 .. n : r[i] = q[i]
  BY AppendProperties, LenProperties
<1> HIDE DEF r, n
<1>2. /\ n + 1 \in DOMAIN r
      /\ \A i \in DOMAIN q : i \in DOMAIN r /\ r[i] = q[i]
      /\ \A i \in DOMAIN r : i = n + 1 \/ (i \in DOMAIN q /\ r[i] = q[i])
  BY <1>1
<1>3. \A u : InQueue(r, u) <=> InQueue(q, u) \/ u = t
  BY <1>1, <1>2 DEF InQueue
<1>4. ASSUME Distinct(q), ~InQueue(q, t) PROVE Distinct(r)
  BY <1>1, <1>2, <1>4 DEF InQueue, Distinct
<1> QED
  BY <1>1, <1>3, <1>4 DEF r

\* front and pop_front
LEMMA PopFront ==
  ASSUME NEW S, NEW q \in Seq(S), q # << >>
  PROVE  /\ Head(q) \in S /\ InQueue(q, Head(q)) /\ Tail(q) \in Seq(S)
         /\ Distinct(q) => /\ Distinct(Tail(q))
                           /\ \A u : InQueue(Tail(q), u) <=> InQueue(q, u) /\ u # Head(q)
<1> DEFINE r == Tail(q)
           n == Len(q)
<1>1. /\ n \in Nat \ {0} /\ DOMAIN q = 1 .. n /\ Head(q) = q[1] /\ Head(q) \in S
      /\ r \in Seq(S) /\ Len(r) = n - 1 /\ \A i \in 1 .. (n - 1) : r[i] = q[i + 1]
  BY HeadTailProperties, LenProperties, EmptySeq
<1>2. DOMAIN r = 1 .. (n - 1)
  BY <1>1, LenProperties
<1> HIDE DEF r, n
<1>3. /\ 1 \in DOMAIN q
      /\ \A i \in DOMAIN r : i + 1 \in DOMAIN q /\ i + 1 # 1 /\ r[i] = q[i + 1]
      /\ \A i \in DOMAIN q : i # 1 => i - 1 \in DOMAIN r /\ r[i - 1] = q[i]
      /\ \A i, j \in DOMAIN r : i + 1 = j + 1 => i = j
  <2>1. \A i \in DOMAIN q : i # 1 => i - 1 \in 1 .. (n - 1) /\ (i - 1) + 1 = i
    BY <1>1
  <2> QED
    BY <1>1, <1>2, <2>1
<1>4. ASSUME Distinct(q)
      PROVE  Distinct(r) /\ \A u : InQueue(r, u) <=> InQueue(q, u) /\ u # Head(q)
  <2>1. Distinct(r)
    BY <1>3, <1>4 DEF Distinct
  <2>2. \A u : InQueue(r, u) => InQueue(q, u) /\ u # Head(q)
    <3>1. \A i \in DOMAIN r : r[i] # q[1]
      BY <1>3, <1>4 DEF Distinct
    <3>2. \A i \in DOMAIN r : \E j \in DOMAIN q : q[j] = r[i]
      BY <1>3
    <3> QED
      BY <1>1, <3>1, <3>2 DEF InQueue
  <2>3. \A u : InQueue(q, u) /\ u # Head(q) => InQueue(r, u)
    BY <1>1, <1>3 DEF InQueue
  <2> QED
    BY <2>1, <2>2, <2>3
<1> QED
  BY <1>1, <1>3, <1>4 DEF InQueue, r

-----------------------------------------------------------------------------
(***************************************************************************)
(* The invariant.                                                          *)
(***************************************************************************)

\* A task exists for the pool once submit() has pushed it.
SubStage == \A t \in Task : sub[t] \in {"idle", "placed"} <=> stage[t] = "none"

\* A task that runs is in the hand of one worker.
HeldOnce ==
  /\ \A w \in Worker : IF pc[w] = "body" THEN job[w] \in Task /\ stage[job[w]] = "body"
                                         ELSE job[w] = NoTask
  /\ \A v, w \in Worker : job[v] = job[w] /\ job[v] # NoTask => v = w
  /\ \A t \in Task : stage[t] = "body" => \E w \in Worker : job[w] = t

\* A queued task is at one place of one queue, and nothing else is.
QueuesOK ==
  /\ \A c \in Core, p \in Priority : Distinct(queues[c][p])
  /\ \A c \in Core, p \in Priority, t \in Task :
       InQueue(queues[c][p], t) => stage[t] = "queued" /\ p = Prio[t]
  /\ \A c, d \in Core, t \in Task :
       InQueue(queues[c][Prio[t]], t) /\ InQueue(queues[d][Prio[t]], t) => c = d
  /\ \A t \in Task : stage[t] = "queued" => \E c \in Core : InQueue(queues[c][Prio[t]], t)

\* A mutex is held by one worker at a time, and a worker that is about to
\* wait has seen its queues empty since it took it.
Held == {"scan", "block"}
MutexOK ==
  /\ \A v, w \in Worker : Home[v] = Home[w] /\ pc[v] \in Held /\ pc[w] \in Held => v = w
  /\ \A w \in Worker : pc[w] = "block" => Dry(Home[w])

\* shutdown() has notified every core before it joins, and the flag is set
\* when a worker leaves.
DownOK ==
  /\ shutdown_flag_ <=> down # "no"
  /\ down \in {"no", "notifying"} => notified < num_cores
  /\ down = "returned" => \A w \in Worker : pc[w] = "exited"
  /\ \A w \in Worker : pc[w] = "exited" => shutdown_flag_

QueueInv ==
  /\ QueueTypeOK
  /\ SubStage
  /\ HeldOnce
  /\ QueuesOK
  /\ MutexOK
  /\ DownOK

\* A pool as its constructor leaves it.
LEMMA InitInv ==
  ASSUME QueueInit
  PROVE  QueueInv
<1> USE DEF QueueInit
<1>1. /\ num_cores \in Nat \ {0}
      /\ \A c \in Core, p \in Priority : queues[c][p] = << >> /\ queues[c][p] \in Seq(Task)
  BY QueueAssumption
<1>2. \A c \in Core, p \in Priority : queues[c][p] = << >> /\ \A t : ~InQueue(queues[c][p], t)
  BY <1>1, EmptyQueue
<1>3. QueueTypeOK
  <2>1. << >> \in Seq(Task)
    OBVIOUS
  <2> DEFINE empty == << >>
  <2>2. empty \in Seq(Task) /\ queues = [c \in Core |-> [p \in Priority |-> empty]]
    BY <2>1
  <2> HIDE DEF empty
  <2>3. queues \in [Core -> [Priority -> Seq(Task)]]
    BY <2>2
  <2>4. 0 \in 0 .. num_cores
    BY <1>1
  <2> QED
    BY <2>3, <2>4 DEF QueueTypeOK, InSubmit
<1>4. SubStage /\ HeldOnce /\ DownOK
  BY <1>1 DEF SubStage, HeldOnce, DownOK
<1>5. \A c \in Core, p \in Priority : Distinct(queues[c][p])
  BY <1>1 DEF Distinct
<1>6. QueuesOK
  BY <1>2, <1>5, QueueAssumption DEF QueuesOK
<1>7. MutexOK
  BY DEF MutexOK, Held
<1> QED
  BY <1>3, <1>4, <1>6, <1>7 DEF QueueInv

\* push() adds the job at one place.
LEMMA PushAdds ==
  ASSUME QueueInv, NEW t \in Task, NEW c \in Core, sub[t] \in {"idle", "placed"}, Push(t, c)
  PROVE  /\ stage[t] = "none" /\ stage' = [stage EXCEPT ![t] = "queued"]
         /\ queues' \in [Core -> [Priority -> Seq(Task)]]
         /\ \A d \in Core, o \in Priority : Distinct(queues'[d][o])
         /\ \A d \in Core, o \in Priority : d # c => queues'[d][o] = queues[d][o]
         /\ \A d \in Core, o \in Priority, u \in Task :
              InQueue(queues'[d][o], u)
                <=> InQueue(queues[d][o], u) \/ (d = c /\ o = Prio[t] /\ u = t)
<1> DEFINE p == Prio[t]
           q == queues[c][p]
<1>1. /\ p \in Priority /\ queues \in [Core -> [Priority -> Seq(Task)]] /\ q \in Seq(Task)
      /\ stage[t] = "none" /\ ~InQueue(q, t)
      /\ \A d \in Core, o \in Priority : Distinct(queues[d][o])
  BY QueueAssumption DEF QueueInv, QueueTypeOK, SubStage, QueuesOK
<1>2. /\ queues' = [queues EXCEPT ![c] = [queues[c] EXCEPT ![p] = Append(q, t)]]
      /\ stage' = [stage EXCEPT ![t] = "queued"]
  BY <1>1 DEF Push
<1> DEFINE r == Append(q, t)
<1>3. /\ r \in Seq(Task) /\ Distinct(r)
      /\ \A u : InQueue(r, u) <=> InQueue(q, u) \/ u = t
  BY <1>1, PushBack
<1>4. /\ queues' \in [Core -> [Priority -> Seq(Task)]]
      /\ queues'[c][p] = r
      /\ \A d \in Core, o \in Priority : d # c \/ o # p => queues'[d][o] = queues[d][o]
  BY <1>1, <1>2, <1>3
<1> HIDE DEF q, r
<1>5. \A d \in Core, o \in Priority, u \in Task :
        InQueue(queues'[d][o], u) <=> InQueue(queues[d][o], u) \/ (d = c /\ o = p /\ u = t)
  BY <1>3, <1>4 DEF q
<1>6. \A d \in Core, o \in Priority : Distinct(queues'[d][o])
  BY <1>1, <1>3, <1>4
<1> QED
  BY <1>1, <1>2, <1>4, <1>5, <1>6

\* The critical section of submit(): no worker holds the mutex, so none has
\* made up its mind to wait.
LEMMA PushInv ==
  ASSUME QueueInv, NEW t \in Task, NEW c \in Core, sub[t] \in {"idle", "placed"}, Push(t, c)
  PROVE  QueueInv'
<1> DEFINE p == Prio[t]
<1>1. /\ p \in Priority /\ stage \in [Task -> {"none", "queued", "body", "done"}]
      /\ stage[t] = "none"
  BY QueueAssumption DEF QueueInv, QueueTypeOK, SubStage
<1>2. /\ stage' = [stage EXCEPT ![t] = "queued"]
      /\ UNCHANGED <<shutdown_flag_, pc, job, downVars>>
  BY DEF Push
<1>3. /\ queues' \in [Core -> [Priority -> Seq(Task)]]
      /\ \A d \in Core, o \in Priority : Distinct(queues'[d][o])
      /\ \A d \in Core, o \in Priority : d # c => queues'[d][o] = queues[d][o]
  BY PushAdds
<1>4. \A d \in Core, o \in Priority, u \in Task :
        InQueue(queues'[d][o], u) <=> InQueue(queues[d][o], u) \/ (d = c /\ o = p /\ u = t)
  BY PushAdds
<1>5. QueueTypeOK'
  BY <1>2, <1>3 DEF Push, QueueInv, QueueTypeOK, InSubmit, downVars
<1>6. SubStage'
  BY <1>2 DEF Push, QueueInv, SubStage, QueueTypeOK
<1>7. HeldOnce'
  BY <1>1, <1>2, WorkloadAssumption DEF QueueInv, HeldOnce
<1>8. QueuesOK'
  <2>1. \A d \in Core, u \in Task : InQueue(queues[d][Prio[u]], u) => u # t
    BY <1>1, QueueAssumption DEF QueueInv, QueuesOK
  <2>2. stage'[t] = "queued" /\ \A u \in Task \ {t} : stage'[u] = stage[u]
    BY <1>1, <1>2
  <2>3. \A u \in Task : Prio[u] \in Priority
    BY QueueAssumption
  <2>4. \A d \in Core, o \in Priority, u \in Task :
          InQueue(queues'[d][o], u) => stage'[u] = "queued" /\ o = Prio[u]
    BY <1>1, <1>4, <2>2 DEF QueueInv, QueuesOK
  <2>5. \A d, e \in Core, u \in Task :
          InQueue(queues'[d][Prio[u]], u) /\ InQueue(queues'[e][Prio[u]], u) => d = e
    BY <1>4, <2>1, <2>3 DEF QueueInv, QueuesOK
  <2>6. \A u \in Task : stage'[u] = "queued" => \E d \in Core : InQueue(queues'[d][Prio[u]], u)
    BY <1>4, <2>2, <2>3 DEF QueueInv, QueuesOK
  <2> QED
    BY <1>3, <2>4, <2>5, <2>6 DEF QueuesOK
<1>9. MutexOK'
  <2>1. \A w \in Worker : pc[w] = "block" => Home[w] # c
    BY DEF Push, Unlocked
  <2>2. \A w \in Worker : Home[w] \in Core
    BY QueueAssumption
  <2> QED
    BY <1>2, <1>3, <2>1, <2>2 DEF QueueInv, MutexOK, Dry
<1>10. DownOK'
  BY <1>2 DEF QueueInv, DownOK, downVars
<1> QED
  BY <1>5, <1>6, <1>7, <1>8, <1>9, <1>10 DEF QueueInv

\* notify_one() and notify_all() send waiters back to the mutex, and no one
\* else anywhere.
Woken ==
  /\ pc' \in [Worker -> {"lock", "scan", "block", "waiting", "body", "exited"}]
  /\ \A w \in Worker : pc'[w] = pc[w] \/ (pc[w] = "waiting" /\ pc'[w] = "lock")

\* A wake-up disturbs no job, no queue and no mutex, and brings no worker back.
LEMMA WokenInv ==
  ASSUME QueueInv, Woken, UNCHANGED <<queues, job, stage>>
  PROVE  HeldOnce' /\ QueuesOK' /\ MutexOK' /\ \A w \in Worker : pc'[w] = "exited" <=> pc[w] = "exited"
<1>1. HeldOnce'
  <2>1. \A w \in Worker : pc'[w] = "body" <=> pc[w] = "body"
    BY DEF Woken
  <2> QED
    BY <2>1 DEF QueueInv, HeldOnce
<1>2. QueuesOK'
  BY DEF QueueInv, QueuesOK
<1>3. MutexOK'
  <2>1. \A w \in Worker : (pc'[w] \in Held <=> pc[w] \in Held) /\ (pc'[w] = "block" <=> pc[w] = "block")
    BY DEF Woken, Held
  <2> QED
    BY <2>1 DEF QueueInv, MutexOK, Dry
<1>4. \A w \in Worker : pc'[w] = "exited" <=> pc[w] = "exited"
  BY DEF Woken
<1> QED
  BY <1>1, <1>2, <1>3, <1>4

\* notify_one() in submit()
LEMMA NotifyInv ==
  ASSUME QueueInv, NEW t \in Task, NEW c \in Core, Notify(t, c)
  PROVE  QueueInv' /\ Woken
<1>1. Woken
  BY DEF Notify, NotifyOne, Waiting, Woken, QueueInv, QueueTypeOK
<1>2. UNCHANGED <<queues, shutdown_flag_, job, stage, late, down, notified>>
  BY DEF Notify, downVars
<1>3. HeldOnce' /\ QueuesOK' /\ MutexOK' /\ \A w \in Worker : pc'[w] = "exited" <=> pc[w] = "exited"
  BY <1>1, <1>2, WokenInv
<1>4. QueueTypeOK' /\ SubStage'
  BY <1>1, <1>2 DEF Notify, Woken, QueueInv, QueueTypeOK, SubStage, InSubmit
<1>5. DownOK'
  BY <1>2, <1>3 DEF QueueInv, DownOK
<1> QED
  BY <1>1, <1>3, <1>4, <1>5 DEF QueueInv

\* A worker moves on in worker_loop without touching a job.
LEMMA GoToInv ==
  ASSUME QueueInv, NEW w \in Worker,
         \/ Lock(w) \/ Stop(w) \/ GoOn(w) \/ Block(w) \/ SpuriousWake(w)
  PROVE  QueueInv'
<1> USE DEF Lock, Stop, GoOn, Block, SpuriousWake, GoTo, taskVars, downVars
<1>1. UNCHANGED <<queues, shutdown_flag_, job, sub, stage, late, down, notified>>
  OBVIOUS
<1>2. PICK s \in {"lock", "scan", "block", "waiting", "exited"} :
        /\ pc' = [pc EXCEPT ![w] = s] /\ pc[w] \notin {"body", "exited"}
        /\ s = "scan" => Unlocked(Home[w])
        /\ s = "block" => pc[w] = "scan" /\ Dry(Home[w])
        /\ s = "exited" => shutdown_flag_
  BY DEF QueueInv, QueueTypeOK
<1>3. pc'[w] = s /\ \A v \in Worker \ {w} : pc'[v] = pc[v]
  BY <1>2 DEF QueueInv, QueueTypeOK
<1>4. QueueTypeOK' /\ SubStage'
  BY <1>1, <1>2 DEF QueueInv, QueueTypeOK, SubStage
<1>5. HeldOnce'
  <2>1. \A v \in Worker : pc'[v] = "body" <=> pc[v] = "body"
    BY <1>2, <1>3
  <2> QED
    BY <1>1, <2>1 DEF QueueInv, HeldOnce
<1>6. QueuesOK'
  BY <1>1 DEF QueueInv, QueuesOK
<1>7. MutexOK'
  <2>1. \A u, v \in Worker : Home[u] = Home[v] /\ pc'[u] \in Held /\ pc'[v] \in Held => u = v
    BY <1>2, <1>3 DEF QueueInv, MutexOK, Held, Unlocked
  <2>2. \A v \in Worker : pc'[v] = "block" => Dry(Home[v])
    BY <1>2, <1>3 DEF QueueInv, MutexOK
  <2> QED
    BY <1>1, <2>1, <2>2 DEF MutexOK, Dry
<1>8. DownOK'
  BY <1>1, <1>2, <1>3 DEF QueueInv, DownOK
<1> QED
  BY <1>4, <1>5, <1>6, <1>7, <1>8 DEF QueueInv

\* front() and pop(): the worker gets a job that is queued on its core.
LEMMA TakeFinds ==
  ASSUME QueueInv, NEW w \in Worker, Take(w)
  PROVE  \E t \in Task :
           /\ stage[t] = "queued" /\ InQueue(queues[Home[w]][Prio[t]], t)
           /\ queues' \in [Core -> [Priority -> Seq(Task)]]
           /\ \A c \in Core, p \in Priority : Distinct(queues'[c][p])
           /\ \A c \in Core, p \in Priority, u \in Task :
                InQueue(queues'[c][p], u) <=> InQueue(queues[c][p], u) /\ u # t
           /\ job' = [job EXCEPT ![w] = t] /\ stage' = [stage EXCEPT ![t] = "body"]
           /\ pc[w] = "scan" /\ pc' = [pc EXCEPT ![w] = "body"]
           /\ UNCHANGED <<shutdown_flag_, sub, late, down, notified>>
<1> DEFINE c == Home[w]
<1>1. PICK p \in Priority :
        /\ First(c, p)
        /\ queues' = [queues EXCEPT ![c][p] = Tail(@)]
        /\ job' = [job EXCEPT ![w] = Head(queues[c][p])]
        /\ stage' = [stage EXCEPT ![Head(queues[c][p])] = "body"]
  BY DEF Take
<1>2. /\ c \in Core /\ queues \in [Core -> [Priority -> Seq(Task)]] /\ queues[c][p] \in Seq(Task)
      /\ queues[c][p] # << >>
  BY <1>1, QueueAssumption DEF First, QueueInv, QueueTypeOK
<1> DEFINE q == queues[c][p]
           r == Tail(q)
           t == Head(q)
<1>3. Distinct(q)
  BY <1>2 DEF QueueInv, QueuesOK
<1>4. /\ t \in Task /\ InQueue(q, t) /\ r \in Seq(Task) /\ Distinct(r)
      /\ \A u : InQueue(r, u) <=> InQueue(q, u) /\ u # t
  BY <1>2, <1>3, PopFront
<1>5. queues' = [queues EXCEPT ![c] = [queues[c] EXCEPT ![p] = r]]
  BY <1>1, <1>2
<1> HIDE DEF c, r, t
<1>6. /\ queues' \in [Core -> [Priority -> Seq(Task)]]
      /\ queues'[c][p] = r
      /\ \A d \in Core, o \in Priority : d # c \/ o # p => queues'[d][o] = queues[d][o]
  BY <1>2, <1>4, <1>5
<1>7. /\ \A d \in Core, o \in Priority : Distinct(queues[d][o])
      /\ stage[t] = "queued" /\ p = Prio[t]
      /\ \A d \in Core, o \in Priority : InQueue(queues[d][o], t) => d = c /\ o = p
  <2>1. QueuesOK
    BY DEF QueueInv
  <2>2. stage[t] = "queued" /\ p = Prio[t]
    BY <1>2, <1>4, <2>1 DEF QueuesOK
  <2>3. \A d \in Core, o \in Priority : InQueue(queues[d][o], t) => o = Prio[t]
    BY <1>4, <2>1 DEF QueuesOK
  <2>4. \A d \in Core : InQueue(queues[d][Prio[t]], t) => d = c
    BY <1>2, <1>4, <2>1, <2>2 DEF QueuesOK
  <2>5. \A d \in Core, o \in Priority : Distinct(queues[d][o])
    BY <2>1 DEF QueuesOK
  <2> QED
    BY <2>2, <2>3, <2>4, <2>5
<1> HIDE DEF q
<1>8. \A d \in Core, o \in Priority : Distinct(queues'[d][o])
  BY <1>4, <1>6, <1>7
<1>9. \A d \in Core, o \in Priority, u \in Task :
        InQueue(queues'[d][o], u) <=> InQueue(queues[d][o], u) /\ u # t
  BY <1>4, <1>6, <1>7 DEF q
<1>10. InQueue(queues[c][Prio[t]], t) /\ stage' = [stage EXCEPT ![t] = "body"]
       /\ job' = [job EXCEPT ![w] = t]
  BY <1>1, <1>4, <1>7 DEF q, t
<1> QED
  BY <1>4, <1>6, <1>7, <1>8, <1>9, <1>10 DEF Take, c, downVars

\* Taking it keeps the invariant: the job was nowhere else.
LEMMA TakeInv ==
  ASSUME QueueInv, NEW w \in Worker, Take(w)
  PROVE  QueueInv'
<1>1. PICK t \in Task :
        /\ stage[t] = "queued" /\ InQueue(queues[Home[w]][Prio[t]], t)
        /\ queues' \in [Core -> [Priority -> Seq(Task)]]
        /\ \A c \in Core, p \in Priority : Distinct(queues'[c][p])
        /\ \A c \in Core, p \in Priority, u \in Task :
             InQueue(queues'[c][p], u) <=> InQueue(queues[c][p], u) /\ u # t
        /\ job' = [job EXCEPT ![w] = t] /\ stage' = [stage EXCEPT ![t] = "body"]
        /\ pc[w] = "scan" /\ pc' = [pc EXCEPT ![w] = "body"]
        /\ UNCHANGED <<shutdown_flag_, sub, late, down, notified>>
  BY TakeFinds
<1>2. /\ pc'[w] = "body" /\ \A v \in Worker \ {w} : pc'[v] = pc[v]
      /\ job'[w] = t /\ \A v \in Worker \ {w} : job'[v] = job[v]
      /\ stage'[t] = "body" /\ \A u \in Task \ {t} : stage'[u] = stage[u]
  BY <1>1 DEF QueueInv, QueueTypeOK
<1>3. QueueTypeOK'
  BY <1>1 DEF QueueInv, QueueTypeOK
<1>4. SubStage'
  BY <1>1, <1>2 DEF QueueInv, SubStage
<1>5. HeldOnce'
  <2>1. job[w] = NoTask /\ \A v \in Worker : job[v] # t
    BY <1>1, WorkloadAssumption DEF QueueInv, HeldOnce
  <2>2. \A v \in Worker : IF pc'[v] = "body" THEN job'[v] \in Task /\ stage'[job'[v]] = "body"
                                             ELSE job'[v] = NoTask
    BY <1>2, <2>1 DEF QueueInv, HeldOnce
  <2>3. \A u, v \in Worker : job'[u] = job'[v] /\ job'[u] # NoTask => u = v
    BY <1>2, <2>1 DEF QueueInv, HeldOnce
  <2>4. ASSUME NEW u \in Task, stage'[u] = "body" PROVE \E v \in Worker : job'[v] = u
    <3>1. CASE u = t
      BY <1>2, <3>1
    <3>2. CASE u # t
      <4>1. PICK v \in Worker : job[v] = u
        BY <1>2, <2>4, <3>2 DEF QueueInv, HeldOnce
      <4>2. v # w
        BY <2>1, <4>1, WorkloadAssumption
      <4> QED
        BY <1>2, <4>1, <4>2
    <3> QED
      BY <3>1, <3>2
  <2> QED
    BY <2>2, <2>3, <2>4 DEF HeldOnce
<1>6. QueuesOK'
  <2>1. \A u \in Task : Prio[u] \in Priority
    BY QueueAssumption
  <2>2. \A c \in Core, p \in Priority, u \in Task :
          InQueue(queues'[c][p], u) => stage'[u] = "queued" /\ p = Prio[u]
    BY <1>1, <1>2 DEF QueueInv, QueuesOK
  <2>3. \A c, d \in Core, u \in Task :
          InQueue(queues'[c][Prio[u]], u) /\ InQueue(queues'[d][Prio[u]], u) => c = d
    <3>1. \A c \in Core, u \in Task :
            InQueue(queues'[c][Prio[u]], u) => InQueue(queues[c][Prio[u]], u)
      BY <1>1, <2>1
    <3> QED
      BY <3>1 DEF QueueInv, QueuesOK
  <2>4. \A u \in Task : stage'[u] = "queued" => \E c \in Core : InQueue(queues'[c][Prio[u]], u)
    BY <1>1, <1>2, <2>1 DEF QueueInv, QueuesOK
  <2> QED
    BY <1>1, <2>2, <2>3, <2>4 DEF QueuesOK
<1>7. MutexOK'
  <2>1. \A v \in Worker : pc'[v] \in Held => pc[v] \in Held /\ pc'[v] = pc[v]
    BY <1>1, <1>2 DEF Held
  <2>2. ASSUME NEW v \in Worker, pc'[v] = "block" PROVE Dry(Home[v])'
    <3>1. Dry(Home[v]) /\ Home[v] \in Core
      BY <1>2, <2>2, QueueAssumption DEF QueueInv, MutexOK
    <3>2. ASSUME NEW p \in Priority PROVE queues'[Home[v]][p] = << >>
      <4>1. queues[Home[v]][p] \in Seq(Task) /\ queues'[Home[v]][p] \in Seq(Task)
        BY <1>1, <3>1 DEF QueueInv, QueueTypeOK
      <4>2. \A u : ~InQueue(queues[Home[v]][p], u)
        BY <3>1, <4>1, EmptyQueue DEF Dry
      <4>3. \A u : ~InQueue(queues'[Home[v]][p], u)
        BY <1>1, <3>1, <4>1, <4>2, EmptyQueue
      <4> QED
        BY <4>1, <4>3, EmptyQueue
    <3> QED
      BY <3>2 DEF Dry
  <2>3. \A u, v \in Worker : Home[u] = Home[v] /\ pc'[u] \in Held /\ pc'[v] \in Held => u = v
    BY <2>1 DEF QueueInv, MutexOK
  <2> QED
    BY <2>2, <2>3 DEF MutexOK
<1>8. DownOK'
  BY <1>1, <1>2 DEF QueueInv, DownOK
<1> QED
  BY <1>3, <1>4, <1>5, <1>6, <1>7, <1>8 DEF QueueInv

\* The body returns and the worker goes back to the mutex.
LEMMA FinishBodyInv ==
  ASSUME QueueInv, NEW w \in Worker, FinishBody(w)
  PROVE  QueueInv'
<1>1. PICK t \in Task : t = job[w] /\ stage[t] = "body"
  BY DEF FinishBody, QueueInv, HeldOnce
<1>2. /\ pc[w] = "body" /\ pc' = [pc EXCEPT ![w] = "lock"]
      /\ job' = [job EXCEPT ![w] = NoTask] /\ stage' = [stage EXCEPT ![t] = "done"]
      /\ UNCHANGED <<queues, shutdown_flag_, sub, late, down, notified>>
  BY <1>1 DEF FinishBody, downVars
<1>3. /\ pc'[w] = "lock" /\ \A v \in Worker \ {w} : pc'[v] = pc[v]
      /\ job'[w] = NoTask /\ \A v \in Worker \ {w} : job'[v] = job[v]
      /\ stage'[t] = "done" /\ \A u \in Task \ {t} : stage'[u] = stage[u]
  BY <1>2 DEF QueueInv, QueueTypeOK
<1>4. QueueTypeOK'
  BY <1>2 DEF QueueInv, QueueTypeOK
<1>5. SubStage'
  BY <1>1, <1>2, <1>3 DEF QueueInv, SubStage
<1>6. HeldOnce'
  <2>1. \A v \in Worker \ {w} : job[v] # t
    BY <1>1, WorkloadAssumption DEF QueueInv, HeldOnce
  <2>2. \A v \in Worker : IF pc'[v] = "body" THEN job'[v] \in Task /\ stage'[job'[v]] = "body"
                                             ELSE job'[v] = NoTask
    BY <1>3, <2>1 DEF QueueInv, HeldOnce
  <2>3. \A u, v \in Worker : job'[u] = job'[v] /\ job'[u] # NoTask => u = v
    BY <1>3 DEF QueueInv, HeldOnce
  <2>4. \A u \in Task : stage'[u] = "body" => \E v \in Worker : job'[v] = u
    BY <1>1, <1>3 DEF QueueInv, HeldOnce
  <2> QED
    BY <2>2, <2>3, <2>4 DEF HeldOnce
<1>7. QueuesOK'
  BY <1>1, <1>2, <1>3, QueueAssumption DEF QueueInv, QueuesOK
<1>8. MutexOK'
  BY <1>2, <1>3 DEF QueueInv, MutexOK, Held, Dry
<1>9. DownOK'
  BY <1>2, <1>3 DEF QueueInv, DownOK
<1> QED
  BY <1>4, <1>5, <1>6, <1>7, <1>8, <1>9 DEF QueueInv

\* The steps of shutdown(): the loop over the cores stops at the last one.
LEMMA ShutdownInv ==
  ASSUME QueueInv, ShutdownFlag \/ ShutdownNotify \/ ShutdownJoin
  PROVE  QueueInv'
<1> USE DEF QueueInv
<1>1. CASE ShutdownFlag
  <2>1. UNCHANGED <<queues, pc, job, sub, stage, late, notified>>
    BY <1>1 DEF ShutdownFlag, taskVars
  <2>2. QueueTypeOK' /\ SubStage' /\ DownOK'
    BY <1>1, <2>1 DEF ShutdownFlag, QueueTypeOK, SubStage, DownOK
  <2> QED
    BY <2>1, <2>2 DEF HeldOnce, QueuesOK, MutexOK, Dry
<1>2. CASE ShutdownNotify
  <2>1. UNCHANGED <<queues, shutdown_flag_, job, sub, stage, late>> /\ down = "notifying"
    BY <1>2 DEF ShutdownNotify, taskVars
  <2>2. Woken
    BY <1>2 DEF ShutdownNotify, NotifyAll, Waiting, Woken, QueueTypeOK
  <2>3. HeldOnce' /\ QueuesOK' /\ MutexOK' /\ \A w \in Worker : pc'[w] = "exited" <=> pc[w] = "exited"
    BY <2>1, <2>2, WokenInv
  <2>4. /\ num_cores \in Nat /\ notified \in 0 .. num_cores /\ notified < num_cores
        /\ notified' = notified + 1
        /\ down' = IF notified' = num_cores THEN "joining" ELSE "notifying"
    BY <1>2, <2>1, QueueAssumption DEF ShutdownNotify, QueueTypeOK, DownOK
  <2>5. notified' \in 0 .. num_cores /\ (notified' = num_cores \/ notified' < num_cores)
    BY <2>4
  <2>6. QueueTypeOK' /\ SubStage'
    BY <2>1, <2>2, <2>4, <2>5 DEF QueueTypeOK, SubStage, Woken
  <2>7. DownOK'
    BY <2>1, <2>3, <2>4, <2>5 DEF DownOK
  <2> QED
    BY <2>3, <2>6, <2>7
<1>3. CASE ShutdownJoin
  <2>1. UNCHANGED <<queues, shutdown_flag_, pc, job, sub, stage, late, notified>>
    BY <1>3 DEF ShutdownJoin, taskVars
  <2>2. QueueTypeOK' /\ SubStage' /\ DownOK'
    BY <1>3, <2>1 DEF ShutdownJoin, QueueTypeOK, SubStage, DownOK
  <2> QED
    BY <2>1, <2>2 DEF HeldOnce, QueuesOK, MutexOK, Dry
<1> QED
  BY <1>1, <1>2, <1>3

\* What leaves the pool's variables alone.
LEMMA StutterInv ==
  ASSUME QueueInv, UNCHANGED queueVars
  PROVE  QueueInv'
BY DEF QueueInv, queueVars, taskVars, downVars, QueueTypeOK, SubStage, HeldOnce, QueuesOK, MutexOK,
       DownOK, Dry

\* submit() adds its job to one core, and worker_loop takes it from there.
LEMMA QueuedChanges ==
  ASSUME QueueInv
  PROVE  /\ \A t \in Task, c \in Core : sub[t] \in {"idle", "placed"} /\ Push(t, c) =>
              \A d \in Core : QueuedOn(d)' \subseteq QueuedOn(d) \cup (IF d = c THEN {t} ELSE {})
         /\ \A w \in Worker : Take(w) =>
              /\ \A d \in Core : QueuedOn(d)' \subseteq QueuedOn(d)
              /\ \E t \in QueuedOn(Home[w]) : job' = [job EXCEPT ![w] = t]
<1>0. \A c : /\ QueuedOn(c) = {t \in Task : \E p \in Priority : InQueue(queues[c][p], t)}
             /\ QueuedOn(c)' = {t \in Task : \E p \in Priority : InQueue(queues'[c][p], t)}
  BY DEF QueuedOn, InQueue
<1>1. ASSUME NEW t \in Task, NEW c \in Core, sub[t] \in {"idle", "placed"}, Push(t, c),
             NEW d \in Core
      PROVE  QueuedOn(d)' \subseteq QueuedOn(d) \cup (IF d = c THEN {t} ELSE {})
  <2>1. \A o \in Priority, u \in Task :
          InQueue(queues'[d][o], u)
            <=> InQueue(queues[d][o], u) \/ (d = c /\ o = Prio[t] /\ u = t)
    BY <1>1, PushAdds
  <2> QED
    BY <1>0, <2>1
<1>2. ASSUME NEW w \in Worker, Take(w)
      PROVE  /\ \A d \in Core : QueuedOn(d)' \subseteq QueuedOn(d)
             /\ \E t \in QueuedOn(Home[w]) : job' = [job EXCEPT ![w] = t]
  <2>1. PICK t \in Task :
          /\ InQueue(queues[Home[w]][Prio[t]], t) /\ job' = [job EXCEPT ![w] = t]
          /\ \A c \in Core, p \in Priority, u \in Task :
               InQueue(queues'[c][p], u) <=> InQueue(queues[c][p], u) /\ u # t
    BY <1>2, TakeFinds
  <2>2. Prio[t] \in Priority
    BY QueueAssumption
  <2> QED
    BY <1>0, <2>1, <2>2
<1> QED
  BY <1>1, <1>2

\* Nothing is queued on a core whose queues are empty.
LEMMA DryEmpty ==
  ASSUME QueueInv, NEW c \in Core, Dry(c)
  PROVE  QueuedOn(c) = {} /\ \A t \in Task : ~InQueue(queues[c][Prio[t]], t)
<1>1. \A p \in Priority, t \in Task : ~InQueue(queues[c][p], t)
  BY EmptyQueue DEF Dry, QueueInv, QueueTypeOK
<1> QED
  BY <1>1, QueueAssumption DEF QueuedOn, InQueue

-----------------------------------------------------------------------------
(***************************************************************************)
(* The contract.  What is left to the schedulers is to show that a worker  *)
(* does not leave while a task it was promised to is queued.               *)
(***************************************************************************)

\* A step that moves no task is none of the contract's.
LEMMA SimStutter ==
  ASSUME UNCHANGED <<stage, late, shutdown_flag_>>, down' = "returned" <=> down = "returned"
  PROVE  UNCHANGED Pool!vars
BY DEF Pool!vars

\* An empty pool is an empty pool.
LEMMA SimInit ==
  ASSUME QueueInit
  PROVE  Pool!Init
BY DEF QueueInit, Pool!Init

\* The contract sees a submit() when it pushes the job.
LEMMA SimPush ==
  ASSUME QueueInv, NEW t \in Task, NEW c \in Core, sub[t] \in {"idle", "placed"},
         Nested(t) => stage[Submitter[t]] = "body", Push(t, c)
  PROVE  Pool!Submit(t)
<1>1. stage[t] = "none"
  BY DEF QueueInv, SubStage
<1> QED
  BY <1>1 DEF Push, IsLate, QueueInv, QueueTypeOK, Nested, downVars, Pool!Submit, Pool!IsLate,
              Pool!Nested

\* A worker takes a job before it leaves, so before shutdown() returns.
LEMMA SimTake ==
  ASSUME QueueInv, NEW w \in Worker, Take(w)
  PROVE  \E t \in Task : Pool!Start(t)
<1>1. PICK t \in Task :
        /\ stage[t] = "queued" /\ stage' = [stage EXCEPT ![t] = "body"]
        /\ pc[w] = "scan" /\ UNCHANGED <<shutdown_flag_, late, down>>
  BY TakeFinds
<1>2. Pool!Start(t)
  BY <1>1 DEF QueueInv, QueueTypeOK, DownOK, Pool!Start
<1> QED
  BY <1>2

\* A task is finished when its body returns.
LEMMA SimFinish ==
  ASSUME QueueInv, NEW w \in Worker, FinishBody(w)
  PROVE  \E t \in Task : Pool!Finish(t)
<1>1. PICK t \in Task : t = job[w] /\ stage[t] = "body"
  BY DEF FinishBody, QueueInv, HeldOnce
<1>2. stage' = [stage EXCEPT ![t] = "done"] /\ UNCHANGED <<shutdown_flag_, late, down>>
  BY <1>1 DEF FinishBody, downVars
<1>3. Pool!Finish(t)
  BY <1>1, <1>2 DEF QueueInv, QueueTypeOK, Pool!Finish
<1> QED
  BY <1>3

\* shutdown() returns when all workers have left; then no body is running.
LEMMA SimShutdown ==
  ASSUME QueueInv, ShutdownFlag \/ ShutdownNotify \/ ShutdownJoin,
         (\A w \in Worker : pc[w] = "exited") => \A t \in Task : stage[t] = "queued" => t \in late
  PROVE  UNCHANGED Pool!vars \/ Pool!Shutdown \/ Pool!Return
<1>1. CASE ShutdownFlag
  BY <1>1 DEF ShutdownFlag, QueueInv, DownOK, taskVars, Pool!Shutdown
<1>2. CASE ShutdownNotify
  BY <1>2, SimStutter DEF ShutdownNotify, taskVars
<1>3. CASE ShutdownJoin
  <2>1. \A t \in Task : stage[t] # "body"
    BY <1>3, WorkloadAssumption DEF ShutdownJoin, QueueInv, HeldOnce
  <2>2. \A t \in Task : stage[t] = "queued" => t \in late
    BY <1>3 DEF ShutdownJoin
  <2> QED
    BY <1>3, <2>1, <2>2 DEF ShutdownJoin, QueueInv, QueueTypeOK, DownOK, taskVars, Pool!Return
<1> QED
  BY <1>1, <1>2, <1>3

=============================================================================
