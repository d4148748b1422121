------------------------- MODULE WorkStealing_proofs -------------------------
(***************************************************************************)
(* Proofs about WorkStealingScheduler, for every number of workers, tasks  *)
(* and priorities and every batch size.                                    *)
(***************************************************************************)
EXTENDS WorkStealingScheduler, DoorbellPool_proofs, SequenceTheorems

Search == {"local", "inject", "steal", "cas"}

\* The scan index names an injector or a peer's deque where it is used.
ScanOK ==
  \A w \in Worker :
    /\ pc[w] = "inject" => pos[w] \in Priority
    /\ pc[w] = "steal" => pos[w] <= ScanEnd
    /\ pc[w] = "cas" => pos[w] < ScanEnd
    /\ pc[w] \notin {"inject", "steal", "cas"} => pos[w] = 0

\* While top_ is what a thief has read, so is the element at the top: top_
\* never goes back, and the owner cannot take that element without moving it.
ThiefOK ==
  \A w \in Worker : pc[w] = "cas" =>
    /\ ptr[w] \in Task
    /\ expected[w] <= VictimTop(w)
    /\ CasSucceeds(w) => VictimDeque(w) # << >> /\ Head(VictimDeque(w)) = ptr[w]

IInv ==
  /\ TypeOK
  /\ PoolInv(Search)
  /\ ScanOK
  /\ ThiefOK
  /\ QueuedOnce
  /\ NothingLost

-----------------------------------------------------------------------------
(***************************************************************************)
(* The scan over the peers.                                                *)
(***************************************************************************)

\* i \div P is the quotient, for a scan of k rounds over P peers.
LEMMA Quotient ==
  ASSUME NEW P \in Nat \ {0}, NEW k \in Nat, NEW i \in Nat, i < k * P
  PROVE  i \div P \in 0 .. (k - 1) /\ i % P \in 0 .. (P - 1)
<1>1. i % P \in 0 .. (P - 1) /\ i \div P \in Int
  OBVIOUS
<1>2. i \div P >= 0
  OBVIOUS
<1>3. i \div P < k
  OBVIOUS
<1> QED
  BY <1>1, <1>2, <1>3

\* Inside the scan, the victim is a worker, and not the thief itself.
LEMMA VictimOK ==
  ASSUME NEW w \in Worker, pos[w] \in Nat, pos[w] < ScanEnd
  PROVE  /\ ScanPriority(w) \in Priority
         /\ ScanPeer(w) \in Worker
         /\ ScanPeer(w) # w
<1> USE WorkersAssumption, PriorityAssumption
<1>1. Peers \in Nat
  BY DEF Peers
<1>2. Peers # 0
  BY <1>1 DEF ScanEnd
<1>3. /\ pos[w] \div Peers \in 0 .. (kPriorityCount - 1)
      /\ pos[w] % Peers \in 0 .. (Peers - 1)
  BY <1>1, <1>2, Quotient DEF ScanEnd
<1> QED
  BY <1>3 DEF ScanPriority, ScanPeer, Priority, Worker, Peers

-----------------------------------------------------------------------------
\* A batch from a queue that is not empty has at least one job.
LEMMA BatchSizeOK ==
  ASSUME NEW n \in Nat \ {0}
  PROVE  BatchSize(n) \in 1 .. n
BY PriorityAssumption DEF BatchSize

-----------------------------------------------------------------------------
(***************************************************************************)
(* The queues.                                                             *)
(***************************************************************************)

\* Every queue is a sequence of tasks.
LEMMA QueueType ==
  ASSUME TypeOK, NEW h \in Holder, NEW p \in Priority
  PROVE  /\ QueueAt(h, p) \in Seq(Task)
         /\ DOMAIN QueueAt(h, p) = 1 .. Len(QueueAt(h, p))
         /\ Len(QueueAt(h, p)) \in Nat
<1>1. QueueAt(h, p) \in Seq(Task)
  BY WorkersAssumption DEF QueueAt, TypeOK, Holder, Worker
<1> QED
  BY <1>1, LenProperties

\* What does not touch the queues does not disturb the jobs in them.
LEMMA QueuesSame ==
  ASSUME TypeOK, QueuedOnce, NothingLost, UNCHANGED <<injectors, local_deques>>,
         \A t \in Task : stage'[t] = "queued" <=> stage[t] = "queued"
  PROVE  QueuedOnce' /\ NothingLost'
<1>1. ASSUME NEW h \in Holder, NEW p \in Priority
      PROVE  QueueAt(h, p)' = QueueAt(h, p)
  BY DEF QueueAt
<1>2. QueuedOnce'
  <2>1. ASSUME NEW h \in Holder, NEW p \in Priority, NEW i \in DOMAIN QueueAt(h, p)
        PROVE  QueueAt(h, p)[i] \in Task
    BY <2>1, QueueType, ElementOfSeq
  <2> QED
    BY <1>1, <2>1 DEF QueuedOnce
<1>3. NothingLost'
  <2>1. ASSUME NEW t \in Task
        PROVE  Prio[t] \in Priority
    BY PriorityAssumption DEF Priority
  <2> QED
    BY <1>1, <2>1 DEF NothingLost
<1> QED
  BY <1>2, <1>3

\* Taking a job out at one end of a queue (skip = 1 at the top, 0 at the
\* bottom) to run it neither duplicates nor loses any other.
LEMMA TakeOne ==
  ASSUME TypeOK, TypeOK', QueuedOnce, NothingLost,
         NEW g \in Holder, NEW q \in Priority, NEW skip \in {0, 1}, NEW t \in Task,
         QueueAt(g, q) # << >>,
         t = QueueAt(g, q)[IF skip = 1 THEN 1 ELSE Len(QueueAt(g, q))],
         stage' = [stage EXCEPT ![t] = "body"],
         Len(QueueAt(g, q)') = Len(QueueAt(g, q)) - 1,
         \A i \in 1 .. (Len(QueueAt(g, q)) - 1) :
           QueueAt(g, q)'[i] = QueueAt(g, q)[i + skip],
         \A h \in Holder, p \in Priority :
           h # g \/ p # q => QueueAt(h, p)' = QueueAt(h, p)
  PROVE  QueuedOnce' /\ NothingLost'
<1> DEFINE d == QueueAt(g, q)
           last == Len(d)
           taken == IF skip = 1 THEN 1 ELSE last
           Old(h, p, i) == IF h = g /\ p = q THEN i + skip ELSE i
<1>1. /\ last \in Nat \ {0} /\ taken \in 1 .. last /\ DOMAIN d = 1 .. last
      /\ DOMAIN d' = 1 .. (last - 1)
  <2>1. DOMAIN d' = 1 .. Len(d')
    BY QueueType, LenProperties DEF TypeOK, QueueAt, Holder, Worker
  <2> QED
    BY <2>1, QueueType, EmptySeq
<1>2. stage[t] = "queued" /\ Prio[t] = q
  BY <1>1 DEF QueuedOnce
<1>3. ASSUME NEW h \in Holder, NEW p \in Priority, NEW i \in DOMAIN QueueAt(h, p)'
      PROVE  /\ Old(h, p, i) \in DOMAIN QueueAt(h, p)
             /\ QueueAt(h, p)'[i] = QueueAt(h, p)[Old(h, p, i)]
             /\ h = g /\ p = q => Old(h, p, i) # taken
  BY <1>1
<1>4. QueuedOnce'
  <2>1. ASSUME NEW h \in Holder, NEW p \in Priority, NEW i \in DOMAIN QueueAt(h, p)'
        PROVE  stage'[QueueAt(h, p)'[i]] = "queued" /\ Prio[QueueAt(h, p)'[i]] = p
    <3> DEFINE u == QueueAt(h, p)[Old(h, p, i)]
    <3>1. u \in Task /\ stage[u] = "queued" /\ Prio[u] = p
      <4>1. Old(h, p, i) \in DOMAIN QueueAt(h, p)
        BY <1>3, <2>1
      <4> HIDE DEF Old
      <4> QED
        BY <4>1, QueueType, ElementOfSeq DEF QueuedOnce
    <3>2. u # t
      BY <1>1, <1>2, <1>3, <2>1, <3>1 DEF QueuedOnce
    <3> QED
      BY <1>3, <2>1, <3>1, <3>2 DEF TypeOK, PoolTypeOK
  <2>2. ASSUME NEW h \in Holder, NEW k \in Holder, NEW p \in Priority,
               NEW i \in DOMAIN QueueAt(h, p)', NEW j \in DOMAIN QueueAt(k, p)',
               QueueAt(h, p)'[i] = QueueAt(k, p)'[j]
        PROVE  h = k /\ i = j
    BY <1>1, <1>3, <2>2 DEF QueuedOnce
  <2> QED
    BY <2>1, <2>2 DEF QueuedOnce
<1>5. NothingLost'
  <2> SUFFICES ASSUME NEW u \in Task, stage'[u] = "queued"
               PROVE  \E h \in Holder : \E i \in DOMAIN QueueAt(h, Prio[u])' :
                        QueueAt(h, Prio[u])'[i] = u
    BY DEF NothingLost
  <2>1. u # t /\ stage[u] = "queued"
    BY DEF TypeOK, PoolTypeOK
  <2>2. PICK h \in Holder : \E i \in DOMAIN QueueAt(h, Prio[u]) : QueueAt(h, Prio[u])[i] = u
    BY <2>1 DEF NothingLost
  <2>3. PICK i \in DOMAIN QueueAt(h, Prio[u]) : QueueAt(h, Prio[u])[i] = u
    BY <2>2
  <2>4. Prio[u] \in Priority
    BY PriorityAssumption DEF Priority
  <2>5. CASE h = g /\ Prio[u] = q
    <3>1. i # taken /\ i - skip \in 1 .. (last - 1)
      BY <1>1, <2>1, <2>3, <2>5
    <3> QED
      BY <1>1, <2>3, <2>5, <3>1
  <2>6. CASE ~(h = g /\ Prio[u] = q)
    BY <2>3, <2>4, <2>6
  <2> QED
    BY <2>5, <2>6
<1> QED
  BY <1>4, <1>5

-----------------------------------------------------------------------------
(***************************************************************************)
(* The thieves.                                                            *)
(***************************************************************************)

\* top_ grows, or the element at the top stays where it is.
TopKept(v, p) ==
  /\ top[v][p] <= top'[v][p]
  /\ top'[v][p] = top[v][p] /\ local_deques[v][p] # << >> =>
       local_deques'[v][p] # << >> /\ Head(local_deques'[v][p]) = Head(local_deques[v][p])

\* So it is with a deque that nobody touches.
LEMMA TopSame ==
  ASSUME TypeOK, NEW v \in Worker, NEW p \in Priority,
         local_deques'[v][p] = local_deques[v][p], top'[v][p] = top[v][p]
  PROVE  TopKept(v, p)
<1>1. top[v][p] \in Nat
  BY DEF TypeOK
<1> QED
  BY <1>1 DEF TopKept

\* Thieves between their loads and their compare-and-swap notice what others
\* do to the deque.
LEMMA ThievesKeep ==
  ASSUME TypeOK, TypeOK', ScanOK, ThiefOK,
         \A v \in Worker, p \in Priority : TopKept(v, p),
         NEW u \in Worker, pc[u] = "cas",
         pos'[u] = pos[u], expected'[u] = expected[u], ptr'[u] = ptr[u]
  PROVE  /\ ptr'[u] \in Task
         /\ expected'[u] <= VictimTop(u)'
         /\ CasSucceeds(u)' =>
              VictimDeque(u)' # << >> /\ Head(VictimDeque(u)') = ptr'[u]
<1>1. ScanPeer(u)' = ScanPeer(u) /\ ScanPriority(u)' = ScanPriority(u)
  BY DEF ScanPeer, ScanPriority
<1>2. ScanPeer(u) \in Worker /\ ScanPriority(u) \in Priority
  BY VictimOK DEF ScanOK, TypeOK
<1> DEFINE v == ScanPeer(u)
           p == ScanPriority(u)
<1>3. TopKept(v, p)
  BY <1>2
<1>4. /\ ptr[u] \in Task
      /\ expected[u] <= top[v][p]
      /\ top[v][p] = expected[u] =>
           local_deques[v][p] # << >> /\ Head(local_deques[v][p]) = ptr[u]
  BY DEF ThiefOK, VictimTop, VictimDeque, CasSucceeds
<1>5. top[v][p] \in Nat /\ top'[v][p] \in Nat /\ expected[u] \in Nat
  BY <1>2 DEF TypeOK
<1>6. /\ VictimTop(u)' = top'[v][p]
      /\ VictimDeque(u)' = local_deques'[v][p]
      /\ CasSucceeds(u)' <=> top'[v][p] = expected[u]
  BY <1>1 DEF VictimTop, VictimDeque, CasSucceeds
<1> HIDE DEF v, p
<1> QED
  BY <1>3, <1>4, <1>5, <1>6 DEF TopKept

-----------------------------------------------------------------------------
(***************************************************************************)
(* The steps in which the queues have no part.                             *)
(***************************************************************************)

Scanning == {"inject", "steal", "cas"}

\* They keep the whole invariant if they keep the pool's part of it.
LEMMA CommonStepInv ==
  ASSUME IInv, PoolInv(Search)', UNCHANGED schedVars,
         \A w \in Worker : pc'[w] = pc[w] \/ (pc[w] \notin Scanning /\ pc'[w] \notin Scanning),
         \A t \in Task : stage'[t] = "queued" <=> stage[t] = "queued"
  PROVE  IInv'
<1> USE DEF schedVars, scanVars
<1>1. TypeOK'
  BY DEF IInv, PoolInv, TypeOK, Search
<1>2. ScanOK'
  BY DEF IInv, ScanOK, Scanning
<1>3. ThiefOK'
  <2>1. \A v \in Worker, p \in Priority : TopKept(v, p)
    BY TopSame DEF IInv
  <2>2. ASSUME NEW u \in Worker, pc'[u] = "cas"
        PROVE  pc[u] = "cas"
    BY <2>2 DEF Scanning
  <2> QED
    BY <1>1, <2>1, <2>2, ThievesKeep DEF IInv, ThiefOK
<1> QED
  BY <1>1, <1>2, <1>3, QueuesSame DEF IInv

\* The steps of find_task that find nothing: only the scan moves on.
LEMMA ScanStepInv ==
  ASSUME IInv, PoolInv(Search)', UNCHANGED <<injectors, local_deques, top, tasks_stolen, stage>>,
         NEW w \in Worker,
         /\ pos' \in [Worker -> Nat]
         /\ expected' \in [Worker -> Nat]
         /\ ptr' \in [Worker -> Task \cup {NoTask}],
         pc'[w] # "cas",
         /\ pc'[w] = "inject" => pos'[w] \in Priority
         /\ pc'[w] = "steal" => pos'[w] <= ScanEnd
         /\ pc'[w] \notin Scanning => pos'[w] = 0,
         \A u \in Worker \ {w} : /\ pc'[u] = pc[u] /\ pos'[u] = pos[u]
                                /\ expected'[u] = expected[u] /\ ptr'[u] = ptr[u]
  PROVE  IInv'
<1>1. TypeOK'
  BY DEF IInv, PoolInv, TypeOK, Search
<1>2. ScanOK'
  BY DEF IInv, ScanOK, Scanning, ScanEnd, Peers, Priority
<1>3. ThiefOK'
  <2>1. \A v \in Worker, p \in Priority : TopKept(v, p)
    BY TopSame DEF IInv
  <2> QED
    BY <1>1, <2>1, ThievesKeep DEF IInv, ThiefOK
<1> QED
  BY <1>1, <1>2, <1>3, QueuesSame DEF IInv

\* The worker's own deques are empty: on to the first injector.
LEMMA LocalEmptyInv ==
  ASSUME IInv, NEW w \in Worker, LocalEmpty(w)
  PROVE  IInv'
<1> USE DEF LocalEmpty, GoTo, taskVars, schedVars, scanVars
<1>1. PoolInv(Search)'
  BY GoToInv DEF IInv, Searching, Search
<1>2. pos[w] = 0 /\ 0 \in Priority
  BY PriorityAssumption DEF IInv, ScanOK, Priority
<1> QED
  BY <1>1, <1>2, ScanStepInv DEF IInv, TypeOK, PoolTypeOK

\* An empty injector: on to the next one, or to the first peer.
LEMMA InjectorEmptyInv ==
  ASSUME IInv, NEW w \in Worker, InjectorEmpty(w)
  PROVE  IInv'
<1> USE DEF InjectorEmpty, taskVars
<1>1. PoolInv(Search)'
  BY GoToInv DEF IInv, Searching, Search
<1>2. pos[w] \in Priority /\ 0 <= ScanEnd
  <2>1. kPriorityCount \in Nat /\ Peers \in Nat
    BY PriorityAssumption, WorkersAssumption DEF Peers
  <2> QED
    BY <2>1 DEF IInv, ScanOK, ScanEnd
<1>3. pos[w] # kPriorityCount - 1 => pos[w] + 1 \in Priority
  BY <1>2, PriorityAssumption DEF Priority
<1>4. /\ pos' \in [Worker -> Nat]
      /\ pc'[w] = "inject" => pos'[w] \in Priority
      /\ pc'[w] = "steal" => pos'[w] <= ScanEnd
      /\ pc'[w] \in {"inject", "steal"}
      /\ \A u \in Worker \ {w} : pc'[u] = pc[u] /\ pos'[u] = pos[u]
  BY <1>2, <1>3 DEF GoTo, IInv, TypeOK, PoolTypeOK
<1>5. UNCHANGED stage
  BY DEF GoTo
<1> QED
  BY <1>1, <1>4, <1>5, ScanStepInv DEF IInv, TypeOK, Scanning

\* An empty deque or a lost race: on to the next peer.
LEMMA StealNextInv ==
  ASSUME IInv, NEW w \in Worker, StealEmpty(w) \/ StealLose(w)
  PROVE  IInv'
<1>1. /\ pc[w] \in {"steal", "cas"} /\ GoTo(w, "steal")
      /\ pos' = [pos EXCEPT ![w] = pos[w] + 1]
      /\ UNCHANGED <<injectors, local_deques, top, tasks_stolen>>
  BY DEF StealEmpty, StealLose, ToNextPeer
<1>2. PoolInv(Search)'
  BY <1>1, GoToInv DEF IInv, Searching, Search
<1>3. pos[w] \in Nat /\ pos[w] < ScanEnd
  BY DEF StealEmpty, StealLose, IInv, ScanOK, TypeOK
<1>4. pos[w] + 1 <= ScanEnd
  BY <1>3, PriorityAssumption, WorkersAssumption DEF ScanEnd, Peers
<1>5. /\ pos' \in [Worker -> Nat]
      /\ pc'[w] = "steal" /\ pos'[w] <= ScanEnd
      /\ \A u \in Worker \ {w} : pc'[u] = pc[u] /\ pos'[u] = pos[u]
  BY <1>1, <1>3, <1>4 DEF GoTo, IInv, TypeOK, PoolTypeOK
<1>6. /\ expected' \in [Worker -> Nat] /\ ptr' \in [Worker -> Task \cup {NoTask}]
      /\ \A u \in Worker \ {w} : expected'[u] = expected[u] /\ ptr'[u] = ptr[u]
  <2>1. CASE StealEmpty(w)
    BY <2>1 DEF StealEmpty, IInv, TypeOK
  <2>2. CASE StealLose(w)
    BY <2>2 DEF StealLose, ForgetTop, IInv, TypeOK
  <2> QED
    BY <2>1, <2>2
<1> QED
  BY <1>1, <1>2, <1>5, <1>6, ScanStepInv DEF GoTo, taskVars, Scanning

\* The scan is over: the worker leaves or goes to sleep.
LEMMA NoneFoundInv ==
  ASSUME IInv, NEW w \in Worker, NoneFound(w)
  PROVE  IInv'
<1> USE DEF NoneFound, taskVars
<1>1. PoolInv(Search)'
  BY StopOrWaitInv DEF IInv, Searching, Search
<1> QED
  BY <1>1, ScanStepInv DEF StopOrWait, GoTo, IInv, TypeOK, PoolTypeOK, Scanning

\* The thief reads top_ and the element at the top in the same state.
LEMMA StealLoadInv ==
  ASSUME IInv, NEW w \in Worker, StealLoad(w)
  PROVE  IInv'
<1> USE DEF StealLoad
<1>1. PoolInv(Search)'
  BY GoToInv DEF IInv, Searching, Search
<1>2. ScanPeer(w) \in Worker /\ ScanPriority(w) \in Priority
  BY VictimOK DEF IInv, TypeOK
<1>3. VictimTop(w) \in Nat /\ Head(VictimDeque(w)) \in Task
  BY <1>2, HeadTailProperties DEF IInv, TypeOK, VictimTop, VictimDeque
<1>4. TypeOK'
  BY <1>1, <1>3 DEF IInv, PoolInv, TypeOK, Search
<1>5. ScanOK'
  BY DEF GoTo, IInv, ScanOK, TypeOK, PoolTypeOK
<1>6. ThiefOK'
  <2>1. \A v \in Worker, p \in Priority : TopKept(v, p)
    BY TopSame DEF IInv
  <2>2. ASSUME NEW u \in Worker \ {w}, pc'[u] = "cas"
        PROVE  /\ pc[u] = "cas"
               /\ pos'[u] = pos[u] /\ expected'[u] = expected[u] /\ ptr'[u] = ptr[u]
    BY <2>2 DEF GoTo, IInv, TypeOK, PoolTypeOK
  <2>3. /\ ptr'[w] \in Task
        /\ expected'[w] <= VictimTop(w)'
        /\ VictimDeque(w)' # << >> /\ Head(VictimDeque(w)') = ptr'[w]
    BY <1>3 DEF IInv, TypeOK, VictimTop, VictimDeque, ScanPeer, ScanPriority
  <2> QED
    BY <1>4, <2>1, <2>2, <2>3, ThievesKeep DEF IInv, ThiefOK
<1> QED
  BY <1>1, <1>4, <1>5, <1>6, QueuesSame DEF GoTo, taskVars, IInv

-----------------------------------------------------------------------------
(***************************************************************************)
(* The steps that move jobs.                                               *)
(***************************************************************************)

\* The part of a queue from position m to position n, which may be empty.
LEMMA PartOfQueue ==
  ASSUME NEW d \in Seq(Task), NEW m \in 1 .. (Len(d) + 1), NEW n \in (m - 1) .. Len(d)
  PROVE  /\ SubSeq(d, m, n) \in Seq(Task)
         /\ Len(SubSeq(d, m, n)) = n - m + 1
         /\ \A i \in 1 .. (n - m + 1) : SubSeq(d, m, n)[i] = d[i + (m - 1)]
<1>1. Len(d) \in Nat
  BY LenProperties
<1>2. \A i \in m .. n : d[i] \in Task
  BY <1>1, ElementOfSeq
<1>3. m \in Int /\ n \in Int
  BY <1>1
<1>4. /\ SubSeq(d, m, n) \in Seq(Task)
      /\ Len(SubSeq(d, m, n)) = IF m <= n THEN n - m + 1 ELSE 0
      /\ \A i \in 1 .. (n - m + 1) : SubSeq(d, m, n)[i] = d[m + i - 1]
  BY <1>2, <1>3, SubSeqProperties
<1>5. \A i \in 1 .. (n - m + 1) : m + i - 1 = i + (m - 1)
  BY <1>3
<1> QED
  BY <1>1, <1>3, <1>4, <1>5

\* What a successful steal() leaves of a deque.
LEMMA WithoutFirst ==
  ASSUME NEW d \in Seq(Task), d # << >>
  PROVE  /\ SubSeq(d, 2, Len(d)) \in Seq(Task)
         /\ Len(SubSeq(d, 2, Len(d))) = Len(d) - 1
         /\ \A i \in 1 .. (Len(d) - 1) : SubSeq(d, 2, Len(d))[i] = d[i + 1]
         /\ Head(d) = d[1] /\ d[1] \in Task
<1>1. Len(d) \in Nat \ {0}
  BY EmptySeq
<1> DEFINE m == 2
<1>2. m \in 1 .. (Len(d) + 1) /\ Len(d) \in (m - 1) .. Len(d) /\ m - 1 = 1
  BY <1>1
<1> HIDE DEF m
<1>3. /\ SubSeq(d, m, Len(d)) \in Seq(Task)
      /\ Len(SubSeq(d, m, Len(d))) = Len(d) - m + 1
      /\ \A i \in 1 .. (Len(d) - m + 1) : SubSeq(d, m, Len(d))[i] = d[i + (m - 1)]
  BY <1>2, PartOfQueue
<1>4. Head(d) = d[1] /\ d[1] \in Task
  BY <1>1, ElementOfSeq, HeadTailProperties
<1>5. Len(d) - m + 1 = Len(d) - 1
  BY <1>1 DEF m
<1> QED
  BY <1>2, <1>3, <1>4, <1>5 DEF m

\* What the owner's pop() leaves of a deque.
LEMMA WithoutLast ==
  ASSUME NEW d \in Seq(Task), d # << >>
  PROVE  /\ SubSeq(d, 1, Len(d) - 1) \in Seq(Task)
         /\ Len(SubSeq(d, 1, Len(d) - 1)) = Len(d) - 1
         /\ \A i \in 1 .. (Len(d) - 1) : SubSeq(d, 1, Len(d) - 1)[i] = d[i]
         /\ d[Len(d)] \in Task
<1>1. Len(d) \in Nat \ {0} /\ d[Len(d)] \in Task
  BY EmptySeq, ElementOfSeq
<1> DEFINE m == 1
           n == Len(d) - 1
<1>2. m \in 1 .. (Len(d) + 1) /\ n \in (m - 1) .. Len(d) /\ n - m + 1 = n /\ m - 1 = 0
  BY <1>1
<1> HIDE DEF m, n
<1>3. /\ SubSeq(d, m, n) \in Seq(Task)
      /\ Len(SubSeq(d, m, n)) = n - m + 1
      /\ \A i \in 1 .. (n - m + 1) : SubSeq(d, m, n)[i] = d[i + (m - 1)]
  BY <1>2, PartOfQueue
<1>4. \A i \in 1 .. n : i + (m - 1) = i
  BY <1>2
<1> QED
  BY <1>1, <1>2, <1>3, <1>4 DEF m, n

\* The new job is in no queue yet: it has not been queued before.
LEMMA SubmitPushInv ==
  ASSUME IInv, NEW t \in Task, SubmitPush(t)
  PROVE  IInv'
<1> DEFINE q == Prio[t]
<1>1. PoolInv(Search)' /\ stage[t] = "none"
  BY SubmitQueuedInv DEF SubmitPush, SubmitQueued, IInv, PoolInv, SubStage
<1>2. q \in Priority
  BY PriorityAssumption DEF Priority
<1>3. /\ injectors' = [injectors EXCEPT ![q] = Append(injectors[q], t)]
      /\ stage' = [stage EXCEPT ![t] = "queued"]
      /\ UNCHANGED <<local_deques, top, tasks_stolen, pos, expected, ptr, pc>>
  BY DEF SubmitPush, SubmitQueued, scanVars
<1>4. injectors[q] \in Seq(Task) /\ stage \in [Task -> Stage]
  BY <1>2 DEF IInv, TypeOK, PoolTypeOK
<1>5. TypeOK'
  BY <1>1, <1>2, <1>3, <1>4, AppendProperties DEF IInv, PoolInv, TypeOK, Search
<1>6. ScanOK'
  BY <1>3 DEF IInv, ScanOK
<1>7. ThiefOK'
  <2>1. \A v \in Worker, p \in Priority : TopKept(v, p)
    BY <1>3, TopSame DEF IInv
  <2> QED
    BY <1>3, <1>5, <2>1, ThievesKeep DEF IInv, ThiefOK
<1>8. /\ \A h \in Holder, p \in Priority :
           h # num_workers \/ p # q => QueueAt(h, p)' = QueueAt(h, p)
      /\ QueueAt(num_workers, q) = injectors[q]
      /\ QueueAt(num_workers, q)' = Append(injectors[q], t)
      /\ num_workers \in Holder
  BY <1>2, <1>3, WorkersAssumption DEF QueueAt, Holder, IInv, TypeOK
<1> DEFINE n == Len(injectors[q])
<1>9. /\ n \in Nat /\ DOMAIN injectors[q] = 1 .. n
      /\ DOMAIN Append(injectors[q], t) = 1 .. (n + 1)
      /\ Append(injectors[q], t)[n + 1] = t
      /\ \A i \in 1 .. n : Append(injectors[q], t)[i] = injectors[q][i]
  BY <1>4, AppendProperties, LenProperties
<1>10. ASSUME NEW h \in Holder, NEW p \in Priority, NEW i \in DOMAIN QueueAt(h, p)'
       PROVE  \/ /\ i \in DOMAIN QueueAt(h, p) /\ QueueAt(h, p)'[i] = QueueAt(h, p)[i]
                 /\ QueueAt(h, p)[i] \in Task /\ QueueAt(h, p)[i] # t
              \/ h = num_workers /\ p = q /\ i = n + 1 /\ QueueAt(h, p)'[i] = t
  <2> HIDE DEF q, n
  <2>1. \/ i \in DOMAIN QueueAt(h, p) /\ QueueAt(h, p)'[i] = QueueAt(h, p)[i]
        \/ h = num_workers /\ p = q /\ i = n + 1 /\ QueueAt(h, p)'[i] = t
    BY <1>8, <1>9, <1>10
  <2>2. i \in DOMAIN QueueAt(h, p) => QueueAt(h, p)[i] \in Task /\ QueueAt(h, p)[i] # t
    BY <1>1, QueueType, ElementOfSeq DEF IInv, QueuedOnce
  <2> QED
    BY <2>1, <2>2
<1> HIDE DEF q, n
<1>11. QueuedOnce'
  <2>1. ASSUME NEW h \in Holder, NEW p \in Priority, NEW i \in DOMAIN QueueAt(h, p)'
        PROVE  stage'[QueueAt(h, p)'[i]] = "queued" /\ Prio[QueueAt(h, p)'[i]] = p
    BY <1>3, <1>4, <1>10, <2>1 DEF IInv, QueuedOnce, q
  <2>2. ASSUME NEW h \in Holder, NEW k \in Holder, NEW p \in Priority,
               NEW i \in DOMAIN QueueAt(h, p)', NEW j \in DOMAIN QueueAt(k, p)',
               QueueAt(h, p)'[i] = QueueAt(k, p)'[j]
        PROVE  h = k /\ i = j
    BY <1>10, <2>2 DEF IInv, QueuedOnce
  <2> QED
    BY <2>1, <2>2 DEF QueuedOnce
<1>12. NothingLost'
  <2> SUFFICES ASSUME NEW u \in Task, stage'[u] = "queued"
               PROVE  \E h \in Holder : \E i \in DOMAIN QueueAt(h, Prio[u])' :
                        QueueAt(h, Prio[u])'[i] = u
    BY DEF NothingLost
  <2>1. CASE u = t
    BY <1>8, <1>9, <2>1 DEF q
  <2>2. CASE u # t
    <3>1. stage[u] = "queued" /\ Prio[u] \in Priority
      BY <1>3, <1>4, <2>2, PriorityAssumption DEF Priority
    <3>2. PICK h \in Holder : \E i \in DOMAIN QueueAt(h, Prio[u]) : QueueAt(h, Prio[u])[i] = u
      BY <3>1 DEF IInv, NothingLost
    <3>3. PICK i \in DOMAIN QueueAt(h, Prio[u]) : QueueAt(h, Prio[u])[i] = u
      BY <3>2
    <3>4. i \in DOMAIN QueueAt(h, Prio[u])' /\ QueueAt(h, Prio[u])'[i] = u
      BY <1>8, <1>9, <3>1, <3>3
    <3> QED
      BY <3>4
  <2> QED
    BY <2>1, <2>2
<1> QED
  BY <1>1, <1>5, <1>6, <1>7, <1>11, <1>12 DEF IInv

\* The owner's pop(): it takes the last element from under the thieves only
\* by moving top_.
LEMMA PopLocalInv ==
  ASSUME IInv, NEW w \in Worker, PopLocal(w)
  PROVE  IInv'
<1>1. PICK p \in Priority :
        /\ local_deques[w][p] # << >>
        /\ local_deques' = [local_deques EXCEPT ![w][p] =
                              SubSeq(local_deques[w][p], 1, Len(local_deques[w][p]) - 1)]
        /\ top' = [top EXCEPT ![w][p] =
                     IF Len(local_deques[w][p]) = 1 THEN top[w][p] + 1 ELSE top[w][p]]
        /\ Found(w, local_deques[w][p][Len(local_deques[w][p])])
  BY DEF PopLocal, OwnPriority
<1> DEFINE d == local_deques[w][p]
           t == d[Len(d)]
<1>2. /\ pc[w] = "local"
      /\ UNCHANGED <<injectors, tasks_stolen, pos, expected, ptr>>
  BY DEF PopLocal, scanVars
<1>3. d \in Seq(Task) /\ d # << >> /\ Len(d) \in Nat \ {0} /\ top[w][p] \in Nat
  BY <1>1, EmptySeq DEF IInv, TypeOK
<1>4. /\ SubSeq(d, 1, Len(d) - 1) \in Seq(Task)
      /\ Len(SubSeq(d, 1, Len(d) - 1)) = Len(d) - 1
      /\ \A i \in 1 .. (Len(d) - 1) : SubSeq(d, 1, Len(d) - 1)[i] = d[i]
      /\ t \in Task
  BY <1>3, WithoutLast
<1>5. w \in Holder /\ QueueAt(w, p) = d /\ QueueAt(w, p)' = SubSeq(d, 1, Len(d) - 1)
  <2>1. w \in Holder /\ w # num_workers
    BY WorkersAssumption DEF Holder, Worker
  <2>2. local_deques'[w][p] = SubSeq(d, 1, Len(d) - 1)
    BY <1>1 DEF IInv, TypeOK
  <2> QED
    BY <2>1, <2>2 DEF QueueAt
<1>6. stage[t] = "queued"
  <2>1. Len(d) \in DOMAIN d
    BY <1>3, LenProperties
  <2> QED
    BY <1>5, <2>1 DEF IInv, QueuedOnce
<1>7. PoolInv(Search)'
  BY <1>1, <1>2, <1>4, <1>6, FoundInv DEF IInv, Searching
<1>8. TypeOK'
  <2>1. local_deques' \in [Worker -> [Priority -> Seq(Task)]]
    BY <1>1, <1>4 DEF IInv, TypeOK
  <2>2. top' \in [Worker -> [Priority -> Nat]]
    BY <1>1, <1>3 DEF IInv, TypeOK
  <2> QED
    BY <1>2, <1>7, <2>1, <2>2 DEF IInv, PoolInv, TypeOK, Search
<1>9. pc' = [pc EXCEPT ![w] = "body"] /\ stage' = [stage EXCEPT ![t] = "body"]
  BY <1>1 DEF Found
<1>10. ScanOK'
  BY <1>2, <1>9 DEF IInv, ScanOK, TypeOK, PoolTypeOK
<1>11. ThiefOK'
  <2>1. TopKept(w, p)
    <3>1. CASE Len(d) = 1
      BY <1>1, <1>3, <3>1 DEF TopKept, IInv, TypeOK
    <3>2. CASE Len(d) # 1
      <4>1. 1 \in 1 .. (Len(d) - 1) /\ SubSeq(d, 1, Len(d) - 1) # << >>
        <5>1. 1 \in 1 .. (Len(d) - 1) /\ Len(d) - 1 # 0
          <6> DEFINE n == Len(d)
          <6>1. n \in Nat \ {0} /\ n # 1
            BY <1>3, <3>2
          <6> HIDE DEF n
          <6>2. 1 \in 1 .. (n - 1) /\ n - 1 # 0
            BY <6>1
          <6> QED
            BY <6>2 DEF n
        <5>2. Len(<< >>) = 0
          BY EmptySeq
        <5> DEFINE e == SubSeq(d, 1, Len(d) - 1)
        <5>3. Len(e) # 0
          BY <1>4, <5>1
        <5> HIDE DEF e
        <5>4. e # << >>
          BY <5>2, <5>3
        <5> QED
          BY <5>1, <5>4 DEF e
      <4>2. Head(SubSeq(d, 1, Len(d) - 1)) = SubSeq(d, 1, Len(d) - 1)[1] /\ Head(d) = d[1]
        BY <1>3, <1>4, <4>1, WithoutFirst
      <4>3. local_deques'[w][p] = SubSeq(d, 1, Len(d) - 1) /\ top'[w][p] = top[w][p]
        BY <1>1, <3>2 DEF IInv, TypeOK
      <4> HIDE DEF d
      <4> QED
        BY <1>3, <1>4, <4>1, <4>2, <4>3 DEF TopKept, d
    <3> QED
      BY <3>1, <3>2
  <2>2. ASSUME NEW v \in Worker, NEW r \in Priority, v # w \/ r # p
        PROVE  TopKept(v, r)
    <3>1. local_deques'[v][r] = local_deques[v][r] /\ top'[v][r] = top[v][r]
      BY <1>1, <2>2 DEF IInv, TypeOK
    <3> QED
      BY <3>1, TopSame DEF IInv
  <2>3. ASSUME NEW u \in Worker, pc'[u] = "cas"
        PROVE  pc[u] = "cas"
    BY <1>9, <2>3 DEF IInv, TypeOK, PoolTypeOK
  <2> QED
    BY <1>2, <1>8, <2>1, <2>2, <2>3, ThievesKeep DEF IInv, ThiefOK
<1>12. QueuedOnce' /\ NothingLost'
  <2>1. \A h \in Holder, r \in Priority :
          h # w \/ r # p => QueueAt(h, r)' = QueueAt(h, r)
    BY <1>1, <1>2, WorkersAssumption DEF QueueAt, Holder, Worker, IInv, TypeOK
  <2> DEFINE skip == 0
  <2>2. /\ skip \in {0, 1}
        /\ t = QueueAt(w, p)[IF skip = 1 THEN 1 ELSE Len(QueueAt(w, p))]
        /\ Len(QueueAt(w, p)') = Len(QueueAt(w, p)) - 1
    BY <1>4, <1>5
  <2>3. \A i \in 1 .. (Len(QueueAt(w, p)) - 1) :
           QueueAt(w, p)'[i] = QueueAt(w, p)[i + skip]
    <3>1. \A i \in 1 .. (Len(d) - 1) : i + skip = i
      BY <1>3
    <3> QED
      BY <1>4, <1>5, <3>1
  <2> HIDE DEF skip, d, t
  <2> QED
    BY <1>3, <1>4, <1>5, <1>8, <1>9, <2>1, <2>2, <2>3, TakeOne DEF IInv
<1> QED
  BY <1>7, <1>8, <1>10, <1>11, <1>12 DEF IInv

\* A won compare-and-swap: the thief has the element that is at the top now.
LEMMA StealWinInv ==
  ASSUME IInv, NEW w \in Worker, StealWin(w)
  PROVE  IInv'
<1>1. PICK v \in Worker, p \in Priority : v = ScanPeer(w) /\ p = ScanPriority(w)
  BY VictimOK DEF StealWin, IInv, ScanOK, TypeOK
<1> DEFINE d == local_deques[v][p]
           t == ptr[w]
<1>2. /\ pc[w] = "cas" /\ CasSucceeds(w) /\ Found(w, t)
      /\ local_deques' = [local_deques EXCEPT ![v][p] = SubSeq(@, 2, Len(@))]
      /\ top' = [top EXCEPT ![v][p] = @ + 1]
      /\ tasks_stolen' = tasks_stolen + 1
      /\ pos' = [pos EXCEPT ![w] = 0]
      /\ expected' = [expected EXCEPT ![w] = 0]
      /\ ptr' = [ptr EXCEPT ![w] = NoTask]
      /\ UNCHANGED injectors
  BY <1>1 DEF StealWin, ForgetTop
<1>3. d \in Seq(Task) /\ d # << >> /\ Head(d) = t /\ t \in Task
  BY <1>1, <1>2 DEF IInv, TypeOK, ThiefOK, VictimDeque
<1>4. Len(d) \in Nat \ {0} /\ d[1] = t
  BY <1>3, EmptySeq, WithoutFirst
<1>5. local_deques'[v][p] = SubSeq(d, 2, Len(d)) /\ top'[v][p] = top[v][p] + 1
  BY <1>2 DEF IInv, TypeOK
<1>6. /\ SubSeq(d, 2, Len(d)) \in Seq(Task)
      /\ Len(SubSeq(d, 2, Len(d))) = Len(d) - 1
      /\ \A i \in 1 .. (Len(d) - 1) : SubSeq(d, 2, Len(d))[i] = d[i + 1]
  BY <1>3, WithoutFirst
<1>7. v \in Holder /\ QueueAt(v, p) = d /\ QueueAt(v, p)' = SubSeq(d, 2, Len(d))
  <2>1. v \in Holder /\ v # num_workers
    BY <1>2, WorkersAssumption DEF Holder, Worker
  <2> QED
    BY <1>5, <2>1 DEF QueueAt
<1>8. stage[t] = "queued"
  <2>1. 1 \in DOMAIN d
    BY <1>3, <1>4, LenProperties
  <2> QED
    BY <1>2, <1>4, <1>7, <2>1 DEF IInv, QueuedOnce
<1>9. PoolInv(Search)'
  BY <1>2, <1>3, <1>8, FoundInv DEF IInv, Searching
<1>10. TypeOK'
  <2>1. local_deques' \in [Worker -> [Priority -> Seq(Task)]]
    BY <1>2, <1>6 DEF IInv, TypeOK
  <2>2. top' \in [Worker -> [Priority -> Nat]]
    BY <1>2 DEF IInv, TypeOK
  <2>3. tasks_stolen' \in Nat /\ pos' \in [Worker -> Nat] /\ expected' \in [Worker -> Nat]
    BY <1>2 DEF IInv, TypeOK
  <2>4. ptr' \in [Worker -> Task \cup {NoTask}]
    BY <1>2 DEF IInv, TypeOK
  <2> QED
    BY <1>2, <1>9, <2>1, <2>2, <2>3, <2>4 DEF IInv, PoolInv, TypeOK, Search
<1>11. pc' = [pc EXCEPT ![w] = "body"] /\ stage' = [stage EXCEPT ![t] = "body"]
  BY <1>2 DEF Found
<1>12. ScanOK'
  BY <1>2, <1>11 DEF IInv, ScanOK, TypeOK, PoolTypeOK
<1>13. ThiefOK'
  <2>1. ASSUME NEW x \in Worker, NEW r \in Priority
        PROVE  TopKept(x, r)
    <3>1. CASE x = v /\ r = p
      BY <1>2, <1>5, <3>1 DEF TopKept, IInv, TypeOK
    <3>2. CASE ~(x = v /\ r = p)
      <4>1. local_deques'[x][r] = local_deques[x][r] /\ top'[x][r] = top[x][r]
        BY <1>2, <3>2 DEF IInv, TypeOK
      <4> QED
        BY <4>1, TopSame DEF IInv
    <3> QED
      BY <3>1, <3>2
  <2>2. ASSUME NEW u \in Worker, pc'[u] = "cas"
        PROVE  /\ pc[u] = "cas"
               /\ pos'[u] = pos[u] /\ expected'[u] = expected[u] /\ ptr'[u] = ptr[u]
    BY <1>2, <1>11, <2>2 DEF IInv, TypeOK, PoolTypeOK
  <2> QED
    BY <1>10, <2>1, <2>2, ThievesKeep DEF IInv, ThiefOK
<1>14. QueuedOnce' /\ NothingLost'
  <2>1. \A h \in Holder, r \in Priority :
          h # v \/ r # p => QueueAt(h, r)' = QueueAt(h, r)
    <3>1. ASSUME NEW x \in Worker, NEW r \in Priority, x # v \/ r # p
          PROVE  local_deques'[x][r] = local_deques[x][r]
      BY <1>2, <3>1 DEF IInv, TypeOK
    <3>2. \A h \in Holder : h = num_workers \/ h \in Worker
      BY WorkersAssumption DEF Holder, Worker
    <3> QED
      BY <1>2, <3>1, <3>2 DEF QueueAt
  <2> DEFINE skip == 1
  <2>2. /\ skip \in {0, 1}
        /\ t = QueueAt(v, p)[IF skip = 1 THEN 1 ELSE Len(QueueAt(v, p))]
        /\ Len(QueueAt(v, p)') = Len(QueueAt(v, p)) - 1
        /\ \A i \in 1 .. (Len(QueueAt(v, p)) - 1) :
             QueueAt(v, p)'[i] = QueueAt(v, p)[i + skip]
    BY <1>4, <1>6, <1>7
  <2> HIDE DEF skip, d, t
  <2> QED
    BY <1>2, <1>3, <1>7, <1>10, <1>11, <2>1, <2>2, TakeOne DEF IInv
<1> QED
  BY <1>9, <1>10, <1>12, <1>13, <1>14 DEF IInv

\* Where the jobs go when n of them are taken from the injector of priority
\* p: the first to the worker w, the others to its deque.  Old... says where
\* the job at position i of a queue was before.
LEMMA BatchMoves ==
  ASSUME TypeOK, TypeOK', QueuedOnce, NothingLost,
         NEW w \in Worker, NEW p \in Priority,
         NEW n \in 1 .. Len(injectors[p]), NEW t \in Task, t = injectors[p][1],
         stage' = [stage EXCEPT ![t] = "body"],
         Len(injectors'[p]) = Len(injectors[p]) - n,
         \A i \in 1 .. (Len(injectors[p]) - n) : injectors'[p][i] = injectors[p][i + n],
         Len(local_deques'[w][p]) = Len(local_deques[w][p]) + (n - 1),
         \A i \in 1 .. Len(local_deques[w][p]) :
           local_deques'[w][p][i] = local_deques[w][p][i],
         \A j \in 1 .. (n - 1) :
           local_deques'[w][p][Len(local_deques[w][p]) + j] = injectors[p][j + 1],
         \A h \in Holder, r \in Priority :
           r # p \/ h \notin {w, num_workers} => QueueAt(h, r)' = QueueAt(h, r)
  PROVE  QueuedOnce' /\ NothingLost'
<1> DEFINE I == num_workers
           a == Len(local_deques[w][p])
           b == Len(injectors[p])
           Moved(h, r, i) == h = w /\ r = p /\ i > a
           OldH(h, r, i) == IF Moved(h, r, i) THEN I ELSE h
           OldI(h, r, i) == IF Moved(h, r, i) THEN i - a + 1
                            ELSE IF h = I /\ r = p THEN i + n ELSE i
<1>1. w \in Holder /\ I \in Holder /\ w # I
  BY WorkersAssumption DEF Holder, Worker
<1>2. /\ QueueAt(w, p) = local_deques[w][p] /\ QueueAt(w, p)' = local_deques'[w][p]
      /\ QueueAt(I, p) = injectors[p] /\ QueueAt(I, p)' = injectors'[p]
  BY <1>1 DEF QueueAt
<1>3. /\ a \in Nat /\ b \in Nat /\ n \in Nat \ {0} /\ n <= b
      /\ DOMAIN QueueAt(w, p) = 1 .. a /\ DOMAIN QueueAt(I, p) = 1 .. b
      /\ DOMAIN QueueAt(w, p)' = 1 .. (a + (n - 1))
      /\ DOMAIN QueueAt(I, p)' = 1 .. (b - n)
  <2>1. local_deques[w][p] \in Seq(Task) /\ injectors[p] \in Seq(Task)
    BY DEF TypeOK
  <2>2. local_deques'[w][p] \in Seq(Task) /\ injectors'[p] \in Seq(Task)
    BY DEF TypeOK
  <2>3. /\ a \in Nat /\ DOMAIN local_deques[w][p] = 1 .. a
        /\ b \in Nat /\ DOMAIN injectors[p] = 1 .. b
        /\ DOMAIN local_deques'[w][p] = 1 .. (a + (n - 1))
        /\ DOMAIN injectors'[p] = 1 .. (b - n)
    BY <2>1, <2>2, LenProperties
  <2> QED
    BY <1>2, <2>3
<1>4. stage[t] = "queued" /\ Prio[t] = p
  BY <1>1, <1>2, <1>3 DEF QueuedOnce
<1> HIDE DEF I, a, b
<1>5. ASSUME NEW h \in Holder, NEW r \in Priority, NEW i \in DOMAIN QueueAt(h, r)'
      PROVE  /\ OldH(h, r, i) \in Holder
             /\ OldI(h, r, i) \in DOMAIN QueueAt(OldH(h, r, i), r)
             /\ QueueAt(h, r)'[i] = QueueAt(OldH(h, r, i), r)[OldI(h, r, i)]
             /\ r # p \/ OldH(h, r, i) # I \/ OldI(h, r, i) # 1
  <2>1. CASE Moved(h, r, i)
    <3>1. i \in 1 .. (a + (n - 1)) /\ i > a
      BY <1>3, <1>5, <2>1
    <3>2. i - a \in 1 .. (n - 1) /\ i - a + 1 \in 1 .. b /\ i = a + (i - a) /\ i - a + 1 # 1
      BY <1>3, <3>1
    <3>3. local_deques'[w][p][a + (i - a)] = injectors[p][(i - a) + 1]
      BY <3>2 DEF a
    <3> QED
      BY <1>1, <1>2, <1>3, <2>1, <3>2, <3>3
  <2>2. CASE h = I /\ r = p
    <3>1. i \in 1 .. (b - n) /\ i + n \in 1 .. b /\ i + n # 1
      BY <1>3, <1>5, <2>2
    <3>2. injectors'[p][i] = injectors[p][i + n]
      BY <3>1 DEF b
    <3> QED
      BY <1>1, <1>2, <1>3, <2>2, <3>1, <3>2
  <2>3. CASE h = w /\ r = p /\ ~Moved(h, r, i)
    <3>1. i \in 1 .. a
      BY <1>3, <1>5, <2>3
    <3>2. local_deques'[w][p][i] = local_deques[w][p][i]
      BY <3>1 DEF a
    <3> QED
      BY <1>1, <1>2, <1>3, <2>3, <3>1, <3>2
  <2>4. CASE r # p \/ h \notin {w, I}
    BY <1>5, <2>4 DEF I
  <2> QED
    BY <2>1, <2>2, <2>3, <2>4
<1>6. ASSUME NEW h \in Holder, NEW k \in Holder, NEW r \in Priority,
             NEW i \in DOMAIN QueueAt(h, r)', NEW j \in DOMAIN QueueAt(k, r)',
             OldH(h, r, i) = OldH(k, r, j), OldI(h, r, i) = OldI(k, r, j)
      PROVE  h = k /\ i = j
  <2>1. CASE r # p
    BY <1>6, <2>1
  <2>2. CASE r = p
    <3>1. h \in {w, I} => i \in Int
      BY <1>3, <1>6, <2>2
    <3>2. k \in {w, I} => j \in Int
      BY <1>3, <1>6, <2>2
    <3>3. /\ h = w /\ i > a => i - a + 1 <= n
          /\ k = w /\ j > a => j - a + 1 <= n
          /\ h = I => i + n > n
          /\ k = I => j + n > n
      BY <1>3, <1>6, <2>2
    <3> QED
      BY <1>1, <1>3, <1>6, <2>2, <3>1, <3>2, <3>3
  <2> QED
    BY <2>1, <2>2
<1> HIDE DEF OldH, OldI
<1>7. QueuedOnce'
  <2>1. ASSUME NEW h \in Holder, NEW r \in Priority, NEW i \in DOMAIN QueueAt(h, r)'
        PROVE  stage'[QueueAt(h, r)'[i]] = "queued" /\ Prio[QueueAt(h, r)'[i]] = r
    <3> DEFINE u == QueueAt(OldH(h, r, i), r)[OldI(h, r, i)]
    <3>1. u \in Task /\ stage[u] = "queued" /\ Prio[u] = r
      BY <1>5, <2>1, QueueType, ElementOfSeq DEF QueuedOnce
    <3>2. u # t
      <4>1. CASE r # p
        BY <1>4, <3>1, <4>1
      <4>2. CASE r = p
        <5>1. 1 \in DOMAIN QueueAt(I, p) /\ QueueAt(I, p)[1] = t
          BY <1>2, <1>3
        <5>2. OldH(h, r, i) # I \/ OldI(h, r, i) # 1
          BY <1>5, <2>1, <4>2
        <5> QED
          BY <1>1, <1>5, <2>1, <4>2, <5>1, <5>2 DEF QueuedOnce
      <4> QED
        BY <4>1, <4>2
    <3>3. QueueAt(h, r)'[i] = u
      BY <1>5, <2>1
    <3>4. stage'[u] = "queued"
      BY <3>1, <3>2 DEF TypeOK, PoolTypeOK
    <3> QED
      BY <3>1, <3>3, <3>4
  <2>2. ASSUME NEW h \in Holder, NEW k \in Holder, NEW r \in Priority,
               NEW i \in DOMAIN QueueAt(h, r)', NEW j \in DOMAIN QueueAt(k, r)',
               QueueAt(h, r)'[i] = QueueAt(k, r)'[j]
        PROVE  h = k /\ i = j
    <3>1. /\ OldH(h, r, i) \in Holder /\ OldI(h, r, i) \in DOMAIN QueueAt(OldH(h, r, i), r)
          /\ OldH(k, r, j) \in Holder /\ OldI(k, r, j) \in DOMAIN QueueAt(OldH(k, r, j), r)
          /\ QueueAt(OldH(h, r, i), r)[OldI(h, r, i)] = QueueAt(OldH(k, r, j), r)[OldI(k, r, j)]
      BY <1>5, <2>2
    <3>2. OldH(h, r, i) = OldH(k, r, j) /\ OldI(h, r, i) = OldI(k, r, j)
      BY <3>1 DEF QueuedOnce
    <3> QED
      BY <1>6, <2>2, <3>2
  <2> QED
    BY <2>1, <2>2 DEF QueuedOnce
<1>8. NothingLost'
  <2> SUFFICES ASSUME NEW u \in Task, stage'[u] = "queued"
               PROVE  \E h \in Holder : \E i \in DOMAIN QueueAt(h, Prio[u])' :
                        QueueAt(h, Prio[u])'[i] = u
    BY DEF NothingLost
  <2>1. u # t /\ stage[u] = "queued" /\ Prio[u] \in Priority
    BY PriorityAssumption DEF TypeOK, PoolTypeOK, Priority
  <2>2. PICK h \in Holder : \E i \in DOMAIN QueueAt(h, Prio[u]) : QueueAt(h, Prio[u])[i] = u
    BY <2>1 DEF NothingLost
  <2>3. PICK i \in DOMAIN QueueAt(h, Prio[u]) : QueueAt(h, Prio[u])[i] = u
    BY <2>2
  <2>4. CASE Prio[u] # p \/ h \notin {w, I}
    <3>1. QueueAt(h, Prio[u])' = QueueAt(h, Prio[u])
      BY <2>1, <2>4 DEF I
    <3> QED
      BY <2>3, <3>1
  <2>5. CASE Prio[u] = p /\ h = w
    <3>1. i \in 1 .. a /\ i \in 1 .. (a + (n - 1)) /\ local_deques[w][p][i] = u
      BY <1>2, <1>3, <2>3, <2>5
    <3>2. local_deques'[w][p][i] = u
      BY <3>1 DEF a
    <3> QED
      BY <1>1, <1>2, <1>3, <2>5, <3>1, <3>2
  <2>6. CASE Prio[u] = p /\ h = I
    <3>1. i \in 1 .. b /\ injectors[p][i] = u /\ i # 1
      BY <1>2, <1>3, <2>1, <2>3, <2>6
    <3>2. CASE i > n
      <4>1. i - n \in 1 .. (b - n) /\ (i - n) + n = i
        BY <1>3, <3>1, <3>2
      <4>2. injectors'[p][i - n] = injectors[p][(i - n) + n]
        BY <4>1 DEF b
      <4> QED
        BY <1>1, <1>2, <1>3, <2>6, <3>1, <4>1, <4>2
    <3>3. CASE i <= n
      <4>1. i - 1 \in 1 .. (n - 1) /\ (i - 1) + 1 = i /\ a + (i - 1) \in 1 .. (a + (n - 1))
        BY <1>3, <3>1, <3>3
      <4>2. local_deques'[w][p][a + (i - 1)] = injectors[p][(i - 1) + 1]
        BY <4>1 DEF a
      <4> QED
        BY <1>1, <1>2, <1>3, <2>6, <3>1, <4>1, <4>2
    <3> QED
      BY <1>3, <3>1, <3>2, <3>3
  <2> QED
    BY <2>4, <2>5, <2>6
<1> QED
  BY <1>7, <1>8

\* pop_batch_into(): the batch moves under the mutex of the injector.
LEMMA PopBatchIntoInv ==
  ASSUME IInv, NEW w \in Worker, PopBatchInto(w)
  PROVE  IInv'
<1>1. PICK p \in Priority : p = pos[w]
  BY DEF PopBatchInto, IInv, ScanOK
<1> DEFINE q == injectors[p]
           d == local_deques[w][p]
           t == Head(q)
<1>2. q \in Seq(Task) /\ d \in Seq(Task)
  BY DEF IInv, TypeOK
<1>3. q # << >> /\ Len(q) \in Nat \ {0}
  BY <1>1, <1>2, EmptySeq DEF PopBatchInto
<1>4. PICK n \in 1 .. Len(q) : n = BatchSize(Len(q))
  BY <1>3, BatchSizeOK
<1> DEFINE rest == SubSeq(q, n + 1, Len(q))
           batch == SubSeq(q, 2, n)
<1>5. /\ pc[w] = "inject" /\ Found(w, t)
      /\ injectors' = [injectors EXCEPT ![p] = rest]
      /\ local_deques' = [local_deques EXCEPT ![w][p] = d \o batch]
      /\ pos' = [pos EXCEPT ![w] = 0]
      /\ UNCHANGED <<top, tasks_stolen, expected, ptr>>
  BY <1>1, <1>4 DEF PopBatchInto
<1>6. t = q[1] /\ t \in Task
  BY <1>2, <1>3, WithoutFirst
<1>7. /\ rest \in Seq(Task) /\ Len(rest) = Len(q) - n
      /\ \A i \in 1 .. (Len(q) - n) : rest[i] = q[i + n]
  <2> DEFINE m == n + 1
  <2>1. /\ m \in 1 .. (Len(q) + 1) /\ Len(q) \in (m - 1) .. Len(q)
        /\ m - 1 = n /\ Len(q) - m + 1 = Len(q) - n
    BY <1>3
  <2> HIDE DEF m
  <2>2. /\ SubSeq(q, m, Len(q)) \in Seq(Task)
        /\ Len(SubSeq(q, m, Len(q))) = Len(q) - m + 1
        /\ \A i \in 1 .. (Len(q) - m + 1) : SubSeq(q, m, Len(q))[i] = q[i + (m - 1)]
    BY <1>2, <2>1, PartOfQueue
  <2> QED
    BY <2>1, <2>2 DEF m
<1>8. /\ batch \in Seq(Task) /\ Len(batch) = n - 1
      /\ \A i \in 1 .. (n - 1) : batch[i] = q[i + 1]
  <2> DEFINE m == 2
  <2>1. /\ m \in 1 .. (Len(q) + 1) /\ n \in (m - 1) .. Len(q)
        /\ m - 1 = 1 /\ n - m + 1 = n - 1
    BY <1>3
  <2> HIDE DEF m
  <2>2. /\ SubSeq(q, m, n) \in Seq(Task)
        /\ Len(SubSeq(q, m, n)) = n - m + 1
        /\ \A i \in 1 .. (n - m + 1) : SubSeq(q, m, n)[i] = q[i + (m - 1)]
    BY <1>2, <2>1, PartOfQueue
  <2> QED
    BY <2>1, <2>2 DEF m
<1>9. /\ d \o batch \in Seq(Task) /\ Len(d \o batch) = Len(d) + (n - 1)
      /\ \A i \in 1 .. Len(d) : (d \o batch)[i] = d[i]
      /\ \A j \in 1 .. (n - 1) : (d \o batch)[Len(d) + j] = q[j + 1]
  <2> HIDE DEF d, batch, q
  <2>1. /\ d \o batch \in Seq(Task)
        /\ Len(d \o batch) = Len(d) + Len(batch)
        /\ \A i \in 1 .. Len(d) + Len(batch) :
             (d \o batch)[i] = IF i <= Len(d) THEN d[i] ELSE batch[i - Len(d)]
    BY <1>2, <1>8, ConcatProperties
  <2>2. Len(d) \in Nat /\ Len(batch) \in Nat
    BY <1>2, <1>8, LenProperties
  <2>3. \A j \in 1 .. (n - 1) : (d \o batch)[Len(d) + j] = batch[j]
    BY <1>8, <2>1, <2>2
  <2> QED
    BY <1>8, <2>1, <2>2, <2>3
<1> HIDE DEF rest, batch
<1>10. injectors'[p] = rest /\ local_deques'[w][p] = d \o batch
  BY <1>5 DEF IInv, TypeOK
<1>11. stage[t] = "queued"
  <2>1. num_workers \in Holder /\ QueueAt(num_workers, p) = q
    BY WorkersAssumption DEF Holder, QueueAt
  <2>2. 1 \in DOMAIN q
    BY <1>2, <1>3, LenProperties
  <2> QED
    BY <1>6, <2>1, <2>2 DEF IInv, QueuedOnce
<1>12. PoolInv(Search)'
  BY <1>5, <1>6, <1>11, FoundInv DEF IInv, Searching
<1>13. TypeOK'
  <2>1. injectors' \in [Priority -> Seq(Task)]
    BY <1>5, <1>7 DEF IInv, TypeOK
  <2>2. local_deques' \in [Worker -> [Priority -> Seq(Task)]]
    BY <1>5, <1>9 DEF IInv, TypeOK
  <2>3. pos' \in [Worker -> Nat]
    BY <1>5 DEF IInv, TypeOK
  <2> QED
    BY <1>5, <1>12, <2>1, <2>2, <2>3 DEF IInv, PoolInv, TypeOK, Search
<1>14. pc' = [pc EXCEPT ![w] = "body"] /\ stage' = [stage EXCEPT ![t] = "body"]
  BY <1>5 DEF Found
<1>15. ScanOK'
  BY <1>5, <1>14 DEF IInv, ScanOK, TypeOK, PoolTypeOK
<1>16. ThiefOK'
  <2>1. TopKept(w, p)
    <3>1. CASE d = << >>
      BY <1>5, <3>1 DEF TopKept, IInv, TypeOK
    <3>2. CASE d # << >>
      <4>1. Len(d) \in Nat \ {0} /\ Head(d) = d[1]
        BY <1>2, <3>2, EmptySeq, WithoutFirst
      <4>2. d \o batch # << >> /\ (d \o batch)[1] = d[1]
        <5>1. Len(d \o batch) # 0
          BY <1>9, <4>1
        <5> DEFINE e == d \o batch
        <5> HIDE DEF e
        <5>2. e # << >>
          BY <5>1, EmptySeq DEF e
        <5> QED
          BY <1>9, <4>1, <5>2 DEF e
      <4>3. Head(d \o batch) = d[1]
        BY <1>9, <4>2, WithoutFirst
      <4> HIDE DEF d
      <4> QED
        BY <1>5, <1>10, <4>1, <4>2, <4>3 DEF TopKept, IInv, TypeOK, d
    <3> QED
      BY <3>1, <3>2
  <2>2. ASSUME NEW v \in Worker, NEW r \in Priority, v # w \/ r # p
        PROVE  TopKept(v, r)
    <3>1. local_deques'[v][r] = local_deques[v][r]
      BY <1>5, <2>2 DEF IInv, TypeOK
    <3> QED
      BY <1>5, <3>1, TopSame DEF IInv
  <2>3. ASSUME NEW u \in Worker, pc'[u] = "cas"
        PROVE  pc[u] = "cas" /\ pos'[u] = pos[u]
    BY <1>5, <1>14, <2>3 DEF IInv, TypeOK, PoolTypeOK
  <2> QED
    BY <1>5, <1>13, <2>1, <2>2, <2>3, ThievesKeep DEF IInv, ThiefOK
<1>17. QueuedOnce' /\ NothingLost'
  <2>1. ASSUME NEW h \in Holder, NEW r \in Priority, r # p \/ h \notin {w, num_workers}
        PROVE  QueueAt(h, r)' = QueueAt(h, r)
    <3>1. CASE h = num_workers
      BY <1>5, <2>1, <3>1 DEF QueueAt, IInv, TypeOK
    <3>2. CASE h # num_workers
      <4>1. h \in Worker
        BY <3>2, WorkersAssumption DEF Holder, Worker
      <4>2. local_deques'[h][r] = local_deques[h][r]
        BY <1>5, <2>1, <3>2, <4>1 DEF IInv, TypeOK
      <4> QED
        BY <3>2, <4>2 DEF QueueAt
    <3> QED
      BY <3>1, <3>2
  <2>2. /\ Len(injectors'[p]) = Len(injectors[p]) - n
        /\ \A i \in 1 .. (Len(injectors[p]) - n) : injectors'[p][i] = injectors[p][i + n]
    BY <1>7, <1>10
  <2>3. /\ Len(local_deques'[w][p]) = Len(local_deques[w][p]) + (n - 1)
        /\ \A i \in 1 .. Len(local_deques[w][p]) :
             local_deques'[w][p][i] = local_deques[w][p][i]
        /\ \A j \in 1 .. (n - 1) :
             local_deques'[w][p][Len(local_deques[w][p]) + j] = injectors[p][j + 1]
    BY <1>9, <1>10
  <2> HIDE DEF t
  <2> QED
    BY <1>6, <1>13, <1>14, <2>1, <2>2, <2>3, BatchMoves DEF IInv
<1> QED
  BY <1>12, <1>13, <1>15, <1>16, <1>17 DEF IInv

-----------------------------------------------------------------------------
\* The invariant holds of a new scheduler ...
LEMMA InitInv == Init => IInv
<1> SUFFICES ASSUME Init PROVE IInv
  OBVIOUS
<1>1. PoolInv(Search)
  BY PoolInitInv DEF Init
<1>2. TypeOK
  BY <1>1 DEF Init, PoolInv, TypeOK, Search
<1>3. ScanOK /\ ThiefOK
  BY DEF Init, PoolInit, ScanOK, ThiefOK
<1>4. QueuedOnce
  <2>1. \A h \in Holder, p \in Priority : QueueAt(h, p) = << >>
    BY WorkersAssumption DEF Init, QueueAt, Holder, Worker
  <2> QED
    BY <2>1 DEF QueuedOnce
<1>5. NothingLost
  BY DEF Init, PoolInit, NothingLost
<1> QED
  BY <1>1, <1>2, <1>3, <1>4, <1>5 DEF IInv

\* ... every step of any thread keeps it ...
LEMMA NextInv == IInv /\ [Next]_vars => IInv'
<1> SUFFICES ASSUME IInv, [Next]_vars PROVE IInv'
  OBVIOUS
<1> USE DEF Scanning
<1>1. ASSUME NEW t \in Task, SubmitCount(t), UNCHANGED schedVars
      PROVE  IInv'
  <2>1. PoolInv(Search)'
    BY <1>1, SubmitCountInv DEF IInv
  <2> QED
    BY <1>1, <2>1, CommonStepInv DEF SubmitCount
<1>2. ASSUME NEW t \in Task, SubmitRest(t)
      PROVE  IInv'
  <2>1. CASE SubmitPush(t)
    BY <2>1, SubmitPushInv
  <2>2. CASE SubmitNotify(t) /\ UNCHANGED schedVars
    <3>1. PoolInv(Search)'
      BY <2>2, SubmitNotifyInv DEF IInv
    <3>2. UNCHANGED <<pc, stage>>
      BY <2>2 DEF SubmitNotify, SubmitBump, SubmitRing
    <3> QED
      BY <2>2, <3>1, <3>2, CommonStepInv
  <2> QED
    BY <1>2, <2>1, <2>2 DEF SubmitRest
<1>3. ASSUME NEW w \in Worker, FindTask(w)
      PROVE  IInv'
  BY <1>3, PopLocalInv, LocalEmptyInv, PopBatchIntoInv, InjectorEmptyInv, StealNextInv,
     StealLoadInv, StealWinInv, NoneFoundInv DEF FindTask
<1>4. ASSUME NEW w \in Worker, UNCHANGED schedVars,
             Snapshot(w, "local") \/ WorkerCommon(w) \/ Ring(w, "snap")
      PROVE  IInv'
  <2>1. PoolInv(Search)'
    <3>1. /\ "local" \in (CommonStep \cup Search) \ {"body", "settle", "exited"}
          /\ "snap" \in (CommonStep \cup Search) \ {"body", "settle", "exited"}
      BY DEF CommonStep, Search
    <3> QED
      BY <1>4, <3>1, SnapshotInv, WorkerCommonInv, RingInv DEF IInv
  <2>2. \A v \in Worker :
          pc'[v] = pc[v] \/ (pc[v] \notin Scanning /\ pc'[v] \notin Scanning)
    <3>1. pc \in [Worker -> CommonStep \cup Search]
      BY DEF IInv, TypeOK, PoolTypeOK, Search
    <3> QED
      BY <1>4, <3>1 DEF Snapshot, WorkerCommon, FinishBody, Settle, Bump, WaitBlock,
                        WaitReturn, GoTo, Ring
  <2>3. \A t \in Task : stage'[t] = "queued" <=> stage[t] = "queued"
    <3>1. CASE FinishBody(w) \/ Settle(w)
      <4>1. job[w] \in Task /\ stage[job[w]] \in {"body", "published"}
        BY <3>1 DEF FinishBody, Settle, IInv, PoolInv, HeldOnce, TypeOK, PoolTypeOK
      <4> QED
        BY <3>1, <4>1 DEF FinishBody, Settle, IInv, TypeOK, PoolTypeOK
    <3>2. CASE UNCHANGED stage
      BY <3>2
    <3> QED
      BY <1>4, <3>1, <3>2 DEF Snapshot, WorkerCommon, Bump, WaitBlock, WaitReturn, GoTo,
                              Ring, taskVars
  <2> QED
    BY <1>4, <2>1, <2>2, <2>3, CommonStepInv
<1>5. ASSUME ShutdownFlag \/ ShutdownRest, UNCHANGED schedVars
      PROVE  IInv'
  <2>1. PoolInv(Search)'
    BY <1>5, ShutdownInv DEF IInv
  <2>2. UNCHANGED <<pc, stage>>
    BY <1>5 DEF ShutdownFlag, ShutdownRest, ShutdownBump, ShutdownRing, ShutdownJoin, taskVars
  <2> QED
    BY <1>5, <2>1, <2>2, CommonStepInv
<1>6. ASSUME UNCHANGED vars
      PROVE  IInv'
  <2>1. PoolInv(Search)'
    BY <1>6, PoolStutterInv DEF IInv, vars
  <2> QED
    BY <1>6, <2>1, CommonStepInv DEF vars, poolVars, taskVars
<1> QED
  BY <1>1, <1>2, <1>3, <1>4, <1>5, <1>6 DEF Next, WorkerNext, Halted

\* ... and so it always holds.
LEMMA Inductive == Spec => []IInv
BY InitInv, NextInv, PTL DEF Spec

(***************************************************************************)
(* Type correctness: in particular pending, which the code decrements      *)
(* without a test, never wraps below zero, and find_task indexes only      *)
(* queues that exist.                                                      *)
(***************************************************************************)
THEOREM TypeCorrect == Spec => []TypeOK
<1>1. IInv => TypeOK
  BY DEF IInv
<1> QED
  BY <1>1, Inductive, PTL

(***************************************************************************)
(* No job is lost, duplicated or moved to another priority by submit(),    *)
(* batch pulls, the owner's pop() and any number of thieves.               *)
(***************************************************************************)
THEOREM JobsConserved == Spec => []Conservation
<1>1. IInv => Conservation
  BY DEF IInv, PoolInv, Conservation
<1> QED
  BY <1>1, Inductive, PTL

(***************************************************************************)
(* pending is the number of jobs that were submitted and have not settled. *)
(***************************************************************************)
THEOREM PendingCounts == Spec => []PendingExact
<1>1. IInv => PendingExact
  BY DEF IInv, PoolInv
<1> QED
  BY <1>1, Inductive, PTL

(***************************************************************************)
(* No worker leaves its loop while a job is left that shutdown() promises  *)
(* to run, a job that a running task may still spawn included.             *)
(***************************************************************************)
THEOREM ShutdownDrains == Spec => []DrainBeforeExit
<1>1. IInv => DrainBeforeExit
  BY DEF IInv, PoolInv
<1> QED
  BY <1>1, Inductive, PTL

-----------------------------------------------------------------------------
(***************************************************************************)
(* What the doorbell protocol needs to know of find_task.                  *)
(***************************************************************************)

\* A job in a queue is a queued task.
LEMMA InQueue ==
  ASSUME IInv, NEW h \in Holder, NEW p \in Priority, NEW i \in DOMAIN QueueAt(h, p)
  PROVE  QueueAt(h, p)[i] \in Task /\ stage[QueueAt(h, p)[i]] = "queued"
BY QueueType, ElementOfSeq DEF IInv, QueuedOnce

\* A step of find_task finds a queued job, goes on looking, or gives up.
LEMMA FindStep ==
  ASSUME IInv, NEW w \in Worker, FindTask(w)
  PROVE  /\ pc[w] \in Search
         /\ \/ \E t \in Task : stage[t] = "queued" /\ Found(w, t)
            \/ \E s \in Search : GoTo(w, s)
            \/ StopOrWait(w)
<1>1. CASE PopLocal(w)
  <2>1. PICK p \in Priority :
          local_deques[w][p] # << >> /\ Found(w, local_deques[w][p][Len(local_deques[w][p])])
    BY <1>1 DEF PopLocal, OwnPriority
  <2>2. w \in Holder /\ QueueAt(w, p) = local_deques[w][p]
    BY WorkersAssumption DEF Holder, Worker, QueueAt
  <2>3. Len(QueueAt(w, p)) \in DOMAIN QueueAt(w, p)
    BY <2>1, <2>2, QueueType, EmptySeq DEF IInv
  <2> QED
    BY <1>1, <2>1, <2>2, <2>3, InQueue DEF PopLocal, Search
<1>2. CASE PopBatchInto(w)
  <2> DEFINE p == pos[w]
  <2>1. p \in Priority /\ injectors[p] # << >> /\ Found(w, Head(injectors[p]))
    BY <1>2 DEF PopBatchInto, IInv, ScanOK
  <2>2. num_workers \in Holder /\ QueueAt(num_workers, p) = injectors[p]
    BY WorkersAssumption DEF Holder, QueueAt
  <2>3. 1 \in DOMAIN QueueAt(num_workers, p) /\ Head(injectors[p]) = QueueAt(num_workers, p)[1]
    BY <2>1, <2>2, QueueType, EmptySeq DEF IInv
  <2> QED
    BY <1>2, <2>1, <2>2, <2>3, InQueue DEF PopBatchInto, Search
<1>3. CASE StealWin(w)
  <2> DEFINE v == ScanPeer(w)
             p == ScanPriority(w)
  <2>1. v \in Worker /\ p \in Priority
    BY <1>3, VictimOK DEF StealWin, IInv, ScanOK, TypeOK
  <2>2. local_deques[v][p] # << >> /\ Head(local_deques[v][p]) = ptr[w] /\ Found(w, ptr[w])
    BY <1>3 DEF StealWin, IInv, ThiefOK, VictimDeque
  <2>3. v \in Holder /\ QueueAt(v, p) = local_deques[v][p]
    BY <2>1, WorkersAssumption DEF Holder, Worker, QueueAt
  <2> HIDE DEF v, p
  <2>4. 1 \in DOMAIN QueueAt(v, p) /\ ptr[w] = QueueAt(v, p)[1]
    BY <2>1, <2>2, <2>3, QueueType, EmptySeq DEF IInv
  <2> QED
    BY <1>3, <2>1, <2>2, <2>3, <2>4, InQueue DEF StealWin, Search
<1>4. CASE LocalEmpty(w) \/ InjectorEmpty(w) \/ StealEmpty(w) \/ StealLoad(w) \/ StealLose(w)
  BY <1>4 DEF LocalEmpty, InjectorEmpty, StealEmpty, StealLoad, StealLose, ToNextPeer, Search
<1>5. CASE NoneFound(w)
  BY <1>5 DEF NoneFound, Search
<1> QED
  BY <1>1, <1>2, <1>3, <1>4, <1>5 DEF FindTask

\* Every step keeps what the protocol says of sleeping workers.
LEMMA NextWake ==
  ASSUME IInv, WakeInv, [Next]_vars
  PROVE  WakeInv'
<1>0. PoolInv(Search)
  BY DEF IInv
<1>1. ASSUME NEW w \in Worker, FindTask(w)
      PROVE  WakeInv'
  <2>1. Searching(w) /\ pc[w] \notin {"wait", "bump", "ring"} /\ w \notin asleep
    BY <1>1, FindStep DEF Search, Searching, WakeInv
  <2>2. CASE \E t \in Task : stage[t] = "queued" /\ Found(w, t)
    BY <1>0, <2>1, <2>2, FoundWake
  <2>3. CASE \E s \in Search : GoTo(w, s)
    <3>1. Search \subseteq (CommonStep \cup Search) \ {"wait", "exited"}
      BY DEF Search
    <3> QED
      BY <1>0, <2>1, <2>3, <3>1, GoToWake
  <2>4. CASE StopOrWait(w)
    BY <1>0, <2>1, <2>4, StopOrWaitWake
  <2> QED
    BY <1>1, <2>2, <2>3, <2>4, FindStep
<1>2. ASSUME NEW w \in Worker, Snapshot(w, "local") \/ WorkerCommon(w) \/ Ring(w, "snap")
      PROVE  WakeInv'
  <2>1. {"local", "snap"} \subseteq (CommonStep \cup Search) \ {"wait", "exited"}
    BY DEF CommonStep, Search
  <2> QED
    BY <1>0, <1>2, <2>1, SnapshotWake, WorkerCommonWake, RingWake
<1>3. ASSUME NEW t \in Task, SubmitCount(t) \/ SubmitRest(t)
      PROVE  WakeInv'
  BY <1>0, <1>3, SubmitWake DEF SubmitRest, SubmitPush
<1>4. ASSUME ShutdownFlag \/ ShutdownRest
      PROVE  WakeInv'
  BY <1>0, <1>4, ShutdownWake
<1>5. ASSUME UNCHANGED vars
      PROVE  WakeInv'
  BY <1>5, PoolStutterWake DEF vars
<1> QED
  BY <1>1, <1>2, <1>3, <1>4, <1>5 DEF Next, WorkerNext, Halted

-----------------------------------------------------------------------------
(***************************************************************************)
(* A worker's knowledge of the injectors.                                  *)
(***************************************************************************)

\* The worker w has found the injector of priority p empty since it took its
\* snapshot.
Passed(w, p) ==
  pc[w] \in {"steal", "cas", "wait"} \/ (pc[w] = "inject" /\ p < pos[w])

\* As long as the snapshot is the present generation, what is in such an
\* injector has been pushed after the look at it and not been announced.
Looked ==
  \A w \in fresh : \A p \in Priority : Passed(w, p) =>
    \A i \in DOMAIN injectors[p] : sub[injectors[p][i]] = "pushed"

\* It stays so while no worker passes an injector with a job in it, and a job
\* that appears in one has just been pushed.
LEMMA LookedKeeps ==
  ASSUME Looked,
         \A w \in fresh', p \in Priority :
           Passed(w, p)' => w \in fresh /\ (Passed(w, p) \/ injectors[p] = << >>),
         \A p \in Priority : \A i \in DOMAIN injectors'[p] :
           \/ sub'[injectors'[p][i]] = "pushed"
           \/ \E j \in DOMAIN injectors[p] :
                /\ injectors[p][j] = injectors'[p][i]
                /\ sub[injectors[p][j]] = "pushed" => sub'[injectors[p][j]] = "pushed"
  PROVE  Looked'
<1> SUFFICES ASSUME NEW w \in fresh', NEW p \in Priority, Passed(w, p)',
                    NEW i \in DOMAIN injectors'[p],
                    sub'[injectors'[p][i]] # "pushed"
             PROVE  FALSE
  BY DEF Looked
<1>1. PICK j \in DOMAIN injectors[p] :
        /\ injectors[p][j] = injectors'[p][i]
        /\ sub[injectors[p][j]] = "pushed" => sub'[injectors[p][j]] = "pushed"
  OBVIOUS
<1>2. injectors[p] # << >>
  BY <1>1, EmptySeq
<1>3. w \in fresh /\ Passed(w, p)
  BY <1>2
<1> QED
  BY <1>1, <1>3 DEF Looked

\* A step that leaves the injectors alone and announces nothing.
LEMMA LookedSame ==
  ASSUME Looked, UNCHANGED injectors,
         \A t \in Task : sub[t] = "pushed" => sub'[t] = "pushed",
         injectors \in [Priority -> Seq(Task)],
         \A w \in fresh', p \in Priority :
           Passed(w, p)' => w \in fresh /\ (Passed(w, p) \/ injectors[p] = << >>)
  PROVE  Looked'
<1>1. \A p \in Priority : \A i \in DOMAIN injectors[p] : injectors[p][i] \in Task
  BY ElementOfSeq
<1> QED
  BY <1>1, LookedKeeps

\* A position behind the first n of k is a position.
LEMMA InRest ==
  ASSUME NEW k \in Nat, NEW n \in 1 .. k, NEW i \in 1 .. (k - n)
  PROVE  i + n \in 1 .. k
OBVIOUS

\* Every step keeps it.  A notify() moves the generation on, and with it every
\* snapshot becomes old.
LEMMA NextLooked ==
  ASSUME IInv, Looked, [Next]_vars
  PROVE  Looked'
<1> USE DEF IInv, TypeOK, PoolTypeOK, IdleTypeOK
<1>1. ASSUME NEW w \in Worker, FindTask(w)
      PROVE  Looked'
  <2>1. CASE PopLocal(w) \/ StealWin(w)
    <3>1. UNCHANGED <<injectors, fresh, sub>> /\ pc' = [pc EXCEPT ![w] = "body"]
      BY <2>1 DEF PopLocal, StealWin, Found, idleVars
    <3>2. \A u \in Worker \ {w} : pos'[u] = pos[u]
      BY <2>1 DEF PopLocal, StealWin, scanVars
    <3> QED
      BY <3>1, <3>2, LookedSame DEF Passed
  <2>2. CASE LocalEmpty(w)
    <3>1. UNCHANGED <<injectors, fresh, sub, pos>> /\ pc' = [pc EXCEPT ![w] = "inject"]
      BY <2>2 DEF LocalEmpty, GoTo, idleVars, taskVars, schedVars, scanVars
    <3>2. pos[w] = 0
      BY <2>2 DEF LocalEmpty, ScanOK
    <3>3. \A p \in Priority : ~(p < 0)
      BY DEF Priority
    <3> QED
      BY <3>1, <3>2, <3>3, LookedSame DEF Passed
  <2>3. CASE InjectorEmpty(w)
    <3>1. /\ UNCHANGED <<injectors, fresh, sub>>
          /\ injectors[pos[w]] = << >> /\ pc[w] = "inject" /\ pos[w] \in Priority
          /\ \A u \in Worker \ {w} : pc'[u] = pc[u] /\ pos'[u] = pos[u]
      BY <2>3 DEF InjectorEmpty, GoTo, idleVars, taskVars, ScanOK
    <3>2. \/ pos[w] = kPriorityCount - 1
          \/ pc'[w] = "inject" /\ pos'[w] = pos[w] + 1
      BY <2>3 DEF InjectorEmpty, GoTo
    <3>3. \A p \in Priority : Passed(w, p)' => p < pos[w] \/ p = pos[w]
      <4>1. \A p \in Priority : p <= kPriorityCount - 1 /\ p \in Nat
        BY PriorityAssumption DEF Priority
      <4>2. kPriorityCount \in Nat /\ pos[w] \in Nat
        BY PriorityAssumption
      <4> QED
        BY <3>2, <4>1, <4>2 DEF Passed
    <3> QED
      BY <3>1, <3>3, LookedSame DEF Passed
  <2>4. CASE StealEmpty(w) \/ StealLoad(w) \/ StealLose(w) \/ NoneFound(w)
    <3>1. UNCHANGED <<injectors, fresh, sub>> /\ pc[w] \in {"steal", "cas"}
      BY <2>4 DEF StealEmpty, StealLoad, StealLose, NoneFound, ToNextPeer, StopOrWait, GoTo,
                  idleVars, taskVars
    <3>2. \A u \in Worker \ {w} : pc'[u] = pc[u] /\ pos'[u] = pos[u]
      BY <2>4 DEF StealEmpty, StealLoad, StealLose, NoneFound, ToNextPeer, StopOrWait, GoTo
    <3> QED
      BY <3>1, <3>2, LookedSame DEF Passed
  <2>5. CASE PopBatchInto(w)
    <3> DEFINE p == pos[w]
               q == injectors[p]
               n == BatchSize(Len(q))
    <3>1. /\ p \in Priority /\ q # << >>
          /\ injectors' = [injectors EXCEPT ![p] = SubSeq(q, n + 1, Len(q))]
          /\ UNCHANGED <<fresh, sub>> /\ pc' = [pc EXCEPT ![w] = "body"]
          /\ \A u \in Worker \ {w} : pos'[u] = pos[u]
      BY <2>5 DEF PopBatchInto, Found, idleVars, ScanOK
    <3>2. q \in Seq(Task) /\ Len(q) \in Nat \ {0} /\ n \in 1 .. Len(q)
      BY <3>1, EmptySeq, LenProperties, BatchSizeOK
    <3> HIDE DEF p, q, n
    <3>3. /\ DOMAIN injectors'[p] = 1 .. (Len(q) - n)
          /\ \A i \in 1 .. (Len(q) - n) : injectors'[p][i] = q[i + n]
      <4> DEFINE m == n + 1
      <4>1. /\ m \in 1 .. (Len(q) + 1) /\ Len(q) \in (m - 1) .. Len(q)
            /\ m - 1 = n /\ Len(q) - m + 1 = Len(q) - n
        BY <3>2
      <4> HIDE DEF m
      <4>2. /\ SubSeq(q, m, Len(q)) \in Seq(Task)
            /\ Len(SubSeq(q, m, Len(q))) = Len(q) - m + 1
            /\ \A i \in 1 .. (Len(q) - m + 1) : SubSeq(q, m, Len(q))[i] = q[i + (m - 1)]
        BY <3>2, <4>1, PartOfQueue
      <4>3. injectors'[p] = SubSeq(q, m, Len(q))
        BY <3>1 DEF m, q
      <4> QED
        BY <4>1, <4>2, <4>3, LenProperties
    <3>4. \A r \in Priority : \A i \in DOMAIN injectors'[r] :
            \E j \in DOMAIN injectors[r] : injectors[r][j] = injectors'[r][i]
      <4> SUFFICES ASSUME NEW r \in Priority, NEW i \in DOMAIN injectors'[r]
                   PROVE  \E j \in DOMAIN injectors[r] : injectors[r][j] = injectors'[r][i]
        OBVIOUS
      <4>1. CASE r = p
        <5>1. i + n \in DOMAIN q /\ injectors'[p][i] = q[i + n]
          <6>1. DOMAIN q = 1 .. Len(q) /\ i \in 1 .. (Len(q) - n)
            BY <3>2, <3>3, <4>1, LenProperties
          <6>2. i + n \in 1 .. Len(q)
            BY <3>2, <6>1, InRest
          <6> QED
            BY <3>3, <6>1, <6>2
        <5> QED
          BY <4>1, <5>1 DEF q
      <4>2. CASE r # p
        BY <3>1, <4>2
      <4> QED
        BY <4>1, <4>2
    <3> QED
      BY <3>1, <3>4, LookedKeeps DEF Passed
  <2> QED
    BY <1>1, <2>1, <2>2, <2>3, <2>4, <2>5 DEF FindTask
<1>2. ASSUME NEW w \in Worker, UNCHANGED schedVars,
             Snapshot(w, "local") \/ WorkerCommon(w) \/ Ring(w, "snap")
      PROVE  Looked'
  <2> USE DEF schedVars, scanVars, taskVars, idleVars
  <2>1. CASE Bump(w)
    BY <2>1 DEF Bump, IdleBump, Looked
  <2>2. CASE WaitBlock(w)
    BY <1>2, <2>2, LookedSame DEF WaitBlock, IdleBlock, Passed
  <2>3. CASE Snapshot(w, "local")
    BY <1>2, <2>3, LookedSame DEF Snapshot, IdleCurrent, Passed
  <2>4. CASE FinishBody(w) \/ Settle(w) \/ WaitReturn(w) \/ Ring(w, "snap")
    <3>1. UNCHANGED <<injectors, pos, fresh, sub>>
      BY <1>2, <2>4 DEF FinishBody, Settle, WaitReturn, GoTo, Ring, IdleRing
    <3>2. \A u \in Worker :
            pc'[u] \in {"inject", "steal", "cas", "wait"} => pc'[u] = pc[u]
      BY <2>4 DEF FinishBody, Settle, WaitReturn, GoTo, Ring
    <3> QED
      BY <3>1, <3>2, LookedSame DEF Passed
  <2> QED
    BY <1>2, <2>1, <2>2, <2>3, <2>4 DEF WorkerCommon
<1>3. ASSUME NEW t \in Task, SubmitCount(t), UNCHANGED schedVars
      PROVE  Looked'
  BY <1>3, LookedSame DEF SubmitCount, MaySubmit, idleVars, schedVars, scanVars, Passed
<1>4. ASSUME NEW t \in Task, SubmitPush(t)
      PROVE  Looked'
  <2>1. Prio[t] \in Priority /\ injectors[Prio[t]] \in Seq(Task)
    BY PriorityAssumption DEF Priority
  <2> DEFINE q == injectors[Prio[t]]
  <2>2. /\ injectors' = [injectors EXCEPT ![Prio[t]] = Append(q, t)]
        /\ sub' = [sub EXCEPT ![t] = "pushed"]
        /\ UNCHANGED <<fresh, pc, pos>>
    BY <1>4 DEF SubmitPush, SubmitQueued, idleVars, scanVars
  <2>3. /\ DOMAIN Append(q, t) = 1 .. (Len(q) + 1)
        /\ Append(q, t)[Len(q) + 1] = t
        /\ \A i \in 1 .. Len(q) : Append(q, t)[i] = q[i]
        /\ Len(q) \in Nat /\ DOMAIN q = 1 .. Len(q)
    BY <2>1, AppendProperties, LenProperties
  <2>4. ASSUME NEW p \in Priority, NEW i \in DOMAIN injectors'[p]
        PROVE  \/ injectors'[p][i] = t
               \/ \E j \in DOMAIN injectors[p] : injectors[p][j] = injectors'[p][i]
    <3> HIDE DEF q
    <3>1. CASE p = Prio[t]
      <4>1. injectors'[p] = Append(q, t)
        BY <2>1, <2>2, <3>1
      <4>2. i \in 1 .. Len(q) \/ i = Len(q) + 1
        BY <2>3, <2>4, <4>1
      <4> QED
        BY <2>3, <3>1, <4>1, <4>2 DEF q
    <3>2. CASE p # Prio[t]
      BY <2>2, <2>4, <3>2
    <3> QED
      BY <3>1, <3>2
  <2>5. ASSUME NEW p \in Priority, NEW j \in DOMAIN injectors[p]
        PROVE  injectors[p][j] \in Task
    BY <2>5, ElementOfSeq
  <2>6. sub'[t] = "pushed" /\ \A u \in Task \ {t} : sub'[u] = sub[u]
    BY <2>2
  <2> QED
    BY <2>2, <2>4, <2>5, <2>6, LookedKeeps DEF Passed
<1>5. ASSUME NEW t \in Task, SubmitNotify(t), UNCHANGED schedVars
      PROVE  Looked'
  <2>1. CASE SubmitBump(t)
    BY <2>1 DEF SubmitBump, IdleBump, Looked
  <2>2. CASE SubmitRing(t)
    BY <1>5, <2>2, LookedSame DEF SubmitRing, IdleRing, schedVars, scanVars, Passed
  <2> QED
    BY <1>5, <2>1, <2>2 DEF SubmitNotify
<1>6. ASSUME ShutdownFlag \/ ShutdownRest, UNCHANGED schedVars
      PROVE  Looked'
  <2>1. CASE ShutdownBump
    BY <2>1 DEF ShutdownBump, IdleBump, Looked
  <2>2. CASE ShutdownFlag \/ ShutdownRing \/ ShutdownJoin
    BY <1>6, <2>2, LookedSame
       DEF ShutdownFlag, ShutdownRing, ShutdownJoin, IdleRing, idleVars, taskVars, schedVars,
           scanVars, Passed
  <2> QED
    BY <1>6, <2>1, <2>2 DEF ShutdownRest
<1>7. ASSUME UNCHANGED vars
      PROVE  Looked'
  BY <1>7, LookedSame DEF vars, poolVars, idleVars, taskVars, schedVars, scanVars, Passed
<1> QED
  BY <1>1, <1>2, <1>3, <1>4, <1>5, <1>6, <1>7 DEF Next, WorkerNext, SubmitRest, Halted

-----------------------------------------------------------------------------
(***************************************************************************)
(* A worker's own deques, once it has looked away from them.               *)
(***************************************************************************)
Away == {"inject", "steal", "cas", "wait", "exited"}

\* A thief takes only from a deque that is not empty, so not from a worker
\* that is away, and nobody but the owner puts anything in.
LEMMA NextDry ==
  ASSUME IInv, IdleOwnerIsDry, [Next]_vars
  PROVE  IdleOwnerIsDry'
<1> USE DEF Away
<1>0. pc \in [Worker -> CommonStep \cup Search] /\ local_deques \in [Worker -> [Priority -> Seq(Task)]]
  BY DEF IInv, TypeOK, PoolTypeOK, Search
<1>1. ASSUME NEW w \in Worker, PopLocal(w) \/ PopBatchInto(w)
      PROVE  IdleOwnerIsDry'
  <2>1. /\ pc' = [pc EXCEPT ![w] = "body"]
        /\ \A u \in Worker \ {w} : local_deques'[u] = local_deques[u]
    BY <1>0, <1>1 DEF PopLocal, PopBatchInto, Found
  <2> QED
    BY <1>0, <2>1 DEF IdleOwnerIsDry
<1>2. ASSUME NEW w \in Worker, StealWin(w)
      PROVE  IdleOwnerIsDry'
  <2> DEFINE v == ScanPeer(w)
             p == ScanPriority(w)
  <2>1. v \in Worker /\ p \in Priority /\ v # w
    BY <1>2, VictimOK DEF StealWin, IInv, ScanOK, TypeOK
  <2>2. local_deques[v][p] # << >>
    BY <1>2 DEF StealWin, IInv, ThiefOK, VictimDeque
  <2>3. pc[v] \notin Away
    BY <2>1, <2>2 DEF IdleOwnerIsDry
  <2>4. /\ pc' = [pc EXCEPT ![w] = "body"]
        /\ \A u \in Worker \ {v} : local_deques'[u] = local_deques[u]
    BY <1>0, <1>2 DEF StealWin, Found
  <2> HIDE DEF v, p
  <2> QED
    BY <1>0, <2>1, <2>3, <2>4 DEF IdleOwnerIsDry
<1>3. ASSUME NEW w \in Worker, LocalEmpty(w)
      PROVE  IdleOwnerIsDry'
  BY <1>0, <1>3 DEF LocalEmpty, GoTo, schedVars, IdleOwnerIsDry
<1>4. ASSUME UNCHANGED local_deques,
             \A u \in Worker : pc'[u] \in Away => pc[u] \in Away
      PROVE  IdleOwnerIsDry'
  BY <1>4 DEF IdleOwnerIsDry
<1>5. ASSUME NEW w \in Worker, InjectorEmpty(w) \/ StealEmpty(w) \/ StealLoad(w)
                               \/ StealLose(w) \/ NoneFound(w)
      PROVE  IdleOwnerIsDry'
  BY <1>0, <1>4, <1>5 DEF InjectorEmpty, StealEmpty, StealLoad, StealLose, NoneFound, ToNextPeer,
                          StopOrWait, GoTo
<1>6. ASSUME NEW w \in Worker, UNCHANGED schedVars,
             Snapshot(w, "local") \/ WorkerCommon(w) \/ Ring(w, "snap")
      PROVE  IdleOwnerIsDry'
  BY <1>0, <1>4, <1>6 DEF Snapshot, WorkerCommon, FinishBody, Settle, Bump, WaitBlock,
                          WaitReturn, GoTo, Ring, schedVars
<1>7. ASSUME NEW t \in Task, (SubmitCount(t) /\ UNCHANGED schedVars) \/ SubmitRest(t)
      PROVE  IdleOwnerIsDry'
  BY <1>4, <1>7 DEF SubmitCount, SubmitRest, SubmitPush, SubmitQueued, SubmitNotify, SubmitBump,
                    SubmitRing, schedVars
<1>8. ASSUME (ShutdownFlag \/ ShutdownRest) /\ UNCHANGED schedVars
      PROVE  IdleOwnerIsDry'
  BY <1>4, <1>8 DEF ShutdownFlag, ShutdownRest, ShutdownBump, ShutdownRing, ShutdownJoin, schedVars
<1>9. ASSUME UNCHANGED vars
      PROVE  IdleOwnerIsDry'
  BY <1>4, <1>9 DEF vars, poolVars, schedVars
<1> QED
  BY <1>1, <1>2, <1>3, <1>5, <1>6, <1>7, <1>8, <1>9 DEF Next, WorkerNext, FindTask, Halted

-----------------------------------------------------------------------------
(***************************************************************************)
(* The second layer of the invariant: who sleeps, and what a worker knows. *)
(***************************************************************************)
SleepInv == WakeInv /\ Looked /\ IdleOwnerIsDry

\* The second layer holds throughout.
LEMMA SleepInductive == Spec => []SleepInv
<1>1. Init => SleepInv
  <2> SUFFICES ASSUME Init PROVE SleepInv
    OBVIOUS
  <2>1. WakeInv
    BY PoolInitWake DEF Init
  <2>2. Looked /\ IdleOwnerIsDry
    BY DEF Init, PoolInit, IdleInit, Looked, IdleOwnerIsDry
  <2> QED
    BY <2>1, <2>2 DEF SleepInv
<1>2. IInv /\ SleepInv /\ [Next]_vars => SleepInv'
  BY NextWake, NextLooked, NextDry DEF SleepInv
<1> QED
  BY <1>1, <1>2, Inductive, PTL DEF Spec

(***************************************************************************)
(* No worker sleeps through a job in an injector, or through the moment    *)
(* when it should stop: the snapshot that worker_loop takes before its     *)
(* search is enough, whatever the interleaving with submit(), with the     *)
(* jobs that settle and with shutdown().                                   *)
(***************************************************************************)
THEOREM WakeupsKept == Spec => []NoMissedWakeup
<1>1. SleepInv => NoMissedWakeup
  <2> SUFFICES ASSUME SleepInv PROVE NoMissedWakeup
    OBVIOUS
  <2> USE DEF SleepInv, WakeInv
  <2>1. ASSUME NEW w \in Worker, pc[w] = "wait", ~Advanced(w),
               NEW t \in Task, NEW p \in Priority, NEW i \in DOMAIN injectors[p],
               injectors[p][i] = t
        PROVE  sub[t] = "pushed"
    BY <2>1 DEF Looked, Passed, Advanced
  <2> QED
    BY <2>1 DEF NoMissedWakeup, NoMissedWakeupFor
<1> QED
  BY <1>1, SleepInductive, PTL

(***************************************************************************)
(* No job is stranded in the deques of a worker that has left its loop or  *)
(* sleeps.                                                                 *)
(***************************************************************************)
THEOREM OwnersDry == Spec => []IdleOwnerIsDry
<1>1. SleepInv => IdleOwnerIsDry
  BY DEF SleepInv
<1> QED
  BY <1>1, SleepInductive, PTL

-----------------------------------------------------------------------------
(***************************************************************************)
(* The scheduler keeps the contract of the abstract class.                 *)
(***************************************************************************)

\* Every step is one of the contract's, or changes nothing that it mentions.
LEMMA NextSim ==
  ASSUME IInv, WakeInv, [Next]_vars
  PROVE  [Pool!Next]_(Pool!vars)
<1>0. PoolInv(Search)
  BY DEF IInv
<1>1. ASSUME NEW w \in Worker, FindTask(w)
      PROVE  [Pool!Next]_(Pool!vars)
  <2>1. Searching(w)
    BY <1>1, FindStep DEF Search, Searching
  <2>2. CASE \E t \in Task : stage[t] = "queued" /\ Found(w, t)
    BY <1>0, <2>1, <2>2, SimFound DEF Pool!Next
  <2>3. CASE (\E s \in Search : GoTo(w, s)) \/ StopOrWait(w)
    <3>1. UNCHANGED <<sub, stage, late, shutdown_flag, down>>
      BY <2>3 DEF StopOrWait, GoTo, taskVars
    <3> QED
      BY <3>1, SimStutter
  <2> QED
    BY <1>1, <2>2, <2>3, FindStep
<1>2. ASSUME NEW w \in Worker, Snapshot(w, "local") \/ WorkerCommon(w) \/ Ring(w, "snap")
      PROVE  [Pool!Next]_(Pool!vars)
  <2>1. CASE WorkerCommon(w)
    BY <1>0, <2>1, SimWorkerCommon DEF Pool!Next
  <2>2. CASE Snapshot(w, "local") \/ Ring(w, "snap")
    <3>1. UNCHANGED <<sub, stage, late, shutdown_flag, down>>
      BY <2>2 DEF Snapshot, Ring, taskVars
    <3> QED
      BY <3>1, SimStutter
  <2> QED
    BY <1>2, <2>1, <2>2
<1>3. ASSUME NEW t \in Task, SubmitCount(t) \/ SubmitRest(t)
      PROVE  [Pool!Next]_(Pool!vars)
  BY <1>0, <1>3, SimSubmitCount, SimSubmitRest DEF SubmitRest, SubmitPush, Pool!Next
<1>4. ASSUME ShutdownFlag \/ ShutdownRest
      PROVE  [Pool!Next]_(Pool!vars)
  BY <1>0, <1>4, SimShutdown DEF Pool!Next
<1>5. ASSUME UNCHANGED vars
      PROVE  [Pool!Next]_(Pool!vars)
  <2>1. UNCHANGED <<sub, stage, late, shutdown_flag, down>>
    BY <1>5 DEF vars, poolVars, taskVars
  <2> QED
    BY <2>1, SimStutter
<1> QED
  BY <1>1, <1>2, <1>3, <1>4, <1>5 DEF Next, WorkerNext, Halted

(***************************************************************************)
(* The WorkStealingScheduler implements TaskPool: with any number of       *)
(* workers and tasks, each task is started by one worker, once, and        *)
(* shutdown() returns only when every task it covers is finished.          *)
(***************************************************************************)
THEOREM KeepsContract == Spec => Refines
<1>1. Init => Pool!Init
  BY SimInit DEF Init
<1>2. IInv /\ SleepInv /\ [Next]_vars => [Pool!Next]_(Pool!vars)
  BY NextSim DEF SleepInv
<1> QED
  BY <1>1, <1>2, Inductive, SleepInductive, PTL DEF Spec, Refines, Pool!Spec

=============================================================================
