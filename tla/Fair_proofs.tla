----------------------------- MODULE Fair_proofs -----------------------------
(***************************************************************************)
(* Proofs about FairScheduler, for every number of workers, tasks and      *)
(* classes, every weight and everything the clock may measure.             *)
(***************************************************************************)
EXTENDS FairScheduler, DoorbellPool_proofs, SequenceTheorems, WellFoundedInduction

Search == {"dispatch", "stop", "account"}
Entry == Nat \X Class

-----------------------------------------------------------------------------
(***************************************************************************)
(* The multimap ready_.                                                    *)
(***************************************************************************)
Sorted(e) == \A i, j \in DOMAIN e : i <= j => e[i][1] <= e[j][1]

\* No class has two entries.
Unique(e) == \A i, j \in DOMAIN e : e[i][2] = e[j][2] => i = j

Entries(e) == {e[i] : i \in DOMAIN e}

\* A set of numbers that is not empty has a least one.
LEMMA Least ==
  ASSUME NEW S, S \subseteq Nat, S # {}
  PROVE  \E m \in S : \A i \in S : m <= i
<1>1. PICK m \in S : \A i \in S : ~(<<i, m>> \in OpToRel(<, Nat))
  BY NatLessThanWellFounded, WFMin, Zenon
<1>2. \A i \in S : ~(i < m)
  BY <1>1 DEF OpToRel
<1> QED
  BY <1>2

\* In a sorted sequence there is a place behind the keys that are not larger.
LEMMA Place ==
  ASSUME NEW e \in Seq(Entry), Sorted(e), NEW key \in Nat
  PROVE  \E n \in 0 .. Len(e) :
           /\ \A i \in 1 .. n : e[i][1] <= key
           /\ \A i \in (n + 1) .. Len(e) : key < e[i][1]
<1> DEFINE S == {i \in 1 .. Len(e) : key < e[i][1]}
<1>1. Len(e) \in Nat /\ DOMAIN e = 1 .. Len(e)
  BY LenProperties
<1>2. \A i \in 1 .. Len(e) : e[i][1] \in Nat
  <2>1. \A i \in 1 .. Len(e) : e[i] \in Entry
    BY ElementOfSeq
  <2> QED
    BY <2>1 DEF Entry
<1>3. CASE S = {}
  <2>1. \A i \in 1 .. Len(e) : e[i][1] <= key
    BY <1>2, <1>3
  <2>2. \A i \in (Len(e) + 1) .. Len(e) : key < e[i][1]
    BY <1>1
  <2>3. Len(e) \in 0 .. Len(e)
    BY <1>1
  <2> QED
    BY <2>1, <2>2, <2>3
<1>4. CASE S # {}
  <2>1. PICK m \in S : \A i \in S : m <= i
    <3>1. S \subseteq Nat
      BY <1>1
    <3> HIDE DEF S
    <3> QED
      BY <1>4, <3>1, Least
  <2>2. m \in 1 .. Len(e) /\ key < e[m][1] /\ m - 1 \in 0 .. Len(e)
    BY <1>1, <2>1
  <2>3. \A i \in 1 .. (m - 1) : e[i][1] <= key
    BY <1>1, <1>2, <2>1, <2>2
  <2>4. \A i \in ((m - 1) + 1) .. Len(e) : key < e[i][1]
    BY <1>1, <1>2, <2>2 DEF Sorted
  <2> QED
    BY <2>2, <2>3, <2>4
<1> QED
  BY <1>3, <1>4

\* multimap::insert puts the new entry there and keeps the others.
LEMMA Inserted ==
  ASSUME NEW e \in Seq(Entry), Sorted(e), NEW key \in Nat, NEW c \in Class
  PROVE  \E n \in 0 .. Len(e) :
           /\ \A i \in 1 .. n : e[i][1] <= key
           /\ \A i \in (n + 1) .. Len(e) : key < e[i][1]
           /\ Insert(e, key, c) \in Seq(Entry)
           /\ Len(Insert(e, key, c)) = Len(e) + 1
           /\ \A i \in 1 .. n : Insert(e, key, c)[i] = e[i]
           /\ Insert(e, key, c)[n + 1] = <<key, c>>
           /\ \A i \in (n + 2) .. (Len(e) + 1) : Insert(e, key, c)[i] = e[i - 1]
<1> DEFINE At(n) == /\ \A i \in 1 .. n : e[i][1] <= key
                    /\ \A i \in (n + 1) .. Len(e) : key < e[i][1]
           n == CHOOSE n \in 0 .. Len(e) : At(n)
           x == <<key, c>>
           front == SubSeq(e, 1, n)
           back == SubSeq(e, n + 1, Len(e))
<1>1. n \in 0 .. Len(e) /\ At(n)
  <2>1. \E k \in 0 .. Len(e) : At(k)
    BY Place
  <2> HIDE DEF At
  <2> QED
    BY <2>1
<1>2. Insert(e, key, c) = front \o <<x>> \o back
  BY DEF Insert
<1>3. Len(e) \in Nat
  BY LenProperties
<1> HIDE DEF n
<1>4. /\ front \in Seq(Entry) /\ Len(front) = n
      /\ \A i \in 1 .. n : front[i] = e[i]
  BY <1>1, <1>3, SubSeqProperties
<1>5. /\ back \in Seq(Entry) /\ Len(back) = Len(e) - n
      /\ \A i \in 1 .. (Len(e) - n) : back[i] = e[n + i]
  BY <1>1, <1>3, SubSeqProperties
<1>6. <<x>> \in Seq(Entry) /\ Len(<<x>>) = 1 /\ <<x>>[1] = x
  BY DEF Entry
<1> HIDE DEF front, back, x
<1> DEFINE fx == front \o <<x>>
<1>7. /\ fx \in Seq(Entry) /\ Len(fx) = n + 1
      /\ \A i \in 1 .. n : fx[i] = e[i]
      /\ fx[n + 1] = x
  <2>1. /\ fx \in Seq(Entry) /\ Len(fx) = Len(front) + Len(<<x>>)
        /\ \A i \in 1 .. (Len(front) + Len(<<x>>)) :
             fx[i] = IF i <= Len(front) THEN front[i] ELSE <<x>>[i - Len(front)]
    BY <1>4, <1>6, ConcatProperties
  <2> HIDE DEF fx
  <2> QED
    BY <1>1, <1>4, <1>6, <2>1
<1> DEFINE r == fx \o back
<1>8. /\ r \in Seq(Entry) /\ Len(r) = Len(fx) + Len(back)
      /\ \A i \in 1 .. (Len(fx) + Len(back)) :
           r[i] = IF i <= Len(fx) THEN fx[i] ELSE back[i - Len(fx)]
  <2> HIDE DEF fx
  <2> QED
    BY <1>5, <1>7, ConcatProperties
<1> HIDE DEF r, fx
<1>9. /\ Len(r) = Len(e) + 1
      /\ \A i \in 1 .. n : r[i] = e[i]
      /\ r[n + 1] = x
  BY <1>1, <1>3, <1>5, <1>7, <1>8
<1>10. \A i \in (n + 2) .. (Len(e) + 1) : r[i] = e[i - 1]
  <2> SUFFICES ASSUME NEW i \in (n + 2) .. (Len(e) + 1)
               PROVE  r[i] = e[i - 1]
    OBVIOUS
  <2>1. i \in 1 .. (Len(fx) + Len(back)) /\ ~(i <= Len(fx)) /\ i - Len(fx) = i - (n + 1)
    BY <1>1, <1>3, <1>5, <1>7
  <2>2. r[i] = back[i - (n + 1)]
    BY <1>8, <2>1
  <2>3. i - (n + 1) \in 1 .. (Len(e) - n) /\ n + (i - (n + 1)) = i - 1
    BY <1>1, <1>3
  <2> QED
    BY <1>5, <2>2, <2>3
<1> QED
  BY <1>1, <1>2, <1>8, <1>9, <1>10 DEF r, fx, x

\* So a sorted sequence stays sorted and gains the one entry.
LEMMA InsertOK ==
  ASSUME NEW e \in Seq(Entry), Sorted(e), NEW key \in Nat, NEW c \in Class
  PROVE  /\ Insert(e, key, c) \in Seq(Entry)
         /\ Sorted(Insert(e, key, c))
         /\ Entries(Insert(e, key, c)) = Entries(e) \cup {<<key, c>>}
         /\ Unique(e) /\ (\A x \in Entries(e) : x[2] # c) => Unique(Insert(e, key, c))
<1> DEFINE r == Insert(e, key, c)
<1>1. PICK n \in 0 .. Len(e) :
           /\ \A i \in 1 .. n : e[i][1] <= key
           /\ \A i \in (n + 1) .. Len(e) : key < e[i][1]
           /\ r \in Seq(Entry)
           /\ Len(r) = Len(e) + 1
           /\ \A i \in 1 .. n : r[i] = e[i]
           /\ r[n + 1] = <<key, c>>
           /\ \A i \in (n + 2) .. (Len(e) + 1) : r[i] = e[i - 1]
  BY Inserted
<1> HIDE DEF r
<1>2. /\ Len(e) \in Nat /\ DOMAIN e = 1 .. Len(e) /\ DOMAIN r = 1 .. (Len(e) + 1)
      /\ \A i \in DOMAIN e : e[i] \in Entry
  BY <1>1, LenProperties, ElementOfSeq
<1> DEFINE Old(i) == IF i <= n THEN i ELSE i - 1
<1>3. ASSUME NEW i \in DOMAIN r, i # n + 1
      PROVE  Old(i) \in DOMAIN e /\ r[i] = e[Old(i)]
  BY <1>1, <1>2, <1>3
<1>4. \A i \in DOMAIN e : \E k \in DOMAIN r : r[k] = e[i]
  <2> SUFFICES ASSUME NEW i \in DOMAIN e
               PROVE  \E k \in DOMAIN r : r[k] = e[i]
    OBVIOUS
  <2>1. CASE i <= n
    BY <1>1, <1>2, <2>1
  <2>2. CASE i > n
    <3>1. i + 1 \in (n + 2) .. (Len(e) + 1) /\ i + 1 \in DOMAIN r /\ (i + 1) - 1 = i
      BY <1>2, <2>2
    <3> QED
      BY <1>1, <3>1
  <2> QED
    BY <1>2, <2>1, <2>2
<1>5. n + 1 \in DOMAIN r
  BY <1>2
<1>6. Entries(r) = Entries(e) \cup {<<key, c>>}
  <2>1. \A i \in DOMAIN r : r[i] = <<key, c>> \/ \E k \in DOMAIN e : r[i] = e[k]
    BY <1>1, <1>3
  <2>2. Entries(r) \subseteq Entries(e) \cup {<<key, c>>}
    BY <2>1 DEF Entries
  <2>3. Entries(e) \subseteq Entries(r)
    BY <1>4 DEF Entries
  <2>4. <<key, c>> \in Entries(r)
    BY <1>1, <1>5 DEF Entries
  <2> QED
    BY <2>2, <2>3, <2>4
<1>7. Sorted(r)
  <2> SUFFICES ASSUME NEW i \in DOMAIN r, NEW j \in DOMAIN r, i <= j
               PROVE  r[i][1] <= r[j][1]
    BY DEF Sorted
  <2>1. CASE i = n + 1 /\ j = n + 1
    BY <1>1, <2>1
  <2>2. CASE i = n + 1 /\ j # n + 1
    <3>1. Old(j) \in (n + 1) .. Len(e) /\ r[j] = e[Old(j)]
      BY <1>2, <1>3, <2>2
    <3>2. key < e[Old(j)][1] /\ e[Old(j)][1] \in Nat
      <4>1. e[Old(j)] \in Entry
        BY <1>2, <1>3, <2>2
      <4> HIDE DEF Old
      <4> QED
        BY <1>1, <3>1, <4>1 DEF Entry
    <3> HIDE DEF Old
    <3> QED
      BY <1>1, <2>2, <3>1, <3>2
  <2>3. CASE i # n + 1 /\ j = n + 1
    <3>1. Old(i) \in 1 .. n /\ r[i] = e[Old(i)]
      BY <1>2, <1>3, <2>3
    <3> QED
      BY <1>1, <2>3, <3>1
  <2>4. CASE i # n + 1 /\ j # n + 1
    <3>1. Old(i) \in DOMAIN e /\ Old(j) \in DOMAIN e /\ Old(i) <= Old(j)
      BY <1>2, <1>3, <2>4
    <3> QED
      BY <1>3, <2>4, <3>1 DEF Sorted
  <2> QED
    BY <2>1, <2>2, <2>3, <2>4
<1>8. ASSUME Unique(e), \A x \in Entries(e) : x[2] # c
      PROVE  Unique(r)
  <2> SUFFICES ASSUME NEW i \in DOMAIN r, NEW j \in DOMAIN r, r[i][2] = r[j][2], i # j
               PROVE  FALSE
    BY DEF Unique
  <2>1. \A k \in DOMAIN e : e[k][2] # c
    BY <1>8 DEF Entries
  <2>2. CASE i # n + 1 /\ j # n + 1
    <3>1. Old(i) \in DOMAIN e /\ Old(j) \in DOMAIN e /\ Old(i) # Old(j)
      BY <1>2, <1>3, <2>2
    <3> QED
      BY <1>3, <1>8, <2>2, <3>1 DEF Unique
  <2>3. CASE i = n + 1 \/ j = n + 1
    BY <1>1, <1>3, <2>1, <2>3
  <2> QED
    BY <2>2, <2>3
<1> QED
  BY <1>1, <1>6, <1>7, <1>8 DEF r

\* The first entry is a smallest one; without it, the others are left.
LEMMA TailOK ==
  ASSUME NEW e \in Seq(Entry), e # << >>, Sorted(e), Unique(e)
  PROVE  /\ Head(e) \in Entries(e) /\ Head(e) \in Entry
         /\ \A x \in Entries(e) : Head(e)[1] <= x[1]
         /\ Tail(e) \in Seq(Entry) /\ Sorted(Tail(e)) /\ Unique(Tail(e))
         /\ Entries(Tail(e)) = {x \in Entries(e) : x[2] # Head(e)[2]}
<1> DEFINE r == Tail(e)
<1>1. /\ Len(e) \in Nat \ {0} /\ DOMAIN e = 1 .. Len(e) /\ Head(e) = e[1]
      /\ \A i \in DOMAIN e : e[i] \in Entry
  BY LenProperties, EmptySeq, ElementOfSeq
<1>2. /\ r \in Seq(Entry) /\ Len(r) = Len(e) - 1
      /\ \A i \in 1 .. (Len(e) - 1) : r[i] = e[i + 1]
  BY HeadTailProperties
<1>3. DOMAIN r = 1 .. (Len(e) - 1)
  BY <1>2, LenProperties
<1> HIDE DEF r
<1>4. \A i \in DOMAIN r : i + 1 \in DOMAIN e /\ r[i] = e[i + 1]
  BY <1>1, <1>2, <1>3
<1>5. Head(e) \in Entries(e) /\ Head(e) \in Entry /\ \A x \in Entries(e) : Head(e)[1] <= x[1]
  BY <1>1 DEF Entries, Sorted
<1>6. Sorted(r) /\ Unique(r)
  <2>1. \A i, j \in DOMAIN r : (i <= j <=> i + 1 <= j + 1) /\ (i = j <=> i + 1 = j + 1)
    BY <1>1, <1>3
  <2> QED
    BY <1>4, <2>1 DEF Sorted, Unique
<1>7. \A i \in DOMAIN e : e[i][2] # Head(e)[2] => \E k \in DOMAIN r : r[k] = e[i]
  <2> SUFFICES ASSUME NEW i \in DOMAIN e, e[i][2] # Head(e)[2]
               PROVE  \E k \in DOMAIN r : r[k] = e[i]
    OBVIOUS
  <2>1. i # 1
    BY <1>1
  <2>2. i - 1 \in DOMAIN r /\ (i - 1) + 1 = i
    BY <1>1, <1>3, <2>1
  <2> QED
    BY <1>4, <2>2
<1>8. \A i \in DOMAIN r : r[i][2] # Head(e)[2]
  BY <1>1, <1>3, <1>4 DEF Unique
<1>9. Entries(r) = {x \in Entries(e) : x[2] # Head(e)[2]}
  BY <1>4, <1>7, <1>8 DEF Entries
<1> QED
  BY <1>2, <1>5, <1>6, <1>9 DEF r

-----------------------------------------------------------------------------
(***************************************************************************)
(* The invariant.                                                          *)
(***************************************************************************)

\* A queued task sits at one place of its class's queue.
QueuesOK ==
  /\ \A c \in Class : \A i \in DOMAIN runnable[c] :
       stage[runnable[c][i]] = "queued" /\ ClassOf[runnable[c][i]] = c
  /\ \A c \in Class : \A i, j \in DOMAIN runnable[c] : runnable[c][i] = runnable[c][j] => i = j
  /\ \A t \in Task : stage[t] = "queued" =>
       \E i \in DOMAIN runnable[ClassOf[t]] : runnable[ClassOf[t]][i] = t

\* The flag of a class, its queue and the multimap agree.
FlagsOK ==
  \A c \in Class :
    /\ has_entry[c] <=> runnable[c] # << >>
    /\ has_entry[c] <=> \E x \in Entries(ready_) : x[2] = c

KeysOK == \A x \in Entries(ready_) : min_vruntime_ <= x[1] /\ x[1] <= vruntime[x[2]]

\* A worker owes the accounting of a task from its dispatch on, to the task's
\* class, and a class that owes or waits has a weight to divide by.
HandsOK ==
  /\ \A w \in Worker :
       /\ dispatched[w] # NoClass <=> pc[w] \in {"body", "settle", "bump", "ring", "account"}
       /\ job[w] # NoTask => dispatched[w] = ClassOf[job[w]]
  /\ \A c \in Class : weight[c] = 0 => ~has_entry[c] /\ \A w \in Worker : dispatched[w] # c

FInv ==
  /\ TypeOK
  /\ PoolInv(Search)
  /\ QueuesOK
  /\ Sorted(ready_) /\ Unique(ready_)
  /\ FlagsOK
  /\ KeysOK
  /\ HandsOK

-----------------------------------------------------------------------------
(***************************************************************************)
(* The classes' queues.                                                    *)
(***************************************************************************)

\* submit() puts a new job behind the others of its class.
LEMMA AppendQueues ==
  ASSUME TypeOK, QueuesOK, NEW t \in Task, stage[t] = "none",
         stage' = [stage EXCEPT ![t] = "queued"],
         runnable' = [runnable EXCEPT ![ClassOf[t]] = Append(@, t)]
  PROVE  /\ QueuesOK'
         /\ runnable' \in [Class -> Seq(Task)]
         /\ \A c \in Class : runnable'[c] # << >> <=> runnable[c] # << >> \/ c = ClassOf[t]
<1> DEFINE d == ClassOf[t]
           q == runnable[d]
<1>1. /\ d \in Class /\ runnable \in [Class -> Seq(Task)] /\ stage \in [Task -> Stage]
      /\ \A u \in Task : ClassOf[u] \in Class
  BY ClassAssumption DEF TypeOK, PoolTypeOK
<1>2. /\ q \in Seq(Task) /\ Len(q) \in Nat /\ DOMAIN q = 1 .. Len(q)
      /\ Append(q, t) \in Seq(Task)
      /\ DOMAIN Append(q, t) = 1 .. (Len(q) + 1)
      /\ Append(q, t)[Len(q) + 1] = t
      /\ \A i \in 1 .. Len(q) : Append(q, t)[i] = q[i]
      /\ Append(q, t) # << >>
  BY <1>1, AppendProperties, LenProperties
<1>3. /\ runnable'[d] = Append(q, t)
      /\ \A c \in Class \ {d} : runnable'[c] = runnable[c]
      /\ runnable' \in [Class -> Seq(Task)]
  BY <1>1, <1>2
<1>4. ASSUME NEW c \in Class, NEW i \in DOMAIN runnable'[c]
      PROVE  \/ c = d /\ i = Len(q) + 1 /\ runnable'[c][i] = t
             \/ /\ i \in DOMAIN runnable[c] /\ runnable'[c][i] = runnable[c][i]
                /\ runnable[c][i] \in Task
                /\ stage[runnable[c][i]] = "queued" /\ ClassOf[runnable[c][i]] = c
                /\ runnable[c][i] # t
  <2> HIDE DEF q
  <2>1. CASE c = d /\ i = Len(q) + 1
    BY <1>2, <1>3, <2>1
  <2>2. CASE ~(c = d /\ i = Len(q) + 1)
    <3>1. i \in DOMAIN runnable[c] /\ runnable'[c][i] = runnable[c][i]
      <4>1. CASE c = d
        <5>1. i \in 1 .. (Len(q) + 1) /\ i # Len(q) + 1
          BY <1>2, <1>3, <1>4, <2>2, <4>1
        <5>2. i \in 1 .. Len(q)
          BY <1>2, <5>1
        <5> QED
          BY <1>2, <1>3, <4>1, <5>2 DEF q
      <4>2. CASE c # d
        BY <1>3, <1>4, <4>2
      <4> QED
        BY <4>1, <4>2
    <3>2. runnable[c][i] \in Task
      BY <1>1, <3>1, ElementOfSeq
    <3> QED
      BY <3>1, <3>2 DEF QueuesOK
  <2> QED
    BY <2>1, <2>2
<1> HIDE DEF q
<1>5. stage'[t] = "queued" /\ \A u \in Task \ {t} : stage'[u] = stage[u]
  BY <1>1
<1>6. \A c \in Class : \A i \in DOMAIN runnable'[c] :
        stage'[runnable'[c][i]] = "queued" /\ ClassOf[runnable'[c][i]] = c
  BY <1>4, <1>5
<1>7. ASSUME NEW c \in Class, NEW i \in DOMAIN runnable'[c], NEW j \in DOMAIN runnable'[c],
             runnable'[c][i] = runnable'[c][j]
      PROVE  i = j
  BY <1>4, <1>7 DEF QueuesOK
<1>8. ASSUME NEW u \in Task, stage'[u] = "queued"
      PROVE  \E i \in DOMAIN runnable'[ClassOf[u]] : runnable'[ClassOf[u]][i] = u
  <2>1. CASE u = t
    <3>1. Len(q) + 1 \in DOMAIN Append(q, t)
      BY <1>2
    <3> QED
      BY <1>2, <1>3, <2>1, <3>1
  <2>2. CASE u # t
    <3>1. PICK i \in DOMAIN runnable[ClassOf[u]] : runnable[ClassOf[u]][i] = u
      BY <1>5, <1>8, <2>2 DEF QueuesOK
    <3>2. CASE ClassOf[u] = d
      <4>1. i \in DOMAIN Append(q, t) /\ Append(q, t)[i] = q[i]
        BY <1>2, <3>1, <3>2 DEF q
      <4> QED
        BY <1>3, <3>1, <3>2, <4>1 DEF q
    <3>3. CASE ClassOf[u] # d
      BY <1>1, <1>3, <3>1, <3>3
    <3> QED
      BY <3>2, <3>3
  <2> QED
    BY <2>1, <2>2
<1>9. \A c \in Class : runnable'[c] # << >> <=> runnable[c] # << >> \/ c = d
  BY <1>2, <1>3
<1> QED
  BY <1>3, <1>6, <1>7, <1>8, <1>9 DEF QueuesOK

\* A worker takes the first job of a class to run it.
LEMMA TakeFirst ==
  ASSUME TypeOK, QueuesOK, NEW d \in Class, runnable[d] # << >>,
         NEW t, t = Head(runnable[d]),
         stage' = [stage EXCEPT ![t] = "body"],
         runnable' = [runnable EXCEPT ![d] = Tail(runnable[d])]
  PROVE  /\ QueuesOK'
         /\ runnable' \in [Class -> Seq(Task)]
         /\ t \in Task /\ stage[t] = "queued" /\ ClassOf[t] = d
<1> DEFINE q == runnable[d]
           r == Tail(q)
<1>1. /\ runnable \in [Class -> Seq(Task)] /\ stage \in [Task -> Stage]
      /\ \A u \in Task : ClassOf[u] \in Class
  BY ClassAssumption DEF TypeOK, PoolTypeOK
<1>2. q \in Seq(Task) /\ Len(q) \in Nat \ {0} /\ DOMAIN q = 1 .. Len(q) /\ t = q[1] /\ t \in Task
  BY <1>1, LenProperties, EmptySeq, HeadTailProperties
<1>3. /\ r \in Seq(Task) /\ Len(r) = Len(q) - 1
      /\ \A i \in 1 .. (Len(q) - 1) : r[i] = q[i + 1]
  BY <1>2, HeadTailProperties
<1>4. DOMAIN r = 1 .. (Len(q) - 1)
  BY <1>3, LenProperties
<1>5. /\ runnable'[d] = r
      /\ \A c \in Class \ {d} : runnable'[c] = runnable[c]
      /\ runnable' \in [Class -> Seq(Task)]
  BY <1>1, <1>3
<1>6. stage[t] = "queued" /\ ClassOf[t] = d
  BY <1>2 DEF QueuesOK
<1>7. stage'[t] = "body" /\ \A u \in Task \ {t} : stage'[u] = stage[u]
  BY <1>1, <1>2
<1> DEFINE Old(c, i) == IF c = d THEN i + 1 ELSE i
<1>8. ASSUME NEW c \in Class, NEW i \in DOMAIN runnable'[c]
      PROVE  /\ Old(c, i) \in DOMAIN runnable[c] /\ runnable'[c][i] = runnable[c][Old(c, i)]
             /\ runnable'[c][i] \in Task
             /\ stage[runnable'[c][i]] = "queued" /\ ClassOf[runnable'[c][i]] = c
             /\ runnable'[c][i] # t
  <2>1. Old(c, i) \in DOMAIN runnable[c] /\ runnable'[c][i] = runnable[c][Old(c, i)]
    <3> HIDE DEF q, r
    <3>1. CASE c = d
      <4>1. i \in 1 .. (Len(q) - 1) /\ i + 1 \in 1 .. Len(q)
        BY <1>2, <1>4, <1>5, <1>8, <3>1
      <4> QED
        BY <1>2, <1>3, <1>5, <3>1, <4>1 DEF q
    <3>2. CASE c # d
      BY <1>5, <1>8, <3>2
    <3> QED
      BY <3>1, <3>2
  <2>2. c = d => Old(c, i) # 1
    BY <1>4, <1>5, <1>8
  <2> HIDE DEF Old
  <2>3. runnable[c][Old(c, i)] \in Task
    BY <1>1, <2>1, ElementOfSeq
  <2>4. stage[runnable[c][Old(c, i)]] = "queued" /\ ClassOf[runnable[c][Old(c, i)]] = c
    BY <2>1 DEF QueuesOK
  <2>5. runnable[c][Old(c, i)] # t
    <3>1. CASE c = d
      <4>1. 1 \in DOMAIN runnable[d] /\ t = runnable[d][1]
        BY <1>2
      <4> QED
        BY <2>1, <2>2, <3>1, <4>1 DEF QueuesOK
    <3>2. CASE c # d
      BY <1>6, <2>4, <3>2
    <3> QED
      BY <3>1, <3>2
  <2> QED
    BY <2>1, <2>3, <2>4, <2>5
<1>9. \A c \in Class : \A i \in DOMAIN runnable'[c] :
        stage'[runnable'[c][i]] = "queued" /\ ClassOf[runnable'[c][i]] = c
  BY <1>7, <1>8
<1>10. ASSUME NEW c \in Class, NEW i \in DOMAIN runnable'[c], NEW j \in DOMAIN runnable'[c],
              runnable'[c][i] = runnable'[c][j]
       PROVE  i = j
  <2>1. Old(c, i) = Old(c, j)
    <3> HIDE DEF Old
    <3> QED
      BY <1>8, <1>10 DEF QueuesOK
  <2> QED
    BY <1>4, <1>5, <1>10, <2>1
<1>11. ASSUME NEW u \in Task, stage'[u] = "queued"
       PROVE  \E i \in DOMAIN runnable'[ClassOf[u]] : runnable'[ClassOf[u]][i] = u
  <2>1. u # t /\ stage[u] = "queued"
    BY <1>7, <1>11
  <2>2. PICK i \in DOMAIN runnable[ClassOf[u]] : runnable[ClassOf[u]][i] = u
    BY <2>1 DEF QueuesOK
  <2>3. CASE ClassOf[u] = d
    <3>1. i \in 1 .. Len(q) /\ i # 1
      BY <1>2, <2>1, <2>2, <2>3
    <3> HIDE DEF q, r
    <3>2. i - 1 \in 1 .. (Len(q) - 1) /\ (i - 1) + 1 = i
      BY <1>2, <3>1
    <3> QED
      BY <1>3, <1>4, <1>5, <2>2, <2>3, <3>2 DEF q
  <2>4. CASE ClassOf[u] # d
    BY <1>1, <1>5, <2>2, <2>4
  <2> QED
    BY <2>3, <2>4
<1> QED
  BY <1>2, <1>5, <1>6, <1>9, <1>10, <1>11 DEF QueuesOK

-----------------------------------------------------------------------------
(***************************************************************************)
(* The steps.                                                              *)
(***************************************************************************)
Hand == {"body", "settle", "bump", "ring", "account"}

\* A step outside the critical sections keeps the invariant if it keeps the
\* pool's part of it, and each worker's debt.
LEMMA CommonStepInv ==
  ASSUME FInv, PoolInv(Search)', UNCHANGED schedVars,
         \A w \in Worker : pc'[w] \in Hand <=> pc[w] \in Hand,
         \A w \in Worker : job'[w] \in {job[w], NoTask},
         \A t \in Task : stage'[t] = "queued" <=> stage[t] = "queued"
  PROVE  FInv'
<1> USE DEF schedVars, classVars
<1>1. TypeOK'
  BY DEF FInv, PoolInv, TypeOK, Search
<1>2. QueuesOK'
  <2>1. \A c \in Class : \A i \in DOMAIN runnable[c] : runnable[c][i] \in Task
    BY ElementOfSeq DEF FInv, TypeOK
  <2> QED
    BY <2>1 DEF FInv, QueuesOK
<1>3. FlagsOK' /\ KeysOK' /\ Sorted(ready_)' /\ Unique(ready_)'
  BY DEF FInv, FlagsOK, KeysOK, Sorted, Unique, Entries
<1>4. HandsOK'
  BY DEF FInv, HandsOK, Hand
<1> QED
  BY <1>1, <1>2, <1>3, <1>4 DEF FInv

\* register_class(): nobody has used the class yet, so no entry is affected.
LEMMA RegisterInv ==
  ASSUME FInv, NEW c \in Class, NEW wt \in RegWeight, Register(c, wt)
  PROVE  FInv'
<1> USE DEF Register
<1>1. /\ weight' = [weight EXCEPT ![c] = wt] /\ vruntime' = [vruntime EXCEPT ![c] = min_vruntime_]
      /\ wt \in Nat \ {0} /\ weight[c] = 0
      /\ UNCHANGED <<poolVars, runnable, has_entry, completed, ready_, min_vruntime_, dispatched>>
  BY ClassAssumption DEF Created, Vruntime0
<1>2. PoolInv(Search)'
  BY <1>1, PoolStutterInv DEF FInv
<1>3. TypeOK'
  BY <1>1, <1>2 DEF FInv, PoolInv, TypeOK, Search
<1>4. QueuesOK' /\ FlagsOK' /\ Sorted(ready_)' /\ Unique(ready_)'
  BY <1>1 DEF FInv, QueuesOK, FlagsOK, Sorted, Unique, Entries, poolVars, taskVars
<1>5. KeysOK'
  <2>1. \A x \in Entries(ready_) : x \in Entry
    BY ElementOfSeq DEF FInv, TypeOK, Entries, Entry
  <2>2. \A x \in Entries(ready_) : x[2] # c /\ x[2] \in Class
    BY <1>1, <2>1 DEF FInv, HandsOK, FlagsOK, Entry
  <2>3. Entries(ready_)' = Entries(ready_)
    BY <1>1 DEF Entries
  <2> QED
    BY <1>1, <2>2, <2>3 DEF FInv, KeysOK, TypeOK
<1>6. HandsOK'
  BY <1>1 DEF FInv, HandsOK, TypeOK, poolVars
<1> QED
  BY <1>2, <1>3, <1>4, <1>5, <1>6 DEF FInv

\* The critical section of submit().  A class without an entry gets one that
\* is not below the floor.
LEMMA SubmitEnqueueInv ==
  ASSUME FInv, NEW t \in Task, SubmitEnqueue(t)
  PROVE  FInv'
<1> DEFINE c == ClassOf[t]
           wt == IF OptWeight[t] > 0 THEN OptWeight[t] ELSE 1
<1>1. c \in Class /\ wt \in Nat \ {0}
  BY ClassAssumption
<1>2. /\ SubmitQueued(t) /\ Created(c, wt)
      /\ runnable' = [runnable EXCEPT ![c] = Append(@, t)]
      /\ IF has_entry[c]
           THEN UNCHANGED <<vruntime, has_entry, ready_>>
           ELSE /\ vruntime' = [vruntime EXCEPT ![c] = Clamped(c)]
                /\ ready_' = Insert(ready_, Clamped(c), c)
                /\ has_entry' = [has_entry EXCEPT ![c] = TRUE]
      /\ UNCHANGED <<completed, min_vruntime_, dispatched>>
  BY DEF SubmitEnqueue
<1>3. PoolInv(Search)'
  BY <1>2, SubmitQueuedInv DEF FInv
<1>4. stage[t] = "none" /\ stage' = [stage EXCEPT ![t] = "queued"] /\ UNCHANGED <<pc, job>>
  BY <1>2 DEF SubmitQueued, FInv, PoolInv, SubStage
<1>5. /\ QueuesOK' /\ runnable' \in [Class -> Seq(Task)]
      /\ \A d \in Class : runnable'[d] # << >> <=> runnable[d] # << >> \/ d = c
  BY <1>2, <1>4, AppendQueues DEF FInv
<1>6. /\ weight' \in [Class -> Nat] /\ weight'[c] # 0
      /\ \A d \in Class \ {c} : weight'[d] = weight[d]
  BY <1>1, <1>2 DEF Created, FInv, TypeOK
<1>7. Clamped(c) \in Nat /\ min_vruntime_ <= Clamped(c)
  BY <1>1 DEF Clamped, Larger, Vruntime0, FInv, TypeOK
<1>8. \A x \in Entries(ready_) : x[2] \in Class
  BY ElementOfSeq DEF FInv, TypeOK, Entries
<1> HIDE DEF c, wt
<1>9. /\ vruntime' \in [Class -> Nat] /\ has_entry' \in [Class -> BOOLEAN] /\ ready_' \in Seq(Entry)
      /\ Sorted(ready_)' /\ Unique(ready_)' /\ FlagsOK' /\ KeysOK'
  <2>1. CASE has_entry[c]
    <3>1. UNCHANGED <<vruntime, has_entry, ready_, min_vruntime_>>
      BY <1>2, <2>1
    <3>2. Sorted(ready_)' /\ Unique(ready_)' /\ KeysOK'
      BY <3>1 DEF FInv, Sorted, Unique, KeysOK, Entries
    <3>3. FlagsOK'
      BY <1>5, <2>1, <3>1 DEF FInv, FlagsOK, Entries
    <3> QED
      BY <3>1, <3>2, <3>3 DEF FInv, TypeOK, Entry
  <2>2. CASE ~has_entry[c]
    <3>1. /\ vruntime' = [vruntime EXCEPT ![c] = Clamped(c)]
          /\ ready_' = Insert(ready_, Clamped(c), c)
          /\ has_entry' = [has_entry EXCEPT ![c] = TRUE]
          /\ UNCHANGED min_vruntime_
      BY <1>2, <2>2
    <3>2. \A x \in Entries(ready_) : x[2] # c
      BY <1>1, <2>2 DEF FInv, FlagsOK
    <3>3. ready_ \in Seq(Entry)
      BY DEF FInv, TypeOK, Entry
    <3>4. /\ ready_' \in Seq(Entry) /\ Sorted(ready_)' /\ Unique(ready_)'
          /\ Entries(ready_)' = Entries(ready_) \cup {<<Clamped(c), c>>}
      <4>1. /\ Insert(ready_, Clamped(c), c) \in Seq(Entry)
            /\ Sorted(Insert(ready_, Clamped(c), c))
            /\ Unique(Insert(ready_, Clamped(c), c))
            /\ Entries(Insert(ready_, Clamped(c), c)) = Entries(ready_) \cup {<<Clamped(c), c>>}
        BY <1>1, <1>7, <3>2, <3>3, InsertOK DEF FInv
      <4> QED
        BY <3>1, <4>1 DEF Sorted, Unique, Entries
    <3>5. FlagsOK'
      <4>1. \A d \in Class : has_entry'[d] <=> has_entry[d] \/ d = c
        BY <1>1, <3>1 DEF FInv, TypeOK
      <4>2. \A d \in Class : (\E x \in Entries(ready_)' : x[2] = d)
                             <=> (\E x \in Entries(ready_) : x[2] = d) \/ d = c
        <5> DEFINE y == <<Clamped(c), c>>
        <5>1. y[2] = c /\ Entries(ready_)' = Entries(ready_) \cup {y}
          BY <3>4
        <5> HIDE DEF y
        <5> QED
          BY <5>1
      <4> QED
        BY <1>5, <4>1, <4>2 DEF FInv, FlagsOK
    <3>6. KeysOK'
      <4>1. vruntime'[c] = Clamped(c) /\ \A d \in Class \ {c} : vruntime'[d] = vruntime[d]
        BY <1>1, <3>1 DEF FInv, TypeOK
      <4>2. ASSUME NEW x \in Entries(ready_)
            PROVE  min_vruntime_ <= x[1] /\ x[1] <= vruntime'[x[2]]
        BY <1>8, <3>2, <4>1 DEF FInv, KeysOK
      <4> QED
        BY <1>7, <3>1, <3>4, <4>1, <4>2 DEF KeysOK
    <3> QED
      BY <1>1, <1>7, <3>1, <3>4, <3>5, <3>6 DEF FInv, TypeOK
  <2> QED
    BY <2>1, <2>2
<1>10. TypeOK'
  BY <1>2, <1>3, <1>5, <1>6, <1>9 DEF FInv, PoolInv, TypeOK, Search, Entry
<1>11. HandsOK'
  <2>1. \A d \in Class \ {c} : has_entry'[d] = has_entry[d]
    BY <1>2 DEF FInv, TypeOK
  <2> QED
    BY <1>2, <1>4, <1>6, <2>1 DEF FInv, HandsOK
<1> QED
  BY <1>3, <1>5, <1>9, <1>10, <1>11 DEF FInv

\* The first critical section of worker_loop.  The smallest entry's class has
\* a job; the floor follows the entry, which was the smallest, so no other
\* entry is below the floor.
LEMMA DispatchInv ==
  ASSUME FInv, NEW w \in Worker, Dispatch(w)
  PROVE  FInv'
<1> DEFINE key == Head(ready_)[1]
           c == Head(ready_)[2]
           rest == Tail(runnable[c])
           t == Head(runnable[c])
<1>1. /\ pc[w] = "dispatch" /\ ready_ # << >>
      /\ min_vruntime_' = Larger(min_vruntime_, key)
      /\ runnable' = [runnable EXCEPT ![c] = rest]
      /\ has_entry' = [has_entry EXCEPT ![c] = (rest # << >>)]
      /\ ready_' = IF rest # << >> THEN Insert(Tail(ready_), vruntime[c], c) ELSE Tail(ready_)
      /\ dispatched' = [dispatched EXCEPT ![w] = c]
      /\ Found(w, t)
      /\ UNCHANGED <<weight, vruntime, completed>>
  BY DEF Dispatch, StillRunnable, Floor, Requeue
<1>2. ready_ \in Seq(Entry)
  BY DEF FInv, TypeOK, Entry
<1>3. /\ Head(ready_) \in Entries(ready_) /\ key \in Nat /\ c \in Class
      /\ \A x \in Entries(ready_) : key <= x[1]
      /\ Tail(ready_) \in Seq(Entry) /\ Sorted(Tail(ready_)) /\ Unique(Tail(ready_))
      /\ Entries(Tail(ready_)) = {x \in Entries(ready_) : x[2] # c}
  <2>1. Head(ready_) \in Entry
    BY <1>1, <1>2, TailOK DEF FInv
  <2> QED
    BY <1>1, <1>2, <2>1, TailOK DEF FInv, Entry
<1>4. runnable[c] # << >> /\ has_entry[c]
  BY <1>3 DEF FInv, FlagsOK
<1>5. min_vruntime_ <= key /\ key <= vruntime[c] /\ min_vruntime_ \in Nat /\ vruntime[c] \in Nat
  BY <1>3 DEF FInv, KeysOK, TypeOK
<1>6. min_vruntime_' = key
  BY <1>1, <1>3, <1>5 DEF Larger
<1> HIDE DEF key, c, t, rest
<1>7. stage' = [stage EXCEPT ![t] = "body"] /\ pc' = [pc EXCEPT ![w] = "body"]
      /\ job' = [job EXCEPT ![w] = t]
  BY <1>1 DEF Found
<1>8. /\ QueuesOK' /\ runnable' \in [Class -> Seq(Task)]
      /\ t \in Task /\ stage[t] = "queued" /\ ClassOf[t] = c
  BY <1>1, <1>3, <1>4, <1>7, TakeFirst DEF FInv, t, rest
<1>9. PoolInv(Search)'
  BY <1>1, <1>8, FoundInv DEF FInv, Searching
<1>10. /\ ready_' \in Seq(Entry) /\ Sorted(ready_)' /\ Unique(ready_)'
       /\ Entries(ready_)' = {x \in Entries(ready_) : x[2] # c}
                              \cup (IF rest # << >> THEN {<<vruntime[c], c>>} ELSE {})
  <2>1. CASE rest # << >>
    <3> DEFINE r == Insert(Tail(ready_), vruntime[c], c)
    <3>1. \A x \in Entries(Tail(ready_)) : x[2] # c
      BY <1>3
    <3>2. /\ r \in Seq(Entry) /\ Sorted(r) /\ Unique(r)
          /\ Entries(r) = Entries(Tail(ready_)) \cup {<<vruntime[c], c>>}
      BY <1>3, <1>5, <3>1, InsertOK
    <3>3. ready_' = r
      BY <1>1, <2>1
    <3> HIDE DEF r
    <3>4. /\ Entries(ready_)' = Entries(r) /\ ready_' \in Seq(Entry)
          /\ Sorted(ready_)' /\ Unique(ready_)'
      BY <3>2, <3>3 DEF Sorted, Unique, Entries
    <3> QED
      BY <1>3, <2>1, <3>2, <3>4
  <2>2. CASE rest = << >>
    <3>1. ready_' = Tail(ready_)
      BY <1>1, <2>2
    <3>2. Entries(ready_)' = Entries(Tail(ready_)) /\ Sorted(ready_)' /\ Unique(ready_)'
      BY <1>3, <3>1 DEF Entries, Sorted, Unique
    <3> QED
      BY <1>3, <2>2, <3>1, <3>2
  <2> QED
    BY <2>1, <2>2
<1>11. FlagsOK'
  <2>1. /\ runnable'[c] = rest /\ (has_entry'[c] <=> rest # << >>)
        /\ \A d \in Class \ {c} : runnable'[d] = runnable[d] /\ has_entry'[d] = has_entry[d]
    BY <1>1, <1>3 DEF FInv, TypeOK
  <2> DEFINE y == <<vruntime[c], c>>
  <2>2. /\ y[2] = c
        /\ Entries(ready_)' = {x \in Entries(ready_) : x[2] # c}
                              \cup (IF rest # << >> THEN {y} ELSE {})
    BY <1>10
  <2> HIDE DEF y
  <2>3. \A d \in Class \ {c} : (\E x \in Entries(ready_)' : x[2] = d)
                                <=> (\E x \in Entries(ready_) : x[2] = d)
    BY <2>2
  <2>4. (\E x \in Entries(ready_)' : x[2] = c) <=> rest # << >>
    BY <2>2
  <2> QED
    BY <2>1, <2>3, <2>4 DEF FInv, FlagsOK
<1>12. KeysOK'
  <2>1. ASSUME NEW x \in Entries(ready_)
        PROVE  key <= x[1] /\ x[1] <= vruntime[x[2]]
    BY <1>3 DEF FInv, KeysOK
  <2> QED
    BY <1>1, <1>5, <1>6, <1>10, <2>1 DEF KeysOK
<1>13. TypeOK'
  <2>1. has_entry' \in [Class -> BOOLEAN] /\ dispatched' \in [Worker -> Class \cup {NoClass}]
    BY <1>1, <1>3 DEF FInv, TypeOK
  <2> QED
    BY <1>1, <1>3, <1>6, <1>8, <1>9, <1>10, <2>1 DEF FInv, PoolInv, TypeOK, Search, Entry
<1>14. HandsOK'
  <2>1. c # NoClass /\ weight[c] # 0
    BY <1>3, <1>4, ClassAssumption DEF FInv, HandsOK
  <2>2. /\ pc'[w] = "body" /\ job'[w] = t /\ dispatched'[w] = c
        /\ \A v \in Worker \ {w} : pc'[v] = pc[v] /\ job'[v] = job[v] /\ dispatched'[v] = dispatched[v]
        /\ \A d \in Class \ {c} : has_entry'[d] = has_entry[d]
    BY <1>1, <1>7 DEF FInv, TypeOK, PoolTypeOK
  <2> QED
    BY <1>1, <1>8, <2>1, <2>2 DEF FInv, HandsOK
<1> QED
  BY <1>8, <1>9, <1>10, <1>11, <1>12, <1>13, <1>14 DEF FInv

\* The second critical section: the class has a weight, and its vruntime only
\* grows.
LEMMA AccountInv ==
  ASSUME FInv, NEW w \in Worker, Account(w)
  PROVE  FInv'
<1> DEFINE c == dispatched[w]
<1>1. /\ pc[w] = "account" /\ GoTo(w, "snap")
      /\ completed' = [completed EXCEPT ![c] = @ + 1]
      /\ dispatched' = [dispatched EXCEPT ![w] = NoClass]
      /\ UNCHANGED <<weight, runnable, has_entry, ready_, min_vruntime_>>
  BY DEF Account
<1>2. c \in Class /\ weight[c] \in Nat \ {0} /\ vruntime[c] \in Nat
  BY <1>1 DEF FInv, HandsOK, TypeOK
<1>3. PICK e \in Elapsed : vruntime' = [vruntime EXCEPT ![c] = @ + Share(c, e)]
  BY DEF Account
<1>4. Share(c, e) \in Nat
  BY <1>2, ClassAssumption DEF Share
<1> HIDE DEF c
<1>5. PoolInv(Search)'
  BY <1>1, GoToInv DEF FInv, Searching, CommonStep
<1>6. TypeOK'
  <2>1. vruntime' \in [Class -> Nat] /\ completed' \in [Class -> Nat]
        /\ dispatched' \in [Worker -> Class \cup {NoClass}]
    BY <1>1, <1>2, <1>3, <1>4 DEF FInv, TypeOK
  <2> QED
    BY <1>1, <1>5, <2>1 DEF FInv, PoolInv, TypeOK, Search
<1>7. QueuesOK' /\ FlagsOK' /\ Sorted(ready_)' /\ Unique(ready_)'
  BY <1>1 DEF FInv, QueuesOK, FlagsOK, Sorted, Unique, Entries, GoTo, taskVars
<1>8. KeysOK'
  <2>1. \A x \in Entries(ready_) : x[1] \in Nat /\ x[2] \in Class
    <3>1. ready_ \in Seq(Nat \X Class)
      BY DEF FInv, TypeOK
    <3>2. \A x \in Entries(ready_) : x \in Nat \X Class
      BY <3>1, ElementOfSeq DEF Entries
    <3> QED
      BY <3>2
  <2>2. \A d \in Class : vruntime[d] <= vruntime'[d] /\ vruntime[d] \in Nat /\ vruntime'[d] \in Nat
    BY <1>2, <1>3, <1>4 DEF FInv, TypeOK
  <2>3. Entries(ready_)' = Entries(ready_)
    BY <1>1 DEF Entries
  <2> QED
    BY <1>1, <2>1, <2>2, <2>3 DEF FInv, KeysOK
<1>9. HandsOK'
  <2>1. /\ pc'[w] = "snap" /\ dispatched'[w] = NoClass
        /\ \A v \in Worker \ {w} : pc'[v] = pc[v] /\ dispatched'[v] = dispatched[v]
        /\ UNCHANGED <<job, weight, has_entry>>
    BY <1>1 DEF GoTo, FInv, TypeOK, PoolTypeOK
  <2>2. job[w] = NoTask
    BY <1>1 DEF FInv, PoolInv, HeldOnce
  <2>3. NoClass \notin Class
    BY ClassAssumption
  <2> QED
    BY <2>1, <2>2, <2>3 DEF FInv, HandsOK
<1> QED
  BY <1>5, <1>6, <1>7, <1>8, <1>9 DEF FInv

\* The invariant holds of a new scheduler ...
LEMMA InitInv == Init => FInv
<1> SUFFICES ASSUME Init PROVE FInv
  OBVIOUS
<1>1. PoolInv(Search)
  BY PoolInitInv DEF Init
<1>2. TypeOK
  BY <1>1 DEF Init, PoolInv, TypeOK, Search
<1>3. Entries(ready_) = {} /\ Sorted(ready_) /\ Unique(ready_)
  BY DEF Init, Entries, Sorted, Unique
<1>4. QueuesOK /\ FlagsOK /\ KeysOK /\ HandsOK
  BY <1>3, ClassAssumption DEF Init, PoolInit, QueuesOK, FlagsOK, KeysOK, HandsOK
<1> QED
  BY <1>1, <1>2, <1>3, <1>4 DEF FInv

\* ... and every step of any thread keeps it.
LEMMA NextInv == FInv /\ [Next]_vars => FInv'
<1> SUFFICES ASSUME FInv, [Next]_vars PROVE FInv'
  OBVIOUS
<1> USE DEF Hand
<1>0. PoolInv(Search) /\ pc \in [Worker -> CommonStep \cup Search]
      /\ job \in [Worker -> Task \cup {NoTask}] /\ stage \in [Task -> Stage]
  BY DEF FInv, PoolInv, PoolTypeOK
<1>1. ASSUME NEW t \in Task, SubmitCount(t), UNCHANGED schedVars
      PROVE  FInv'
  <2>1. PoolInv(Search)'
    BY <1>0, <1>1, SubmitCountInv
  <2> QED
    BY <1>1, <2>1, CommonStepInv DEF SubmitCount
<1>2. ASSUME NEW t \in Task, SubmitNotify(t), UNCHANGED schedVars
      PROVE  FInv'
  <2>1. PoolInv(Search)'
    BY <1>0, <1>2, SubmitNotifyInv
  <2>2. UNCHANGED <<pc, job, stage>>
    BY <1>2 DEF SubmitNotify, SubmitBump, SubmitRing
  <2> QED
    BY <1>2, <2>1, <2>2, CommonStepInv
<1>3. ASSUME NEW w \in Worker, NothingReady(w)
      PROVE  FInv'
  <2>1. pc[w] = "dispatch" /\ GoTo(w, "stop") /\ UNCHANGED schedVars
    BY <1>3 DEF NothingReady
  <2>2. PoolInv(Search)'
    BY <1>0, <2>1, GoToInv DEF Searching, Search
  <2> QED
    BY <1>0, <2>1, <2>2, CommonStepInv DEF GoTo, taskVars
<1>4. ASSUME NEW w \in Worker, NoneFound(w)
      PROVE  FInv'
  <2>1. pc[w] = "stop" /\ StopOrWait(w) /\ UNCHANGED schedVars
    BY <1>4 DEF NoneFound
  <2>2. PoolInv(Search)'
    BY <1>0, <2>1, StopOrWaitInv DEF Searching
  <2> QED
    BY <1>0, <2>1, <2>2, CommonStepInv DEF StopOrWait, GoTo, taskVars
<1>5. ASSUME NEW w \in Worker, UNCHANGED schedVars,
             Snapshot(w, "dispatch") \/ WorkerCommon(w) \/ Ring(w, "account")
      PROVE  FInv'
  <2>1. PoolInv(Search)'
    <3>1. {"dispatch", "account"} \subseteq (CommonStep \cup Search) \ {"body", "settle", "exited"}
      BY DEF CommonStep, Search
    <3> QED
      BY <1>0, <1>5, <3>1, SnapshotInv, WorkerCommonInv, RingInv
  <2>2. \A v \in Worker : pc'[v] \in Hand <=> pc[v] \in Hand
    BY <1>0, <1>5 DEF Snapshot, WorkerCommon, FinishBody, Settle, Bump, WaitBlock, WaitReturn,
                      GoTo, Ring
  <2>3. \A v \in Worker : job'[v] \in {job[v], NoTask}
    BY <1>0, <1>5 DEF Snapshot, WorkerCommon, FinishBody, Settle, Bump, WaitBlock, WaitReturn,
                      GoTo, Ring
  <2>4. \A t \in Task : stage'[t] = "queued" <=> stage[t] = "queued"
    <3>1. CASE FinishBody(w) \/ Settle(w)
      <4>1. job[w] \in Task /\ stage[job[w]] \in {"body", "published"}
        BY <1>0, <3>1 DEF FinishBody, Settle, PoolInv, HeldOnce
      <4> QED
        BY <1>0, <3>1, <4>1 DEF FinishBody, Settle
    <3>2. CASE UNCHANGED stage
      BY <3>2
    <3> QED
      BY <1>5, <3>1, <3>2 DEF Snapshot, WorkerCommon, Bump, WaitBlock, WaitReturn, GoTo,
                              Ring, taskVars
  <2> QED
    BY <1>5, <2>1, <2>2, <2>3, <2>4, CommonStepInv
<1>6. ASSUME ShutdownFlag \/ ShutdownRest, UNCHANGED schedVars
      PROVE  FInv'
  <2>1. PoolInv(Search)'
    BY <1>0, <1>6, ShutdownInv
  <2>2. UNCHANGED <<pc, job, stage>>
    BY <1>6 DEF ShutdownFlag, ShutdownRest, ShutdownBump, ShutdownRing, ShutdownJoin, taskVars
  <2> QED
    BY <1>6, <2>1, <2>2, CommonStepInv
<1>7. ASSUME UNCHANGED vars
      PROVE  FInv'
  <2>1. PoolInv(Search)'
    BY <1>0, <1>7, PoolStutterInv DEF vars
  <2> QED
    BY <1>7, <2>1, CommonStepInv DEF vars, poolVars, taskVars
<1> QED
  BY <1>1, <1>2, <1>3, <1>4, <1>5, <1>6, <1>7, RegisterInv, SubmitEnqueueInv, DispatchInv,
     AccountInv DEF Next, SubmitRest, WorkerNext, Halted

\* The invariant holds throughout.
LEMMA Inductive == Spec => []FInv
BY InitInv, NextInv, PTL DEF Spec

(***************************************************************************)
(* Type correctness: in particular Share divides by a positive weight, the *)
(* class a worker accounts to exists, and pending never wraps below zero.  *)
(***************************************************************************)
THEOREM TypeCorrect == Spec => []TypeOK
<1>1. FInv => TypeOK
  BY DEF FInv
<1> QED
  BY <1>1, Inductive, PTL

(***************************************************************************)
(* A class has an entry in ready_, and only one, exactly while it has jobs *)
(* to run, whatever the interleaving of submit() with the dispatches.      *)
(***************************************************************************)
THEOREM OneEntry == Spec => []OneEntryPerClass
<1>1. FInv => OneEntryPerClass
  <2> SUFFICES ASSUME FInv, NEW c \in Class
               PROVE  /\ has_entry[c] <=> runnable[c] # << >>
                      /\ Cardinality(EntriesOf(c)) = IF has_entry[c] THEN 1 ELSE 0
    BY DEF OneEntryPerClass
  <2>1. CASE has_entry[c]
    <3>1. PICK n \in DOMAIN ready_ : ready_[n][2] = c
      BY <2>1 DEF FInv, FlagsOK, Entries
    <3>2. EntriesOf(c) = {n}
      BY <3>1 DEF EntriesOf, FInv, Unique
    <3>3. Cardinality({n}) = 1
      BY FS_Singleton
    <3> QED
      BY <2>1, <3>2, <3>3 DEF FInv, FlagsOK
  <2>2. CASE ~has_entry[c]
    <3>1. EntriesOf(c) = {}
      BY <2>2 DEF EntriesOf, FInv, FlagsOK, Entries
    <3>2. Cardinality({}) = 0
      BY FS_EmptySet
    <3> QED
      BY <2>2, <3>1, <3>2 DEF FInv, FlagsOK
  <2> QED
    BY <2>1, <2>2
<1> QED
  BY <1>1, Inductive, PTL

(***************************************************************************)
(* The vruntimes at which classes are dispatched never go backwards, and   *)
(* no entry is ahead of its class: there is no starvation by a class that  *)
(* was idle, new or is run by several workers at once.                     *)
(***************************************************************************)
THEOREM FloorHolds == Spec => []NothingBelowFloor
<1>1. FInv => NothingBelowFloor
  BY DEF FInv, KeysOK, Entries, NothingBelowFloor
<1> QED
  BY <1>1, Inductive, PTL

(***************************************************************************)
(* No worker leaves its loop while a job is left that shutdown() promises  *)
(* to run.                                                                 *)
(***************************************************************************)
THEOREM ShutdownDrains == Spec => []DrainBeforeExit
<1>1. FInv => DrainBeforeExit
  BY DEF FInv, PoolInv
<1> QED
  BY <1>1, Inductive, PTL

-----------------------------------------------------------------------------
(***************************************************************************)
(* Sleeping and waking.                                                    *)
(***************************************************************************)

\* A dispatch takes a queued job.
LEMMA DispatchFinds ==
  ASSUME FInv, NEW w \in Worker, Dispatch(w)
  PROVE  pc[w] = "dispatch" /\ \E t \in Task : stage[t] = "queued" /\ Found(w, t)
<1> DEFINE c == Head(ready_)[2]
           t == Head(runnable[c])
<1>1. /\ pc[w] = "dispatch" /\ ready_ # << >> /\ Found(w, t)
  BY DEF Dispatch
<1>2. ready_ \in Seq(Entry) /\ \A d \in Class : runnable[d] \in Seq(Task)
  BY DEF FInv, TypeOK, Entry
<1>3. Head(ready_) \in Entries(ready_) /\ c \in Class
  <2>1. Head(ready_) \in Entry /\ Head(ready_) \in Entries(ready_)
    BY <1>1, <1>2, TailOK DEF FInv
  <2> QED
    BY <2>1 DEF Entry
<1>4. runnable[c] # << >>
  BY <1>3 DEF FInv, FlagsOK
<1> HIDE DEF c
<1>5. t \in Task /\ 1 \in DOMAIN runnable[c] /\ t = runnable[c][1]
  BY <1>2, <1>3, <1>4, HeadTailProperties, LenProperties, EmptySeq
<1>6. stage[t] = "queued"
  BY <1>3, <1>5 DEF FInv, QueuesOK
<1> QED
  BY <1>1, <1>5, <1>6

\* Every step keeps what the protocol says of sleeping workers.
LEMMA NextWake ==
  ASSUME FInv, WakeInv, [Next]_vars
  PROVE  WakeInv'
<1>0. PoolInv(Search)
  BY DEF FInv
<1>1. ASSUME NEW w \in Worker, Dispatch(w)
      PROVE  WakeInv'
  BY <1>0, <1>1, DispatchFinds, FoundWake DEF Searching
<1>2. ASSUME NEW w \in Worker, NothingReady(w) \/ Account(w)
      PROVE  WakeInv'
  <2>1. /\ pc[w] \in {"dispatch", "account"} /\ w \notin asleep
        /\ GoTo(w, "stop") \/ GoTo(w, "snap")
    BY <1>2 DEF NothingReady, Account, WakeInv
  <2>2. {"stop", "snap"} \subseteq (CommonStep \cup Search) \ {"wait", "exited"}
    BY DEF CommonStep, Search
  <2> QED
    BY <1>0, <2>1, <2>2, GoToWake DEF Searching
<1>3. ASSUME NEW w \in Worker, NoneFound(w)
      PROVE  WakeInv'
  BY <1>0, <1>3, StopOrWaitWake DEF NoneFound, Searching
<1>4. ASSUME NEW w \in Worker, Snapshot(w, "dispatch") \/ WorkerCommon(w) \/ Ring(w, "account")
      PROVE  WakeInv'
  <2>1. {"dispatch", "account"} \subseteq (CommonStep \cup Search) \ {"wait", "exited"}
    BY DEF CommonStep, Search
  <2> QED
    BY <1>0, <1>4, <2>1, SnapshotWake, WorkerCommonWake, RingWake
<1>5. ASSUME NEW t \in Task, SubmitCount(t) \/ SubmitRest(t)
      PROVE  WakeInv'
  BY <1>0, <1>5, SubmitWake DEF SubmitRest, SubmitEnqueue
<1>6. ASSUME ShutdownFlag \/ ShutdownRest
      PROVE  WakeInv'
  BY <1>0, <1>6, ShutdownWake
<1>7. ASSUME UNCHANGED poolVars
      PROVE  WakeInv'
  BY <1>7, PoolStutterWake
<1> QED
  BY <1>1, <1>2, <1>3, <1>4, <1>5, <1>6, <1>7 DEF Next, WorkerNext, Halted, Register, vars

\* As long as the snapshot of a worker that found ready_ empty is the present
\* generation, every queued job has been pushed since and not been announced.
Looked ==
  \A w \in fresh : pc[w] \in {"stop", "wait"} =>
    \A t \in Task : stage[t] = "queued" => sub[t] = "pushed"

\* Every step keeps it.
LEMMA NextLooked ==
  ASSUME FInv, Looked, [Next]_vars
  PROVE  Looked'
<1>0. /\ pc \in [Worker -> CommonStep \cup Search] /\ fresh \subseteq Worker
      /\ stage \in [Task -> Stage] /\ sub \in [Task -> {"idle", "done"} \cup InSubmit]
  BY DEF FInv, PoolInv, PoolTypeOK, IdleTypeOK
<1>1. ASSUME fresh' \subseteq fresh,
             \A w \in fresh' : pc'[w] \in {"stop", "wait"} => pc[w] \in {"stop", "wait"},
             \A t \in Task : stage'[t] = "queued" => \/ sub'[t] = "pushed"
                                                     \/ stage[t] = "queued" /\ sub'[t] = sub[t]
      PROVE  Looked'
  BY <1>1 DEF Looked
<1>2. ASSUME NEW w \in Worker, Dispatch(w)
      PROVE  Looked'
  <2>1. PICK t \in Task : stage[t] = "queued" /\ Found(w, t)
    BY <1>2, DispatchFinds
  <2> QED
    BY <1>0, <1>1, <2>1 DEF Found, idleVars
<1>3. ASSUME NEW w \in Worker, NothingReady(w)
      PROVE  Looked'
  <2>1. Entries(ready_) = {}
    BY <1>3, EmptySeq DEF NothingReady, Entries
  <2>2. \A c \in Class : runnable[c] = << >>
    BY <2>1 DEF FInv, FlagsOK
  <2>3. \A t \in Task : stage[t] # "queued"
    BY <2>2, ClassAssumption, EmptySeq DEF FInv, QueuesOK
  <2> QED
    BY <1>3, <2>3 DEF NothingReady, GoTo, taskVars, Looked
<1>4. ASSUME NEW w \in Worker, NoneFound(w) \/ Account(w)
      PROVE  Looked'
  BY <1>0, <1>1, <1>4 DEF NoneFound, Account, StopOrWait, GoTo, idleVars, taskVars
<1>5. ASSUME NEW w \in Worker, Snapshot(w, "dispatch")
      PROVE  Looked'
  BY <1>0, <1>5 DEF Snapshot, IdleCurrent, taskVars, Looked
<1>6. ASSUME NEW w \in Worker, Bump(w)
      PROVE  Looked'
  BY <1>6 DEF Bump, IdleBump, Looked
<1>7. ASSUME NEW w \in Worker, FinishBody(w) \/ Settle(w)
      PROVE  Looked'
  <2>1. job[w] \in Task
    BY <1>7 DEF FinishBody, Settle, FInv, PoolInv, HeldOnce, PoolTypeOK
  <2> QED
    BY <1>0, <1>1, <1>7, <2>1 DEF FinishBody, Settle, idleVars, Stage
<1>8. ASSUME NEW w \in Worker, WaitBlock(w) \/ WaitReturn(w) \/ Ring(w, "account")
      PROVE  Looked'
  BY <1>0, <1>1, <1>8 DEF WaitBlock, WaitReturn, Ring, GoTo, IdleBlock, IdleRing, idleVars, taskVars
<1>9. ASSUME NEW t \in Task, SubmitCount(t) \/ SubmitQueued(t)
      PROVE  Looked'
  <2>1. CASE SubmitCount(t)
    <3>1. stage[t] # "queued"
      BY <2>1 DEF SubmitCount, MaySubmit, FInv, PoolInv, SubStage
    <3> QED
      <4>1. UNCHANGED <<fresh, pc, stage>>
        BY <2>1 DEF SubmitCount, idleVars
      <4>2. \A u \in Task \ {t} : sub'[u] = sub[u]
        BY <1>0, <2>1 DEF SubmitCount
      <4> QED
        BY <1>1, <3>1, <4>1, <4>2
  <2>2. CASE SubmitQueued(t)
    <3>1. UNCHANGED <<fresh, pc>>
      BY <2>2 DEF SubmitQueued, idleVars
    <3>2. sub'[t] = "pushed" /\ \A u \in Task \ {t} : sub'[u] = sub[u] /\ stage'[u] = stage[u]
      BY <1>0, <2>2 DEF SubmitQueued
    <3>3. \A u \in Task : stage'[u] = "queued" => \/ sub'[u] = "pushed"
                                                  \/ stage[u] = "queued" /\ sub'[u] = sub[u]
      BY <3>2
    <3> QED
      BY <1>1, <3>1, <3>3
  <2> QED
    BY <1>9, <2>1, <2>2
<1>10. ASSUME NEW t \in Task, SubmitNotify(t)
       PROVE  Looked'
  <2>1. CASE SubmitBump(t)
    BY <2>1 DEF SubmitBump, IdleBump, Looked
  <2>2. CASE SubmitRing(t)
    BY <1>0, <2>2 DEF SubmitRing, IdleRing, Looked
  <2> QED
    BY <1>10, <2>1, <2>2 DEF SubmitNotify
<1>11. ASSUME ShutdownFlag \/ ShutdownRest
       PROVE  Looked'
  <2>1. CASE ShutdownBump
    BY <2>1 DEF ShutdownBump, IdleBump, Looked
  <2>2. CASE ShutdownFlag \/ ShutdownRing \/ ShutdownJoin
    BY <1>1, <2>2 DEF ShutdownFlag, ShutdownRing, ShutdownJoin, IdleRing, idleVars, taskVars
  <2> QED
    BY <1>11, <2>1, <2>2 DEF ShutdownRest
<1>12. ASSUME UNCHANGED poolVars
       PROVE  Looked'
  BY <1>1, <1>12 DEF poolVars, idleVars, taskVars
<1> QED
  BY <1>2, <1>3, <1>4, <1>5, <1>6, <1>7, <1>8, <1>9, <1>10, <1>11, <1>12
     DEF Next, WorkerNext, WorkerCommon, SubmitRest, SubmitEnqueue, Halted, Register, vars

\* Nobody sleeps through a notification, and who found nothing has looked.
LEMMA SleepInductive == Spec => [](WakeInv /\ Looked)
<1>1. Init => WakeInv /\ Looked
  BY PoolInitWake DEF Init, PoolInit, IdleInit, Looked
<1>2. FInv /\ WakeInv /\ Looked /\ [Next]_vars => (WakeInv /\ Looked)'
  BY NextWake, NextLooked
<1> QED
  BY <1>1, <1>2, Inductive, PTL DEF Spec

(***************************************************************************)
(* No worker sleeps through a job of any class, or through the moment when *)
(* it should stop.                                                         *)
(***************************************************************************)
THEOREM WakeupsKept == Spec => []NoMissedWakeup
<1>1. WakeInv /\ Looked => NoMissedWakeup
  BY DEF WakeInv, Looked, NoMissedWakeup, NoMissedWakeupFor, Advanced
<1> QED
  BY <1>1, SleepInductive, PTL

-----------------------------------------------------------------------------
(***************************************************************************)
(* The scheduler keeps the contract of the abstract class.                 *)
(***************************************************************************)

\* Every step is one of the contract's, or changes nothing that it mentions.
LEMMA NextSim ==
  ASSUME FInv, WakeInv, [Next]_vars
  PROVE  [Pool!Next]_(Pool!vars)
<1>0. PoolInv(Search)
  BY DEF FInv
<1>1. ASSUME NEW w \in Worker, Dispatch(w)
      PROVE  [Pool!Next]_(Pool!vars)
  <2>1. Searching(w)
    BY <1>1 DEF Dispatch, Searching
  <2>2. PICK t \in Task : stage[t] = "queued" /\ Found(w, t)
    BY <1>1, DispatchFinds
  <2>3. Pool!Start(t)
    BY <1>0, <2>1, <2>2, SimFound
  <2> QED
    BY <2>3 DEF Pool!Next
<1>2. ASSUME UNCHANGED <<sub, stage, late, shutdown_flag, down>>
      PROVE  [Pool!Next]_(Pool!vars)
  BY <1>2, SimStutter
<1>3. ASSUME NEW w \in Worker, \/ NothingReady(w) \/ NoneFound(w) \/ Account(w)
                               \/ Snapshot(w, "dispatch") \/ Ring(w, "account")
      PROVE  [Pool!Next]_(Pool!vars)
  BY <1>2, <1>3 DEF NothingReady, NoneFound, Account, StopOrWait, GoTo, Snapshot, Ring, taskVars
<1>4. ASSUME NEW w \in Worker, WorkerCommon(w)
      PROVE  [Pool!Next]_(Pool!vars)
  BY <1>0, <1>4, SimWorkerCommon DEF Pool!Next
<1>5. ASSUME NEW t \in Task, SubmitCount(t) \/ SubmitRest(t)
      PROVE  [Pool!Next]_(Pool!vars)
  BY <1>0, <1>5, SimSubmitCount, SimSubmitRest DEF SubmitRest, SubmitEnqueue, Pool!Next
<1>6. ASSUME ShutdownFlag \/ ShutdownRest
      PROVE  [Pool!Next]_(Pool!vars)
  BY <1>0, <1>6, SimShutdown DEF Pool!Next
<1>7. ASSUME UNCHANGED poolVars
      PROVE  [Pool!Next]_(Pool!vars)
  BY <1>2, <1>7 DEF poolVars, taskVars
<1> QED
  BY <1>1, <1>3, <1>4, <1>5, <1>6, <1>7 DEF Next, WorkerNext, Halted, Register, vars

(***************************************************************************)
(* The FairScheduler implements TaskPool as well: its classes decide the   *)
(* order of the tasks and nothing else.                                    *)
(***************************************************************************)
THEOREM KeepsContract == Spec => Refines
<1>1. Init => Pool!Init
  BY SimInit DEF Init
<1>2. FInv /\ WakeInv /\ Looked /\ [Next]_vars => [Pool!Next]_(Pool!vars)
  BY NextSim
<1> QED
  BY <1>1, <1>2, Inductive, SleepInductive, PTL DEF Spec, Refines, Pool!Spec

-----------------------------------------------------------------------------
(***************************************************************************)
(* The number of completed tasks.                                          *)
(***************************************************************************)
Owing == {"bump", "ring", "account"}

\* The workers that have settled a task of class c and not yet accounted it.
Unaccounted(c) == {w \in Worker : dispatched[w] = c /\ pc[w] \in Owing}
Finished(c) == {t \in Task : ClassOf[t] = c /\ stage[t] = "done"}

AccountsOK ==
  \A c \in Class : completed[c] + Cardinality(Unaccounted(c)) = Cardinality(Finished(c))

\* The pool has num_workers workers.
LEMMA WorkersFinite == IsFiniteSet(Worker) /\ Cardinality(Worker) = num_workers
BY FS_Interval, WorkersAssumption DEF Worker

\* These sets are finite, so they can be counted.
LEMMA AccountsFinite ==
  /\ \A c : IsFiniteSet(Unaccounted(c)) /\ Cardinality(Unaccounted(c)) \in Nat
  /\ \A c : IsFiniteSet(Finished(c)) /\ Cardinality(Finished(c)) \in Nat
<1>1. \A c : IsFiniteSet(Unaccounted(c)) /\ IsFiniteSet(Finished(c))
  BY WorkersFinite, WorkloadAssumption, FS_Subset DEF Unaccounted, Finished
<1> QED
  BY <1>1, FS_CardinalityType

\* Every step keeps it: the wrapper's fetch_sub and the second critical
\* section are the only ones that matter.
LEMMA NextAccounts ==
  ASSUME FInv, AccountsOK, [Next]_vars
  PROVE  AccountsOK'
<1> USE DEF Owing
<1>0. /\ pc \in [Worker -> CommonStep \cup Search] /\ stage \in [Task -> Stage]
      /\ dispatched \in [Worker -> Class \cup {NoClass}] /\ completed \in [Class -> Nat]
      /\ NoClass \notin Class
  BY ClassAssumption DEF FInv, PoolInv, PoolTypeOK, TypeOK
<1>1. ASSUME UNCHANGED completed,
             \A w \in Worker : pc'[w] \in Owing <=> pc[w] \in Owing,
             \A w \in Worker : pc[w] \in Owing => dispatched'[w] = dispatched[w],
             \A t \in Task : stage'[t] = "done" <=> stage[t] = "done"
      PROVE  AccountsOK'
  <2>1. \A c \in Class : Unaccounted(c)' = Unaccounted(c) /\ Finished(c)' = Finished(c)
    BY <1>1 DEF Unaccounted, Finished
  <2> QED
    BY <1>1, <2>1 DEF AccountsOK
<1>2. ASSUME NEW w \in Worker, Settle(w), UNCHANGED schedVars
      PROVE  AccountsOK'
  <2>1. PICK t \in Task : /\ t = job[w] /\ stage[t] = "published" /\ pc[w] = "settle"
                         /\ dispatched[w] = ClassOf[t]
    BY <1>0, <1>2, ClassAssumption DEF Settle, FInv, PoolInv, PoolTypeOK, HeldOnce, HandsOK
  <2> DEFINE d == ClassOf[t]
  <2>2. /\ stage' = [stage EXCEPT ![t] = "done"] /\ pc' = [pc EXCEPT ![w] = "bump"]
        /\ UNCHANGED <<dispatched, completed>> /\ d \in Class
    BY <1>2, <2>1, ClassAssumption DEF Settle, schedVars, classVars
  <2>3. \A c \in Class \ {d} : Unaccounted(c)' = Unaccounted(c) /\ Finished(c)' = Finished(c)
    BY <1>0, <2>1, <2>2 DEF Unaccounted, Finished
  <2>4. Unaccounted(d)' = Unaccounted(d) \cup {w} /\ w \notin Unaccounted(d)
    BY <1>0, <2>1, <2>2 DEF Unaccounted
  <2>5. Finished(d)' = Finished(d) \cup {t} /\ t \notin Finished(d)
    BY <1>0, <2>1, <2>2 DEF Finished
  <2>6. /\ Cardinality(Unaccounted(d)') = Cardinality(Unaccounted(d)) + 1
        /\ Cardinality(Finished(d)') = Cardinality(Finished(d)) + 1
    BY <2>4, <2>5, AccountsFinite, FS_AddElement
  <2>7. completed[d] + Cardinality(Unaccounted(d)') = Cardinality(Finished(d)')
    <3>1. /\ completed[d] + Cardinality(Unaccounted(d)) = Cardinality(Finished(d))
          /\ completed[d] \in Nat /\ Cardinality(Unaccounted(d)) \in Nat
      BY <1>0, <2>2, AccountsFinite DEF AccountsOK
    <3> QED
      BY <2>6, <3>1
  <2> QED
    BY <2>2, <2>3, <2>7 DEF AccountsOK
<1>3. ASSUME NEW w \in Worker, Account(w)
      PROVE  AccountsOK'
  <2>1. PICK d \in Class : d = dispatched[w]
    BY <1>0, <1>3 DEF Account, FInv, HandsOK
  <2>2. /\ pc[w] = "account" /\ pc' = [pc EXCEPT ![w] = "snap"] /\ UNCHANGED stage
        /\ completed' = [completed EXCEPT ![d] = @ + 1]
        /\ dispatched' = [dispatched EXCEPT ![w] = NoClass]
    BY <1>3, <2>1 DEF Account, GoTo, taskVars
  <2>3. \A c \in Class : Finished(c)' = Finished(c)
    BY <2>2 DEF Finished
  <2>4. /\ \A c \in Class \ {d} : Unaccounted(c)' = Unaccounted(c) /\ completed'[c] = completed[c]
        /\ Unaccounted(d)' = Unaccounted(d) \ {w} /\ w \in Unaccounted(d)
        /\ completed'[d] = completed[d] + 1
    BY <1>0, <2>2, <2>1 DEF Unaccounted
  <2>5. Cardinality(Unaccounted(d)') = Cardinality(Unaccounted(d)) - 1
    BY <2>4, AccountsFinite, FS_RemoveElement
  <2>6. completed'[d] + Cardinality(Unaccounted(d)') = Cardinality(Finished(d))
    <3>1. /\ completed[d] + Cardinality(Unaccounted(d)) = Cardinality(Finished(d))
          /\ completed[d] \in Nat /\ Cardinality(Unaccounted(d)) \in Nat
      BY <1>0, <2>1, AccountsFinite DEF AccountsOK
    <3> QED
      BY <2>4, <2>5, <3>1
  <2> QED
    BY <2>3, <2>4, <2>6 DEF AccountsOK
<1>4. ASSUME NEW w \in Worker, Dispatch(w)
      PROVE  AccountsOK'
  <2>1. PICK t \in Task : stage[t] = "queued" /\ Found(w, t)
    BY <1>4, DispatchFinds
  <2>2. /\ pc[w] = "dispatch" /\ UNCHANGED completed
        /\ \A v \in Worker \ {w} : dispatched'[v] = dispatched[v]
    BY <1>0, <1>4 DEF Dispatch
  <2> QED
    BY <1>0, <1>1, <2>1, <2>2 DEF Found
<1>5. ASSUME NEW w \in Worker, FinishBody(w), UNCHANGED schedVars
      PROVE  AccountsOK'
  <2>1. job[w] \in Task /\ stage[job[w]] = "body"
    BY <1>5 DEF FinishBody, FInv, PoolInv, HeldOnce, PoolTypeOK
  <2> QED
    BY <1>0, <1>1, <1>5, <2>1 DEF FinishBody, schedVars, classVars
<1>6. ASSUME NEW w \in Worker, UNCHANGED schedVars,
             \/ NothingReady(w) \/ NoneFound(w) \/ Snapshot(w, "dispatch") \/ Ring(w, "account")
             \/ Bump(w) \/ WaitBlock(w) \/ WaitReturn(w)
      PROVE  AccountsOK'
  BY <1>0, <1>1, <1>6 DEF NothingReady, NoneFound, StopOrWait, Snapshot, Ring, Bump, WaitBlock,
                          WaitReturn, GoTo, taskVars, schedVars, classVars
<1>7. ASSUME UNCHANGED <<completed, dispatched, pc>>,
             \A t \in Task : stage'[t] = "done" <=> stage[t] = "done"
      PROVE  AccountsOK'
  BY <1>1, <1>7
<1>8. ASSUME NEW t \in Task, (SubmitCount(t) /\ UNCHANGED schedVars) \/ SubmitRest(t)
      PROVE  AccountsOK'
  <2>1. CASE SubmitEnqueue(t)
    <3>1. stage[t] = "none"
      BY <2>1 DEF SubmitEnqueue, SubmitQueued, FInv, PoolInv, SubStage
    <3> QED
      BY <1>0, <1>7, <2>1, <3>1 DEF SubmitEnqueue, SubmitQueued
  <2>2. CASE (SubmitCount(t) \/ SubmitNotify(t)) /\ UNCHANGED schedVars
    BY <1>7, <2>2 DEF SubmitCount, SubmitNotify, SubmitBump, SubmitRing, schedVars, classVars
  <2> QED
    BY <1>8, <2>1, <2>2 DEF SubmitRest
<1>9. ASSUME (ShutdownFlag \/ ShutdownRest) /\ UNCHANGED schedVars
      PROVE  AccountsOK'
  BY <1>7, <1>9 DEF ShutdownFlag, ShutdownRest, ShutdownBump, ShutdownRing, ShutdownJoin, taskVars,
                    schedVars, classVars
<1>10. ASSUME NEW c \in Class, NEW wt \in RegWeight, Register(c, wt)
       PROVE  AccountsOK'
  BY <1>7, <1>10 DEF Register, poolVars, taskVars
<1>11. ASSUME UNCHANGED vars
       PROVE  AccountsOK'
  BY <1>7, <1>11 DEF vars, poolVars, taskVars, schedVars, classVars
<1> QED
  BY <1>2, <1>3, <1>4, <1>5, <1>6, <1>8, <1>9, <1>10, <1>11
     DEF Next, WorkerNext, WorkerCommon, NothingReady, NoneFound, Halted

(***************************************************************************)
(* When shutdown() has returned, the count of each class is the number of  *)
(* its tasks that ran: the count is made after the task has left pending,  *)
(* but before its worker can leave.                                        *)
(***************************************************************************)
THEOREM AccountsComplete == Spec => []AccountedAtReturn
<1>1. Init => AccountsOK
  <2> SUFFICES ASSUME Init PROVE AccountsOK
    OBVIOUS
  <2>1. \A c \in Class : Unaccounted(c) = {} /\ Finished(c) = {} /\ completed[c] = 0
    BY ClassAssumption DEF Init, PoolInit, Unaccounted, Finished
  <2> QED
    BY <2>1, FS_EmptySet DEF AccountsOK
<1>2. FInv /\ AccountsOK /\ [Next]_vars => AccountsOK'
  BY NextAccounts
<1>3. FInv /\ WakeInv /\ AccountsOK => AccountedAtReturn
  <2> SUFFICES ASSUME FInv, WakeInv, AccountsOK, down = "returned", NEW c \in Class
               PROVE  completed[c] = Cardinality(Finished(c))
    BY DEF AccountedAtReturn, Finished
  <2>1. Unaccounted(c) = {}
    BY DEF WakeInv, AllExited, Unaccounted, Owing
  <2>2. completed[c] \in Nat
    BY DEF FInv, TypeOK
  <2> QED
    BY <2>1, <2>2, FS_EmptySet DEF AccountsOK
<1> QED
  BY <1>1, <1>2, <1>3, Inductive, SleepInductive, PTL DEF Spec

-----------------------------------------------------------------------------
(***************************************************************************)
(* Fairness.  Debt is the vruntime a class will have when the tasks it has *)
(* in flight have been accounted at their worst, Room what one task on     *)
(* every worker costs it at worst.                                         *)
(***************************************************************************)
Debt(c) == vruntime[c] + Cardinality(InFlight(c)) * MaxShare(c)
Room(c) == num_workers * MaxShare(c)

\* The two bounds are not inductive without the third conjunct: an idle class
\* comes back with the vruntime it left with.
DebtOK(c) ==
  /\ \A x \in Entries(ready_) : x[2] = c =>
       Debt(c) <= x[1] + Room(c) /\ x[1] <= min_vruntime_ + Room(c) + MaxShare(c)
  /\ ~has_entry[c] => Debt(c) <= min_vruntime_ + Room(c) + MaxShare(c)

DebtsOK == \A c \in Class : weight[c] # 0 => DebtOK(c)

\* What the clock measures is bounded, and so is what it costs.
LEMMA ShareBounds ==
  ASSUME NEW n \in Nat \ {0}
  PROVE  /\ MaxElapsed \div n \in Nat
         /\ \A e \in Elapsed : e \div n \in Nat /\ e \div n <= MaxElapsed \div n
<1>1. MaxElapsed \in Elapsed /\ \A e \in Elapsed : e <= MaxElapsed
  BY ClockAssumption DEF MaxElapsed
<1>2. Elapsed \subseteq Nat
  BY ClassAssumption
<1> SUFFICES ASSUME NEW e \in Elapsed, NEW m \in Nat, e \in Nat, e <= m
             PROVE  m \div n \in Nat /\ e \div n \in Nat /\ e \div n <= m \div n
  BY <1>1, <1>2
<1> QED
  OBVIOUS

\* At most num_workers tasks are in flight.
LEMMA Products ==
  ASSUME NEW S \in SUBSET Worker, NEW m \in Nat
  PROVE  /\ Cardinality(S) * m \in Nat /\ num_workers * m \in Nat
         /\ Cardinality(S) * m <= num_workers * m
         /\ \A w \in Worker : /\ w \notin S => Cardinality(S \cup {w}) * m = Cardinality(S) * m + m
                              /\ w \in S => Cardinality(S \ {w}) * m = Cardinality(S) * m - m
<1>1. /\ IsFiniteSet(S) /\ Cardinality(S) \in Nat /\ Cardinality(S) <= num_workers
      /\ num_workers \in Nat
  BY WorkersFinite, WorkersAssumption, FS_Subset, FS_CardinalityType
<1>2. \A w \in Worker : /\ w \notin S => Cardinality(S \cup {w}) = Cardinality(S) + 1
                        /\ w \in S => Cardinality(S \ {w}) = Cardinality(S) - 1
  BY <1>1, FS_AddElement, FS_RemoveElement
<1>3. ASSUME NEW k \in Nat, NEW l \in Nat, k <= l
      PROVE  k * m \in Nat /\ k * m <= l * m
  BY <1>3
<1>4. ASSUME NEW k \in Nat
      PROVE  (k + 1) * m = k * m + m /\ (k - 1) * m = k * m - m
  BY <1>4
<1> QED
  BY <1>1, <1>2, <1>3, <1>4

\* So a class's debt is at most a Room ahead of its vruntime.
LEMMA DebtBounds ==
  ASSUME NEW v \in Nat, NEW S \in SUBSET Worker, NEW n \in Nat \ {0}
  PROVE  LET m == MaxElapsed \div n IN
           /\ m \in Nat /\ num_workers * m \in Nat
           /\ v + Cardinality(S) * m \in Nat
           /\ v <= v + Cardinality(S) * m
           /\ v + Cardinality(S) * m <= v + num_workers * m
<1>1. MaxElapsed \div n \in Nat
  BY ShareBounds
<1> DEFINE m == MaxElapsed \div n
           a == Cardinality(S) * m
           b == num_workers * m
<1>2. a \in Nat /\ b \in Nat /\ a <= b
  <2> HIDE DEF m
  <2> QED
    BY <1>1, Products DEF m
<1> HIDE DEF a, b
<1>3. v + a \in Nat /\ v <= v + a /\ v + a <= v + b
  BY <1>2
<1> QED
  BY <1>1, <1>2, <1>3 DEF a, b

\* A class none of whose figures changes keeps its bounds while the floor
\* rises.
LEMMA DebtKept ==
  ASSUME FInv, NEW c \in Class, weight[c] # 0, DebtOK(c),
         weight'[c] = weight[c], vruntime'[c] = vruntime[c], has_entry'[c] = has_entry[c],
         InFlight(c)' = InFlight(c),
         \A x \in Entries(ready_)' : x[2] = c => x \in Entries(ready_),
         min_vruntime_' \in Nat, min_vruntime_ <= min_vruntime_'
  PROVE  DebtOK(c)'
<1>1. /\ MaxShare(c) \in Nat /\ Room(c) \in Nat /\ Debt(c) \in Nat
  <2>1. weight[c] \in Nat \ {0} /\ vruntime[c] \in Nat /\ InFlight(c) \in SUBSET Worker
    BY DEF FInv, TypeOK, InFlight
  <2> QED
    BY <2>1, DebtBounds DEF MaxShare, Room, Debt
<1>2. MaxShare(c)' = MaxShare(c) /\ Room(c)' = Room(c) /\ Debt(c)' = Debt(c)
  BY DEF MaxShare, Room, Debt
<1>3. \A x \in Entries(ready_) : x[1] \in Nat
  BY ElementOfSeq DEF FInv, TypeOK, Entries
<1>4. min_vruntime_ \in Nat
  BY DEF FInv, TypeOK
<1> DEFINE M == MaxShare(c)
           R == Room(c)
           D == Debt(c)
<1>5. /\ M \in Nat /\ R \in Nat /\ D \in Nat
      /\ \A x \in Entries(ready_) : x[2] = c => D <= x[1] + R /\ x[1] <= min_vruntime_ + R + M
      /\ ~has_entry[c] => D <= min_vruntime_ + R + M
  BY <1>1 DEF DebtOK
<1>6. SUFFICES /\ \A x \in Entries(ready_)' : x[2] = c =>
                   D <= x[1] + R /\ x[1] <= min_vruntime_' + R + M
               /\ ~has_entry'[c] => D <= min_vruntime_' + R + M
  BY <1>2 DEF DebtOK
<1> HIDE DEF M, R, D
<1>7. \A d \in Nat : d <= min_vruntime_ + R + M => d <= min_vruntime_' + R + M
  BY <1>4, <1>5
<1> QED
  BY <1>3, <1>5, <1>7

\* register_class() starts a class at the floor, with nothing in flight.
LEMMA RegisterDebt ==
  ASSUME FInv, FInv', DebtsOK, NEW c \in Class, NEW wt \in RegWeight, Register(c, wt)
  PROVE  DebtsOK'
<1>1. /\ weight[c] = 0 /\ weight' = [weight EXCEPT ![c] = wt]
      /\ vruntime' = [vruntime EXCEPT ![c] = min_vruntime_]
      /\ UNCHANGED <<has_entry, ready_, min_vruntime_, dispatched>>
  BY DEF Register, Created, Vruntime0
<1>2. weight \in [Class -> Nat] /\ vruntime \in [Class -> Nat] /\ min_vruntime_ \in Nat
  BY DEF FInv, TypeOK
<1>3. ASSUME NEW d \in Class, weight'[d] # 0, d # c
      PROVE  DebtOK(d)'
  <2>1. /\ weight'[d] = weight[d] /\ vruntime'[d] = vruntime[d] /\ InFlight(d)' = InFlight(d)
        /\ Entries(ready_)' = Entries(ready_)
    BY <1>1, <1>2, <1>3 DEF InFlight, Entries
  <2> QED
    BY <1>1, <1>2, <1>3, <2>1, DebtKept DEF DebtsOK
<1>4. weight'[c] # 0 => DebtOK(c)'
  <2> SUFFICES ASSUME weight'[c] # 0 PROVE DebtOK(c)'
    OBVIOUS
  <2>1. vruntime'[c] = min_vruntime_ /\ ~has_entry[c]
    BY <1>1, <1>2 DEF FInv, HandsOK
  <2>2. \A x \in Entries(ready_)' : x[2] # c
    BY <1>1, <2>1 DEF FInv, FlagsOK, Entries
  <2>3. /\ MaxShare(c)' \in Nat /\ Room(c)' \in Nat /\ Debt(c)' \in Nat
        /\ Debt(c)' <= vruntime'[c] + Room(c)'
    <3>1. weight'[c] \in Nat \ {0} /\ vruntime'[c] \in Nat /\ InFlight(c)' \in SUBSET Worker
      BY DEF FInv, TypeOK, InFlight
    <3> QED
      BY <3>1, DebtBounds DEF MaxShare, Room, Debt
  <2>4. Debt(c)' <= min_vruntime_' + Room(c)' + MaxShare(c)'
    BY <1>1, <1>2, <2>1, <2>3
  <2> QED
    BY <2>2, <2>4 DEF DebtOK
<1> QED
  BY <1>3, <1>4 DEF DebtsOK

\* submit(): a class that comes back does so with what it owed when it went
\* idle, or at the floor.
LEMMA SubmitDebt ==
  ASSUME FInv, FInv', DebtsOK, NEW t \in Task, SubmitEnqueue(t)
  PROVE  DebtsOK'
<1> DEFINE c == ClassOf[t]
           key == Clamped(c)
<1>1. /\ weight' = IF weight[c] = 0
                     THEN [weight EXCEPT ![c] = IF OptWeight[t] > 0 THEN OptWeight[t] ELSE 1]
                     ELSE weight
      /\ IF has_entry[c]
           THEN UNCHANGED <<vruntime, has_entry, ready_>>
           ELSE /\ vruntime' = [vruntime EXCEPT ![c] = key]
                /\ ready_' = Insert(ready_, key, c)
                /\ has_entry' = [has_entry EXCEPT ![c] = TRUE]
      /\ UNCHANGED <<min_vruntime_, dispatched>>
  BY DEF SubmitEnqueue, Created
<1>2. /\ weight \in [Class -> Nat] /\ vruntime \in [Class -> Nat] /\ min_vruntime_ \in Nat
      /\ has_entry \in [Class -> BOOLEAN] /\ ready_ \in Seq(Entry) /\ Sorted(ready_)
      /\ c \in Class
  BY ClassAssumption DEF FInv, TypeOK, Entry
<1>3. key \in Nat
  BY <1>2 DEF Clamped, Larger, Vruntime0
<1>4. Entries(ready_)' = IF has_entry[c] THEN Entries(ready_) ELSE Entries(ready_) \cup {<<key, c>>}
  <2>1. CASE has_entry[c]
    BY <1>1, <2>1 DEF Entries
  <2>2. CASE ~has_entry[c]
    <3>1. Entries(Insert(ready_, key, c)) = Entries(ready_) \cup {<<key, c>>}
      BY <1>2, <1>3, InsertOK
    <3> QED
      BY <1>1, <2>2, <3>1 DEF Entries
  <2> QED
    BY <2>1, <2>2
<1>5. has_entry[c] => weight[c] # 0
  BY <1>2 DEF FInv, HandsOK
<1> HIDE DEF key, c
<1>6. ASSUME NEW d \in Class, weight'[d] # 0, d # c \/ has_entry[c]
      PROVE  DebtOK(d)'
  <2>1. /\ weight'[d] = weight[d] /\ vruntime'[d] = vruntime[d] /\ has_entry'[d] = has_entry[d]
        /\ InFlight(d)' = InFlight(d)
    BY <1>1, <1>2, <1>5, <1>6 DEF InFlight
  <2>2. \A x \in Entries(ready_)' : x[2] = d => x \in Entries(ready_)
    BY <1>4, <1>6
  <2>3. min_vruntime_' \in Nat /\ min_vruntime_ <= min_vruntime_'
    BY <1>1, <1>2
  <2> QED
    BY <1>6, <2>1, <2>2, <2>3, DebtKept DEF DebtsOK
<1>7. CASE ~has_entry[c]
  <2>1. vruntime'[c] = key /\ has_entry'[c] /\ weight'[c] \in Nat \ {0}
    BY <1>1, <1>2, <1>7, ClassAssumption
  <2>2. \A x \in Entries(ready_)' : x[2] = c => x[1] = key
    <3>1. \A x \in Entries(ready_) : x[2] # c
      BY <1>2, <1>7 DEF FInv, FlagsOK
    <3> DEFINE y == <<key, c>>
    <3>2. y[1] = key /\ Entries(ready_)' = Entries(ready_) \cup {y}
      BY <1>4, <1>7
    <3> HIDE DEF y
    <3> QED
      BY <3>1, <3>2
  <2> DEFINE M == MaxShare(c)'
             R == Room(c)'
             D == Debt(c)'
  <2>3. M \in Nat /\ R \in Nat /\ D \in Nat /\ D <= key + R
    <3>1. vruntime'[c] \in Nat /\ InFlight(c)' \in SUBSET Worker
      BY <1>3, <2>1 DEF InFlight
    <3> QED
      BY <2>1, <3>1, DebtBounds DEF MaxShare, Room, Debt
  <2>4. key <= min_vruntime_ + R + M
    <3>1. CASE weight[c] = 0
      <4>1. key = min_vruntime_
        BY <1>2, <3>1 DEF key, Clamped, Larger, Vruntime0
      <4> HIDE DEF M, R, D
      <4> QED
        BY <1>2, <2>3, <4>1
    <3>2. CASE weight[c] # 0
      <4>1. MaxShare(c) = M /\ Room(c) = R
        BY <1>1, <3>2 DEF MaxShare, Room
      <4>2. Debt(c) \in Nat /\ vruntime[c] <= Debt(c)
        <5>1. weight[c] \in Nat \ {0} /\ vruntime[c] \in Nat /\ InFlight(c) \in SUBSET Worker
          BY <1>2, <3>2 DEF InFlight
        <5> QED
          BY <5>1, DebtBounds DEF MaxShare, Debt
      <4>3. Debt(c) <= min_vruntime_ + R + M
        BY <1>2, <1>7, <3>2, <4>1 DEF DebtsOK, DebtOK
      <4>4. key = vruntime[c] \/ key = min_vruntime_
        BY <1>2, <3>2 DEF key, Clamped, Larger, Vruntime0
      <4> HIDE DEF M, R, D
      <4> QED
        BY <1>2, <2>3, <4>2, <4>3, <4>4
    <3> QED
      BY <3>1, <3>2
  <2>5. DebtOK(c)'
    BY <1>1, <2>1, <2>2, <2>3, <2>4 DEF DebtOK
  <2> QED
    BY <1>6, <2>5 DEF DebtsOK
<1> QED
  BY <1>6, <1>7 DEF DebtsOK

\* What the first critical section does to the multimap and to the floor.
LEMMA DispatchEntries ==
  ASSUME FInv, NEW w \in Worker, Dispatch(w)
  PROVE  \E x \in Entries(ready_) :
           /\ x[1] \in Nat /\ x[2] \in Class
           /\ min_vruntime_' = x[1] /\ min_vruntime_ <= x[1]
           /\ has_entry[x[2]]
           /\ dispatched' = [dispatched EXCEPT ![w] = x[2]]
           /\ \A d \in Class \ {x[2]} : has_entry'[d] = has_entry[d]
           /\ \A y \in Entries(ready_)' : IF y[2] = x[2] THEN y[1] = vruntime[x[2]]
                                                       ELSE y \in Entries(ready_)
<1> DEFINE x == Head(ready_)
           c == x[2]
           r == Insert(Tail(ready_), vruntime[c], c)
<1>1. /\ ready_ # << >>
      /\ min_vruntime_' = Larger(min_vruntime_, x[1])
      /\ \E b \in BOOLEAN : has_entry' = [has_entry EXCEPT ![c] = b]
      /\ ready_' = r \/ ready_' = Tail(ready_)
      /\ dispatched' = [dispatched EXCEPT ![w] = c]
  BY DEF Dispatch, StillRunnable, Floor, Requeue
<1>2. ready_ \in Seq(Entry) /\ min_vruntime_ \in Nat /\ vruntime \in [Class -> Nat]
  BY DEF FInv, TypeOK, Entry
<1>3. /\ x \in Entries(ready_) /\ x \in Entry
      /\ Tail(ready_) \in Seq(Entry) /\ Sorted(Tail(ready_))
      /\ Entries(Tail(ready_)) = {y \in Entries(ready_) : y[2] # c}
  BY <1>1, <1>2, TailOK DEF FInv
<1>4. x[1] \in Nat /\ c \in Class
  BY <1>3 DEF Entry
<1> HIDE DEF x
<1>5. min_vruntime_ <= x[1] /\ has_entry[c]
  BY <1>3, <1>4 DEF FInv, KeysOK, FlagsOK
<1>6. min_vruntime_' = x[1]
  BY <1>1, <1>2, <1>4, <1>5 DEF Larger
<1>7. \A d \in Class \ {c} : has_entry'[d] = has_entry[d]
  BY <1>1 DEF FInv, TypeOK
<1>8. \A y \in Entries(ready_)' : IF y[2] = c THEN y[1] = vruntime[c] ELSE y \in Entries(ready_)
  <2> DEFINE z == <<vruntime[c], c>>
  <2>1. Entries(r) = Entries(Tail(ready_)) \cup {z}
    <3> DEFINE e == Tail(ready_)
               v == vruntime[c]
    <3>1. v \in Nat /\ c \in Class /\ e \in Seq(Entry) /\ Sorted(e)
      BY <1>2, <1>3, <1>4
    <3> HIDE DEF c, e, v
    <3>2. Entries(Insert(e, v, c)) = Entries(e) \cup {<<v, c>>}
      BY <3>1, InsertOK
    <3> QED
      BY <3>2 DEF e, v
  <2>2. Entries(ready_)' = Entries(r) \/ Entries(ready_)' = Entries(Tail(ready_))
    BY <1>1 DEF Entries
  <2>3. z[1] = vruntime[c] /\ z[2] = c
    OBVIOUS
  <2> HIDE DEF z, r, c
  <2> QED
    BY <1>3, <2>1, <2>2, <2>3
<1> QED
  BY <1>1, <1>3, <1>4, <1>5, <1>6, <1>7, <1>8

\* The first critical section: the floor follows the smallest entry, which
\* was at most a Room behind the debt of its class, and one more task is in
\* flight.
LEMMA DispatchDebt ==
  ASSUME FInv, FInv', DebtsOK, NEW w \in Worker, Dispatch(w)
  PROVE  DebtsOK'
<1>1. PICK x \in Entries(ready_) :
        /\ x[1] \in Nat /\ x[2] \in Class
        /\ min_vruntime_' = x[1] /\ min_vruntime_ <= x[1]
        /\ has_entry[x[2]]
        /\ dispatched' = [dispatched EXCEPT ![w] = x[2]]
        /\ \A d \in Class \ {x[2]} : has_entry'[d] = has_entry[d]
        /\ \A y \in Entries(ready_)' : IF y[2] = x[2] THEN y[1] = vruntime[x[2]]
                                                    ELSE y \in Entries(ready_)
  BY DispatchEntries
<1>2. UNCHANGED <<weight, vruntime>> /\ pc[w] = "dispatch"
  BY DEF Dispatch
<1> DEFINE key == x[1]
           c == x[2]
<1>3. /\ dispatched \in [Worker -> Class \cup {NoClass}] /\ dispatched[w] = NoClass
      /\ NoClass \notin Class /\ min_vruntime_ \in Nat
      /\ weight \in [Class -> Nat] /\ vruntime \in [Class -> Nat] /\ weight[c] # 0
  BY <1>1, <1>2, ClassAssumption DEF FInv, HandsOK, TypeOK
<1>4. Debt(c) <= key + Room(c)
  BY <1>1, <1>3 DEF DebtsOK, DebtOK
<1>5. ASSUME NEW d \in Class, weight'[d] # 0, d # c
      PROVE  DebtOK(d)'
  <2>1. InFlight(d)' = InFlight(d)
    BY <1>1, <1>3, <1>5 DEF InFlight
  <2>2. \A y \in Entries(ready_)' : y[2] = d => y \in Entries(ready_)
    BY <1>1, <1>5
  <2> QED
    BY <1>1, <1>2, <1>5, <2>1, <2>2, DebtKept DEF DebtsOK
<1>6. DebtOK(c)'
  <2> DEFINE M == MaxShare(c)
             R == Room(c)
             D == Debt(c)
             v == vruntime[c]
             S == InFlight(c)
  <2>1. S \in SUBSET Worker /\ w \notin S /\ InFlight(c)' = S \cup {w}
    BY <1>1, <1>3 DEF InFlight
  <2>2. M \in Nat /\ R \in Nat /\ D \in Nat /\ v \in Nat /\ v <= D
    <3>1. weight[c] \in Nat \ {0} /\ vruntime[c] \in Nat
      BY <1>1, <1>3
    <3> QED
      BY <2>1, <3>1, DebtBounds DEF MaxShare, Room, Debt
  <2>3. MaxShare(c)' = M /\ Room(c)' = R /\ vruntime'[c] = v
    BY <1>2 DEF MaxShare, Room
  <2>4. Debt(c)' = D + M
    <3>1. /\ Cardinality(S \cup {w}) * M = Cardinality(S) * M + M
          /\ Cardinality(S) * M \in Nat
      <4> HIDE DEF M, S
      <4> QED
        BY <2>1, <2>2, Products
    <3>2. D = v + Cardinality(S) * M /\ Debt(c)' = v + Cardinality(S \cup {w}) * M
      BY <2>1, <2>3 DEF Debt
    <3> HIDE DEF M, S, D, v
    <3> QED
      BY <2>2, <3>1, <3>2
  <2>5. Debt(c)' <= v + R
    <3>1. weight'[c] \in Nat \ {0} /\ vruntime[c] \in Nat /\ InFlight(c)' \in SUBSET Worker
      BY <1>1, <1>2, <1>3, <2>1
    <3>2. v + Cardinality(InFlight(c)') * (MaxElapsed \div weight'[c])
            <= v + num_workers * (MaxElapsed \div weight'[c])
      BY <3>1, DebtBounds
    <3>3. MaxElapsed \div weight'[c] = M /\ Debt(c)' = v + Cardinality(InFlight(c)') * M
      BY <1>2, <2>3 DEF Debt, MaxShare
    <3> QED
      BY <3>2, <3>3 DEF Room
  <2>6. D <= key + R /\ key \in Nat
    BY <1>1, <1>4
  <2> HIDE DEF M, R, D, S
  <2>7. v <= key + R + M /\ Debt(c)' <= key + R + M
    <3> HIDE DEF v, key
    <3> QED
      BY <2>2, <2>4, <2>6
  <2>8. \A y \in Entries(ready_)' : y[2] = c => y[1] = v
    BY <1>1
  <2> HIDE DEF v
  <2> QED
    BY <1>1, <2>3, <2>5, <2>7, <2>8 DEF DebtOK
<1> QED
  BY <1>5, <1>6 DEF DebtsOK

\* The second critical section: the class pays at most what it owed for the
\* task, which is no longer in flight.
LEMMA AccountDebt ==
  ASSUME FInv, FInv', DebtsOK, NEW w \in Worker, Account(w)
  PROVE  DebtsOK'
<1>1. PICK c \in Class : c = dispatched[w] /\ weight[c] \in Nat \ {0}
  BY DEF Account, FInv, HandsOK, TypeOK
<1>2. PICK e \in Elapsed : vruntime' = [vruntime EXCEPT ![c] = @ + Share(c, e)]
  BY <1>1 DEF Account
<1>3. /\ dispatched' = [dispatched EXCEPT ![w] = NoClass]
      /\ UNCHANGED <<weight, has_entry, ready_, min_vruntime_>>
      /\ Entries(ready_)' = Entries(ready_)
  BY DEF Account, Entries
<1>4. /\ dispatched \in [Worker -> Class \cup {NoClass}] /\ NoClass \notin Class
      /\ min_vruntime_ \in Nat /\ vruntime \in [Class -> Nat]
      /\ \A x \in Entries(ready_) : x[1] \in Nat
  BY ClassAssumption, ElementOfSeq DEF FInv, TypeOK, Entries
<1>5. ASSUME NEW d \in Class, weight'[d] # 0, d # c
      PROVE  DebtOK(d)'
  <2>1. InFlight(d)' = InFlight(d) /\ vruntime'[d] = vruntime[d]
    BY <1>1, <1>2, <1>3, <1>4, <1>5 DEF InFlight
  <2> QED
    BY <1>3, <1>4, <1>5, <2>1, DebtKept DEF DebtsOK
<1>6. DebtOK(c)'
  <2> DEFINE M == MaxShare(c)
             R == Room(c)
             D == Debt(c)
             v == vruntime[c]
             S == InFlight(c)
             s == Share(c, e)
  <2>1. S \in SUBSET Worker /\ w \in S /\ InFlight(c)' = S \ {w}
    BY <1>1, <1>3, <1>4 DEF InFlight
  <2>2. M \in Nat /\ R \in Nat /\ D \in Nat /\ v \in Nat
    BY <1>1, <1>4, <2>1, DebtBounds DEF MaxShare, Room, Debt
  <2>3. MaxShare(c)' = M /\ Room(c)' = R /\ vruntime'[c] = v + s
    BY <1>2, <1>3, <1>4 DEF MaxShare, Room
  <2>4. s \in Nat /\ s <= M
    BY <1>1, ShareBounds DEF Share, MaxShare
  <2>5. Debt(c)' \in Int /\ Debt(c)' <= D
    <3>1. /\ Cardinality(S \ {w}) * M = Cardinality(S) * M - M
          /\ Cardinality(S) * M \in Nat
      <4> HIDE DEF M, S
      <4> QED
        BY <2>1, <2>2, Products
    <3>2. D = v + Cardinality(S) * M /\ Debt(c)' = v + s + Cardinality(S \ {w}) * M
      BY <2>1, <2>3 DEF Debt
    <3> HIDE DEF M, S, D, v, s
    <3> QED
      BY <2>2, <2>4, <3>1, <3>2
  <2>6. DebtOK(c)
    BY <1>1 DEF DebtsOK
  <2>7. /\ \A x \in Entries(ready_) : x[2] = c =>
             D <= x[1] + R /\ x[1] <= min_vruntime_ + R + M
        /\ ~has_entry[c] => D <= min_vruntime_ + R + M
    BY <2>6 DEF DebtOK
  <2> HIDE DEF M, R, D, S, s, v
  <2>8. /\ \A k \in Nat : D <= k + R => Debt(c)' <= k + R
        /\ D <= min_vruntime_ + R + M => Debt(c)' <= min_vruntime_ + R + M
    BY <1>4, <2>2, <2>5
  <2> QED
    BY <1>3, <1>4, <2>3, <2>7, <2>8 DEF DebtOK
<1> QED
  BY <1>5, <1>6 DEF DebtsOK

\* No other step touches what the bounds are about.
LEMMA DebtInductive == Spec => []DebtsOK
<1>1. Init => DebtsOK
  BY DEF Init, DebtsOK
<1>2. FInv /\ FInv' /\ DebtsOK /\ [Next]_vars => DebtsOK'
  <2> SUFFICES ASSUME FInv, FInv', DebtsOK, [Next]_vars PROVE DebtsOK'
    OBVIOUS
  <2>1. ASSUME UNCHANGED schedVars PROVE DebtsOK'
    <3> SUFFICES ASSUME NEW c \in Class, weight'[c] # 0 PROVE DebtOK(c)'
      BY DEF DebtsOK
    <3>1. /\ UNCHANGED <<weight, vruntime, has_entry, ready_, min_vruntime_, dispatched>>
          /\ InFlight(c)' = InFlight(c) /\ Entries(ready_)' = Entries(ready_)
      BY <2>1 DEF schedVars, classVars, InFlight, Entries
    <3>2. min_vruntime_ \in Nat
      BY DEF FInv, TypeOK
    <3> QED
      BY <3>1, <3>2, DebtKept DEF DebtsOK
  <2> QED
    BY <2>1, RegisterDebt, SubmitDebt, DispatchDebt, AccountDebt
       DEF Next, WorkerNext, SubmitRest, NothingReady, NoneFound, Halted, vars
<1> QED
  BY <1>1, <1>2, Inductive, PTL DEF Spec

\* The entries of the properties are the ones of the invariant.
LEMMA ReadyEntries ==
  ASSUME FInv, NEW n \in DOMAIN ready_
  PROVE  /\ ready_[n] \in Entries(ready_) /\ ready_[n][1] \in Nat /\ ready_[n][2] \in Class
         /\ weight[ready_[n][2]] \in Nat \ {0}
<1>1. ready_[n] \in Entries(ready_) /\ ready_[n] \in Nat \X Class
  BY ElementOfSeq DEF FInv, TypeOK, Entries
<1>2. ready_[n][1] \in Nat /\ ready_[n][2] \in Class
  BY <1>1
<1> QED
  BY <1>1, <1>2 DEF FInv, TypeOK, FlagsOK, HandsOK

(***************************************************************************)
(* include/wss/fair_scheduler.hpp, 37-41, for any number of workers: an    *)
(* entry of the multimap is never more than num_workers tasks behind its   *)
(* class's vruntime, those still in flight included.                       *)
(***************************************************************************)
THEOREM StalenessBounded == Spec => []BoundedStaleness
<1>1. FInv /\ DebtsOK => BoundedStaleness
  <2> SUFFICES ASSUME FInv, DebtsOK, NEW n \in DOMAIN ready_
               PROVE  Debt(ready_[n][2]) <= ready_[n][1] + Room(ready_[n][2])
    BY DEF BoundedStaleness, Debt, Room
  <2> QED
    BY ReadyEntries DEF DebtsOK, DebtOK
<1> QED
  BY <1>1, Inductive, DebtInductive, PTL

(***************************************************************************)
(* Neither the entry of a class nor, while it has none, the vruntime it    *)
(* can come back with is more than num_workers + 1 of its tasks ahead of   *)
(* the floor: a class that returns from an idle time is not made to wait   *)
(* for more than it was ahead when it went.                                *)
(***************************************************************************)
THEOREM LagBounded == Spec => []BoundedLag
<1>1. FInv /\ DebtsOK => BoundedLag
  <2> SUFFICES ASSUME FInv, DebtsOK, NEW c \in Class, weight[c] # 0
               PROVE  LET ceiling == min_vruntime_ + (num_workers + 1) * MaxShare(c)
                      IN  /\ \A n \in EntriesOf(c) : ready_[n][1] <= ceiling
                          /\ ~has_entry[c] => Debt(c) <= ceiling
    BY DEF BoundedLag, Debt
  <2> DEFINE M == MaxShare(c)
  <2>1. min_vruntime_ \in Nat /\ M \in Nat
    BY ShareBounds DEF MaxShare, FInv, TypeOK
  <2>2. DebtOK(c)
    BY DEF DebtsOK
  <2>3. Room(c) = num_workers * M
    BY DEF Room
  <2> HIDE DEF M
  <2>4. min_vruntime_ + num_workers * M + M = min_vruntime_ + (num_workers + 1) * M
    <3>1. num_workers * M \in Nat /\ (num_workers + 1) * M = num_workers * M + M
      BY <2>1, WorkersAssumption
    <3> QED
      BY <2>1, <3>1
  <2>5. ASSUME NEW n \in EntriesOf(c)
        PROVE  ready_[n][1] <= min_vruntime_ + num_workers * M + M
    <3>1. ready_[n] \in Entries(ready_) /\ ready_[n][2] = c
      BY ReadyEntries DEF EntriesOf
    <3> QED
      BY <2>2, <2>3, <3>1 DEF DebtOK, M
  <2>6. ~has_entry[c] => Debt(c) <= min_vruntime_ + num_workers * M + M
    BY <2>2, <2>3 DEF DebtOK, M
  <2> QED
    BY <2>4, <2>5, <2>6 DEF M
<1> QED
  BY <1>1, Inductive, DebtInductive, PTL

=============================================================================
