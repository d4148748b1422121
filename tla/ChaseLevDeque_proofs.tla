------------------------ MODULE ChaseLevDeque_proofs ------------------------
(***************************************************************************)
(* Proofs about the deque on a machine that commits the owner's stores in  *)
(* program order.                                                          *)
(***************************************************************************)
EXTENDS ChaseLevDeque, FiniteSetTheorems, SequenceTheorems, WellFoundedInduction, TLAPS

-----------------------------------------------------------------------------
(***************************************************************************)
(* Slots.                                                                  *)
(***************************************************************************)

\* An index is somewhere in a buffer of c slots.
LEMMA ModRange ==
  ASSUME NEW c \in Nat \ {0}, NEW i \in Nat
  PROVE  i % c \in 0 .. (c - 1)
OBVIOUS

\* Two indices less than c apart do not share a slot.
LEMMA ModApart ==
  ASSUME NEW c \in Nat \ {0}, NEW i \in Nat, NEW j \in Nat, i < j, j - i < c
  PROVE  i % c # j % c
<1>1. i % c = i - (i \div c) * c
  BY Z3
<1>2. j % c = j - (j \div c) * c
  BY Z3
<1>3. (i \div c) \in Int /\ (j \div c) \in Int
  OBVIOUS
<1>4. \A p, q \in Int : i - p * c # j - q * c
  <2> TAKE p, q \in Int
  <2> SUFFICES ASSUME i - p * c = j - q * c PROVE FALSE
    OBVIOUS
  <2>1. p * c \in Int /\ q * c \in Int
    OBVIOUS
  <2>2. j - i = q * c - p * c
    BY <2>1
  <2>3. q * c - p * c = (q - p) * c
    OBVIOUS
  <2>4. q - p <= 0 => (q - p) * c <= 0
    OBVIOUS
  <2>5. q - p >= 1 => (q - p) * c >= c
    OBVIOUS
  <2> QED
    BY <2>1, <2>2, <2>3, <2>4, <2>5
<1> QED
  BY <1>1, <1>2, <1>3, <1>4

\* A slot is a location, and different from bottom_ and buffer_.
LEMMA SlotLoc ==
  ASSUME NEW k \in Buffer, NEW i \in Nat
  PROVE  Slot(k, i) \in Location /\ Slot(k, i) # bottom_ /\ Slot(k, i) # buffer_
<1>1. Capacity(k) \in Nat \ {0}
  BY CapacityAssumption
<1>2. i % Capacity(k) \in 0 .. (Capacity(k) - 1)
  BY <1>1, ModRange
<1>3. (i % Capacity(k)) % Capacity(k) = i % Capacity(k)
  BY <1>1, <1>2
<1>4. Slot(k, i) = Slot(k, i % Capacity(k))
  BY <1>3 DEF Slot
<1>5. Slot(k, i) \in Location
  BY <1>2, <1>4 DEF Location
<1> QED
  BY <1>5 DEF Slot, bottom_, buffer_

\* Slots of different buffers, and of indices that are close together, differ.
LEMMA SlotApart ==
  ASSUME NEW k \in Buffer, NEW h \in Buffer, NEW i \in Nat, NEW j \in Nat,
         k # h \/ (i < j /\ j - i < Capacity(k)) \/ (j < i /\ i - j < Capacity(k))
  PROVE  Slot(k, i) # Slot(h, j)
<1>1. CASE k # h
  BY <1>1 DEF Slot
<1>2. CASE k = h
  <2>1. i % Capacity(k) # j % Capacity(k)
    BY <1>2, ModApart, CapacityAssumption
  <2> QED
    BY <1>2, <2>1 DEF Slot
<1> QED
  BY <1>1, <1>2

\* The owner's variables are locations, and not the same one.
LEMMA PlainLoc == bottom_ \in Location /\ buffer_ \in Location /\ bottom_ # buffer_
BY DEF Location, bottom_, buffer_

-----------------------------------------------------------------------------
(***************************************************************************)
(* The store buffer.  Sees(q, M, m, l, v): location l shows v once the     *)
(* first m stores of q have been committed to the memory M.                *)
(***************************************************************************)
Sees(q, M, m, l, v) ==
  \/ M[l] = v /\ \A n \in 1 .. m : q[n].loc # l
  \/ \E n \in 1 .. m : /\ q[n].loc = l /\ q[n].val = v
                       /\ \A x \in (n + 1) .. m : q[x].loc # l

\* Of the stores m + 1 to p some are to l, and one of those is the last.
Writes(q, m, p, l) == \E n \in (m + 1) .. p : q[n].loc = l
Final(q, p, l, n) == q[n].loc = l /\ \A x \in (n + 1) .. p : q[x].loc # l

\* Of some stores to l one is the last.
LEMMA LastOf ==
  ASSUME NEW q, NEW m \in Nat, NEW p \in Nat, NEW l, Writes(q, m, p, l)
  PROVE  \E n \in (m + 1) .. p : Final(q, p, l, n)
<1> USE DEF Writes, Final
<1> DEFINE T == {d \in 0 .. p : p - d \in (m + 1) .. p /\ q[p - d].loc = l}
<1>1. T \in SUBSET Nat
  OBVIOUS
<1>2. T # {}
  <2>1. PICK n \in (m + 1) .. p : q[n].loc = l
    OBVIOUS
  <2>2. p - n \in 0 .. p /\ p - (p - n) = n
    OBVIOUS
  <2>3. p - n \in T
    BY <2>1, <2>2
  <2> QED
    BY <2>3
<1>3. PICK d \in T : \A e \in T : d <= e
  <2>1. PICK d \in T : \A e \in T : ~(<<e, d>> \in OpToRel(<, Nat))
    BY <1>1, <1>2, NatLessThanWellFounded, WFMin, Zenon
  <2>2. \A e \in T : ~(e < d)
    BY <1>1, <2>1 DEF OpToRel
  <2> QED
    BY <1>1, <2>2
<1>4. p - d \in (m + 1) .. p /\ q[p - d].loc = l /\ d \in 0 .. p
  BY <1>3
<1>5. ASSUME NEW x \in ((p - d) + 1) .. p PROVE q[x].loc # l
  <2>1. p - x \in 0 .. p /\ p - (p - x) = x /\ p - x < d /\ x \in (m + 1) .. p
    BY <1>4
  <2>2. p - x \notin T
    BY <1>3, <1>4, <2>1
  <2> QED
    BY <2>1, <2>2
<1> QED
  BY <1>4, <1>5

\* A location shows one value.
LEMMA SeesOne ==
  ASSUME NEW q, NEW M, NEW m \in Nat, NEW l, NEW v, NEW w,
         Sees(q, M, m, l, v), Sees(q, M, m, l, w)
  PROVE  v = w
<1>1. CASE \A n \in 1 .. m : q[n].loc # l
  BY <1>1 DEF Sees
<1>2. CASE \E n \in 1 .. m : q[n].loc = l
  <2>1. PICK n \in 1 .. m : /\ q[n].loc = l /\ q[n].val = v
                            /\ \A x \in (n + 1) .. m : q[x].loc # l
    BY <1>2 DEF Sees
  <2>2. PICK p \in 1 .. m : /\ q[p].loc = l /\ q[p].val = w
                            /\ \A x \in (p + 1) .. m : q[x].loc # l
    BY <1>2 DEF Sees
  <2>3. n = p
    BY <2>1, <2>2
  <2> QED
    BY <2>1, <2>2, <2>3
<1> QED
  BY <1>1, <1>2

\* The memory is what shows before any store is committed.
LEMMA SeesNow ==
  ASSUME NEW q, NEW M, NEW l, NEW v
  PROVE  Sees(q, M, 0, l, v) <=> M[l] = v
BY DEF Sees

\* Only the first m stores matter.
LEMMA SeesPrefix ==
  ASSUME NEW q, NEW r, NEW M, NEW m \in Nat, NEW l, NEW v,
         \A n \in 1 .. m : q[n] = r[n]
  PROVE  Sees(q, M, m, l, v) <=> Sees(r, M, m, l, v)
<1>1. ASSUME Sees(q, M, m, l, v) PROVE Sees(r, M, m, l, v)
  <2>1. CASE M[l] = v /\ \A n \in 1 .. m : q[n].loc # l
    BY <2>1 DEF Sees
  <2>2. ASSUME NEW n \in 1 .. m, q[n].loc = l, q[n].val = v,
               \A x \in (n + 1) .. m : q[x].loc # l
        PROVE  Sees(r, M, m, l, v)
    <3>1. \A x \in (n + 1) .. m : r[x].loc # l
      BY <2>2
    <3> QED
      BY <2>2, <3>1 DEF Sees
  <2> QED
    BY <1>1, <2>1, <2>2 DEF Sees
<1>2. ASSUME Sees(r, M, m, l, v) PROVE Sees(q, M, m, l, v)
  <2>1. CASE M[l] = v /\ \A n \in 1 .. m : r[n].loc # l
    BY <2>1 DEF Sees
  <2>2. ASSUME NEW n \in 1 .. m, r[n].loc = l, r[n].val = v,
               \A x \in (n + 1) .. m : r[x].loc # l
        PROVE  Sees(q, M, m, l, v)
    <3>1. \A x \in (n + 1) .. m : q[x].loc # l
      BY <2>2
    <3> QED
      BY <2>2, <3>1 DEF Sees
  <2> QED
    BY <1>2, <2>1, <2>2 DEF Sees
<1> QED
  BY <1>1, <1>2

\* Stores of v, and stores elsewhere, leave v where it shows.
LEMMA SeesOn ==
  ASSUME NEW q, NEW M, NEW m \in Nat, NEW p \in Nat, m <= p, NEW l, NEW v,
         Sees(q, M, m, l, v),
         \A n \in (m + 1) .. p : q[n].loc = l => q[n].val = v
  PROVE  Sees(q, M, p, l, v)
<1>1. CASE \A n \in (m + 1) .. p : q[n].loc # l
  <2>1. CASE M[l] = v /\ \A n \in 1 .. m : q[n].loc # l
    <3>1. \A n \in 1 .. p : q[n].loc # l
      BY <1>1, <2>1
    <3> QED
      BY <2>1, <3>1 DEF Sees
  <2>2. ASSUME NEW n \in 1 .. m, q[n].loc = l, q[n].val = v,
               \A x \in (n + 1) .. m : q[x].loc # l
        PROVE  Sees(q, M, p, l, v)
    <3>1. n \in 1 .. p /\ \A x \in (n + 1) .. p : q[x].loc # l
      BY <1>1, <2>2
    <3> QED
      BY <2>2, <3>1 DEF Sees
  <2> QED
    BY <2>1, <2>2 DEF Sees
<1>2. CASE \E n \in (m + 1) .. p : q[n].loc = l
  <2>0. Writes(q, m, p, l)
    BY <1>2 DEF Writes
  <2>1. PICK n \in (m + 1) .. p : q[n].loc = l /\ \A x \in (n + 1) .. p : q[x].loc # l
    BY <2>0, LastOf DEF Final
  <2>2. n \in 1 .. p /\ q[n].val = v
    BY <2>1
  <2>3. \E x \in 1 .. p : /\ q[x].loc = l /\ q[x].val = v
                         /\ \A y \in (x + 1) .. p : q[y].loc # l
    BY <2>1, <2>2, Zenon
  <2> QED
    BY <2>3 DEF Sees
<1> QED
  BY <1>1, <1>2

\* What the last of some stores to l brings shows after them.
LEMMA SeesHit ==
  ASSUME NEW q, NEW M, NEW m \in Nat, NEW n \in 1 .. m, NEW l, NEW v,
         q[n].loc = l, q[n].val = v,
         \A x \in (n + 1) .. m : q[x].loc = l => q[x].val = v
  PROVE  Sees(q, M, m, l, v)
<1>1. n \in Nat /\ n <= m
  OBVIOUS
<1>2. Sees(q, M, n, l, v)
  BY <1>1 DEF Sees
<1> QED
  BY <1>1, <1>2, SeesOn

\* Committing the oldest store changes what shows later in no way.
LEMMA SeesCommit ==
  ASSUME NEW q \in Seq(Store), q # << >>, NEW M \in [Location -> Int],
         NEW m \in 0 .. (Len(q) - 1), NEW l \in Location, NEW v
  PROVE  Sees(Tail(q), [M EXCEPT ![q[1].loc] = q[1].val], m, l, v) <=> Sees(q, M, m + 1, l, v)
<1> DEFINE r == Tail(q)
           N == [M EXCEPT ![q[1].loc] = q[1].val]
<1>1. \A n \in 1 .. m : r[n] = q[n + 1]
  OBVIOUS
<1>2. N[l] = IF q[1].loc = l THEN q[1].val ELSE M[l]
  OBVIOUS
<1> HIDE DEF r, N
<1>3. ASSUME Sees(r, N, m, l, v) PROVE Sees(q, M, m + 1, l, v)
  <2>1. CASE N[l] = v /\ \A n \in 1 .. m : r[n].loc # l
    <3>1. \A n \in 2 .. (m + 1) : q[n].loc # l
      <4> TAKE n \in 2 .. (m + 1)
      <4>1. n - 1 \in 1 .. m /\ (n - 1) + 1 = n
        OBVIOUS
      <4> QED
        BY <1>1, <2>1, <4>1
    <3>2. CASE q[1].loc = l
      <4>1. 1 \in 1 .. (m + 1) /\ q[1].val = v
        BY <1>2, <2>1, <3>2
      <4> QED
        BY <3>1, <3>2, <4>1 DEF Sees
    <3>3. CASE q[1].loc # l
      <4>1. M[l] = v /\ \A n \in 1 .. (m + 1) : q[n].loc # l
        BY <1>2, <2>1, <3>1, <3>3
      <4> QED
        BY <4>1 DEF Sees
    <3> QED
      BY <3>2, <3>3
  <2>2. ASSUME NEW n \in 1 .. m, r[n].loc = l, r[n].val = v,
               \A x \in (n + 1) .. m : r[x].loc # l
        PROVE  Sees(q, M, m + 1, l, v)
    <3>1. n + 1 \in 1 .. (m + 1) /\ q[n + 1].loc = l /\ q[n + 1].val = v
      BY <1>1, <2>2
    <3>2. \A x \in ((n + 1) + 1) .. (m + 1) : q[x].loc # l
      <4> TAKE x \in ((n + 1) + 1) .. (m + 1)
      <4>1. x - 1 \in (n + 1) .. m /\ x - 1 \in 1 .. m /\ (x - 1) + 1 = x
        OBVIOUS
      <4> QED
        BY <1>1, <2>2, <4>1
    <3> QED
      BY <3>1, <3>2 DEF Sees
  <2> QED
    BY <1>3, <2>1, <2>2 DEF Sees
<1>4. ASSUME Sees(q, M, m + 1, l, v) PROVE Sees(r, N, m, l, v)
  <2>1. CASE M[l] = v /\ \A n \in 1 .. (m + 1) : q[n].loc # l
    <3>1. 1 \in 1 .. (m + 1) /\ \A n \in 1 .. m : n + 1 \in 1 .. (m + 1)
      OBVIOUS
    <3>2. N[l] = v /\ \A n \in 1 .. m : r[n].loc # l
      BY <1>1, <1>2, <2>1, <3>1
    <3> QED
      BY <3>2 DEF Sees
  <2>2. ASSUME NEW n \in 1 .. (m + 1), q[n].loc = l, q[n].val = v,
               \A x \in (n + 1) .. (m + 1) : q[x].loc # l
        PROVE  Sees(r, N, m, l, v)
    <3>1. CASE n = 1
      <4>1. \A x \in 1 .. m : x + 1 \in (n + 1) .. (m + 1)
        BY <3>1
      <4>2. N[l] = v /\ \A x \in 1 .. m : r[x].loc # l
        BY <1>1, <1>2, <2>2, <3>1, <4>1
      <4> QED
        BY <4>2 DEF Sees
    <3>2. CASE n # 1
      <4>1. n - 1 \in 1 .. m /\ (n - 1) + 1 = n
        BY <3>2
      <4>2. r[n - 1].loc = l /\ r[n - 1].val = v
        BY <1>1, <2>2, <4>1
      <4>3. \A x \in ((n - 1) + 1) .. m : x + 1 \in (n + 1) .. (m + 1) /\ x \in 1 .. m
        BY <4>1
      <4>4. \A x \in ((n - 1) + 1) .. m : r[x].loc # l
        BY <1>1, <2>2, <4>3
      <4> QED
        BY <4>1, <4>2, <4>4 DEF Sees
    <3> QED
      BY <3>1, <3>2
  <2> QED
    BY <1>4, <2>1, <2>2 DEF Sees
<1> QED
  BY <1>3, <1>4 DEF r, N

\* OwnView, for any memory and store buffer.
Latest(q, M, l) ==
  LET mine == {n \in DOMAIN q : q[n].loc = l}
  IN  IF mine = {} THEN M[l]
      ELSE q[CHOOSE n \in mine : \A m \in mine : m <= n].val

\* The owner sees what will show when all its stores have been committed.
LEMMA LatestSees ==
  ASSUME NEW q \in Seq(Store), NEW M, NEW l
  PROVE  Sees(q, M, Len(q), l, Latest(q, M, l))
<1> DEFINE mine == {n \in DOMAIN q : q[n].loc = l}
<1>1. Len(q) \in Nat /\ DOMAIN q = 1 .. Len(q)
  OBVIOUS
<1>2. CASE mine = {}
  <2>1. Latest(q, M, l) = M[l]
    BY <1>2 DEF Latest
  <2> QED
    BY <1>1, <1>2, <2>1 DEF Sees
<1>3. CASE mine # {}
  <2>1. Writes(q, 0, Len(q), l)
    BY <1>1, <1>3 DEF Writes
  <2>2. PICK p \in 1 .. Len(q) : Final(q, Len(q), l, p)
    <3>1. \E p \in (0 + 1) .. Len(q) : Final(q, Len(q), l, p)
      BY <1>1, <2>1, LastOf
    <3> QED  BY <3>1
  <2>3. p \in mine
    BY <1>1, <2>2 DEF Final
  <2>4. \A m \in mine : m <= p
    <3> TAKE m \in mine
    <3>1. m \in 1 .. Len(q) /\ q[m].loc = l
      BY <1>1
    <3> QED
      BY <1>1, <2>2, <3>1 DEF Final
  <2> DEFINE c == CHOOSE n \in mine : \A m \in mine : m <= n
  <2>5. c \in mine /\ \A m \in mine : m <= c
    BY <2>3, <2>4
  <2>6. c = p
    <3>1. c \in Nat /\ c <= p /\ p <= c
      BY <1>1, <2>3, <2>4, <2>5
    <3> QED  BY <3>1
  <2>7. Latest(q, M, l) = q[p].val
    BY <1>3, <2>6 DEF Latest
  <2> QED
    BY <2>2, <2>7 DEF Final, Sees
<1> QED
  BY <1>2, <1>3

\* And it sees nothing else.
LEMMA LatestOnly ==
  ASSUME NEW q \in Seq(Store), NEW M, NEW l, NEW v, Sees(q, M, Len(q), l, v)
  PROVE  Latest(q, M, l) = v
<1>1. Len(q) \in Nat
  OBVIOUS
<1> QED
  BY <1>1, LatestSees, SeesOne

\* Committing the oldest store does not change what the owner sees.
LEMMA LatestCommit ==
  ASSUME NEW q \in Seq(Store), q # << >>, NEW M \in [Location -> Int], NEW l \in Location
  PROVE  Latest(Tail(q), [M EXCEPT ![q[1].loc] = q[1].val], l) = Latest(q, M, l)
<1>1. Tail(q) \in Seq(Store) /\ Len(Tail(q)) = Len(q) - 1 /\ Len(q) - 1 \in 0 .. (Len(q) - 1)
  OBVIOUS
<1>2. Sees(q, M, (Len(q) - 1) + 1, l, Latest(q, M, l))
  <2>1. (Len(q) - 1) + 1 = Len(q)
    BY <1>1
  <2> QED
    BY <2>1, LatestSees
<1>3. Sees(Tail(q), [M EXCEPT ![q[1].loc] = q[1].val], Len(q) - 1, l, Latest(q, M, l))
  BY <1>1, <1>2, SeesCommit
<1> QED
  BY <1>1, <1>3, LatestOnly

\* With nothing pending the owner sees the memory.
LEMMA LatestEmpty ==
  ASSUME NEW M, NEW l
  PROVE  Latest(<< >>, M, l) = M[l]
BY DEF Latest

\* Stores elsewhere do not change what the owner sees.
LEMMA LatestAppend ==
  ASSUME NEW q \in Seq(Store), NEW st \in Store, NEW M, NEW l
  PROVE  Latest(Append(q, st), M, l) = IF st.loc = l THEN st.val ELSE Latest(q, M, l)
<1> DEFINE r == Append(q, st)
           v == IF st.loc = l THEN st.val ELSE Latest(q, M, l)
<1>1. /\ r \in Seq(Store) /\ Len(r) = Len(q) + 1 /\ Len(q) \in Nat
      /\ r[Len(q) + 1] = st /\ \A n \in 1 .. Len(q) : q[n] = r[n]
  OBVIOUS
<1> HIDE DEF r
<1>2. Sees(r, M, Len(r), l, v)
  <2>1. CASE st.loc = l
    <3>1. Len(q) + 1 \in 1 .. Len(r) /\ \A x \in ((Len(q) + 1) + 1) .. Len(r) : FALSE
      BY <1>1
    <3> QED
      BY <1>1, <2>1, <3>1 DEF Sees
  <2>2. CASE st.loc # l
    <3>1. Sees(q, M, Len(q), l, v)
      BY <2>2, LatestSees
    <3>2. Sees(r, M, Len(q), l, v)
      BY <1>1, <3>1, SeesPrefix
    <3>3. \A n \in (Len(q) + 1) .. Len(r) : r[n].loc # l
      BY <1>1, <2>2
    <3> QED
      BY <1>1, <3>2, <3>3, SeesOn
  <2> QED
    BY <2>1, <2>2
<1> QED
  BY <1>1, <1>2, LatestOnly DEF r

-----------------------------------------------------------------------------
(***************************************************************************)
(* The invariant.                                                          *)
(***************************************************************************)
Shows(m, l, v) == Sees(stores, mem, m, l, v)

\* The owner's buffer, the item at an index, and the indices in use.
Own == OwnView(buffer_)
At(i) == OwnView(Slot(Own, i))
Window == top .. (b - 1)

BoundsOK ==
  /\ top <= b /\ b < next
  /\ Own \in Buffer /\ b - top <= Capacity(Own)
  /\ opc = "cas" => oldTop = b - 1 /\ oldTop <= top
  /\ \A s \in Stealer : t[s] <= top /\ (spc[s] = "slot" => buf[s] \in Buffer)

\* What the owner has stored in a location.
InRange(l, v, bot, nxt) ==
  /\ l = bottom_ => v <= bot
  /\ l = buffer_ => v \in Buffer
  /\ l \notin {bottom_, buffer_} => v \in 0 .. (nxt - 1)

ValuesOK ==
  /\ OwnView(bottom_) = IF opc = "fence" THEN b - 1 ELSE b
  /\ \A l \in Location : InRange(l, mem[l], b, next)
  /\ \A n \in DOMAIN stores : InRange(stores[n].loc, stores[n].val, b, next)

\* A slot that shows the item of an index goes on showing it.
Kept ==
  \A k \in Buffer : \A i \in Window : \A m \in 0 .. Len(stores) : \A p \in m .. Len(stores) :
    Shows(m, Slot(k, i), At(i)) => Shows(p, Slot(k, i), At(i))

\* The buffer that shows has the item of index i.
Good(m, i) == \E k \in Buffer : Shows(m, buffer_, k) /\ Shows(m, Slot(k, i), At(i))

\* An index below the bottom_ that shows has its item in place, from then on.
Published ==
  \A i \in Window : \A m \in 0 .. Len(stores) : \A v \in Int :
    Shows(m, bottom_, v) /\ i < v => \A p \in m .. Len(stores) : Good(p, i)

\* What a thief that may still win has read.
ThiefOK ==
  \A s \in Stealer, i \in Nat : t[s] = i /\ top = i =>
    /\ spc[s] \in {"buffer", "slot", "cas"} => i < b
    /\ spc[s] = "buffer" => \A m \in 0 .. Len(stores) : Good(m, i)
    /\ spc[s] = "slot" => mem[Slot(buf[s], i)] = At(i)
    /\ spc[s] = "cas" => ptr[s] = At(i)

\* Every item that was pushed is at one index or has been handed out.
Partition ==
  /\ \A i, j \in Window : At(i) = At(j) => i = j
  /\ {At(i) : i \in Window} \cup taken = 1 .. (next - 1)
  /\ {At(i) : i \in Window} \cap taken = {}

DequeInv ==
  /\ TypeOK /\ BoundsOK /\ ValuesOK /\ Kept /\ Published /\ ThiefOK /\ Partition

\* OwnView is Latest of the present memory and store buffer.
LEMMA ViewIs == \A l : OwnView(l) = Latest(stores, mem, l)
BY DEF OwnView, Latest

\* A store that is well formed.
LEMMA StoreIs ==
  ASSUME NEW l \in Location, NEW v \in Int
  PROVE  /\ Relaxed(l, v) \in Store /\ Release(l, v) \in Store
         /\ Relaxed(l, v).loc = l /\ Relaxed(l, v).val = v
         /\ Release(l, v).loc = l /\ Release(l, v).val = v
BY DEF Relaxed, Release, Store

\* In the owner's own view every index in use has its item.
LEMMA OwnGood ==
  ASSUME TypeOK, BoundsOK, NEW i
  PROVE  Good(Len(stores), i)
<1>1. Shows(Len(stores), buffer_, Own) /\ Shows(Len(stores), Slot(Own, i), At(i))
  BY ViewIs, LatestSees DEF TypeOK, Shows, Own, At
<1> QED
  BY <1>1 DEF Good, BoundsOK

\* An item is a number.
LEMMA ItemIs ==
  ASSUME TypeOK, BoundsOK, Partition, NEW i \in Window
  PROVE  /\ i \in Nat /\ At(i) \in 1 .. (next - 1) /\ At(i) \notin taken
         /\ At(i) \in Item
<1>1. i \in Nat
  BY DEF Window, TypeOK
<1>2. At(i) \in {At(j) : j \in Window}
  OBVIOUS
<1>3. At(i) \in 1 .. (next - 1) /\ At(i) \notin taken
  BY <1>2 DEF Partition
<1> QED
  BY <1>1, <1>3, DequeAssumption DEF Item, TypeOK

\* Steps that leave the stores alone leave the views alone.
LEMMA SameViews ==
  ASSUME UNCHANGED <<stores, mem>>
  PROVE  /\ \A l : OwnView(l)' = OwnView(l)
         /\ Own' = Own
         /\ \A i : At(i)' = At(i)
         /\ \A m, l, v : Shows(m, l, v)' <=> Shows(m, l, v)
         /\ \A m, i : Good(m, i)' <=> Good(m, i)
<1>1. \A l : OwnView(l)' = OwnView(l)
  BY DEF OwnView
<1>2. Own' = Own
  BY <1>1 DEF Own
<1>3. \A i : At(i)' = At(i)
  BY <1>1, <1>2 DEF At
<1>4. \A m, l, v : Shows(m, l, v)' <=> Shows(m, l, v)
  BY DEF Shows
<1>5. \A m, i : Good(m, i)' <=> Good(m, i)
  BY <1>3, <1>4 DEF Good
<1> QED
  BY <1>1, <1>2, <1>3, <1>4, <1>5

\* Steps that change bottom_ only leave the items alone.
LEMMA SameItems ==
  ASSUME BoundsOK, \A l \in Location : l # bottom_ => OwnView(l)' = OwnView(l)
  PROVE  Own' = Own /\ Own \in Buffer /\ \A i \in Nat : At(i)' = At(i)
<1>1. Own' = Own /\ Own \in Buffer
  BY PlainLoc DEF Own, BoundsOK
<1>2. ASSUME NEW i \in Nat PROVE At(i)' = At(i)
  <2>1. Slot(Own, i) \in Location /\ Slot(Own, i) # bottom_
    BY <1>1, SlotLoc
  <2> QED
    BY <1>1, <2>1 DEF At
<1> QED
  BY <1>1, <1>2

\* Steps that leave the stores alone do not disturb what the window shows, if the window does not grow.
LEMMA SameKept ==
  ASSUME Kept, Published, UNCHANGED <<stores, mem>>, Window' \subseteq Window
  PROVE  Kept' /\ Published'
<1>1. /\ \A i : At(i)' = At(i)
      /\ \A m, l, v : Shows(m, l, v)' <=> Shows(m, l, v)
      /\ \A m, i : Good(m, i)' <=> Good(m, i)
  BY SameViews
<1>2. Kept'
  BY <1>1 DEF Kept
<1>3. Published'
  BY <1>1 DEF Published
<1> QED
  BY <1>2, <1>3

-----------------------------------------------------------------------------
(***************************************************************************)
(* A thief's steps.                                                        *)
(***************************************************************************)

\* What a step of the thief s leaves alone.
ThiefFrame(s) ==
  /\ UNCHANGED <<mem, stores, b, opc, oldTop, next>>
  /\ \A r \in Stealer : r # s =>
       spc'[r] = spc[r] /\ t'[r] = t[r] /\ buf'[r] = buf[r] /\ ptr'[r] = ptr[r]

\* The invariant after a step of s that takes nothing, from what s has read.
LEMMA ThiefStep ==
  ASSUME DequeInv, TypeOK', NEW s \in Stealer, ThiefFrame(s), UNCHANGED <<top, taken>>,
         t'[s] <= top, spc'[s] = "slot" => buf'[s] \in Buffer,
         \A i \in Nat : t'[s] = i /\ top = i =>
           /\ spc'[s] \in {"buffer", "slot", "cas"} => i < b
           /\ spc'[s] = "buffer" => \A m \in 0 .. Len(stores) : Good(m, i)
           /\ spc'[s] = "slot" => mem[Slot(buf'[s], i)] = At(i)
           /\ spc'[s] = "cas" => ptr'[s] = At(i)
  PROVE  DequeInv'
<1> USE DEF DequeInv, ThiefFrame
<1>1. /\ \A l : OwnView(l)' = OwnView(l)
      /\ Own' = Own
      /\ \A i : At(i)' = At(i)
      /\ \A m, i : Good(m, i)' <=> Good(m, i)
  BY SameViews
<1>2. Window' = Window
  BY DEF Window
<1>3. BoundsOK'
  BY <1>1 DEF BoundsOK
<1>4. ValuesOK'
  BY <1>1 DEF ValuesOK, InRange
<1>5. Kept' /\ Published'
  BY <1>2, SameKept
<1>6. Partition'
  BY <1>1, <1>2 DEF Partition
<1>7. ASSUME NEW r \in Stealer, NEW i \in Nat, t'[r] = i, top' = i
      PROVE  /\ spc'[r] \in {"buffer", "slot", "cas"} => i < b'
             /\ spc'[r] = "buffer" => \A m \in 0 .. Len(stores') : Good(m, i)'
             /\ spc'[r] = "slot" => mem'[Slot(buf'[r], i)] = At(i)'
             /\ spc'[r] = "cas" => ptr'[r] = At(i)'
  <2>1. CASE r = s
    BY <1>1, <1>7, <2>1
  <2>2. CASE r # s
    BY <1>1, <1>7, <2>2 DEF ThiefOK
  <2> QED
    BY <2>1, <2>2
<1>8. ThiefOK'
  BY <1>7 DEF ThiefOK
<1> HIDE DEF DequeInv
<1> QED
  BY <1>3, <1>4, <1>5, <1>6, <1>8 DEF DequeInv

\* The item at the front is handed out.
LEMMA TakeFront ==
  ASSUME DequeInv, TypeOK', top < b, top' = top + 1, taken' = taken \cup {At(top)},
         UNCHANGED <<mem, stores, b, next>>,
         \A r \in Stealer : t'[r] <= top /\ (spc'[r] = "slot" => buf'[r] \in Buffer),
         opc' = "cas" => oldTop' = b - 1 /\ oldTop' <= top,
         opc' = "fence" <=> opc = "fence"
  PROVE  DequeInv'
<1> USE DEF DequeInv
<1>0. top \in Nat /\ b \in Nat /\ next \in Nat
  BY DequeAssumption DEF TypeOK
<1>1. /\ \A l : OwnView(l)' = OwnView(l)
      /\ Own' = Own
      /\ \A i : At(i)' = At(i)
  BY SameViews
<1>2. Window' = Window \ {top} /\ top \in Window
  BY <1>0 DEF Window
<1>3. BoundsOK'
  <2>1. Capacity(Own) \in Nat
    BY CapacityAssumption DEF BoundsOK
  <2>2. top' <= b' /\ b' < next' /\ Own' \in Buffer /\ b' - top' <= Capacity(Own')
    BY <1>0, <1>1, <2>1 DEF BoundsOK
  <2>3. \A r \in Stealer : t'[r] <= top'
    BY <1>0 DEF TypeOK
  <2>4. opc' = "cas" => oldTop' = b' - 1 /\ oldTop' <= top'
    BY <1>0 DEF TypeOK
  <2> QED
    BY <2>2, <2>3, <2>4 DEF BoundsOK
<1>4. ValuesOK'
  BY <1>1 DEF ValuesOK, InRange
<1>5. Kept' /\ Published'
  BY <1>2, SameKept
<1>6. ThiefOK'
  BY <1>0 DEF ThiefOK, TypeOK
<1>7. Partition'
  <2>1. \A i, j \in Window' : At(i)' = At(j)' => i = j
    BY <1>1, <1>2 DEF Partition
  <2>2. \A i \in Window : i # top => At(i) # At(top)
    BY <1>2 DEF Partition
  <2>3. {At(i)' : i \in Window'} = {At(i) : i \in Window} \ {At(top)}
    BY <1>1, <1>2, <2>2
  <2>4. At(top) \in {At(i) : i \in Window}
    BY <1>2
  <2>5. /\ {At(i) : i \in Window} \cup taken = 1 .. (next - 1)
        /\ {At(i) : i \in Window} \cap taken = {}
    BY DEF Partition
  <2>6. /\ {At(i)' : i \in Window'} \cup taken' = 1 .. (next' - 1)
        /\ {At(i)' : i \in Window'} \cap taken' = {}
    BY <2>3, <2>4, <2>5
  <2> QED
    BY <2>1, <2>6 DEF Partition
<1> HIDE DEF DequeInv
<1> QED
  BY <1>3, <1>4, <1>5, <1>6, <1>7 DEF DequeInv

\* steal() has returned.
LEMMA LeaveIs ==
  ASSUME TypeOK, NEW s \in Stealer, Leave(s)
  PROVE  /\ spc'[s] = "idle" /\ t'[s] = 0
         /\ \A r \in Stealer : r # s =>
              spc'[r] = spc[r] /\ t'[r] = t[r] /\ buf'[r] = buf[r] /\ ptr'[r] = ptr[r]
         /\ spc' \in [Stealer -> {"idle", "bottom", "buffer", "slot", "cas"}]
         /\ t' \in [Stealer -> 0 .. MaxItems]
         /\ buf' \in [Stealer -> {nullptr} \cup Buffer]
         /\ ptr' \in [Stealer -> {nullptr} \cup Item]
BY DequeAssumption DEF Leave, TypeOK, nullptr

\* Every step of a thief keeps the invariant.
LEMMA StealInv ==
  ASSUME DequeInv, NEW s \in Stealer, Steal(s)
  PROVE  DequeInv'
<1> USE DEF ownerVars
<1>0. TypeOK /\ BoundsOK /\ ValuesOK /\ Kept /\ Published /\ ThiefOK /\ Partition
  BY DEF DequeInv
<1>a. top \in Nat /\ b \in Nat /\ t[s] \in Nat /\ Len(stores) \in Nat /\ t[s] <= top
  BY <1>0, DequeAssumption DEF TypeOK, BoundsOK
<1>1. CASE StealTop(s)
  <2>1. TypeOK'
    BY <1>0, <1>1 DEF StealTop, TypeOK
  <2>2. ThiefFrame(s) /\ UNCHANGED <<top, taken>> /\ t'[s] = top /\ spc'[s] = "bottom"
    BY <1>0, <1>1 DEF StealTop, ThiefFrame, TypeOK
  <2> QED
    BY <1>a, <2>1, <2>2, ThiefStep
<1>2. CASE StealEmpty(s) \/ StealLose(s)
  <2>0. Leave(s) /\ UNCHANGED <<top, mem, ownerVars, taken, next>>
    BY <1>2 DEF StealEmpty, StealLose
  <2>1. TypeOK'
    BY <1>0, <2>0, LeaveIs DEF TypeOK
  <2>2. ThiefFrame(s) /\ UNCHANGED <<top, taken>> /\ t'[s] = 0 /\ spc'[s] = "idle"
    BY <1>0, <2>0, LeaveIs DEF ThiefFrame
  <2> QED
    BY <1>a, <2>1, <2>2, ThiefStep
<1>3. CASE StealBottom(s)
  <2>1. TypeOK'
    BY <1>0, <1>3 DEF StealBottom, TypeOK
  <2>2. /\ ThiefFrame(s) /\ UNCHANGED <<top, taken>> /\ t'[s] = t[s] /\ spc'[s] = "buffer"
        /\ t[s] < mem[bottom_] /\ mem[bottom_] \in Int
    BY <1>0, <1>3, <1>a, PlainLoc DEF StealBottom, SeesEmpty, ThiefFrame, TypeOK
  <2>3. mem[bottom_] <= b
    BY <1>0, PlainLoc DEF ValuesOK, InRange
  <2>4. ASSUME NEW i \in Nat, t'[s] = i, top = i
        PROVE  i < b /\ \A m \in 0 .. Len(stores) : Good(m, i)
    <3>1. i < mem[bottom_] /\ i < b
      BY <1>a, <2>2, <2>3, <2>4
    <3>2. i \in Window
      BY <1>a, <2>4, <3>1 DEF Window
    <3>3. Shows(0, bottom_, mem[bottom_])
      BY SeesNow DEF Shows
    <3>4. 0 \in 0 .. Len(stores)
      BY <1>a
    <3> QED
      BY <1>0, <2>2, <3>1, <3>2, <3>3, <3>4 DEF Published
  <2> QED
    BY <1>a, <2>1, <2>2, <2>4, ThiefStep
<1>4. CASE StealBuffer(s)
  <2>0. mem[buffer_] \in Buffer
    BY <1>0, PlainLoc DEF ValuesOK, InRange
  <2>1. TypeOK'
    BY <1>0, <1>4, <2>0 DEF StealBuffer, TypeOK
  <2>2. /\ ThiefFrame(s) /\ UNCHANGED <<top, taken>> /\ t'[s] = t[s]
        /\ spc[s] = "buffer" /\ spc'[s] = "slot" /\ buf'[s] = mem[buffer_]
    BY <1>0, <1>4 DEF StealBuffer, ThiefFrame, TypeOK
  <2>3. ASSUME NEW i \in Nat, t'[s] = i, top = i
        PROVE  i < b /\ mem[Slot(buf'[s], i)] = At(i)
    <3>1. i < b /\ Good(0, i)
      <4>1. t[s] = i /\ 0 \in 0 .. Len(stores)
        BY <1>a, <2>2, <2>3
      <4> QED
        BY <1>0, <2>2, <2>3, <4>1 DEF ThiefOK
    <3>2. PICK k \in Buffer : Shows(0, buffer_, k) /\ Shows(0, Slot(k, i), At(i))
      BY <3>1 DEF Good
    <3>3. mem[buffer_] = k /\ mem[Slot(k, i)] = At(i)
      BY <3>2, SeesNow DEF Shows
    <3> QED
      BY <2>2, <3>1, <3>3
  <2> QED
    BY <1>a, <2>0, <2>1, <2>2, <2>3, ThiefStep
<1>5. CASE StealSlot(s)
  <2>0. mem[Slot(buf[s], t[s])] \in {nullptr} \cup Item
    <3>1. buf[s] \in Buffer
      BY <1>0, <1>5 DEF StealSlot, BoundsOK
    <3>2. /\ Slot(buf[s], t[s]) \in Location
          /\ Slot(buf[s], t[s]) # bottom_ /\ Slot(buf[s], t[s]) # buffer_
      BY <1>a, <3>1, SlotLoc
    <3>3. mem[Slot(buf[s], t[s])] \in 0 .. (next - 1)
      BY <1>0, <3>2 DEF ValuesOK, InRange
    <3>4. next \in 1 .. (MaxItems + 1) /\ MaxItems \in Nat
      BY <1>0, DequeAssumption DEF TypeOK
    <3> QED
      BY <3>3, <3>4 DEF Item, nullptr
  <2>1. TypeOK'
    BY <1>0, <1>5, <2>0 DEF StealSlot, TypeOK
  <2>2. /\ ThiefFrame(s) /\ UNCHANGED <<top, taken>> /\ t'[s] = t[s]
        /\ spc[s] = "slot" /\ spc'[s] = "cas" /\ ptr'[s] = mem[Slot(buf[s], t[s])]
    BY <1>0, <1>5 DEF StealSlot, ThiefFrame, TypeOK
  <2>3. ASSUME NEW i \in Nat, t'[s] = i, top = i
        PROVE  i < b /\ ptr'[s] = At(i)
    BY <1>0, <2>2, <2>3 DEF ThiefOK
  <2> QED
    BY <1>a, <2>1, <2>2, <2>3, ThiefStep
<1>6. CASE StealWin(s)
  <2>1. /\ top' = top + 1 /\ Leave(s) /\ UNCHANGED <<mem, stores, b, opc, oldTop, next>>
        /\ spc[s] = "cas" /\ top = t[s]
        /\ taken' = IF ptr[s] = nullptr THEN taken ELSE taken \cup {ptr[s]}
    BY <1>6 DEF StealWin
  <2>2. top < b /\ ptr[s] = At(top)
    BY <1>0, <1>a, <2>1 DEF ThiefOK
  <2>3. top \in Window
    BY <1>a, <2>2 DEF Window
  <2>4. At(top) \in Item /\ At(top) # nullptr
    BY <1>0, <2>3, ItemIs DEF Item, nullptr
  <2>5. taken' = taken \cup {At(top)}
    BY <2>1, <2>2, <2>4
  <2>6. top' \in 0 .. MaxItems
    BY <1>0, <1>a, <2>1, <2>2, DequeAssumption DEF TypeOK
  <2>7. TypeOK'
    BY <1>0, <2>1, <2>4, <2>5, <2>6, LeaveIs DEF TypeOK
  <2>8. \A r \in Stealer : t'[r] <= top /\ (spc'[r] = "slot" => buf'[r] \in Buffer)
    <3> TAKE r \in Stealer
    <3>1. CASE r = s
      BY <1>0, <1>a, <2>1, <3>1, LeaveIs
    <3>2. CASE r # s
      BY <1>0, <2>1, <3>2, LeaveIs DEF BoundsOK
    <3> QED  BY <3>1, <3>2
  <2>9. opc' = "cas" => oldTop' = b - 1 /\ oldTop' <= top
    BY <1>0, <2>1 DEF BoundsOK
  <2> QED
    BY <2>1, <2>2, <2>5, <2>7, <2>8, <2>9, TakeFront
<1> QED
  BY <1>1, <1>2, <1>3, <1>4, <1>5, <1>6 DEF Steal

-----------------------------------------------------------------------------
(***************************************************************************)
(* pop().                                                                  *)
(***************************************************************************)

\* A store to bottom_ joins the pending ones.
LEMMA BottomViews ==
  ASSUME TypeOK, NEW v \in Int, NEW z, z = Len(stores), stores' = Append(stores, Relaxed(bottom_, v)), UNCHANGED mem
  PROVE  /\ stores' \in Seq(Store) /\ Len(stores') = z + 1 /\ z \in Nat
         /\ OwnView(bottom_)' = v
         /\ \A l : l # bottom_ => OwnView(l)' = OwnView(l)
         /\ \A m \in 0 .. z : \A l, w : Shows(m, l, w)' <=> Shows(m, l, w)
         /\ \A l, w : l # bottom_ => (Shows(z + 1, l, w)' <=> Shows(z, l, w))
<1> DEFINE st == Relaxed(bottom_, v)
           q == stores'
<1>1. st \in Store /\ st.loc = bottom_ /\ st.val = v
  BY PlainLoc, StoreIs
<1> HIDE DEF st
<1>2. stores \in Seq(Store) /\ z \in Nat /\ q = Append(stores, st)
  BY DEF TypeOK, st
<1>3. /\ q \in Seq(Store) /\ Len(q) = z + 1
      /\ q[z + 1] = st /\ \A n \in 1 .. z : stores[n] = q[n]
  BY <1>1, <1>2
<1>4. \A l : OwnView(l)' = Latest(q, mem, l)
  BY DEF OwnView, Latest
<1>5. \A l : OwnView(l)' = IF st.loc = l THEN st.val ELSE OwnView(l)
  BY <1>1, <1>2, <1>4, LatestAppend, ViewIs
<1>6. \A m, l, w : Shows(m, l, w)' <=> Sees(q, mem, m, l, w)
  BY DEF Shows
<1>7. ASSUME NEW m \in 0 .. z, NEW l, NEW w
      PROVE  Shows(m, l, w)' <=> Shows(m, l, w)
  <2>1. m \in Nat /\ \A n \in 1 .. m : stores[n] = q[n]
    BY <1>2, <1>3
  <2>2. Sees(stores, mem, m, l, w) <=> Sees(q, mem, m, l, w)
    BY <2>1, SeesPrefix
  <2> QED
    BY <1>6, <2>2 DEF Shows
<1>8. ASSUME NEW l, NEW w, l # bottom_
      PROVE  Shows(z + 1, l, w)' <=> Shows(z, l, w)
  <2>1. z \in 0 .. z
    BY <1>2
  <2>2. \A x : Shows(z, l, x) <=> Sees(q, mem, z, l, x)
    BY <1>6, <1>7, <2>1
  <2>3. \A n \in (z + 1) .. (z + 1) : q[n].loc # l
    BY <1>1, <1>2, <1>3, <1>8
  <2>4. ASSUME NEW x, Sees(q, mem, z, l, x)
        PROVE  Sees(q, mem, z + 1, l, x)
    <3>1. z + 1 \in Nat /\ z <= z + 1
      BY <1>2
    <3> QED
      BY <1>2, <2>3, <2>4, <3>1, SeesOn
  <2>5. Sees(q, mem, z, l, OwnView(l))
    <3>1. Sees(stores, mem, z, l, OwnView(l))
      BY <1>2, ViewIs, LatestSees
    <3> QED
      BY <2>2, <3>1 DEF Shows
  <2>6. ASSUME Sees(q, mem, z + 1, l, w) PROVE Sees(q, mem, z, l, w)
    <3>1. Sees(q, mem, z + 1, l, OwnView(l)) /\ z + 1 \in Nat
      BY <1>2, <2>4, <2>5
    <3>2. w = OwnView(l)
      BY <2>6, <3>1, SeesOne
    <3> QED
      BY <2>5, <3>2
  <2> QED
    BY <1>6, <2>2, <2>4, <2>6
<1> HIDE DEF q
<1>9. OwnView(bottom_)' = v /\ \A l : l # bottom_ => OwnView(l)' = OwnView(l)
  BY <1>1, <1>5
<1> QED
  BY <1>2, <1>3, <1>7, <1>8, <1>9 DEF q

\* The invariant after a store to bottom_.
LEMMA BottomStep ==
  ASSUME DequeInv, TypeOK', NEW v \in Int, stores' = Append(stores, Relaxed(bottom_, v)),
         UNCHANGED <<mem, top, b, next, taken, spc, t, buf, ptr>>,
         opc' = "cas" => oldTop' = b - 1 /\ oldTop' <= top,
         v = IF opc' = "fence" THEN b - 1 ELSE b
  PROVE  DequeInv'
<1>0. TypeOK /\ BoundsOK /\ ValuesOK /\ Kept /\ Published /\ ThiefOK /\ Partition
  BY DEF DequeInv
<1>z. PICK z : z = Len(stores)
  OBVIOUS
<1>1. /\ stores' \in Seq(Store) /\ Len(stores') = z + 1 /\ z \in Nat
      /\ OwnView(bottom_)' = v
      /\ \A l : l # bottom_ => OwnView(l)' = OwnView(l)
      /\ \A m \in 0 .. z : \A l, w : Shows(m, l, w)' <=> Shows(m, l, w)
      /\ \A l, w : l # bottom_ => (Shows(z + 1, l, w)' <=> Shows(z, l, w))
  BY <1>0, <1>z, BottomViews
<1>2. Own' = Own /\ Own \in Buffer
  BY <1>0, <1>1, SameItems
<1>3. Window' = Window /\ Window \subseteq Nat
  BY <1>0 DEF Window, TypeOK
<1>4. \A i \in Nat : At(i)' = At(i)
  BY <1>0, <1>1, SameItems
<1>5. BoundsOK'
  BY <1>0, <1>2 DEF BoundsOK
<1>6. ValuesOK'
  <2>2. v <= b
    BY <1>0 DEF TypeOK
  <2>3. InRange(bottom_, v, b, next)
    BY <2>2, PlainLoc DEF InRange
  <2>4. ASSUME NEW n \in DOMAIN stores' 
        PROVE  InRange(stores'[n].loc, stores'[n].val, b', next')
    <3>1. n \in 1 .. (z + 1) /\ stores \in Seq(Store) /\ DOMAIN stores = 1 .. z
      BY <1>0, <1>1, <1>z DEF TypeOK
    <3>2. CASE n = z + 1
      <4>1. stores'[n] = Relaxed(bottom_, v)
        BY <1>z, <3>1, <3>2, PlainLoc, StoreIs
      <4>2. stores'[n].loc = bottom_ /\ stores'[n].val = v
        BY <4>1, PlainLoc, StoreIs
      <4> QED
        BY <2>3, <4>2
    <3>3. CASE n # z + 1
      <4>1. n \in DOMAIN stores /\ stores'[n] = stores[n]
        BY <1>1, <1>z, <3>1, <3>3, PlainLoc, StoreIs
      <4>2. InRange(stores[n].loc, stores[n].val, b, next)
        BY <1>0, <4>1 DEF ValuesOK
      <4> QED
        BY <4>1, <4>2
    <3> QED
      BY <3>2, <3>3
  <2>5. ASSUME NEW l \in Location PROVE InRange(l, mem'[l], b', next')
    BY <1>0 DEF ValuesOK, InRange
  <2>6. OwnView(bottom_)' = IF opc' = "fence" THEN b' - 1 ELSE b'
    BY <1>1
  <2> QED
    BY <2>4, <2>5, <2>6 DEF ValuesOK
<1>7. \A i \in Nat : Good(z + 1, i)'
  <2> TAKE i \in Nat
  <2>1. Good(z, i)
    BY <1>0, <1>z, OwnGood
  <2>2. PICK k \in Buffer : Shows(z, buffer_, k) /\ Shows(z, Slot(k, i), At(i))
    BY <2>1 DEF Good
  <2>3. buffer_ # bottom_ /\ Slot(k, i) # bottom_
    BY PlainLoc, SlotLoc
  <2>4. PICK a : a = At(i)
    OBVIOUS
  <2>5. At(i)' = a
    BY <1>4, <2>4
  <2>6. Shows(z + 1, buffer_, k)' /\ Shows(z + 1, Slot(k, i), a)'
    BY <1>1, <2>2, <2>3, <2>4
  <2> QED
    BY <2>5, <2>6 DEF Good
<1>8. \A m \in 0 .. z : \A i \in Nat : Good(m, i)' <=> Good(m, i)
  BY <1>1, <1>4 DEF Good
<1>9. Kept'
  <2> SUFFICES ASSUME NEW k \in Buffer, NEW i \in Window', NEW m \in 0 .. Len(stores'),
                      NEW p \in m .. Len(stores'), NEW a, a = At(i)', Shows(m, Slot(k, i), a)'
               PROVE  Shows(p, Slot(k, i), a)'
    BY DEF Kept
  <2>1. i \in Window /\ i \in Nat /\ a = At(i) /\ m \in 0 .. (z + 1) /\ p \in m .. (z + 1)
    BY <1>1, <1>3, <1>4
  <2>2. Slot(k, i) # bottom_
    BY <2>1, SlotLoc
  <2>3. CASE m = z + 1
    <3>1. p = m
      BY <1>1, <2>1, <2>3
    <3> QED  BY <3>1
  <2>4. CASE m \in 0 .. z
    <3>1. Shows(m, Slot(k, i), a)
      BY <1>1, <2>4
    <3>2. \A x \in m .. z : Shows(x, Slot(k, i), a)
      BY <1>0, <1>z, <2>1, <2>4, <3>1 DEF Kept
    <3>3. CASE p = z + 1
      <4>1. Shows(z, Slot(k, i), a)
        BY <1>1, <2>4, <3>2
      <4> QED
        BY <1>1, <2>2, <3>3, <4>1
    <3>4. CASE p \in 0 .. z
      <4>1. p \in m .. z
        BY <2>1, <3>4
      <4> QED
        BY <1>1, <3>2, <3>4, <4>1
    <3> QED
      BY <1>1, <2>1, <2>4, <3>3, <3>4
  <2> QED
    BY <1>1, <2>1, <2>3, <2>4
<1>10. Published'
  <2> SUFFICES ASSUME NEW i \in Window', NEW m \in 0 .. Len(stores'), NEW w \in Int,
                      Shows(m, bottom_, w)', i < w, NEW p \in m .. Len(stores')
               PROVE  Good(p, i)'
    BY DEF Published
  <2>1. i \in Window /\ i \in Nat /\ m \in 0 .. (z + 1) /\ p \in m .. (z + 1)
    BY <1>1, <1>3
  <2>2. CASE p = z + 1
    BY <1>7, <2>1, <2>2
  <2>3. CASE p # z + 1
    <3>1. m \in 0 .. z /\ p \in m .. z /\ p \in 0 .. z
      BY <1>1, <2>1, <2>3
    <3>2. Good(p, i)
      BY <1>0, <1>1, <1>z, <2>1, <3>1 DEF Published
    <3> QED
      BY <1>8, <2>1, <3>1, <3>2
  <2> QED
    BY <2>2, <2>3
<1>11. ThiefOK'
  <2> SUFFICES ASSUME NEW s \in Stealer, NEW i \in Nat, t'[s] = i, top' = i
               PROVE  /\ spc'[s] \in {"buffer", "slot", "cas"} => i < b'
                      /\ spc'[s] = "buffer" => \A m \in 0 .. Len(stores') : Good(m, i)'
                      /\ spc'[s] = "slot" => mem'[Slot(buf'[s], i)] = At(i)'
                      /\ spc'[s] = "cas" => ptr'[s] = At(i)'
    BY DEF ThiefOK
  <2>1. /\ spc[s] \in {"buffer", "slot", "cas"} => i < b
        /\ spc[s] = "buffer" => \A m \in 0 .. z : Good(m, i)
        /\ spc[s] = "slot" => mem[Slot(buf[s], i)] = At(i)
        /\ spc[s] = "cas" => ptr[s] = At(i)
    BY <1>0, <1>z DEF ThiefOK
  <2>2. \A m \in 0 .. (z + 1) : m \in 0 .. z \/ m = z + 1
    BY <1>1
  <2>3. spc'[s] = "buffer" => \A m \in 0 .. Len(stores') : Good(m, i)'
    BY <1>1, <1>7, <1>8, <2>1, <2>2
  <2> QED
    BY <1>4, <2>1, <2>3
<1>12. Partition'
  <2>1. \A i \in Window : At(i)' = At(i)
    BY <1>3, <1>4
  <2>2. {At(i)' : i \in Window'} = {At(i) : i \in Window}
    BY <1>3, <2>1
  <2> QED
    BY <1>0, <1>3, <2>1, <2>2 DEF Partition
<1> QED
  BY <1>5, <1>6, <1>9, <1>10, <1>11, <1>12 DEF DequeInv

\* pop() takes the item at the back without a compare-and-swap: the thieves
\* can see that it is gone, and none that may still win is after it.
LEMMA PopTakeInv ==
  ASSUME DequeInv, PopTake
  PROVE  DequeInv'
<1>0. TypeOK /\ BoundsOK /\ ValuesOK /\ Kept /\ Published /\ ThiefOK /\ Partition
  BY DEF DequeInv
<1>1. /\ opc = "fence" /\ stores = << >> /\ top < b - 1 /\ b' = b - 1 /\ opc' = "idle"
      /\ taken' = taken \cup {At(b - 1)}
      /\ UNCHANGED <<top, mem, stores, oldTop, spc, t, buf, ptr, next>>
  BY DEF PopTake, PopFence, Fence, thiefVars, At, Own
<1>2. top \in Nat /\ b \in Nat /\ next \in Nat
  BY <1>0, DequeAssumption DEF TypeOK
<1>3. /\ \A l : OwnView(l)' = OwnView(l)
      /\ Own' = Own
      /\ \A i : At(i)' = At(i)
      /\ \A m, i : Good(m, i)' <=> Good(m, i)
  BY <1>1, SameViews
<1>4. PICK e : e = b - 1
  OBVIOUS
<1>5. Window' = Window \ {e} /\ e \in Window
  BY <1>1, <1>2, <1>4 DEF Window
<1>6. At(e) \in Item
  BY <1>0, <1>5, ItemIs
<1>7. TypeOK'
  BY <1>0, <1>1, <1>2, <1>4, <1>6, DequeAssumption DEF TypeOK
<1>8. BoundsOK'
  <2>1. Capacity(Own) \in Nat
    BY <1>0, CapacityAssumption DEF BoundsOK
  <2> QED
    BY <1>0, <1>1, <1>2, <1>3, <2>1 DEF BoundsOK
<1>9. ValuesOK'
  <2>1. OwnView(bottom_) = b - 1 /\ mem[bottom_] = b - 1
    BY <1>0, <1>1, ViewIs, LatestEmpty DEF ValuesOK
  <2>2. \A l \in Location : InRange(l, mem'[l], b', next')
    BY <1>0, <1>1, <1>2, <2>1 DEF ValuesOK, InRange
  <2>3. DOMAIN stores' = {}
    BY <1>1
  <2> QED
    BY <1>1, <1>3, <2>1, <2>2, <2>3 DEF ValuesOK
<1>10. Kept' /\ Published'
  BY <1>0, <1>1, <1>5, SameKept
<1>11. ThiefOK'
  BY <1>0, <1>1, <1>2, <1>3 DEF ThiefOK
<1>12. Partition'
  <2>1. \A i, j \in Window' : At(i)' = At(j)' => i = j
    BY <1>0, <1>3, <1>5 DEF Partition
  <2>2. \A i \in Window : i # e => At(i) # At(e)
    BY <1>0, <1>5 DEF Partition
  <2>3. {At(i)' : i \in Window'} = {At(i) : i \in Window} \ {At(e)}
    BY <1>3, <1>5, <2>2
  <2>4. At(e) \in {At(i) : i \in Window}
    BY <1>5
  <2>5. /\ {At(i) : i \in Window} \cup taken = 1 .. (next - 1)
        /\ {At(i) : i \in Window} \cap taken = {}
    BY <1>0 DEF Partition
  <2>6. /\ {At(i)' : i \in Window'} \cup taken' = 1 .. (next' - 1)
        /\ {At(i)' : i \in Window'} \cap taken' = {}
    BY <1>1, <1>4, <2>3, <2>4, <2>5
  <2> QED
    BY <2>1, <2>6 DEF Partition
<1> QED
  BY <1>7, <1>8, <1>9, <1>10, <1>11, <1>12 DEF DequeInv

\* pop() wins or loses the last item.
LEMMA PopCasInv ==
  ASSUME DequeInv, PopCas
  PROVE  DequeInv'
<1>0. TypeOK /\ BoundsOK /\ ValuesOK /\ Kept /\ Published /\ ThiefOK /\ Partition
  BY DEF DequeInv
<1>1. /\ opc = "cas" /\ opc' = "idle" /\ oldTop' = 0 /\ oldTop = b - 1
      /\ UNCHANGED <<mem, stores, b, spc, t, buf, ptr, next>>
  BY <1>0 DEF PopCas, thiefVars, BoundsOK
<1>2. top \in Nat /\ b \in Nat /\ next \in Nat /\ MaxItems \in Nat /\ b <= MaxItems
  BY <1>0, DequeAssumption DEF TypeOK
<1>3. CASE top = oldTop
  <2>1. top' = top + 1 /\ taken' = taken \cup {At(top)} /\ top < b
    BY <1>1, <1>2, <1>3 DEF PopCas, PopWins, At, Own
  <2>2. At(top) \in Item
    BY <1>0, <1>2, <2>1, ItemIs DEF Window
  <2>3. TypeOK'
    BY <1>0, <1>1, <1>2, <2>1, <2>2 DEF TypeOK
  <2>4. \A r \in Stealer : t'[r] <= top /\ (spc'[r] = "slot" => buf'[r] \in Buffer)
    BY <1>0, <1>1 DEF BoundsOK
  <2> QED
    BY <1>1, <2>1, <2>3, <2>4, TakeFront
<1>4. CASE top # oldTop
  <2>1. UNCHANGED <<top, taken>>
    BY <1>4 DEF PopCas, PopWins
  <2>2. TypeOK'
    BY <1>0, <1>1, <1>2, <2>1 DEF TypeOK
  <2>3. /\ \A l : OwnView(l)' = OwnView(l)
        /\ Own' = Own
        /\ \A i : At(i)' = At(i)
        /\ \A m, i : Good(m, i)' <=> Good(m, i)
    BY <1>1, SameViews
  <2>4. Window' = Window
    BY <1>1, <2>1 DEF Window
  <2>5. BoundsOK'
    BY <1>0, <1>1, <2>1, <2>3 DEF BoundsOK
  <2>6. ValuesOK'
    BY <1>0, <1>1, <2>1, <2>3 DEF ValuesOK
  <2>7. Kept' /\ Published'
    BY <1>0, <1>1, <2>4, SameKept
  <2>8. ThiefOK'
    BY <1>0, <1>1, <2>1, <2>3 DEF ThiefOK
  <2>9. Partition'
    BY <1>0, <1>1, <2>1, <2>3, <2>4 DEF Partition
  <2> QED
    BY <2>2, <2>5, <2>6, <2>7, <2>8, <2>9 DEF DequeInv
<1> QED
  BY <1>3, <1>4

\* Every step of pop() keeps the invariant.
LEMMA PopInv ==
  ASSUME DequeInv, PopBegin \/ PopEmpty \/ PopTake \/ PopLast \/ PopCas
  PROVE  DequeInv'
<1>0. TypeOK /\ BoundsOK
  BY DEF DequeInv
<1>1. top \in Nat /\ b \in Nat /\ b - 1 \in Int /\ b \in Int
  BY <1>0 DEF TypeOK
<1>2. /\ \A v \in Int : Append(stores, Relaxed(bottom_, v)) \in Seq(Store)
  BY <1>0, PlainLoc, StoreIs DEF TypeOK
<1>3. CASE PopBegin
  <2>1. TypeOK'
    BY <1>0, <1>1, <1>2, <1>3 DEF PopBegin, TypeOK, thiefVars
  <2> QED
    BY <1>1, <1>3, <2>1, BottomStep DEF PopBegin, thiefVars
<1>4. CASE PopEmpty
  <2>1. TypeOK'
    BY <1>0, <1>1, <1>2, <1>4 DEF PopEmpty, TypeOK, thiefVars
  <2> QED
    BY <1>1, <1>4, <2>1, BottomStep DEF PopEmpty, thiefVars
<1>5. CASE PopLast
  <2>1. TypeOK'
    BY <1>0, <1>1, <1>2, <1>5 DEF PopLast, TypeOK, thiefVars
  <2> QED
    BY <1>1, <1>5, <2>1, BottomStep DEF PopLast, thiefVars
<1> QED
  BY <1>3, <1>4, <1>5, PopTakeInv, PopCasInv

-----------------------------------------------------------------------------
(***************************************************************************)
(* The machine commits the oldest store.                                   *)
(***************************************************************************)

\* On x86 it is the oldest one.
LEMMA CommitIs ==
  ASSUME StoreOrder = "tso", TypeOK, Commit
  PROVE  /\ stores # << >> /\ stores' = Tail(stores)
         /\ mem' = [mem EXCEPT ![stores[1].loc] = stores[1].val]
         /\ stores[1] \in Store
         /\ UNCHANGED <<top, b, opc, oldTop, spc, t, buf, ptr, taken, next>>
<1>1. PICK n \in DOMAIN stores :
        /\ MayCommit(n)
        /\ mem' = [mem EXCEPT ![stores[n].loc] = stores[n].val]
        /\ stores' = SubSeq(stores, 1, n - 1) \o SubSeq(stores, n + 1, Len(stores))
        /\ UNCHANGED <<top, b, opc, oldTop, thiefVars, taken, next>>
  BY DEF Commit
<1>2. n = 1 /\ stores \in Seq(Store)
  BY <1>1 DEF MayCommit, TypeOK
<1>3. stores # << >> /\ stores[1] \in Store
  BY <1>1, <1>2
<1>4. SubSeq(stores, 1, 0) \o SubSeq(stores, 2, Len(stores)) = Tail(stores)
  BY <1>2, <1>3
<1>5. stores' = Tail(stores)
  BY <1>1, <1>2, <1>4
<1> QED
  BY <1>1, <1>2, <1>3, <1>5 DEF thiefVars

\* The views move up by one.
LEMMA CommitViews ==
  ASSUME StoreOrder = "tso", TypeOK, Commit, NEW z, z = Len(stores)
  PROVE  /\ z \in Nat \ {0} /\ Len(stores') = z - 1 /\ stores' \in Seq(Store)
         /\ mem' \in [Location -> Int]
         /\ \A l \in Location : OwnView(l)' = OwnView(l)
         /\ \A m \in 0 .. (z - 1) : \A l \in Location : \A w :
              Shows(m, l, w)' <=> Shows(m + 1, l, w)
<1>1. /\ stores # << >> /\ stores' = Tail(stores)
      /\ mem' = [mem EXCEPT ![stores[1].loc] = stores[1].val]
      /\ stores[1] \in Store
  BY CommitIs
<1>2. stores \in Seq(Store) /\ mem \in [Location -> Int] /\ z \in Nat \ {0}
  BY <1>1 DEF TypeOK
<1>3. Len(stores') = z - 1 /\ stores' \in Seq(Store)
  BY <1>1, <1>2
<1>4. mem' \in [Location -> Int]
  BY <1>1, <1>2 DEF Store
<1>5. ASSUME NEW l \in Location PROVE OwnView(l)' = OwnView(l)
  <2>1. OwnView(l)' = Latest(stores', mem', l)
    BY DEF OwnView, Latest
  <2> QED
    BY <1>1, <1>2, <2>1, LatestCommit, ViewIs
<1>6. ASSUME NEW m \in 0 .. (z - 1), NEW l \in Location, NEW w
      PROVE  Shows(m, l, w)' <=> Shows(m + 1, l, w)
  <2>1. Shows(m, l, w)' <=> Sees(stores', mem', m, l, w)
    BY DEF Shows
  <2>2. Sees(stores', mem', m, l, w) <=> Sees(stores, mem, m + 1, l, w)
    BY <1>1, <1>2, SeesCommit
  <2> QED
    BY <2>1, <2>2 DEF Shows
<1> QED
  BY <1>2, <1>3, <1>4, <1>5, <1>6

\* A commit keeps the invariant.
LEMMA CommitInv ==
  ASSUME StoreOrder = "tso", DequeInv, Commit
  PROVE  DequeInv'
<1>0. TypeOK /\ BoundsOK /\ ValuesOK /\ Kept /\ Published /\ ThiefOK /\ Partition
  BY DEF DequeInv
<1>c. /\ stores # << >> /\ stores' = Tail(stores)
      /\ mem' = [mem EXCEPT ![stores[1].loc] = stores[1].val]
      /\ stores[1] \in Store
      /\ UNCHANGED <<top, b, opc, oldTop, spc, t, buf, ptr, taken, next>>
  BY <1>0, CommitIs
<1>z. PICK z : z = Len(stores)
  OBVIOUS
<1>1. /\ z \in Nat \ {0} /\ Len(stores') = z - 1 /\ stores' \in Seq(Store)
      /\ mem' \in [Location -> Int]
      /\ \A l \in Location : OwnView(l)' = OwnView(l)
      /\ \A m \in 0 .. (z - 1) : \A l \in Location : \A w :
           Shows(m, l, w)' <=> Shows(m + 1, l, w)
  BY <1>0, <1>z, CommitViews
<1>2. Own' = Own /\ Own \in Buffer
  BY <1>0, <1>1, SameItems
<1>3. Window' = Window /\ Window \subseteq Nat
  BY <1>0, <1>c DEF Window, TypeOK
<1>4. \A i \in Nat : At(i)' = At(i)
  BY <1>0, <1>1, SameItems
<1>5. \A m \in 0 .. (z - 1) : \A i \in Nat : Good(m, i)' <=> Good(m + 1, i)
  <2> TAKE m \in 0 .. (z - 1)
  <2> TAKE i \in Nat
  <2>1. PICK a : a = At(i)
    OBVIOUS
  <2>2. At(i)' = a
    BY <1>4, <2>1
  <2>3. \A k \in Buffer : buffer_ \in Location /\ Slot(k, i) \in Location
    BY PlainLoc, SlotLoc
  <2>4. \A k \in Buffer : /\ Shows(m, buffer_, k)' <=> Shows(m + 1, buffer_, k)
                          /\ Shows(m, Slot(k, i), a)' <=> Shows(m + 1, Slot(k, i), a)
    BY <1>1, <2>3
  <2>5. Good(m, i)' <=> \E k \in Buffer : Shows(m, buffer_, k)' /\ Shows(m, Slot(k, i), a)'
    BY <2>2 DEF Good
  <2> QED
    BY <2>1, <2>4, <2>5 DEF Good
<1>6. \A m \in 0 .. (z - 1) : m + 1 \in 0 .. z
  BY <1>1
<1>7. TypeOK'
  BY <1>0, <1>1, <1>c DEF TypeOK
<1>8. BoundsOK'
  BY <1>0, <1>2, <1>c DEF BoundsOK
<1>9. ValuesOK'
  <2>0. stores \in Seq(Store) /\ mem \in [Location -> Int]
    BY <1>0 DEF TypeOK
  <2>1. InRange(stores[1].loc, stores[1].val, b, next)
    <3>1. 1 \in DOMAIN stores
      BY <1>c, <2>0
    <3> QED
      BY <1>0, <3>1 DEF ValuesOK
  <2>2. ASSUME NEW l \in Location PROVE InRange(l, mem'[l], b', next')
    <3>1. InRange(l, mem[l], b, next)
      BY <1>0 DEF ValuesOK
    <3>2. CASE l = stores[1].loc
      <4>1. mem'[l] = stores[1].val
        BY <1>c, <2>0, <3>2
      <4> QED
        BY <1>c, <2>1, <3>2, <4>1
    <3>3. CASE l # stores[1].loc
      <4>1. mem'[l] = mem[l]
        BY <1>c, <2>0, <3>3
      <4> QED
        BY <1>c, <3>1, <4>1
    <3> QED
      BY <3>2, <3>3
  <2>3. ASSUME NEW n \in DOMAIN stores'
        PROVE  InRange(stores'[n].loc, stores'[n].val, b', next')
    <3>1. n + 1 \in DOMAIN stores /\ stores'[n] = stores[n + 1]
      BY <1>c, <2>0
    <3>2. InRange(stores[n + 1].loc, stores[n + 1].val, b, next)
      BY <1>0, <3>1 DEF ValuesOK
    <3> QED
      BY <1>c, <3>1, <3>2
  <2>4. OwnView(bottom_)' = IF opc' = "fence" THEN b' - 1 ELSE b'
    BY <1>0, <1>1, <1>c, PlainLoc DEF ValuesOK
  <2> QED
    BY <2>2, <2>3, <2>4 DEF ValuesOK
<1>10. Kept'
  <2> SUFFICES ASSUME NEW k \in Buffer, NEW i \in Window', NEW m \in 0 .. Len(stores'),
                      NEW p \in m .. Len(stores'), NEW a, a = At(i)', Shows(m, Slot(k, i), a)'
               PROVE  Shows(p, Slot(k, i), a)'
    BY DEF Kept
  <2>1. /\ i \in Window /\ i \in Nat /\ a = At(i) /\ m \in 0 .. (z - 1) /\ p \in 0 .. (z - 1)
        /\ m + 1 \in 0 .. z /\ p + 1 \in (m + 1) .. z
    BY <1>1, <1>3, <1>4
  <2>2. Slot(k, i) \in Location
    BY <2>1, SlotLoc
  <2>3. Shows(m + 1, Slot(k, i), a)
    BY <1>1, <2>1, <2>2
  <2>4. Shows(p + 1, Slot(k, i), a)
    BY <1>0, <1>z, <2>1, <2>3 DEF Kept
  <2> QED
    BY <1>1, <2>1, <2>2, <2>4
<1>11. Published'
  <2> SUFFICES ASSUME NEW i \in Window', NEW m \in 0 .. Len(stores'), NEW w \in Int,
                      Shows(m, bottom_, w)', i < w, NEW p \in m .. Len(stores')
               PROVE  Good(p, i)'
    BY DEF Published
  <2>1. /\ i \in Window /\ i \in Nat /\ m \in 0 .. (z - 1) /\ p \in 0 .. (z - 1)
        /\ m + 1 \in 0 .. z /\ p + 1 \in (m + 1) .. z
    BY <1>1, <1>3
  <2>2. Shows(m + 1, bottom_, w)
    BY <1>1, <2>1, PlainLoc
  <2>3. Good(p + 1, i)
    BY <1>0, <1>z, <2>1, <2>2 DEF Published
  <2> QED
    BY <1>5, <2>1, <2>3
<1>12. ThiefOK'
  <2> SUFFICES ASSUME NEW s \in Stealer, NEW i \in Nat, t'[s] = i, top' = i
               PROVE  /\ spc'[s] \in {"buffer", "slot", "cas"} => i < b'
                      /\ spc'[s] = "buffer" => \A m \in 0 .. Len(stores') : Good(m, i)'
                      /\ spc'[s] = "slot" => mem'[Slot(buf'[s], i)] = At(i)'
                      /\ spc'[s] = "cas" => ptr'[s] = At(i)'
    BY DEF ThiefOK
  <2>1. /\ spc[s] \in {"buffer", "slot", "cas"} => i < b
        /\ spc[s] = "buffer" => \A m \in 0 .. z : Good(m, i)
        /\ spc[s] = "slot" => mem[Slot(buf[s], i)] = At(i)
        /\ spc[s] = "cas" => ptr[s] = At(i)
    BY <1>0, <1>c, <1>z DEF ThiefOK
  <2>2. spc'[s] = "buffer" => \A m \in 0 .. Len(stores') : Good(m, i)'
    BY <1>1, <1>5, <1>6, <1>c, <2>1
  <2>3. ASSUME spc'[s] = "slot" PROVE mem'[Slot(buf'[s], i)] = At(i)'
    <3>1. PICK k : k = buf[s]
      OBVIOUS
    <3>2. k \in Buffer /\ spc[s] = "slot" /\ buf'[s] = k
      BY <1>0, <1>c, <2>3, <3>1 DEF BoundsOK
    <3>3. PICK a : a = At(i)
      OBVIOUS
    <3>4. a = At(i)' /\ mem[Slot(k, i)] = a
      BY <1>4, <2>1, <3>1, <3>2, <3>3
    <3>5. i \in Window
      BY <1>0, <1>c, <2>1, <3>2 DEF Window, TypeOK
    <3>6. Shows(0, Slot(k, i), a)
      BY <3>4, SeesNow DEF Shows
    <3>7. 0 \in 0 .. z /\ 0 + 1 \in 0 .. z /\ 0 \in 0 .. (z - 1)
      BY <1>1
    <3>8. Shows(0 + 1, Slot(k, i), a)
      BY <1>0, <1>z, <3>2, <3>3, <3>5, <3>6, <3>7 DEF Kept
    <3>9. Shows(0, Slot(k, i), a)'
      BY <1>1, <3>2, <3>7, <3>8, SlotLoc
    <3>10. mem'[Slot(k, i)] = a
      <4>1. Sees(stores', mem', 0, Slot(k, i), a)
        BY <3>9 DEF Shows
      <4> QED
        BY <4>1, SeesNow
    <3> QED
      BY <3>2, <3>4, <3>10
  <2> QED
    BY <1>4, <1>c, <2>1, <2>2, <2>3
<1>13. Partition'
  <2>1. \A i \in Window : At(i)' = At(i)
    BY <1>3, <1>4
  <2>2. {At(i)' : i \in Window'} = {At(i) : i \in Window}
    BY <1>3, <2>1
  <2> QED
    BY <1>0, <1>3, <1>c, <2>1, <2>2 DEF Partition
<1> QED
  BY <1>7, <1>8, <1>9, <1>10, <1>11, <1>12, <1>13 DEF DequeInv

-----------------------------------------------------------------------------
(***************************************************************************)
(* push().                                                                 *)
(***************************************************************************)

\* Some stores, and two more, follow the pending ones.
LEMMA Batch ==
  ASSUME NEW q \in Seq(Store), NEW x \in Seq(Store), NEW u \in Store, NEW v \in Store,
         NEW y, y = Len(q) + Len(x), NEW r, r = q \o x \o <<u, v>>
  PROVE  /\ y \in Nat /\ Len(q) \in Nat /\ Len(q) <= y
         /\ r \in Seq(Store) /\ Len(r) = y + 2
         /\ \A n \in 1 .. Len(q) : q[n] = r[n]
         /\ \A n \in (Len(q) + 1) .. y : n - Len(q) \in 1 .. Len(x) /\ r[n] = x[n - Len(q)]
         /\ r[y + 1] = u /\ r[y + 2] = v
<1>1. PICK p : p = q \o x
  OBVIOUS
<1>2. p \in Seq(Store) /\ Len(p) = y /\ y \in Nat /\ Len(q) \in Nat /\ Len(q) <= y
  BY <1>1
<1>3. PICK w : w = <<u, v>>
  OBVIOUS
<1>4. w \in Seq(Store) /\ Len(w) = 2 /\ w[1] = u /\ w[2] = v
  BY <1>3
<1>5. r = p \o w
  BY <1>1, <1>3
<1>6. r \in Seq(Store) /\ Len(r) = y + 2
  BY <1>2, <1>4, <1>5
<1>7. \A n \in 1 .. y : r[n] = p[n]
  BY <1>2, <1>4, <1>5
<1>8. r[y + 1] = u /\ r[y + 2] = v
  BY <1>2, <1>4, <1>5
<1>9. /\ \A n \in 1 .. Len(q) : q[n] = p[n]
      /\ \A n \in (Len(q) + 1) .. y : n - Len(q) \in 1 .. Len(x) /\ p[n] = x[n - Len(q)]
  BY <1>1
<1> QED
  BY <1>2, <1>6, <1>7, <1>8, <1>9

\* The stores z + 1 to y of r copy the items f of the indices W to the buffer
\* h and publish it.
Grown(r, z, y, h, W, f) ==
  /\ y > z /\ r[y].loc = buffer_ /\ r[y].val = h
  /\ \A n \in (z + 1) .. (y - 1) : \E i \in W : r[n].loc = Slot(h, i) /\ r[n].val = f[i]
  /\ \A i \in W : \E n \in (z + 1) .. (y - 1) : r[n].loc = Slot(h, i) /\ r[n].val = f[i]

\* The stores of push() after the first z: the owner's buffer k becomes h.
Pushed(r, z, y, h, k, W, f, bt, nx) ==
  /\ r[y + 1].loc = Slot(h, bt) /\ r[y + 1].val = nx
  /\ r[y + 2].loc = bottom_ /\ r[y + 2].val = bt + 1
  /\ (y = z /\ h = k) \/ Grown(r, z, y, h, W, f)

\* There is a buffer to grow into, and the item fits.
LEMMA Room ==
  ASSUME DequeInv, next <= MaxItems, NEW h, h = IF Full(Own) THEN Own + 1 ELSE Own
  PROVE  h \in Buffer /\ b + 1 - top <= Capacity(h) /\ Capacity(h) \in Nat
<1>0. TypeOK /\ BoundsOK
  BY DEF DequeInv
<1>1. top \in Nat /\ b \in Nat /\ next \in Nat /\ Own \in Buffer /\ Capacity(Own) \in Nat
  BY <1>0, DequeAssumption, CapacityAssumption DEF TypeOK, BoundsOK
<1>2. CASE ~Full(Own)
  BY <1>1, <1>2 DEF Full
<1>3. CASE Full(Own)
  <2>1. Capacity(Own) = b - top /\ b < MaxItems
    BY <1>0, <1>1, <1>3, DequeAssumption DEF Full, BoundsOK
  <2>2. Own # MaxBuffers
    BY <1>1, <2>1, DequeAssumption
  <2>3. Own + 1 \in Buffer
    BY <1>1, <2>2, DequeAssumption DEF Buffer
  <2>4. Capacity(Own + 1) = 2 * Capacity(Own) /\ Capacity(Own) # 0
    BY <1>1, <2>3, CapacityAssumption
  <2> QED
    BY <1>1, <1>3, <2>1, <2>3, <2>4
<1> QED
  BY <1>2, <1>3

\* What grow() stores.
LEMMA GrowIs ==
  ASSUME DequeInv, Own + 1 \in Buffer
  PROVE  /\ GrowStores(Own) \in Seq(Store) /\ Len(GrowStores(Own)) = b - top + 1
         /\ \A n \in 1 .. (b - top) :
              GrowStores(Own)[n] = Release(Slot(Own + 1, top + n - 1), At(top + n - 1))
         /\ GrowStores(Own)[b - top + 1] = Release(buffer_, Own + 1)
<1>0. TypeOK /\ BoundsOK /\ Partition
  BY DEF DequeInv
<1>1. top \in Nat /\ b \in Nat /\ top <= b
  BY <1>0 DEF TypeOK, BoundsOK
<1>2. PICK c : c = [n \in 1 .. (b - top) |->
                     Release(Slot(Own + 1, top + n - 1), OwnView(Slot(Own, top + n - 1)))]
  OBVIOUS
<1>3. PICK d : d = b - top
  OBVIOUS
<1>4. d \in Nat
  BY <1>1, <1>3
<1>5. ASSUME NEW n \in 1 .. d
      PROVE  c[n] \in Store /\ c[n] = Release(Slot(Own + 1, top + n - 1), At(top + n - 1))
  <2>1. top + n - 1 \in Window /\ top + n - 1 \in Nat
    BY <1>1, <1>3 DEF Window
  <2>2. At(top + n - 1) \in Int
    BY <1>0, <2>1, ItemIs DEF Item
  <2>3. Slot(Own + 1, top + n - 1) \in Location
    BY <2>1, SlotLoc
  <2>4. c[n] = Release(Slot(Own + 1, top + n - 1), At(top + n - 1))
    BY <1>2, <1>3 DEF At
  <2> QED
    BY <2>2, <2>3, <2>4, StoreIs
<1>6. c \in Seq(Store) /\ Len(c) = d
  <2>1. c \in [1 .. d -> Store]
    BY <1>2, <1>3, <1>5
  <2> QED
    BY <1>4, <2>1
<1>7. Release(buffer_, Own + 1) \in Store
  BY PlainLoc, StoreIs DEF Buffer
<1>8. GrowStores(Own) = c \o << Release(buffer_, Own + 1) >>
  BY <1>2 DEF GrowStores
<1>9. PICK e : e = Release(buffer_, Own + 1)
  OBVIOUS
<1>10. /\ GrowStores(Own) \in Seq(Store) /\ Len(GrowStores(Own)) = d + 1
       /\ \A n \in 1 .. d : GrowStores(Own)[n] = c[n]
       /\ GrowStores(Own)[d + 1] = e
  BY <1>4, <1>6, <1>7, <1>8, <1>9
<1> QED
  BY <1>3, <1>5, <1>9, <1>10

\* In a step of push() the stores become those of Pushed, and the item fits.
PushStores(z, y, h, f) ==
  /\ z \in Nat /\ z <= y
  /\ stores' \in Seq(Store) /\ Len(stores') = y + 2
  /\ \A n \in 1 .. z : stores[n] = stores'[n]
  /\ Pushed(stores', z, y, h, Own, Window, f, b, next)
  /\ b + 1 - top <= Capacity(h) /\ Capacity(h) \in Nat

\* What push() stores.
LEMMA PushIs ==
  ASSUME DequeInv, Push, NEW z, z = Len(stores), NEW f, f = [i \in Window |-> At(i)]
  PROVE  \E h \in Buffer, y \in Nat : PushStores(z, y, h, f)
<1> USE DEF PushStores
<1>0. TypeOK /\ BoundsOK /\ Partition
  BY DEF DequeInv
<1>1. PICK h : h = IF Full(Own) THEN Own + 1 ELSE Own
  OBVIOUS
<1>2. PICK x : x = IF Full(Own) THEN GrowStores(Own) ELSE << >>
  OBVIOUS
<1>3. PICK r : r = stores'
  OBVIOUS
<1>4. next <= MaxItems /\ r = stores \o x \o << Release(Slot(h, b), next), Relaxed(bottom_, b + 1) >>
  BY <1>1, <1>2, <1>3 DEF Push, Own
<1>5. h \in Buffer /\ b + 1 - top <= Capacity(h) /\ Capacity(h) \in Nat
  BY <1>1, <1>4, Room
<1>6. b \in Nat /\ b + 1 \in Int /\ next \in Int /\ top \in Nat /\ top <= b
  BY <1>0, DequeAssumption DEF TypeOK, BoundsOK
<1>7. PICK u : u = Release(Slot(h, b), next)
  OBVIOUS
<1>8. PICK v : v = Relaxed(bottom_, b + 1)
  OBVIOUS
<1>9. /\ u \in Store /\ u.loc = Slot(h, b) /\ u.val = next
      /\ v \in Store /\ v.loc = bottom_ /\ v.val = b + 1
  BY <1>5, <1>6, <1>7, <1>8, SlotLoc, PlainLoc, StoreIs
<1>10. stores \in Seq(Store)
  BY <1>0 DEF TypeOK
<1>11. x \in Seq(Store)
  BY <1>1, <1>2, <1>5, GrowIs
<1>12. PICK y : y = z + Len(x)
  OBVIOUS
<1>13. /\ y \in Nat /\ z \in Nat /\ z <= y
       /\ r \in Seq(Store) /\ Len(r) = y + 2
       /\ \A n \in 1 .. z : stores[n] = r[n]
       /\ \A n \in (z + 1) .. y : n - z \in 1 .. Len(x) /\ r[n] = x[n - z]
       /\ r[y + 1] = u /\ r[y + 2] = v
  <2>1. r = stores \o x \o <<u, v>> /\ y = Len(stores) + Len(x)
    BY <1>4, <1>7, <1>8, <1>12
  <2> QED
    BY <1>9, <1>10, <1>11, <2>1, Batch
<1>14. CASE ~Full(Own)
  <2>1. y = z /\ h = Own
    BY <1>1, <1>2, <1>12, <1>13, <1>14
  <2>2. Pushed(r, z, y, h, Own, Window, f, b, next)
    BY <1>9, <1>13, <2>1 DEF Pushed
  <2> QED
    BY <1>3, <1>5, <1>13, <2>2
<1>15. CASE Full(Own)
  <2>1. PICK d : d = b - top
    OBVIOUS
  <2>2. PICK k : k = Own
    OBVIOUS
  <2>3. /\ Len(x) = d + 1 /\ h = k + 1 /\ d \in Nat
        /\ \A n \in 1 .. d : x[n] = Release(Slot(h, top + n - 1), At(top + n - 1))
        /\ x[d + 1] = Release(buffer_, h)
    BY <1>1, <1>2, <1>5, <1>6, <1>15, <2>1, <2>2, GrowIs
  <2>4. y = z + d + 1 /\ z \in Nat /\ d \in Nat
    BY <1>12, <1>13, <2>3
  <2>5. ASSUME NEW i \in Window
        PROVE  /\ i \in Nat /\ f[i] = At(i)
               /\ Release(Slot(h, i), At(i)).loc = Slot(h, i)
               /\ Release(Slot(h, i), At(i)).val = f[i]
    <3>1. i \in Nat /\ At(i) \in Int
      BY <1>0, ItemIs DEF Item
    <3> QED
      BY <1>5, <3>1, SlotLoc, StoreIs
  <2>6. y > z /\ r[y].loc = buffer_ /\ r[y].val = h
    <3>1. y \in (z + 1) .. y /\ y - z = d + 1
      BY <1>13, <2>3, <2>4
    <3>2. r[y] = Release(buffer_, h) /\ h \in Int
      BY <1>5, <1>13, <2>3, <3>1 DEF Buffer
    <3> QED
      BY <1>13, <2>3, <2>4, <3>2, PlainLoc, StoreIs
  <2>7. ASSUME NEW n \in (z + 1) .. (y - 1)
        PROVE  \E i \in Window : r[n].loc = Slot(h, i) /\ r[n].val = f[i]
    <3>1. PICK j : j = n - z
      OBVIOUS
    <3>2. j \in 1 .. d /\ n \in (z + 1) .. y
      BY <2>4, <3>1
    <3>3. PICK i : i = top + j - 1
      OBVIOUS
    <3>4. i \in Window
      BY <1>6, <2>1, <3>2, <3>3 DEF Window
    <3>5. r[n] = Release(Slot(h, i), At(i))
      BY <1>13, <2>3, <3>1, <3>2, <3>3
    <3> QED
      BY <2>5, <3>4, <3>5
  <2>8. ASSUME NEW i \in Window
        PROVE  \E n \in (z + 1) .. (y - 1) : r[n].loc = Slot(h, i) /\ r[n].val = f[i]
    <3>1. PICK j : j = i - top + 1
      OBVIOUS
    <3>2. j \in 1 .. d /\ top + j - 1 = i
      BY <1>6, <2>1, <3>1 DEF Window
    <3>3. PICK n : n = z + j
      OBVIOUS
    <3>4. n \in (z + 1) .. (y - 1) /\ n \in (z + 1) .. y /\ n - z = j
      BY <1>13, <2>3, <2>4, <3>2, <3>3
    <3>5. r[n] = Release(Slot(h, i), At(i))
      BY <1>13, <2>3, <3>2, <3>4
    <3> QED
      BY <2>5, <3>4, <3>5
  <2>9. Grown(r, z, y, h, Window, f)
    BY <2>6, <2>7, <2>8 DEF Grown
  <2>10. Pushed(r, z, y, h, Own, Window, f, b, next)
    BY <1>9, <1>13, <2>9 DEF Pushed
  <2> QED
    BY <1>3, <1>5, <1>13, <2>10
<1> QED
  BY <1>14, <1>15

\* The stores after the first z that are to l bring v.
Repeats(r, z, p, l, v) == \A n \in (z + 1) .. p : r[n].loc = l => r[n].val = v

\* A store of push() to the slot of an index in use brings its item again.
LEMMA PushedSame ==
  ASSUME NEW r, NEW z \in Nat, NEW y \in Nat, NEW h \in Buffer, NEW k \in Buffer,
         NEW tp \in Nat, NEW bt \in Nat, NEW f, NEW nx,
         Pushed(r, z, y, h, k, tp .. (bt - 1), f, bt, nx), bt + 1 - tp <= Capacity(h),
         Capacity(h) \in Nat,
         NEW g \in Buffer, NEW i \in tp .. (bt - 1)
  PROVE  Repeats(r, z, y + 2, Slot(g, i), f[i])
<1> SUFFICES ASSUME NEW n \in (z + 1) .. (y + 2), r[n].loc = Slot(g, i)
             PROVE  r[n].val = f[i]
  BY DEF Repeats
<1>0. i \in Nat /\ Slot(g, i) # bottom_ /\ Slot(g, i) # buffer_
  BY SlotLoc
<1>1. n # y + 2
  BY <1>0 DEF Pushed
<1>2. n # y + 1
  <2>1. i < bt /\ bt - i < Capacity(h)
    OBVIOUS
  <2>2. Slot(h, i) # Slot(h, bt)
    BY <1>0, <2>1, SlotApart
  <2>3. g # h => Slot(g, i) # Slot(h, bt)
    BY <1>0, SlotApart
  <2> QED
    BY <2>2, <2>3 DEF Pushed
<1>3. n \in (z + 1) .. y
  BY <1>1, <1>2
<1>4. Grown(r, z, y, h, tp .. (bt - 1), f)
  BY <1>3 DEF Pushed
<1>5. n \in (z + 1) .. (y - 1)
  BY <1>0, <1>3, <1>4 DEF Grown
<1>6. PICK j \in tp .. (bt - 1) : r[n].loc = Slot(h, j) /\ r[n].val = f[j]
  BY <1>4, <1>5 DEF Grown
<1>7. j \in Nat /\ (i < j => j - i < Capacity(h)) /\ (j < i => i - j < Capacity(h))
  OBVIOUS
<1>8. g = h
  BY <1>0, <1>6, <1>7, SlotApart
<1>9. i = j
  <2>1. ~(i < j)
    BY <1>0, <1>6, <1>7, <1>8, SlotApart
  <2>2. ~(j < i)
    BY <1>0, <1>6, <1>7, <1>8, SlotApart
  <2> QED
    BY <1>0, <1>7, <2>1, <2>2
<1> QED
  BY <1>6, <1>9

\* A slot that shows the item of an index goes on showing it during the
\* stores of push().
LEMMA PushedKeeps ==
  ASSUME NEW r, NEW M, NEW z \in Nat, NEW y \in Nat, NEW h \in Buffer, NEW k \in Buffer,
         NEW tp \in Nat, NEW bt \in Nat, NEW f, NEW nx,
         Pushed(r, z, y, h, k, tp .. (bt - 1), f, bt, nx), bt + 1 - tp <= Capacity(h),
         Capacity(h) \in Nat,
         NEW g \in Buffer, NEW i \in tp .. (bt - 1),
         NEW m \in z .. (y + 2), NEW p \in m .. (y + 2),
         Sees(r, M, m, Slot(g, i), f[i])
  PROVE  Sees(r, M, p, Slot(g, i), f[i])
<1>1. m \in Nat /\ p \in Nat /\ m <= p
  OBVIOUS
<1>2. \A n \in (m + 1) .. p : n \in (z + 1) .. (y + 2)
  OBVIOUS
<1>r. Repeats(r, z, y + 2, Slot(g, i), f[i])
  BY PushedSame
<1>3. \A n \in (m + 1) .. p : r[n].loc = Slot(g, i) => r[n].val = f[i]
  BY <1>2, <1>r DEF Repeats
<1> QED
  BY <1>1, <1>3, SeesOn

\* The buffer g shows, and in it the items f of the indices W.
ShowsAll(r, M, m, g, W, f) ==
  /\ Sees(r, M, m, buffer_, g)
  /\ \A i \in W : Sees(r, M, m, Slot(g, i), f[i])

\* Whatever of push() is committed, a buffer shows that has the items.
LEMMA PushedBuffer ==
  ASSUME NEW r, NEW M, NEW z \in Nat, NEW y \in Nat, z <= y,
         NEW h \in Buffer, NEW k \in Buffer,
         NEW tp \in Nat, NEW bt \in Nat, NEW f, NEW nx,
         Pushed(r, z, y, h, k, tp .. (bt - 1), f, bt, nx), bt + 1 - tp <= Capacity(h),
         Capacity(h) \in Nat,
         ShowsAll(r, M, z, k, tp .. (bt - 1), f),
         NEW m \in z .. (y + 2)
  PROVE  /\ ShowsAll(r, M, m, k, tp .. (bt - 1), f) \/ ShowsAll(r, M, m, h, tp .. (bt - 1), f)
         /\ m = y + 2 => ShowsAll(r, M, m, h, tp .. (bt - 1), f)
<1> DEFINE W == tp .. (bt - 1)
<1>0. m \in Nat /\ z <= m /\ z \in z .. (y + 2) /\ m \in z .. (y + 2)
  OBVIOUS
<1>r. \A i \in W : Repeats(r, z, y + 2, Slot(h, i), f[i])
  BY PushedSame
<1>a. /\ r[y + 1].loc # buffer_ /\ r[y + 2].loc # buffer_
  BY SlotLoc, PlainLoc DEF Pushed
<1>1. CASE \A n \in (z + 1) .. m : r[n].loc # buffer_
  <2>1. Sees(r, M, m, buffer_, k)
    BY <1>0, <1>1, SeesOn DEF ShowsAll
  <2>2. ASSUME NEW i \in W PROVE Sees(r, M, m, Slot(k, i), f[i])
    <3>1. Sees(r, M, z, Slot(k, i), f[i])
      BY DEF ShowsAll
    <3> QED
      BY <1>0, <3>1, PushedKeeps
  <2>3. ShowsAll(r, M, m, k, W, f)
    BY <2>1, <2>2 DEF ShowsAll
  <2>4. m = y + 2 => h = k
    <3>1. ASSUME m = y + 2, Grown(r, z, y, h, W, f) PROVE FALSE
      <4>1. y \in (z + 1) .. m /\ r[y].loc = buffer_
        BY <3>1 DEF Grown
      <4> QED  BY <1>1, <4>1
    <3> QED
      BY <3>1 DEF Pushed
  <2> QED
    BY <2>3, <2>4
<1>2. CASE ~ \A n \in (z + 1) .. m : r[n].loc # buffer_
  <2>1. PICK n \in (z + 1) .. m : r[n].loc = buffer_
    BY <1>2
  <2>2. n \in (z + 1) .. y
    BY <1>0, <1>a, <2>1
  <2>3. Grown(r, z, y, h, W, f)
    BY <2>2 DEF Pushed
  <2>4. ASSUME NEW x \in (z + 1) .. (y - 1) PROVE r[x].loc # buffer_
    <3>1. PICK i \in W : r[x].loc = Slot(h, i)
      BY <2>3 DEF Grown
    <3> QED
      BY <3>1, SlotLoc
  <2>5. n = y
    BY <2>1, <2>2, <2>4
  <2>6. y \in 1 .. m /\ r[y].loc = buffer_ /\ r[y].val = h
    BY <2>1, <2>3, <2>5 DEF Grown
  <2>7. \A x \in (y + 1) .. m : r[x].loc # buffer_
    <3> TAKE x \in (y + 1) .. m
    <3>1. x = y + 1 \/ x = y + 2
      OBVIOUS
    <3> QED  BY <1>a, <3>1
  <2>8. Sees(r, M, m, buffer_, h)
    BY <1>0, <2>6, <2>7, SeesHit
  <2>9. ASSUME NEW i \in W PROVE Sees(r, M, m, Slot(h, i), f[i])
    <3>1. PICK x \in (z + 1) .. (y - 1) : r[x].loc = Slot(h, i) /\ r[x].val = f[i]
      BY <2>3 DEF Grown
    <3>2. x \in 1 .. m
      BY <1>0, <2>6, <3>1
    <3>3. \A w \in (x + 1) .. m : w \in (z + 1) .. (y + 2)
      <4> TAKE w \in (x + 1) .. m
      <4>1. w \in Nat /\ z + 1 <= w /\ w <= y + 2
        OBVIOUS
      <4> QED  BY <4>1
    <3>4. \A w \in (x + 1) .. m : r[w].loc = Slot(h, i) => r[w].val = f[i]
      BY <1>r, <3>3 DEF Repeats
    <3> QED
      BY <1>0, <3>1, <3>2, <3>4, SeesHit
  <2> QED
    BY <2>8, <2>9 DEF ShowsAll
<1> QED
  BY <1>1, <1>2

\* When all of push() is committed, its item and the new bottom_ show.
LEMMA PushedLast ==
  ASSUME NEW r, NEW M, NEW z \in Nat, NEW y \in Nat, NEW h \in Buffer, NEW k,
         NEW W, NEW bt \in Nat, NEW f, NEW nx,
         Pushed(r, z, y, h, k, W, f, bt, nx)
  PROVE  /\ Sees(r, M, y + 2, bottom_, bt + 1)
         /\ Sees(r, M, y + 1, Slot(h, bt), nx) /\ Sees(r, M, y + 2, Slot(h, bt), nx)
<1>1. y + 1 \in 1 .. (y + 1) /\ y + 1 \in 1 .. (y + 2) /\ y + 2 \in 1 .. (y + 2)
  OBVIOUS
<1>2. y + 1 \in Nat /\ y + 2 \in Nat
  OBVIOUS
<1>3. /\ r[y + 1].loc = Slot(h, bt) /\ r[y + 1].val = nx
      /\ r[y + 2].loc = bottom_ /\ r[y + 2].val = bt + 1 /\ Slot(h, bt) # bottom_
  BY SlotLoc DEF Pushed
<1>4. \A x \in ((y + 2) + 1) .. (y + 2) : FALSE
  OBVIOUS
<1>5. \A x \in ((y + 1) + 1) .. (y + 1) : FALSE
  OBVIOUS
<1>6. \A x \in ((y + 1) + 1) .. (y + 2) : x = y + 2
  OBVIOUS
<1>7. Sees(r, M, y + 2, bottom_, bt + 1)
  BY <1>1, <1>2, <1>3, <1>4, SeesHit
<1>8. Sees(r, M, y + 1, Slot(h, bt), nx)
  BY <1>1, <1>2, <1>3, <1>5, SeesHit
<1>9. Sees(r, M, y + 2, Slot(h, bt), nx)
  BY <1>1, <1>2, <1>3, <1>6, SeesHit
<1> QED
  BY <1>7, <1>8, <1>9

\* Before its store is committed the new item shows nowhere.
LEMMA PushedBefore ==
  ASSUME NEW r, NEW M, NEW z \in Nat, NEW y \in Nat, NEW h \in Buffer, NEW k,
         NEW tp \in Nat, NEW bt \in Nat, NEW f, NEW nx \in Nat,
         Pushed(r, z, y, h, k, tp .. (bt - 1), f, bt, nx),
         \A i \in tp .. (bt - 1) : f[i] \in 0 .. (nx - 1),
         NEW l, l # buffer_, M[l] \in 0 .. (nx - 1),
         \A n \in 1 .. z : r[n].loc = l => r[n].val \in 0 .. (nx - 1),
         NEW m \in 0 .. y
  PROVE  ~Sees(r, M, m, l, nx)
<1>1. ASSUME NEW n \in 1 .. m, r[n].loc = l PROVE r[n].val # nx
  <2>1. CASE n \in 1 .. z
    BY <1>1, <2>1
  <2>2. CASE n \notin 1 .. z
    <3>1. n \in (z + 1) .. y
      BY <2>2
    <3>2. Grown(r, z, y, h, tp .. (bt - 1), f)
      BY <3>1 DEF Pushed
    <3>3. n \in (z + 1) .. (y - 1)
      BY <1>1, <3>1, <3>2 DEF Grown
    <3>4. PICK i \in tp .. (bt - 1) : r[n].val = f[i]
      BY <3>2, <3>3 DEF Grown
    <3> QED
      BY <3>4
  <2> QED
    BY <2>1, <2>2
<1>2. M[l] # nx
  OBVIOUS
<1> QED
  BY <1>1, <1>2 DEF Sees

\* Before the last store of push() bottom_ does not show the new index.
LEMMA PushedBottom ==
  ASSUME NEW r, NEW M, NEW z \in Nat, NEW y \in Nat, NEW h \in Buffer, NEW k,
         NEW tp \in Nat, NEW bt \in Nat, NEW f, NEW nx,
         Pushed(r, z, y, h, k, tp .. (bt - 1), f, bt, nx),
         M[bottom_] <= bt,
         \A n \in 1 .. z : r[n].loc = bottom_ => r[n].val <= bt,
         NEW m \in 0 .. (y + 1), NEW w, Sees(r, M, m, bottom_, w)
  PROVE  w <= bt
<1>1. ASSUME NEW n \in 1 .. m, r[n].loc = bottom_ PROVE n \in 1 .. z
  <2> SUFFICES ASSUME n \notin 1 .. z PROVE FALSE
    OBVIOUS
  <2>0. n # y + 1
    BY <1>1, SlotLoc DEF Pushed
  <2>1. n \in (z + 1) .. y
    BY <2>0
  <2>2. Grown(r, z, y, h, tp .. (bt - 1), f)
    BY <2>1 DEF Pushed
  <2>3. n \in (z + 1) .. (y - 1)
    BY <1>1, <2>1, <2>2, PlainLoc DEF Grown
  <2>4. PICK i \in tp .. (bt - 1) : r[n].loc = Slot(h, i)
    BY <2>2, <2>3 DEF Grown
  <2> QED
    BY <1>1, <2>4, SlotLoc
<1> QED
  BY <1>1 DEF Sees

\* What shows during and after the stores of push().
AfterPush(z, y, h, f, bt, nx) ==
  /\ \A m \in 0 .. z : \A l, w : Shows(m, l, w)' <=> Shows(m, l, w)
  /\ \A k \in Buffer, i \in Window : \A m \in z .. (y + 2) : \A p \in m .. (y + 2) :
       Shows(m, Slot(k, i), f[i])' => Shows(p, Slot(k, i), f[i])'
  /\ \A i \in Window : \A m \in z .. (y + 2) :
       \E k \in Buffer : Shows(m, buffer_, k)' /\ Shows(m, Slot(k, i), f[i])'
  /\ Own' = h /\ OwnView(bottom_)' = b + 1
  /\ \A i \in Window : At(i)' = f[i]
  /\ At(bt)' = nx
  /\ Shows(y + 2, buffer_, h)'
  /\ \A m \in {y + 1, y + 2} : Shows(m, Slot(h, bt), nx)'
  /\ \A m \in 0 .. y : \A k \in Buffer : ~Shows(m, Slot(k, bt), nx)'
  /\ \A m \in 0 .. (y + 1) : \A w : Shows(m, bottom_, w)' => w <= b

\* The stores of push() show so.
LEMMA PushViews ==
  ASSUME DequeInv, Push, NEW z, z = Len(stores), NEW f, f = [i \in Window |-> At(i)],
         NEW bt, bt = b, NEW nx, nx = next,
         NEW h \in Buffer, NEW y \in Nat, PushStores(z, y, h, f)
  PROVE  AfterPush(z, y, h, f, bt, nx)
<1> USE DEF PushStores
<1>0. TypeOK /\ BoundsOK /\ ValuesOK /\ Partition /\ UNCHANGED mem
  BY DEF DequeInv, Push
<1>1. top \in Nat /\ b \in Nat /\ next \in Nat /\ Own \in Buffer /\ stores \in Seq(Store)
  BY <1>0, DequeAssumption DEF TypeOK, BoundsOK
<1>2. PICK r : r = stores'
  OBVIOUS
<1>3. PICK k0 : k0 = Own
  OBVIOUS
<1>4. PICK tp : tp = top
  OBVIOUS
<1>7. PICK M : M = mem
  OBVIOUS
<1>8. /\ Window = tp .. (bt - 1) /\ k0 \in Buffer /\ tp \in Nat /\ bt \in Nat /\ nx \in Nat
      /\ Pushed(r, z, y, h, k0, tp .. (bt - 1), f, bt, nx)
      /\ bt + 1 - tp <= Capacity(h) /\ Capacity(h) \in Nat
  BY <1>1, <1>2, <1>3, <1>4 DEF Window
<1>9. \A m, l, w : Shows(m, l, w)' <=> Sees(r, M, m, l, w)
  BY <1>0, <1>2, <1>7 DEF Shows
<1>10. ASSUME NEW m \in 0 .. z, NEW l, NEW w
       PROVE  Shows(m, l, w)' <=> Shows(m, l, w)
  <2>1. m \in Nat /\ \A n \in 1 .. m : stores[n] = r[n]
    BY <1>2
  <2>2. Sees(stores, M, m, l, w) <=> Sees(r, M, m, l, w)
    BY <2>1, SeesPrefix
  <2> QED
    BY <1>7, <1>9, <2>2 DEF Shows
<1>11. ASSUME NEW k \in Buffer, NEW i \in Window, NEW m \in z .. (y + 2), NEW p \in m .. (y + 2),
              Shows(m, Slot(k, i), f[i])'
       PROVE  Shows(p, Slot(k, i), f[i])'
  <2>1. Sees(r, M, m, Slot(k, i), f[i]) /\ i \in tp .. (bt - 1)
    BY <1>8, <1>9, <1>11
  <2>2. Sees(r, M, p, Slot(k, i), f[i])
    BY <1>8, <2>1, PushedKeeps
  <2> QED
    BY <1>9, <2>2
<1>12. ShowsAll(r, M, z, k0, tp .. (bt - 1), f)
  <2>1. Sees(stores, mem, z, buffer_, k0) /\ z \in 0 .. z
    BY <1>1, <1>3, ViewIs, LatestSees DEF Own
  <2>2. Sees(r, M, z, buffer_, k0)
    BY <1>9, <1>10, <2>1 DEF Shows
  <2>3. ASSUME NEW i \in tp .. (bt - 1) PROVE Sees(r, M, z, Slot(k0, i), f[i])
    <3>1. f[i] = OwnView(Slot(k0, i))
      BY <1>3, <1>8 DEF At
    <3>2. Sees(stores, mem, z, Slot(k0, i), f[i])
      BY <1>1, <3>1, ViewIs, LatestSees
    <3> QED
      BY <1>9, <1>10, <2>1, <3>2 DEF Shows
  <2> QED
    BY <2>2, <2>3 DEF ShowsAll
<1>13. ASSUME NEW m \in z .. (y + 2)
       PROVE  /\ ShowsAll(r, M, m, k0, tp .. (bt - 1), f) \/ ShowsAll(r, M, m, h, tp .. (bt - 1), f)
              /\ m = y + 2 => ShowsAll(r, M, m, h, tp .. (bt - 1), f)
  BY <1>8, <1>12, PushedBuffer
<1>14. ASSUME NEW i \in Window, NEW m \in z .. (y + 2)
       PROVE  \E k \in Buffer : Shows(m, buffer_, k)' /\ Shows(m, Slot(k, i), f[i])'
  <2>1. PICK k \in Buffer : ShowsAll(r, M, m, k, tp .. (bt - 1), f)
    BY <1>8, <1>13
  <2>2. Sees(r, M, m, buffer_, k) /\ Sees(r, M, m, Slot(k, i), f[i])
    BY <1>8, <2>1 DEF ShowsAll
  <2> QED
    BY <1>9, <2>2
<1>15. y + 2 \in z .. (y + 2) /\ Len(r) = y + 2 /\ r \in Seq(Store)
  BY <1>2
<1>16. ShowsAll(r, M, y + 2, h, tp .. (bt - 1), f)
  BY <1>13, <1>15
<1>17. /\ Sees(r, M, y + 2, bottom_, bt + 1)
       /\ Sees(r, M, y + 1, Slot(h, bt), nx) /\ Sees(r, M, y + 2, Slot(h, bt), nx)
  BY <1>8, PushedLast
<1>18. \A l : OwnView(l)' = Latest(r, M, l)
  BY <1>0, <1>2, <1>7 DEF OwnView, Latest
<1>19. Own' = h /\ OwnView(bottom_)' = bt + 1
  <2>1. Latest(r, M, buffer_) = h /\ Latest(r, M, bottom_) = bt + 1
    BY <1>15, <1>16, <1>17, LatestOnly DEF ShowsAll
  <2> QED
    BY <1>18, <2>1 DEF Own
<1>20. ASSUME NEW i \in Window PROVE At(i)' = f[i]
  <2>1. Sees(r, M, y + 2, Slot(h, i), f[i])
    BY <1>8, <1>16 DEF ShowsAll
  <2>2. Latest(r, M, Slot(h, i)) = f[i]
    BY <1>15, <2>1, LatestOnly
  <2>3. At(i)' = OwnView(Slot(h, i))'
    BY <1>19 DEF At
  <2> QED
    BY <1>18, <2>2, <2>3
<1>a. At(bt)' = nx
  <2>1. Latest(r, M, Slot(h, bt)) = nx
    BY <1>15, <1>17, LatestOnly
  <2>2. At(bt)' = OwnView(Slot(h, bt))'
    BY <1>19 DEF At
  <2> QED
    BY <1>18, <2>1, <2>2
<1>21. ASSUME NEW m \in 0 .. y, NEW k \in Buffer PROVE ~Shows(m, Slot(k, bt), nx)'
  <2>1. PICK l : l = Slot(k, bt)
    OBVIOUS
  <2>2. l \in Location /\ l # bottom_ /\ l # buffer_
    BY <1>8, <2>1, SlotLoc
  <2>3. M[l] \in 0 .. (nx - 1)
    BY <1>0, <1>7, <2>2 DEF ValuesOK, InRange
  <2>4. ASSUME NEW n \in 1 .. z, r[n].loc = l PROVE r[n].val \in 0 .. (nx - 1)
    <3>1. n \in DOMAIN stores /\ r[n] = stores[n]
      BY <1>1, <1>2
    <3>2. InRange(stores[n].loc, stores[n].val, b, next)
      BY <1>0, <3>1 DEF ValuesOK
    <3> QED
      BY <2>2, <2>4, <3>1, <3>2 DEF InRange
  <2>5. ASSUME NEW i \in tp .. (bt - 1) PROVE f[i] \in 0 .. (nx - 1)
    <3>1. i \in Window /\ f[i] = At(i)
      BY <1>8
    <3>2. At(i) \in 1 .. (next - 1)
      BY <1>0, <3>1, ItemIs
    <3> QED
      BY <1>1, <3>1, <3>2
  <2>6. ~Sees(r, M, m, l, nx)
    BY <1>8, <2>2, <2>3, <2>4, <2>5, PushedBefore
  <2> QED
    BY <1>9, <2>1, <2>6
<1>22. ASSUME NEW m \in 0 .. (y + 1), NEW w, Shows(m, bottom_, w)' PROVE w <= b
  <2>1. M[bottom_] <= bt
    BY <1>0, <1>7, PlainLoc DEF ValuesOK, InRange
  <2>2. ASSUME NEW n \in 1 .. z, r[n].loc = bottom_ PROVE r[n].val <= bt
    <3>1. n \in DOMAIN stores /\ r[n] = stores[n]
      BY <1>1, <1>2
    <3>2. InRange(stores[n].loc, stores[n].val, b, next)
      BY <1>0, <3>1 DEF ValuesOK
    <3> QED
      BY <2>2, <3>1, <3>2 DEF InRange
  <2>3. Sees(r, M, m, bottom_, w)
    BY <1>9, <1>22
  <2>4. w <= bt
    BY <1>8, <2>1, <2>2, <2>3, PushedBottom
  <2> QED
    BY <2>4
<1>23. Shows(y + 2, buffer_, h)' /\ \A m \in {y + 1, y + 2} : Shows(m, Slot(h, bt), nx)'
  BY <1>9, <1>16, <1>17 DEF ShowsAll
<1>24. OwnView(bottom_)' = b + 1
  BY <1>19
<1> QED
  BY <1>10, <1>11, <1>14, <1>19, <1>20, <1>a, <1>21, <1>22, <1>23, <1>24 DEF AfterPush

\* push() keeps the invariant.
LEMMA PushInv ==
  ASSUME DequeInv, Push
  PROVE  DequeInv'
<1>0. TypeOK /\ BoundsOK /\ ValuesOK /\ Kept /\ Published /\ ThiefOK /\ Partition
  BY DEF DequeInv
<1>c. /\ opc = "idle" /\ next <= MaxItems /\ b' = b + 1 /\ next' = next + 1
      /\ UNCHANGED <<top, mem, opc, oldTop, spc, t, buf, ptr, taken>>
  BY DEF Push, thiefVars
<1>n. top \in Nat /\ b \in Nat /\ next \in Nat /\ top <= b /\ b < next /\ MaxItems \in Nat
  BY <1>0, DequeAssumption DEF TypeOK, BoundsOK
<1>z. PICK z : z = Len(stores)
  OBVIOUS
<1>f. PICK f : f = [i \in Window |-> At(i)]
  OBVIOUS
<1>b. PICK bt : bt = b
  OBVIOUS
<1>x. PICK nx : nx = next
  OBVIOUS
<1>q. PICK h \in Buffer, y \in Nat : PushStores(z, y, h, f)
  BY <1>z, <1>f, PushIs
<1>p. /\ h \in Buffer /\ y \in Nat
      /\ z \in Nat /\ z <= y
      /\ stores' \in Seq(Store) /\ Len(stores') = y + 2
      /\ \A n \in 1 .. z : stores[n] = stores'[n]
      /\ Pushed(stores', z, y, h, Own, Window, f, b, next)
      /\ b + 1 - top <= Capacity(h) /\ Capacity(h) \in Nat
  BY <1>q DEF PushStores
<1>w. AfterPush(z, y, h, f, bt, nx)
  BY <1>z, <1>f, <1>b, <1>x, <1>q, PushViews
<1>v. /\ \A m \in 0 .. z : \A l, w : Shows(m, l, w)' <=> Shows(m, l, w)
      /\ \A k \in Buffer, i \in Window : \A m \in z .. (y + 2) : \A p \in m .. (y + 2) :
           Shows(m, Slot(k, i), f[i])' => Shows(p, Slot(k, i), f[i])'
      /\ \A i \in Window : \A m \in z .. (y + 2) :
           \E k \in Buffer : Shows(m, buffer_, k)' /\ Shows(m, Slot(k, i), f[i])'
      /\ Own' = h /\ OwnView(bottom_)' = b + 1
      /\ \A i \in Window : At(i)' = f[i]
      /\ At(bt)' = nx
      /\ Shows(y + 2, buffer_, h)'
      /\ \A m \in {y + 1, y + 2} : Shows(m, Slot(h, bt), nx)'
      /\ \A m \in 0 .. y : \A k \in Buffer : ~Shows(m, Slot(k, bt), nx)'
      /\ \A m \in 0 .. (y + 1) : \A w : Shows(m, bottom_, w)' => w <= b
  BY <1>w DEF AfterPush
<1>k. \A k \in Buffer, i \in Window : \A m \in z .. (y + 2) : \A p \in m .. (y + 2) :
        Shows(m, Slot(k, i), f[i])' => Shows(p, Slot(k, i), f[i])'
  BY <1>v
<1>1. /\ Window' = Window \cup {bt} /\ bt \notin Window /\ bt \in Nat
      /\ \A i \in Window : i \in Nat /\ f[i] = At(i) /\ At(i)' = f[i]
  BY <1>n, <1>c, <1>b, <1>f, <1>v DEF Window
<1>2. At(bt)' = nx
  BY <1>v
<1>3. ASSUME NEW i \in Window, NEW m \in z .. (y + 2) PROVE Good(m, i)'
  <2>1. PICK k \in Buffer : Shows(m, buffer_, k)' /\ Shows(m, Slot(k, i), f[i])'
    BY <1>v
  <2> QED
    BY <1>1, <2>1 DEF Good
<1>4. ASSUME NEW i \in Window, NEW m \in 0 .. z PROVE Good(m, i)' <=> Good(m, i)
  <2>1. At(i)' = At(i)
    BY <1>1
  <2> QED
    BY <1>v, <2>1 DEF Good
<1>5. TypeOK'
  BY <1>0, <1>c, <1>n, <1>p DEF TypeOK
<1>6. BoundsOK'
  <2>1. top' <= b' /\ b' < next' /\ b' - top' <= Capacity(h)
    BY <1>c, <1>n, <1>p
  <2> QED
    BY <1>0, <1>c, <1>p, <1>v, <2>1 DEF BoundsOK
<1>7. Kept'
  <2> SUFFICES ASSUME NEW k \in Buffer, NEW i \in Window', NEW m \in 0 .. Len(stores'),
                      NEW p \in m .. Len(stores'), NEW a, a = At(i)', Shows(m, Slot(k, i), a)'
               PROVE  Shows(p, Slot(k, i), a)'
    BY DEF Kept
  <2>0. m \in 0 .. (y + 2) /\ p \in m .. (y + 2)
    BY <1>p
  <2>1. CASE i \in Window
    <3>1. a = f[i] /\ a = At(i)
      BY <1>1, <2>1
    <3>2. CASE m \in z .. (y + 2)
      <4>1. Shows(m, Slot(k, i), f[i])'
        BY <3>1
      <4>2. Shows(p, Slot(k, i), f[i])'
        BY <1>k, <2>0, <2>1, <3>2, <4>1
      <4> QED
        BY <3>1, <4>2
    <3>3. CASE m \in 0 .. z
      <4>1. Shows(m, Slot(k, i), a)
        BY <1>v, <3>3
      <4>2. \A x \in m .. z : Shows(x, Slot(k, i), a)
        BY <1>0, <1>z, <2>1, <3>1, <3>3, <4>1 DEF Kept
      <4>3. \A x \in m .. z : Shows(x, Slot(k, i), a)'
        <5> TAKE x \in m .. z
        <5>1. x \in 0 .. z
          BY <1>p, <3>3
        <5> QED
          BY <1>v, <4>2, <5>1
      <4>4. CASE p \in m .. z
        BY <4>3, <4>4
      <4>5. CASE p \in z .. (y + 2)
        <5>1. z \in m .. z /\ z \in z .. (y + 2)
          BY <1>p, <3>3
        <5>2. Shows(z, Slot(k, i), f[i])'
          BY <3>1, <4>3, <5>1
        <5>3. Shows(p, Slot(k, i), f[i])'
          BY <1>k, <2>1, <4>5, <5>1, <5>2
        <5> QED
          BY <3>1, <5>3
      <4> QED
        BY <1>p, <2>0, <3>3, <4>4, <4>5
    <3> QED
      BY <1>p, <2>0, <3>2, <3>3
  <2>2. CASE i = bt
    <3>1. a = nx
      BY <1>2, <2>2
    <3>2. m \in {y + 1, y + 2}
      <4>1. m \notin 0 .. y
        BY <1>v, <2>2, <3>1
      <4> QED
        BY <1>p, <2>0, <4>1
    <3>3. CASE p = m
      BY <3>3
    <3>4. CASE p # m
      <4>1. m = y + 1 /\ p = y + 2
        BY <2>0, <3>2, <3>4
      <4>2. Sees(stores', mem', y + 1, Slot(k, bt), nx)
        BY <2>2, <3>1, <4>1 DEF Shows
      <4>3. stores'[y + 2].loc # Slot(k, bt)
        BY <1>1, <1>p, SlotLoc DEF Pushed
      <4>4. \A n \in ((y + 1) + 1) .. (y + 2) : stores'[n].loc # Slot(k, bt)
        <5> TAKE n \in ((y + 1) + 1) .. (y + 2)
        <5>1. n = y + 2
          BY <1>p
        <5> QED  BY <4>3, <5>1
      <4>5. y + 1 \in Nat /\ y + 2 \in Nat /\ y + 1 <= y + 2
        BY <1>p
      <4>6. Sees(stores', mem', y + 2, Slot(k, bt), nx)
        BY <4>2, <4>4, <4>5, SeesOn
      <4> QED
        BY <2>2, <3>1, <4>1, <4>6 DEF Shows
    <3> QED
      BY <3>3, <3>4
  <2> QED
    BY <1>1, <2>1, <2>2
<1>8. Good(y + 2, bt)'
  BY <1>2, <1>v, <1>p DEF Good
<1>9. Published'
  <2> SUFFICES ASSUME NEW i \in Window', NEW m \in 0 .. Len(stores'), NEW w \in Int,
                      Shows(m, bottom_, w)', i < w, NEW p \in m .. Len(stores')
               PROVE  Good(p, i)'
    BY DEF Published
  <2>0. m \in 0 .. (y + 2) /\ p \in m .. (y + 2)
    BY <1>p
  <2>1. CASE i \in Window
    <3>1. CASE p \in z .. (y + 2)
      BY <1>3, <2>1, <3>1
    <3>2. CASE p \in 0 .. z
      <4>1. m \in 0 .. z /\ p \in m .. z
        BY <1>p, <2>0, <3>2
      <4>2. Shows(m, bottom_, w)
        BY <1>v, <4>1
      <4>3. Good(p, i)
        BY <1>0, <1>z, <2>1, <4>1, <4>2 DEF Published
      <4> QED
        BY <1>4, <2>1, <3>2, <4>3
    <3> QED
      BY <1>p, <2>0, <3>1, <3>2
  <2>2. CASE i = bt
    <3>1. m \notin 0 .. (y + 1)
      BY <1>b, <1>n, <1>v, <2>2
    <3>2. p = y + 2
      BY <1>p, <2>0, <3>1
    <3> QED
      BY <1>8, <2>2, <3>2
  <2> QED
    BY <1>1, <2>1, <2>2
<1>10. ThiefOK'
  <2> SUFFICES ASSUME NEW s \in Stealer, NEW i \in Nat, t'[s] = i, top' = i
               PROVE  /\ spc'[s] \in {"buffer", "slot", "cas"} => i < b'
                      /\ spc'[s] = "buffer" => \A m \in 0 .. Len(stores') : Good(m, i)'
                      /\ spc'[s] = "slot" => mem'[Slot(buf'[s], i)] = At(i)'
                      /\ spc'[s] = "cas" => ptr'[s] = At(i)'
    BY DEF ThiefOK
  <2>1. /\ spc[s] \in {"buffer", "slot", "cas"} => i < b
        /\ spc[s] = "buffer" => \A m \in 0 .. z : Good(m, i)
        /\ spc[s] = "slot" => mem[Slot(buf[s], i)] = At(i)
        /\ spc[s] = "cas" => ptr[s] = At(i)
    BY <1>0, <1>c, <1>z DEF ThiefOK
  <2>2. CASE spc[s] \notin {"buffer", "slot", "cas"}
    BY <1>c, <2>2
  <2>3. CASE spc[s] \in {"buffer", "slot", "cas"}
    <3>1. i \in Window /\ i < b'
      BY <1>c, <1>n, <2>1, <2>3 DEF Window
    <3>2. At(i)' = At(i)
      BY <1>1, <3>1
    <3>3. ASSUME spc'[s] = "buffer", NEW m \in 0 .. Len(stores') PROVE Good(m, i)'
      <4>1. m \in 0 .. z \/ m \in z .. (y + 2)
        BY <1>p
      <4>2. m \in 0 .. z => Good(m, i)
        BY <1>c, <2>1, <3>3
      <4> QED
        BY <1>3, <1>4, <3>1, <4>1, <4>2
    <3> QED
      BY <1>c, <2>1, <3>1, <3>2, <3>3
  <2> QED
    BY <2>2, <2>3
<1>11. ValuesOK'
  <2>1. ASSUME NEW l, NEW v \in Int, InRange(l, v, b, next) PROVE InRange(l, v, b', next')
    BY <1>c, <1>n, <2>1 DEF InRange
  <2>2. ASSUME NEW l \in Location PROVE InRange(l, mem'[l], b', next')
    BY <1>0, <1>c, <2>1 DEF ValuesOK, TypeOK
  <2>3. ASSUME NEW n \in DOMAIN stores'
        PROVE  InRange(stores'[n].loc, stores'[n].val, b', next')
    <3>0. n \in 1 .. (y + 2)
      BY <1>p
    <3>1. CASE n \in 1 .. z
      <4>0. stores \in Seq(Store) /\ stores'[n] = stores[n] /\ n \in DOMAIN stores
        BY <1>0, <1>p, <1>z, <3>1 DEF TypeOK
      <4>1. n \in DOMAIN stores /\ stores'[n] = stores[n] /\ stores[n].val \in Int
        <5>1. stores[n] \in Store
          BY <4>0
        <5> QED
          BY <4>0, <5>1 DEF Store
      <4>2. InRange(stores[n].loc, stores[n].val, b, next)
        BY <1>0, <4>1 DEF ValuesOK
      <4> QED
        BY <2>1, <4>1, <4>2
    <3>2. CASE n = y + 2
      <4>1. stores'[n].loc = bottom_ /\ stores'[n].val = b + 1
        BY <1>p, <3>2 DEF Pushed
      <4> QED
        BY <1>c, <1>n, <4>1, PlainLoc DEF InRange
    <3>3. CASE n = y + 1
      <4>1. stores'[n].loc = Slot(h, b) /\ stores'[n].val = next
        BY <1>p, <3>3 DEF Pushed
      <4> QED
        BY <1>c, <1>n, <1>p, <4>1, SlotLoc DEF InRange
    <3>4. CASE n \in (z + 1) .. y
      <4>1. Grown(stores', z, y, h, Window, f)
        BY <1>p, <3>4 DEF Pushed
      <4>2. CASE n = y
        <5>1. stores'[n].loc = buffer_ /\ stores'[n].val = h
          BY <4>1, <4>2 DEF Grown
        <5> QED
          BY <1>p, <5>1, PlainLoc DEF InRange
      <4>3. CASE n # y
        <5>1. n \in (z + 1) .. (y - 1)
          BY <1>p, <3>4, <4>3
        <5>2. PICK i \in Window : stores'[n].loc = Slot(h, i) /\ stores'[n].val = f[i]
          BY <4>1, <5>1 DEF Grown
        <5>3. i \in Nat /\ f[i] \in 1 .. (next - 1)
          BY <1>0, <1>1, ItemIs
        <5>4. f[i] \in 0 .. (next' - 1)
          BY <1>c, <1>n, <5>3
        <5> QED
          BY <1>p, <5>2, <5>3, <5>4, SlotLoc DEF InRange
      <4> QED
        BY <4>2, <4>3
    <3> QED
      BY <1>p, <3>0, <3>1, <3>2, <3>3, <3>4
  <2>4. OwnView(bottom_)' = IF opc' = "fence" THEN b' - 1 ELSE b'
    BY <1>c, <1>v
  <2> QED
    BY <2>2, <2>3, <2>4 DEF ValuesOK
<1>12. Partition'
  <2>1. \A i \in Window : At(i) \in 1 .. (next - 1)
    BY <1>0, ItemIs
  <2>2. \A i \in Window : At(i)' = At(i) /\ At(i) # nx
    BY <1>1, <1>n, <1>x, <2>1
  <2>3. \A i, j \in Window : At(i) = At(j) => i = j
    BY <1>0 DEF Partition
  <2>4. \A i, j \in Window' : At(i)' = At(j)' => i = j
    BY <1>1, <1>2, <2>2, <2>3
  <2>5. {At(i)' : i \in Window'} = {At(i) : i \in Window} \cup {nx}
    BY <1>1, <1>2, <2>2
  <2>6. /\ {At(i) : i \in Window} \cup taken = 1 .. (next - 1)
        /\ {At(i) : i \in Window} \cap taken = {}
    BY <1>0 DEF Partition
  <2>7. 1 .. (next' - 1) = (1 .. (next - 1)) \cup {nx} /\ nx \notin 1 .. (next - 1)
    BY <1>c, <1>n, <1>x
  <2>8. nx \notin taken
    BY <2>6, <2>7
  <2>9. /\ {At(i)' : i \in Window'} \cup taken' = 1 .. (next' - 1)
        /\ {At(i)' : i \in Window'} \cap taken' = {}
    BY <1>c, <2>5, <2>6, <2>7, <2>8
  <2> QED
    BY <2>4, <2>9 DEF Partition
<1> QED
  BY <1>5, <1>6, <1>7, <1>9, <1>10, <1>11, <1>12 DEF DequeInv

-----------------------------------------------------------------------------
(***************************************************************************)
(* The invariant holds.                                                    *)
(***************************************************************************)

\* It holds of an empty deque.
LEMMA InitInv == Init => DequeInv
<1> SUFFICES ASSUME Init PROVE DequeInv
  OBVIOUS
<1> USE DEF Init
<1>1. TypeOK
  <2>1. mem \in [Location -> Int]
    OBVIOUS
  <2>2. stores \in Seq(Store)
    OBVIOUS
  <2> QED
    BY <2>1, <2>2, DequeAssumption DEF TypeOK, nullptr
<1>2. mem[buffer_] = 1 /\ mem[bottom_] = 0 /\ 1 \in Buffer
  BY PlainLoc, DequeAssumption DEF Buffer
<1>3. \A l : OwnView(l) = mem[l]
  BY ViewIs, LatestEmpty
<1>4. Own = 1 /\ OwnView(bottom_) = 0
  BY <1>2, <1>3 DEF Own
<1>5. Window = {}
  BY DEF Window
<1>6. BoundsOK
  BY <1>2, <1>4, CapacityAssumption DEF BoundsOK, nullptr
<1>7. ValuesOK
  <2>1. ASSUME NEW l \in Location PROVE InRange(l, mem[l], b, next)
    BY <1>2, PlainLoc DEF InRange
  <2>2. DOMAIN stores = {}
    OBVIOUS
  <2> QED
    BY <1>4, <2>1, <2>2 DEF ValuesOK
<1>8. Kept /\ Published
  BY <1>5 DEF Kept, Published
<1>9. ThiefOK
  BY DEF ThiefOK
<1>10. Partition
  BY <1>5 DEF Partition
<1> QED
  BY <1>1, <1>6, <1>7, <1>8, <1>9, <1>10 DEF DequeInv

\* A step that changes nothing keeps it.
LEMMA StutterInv ==
  ASSUME DequeInv, UNCHANGED vars
  PROVE  DequeInv'
<1>0. TypeOK /\ BoundsOK /\ ValuesOK /\ Kept /\ Published /\ ThiefOK /\ Partition
  BY DEF DequeInv
<1>1. UNCHANGED <<top, mem, stores, b, opc, oldTop, spc, t, buf, ptr, taken, next>>
  BY DEF vars, ownerVars, thiefVars
<1>2. /\ \A l : OwnView(l)' = OwnView(l)
      /\ Own' = Own
      /\ \A i : At(i)' = At(i)
      /\ \A m, i : Good(m, i)' <=> Good(m, i)
  BY <1>1, SameViews
<1>3. Window' = Window
  BY <1>1 DEF Window
<1>4. TypeOK'
  BY <1>0, <1>1 DEF TypeOK
<1>5. BoundsOK'
  BY <1>0, <1>1, <1>2 DEF BoundsOK
<1>6. ValuesOK'
  BY <1>0, <1>1, <1>2 DEF ValuesOK
<1>7. Kept' /\ Published'
  BY <1>0, <1>1, <1>3, SameKept
<1>8. ThiefOK'
  BY <1>0, <1>1, <1>2 DEF ThiefOK
<1>9. Partition'
  BY <1>0, <1>1, <1>2, <1>3 DEF Partition
<1> QED
  BY <1>4, <1>5, <1>6, <1>7, <1>8, <1>9 DEF DequeInv

\* Every step keeps it, on a machine that commits stores in order.
LEMMA NextInv ==
  ASSUME StoreOrder = "tso", DequeInv, [Next]_vars
  PROVE  DequeInv'
<1>1. CASE Push
  BY <1>1, PushInv
<1>2. CASE PopBegin \/ PopEmpty \/ PopTake \/ PopLast \/ PopCas
  BY <1>2, PopInv
<1>3. CASE Commit
  BY <1>3, CommitInv
<1>4. ASSUME NEW s \in Stealer, Steal(s) PROVE DequeInv'
  BY <1>4, StealInv
<1>5. CASE UNCHANGED vars
  BY <1>5, StutterInv
<1> QED
  BY <1>1, <1>2, <1>3, <1>4, <1>5 DEF Next, Owner

\* So it is an invariant.
LEMMA Invariance ==
  ASSUME StoreOrder = "tso"
  PROVE  Spec => []DequeInv
<1>1. DequeInv /\ [Next]_vars => DequeInv'
  BY NextInv
<1> QED
  BY <1>1, InitInv, PTL DEF Spec

(***************************************************************************)
(* Every variable of the deque keeps its type: in particular a thief reads *)
(* buffers and items only, and indices and item numbers stay in range.     *)
(***************************************************************************)
THEOREM TypeCorrect ==
  ASSUME StoreOrder = "tso"
  PROVE  Spec => []TypeOK
BY Invariance, PTL DEF DequeInv

-----------------------------------------------------------------------------
(***************************************************************************)
(* The content of the deque.  ItemAt is At, for any memory and stores.     *)
(***************************************************************************)
ItemAt(q, M, i) == Latest(q, M, Slot(Latest(q, M, buffer_), i))

\* The content, now and after a step, index by index.
LEMMA ContentIs ==
  /\ Content = [n \in 1 .. (b - top) |-> ItemAt(stores, mem, top + n - 1)]
  /\ Content' = [n \in 1 .. (b' - top') |-> ItemAt(stores', mem', top' + n - 1)]
BY DEF Content, OwnView, ItemAt, Latest

\* At, likewise.
LEMMA AtIs ==
  \A i : At(i) = ItemAt(stores, mem, i) /\ At(i)' = ItemAt(stores', mem', i)
BY DEF At, Own, OwnView, ItemAt, Latest

\* It is a sequence of numbers.
LEMMA ContentSeq ==
  ASSUME DequeInv
  PROVE  /\ Content \in Seq(Int) /\ Len(Content) = b - top /\ b - top \in Nat
         /\ \A n \in 1 .. (b - top) :
              top + n - 1 \in Window /\ Content[n] = At(top + n - 1)
<1>0. TypeOK /\ BoundsOK /\ Partition
  BY DEF DequeInv
<1>1. top \in Nat /\ b \in Nat /\ top <= b /\ b - top \in Nat
  BY <1>0 DEF TypeOK, BoundsOK
<1>2. ASSUME NEW n \in 1 .. (b - top)
      PROVE  top + n - 1 \in Window /\ At(top + n - 1) \in Int
  <2>1. top + n - 1 \in Window
    BY <1>1 DEF Window
  <2> QED
    BY <1>0, <2>1, ItemIs DEF Item
<1>3. Content = [n \in 1 .. (b - top) |-> At(top + n - 1)]
  BY DEF Content, At, Own
<1>4. Content \in [1 .. (b - top) -> Int]
  BY <1>2, <1>3
<1>5. Content \in Seq(Int) /\ Len(Content) = b - top
  BY <1>1, <1>4
<1>6. \A n \in 1 .. (b - top) : Content[n] = At(top + n - 1)
  BY <1>3
<1> QED
  BY <1>1, <1>2, <1>5, <1>6

\* The window says where every item is.
LEMMA InvConserved == DequeInv => NeverDuplicateOrDropItems
<1> SUFFICES ASSUME DequeInv PROVE NeverDuplicateOrDropItems
  OBVIOUS
<1>0. TypeOK /\ BoundsOK /\ Partition
  BY DEF DequeInv
<1>1. top \in Nat /\ b \in Nat /\ top <= b
  BY <1>0 DEF TypeOK, BoundsOK
<1>2. PICK d : d = b - top
  OBVIOUS
<1>3. PICK c : c = Content
  OBVIOUS
<1>4. /\ c \in Seq(Int) /\ Len(c) = d /\ d \in Nat /\ DOMAIN c = 1 .. d
      /\ \A n \in 1 .. d : top + n - 1 \in Window /\ c[n] = At(top + n - 1)
  BY <1>2, <1>3, ContentSeq
<1>5. PICK S : S = {c[n] : n \in 1 .. d}
  OBVIOUS
<1>6. S = {At(i) : i \in Window}
  <2>1. \A i \in Window : i - top + 1 \in 1 .. d /\ top + (i - top + 1) - 1 = i
    BY <1>1, <1>2 DEF Window
  <2>2. ASSUME NEW i \in Window PROVE At(i) \in S
    BY <1>4, <1>5, <2>1
  <2>3. ASSUME NEW n \in 1 .. d PROVE c[n] \in {At(i) : i \in Window}
    BY <1>4
  <2> QED
    BY <1>5, <2>2, <2>3
<1>7. \A n, m \in 1 .. d : c[n] = c[m] => n = m
  <2> SUFFICES ASSUME NEW n \in 1 .. d, NEW m \in 1 .. d, c[n] = c[m] PROVE n = m
    OBVIOUS
  <2>1. top + n - 1 = top + m - 1
    BY <1>0, <1>4 DEF Partition
  <2> QED
    BY <1>1, <2>1
<1>8. Cardinality(S) = d
  <2>1. c \in [1 .. d -> S]
    BY <1>4, <1>5
  <2>2. c \in Bijection(1 .. d, S)
    BY <1>5, <1>7, <2>1 DEF Bijection, Injection, Surjection, IsInjective
  <2>3. ExistsBijection(1 .. d, S)
    BY <2>2 DEF ExistsBijection
  <2> QED
    BY <1>4, <2>3, FS_CountingElements
<1>9. S = {Content[n] : n \in DOMAIN Content}
  BY <1>3, <1>4, <1>5
<1>10. S \cup taken = 1 .. (next - 1) /\ S \cap taken = {}
  BY <1>0, <1>6 DEF Partition
<1> QED
  BY <1>3, <1>4, <1>8, <1>9, <1>10 DEF NeverDuplicateOrDropItems

(***************************************************************************)
(* Every item that was pushed is in the deque at one place or has been     *)
(* handed out once, for any number of thieves, any initial capacity and    *)
(* any number of push() calls.                                             *)
(***************************************************************************)
THEOREM ItemsConserved ==
  ASSUME StoreOrder = "tso"
  PROVE  Spec => []NeverDuplicateOrDropItems
BY Invariance, InvConserved, PTL

\* A thief that may still win has the item at the front.
LEMMA InvFront == DequeInv => ThiefHoldsFront
<1> SUFFICES ASSUME DequeInv, NEW s \in Stealer, spc[s] = "cas", t[s] = top
             PROVE  Content # << >> /\ ptr[s] = Content[1]
  BY DEF ThiefHoldsFront
<1>1. top \in Nat /\ b \in Nat
  BY DEF DequeInv, TypeOK
<1>2. top < b /\ ptr[s] = At(top)
  BY <1>1 DEF DequeInv, ThiefOK
<1>3. 1 \in 1 .. (b - top) /\ top + 1 - 1 = top
  BY <1>1, <1>2
<1>4. /\ Content \in Seq(Int) /\ Len(Content) = b - top
      /\ Content[1] = At(top)
  BY <1>3, ContentSeq
<1> QED
  BY <1>1, <1>2, <1>4

(***************************************************************************)
(* A thief whose compare-and-swap is going to succeed holds the item at    *)
(* the front, although it read bottom_, the buffer and the slot at         *)
(* different times and the owner may have grown the buffer in between.     *)
(***************************************************************************)
THEOREM FrontHeld ==
  ASSUME StoreOrder = "tso"
  PROVE  Spec => []ThiefHoldsFront
BY Invariance, InvFront, PTL

\* pop() reports "empty" of an empty deque only.
LEMMA EmptyStep ==
  ASSUME StoreOrder = "tso", DequeInv, [Next]_vars,
         opc # "idle", opc' = "idle", taken' = taken
  PROVE  Content = << >>
<1>0. TypeOK /\ BoundsOK /\ Partition
  BY DEF DequeInv
<1>1. top \in Nat /\ b \in Nat /\ top <= b
  BY <1>0 DEF TypeOK, BoundsOK
<1>2. top = b => Content = << >>
  BY <1>1, ContentSeq
<1>3. CASE PopEmpty
  BY <1>1, <1>2, <1>3 DEF PopEmpty, NoneLeft
<1>4. CASE PopTake
  <2>1. taken' = taken \cup {At(b - 1)} /\ b - 1 \in Window
    BY <1>1, <1>4 DEF PopTake, At, Own, Window
  <2>2. At(b - 1) \notin taken
    BY <1>0, <2>1, ItemIs
  <2> QED
    BY <2>1, <2>2
<1>5. CASE PopCas
  <2>1. oldTop = b - 1 /\ oldTop <= top
    BY <1>0, <1>5 DEF PopCas, BoundsOK
  <2>2. CASE top = oldTop
    <3>1. taken' = taken \cup {At(top)} /\ top \in Window
      BY <1>1, <1>5, <2>1, <2>2 DEF PopCas, PopWins, At, Own, Window
    <3>2. At(top) \notin taken
      BY <1>0, <3>1, ItemIs
    <3> QED
      BY <3>1, <3>2
  <2>3. CASE top # oldTop
    BY <1>1, <1>2, <2>1, <2>3
  <2> QED
    BY <2>2, <2>3
<1>6. CASE Push \/ PopBegin \/ PopLast \/ Commit \/ UNCHANGED vars
  BY <1>6 DEF Push, PopBegin, PopLast, Commit, vars, ownerVars
<1>7. ASSUME NEW s \in Stealer, Steal(s) PROVE opc' = opc
  BY <1>7 DEF Steal, StealTop, StealEmpty, StealBottom, StealBuffer, StealSlot, StealLose,
              StealWin, ownerVars
<1> QED
  BY <1>3, <1>4, <1>5, <1>6, <1>7 DEF Next, Owner

(***************************************************************************)
(* pop() returns without an item only when there is none, although it      *)
(* gives up on the last one when a thief wins the race for it.             *)
(***************************************************************************)
THEOREM EmptyIsEmpty ==
  ASSUME StoreOrder = "tso"
  PROVE  Spec => EmptyMeansEmpty
<1>1. DequeInv /\ [Next]_vars =>
        [opc # "idle" /\ opc' = "idle" /\ taken' = taken => Content = << >>]_vars
  BY EmptyStep
<1> QED
  BY <1>1, Invariance, PTL DEF Spec, EmptyMeansEmpty

-----------------------------------------------------------------------------
(***************************************************************************)
(* The deque implements WorkDeque: each step is a step of it, or changes   *)
(* nothing that it has.                                                    *)
(***************************************************************************)

\* Only push() brings an item.
LEMMA OldItems ==
  ASSUME StoreOrder = "tso", DequeInv, [Next]_vars, ~Push, NEW i \in Nat
  PROVE  ItemAt(stores', mem', i) = ItemAt(stores, mem, i)
<1>0. TypeOK /\ BoundsOK
  BY DEF DequeInv
<1>1. SUFFICES \A l \in Location : l # bottom_ => OwnView(l)' = OwnView(l)
  BY <1>0, <1>1, SameItems, AtIs
<1>2. b \in Int /\ b - 1 \in Int
  BY <1>0 DEF TypeOK
<1>3. CASE PopBegin \/ PopEmpty \/ PopLast
  <2>1. PICK v \in Int : stores' = Append(stores, Relaxed(bottom_, v)) /\ UNCHANGED mem
    BY <1>2, <1>3 DEF PopBegin, PopEmpty, PopLast
  <2> QED
    BY <1>0, <2>1, BottomViews
<1>4. CASE UNCHANGED <<stores, mem>>
  BY <1>4, SameViews
<1>5. CASE Commit
  BY <1>0, <1>5, CommitViews
<1>6. CASE PopTake \/ PopCas \/ UNCHANGED vars
  BY <1>4, <1>6 DEF PopTake, PopCas, vars, ownerVars
<1>7. ASSUME NEW s \in Stealer, Steal(s) PROVE UNCHANGED <<stores, mem>>
  BY <1>7 DEF Steal, StealTop, StealEmpty, StealBottom, StealBuffer, StealSlot, StealLose,
              StealWin, ownerVars
<1> QED
  BY <1>3, <1>4, <1>5, <1>6, <1>7 DEF Next, Owner

\* What a step other than push() does to the content, from top_ and bottom_.
LEMMA ContentStep ==
  ASSUME StoreOrder = "tso", DequeInv, [Next]_vars, ~Push
  PROVE  /\ top' = top /\ b' = b => Content' = Content
         /\ top' = top + 1 /\ b' = b /\ top < b =>
              Content' = SubSeq(Content, 2, Len(Content))
         /\ top' = top /\ b' = b - 1 /\ top < b =>
              Content' = SubSeq(Content, 1, Len(Content) - 1)
<1>1. top \in Nat /\ b \in Nat /\ top <= b
  BY DEF DequeInv, TypeOK, BoundsOK
<1>2. PICK F : F = [i \in Nat |-> ItemAt(stores, mem, i)]
  OBVIOUS
<1>3. \A i \in Nat : ItemAt(stores, mem, i) = F[i] /\ ItemAt(stores', mem', i) = F[i]
  BY <1>2, OldItems
<1>4. PICK d : d = b - top
  OBVIOUS
<1>5. PICK c : c = Content
  OBVIOUS
<1>6. c \in Seq(Int) /\ Len(c) = d /\ d \in Nat
  BY <1>4, <1>5, ContentSeq
<1>7. \A n \in 1 .. d : top + n - 1 \in Nat /\ c[n] = F[top + n - 1]
  BY <1>1, <1>3, <1>4, <1>5, ContentIs
<1>8. ASSUME top' = top, b' = b PROVE Content' = Content
  BY <1>1, <1>3, <1>8, ContentIs
<1>9. ASSUME top' = top + 1, b' = b, top < b PROVE Content' = SubSeq(Content, 2, Len(Content))
  <2>1. b' - top' = d - 1 /\ d > 0
    BY <1>1, <1>4, <1>9
  <2>2. Content' = [n \in 1 .. (d - 1) |-> c[n + 1]]
    <3>1. \A n \in 1 .. (d - 1) : /\ top' + n - 1 \in Nat /\ n + 1 \in 1 .. d
                                  /\ top' + n - 1 = top + (n + 1) - 1
      BY <1>1, <1>6, <1>9
    <3>2. \A n \in 1 .. (d - 1) : ItemAt(stores', mem', top' + n - 1) = c[n + 1]
      BY <1>3, <1>7, <3>1
    <3> QED
      BY <2>1, <3>2, ContentIs
  <2>3. SubSeq(c, 2, d) = [n \in 1 .. (d - 1) |-> c[n + 1]]
    BY <1>6, <2>1
  <2> QED
    BY <1>5, <1>6, <2>2, <2>3
<1>10. ASSUME top' = top, b' = b - 1, top < b
       PROVE  Content' = SubSeq(Content, 1, Len(Content) - 1)
  <2>1. b' - top' = d - 1 /\ d > 0
    BY <1>1, <1>4, <1>10
  <2>2. Content' = [n \in 1 .. (d - 1) |-> c[n]]
    <3>1. \A n \in 1 .. (d - 1) : top' + n - 1 \in Nat /\ n \in 1 .. d /\ top' = top
      BY <1>1, <1>6, <1>10
    <3>2. \A n \in 1 .. (d - 1) : ItemAt(stores', mem', top' + n - 1) = c[n]
      BY <1>3, <1>7, <3>1
    <3> QED
      BY <2>1, <3>2, ContentIs
  <2>3. SubSeq(c, 1, d - 1) = [n \in 1 .. (d - 1) |-> c[n]]
    BY <1>6, <2>1
  <2> QED
    BY <1>5, <1>6, <2>2, <2>3
<1> QED
  BY <1>8, <1>9, <1>10

\* push() adds its item at the back.
LEMMA PushContent ==
  ASSUME DequeInv, Push
  PROVE  Content' = Append(Content, next)
<1>1. top \in Nat /\ b \in Nat /\ top <= b
  BY DEF DequeInv, TypeOK, BoundsOK
<1>2. PICK d : d = b - top
  OBVIOUS
<1>3. PICK c : c = Content
  OBVIOUS
<1>4. /\ c \in Seq(Int) /\ Len(c) = d /\ d \in Nat
      /\ \A n \in 1 .. d : top + n - 1 \in Window /\ c[n] = At(top + n - 1)
  BY <1>2, <1>3, ContentSeq
<1>5. top' = top /\ b' = b + 1 /\ b' - top' = d + 1
  BY <1>1, <1>2 DEF Push
<1>6. PICK z : z = Len(stores)
  OBVIOUS
<1>7. PICK f : f = [i \in Window |-> At(i)]
  OBVIOUS
<1>8. PICK bt : bt = b
  OBVIOUS
<1>9. PICK nx : nx = next
  OBVIOUS
<1>10. PICK h \in Buffer, y \in Nat : PushStores(z, y, h, f)
  BY <1>6, <1>7, PushIs
<1>11. AfterPush(z, y, h, f, bt, nx)
  BY <1>6, <1>7, <1>8, <1>9, <1>10, PushViews
<1>12. (\A i \in Window : At(i)' = f[i]) /\ At(bt)' = nx
  BY <1>11 DEF AfterPush
<1>13. \A i \in Window : ItemAt(stores', mem', i) = At(i)
  BY <1>7, <1>12, AtIs
<1>14. ItemAt(stores', mem', bt) = nx
  BY <1>12, AtIs
<1>15. ASSUME NEW n \in 1 .. (d + 1)
       PROVE  ItemAt(stores', mem', top' + n - 1) = IF n = d + 1 THEN nx ELSE c[n]
  <2>1. CASE n = d + 1
    <3>1. top' + n - 1 = bt
      BY <1>1, <1>2, <1>5, <1>8, <2>1
    <3> QED
      BY <1>14, <2>1, <3>1
  <2>2. CASE n # d + 1
    <3>1. n \in 1 .. d
      BY <1>4, <2>2
    <3> QED
      BY <1>4, <1>5, <1>13, <2>2, <3>1
  <2> QED
    BY <2>1, <2>2
<1>16. Content' = [n \in 1 .. (d + 1) |-> IF n = d + 1 THEN nx ELSE c[n]]
  BY <1>5, <1>15, ContentIs
<1>17. Append(c, nx) = [n \in 1 .. (d + 1) |-> IF n = d + 1 THEN nx ELSE c[n]]
  <2>1. nx \in Int
    BY <1>9, DequeAssumption DEF DequeInv, TypeOK
  <2>2. PICK e : e = Append(c, nx)
    OBVIOUS
  <2>3. e \in Seq(Int) /\ Len(e) = d + 1 /\ DOMAIN e = 1 .. (d + 1)
    BY <1>4, <2>1, <2>2
  <2>4. \A n \in 1 .. (d + 1) : e[n] = IF n = d + 1 THEN nx ELSE c[n]
    BY <1>4, <2>1, <2>2
  <2>5. e = [n \in DOMAIN e |-> e[n]]
    BY <2>3
  <2> QED
    BY <2>2, <2>3, <2>4, <2>5
<1> QED
  BY <1>3, <1>9, <1>16, <1>17

\* Every step is one of WorkDeque, or changes nothing that it has.
LEMMA DequeStep ==
  ASSUME StoreOrder = "tso", DequeInv, [Next]_vars
  PROVE  [Deque!Next]_(Deque!vars)
<1>0. TypeOK /\ BoundsOK /\ Partition /\ ThiefOK
  BY DEF DequeInv
<1>1. top \in Nat /\ b \in Nat /\ top <= b
  BY <1>0 DEF TypeOK, BoundsOK
<1>2. PICK d : d = b - top
  OBVIOUS
<1>3. PICK c : c = Content
  OBVIOUS
<1>4. /\ c \in Seq(Int) /\ Len(c) = d /\ d \in Nat
      /\ \A n \in 1 .. d : top + n - 1 \in Window /\ c[n] = At(top + n - 1)
  BY <1>2, <1>3, ContentSeq
<1>5. top < b => d \in 1 .. d /\ 1 \in 1 .. d /\ c # << >> /\ c[1] = At(top) /\ c[d] = At(b - 1)
  <2> SUFFICES ASSUME top < b
               PROVE  d \in 1 .. d /\ 1 \in 1 .. d /\ c # << >> /\ c[1] = At(top) /\ c[d] = At(b - 1)
    OBVIOUS
  <2>1. d \in 1 .. d /\ 1 \in 1 .. d /\ c # << >> /\ top + 1 - 1 = top /\ top + d - 1 = b - 1
    BY <1>1, <1>2, <1>4
  <2> QED
    BY <1>4, <2>1
<1>6. CASE Push
  <2>1. Content' = Append(Content, next) /\ next <= MaxItems /\ next' = next + 1 /\ taken' = taken
    BY <1>6, PushContent DEF Push
  <2> QED
    BY <2>1 DEF Deque!Next, Deque!Push
<1>7. ASSUME ~Push, UNCHANGED <<top, b, taken, next>> PROVE UNCHANGED Deque!vars
  BY <1>7, ContentStep DEF Deque!vars
<1>8. ASSUME ~Push, top < b, top' = top + 1, taken' = taken \cup {At(top)}, UNCHANGED <<b, next>>
      PROVE  Deque!Steal
  <2>1. Content' = SubSeq(Content, 2, Len(Content))
    BY <1>8, ContentStep
  <2> QED
    BY <1>3, <1>5, <1>8, <2>1 DEF Deque!Steal
<1>9. ASSUME ~Push, top < b, b' = b - 1, taken' = taken \cup {At(b - 1)}, UNCHANGED <<top, next>>
      PROVE  Deque!Pop
  <2>1. Content' = SubSeq(Content, 1, Len(Content) - 1)
    BY <1>9, ContentStep
  <2> QED
    BY <1>3, <1>4, <1>5, <1>9, <2>1 DEF Deque!Pop
<1>10. CASE ~Push /\ PopTake
  <2>1. /\ top < b /\ b' = b - 1 /\ taken' = taken \cup {At(b - 1)} /\ UNCHANGED <<top, next>>
    BY <1>1, <1>10 DEF PopTake, At, Own
  <2> QED
    BY <1>9, <1>10, <2>1 DEF Deque!Next
<1>11. CASE ~Push /\ PopCas
  <2>1. oldTop = b - 1
    BY <1>0, <1>11 DEF PopCas, BoundsOK
  <2>2. CASE top = oldTop
    <3>1. top < b /\ top' = top + 1 /\ taken' = taken \cup {At(top)} /\ UNCHANGED <<b, next>>
      BY <1>1, <1>11, <2>1, <2>2 DEF PopCas, PopWins, At, Own
    <3> QED
      BY <1>8, <1>11, <3>1 DEF Deque!Next
  <2>3. CASE top # oldTop
    <3>1. UNCHANGED <<top, b, taken, next>>
      BY <1>11, <2>3 DEF PopCas, PopWins
    <3> QED
      BY <1>7, <1>11, <3>1
  <2> QED
    BY <2>2, <2>3
<1>12. CASE ~Push /\ (PopBegin \/ PopEmpty \/ PopLast \/ Commit \/ UNCHANGED vars)
  <2>1. UNCHANGED <<top, b, taken, next>>
    BY <1>12 DEF PopBegin, PopEmpty, PopLast, Commit, vars, ownerVars
  <2> QED
    BY <1>7, <1>12, <2>1
<1>13. ASSUME ~Push, NEW s \in Stealer, Steal(s) PROVE [Deque!Next]_(Deque!vars)
  <2>1. CASE StealWin(s)
    <3>1. top < b /\ ptr[s] = At(top)
      BY <1>0, <1>1, <2>1 DEF StealWin, ThiefOK
    <3>2. At(top) # nullptr
      BY <1>0, <1>1, <3>1, ItemIs DEF Window, nullptr
    <3>3. top' = top + 1 /\ taken' = taken \cup {At(top)} /\ UNCHANGED <<b, next>>
      BY <2>1, <3>1, <3>2 DEF StealWin, ownerVars
    <3> QED
      BY <1>8, <1>13, <3>1, <3>3 DEF Deque!Next
  <2>2. CASE ~StealWin(s)
    <3>1. UNCHANGED <<top, b, taken, next>>
      BY <1>13, <2>2 DEF Steal, StealTop, StealEmpty, StealBottom, StealBuffer, StealSlot,
                         StealLose, ownerVars
    <3> QED
      BY <1>7, <1>13, <3>1
  <2> QED
    BY <2>1, <2>2
<1> QED
  BY <1>6, <1>10, <1>11, <1>12, <1>13 DEF Next, Owner

(***************************************************************************)
(* push(), pop() and steal() take effect in one step each: the deque       *)
(* implements WorkDeque, for any number of thieves, capacities and calls.  *)
(***************************************************************************)
THEOREM Linearizable ==
  ASSUME StoreOrder = "tso"
  PROVE  Spec => Linearizes
<1>1. Init => Deque!Init
  <2> SUFFICES ASSUME Init PROVE Deque!Init
    OBVIOUS
  <2>1. Content = << >>
    BY DEF Init, Content
  <2> QED
    BY <2>1 DEF Init, Deque!Init
<1>2. DequeInv /\ [Next]_vars => [Deque!Next]_(Deque!vars)
  BY DequeStep
<1> QED
  BY <1>1, <1>2, Invariance, PTL DEF Spec, Linearizes, Deque!Spec

=============================================================================
