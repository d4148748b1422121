---------------------------- MODULE ChaseLevDeque ----------------------------
(***************************************************************************)
(* include/wss/chase_lev_deque.hpp: one owner that pushes and pops at the  *)
(* bottom, and thieves that steal at the top, over a circular buffer that  *)
(* the owner doubles when it is full.                                      *)
(*                                                                         *)
(* The owner's stores become visible to the thieves later than it performs *)
(* them.  They wait in a store buffer, from which the machine commits them *)
(* to memory: in program order on x86 (StoreOrder = "tso"), in any order   *)
(* the memory_order arguments of the code allow on a machine such as ARM   *)
(* (StoreOrder = "weak").  A thief's loads are all acquire loads and stay  *)
(* in order.  A fence, and a compare-and-swap, waits for the owner's       *)
(* stores.                                                                 *)
(*                                                                         *)
(* An item is a boxed T*: a number, given out in the order of the push()   *)
(* calls.  A buffer is its place in retired_, which never shrinks.         *)
(*                                                                         *)
(* An operator Bug_... is the definition after it with a plausible mistake *)
(* in it; no specification uses one.  The properties are shown to notice.  *)
(***************************************************************************)
EXTENDS Integers, Sequences, FiniteSets

CONSTANTS
  Stealer,            \* the owner's peers
  initial_capacity,   \* the constructor's argument
  MaxItems,           \* the number of push() calls considered
  MaxBuffers,         \* a bound on the length of retired_
  StoreOrder          \* "tso" or "weak"

RoundUpPow2(v) == CHOOSE p \in 1 .. (2 * v) :
  /\ p >= v
  /\ \E k \in 0 .. v : p = 2 ^ k
  /\ \A k \in 0 .. v : 2 ^ k >= v => p <= 2 ^ k

Capacity(k) == RoundUpPow2(initial_capacity) * 2 ^ (k - 1)

ASSUME DequeAssumption ==
  /\ initial_capacity \in Nat \ {0}
  /\ MaxItems \in Nat
  /\ MaxBuffers \in Nat \ {0}
  /\ Capacity(MaxBuffers) >= MaxItems
  /\ StoreOrder \in {"tso", "weak"}

nullptr == 0
Item == 1 .. MaxItems
Buffer == 1 .. MaxBuffers

\* What the arithmetic of powers of two comes to: a buffer has room, and the
\* next one has twice as much.
ASSUME CapacityAssumption ==
  \A k \in Buffer :
    /\ Capacity(k) \in Nat \ {0}
    /\ k + 1 \in Buffer => Capacity(k + 1) = 2 * Capacity(k)

\* The memory locations that the owner writes.
bottom_ == <<"bottom", 0, 0>>
buffer_ == <<"buffer", 0, 0>>
\* buf->slots[buf->index(i)], where i & mask is i modulo the capacity.
Slot(k, i) == <<"slot", k, i % Capacity(k)>>
Location == {bottom_, buffer_} \cup
            UNION {{Slot(k, i) : i \in 0 .. (Capacity(k) - 1)} : k \in Buffer}

VARIABLES
  top,       \* top_
  mem,       \* what the thieves see of the owner's stores
  stores,    \* the owner's stores that are not visible yet, oldest first
  b,         \* the owner's own idea of bottom_, outside pop()
  opc,       \* where the owner is
  oldTop,    \* the top_ that pop() read when it found one item
  spc,       \* where each thief is in steal()
  t,         \* the top_ each thief read
  buf,       \* the buffer it read
  ptr,       \* the slot it read
  taken,     \* the items pop() and steal() have handed out
  next       \* the item the next push() brings

ownerVars == <<stores, b, opc, oldTop>>
thiefVars == <<spc, t, buf, ptr>>
vars == <<top, mem, ownerVars, thiefVars, taken, next>>

Store == [loc : Location, val : Int, release : BOOLEAN]

TypeOK ==
  /\ top \in 0 .. MaxItems
  /\ mem \in [Location -> Int]
  /\ stores \in Seq(Store)
  /\ b \in 0 .. MaxItems
  /\ opc \in {"idle", "fence", "cas"}
  /\ oldTop \in 0 .. MaxItems
  /\ spc \in [Stealer -> {"idle", "bottom", "buffer", "slot", "cas"}]
  /\ t \in [Stealer -> 0 .. MaxItems]
  /\ buf \in [Stealer -> {nullptr} \cup Buffer]
  /\ ptr \in [Stealer -> {nullptr} \cup Item]
  /\ taken \subseteq Item
  /\ next \in 1 .. (MaxItems + 1)

Init ==
  /\ top = 0
  /\ mem = [l \in Location |-> IF l = buffer_ THEN 1 ELSE 0]
  /\ stores = << >>
  /\ b = 0
  /\ opc = "idle"
  /\ oldTop = 0
  /\ spc = [s \in Stealer |-> "idle"]
  /\ t = [s \in Stealer |-> 0]
  /\ buf = [s \in Stealer |-> nullptr]
  /\ ptr = [s \in Stealer |-> nullptr]
  /\ taken = {}
  /\ next = 1

-----------------------------------------------------------------------------
(***************************************************************************)
(* The store buffer.                                                       *)
(***************************************************************************)

Relaxed(l, v) == [loc |-> l, val |-> v, release |-> FALSE]
Release(l, v) == [loc |-> l, val |-> v, release |-> TRUE]

\* The owner reads its own latest store.
OwnView(l) ==
  LET mine == {n \in DOMAIN stores : stores[n].loc = l}
  IN  IF mine = {} THEN mem[l]
      ELSE stores[CHOOSE n \in mine : \A m \in mine : m <= n].val

\* May the n-th pending store become visible before the older ones?  Not if
\* one of them is to the same location, and not if it is a release store.
MayCommit(n) ==
  IF StoreOrder = "tso" THEN n = 1
  ELSE \A m \in 1 .. (n - 1) :
         ~stores[n].release /\ stores[m].loc # stores[n].loc

Commit ==
  \E n \in DOMAIN stores :
    /\ MayCommit(n)
    /\ mem' = [mem EXCEPT ![stores[n].loc] = stores[n].val]
    /\ stores' = SubSeq(stores, 1, n - 1) \o SubSeq(stores, n + 1, Len(stores))
    /\ UNCHANGED <<top, b, opc, oldTop, thiefVars, taken, next>>

Fence == stores = << >>

-----------------------------------------------------------------------------
(***************************************************************************)
(* The owner.                                                              *)
(***************************************************************************)

\* An off-by-one in push(): the buffer is grown one item too late.
Bug_FullLate(k) == b - top > Capacity(k)

Full(k) == b - top > Capacity(k) - 1

\* The stores of grow(): the window is copied to a buffer of twice the size,
\* then the new buffer is published.
GrowStores(k) ==
  [n \in 1 .. (b - top) |->
     Release(Slot(k + 1, top + n - 1), OwnView(Slot(k, top + n - 1)))]
  \o << Release(buffer_, k + 1) >>

Push ==
  LET k == OwnView(buffer_)
      grow == Full(k)
      into == IF grow THEN k + 1 ELSE k
  IN  /\ opc = "idle"
      /\ next <= MaxItems
      /\ stores' = stores
                   \o (IF grow THEN GrowStores(k) ELSE << >>)
                   \o << Release(Slot(into, b), next), Relaxed(bottom_, b + 1) >>
      /\ b' = b + 1
      /\ next' = next + 1
      /\ UNCHANGED <<top, mem, opc, oldTop, thiefVars, taken>>

\* pop() up to its fence.
PopBegin ==
  /\ opc = "idle"
  /\ stores' = Append(stores, Relaxed(bottom_, b - 1))
  /\ opc' = "fence"
  /\ UNCHANGED <<top, mem, b, oldTop, thiefVars, taken, next>>

\* The load of top_ has been moved before the fence.
Bug_PopNoFence == TRUE

PopFence == Fence

\* t >= b instead of t > b.
Bug_NoneLeftEarly == top >= b - 1

NoneLeft == top > b - 1

\* After the fence pop() loads top_.  There was nothing: restore bottom_.
PopEmpty ==
  /\ opc = "fence"
  /\ PopFence
  /\ NoneLeft
  /\ stores' = Append(stores, Relaxed(bottom_, b))
  /\ opc' = "idle"
  /\ UNCHANGED <<top, mem, b, oldTop, thiefVars, taken, next>>

\* More than one item: the last one belongs to the owner.
PopTake ==
  /\ opc = "fence"
  /\ PopFence
  /\ top < b - 1
  /\ b' = b - 1
  /\ taken' = taken \cup {OwnView(Slot(OwnView(buffer_), b - 1))}
  /\ opc' = "idle"
  /\ UNCHANGED <<top, mem, stores, oldTop, thiefVars, next>>

\* One item: restore bottom_ and race the thieves for it.
PopLast ==
  /\ opc = "fence"
  /\ PopFence
  /\ top = b - 1
  /\ oldTop' = top
  /\ stores' = Append(stores, Relaxed(bottom_, b))
  /\ opc' = "cas"
  /\ UNCHANGED <<top, mem, b, thiefVars, taken, next>>

\* The owner takes the last item without asking.
Bug_PopNoCas == TRUE

PopWins == top = oldTop

PopCas ==
  /\ opc = "cas"
  /\ Fence
  /\ IF PopWins
       THEN /\ top' = top + 1
            /\ taken' = taken \cup {OwnView(Slot(OwnView(buffer_), oldTop))}
       ELSE UNCHANGED <<top, taken>>
  /\ opc' = "idle"
  /\ oldTop' = 0
  /\ UNCHANGED <<mem, stores, b, thiefVars, next>>

-----------------------------------------------------------------------------
(***************************************************************************)
(* A thief s: one action for each shared access of steal().                *)
(***************************************************************************)

StealTop(s) ==
  /\ spc[s] = "idle"
  /\ t' = [t EXCEPT ![s] = top]
  /\ spc' = [spc EXCEPT ![s] = "bottom"]
  /\ UNCHANGED <<top, mem, ownerVars, buf, ptr, taken, next>>

\* steal() returns; what it had read is gone.
Leave(s) ==
  /\ spc' = [spc EXCEPT ![s] = "idle"]
  /\ t' = [t EXCEPT ![s] = 0]
  /\ buf' = [buf EXCEPT ![s] = nullptr]
  /\ ptr' = [ptr EXCEPT ![s] = nullptr]

\* t > b instead of t >= b.
Bug_SeesEmptyLate(s) == t[s] > mem[bottom_]

SeesEmpty(s) == t[s] >= mem[bottom_]

StealEmpty(s) ==
  /\ spc[s] = "bottom"
  /\ SeesEmpty(s)
  /\ Leave(s)
  /\ UNCHANGED <<top, mem, ownerVars, taken, next>>

StealBottom(s) ==
  /\ spc[s] = "bottom"
  /\ ~SeesEmpty(s)
  /\ spc' = [spc EXCEPT ![s] = "buffer"]
  /\ UNCHANGED <<top, mem, ownerVars, t, buf, ptr, taken, next>>

StealBuffer(s) ==
  /\ spc[s] = "buffer"
  /\ buf' = [buf EXCEPT ![s] = mem[buffer_]]
  /\ spc' = [spc EXCEPT ![s] = "slot"]
  /\ UNCHANGED <<top, mem, ownerVars, t, ptr, taken, next>>

StealSlot(s) ==
  /\ spc[s] = "slot"
  /\ ptr' = [ptr EXCEPT ![s] = mem[Slot(buf[s], t[s])]]
  /\ spc' = [spc EXCEPT ![s] = "cas"]
  /\ UNCHANGED <<top, mem, ownerVars, t, buf, taken, next>>

StealLose(s) ==
  /\ spc[s] = "cas"
  /\ top # t[s]
  /\ Leave(s)
  /\ UNCHANGED <<top, mem, ownerVars, taken, next>>

\* The thief has won index t[s].  A null pointer is returned as "nothing".
StealWin(s) ==
  /\ spc[s] = "cas"
  /\ top = t[s]
  /\ top' = top + 1
  /\ taken' = IF ptr[s] = nullptr THEN taken ELSE taken \cup {ptr[s]}
  /\ Leave(s)
  /\ UNCHANGED <<mem, ownerVars, next>>

Owner == Push \/ PopBegin \/ PopEmpty \/ PopTake \/ PopLast \/ PopCas

Steal(s) ==
  \/ StealTop(s) \/ StealEmpty(s) \/ StealBottom(s)
  \/ StealBuffer(s) \/ StealSlot(s) \/ StealLose(s) \/ StealWin(s)

Next == Owner \/ Commit \/ \E s \in Stealer : Steal(s)

Spec == Init /\ [][Next]_vars

-----------------------------------------------------------------------------
\* What is in the deque, as its owner sees it.
Content == [n \in 1 .. (b - top) |-> OwnView(Slot(OwnView(buffer_), top + n - 1))]

(***************************************************************************)
(* tests/chase_lev_deque_test.cpp, 69-71: every item pushed is observed    *)
(* exactly once, by the owner's pop() or a peer's steal().  So at any time *)
(* the items pushed are those in the deque, each once, and those handed    *)
(* out, and no item is both.                                               *)
(***************************************************************************)
NeverDuplicateOrDropItems ==
  LET inside == {Content[n] : n \in DOMAIN Content} IN
    /\ inside \cup taken = 1 .. (next - 1)
    /\ inside \cap taken = {}
    /\ Cardinality(inside) = Len(Content)

(***************************************************************************)
(* A thief that is going to win its compare-and-swap holds the item at the *)
(* front, although it read bottom_, buffer_ and the slot at different      *)
(* times: a buffer that has been replaced keeps the items of its window,   *)
(* and the owner reuses no slot that a thief may still win.                *)
(***************************************************************************)
ThiefHoldsFront ==
  \A s \in Stealer : spc[s] = "cas" /\ t[s] = top =>
    Content # << >> /\ ptr[s] = Content[1]

(***************************************************************************)
(* The owner's pop() gives up on the last item only when a thief has it:   *)
(* "empty" is never reported of a deque that holds something.              *)
(***************************************************************************)
EmptyMeansEmpty ==
  [][opc # "idle" /\ opc' = "idle" /\ taken' = taken => Content = << >>]_vars

(***************************************************************************)
(* push(), pop() and steal() take effect in one step each.                 *)
(***************************************************************************)
Deque == INSTANCE WorkDeque WITH content <- Content

Linearizes == Deque!Spec
=============================================================================
