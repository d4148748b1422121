------------------------------ MODULE WorkDeque ------------------------------
(***************************************************************************)
(* What a work-stealing deque promises its users: push() adds at the back, *)
(* the owner's pop() removes at the back and reports "empty" only when     *)
(* there is nothing, steal() removes at the front, each in one step.  An   *)
(* item is a number, given out in the order of the push() calls.           *)
(***************************************************************************)
EXTENDS Naturals, Sequences

CONSTANT MaxItems    \* the number of push() calls considered

VARIABLES
  content,   \* the items in the deque, front first
  taken,     \* the items pop() and steal() have handed out
  next       \* the item the next push() brings

vars == <<content, taken, next>>

Init ==
  /\ content = << >>
  /\ taken = {}
  /\ next = 1

Push ==
  /\ next <= MaxItems
  /\ content' = Append(content, next)
  /\ next' = next + 1
  /\ UNCHANGED taken

Pop ==
  /\ content # << >>
  /\ content' = SubSeq(content, 1, Len(content) - 1)
  /\ taken' = taken \cup {content[Len(content)]}
  /\ UNCHANGED next

Steal ==
  /\ content # << >>
  /\ content' = SubSeq(content, 2, Len(content))
  /\ taken' = taken \cup {content[1]}
  /\ UNCHANGED next

Next == Push \/ Pop \/ Steal

Spec == Init /\ [][Next]_vars
=============================================================================
