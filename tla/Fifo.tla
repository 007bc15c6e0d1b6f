--------------------------------- MODULE Fifo ---------------------------------
(***************************************************************************)
(* What CGCHDealQueMgr promises the threads that use it: one first-in      *)
(* first-out queue of at most Capacity items, that refuses an item only    *)
(* when it is full, and whose items are all taken in the end.              *)
(***************************************************************************)
EXTENDS Integers, Sequences

CONSTANTS Items, Capacity

VARIABLES
  queue,     \* the items inserted and not taken
  taken,     \* the item taken last
  accepted   \* what the last insertion returned

fifo == <<queue, taken, accepted>>

Init == queue = <<>> /\ taken \in Items /\ accepted = TRUE

Put(x) ==
  /\ Len(queue) < Capacity
  /\ queue' = Append(queue, x) /\ accepted' = TRUE
  /\ UNCHANGED taken

Refuse ==
  /\ Len(queue) >= Capacity
  /\ accepted' = FALSE
  /\ UNCHANGED <<queue, taken>>

Take ==
  /\ queue # <<>>
  /\ taken' = Head(queue) /\ queue' = Tail(queue)
  /\ UNCHANGED accepted

Next == (\E x \in Items : Put(x)) \/ Refuse \/ Take

SafeSpec == Init /\ [][Next]_fifo
Spec == SafeSpec /\ WF_fifo(Take)
=============================================================================
