------------------------------- MODULE NetList -------------------------------
(***************************************************************************)
(* TzhNetList of zhNet_Core: a doubly linked list of nodes that the caller *)
(* allocates.  A list is a record: node.next and node.prev of the header   *)
(* are its two ends, next and prev the pointers in the memory of all       *)
(* nodes, of those outside the list too, where they hold anything.         *)
(***************************************************************************)
EXTENDS Integers, Sequences

CONSTANTS
  ListNode,  \* addresses of TzhNetNode
  NULL

ASSUME ListAssumption == NULL \notin ListNode

Pointer == ListNode \cup {NULL}
ListHeader == [HEAD : Pointer, TAIL : Pointer, count : Int,
               next : [ListNode -> Pointer], prev : [ListNode -> Pointer]]

ListInit(l) == [l EXCEPT !.HEAD = NULL, !.TAIL = NULL, !.count = 0]

\* What zhNetListFree leaves; the memory of the nodes is given back.
ListFree(l) == IF l.count <= 0 THEN l ELSE ListInit(l)

\* The pointer of one node is set; of none, when the node is NULL.
Point(pointers, n, value) ==
  [m \in ListNode |-> IF m = n THEN value ELSE pointers[m]]

\* The node that pNode comes before when it is inserted behind pPrev.
pNext(l, pPrev) == IF pPrev = NULL THEN l.HEAD ELSE l.next[pPrev]

ListInsert(l, pPrev, pNode) ==
  [ HEAD  |-> IF pPrev = NULL THEN pNode ELSE l.HEAD,
    TAIL  |-> IF pNext(l, pPrev) = NULL THEN pNode ELSE l.TAIL,
    count |-> l.count + 1,
    next  |-> Point(Point(l.next, pPrev, pNode), pNode, pNext(l, pPrev)),
    prev  |-> Point(Point(l.prev, pNext(l, pPrev), pNode), pNode, pPrev) ]

ListAdd(l, pNode) == ListInsert(l, l.TAIL, pNode)

\* The pointers of pNode itself stay.
ListDelete(l, pNode) ==
  LET before == l.prev[pNode]
      behind == l.next[pNode] IN
  [ HEAD  |-> IF before = NULL THEN behind ELSE l.HEAD,
    TAIL  |-> IF behind = NULL THEN before ELSE l.TAIL,
    count |-> l.count - 1,
    next  |-> Point(l.next, before, behind),
    prev  |-> Point(l.prev, behind, before) ]

-----------------------------------------------------------------------------
(* What a list is for those who use it: a sequence of different nodes.      *)

\* The node at position i of s, NULL before and behind.
NodeAt(s, i) == IF i \in DOMAIN s THEN s[i] ELSE NULL

Represents(l, s) ==
  /\ s \in Seq(ListNode) /\ \A i, j \in DOMAIN s : s[i] = s[j] => i = j
  /\ l.HEAD = NodeAt(s, 1) /\ l.TAIL = NodeAt(s, Len(s)) /\ l.count = Len(s)
  /\ \A i \in DOMAIN s : /\ l.next[s[i]] = NodeAt(s, i + 1)
                         /\ l.prev[s[i]] = NodeAt(s, i - 1)

\* s with n behind its first k nodes, and without its node at k.
WithNode(s, k, n) ==
  [i \in 1 .. Len(s) + 1 |-> IF i <= k THEN s[i] ELSE IF i = k + 1 THEN n ELSE s[i - 1]]
WithoutNode(s, k) ==
  [i \in 1 .. Len(s) - 1 |-> IF i < k THEN s[i] ELSE s[i + 1]]
=============================================================================
