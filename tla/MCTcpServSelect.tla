--------------------------- MODULE MCTcpServSelect ---------------------------
(***************************************************************************)
(* TcpServSelect for TLC; addresses are interchangeable.  Its lists are    *)
(* those of NetList, which is evaluated here for every list of up to three *)
(* nodes, with anything in the pointers of the nodes outside.              *)
(***************************************************************************)
EXTENDS TcpServSelect, NetList, TLC

Symmetry == Permutations(Nodes) \cup Permutations(Threads)

SmallLists == {s \in UNION {[1 .. n -> ListNode] : n \in 0 .. 3} : IsInjective(s)}

\* The list that represents s; outside, every pointer is the same.
ListOf(s, outside) ==
  LET Beside(d) == [n \in ListNode |->
        IF n \in Range(s) THEN NodeAt(s, (CHOOSE i \in DOMAIN s : s[i] = n) + d)
        ELSE outside]
  IN [HEAD |-> NodeAt(s, 1), TAIL |-> NodeAt(s, Len(s)), count |-> Len(s),
      next |-> Beside(1), prev |-> Beside(-1)]

\* Inserting, appending and deleting do to the sequence what they should.
ASSUME ListsRight ==
  \A s \in SmallLists, outside \in Pointer :
    LET l == ListOf(s, outside) IN
    /\ Represents(l, s) /\ Represents(ListInit(l), <<>>) /\ Represents(ListFree(l), <<>>)
    /\ \A n \in ListNode \ Range(s) :
         /\ \A k \in 0 .. Len(s) :
              Represents(ListInsert(l, NodeAt(s, k), n), InsertAt(s, k + 1, n))
         /\ Represents(ListAdd(l, n), Append(s, n))
    /\ \A k \in DOMAIN s : Represents(ListDelete(l, s[k]), RemoveAt(s, k))
=============================================================================
