---------------------------- MODULE TcpServProofs ----------------------------
(***************************************************************************)
(* Proofs about TcpServSelect, for any number of users, threads, and any   *)
(* limits: types, limits, no stranded user, one Disconnect per connection. *)
(***************************************************************************)
EXTENDS TcpServSelect, SequenceTheorems, TLAPS

-----------------------------------------------------------------------------
(* Lists. *)

\* zhNetListDelete: what is left when element i is taken out of a list.
LEMMA Removed ==
  ASSUME NEW S, NEW s \in Seq(S), NEW i \in DOMAIN s
  PROVE  /\ RemoveAt(s, i) \in Seq(S)
         /\ Len(RemoveAt(s, i)) = Len(s) - 1
         /\ Range(RemoveAt(s, i)) \subseteq Range(s)
         /\ Range(s) \ {s[i]} \subseteq Range(RemoveAt(s, i))
         /\ \A j \in 1 .. Len(s) - 1 :
              RemoveAt(s, i)[j] = IF j < i THEN s[j] ELSE s[j + 1]
         /\ IsInjective(s) => /\ IsInjective(RemoveAt(s, i))
                              /\ s[i] \notin Range(RemoveAt(s, i))
<1> DEFINE a == SubSeq(s, 1, i - 1)
           b == SubSeq(s, i + 1, Len(s))
           r == RemoveAt(s, i)
<1>1. /\ Len(s) \in Nat /\ DOMAIN s = 1 .. Len(s) /\ i \in 1 .. Len(s)
      /\ \A j \in 1 .. Len(s) : s[j] \in S
  BY LenProperties
<1>2. /\ a \in Seq(S) /\ Len(a) = i - 1
      /\ \A j \in 1 .. i - 1 : a[j] = s[j]
  <2>1. \A j \in 1 .. i - 1 : s[j] \in S
    BY <1>1
  <2>2. 1 \in Int /\ i - 1 \in Int /\ (IF 1 <= i - 1 THEN i - 1 - 1 + 1 ELSE 0) = i - 1
    BY <1>1
  <2>3. \A j \in 1 .. i - 1 - 1 + 1 : a[j] = s[1 + j - 1]
    BY <2>1, <2>2, SubSeqProperties
  <2> QED BY <1>1, <2>1, <2>2, <2>3, SubSeqProperties
<1>3. /\ b \in Seq(S) /\ Len(b) = Len(s) - i
      /\ \A j \in 1 .. Len(s) - i : b[j] = s[i + j]
  <2>1. \A j \in i + 1 .. Len(s) : s[j] \in S
    BY <1>1
  <2>2. /\ i + 1 \in Int /\ Len(s) \in Int
        /\ (IF i + 1 <= Len(s) THEN Len(s) - (i + 1) + 1 ELSE 0) = Len(s) - i
    BY <1>1
  <2>3. \A j \in 1 .. Len(s) - (i + 1) + 1 : b[j] = s[i + 1 + j - 1]
    BY <2>1, <2>2, SubSeqProperties
  <2> QED BY <1>1, <2>1, <2>2, <2>3, SubSeqProperties
<1>4. /\ r \in Seq(S) /\ Len(r) = Len(s) - 1 /\ DOMAIN r = 1 .. Len(s) - 1
      /\ \A j \in 1 .. Len(s) - 1 : r[j] = IF j < i THEN s[j] ELSE s[j + 1]
  <2>1. /\ r \in Seq(S) /\ Len(r) = Len(a) + Len(b)
        /\ \A j \in 1 .. Len(a) + Len(b) :
             r[j] = IF j <= Len(a) THEN a[j] ELSE b[j - Len(a)]
    BY <1>2, <1>3, ConcatProperties DEF RemoveAt
  <2>2. ASSUME NEW j \in 1 .. Len(s) - 1
        PROVE  r[j] = IF j < i THEN s[j] ELSE s[j + 1]
    <3>1. CASE j < i
      BY <1>1, <1>2, <1>3, <2>1, <3>1
    <3>2. CASE ~(j < i)
      <4>1. j - (i - 1) \in 1 .. Len(s) - i /\ i + (j - (i - 1)) = j + 1
        BY <1>1, <3>2
      <4>2. /\ j \in 1 .. Len(a) + Len(b) /\ ~(j <= Len(a))
            /\ j - Len(a) = j - (i - 1)
        BY <1>1, <1>2, <1>3, <3>2
      <4>3. r[j] = b[j - Len(a)]
        BY <2>1, <4>2
      <4> QED BY <1>3, <3>2, <4>1, <4>2, <4>3
    <3> QED BY <3>1, <3>2
  <2>3. Len(a) + Len(b) = Len(s) - 1
    BY <1>1, <1>2, <1>3
  <2>4. DOMAIN r = 1 .. Len(r)
    BY <2>1, LenProperties
  <2>5. Len(r) = Len(s) - 1
    BY <2>1, <2>3
  <2> QED BY <2>1, <2>2, <2>4, <2>5
<1>5. Range(r) \subseteq Range(s)
  <2> SUFFICES ASSUME NEW j \in 1 .. Len(s) - 1 PROVE r[j] \in Range(s)
    BY <1>4 DEF Range
  <2>1. j \in 1 .. Len(s) /\ j + 1 \in 1 .. Len(s)
    BY <1>1
  <2> QED BY <1>1, <1>4, <2>1 DEF Range
<1>6. Range(s) \ {s[i]} \subseteq Range(r)
  <2> SUFFICES ASSUME NEW j \in 1 .. Len(s), s[j] # s[i] PROVE s[j] \in Range(r)
    BY <1>1 DEF Range
  <2>1. CASE j < i
    <3>1. j \in 1 .. Len(s) - 1
      BY <1>1, <2>1
    <3>2. r[j] = s[j]
      BY <1>4, <2>1, <3>1
    <3> QED BY <1>4, <3>1, <3>2 DEF Range
  <2>2. CASE ~(j < i)
    <3>1. j - 1 \in 1 .. Len(s) - 1 /\ ~(j - 1 < i) /\ j - 1 + 1 = j
      BY <1>1, <2>2
    <3>2. r[j - 1] = s[j]
      BY <1>4, <3>1
    <3> QED BY <1>4, <3>1, <3>2 DEF Range
  <2> QED BY <2>1, <2>2
<1>7. ASSUME IsInjective(s)
      PROVE  IsInjective(r) /\ s[i] \notin Range(r)
  <2>1. \A j, k \in 1 .. Len(s) : s[j] = s[k] => j = k
    BY <1>1, <1>7 DEF IsInjective
  <2>2. IsInjective(r)
    <3> SUFFICES ASSUME NEW j \in 1 .. Len(s) - 1, NEW k \in 1 .. Len(s) - 1, r[j] = r[k]
                 PROVE  j = k
      BY <1>4 DEF IsInjective
    <3> DEFINE up(m) == IF m < i THEN m ELSE m + 1
    <3>1. up(j) \in 1 .. Len(s) /\ up(k) \in 1 .. Len(s)
      BY <1>1
    <3>2. s[up(j)] = s[up(k)]
      BY <1>4
    <3>3. up(j) = up(k)
      BY <2>1, <3>1, <3>2
    <3> QED BY <1>1, <3>3
  <2>3. s[i] \notin Range(r)
    <3> SUFFICES ASSUME NEW j \in 1 .. Len(s) - 1, r[j] = s[i] PROVE FALSE
      BY <1>4 DEF Range
    <3>1. CASE j < i
      BY <1>1, <1>4, <2>1, <3>1
    <3>2. CASE ~(j < i)
      <4>1. j + 1 \in 1 .. Len(s) /\ j + 1 # i /\ s[j + 1] = s[i]
        BY <1>1, <1>4, <3>2
      <4> QED BY <1>1, <2>1, <4>1
    <3> QED BY <3>1, <3>2
  <2> QED BY <2>2, <2>3
<1> QED BY <1>4, <1>5, <1>6, <1>7

\* zhNetListAdd: a list with an element added at its end.
LEMMA Appended ==
  ASSUME NEW S, NEW s \in Seq(S), NEW x \in S
  PROVE  /\ Append(s, x) \in Seq(S) /\ Len(Append(s, x)) = Len(s) + 1
         /\ Range(Append(s, x)) = Range(s) \cup {x}
         /\ IsInjective(s) /\ x \notin Range(s) => IsInjective(Append(s, x))
<1> DEFINE t == Append(s, x)
<1>1. /\ t \in Seq(S) /\ Len(t) = Len(s) + 1 /\ t[Len(s) + 1] = x
      /\ \A i \in 1 .. Len(s) : t[i] = s[i]
      /\ Len(s) \in Nat /\ DOMAIN s = 1 .. Len(s) /\ DOMAIN t = 1 .. Len(s) + 1
  BY AppendProperties, LenProperties
<1>2. 1 .. Len(s) + 1 = (1 .. Len(s)) \cup {Len(s) + 1}
  BY <1>1
<1>3. Range(t) \subseteq Range(s) \cup {x}
  BY <1>1, <1>2 DEF Range
<1>4. Range(s) \cup {x} \subseteq Range(t)
  BY <1>1, <1>2 DEF Range
<1>5. IsInjective(s) /\ x \notin Range(s) => IsInjective(t)
  BY <1>1, <1>2 DEF IsInjective, Range
<1> QED BY <1>1, <1>3, <1>4, <1>5

\* Both ways to say that a node is in a list.
LEMMA ContainsRange ==
  ASSUME NEW S, NEW s \in Seq(S), NEW x
  PROVE  Contains(s, x) <=> x \in Range(s)
BY LenProperties DEF Contains, Range

\* UserListAdd: the node is in the list, and the list is at most one longer.
LEMMA UserListAdded ==
  ASSUME NEW s \in Seq(Nodes), NEW n \in Nodes
  PROVE  /\ UserListAdd(s, n) \in Seq(Nodes)
         /\ Len(UserListAdd(s, n)) <= Len(s) + 1
         /\ Range(UserListAdd(s, n)) = Range(s) \cup {n}
<1>1. Len(s) \in Nat
  BY LenProperties
<1>2. CASE Contains(s, n)
  BY <1>1, <1>2, ContainsRange DEF UserListAdd
<1>3. CASE ~Contains(s, n)
  BY <1>1, <1>3, Appended DEF UserListAdd
<1> QED BY <1>2, <1>3

-----------------------------------------------------------------------------
(* Type correctness. *)

\* The accept thread keeps TypeOK.
LEMMA TypeAccept == TypeOK /\ AcceptThread => TypeOK'
<1> SUFFICES ASSUME TypeOK, AcceptThread PROVE TypeOK'
  OBVIOUS
<1> USE DEF TypeOK, Sessions, At, Goto, lists, locks
<1>1. CASE AcceptUser
  BY <1>1 DEF AcceptUser
<1>2. CASE ConnectAdd
  <2>1. PICK n \in Nodes :
          /\ sess[n] = "free" /\ sess' = [sess EXCEPT ![n] = "open"]
          /\ userList' = Append(userList, n) /\ unode' = n /\ left' = left \ {n}
          /\ \/ \E i \in FirstRoomy :
                  /\ group' = [group EXCEPT ![threadList[i]] = UserListAdd(@, n)]
                  /\ Goto(Accepter, "adding", "callback")
                  /\ UNCHANGED <<threadList, bThread>>
             \/ \E t \in Threads :
                  /\ threadList' = Append(threadList, t)
                  /\ bThread' = [bThread EXCEPT ![t] = TRUE]
                  /\ group' = [group EXCEPT ![t] = <<n>>]
                  /\ pc' = [pc EXCEPT ![Accepter] = "callback", ![t] = "top"]
    BY <1>2 DEF ConnectAdd
  <2>2. /\ userList' \in Seq(Nodes) /\ sess' \in [Nodes -> Sessions]
        /\ unode' \in Nodes \cup {Nobody} /\ left' \subseteq Nodes
    BY <2>1, Appended
  <2>3. /\ threadList' \in Seq(Threads) /\ group' \in [Threads -> Seq(Nodes)]
        /\ bThread' \in [Threads -> BOOLEAN]
        /\ pc' \in [Threads \cup {Accepter} ->
                 {"idle", "top", "scan", "exit", "listen", "adding", "callback", "send"}]
    <3>1. CASE \E i \in FirstRoomy :
                 /\ group' = [group EXCEPT ![threadList[i]] = UserListAdd(@, n)]
                 /\ Goto(Accepter, "adding", "callback")
                 /\ UNCHANGED <<threadList, bThread>>
      <4>1. PICK i \in DOMAIN threadList :
              group' = [group EXCEPT ![threadList[i]] = UserListAdd(@, n)]
        BY <3>1 DEF FirstRoomy
      <4>2. threadList[i] \in Threads /\ group[threadList[i]] \in Seq(Nodes)
        BY <4>1, LenProperties
      <4>3. UserListAdd(group[threadList[i]], n) \in Seq(Nodes)
        BY <4>2, UserListAdded
      <4> QED BY <3>1, <4>1, <4>2, <4>3
    <3>2. CASE \E t \in Threads :
                 /\ threadList' = Append(threadList, t)
                 /\ bThread' = [bThread EXCEPT ![t] = TRUE]
                 /\ group' = [group EXCEPT ![t] = <<n>>]
                 /\ pc' = [pc EXCEPT ![Accepter] = "callback", ![t] = "top"]
      <4>1. <<n>> \in Seq(Nodes)
        OBVIOUS
      <4> QED BY <3>2, <4>1, Appended
    <3> QED BY <2>1, <3>1, <3>2
  <2> QED BY <1>2, <2>2, <2>3 DEF ConnectAdd
<1>3. CASE AcceptCallback
  <2>1. FirstUser \in Nodes \cup {Nobody}
    BY HeadTailProperties DEF FirstUser
  <2> QED BY <1>3, <2>1 DEF AcceptCallback
<1>4. CASE SendNext
  <2> DEFINE at == {i \in 1 .. Len(userList) - 1 : userList[i] = pUser}
  <2>1. NextUser(pUser) \in Nodes \cup {Nobody}
    <3>1. CASE at = {}
      BY <3>1 DEF NextUser
    <3>2. CASE at # {}
      <4>1. (CHOOSE i \in at : TRUE) \in 1 .. Len(userList) - 1
        BY <3>2
      <4>2. 1 + (CHOOSE i \in at : TRUE) \in 1 .. Len(userList)
        BY <4>1, LenProperties
      <4>3. userList[1 + (CHOOSE i \in at : TRUE)] \in Nodes
        BY <4>2, LenProperties
      <4> QED BY <3>2, <4>3 DEF NextUser
    <3> QED BY <3>1, <3>2
  <2> QED BY <1>4, <2>1 DEF SendNext
<1>5. CASE SendDone
  BY <1>5 DEF SendDone
<1> QED BY <1>1, <1>2, <1>3, <1>4, <1>5 DEF AcceptThread

\* A processing thread keeps TypeOK.
LEMMA TypeProc == ASSUME NEW t \in Threads PROVE TypeOK /\ ProcThread(t) => TypeOK'
<1> SUFFICES ASSUME TypeOK, ProcThread(t) PROVE TypeOK'
  OBVIOUS
<1> USE DEF TypeOK, Sessions, At, Goto, lists, locks
<1>1. ASSUME AtUser(t) PROVE /\ User(t) \in Nodes /\ cursor[t] \in DOMAIN group[t]
                             /\ group[t] \in Seq(Nodes)
  BY <1>1, LenProperties DEF AtUser, User
<1>2. CASE BeginPass(t)
  BY <1>2 DEF BeginPass
<1>3. CASE VisitFreed(t)
  BY <1>3 DEF VisitFreed
<1>4. CASE DeleteUser(t)
  <2>1. PICK i \in DOMAIN userList :
          /\ userList' = RemoveAt(userList, i)
          /\ sess' = [sess EXCEPT ![userList[i]] = "free"]
    BY <1>4 DEF DeleteUser, FirstZeroSocket
  <2>2. userList' \in Seq(Nodes)
    BY <2>1, Removed
  <2>3. RemoveAt(group[t], cursor[t]) \in Seq(Nodes)
    BY <1>1, <1>4, Removed DEF DeleteUser
  <2> QED BY <1>4, <2>1, <2>2, <2>3 DEF DeleteUser
<1>5. CASE VisitOpen(t)
  <2>1. User(t) \in Nodes
    BY <1>1, <1>5 DEF VisitOpen
  <2>2. sess' \in [Nodes -> Sessions] /\ left' \subseteq Nodes
    BY <1>5, <2>1, Zenon DEF VisitOpen
  <2>3. cursor' \in [Threads -> Nat \ {0}]
    BY <1>5 DEF VisitOpen, Advance
  <2> QED BY <1>5, <2>2, <2>3, Zenon DEF VisitOpen
<1>6. CASE VisitShut(t)
  BY <1>1, <1>6 DEF VisitShut, Advance
<1>7. CASE EndPass(t)
  <2>1. (bThread[t] /\ group[t] # <<>>) \in BOOLEAN
    OBVIOUS
  <2>2. bThread' \in [Threads -> BOOLEAN]
    BY <1>7, <2>1, Zenon DEF EndPass
  <2>3. pc' \in [Threads \cup {Accepter} ->
               {"idle", "top", "scan", "exit", "listen", "adding", "callback", "send"}]
    BY <1>7 DEF EndPass
  <2> QED BY <1>7, <2>2, <2>3, Zenon DEF EndPass
<1>8. CASE LeaveLoop(t)
  BY <1>8 DEF LeaveLoop
<1>9. CASE ThreadDelete(t)
  <2>1. threadList' \in Seq(Threads)
    BY <1>9, Removed DEF ThreadDelete
  <2> QED BY <1>9, <2>1 DEF ThreadDelete
<1> QED BY <1>2, <1>3, <1>4, <1>5, <1>6, <1>7, <1>8, <1>9 DEF ProcThread

\* The server starts well typed.
LEMMA TypeInit == Init => TypeOK
<1> SUFFICES ASSUME Init PROVE TypeOK
  OBVIOUS
<1>1. <<>> \in Seq(Nodes) /\ <<>> \in Seq(Threads)
  BY EmptySeq
<1>2. userList \in Seq(Nodes) /\ threadList \in Seq(Threads)
      /\ group \in [Threads -> Seq(Nodes)]
  BY <1>1, Zenon DEF Init
<1>3. /\ sess \in [Nodes -> Sessions] /\ cursor \in [Threads -> Nat \ {0}]
      /\ pc \in [Threads \cup {Accepter} ->
               {"idle", "top", "scan", "exit", "listen", "adding", "callback", "send"}]
      /\ bThread \in [Threads -> BOOLEAN]
  BY DEF Init, Sessions
<1> QED BY <1>2, <1>3, Zenon DEF Init, TypeOK

\* The lists hold nodes, and the locks have owners, in every reachable state.
THEOREM Typing == Spec => []TypeOK
<1>1. TypeOK /\ [Next]_vars => TypeOK'
  <2>1. TypeOK /\ UNCHANGED vars => TypeOK'
    BY DEF TypeOK, vars, lists, locks
  <2> QED BY <2>1, TypeAccept, TypeProc DEF Next
<1> QED BY <1>1, TypeInit, PTL DEF Spec

-----------------------------------------------------------------------------
(***************************************************************************)
(* The three invariants together are inductive with what they leave unsaid:*)
(* the accept thread saw room before it took g_userCs, a node is in        *)
(* g_userList once, a thread that has left its loop, or never entered it,  *)
(* takes no users, and a session is Zero only after its Disconnect.        *)
(***************************************************************************)
Sound ==
  /\ Capacity /\ Served /\ DisconnectIsLast
  /\ IsInjective(userList)
  /\ \A t \in Threads : pc[t] \in {"idle", "exit"} => ~bThread[t]
  /\ pc[Accepter] = "adding" => Len(userList) < MaxConnected
  /\ \A n \in Nodes : sess[n] = "zero" => n \in left

\* Served, stated for nodes.
LEMMA OpenIsServed ==
  ASSUME TypeOK, Served, NEW n \in Nodes, sess[n] = "open"
  PROVE  \E t \in Threads :
           t \in Range(threadList) /\ bThread[t] /\ n \in Range(group[t])
<1>1. n \in Range(userList)
  BY DEF Served
<1>2. PICK i \in DOMAIN userList : userList[i] = n
  BY <1>1 DEF Range
<1>3. PICK t \in Range(threadList) : bThread[t] /\ Contains(group[t], n)
  BY <1>2 DEF Served
<1>4. t \in Threads
  BY <1>3, LenProperties DEF TypeOK, Range
<1>5. group[t] \in Seq(Nodes)
  BY <1>4 DEF TypeOK
<1> QED BY <1>3, <1>4, <1>5, ContainsRange

\* And back, for the state after a step.
LEMMA ServedAgain ==
  ASSUME TypeOK',
         Range(userList') = {n \in Nodes : sess'[n] # "free"},
         \A n \in Nodes : sess'[n] = "open" =>
           \E t \in Threads :
             t \in Range(threadList') /\ bThread'[t] /\ n \in Range(group'[t]),
         \A t \in Threads : ~bThread'[t] => group'[t] = <<>>
  PROVE  Served'
<1>1. ASSUME NEW i \in DOMAIN userList', sess'[userList'[i]] = "open"
      PROVE  \E t \in Range(threadList') : bThread'[t] /\ Contains(group'[t], userList'[i])
  <2>0. userList' \in Seq(Nodes)
    BY DEF TypeOK
  <2>1. userList'[i] \in Nodes
    BY <2>0, LenProperties
  <2>2. PICK t \in Threads :
          t \in Range(threadList') /\ bThread'[t] /\ userList'[i] \in Range(group'[t])
    BY <1>1, <2>1
  <2>3. group'[t] \in Seq(Nodes)
    BY DEF TypeOK
  <2>4. Contains(group'[t], userList'[i])
    BY <2>2, <2>3, LenProperties DEF Contains, Range
  <2> QED BY <2>2, <2>4
<1> QED BY <1>1 DEF Served

\* The server starts without users.
LEMMA SoundInit == Init => Sound
<1> SUFFICES ASSUME Init PROVE Sound
  OBVIOUS
<1>1. /\ userList = <<>> /\ Len(userList) = 0 /\ DOMAIN userList = {}
      /\ \A t \in Threads : group[t] = <<>> /\ Len(group[t]) = 0
  BY EmptySeq DEF Init
<1>2. Capacity
  BY <1>1, ServerAssumption DEF Capacity
<1>3. Served
  BY <1>1 DEF Init, Served, Range
<1>4. DisconnectIsLast
  BY DEF Init, DisconnectIsLast
<1>5. IsInjective(userList)
  BY <1>1 DEF IsInjective
<1> QED BY <1>2, <1>3, <1>4, <1>5, ServerAssumption DEF Init, Sound

\* The steps that change no list, no session and not who has left.
LEMMA SoundQuiet ==
  ASSUME TypeOK, Sound, UNCHANGED lists, UNCHANGED left,
         \A t \in Threads : pc'[t] \in {"idle", "exit"} => pc[t] = pc'[t] \/ ~bThread[t],
         pc'[Accepter] = "adding" => Len(userList) < MaxConnected
  PROVE  Sound'
BY DEF Sound, Capacity, Served, DisconnectIsLast, lists

\* Where ConnectAdd puts a new node: a thread that runs, is listed and has room.
LEMMA Placed ==
  ASSUME TypeOK, Sound, ConnectAdd,
         NEW n \in Nodes, userList' = Append(userList, n), unode' = n
  PROVE  \E t \in Threads :
           /\ t \in Range(threadList') /\ bThread'[t]
           /\ n \in Range(group'[t]) /\ Len(group'[t]) <= SplitSize
           /\ bThread[t] => Range(group[t]) \subseteq Range(group'[t])
           /\ Range(threadList) \subseteq Range(threadList')
           /\ \A u \in Threads \ {t} : group'[u] = group[u] /\ bThread'[u] = bThread[u]
           /\ \A u \in Threads : pc'[u] \in {"idle", "exit"} => u # t /\ pc[u] = pc'[u]
<1> USE DEF TypeOK, At, Goto
<1>0. Accepter \notin Threads
  BY ServerAssumption
<1>1. ASSUME NEW i \in FirstRoomy,
             group' = [group EXCEPT ![threadList[i]] = UserListAdd(@, n)],
             Goto(Accepter, "adding", "callback"), UNCHANGED <<threadList, bThread>>
      PROVE  \E t \in Threads :
               /\ t \in Range(threadList') /\ bThread'[t]
               /\ n \in Range(group'[t]) /\ Len(group'[t]) <= SplitSize
               /\ bThread[t] => Range(group[t]) \subseteq Range(group'[t])
               /\ Range(threadList) \subseteq Range(threadList')
               /\ \A u \in Threads \ {t} : group'[u] = group[u] /\ bThread'[u] = bThread[u]
               /\ \A u \in Threads : pc'[u] \in {"idle", "exit"} => u # t /\ pc[u] = pc'[u]
  <2> DEFINE t == threadList[i]
  <2>1. i \in DOMAIN threadList /\ bThread[t] /\ Len(group[t]) < SplitSize
    BY <1>1 DEF FirstRoomy, Roomy
  <2>2. t \in Threads /\ t \in Range(threadList) /\ group[t] \in Seq(Nodes)
    BY <2>1, LenProperties DEF Range
  <2>3. group'[t] = UserListAdd(group[t], n)
    BY <1>1, <2>2
  <2>4. n \in Range(group'[t]) /\ Range(group[t]) \subseteq Range(group'[t])
        /\ Len(group'[t]) <= Len(group[t]) + 1
    <3> HIDE DEF t
    <3>1. /\ Range(UserListAdd(group[t], n)) = Range(group[t]) \cup {n}
          /\ Len(UserListAdd(group[t], n)) <= Len(group[t]) + 1
      BY <2>2, UserListAdded
    <3> QED BY <2>3, <3>1
  <2>5. Len(group[t]) \in Nat /\ group'[t] \in Seq(Nodes) /\ Len(group'[t]) \in Nat
    BY <2>2, <2>3, UserListAdded, LenProperties
  <2>6. Len(group'[t]) <= SplitSize
    BY <2>1, <2>4, <2>5, ServerAssumption
  <2>7. \A u \in Threads \ {t} : group'[u] = group[u]
    BY <1>1
  <2>8. \A u \in Threads : pc'[u] \in {"idle", "exit"} => u # t /\ pc[u] = pc'[u]
    BY <1>0, <1>1, <2>1 DEF Sound
  <2> QED BY <1>1, <2>1, <2>2, <2>4, <2>6, <2>7, <2>8
<1>2. ASSUME NEW t \in Threads, pc[t] = "idle",
             threadList' = Append(threadList, t), bThread' = [bThread EXCEPT ![t] = TRUE],
             group' = [group EXCEPT ![t] = <<n>>],
             pc' = [pc EXCEPT ![Accepter] = "callback", ![t] = "top"]
      PROVE  \E v \in Threads :
               /\ v \in Range(threadList') /\ bThread'[v]
               /\ n \in Range(group'[v]) /\ Len(group'[v]) <= SplitSize
               /\ bThread[v] => Range(group[v]) \subseteq Range(group'[v])
               /\ Range(threadList) \subseteq Range(threadList')
               /\ \A u \in Threads \ {v} : group'[u] = group[u] /\ bThread'[u] = bThread[u]
               /\ \A u \in Threads : pc'[u] \in {"idle", "exit"} => u # v /\ pc[u] = pc'[u]
  <2>1. Range(threadList') = Range(threadList) \cup {t}
    BY <1>2, Appended
  <2>2. group'[t] = <<n>> /\ Len(group'[t]) = 1 /\ n \in Range(group'[t])
    BY <1>2 DEF Range
  <2>3. ~bThread[t] /\ bThread'[t]
    BY <1>2 DEF Sound
  <2>4. \A u \in Threads \ {t} : group'[u] = group[u] /\ bThread'[u] = bThread[u]
    BY <1>2
  <2>5. \A u \in Threads : pc'[u] \in {"idle", "exit"} => u # t /\ pc[u] = pc'[u]
    BY <1>0, <1>2
  <2>6. Len(group'[t]) <= SplitSize
    BY <2>2, ServerAssumption
  <2> QED BY <2>1, <2>2, <2>3, <2>4, <2>5, <2>6
<1> QED BY <1>1, <1>2 DEF ConnectAdd

\* A new user is counted, listed once, and served.
LEMMA SoundConnectAdd == TypeOK /\ TypeOK' /\ Sound /\ ConnectAdd => Sound'
<1> SUFFICES ASSUME TypeOK, TypeOK', Sound, ConnectAdd PROVE Sound'
  OBVIOUS
<1>1. PICK n \in Nodes :
        /\ sess[n] = "free" /\ sess' = [sess EXCEPT ![n] = "open"]
        /\ userList' = Append(userList, n) /\ unode' = n /\ left' = left \ {n}
  BY DEF ConnectAdd
<1>2. pc[Accepter] = "adding" /\ pc'[Accepter] = "callback"
  BY ServerAssumption DEF ConnectAdd, Goto, At, TypeOK
<1>3. PICK t \in Threads :
        /\ t \in Range(threadList') /\ bThread'[t]
        /\ n \in Range(group'[t]) /\ Len(group'[t]) <= SplitSize
        /\ bThread[t] => Range(group[t]) \subseteq Range(group'[t])
        /\ Range(threadList) \subseteq Range(threadList')
        /\ \A u \in Threads \ {t} : group'[u] = group[u] /\ bThread'[u] = bThread[u]
        /\ \A u \in Threads : pc'[u] \in {"idle", "exit"} => u # t /\ pc[u] = pc'[u]
  BY <1>1, Placed
<1>4. userList \in Seq(Nodes) /\ Len(userList) \in Nat /\ sess \in [Nodes -> Sessions]
  BY LenProperties DEF TypeOK
<1>5. n \notin Range(userList) /\ Range(userList) = {m \in Nodes : sess[m] # "free"}
  BY <1>1 DEF Sound, Served
<1>6. /\ Len(userList') = Len(userList) + 1 /\ IsInjective(userList')
      /\ Range(userList') = Range(userList) \cup {n}
  BY <1>1, <1>4, <1>5, Appended DEF Sound
<1>7. Capacity'
  <2>1. Len(userList') <= MaxConnected
    BY <1>2, <1>4, <1>6, ServerAssumption DEF Sound
  <2>2. \A u \in Threads : Len(group'[u]) <= SplitSize
    BY <1>3 DEF Sound, Capacity
  <2> QED BY <2>1, <2>2 DEF Capacity
<1>8. Served'
  <2>1. Range(userList') = {m \in Nodes : sess'[m] # "free"}
    BY <1>1, <1>4, <1>5, <1>6
  <2>2. ASSUME NEW m \in Nodes, sess'[m] = "open"
        PROVE  \E u \in Threads :
                 u \in Range(threadList') /\ bThread'[u] /\ m \in Range(group'[u])
    <3>1. CASE m = n
      BY <1>3, <3>1
    <3>2. CASE m # n
      <4>1. sess[m] = "open"
        BY <1>1, <1>4, <2>2, <3>2
      <4>2. PICK u \in Threads :
              u \in Range(threadList) /\ bThread[u] /\ m \in Range(group[u])
        BY <4>1, OpenIsServed DEF Sound
      <4>3. u \in Range(threadList') /\ bThread'[u] /\ m \in Range(group'[u])
        BY <1>3, <4>2
      <4> QED BY <4>3
    <3> QED BY <3>1, <3>2
  <2>3. \A u \in Threads : ~bThread'[u] => group'[u] = <<>>
    BY <1>3 DEF Sound, Served
  <2> QED BY <2>1, <2>2, <2>3, ServedAgain
<1>9. DisconnectIsLast'
  BY <1>1, <1>4 DEF Sound, DisconnectIsLast, TypeOK
<1>10. \A u \in Threads : pc'[u] \in {"idle", "exit"} => ~bThread'[u]
  BY <1>3 DEF Sound
<1>11. \A m \in Nodes : sess'[m] = "zero" => m \in left'
  BY <1>1, <1>4 DEF Sound, TypeOK
<1> QED BY <1>2, <1>6, <1>7, <1>8, <1>9, <1>10, <1>11 DEF Sound

\* A closed user leaves both lists; whichever node UserFind found, no open
\* session loses its thread.
LEMMA SoundDeleteUser ==
  ASSUME NEW t \in Threads
  PROVE  TypeOK /\ TypeOK' /\ Sound /\ DeleteUser(t) => Sound'
<1> SUFFICES ASSUME TypeOK, TypeOK', Sound, DeleteUser(t) PROVE Sound'
  OBVIOUS
<1>1. PICK i \in DOMAIN userList :
        /\ userList' = RemoveAt(userList, i)
        /\ sess' = [sess EXCEPT ![userList[i]] = "free"]
        /\ sess[userList[i]] \in {"shut", "zero"}
  BY DEF DeleteUser, FirstZeroSocket
<1> DEFINE d == userList[i]
<1>2. /\ userList \in Seq(Nodes) /\ Len(userList) \in Nat /\ sess \in [Nodes -> Sessions]
      /\ d \in Nodes
  BY LenProperties DEF TypeOK
<1>3. /\ Len(userList') = Len(userList) - 1 /\ IsInjective(userList')
      /\ Range(userList') = Range(userList) \ {d}
  <2>1. /\ Len(userList') = Len(userList) - 1 /\ IsInjective(userList')
        /\ Range(userList') \subseteq Range(userList) /\ d \notin Range(userList')
        /\ Range(userList) \ {d} \subseteq Range(userList')
    BY <1>1, <1>2, Removed DEF Sound
  <2> QED BY <2>1
<1>4. /\ group[t] \in Seq(Nodes) /\ cursor[t] \in DOMAIN group[t] /\ group[t] # <<>>
      /\ group' = [group EXCEPT ![t] = RemoveAt(@, cursor[t])]
      /\ sess[group[t][cursor[t]]] = "zero"
      /\ UNCHANGED <<threadList, bThread, pc, left>>
  BY DEF DeleteUser, AtUser, User, TypeOK
<1>5. /\ Len(group'[t]) = Len(group[t]) - 1
      /\ Range(group[t]) \ {group[t][cursor[t]]} \subseteq Range(group'[t])
      /\ Len(group[t]) \in Nat
      /\ \A u \in Threads \ {t} : group'[u] = group[u]
  <2>1. group'[t] = RemoveAt(group[t], cursor[t])
    BY <1>4 DEF TypeOK
  <2> QED BY <1>4, <2>1, Removed, LenProperties
<1>6. Capacity'
  <2>1. Len(userList') <= MaxConnected
    BY <1>2, <1>3, ServerAssumption DEF Sound, Capacity
  <2>2. Len(group'[t]) <= SplitSize
    BY <1>5, ServerAssumption DEF Sound, Capacity
  <2> QED BY <1>5, <2>1, <2>2 DEF Sound, Capacity
<1>7. Served'
  <2>1. Range(userList') = {m \in Nodes : sess'[m] # "free"}
    BY <1>1, <1>2, <1>3 DEF Sound, Served
  <2>2. ASSUME NEW m \in Nodes, sess'[m] = "open"
        PROVE  \E u \in Threads :
                 u \in Range(threadList') /\ bThread'[u] /\ m \in Range(group'[u])
    <3>1. sess[m] = "open"
      BY <1>1, <1>2, <2>2
    <3>2. PICK u \in Threads :
            u \in Range(threadList) /\ bThread[u] /\ m \in Range(group[u])
      BY <3>1, OpenIsServed DEF Sound
    <3>3. m # group[t][cursor[t]]
      BY <1>4, <3>1
    <3>4. m \in Range(group'[u])
      BY <1>5, <3>2, <3>3
    <3> QED BY <1>4, <3>2, <3>4
  <2>3. ASSUME NEW u \in Threads, ~bThread'[u] PROVE group'[u] = <<>>
    <3>1. ~bThread[u] /\ group[u] = <<>>
      BY <1>4, <2>3 DEF Sound, Served
    <3> QED BY <1>4, <1>5, <3>1
  <2> QED BY <2>1, <2>2, <2>3, ServedAgain
<1>8. DisconnectIsLast'
  BY <1>1, <1>2, <1>4 DEF Sound, DisconnectIsLast
<1>9. pc'[Accepter] = "adding" => Len(userList') < MaxConnected
  BY <1>2, <1>3, <1>4, ServerAssumption DEF Sound
<1>10. \A m \in Nodes : sess'[m] = "zero" => m \in left'
  BY <1>1, <1>2, <1>4 DEF Sound
<1> QED BY <1>3, <1>4, <1>6, <1>7, <1>8, <1>9, <1>10 DEF Sound

\* A visit closes or disconnects a session and takes it out of no list.
LEMMA SoundVisit ==
  ASSUME NEW t \in Threads
  PROVE  TypeOK /\ TypeOK' /\ Sound /\ (VisitOpen(t) \/ VisitShut(t)) => Sound'
<1> SUFFICES ASSUME TypeOK, TypeOK', Sound, VisitOpen(t) \/ VisitShut(t) PROVE Sound'
  OBVIOUS
<1>1. User(t) \in Nodes /\ sess[User(t)] \in {"open", "shut"}
  BY LenProperties DEF TypeOK, VisitOpen, VisitShut, AtUser, User
<1>2. UNCHANGED <<userList, threadList, group, bThread, pc>>
  BY DEF VisitOpen, VisitShut
<1>3. \/ sess' = sess /\ left' = left
      \/ sess' = [sess EXCEPT ![User(t)] = "shut"] /\ left' = left
      \/ sess' = [sess EXCEPT ![User(t)] = "zero"] /\ left' = left \cup {User(t)}
  BY DEF VisitOpen, VisitShut
<1>4. /\ \A n \in Nodes : sess'[n] = "free" <=> sess[n] = "free"
      /\ \A n \in Nodes : sess'[n] = "open" => sess[n] = "open"
  BY <1>1, <1>3 DEF TypeOK
<1>5. DisconnectIsLast'
  BY <1>1, <1>3 DEF Sound, DisconnectIsLast, TypeOK
<1>6. Served'
  <2>1. Range(userList') = {m \in Nodes : sess'[m] # "free"}
    BY <1>2, <1>4 DEF Sound, Served
  <2>2. \A m \in Nodes : sess'[m] = "open" =>
          \E u \in Threads :
            u \in Range(threadList') /\ bThread'[u] /\ m \in Range(group'[u])
    BY <1>2, <1>4, OpenIsServed DEF Sound
  <2>3. \A u \in Threads : ~bThread'[u] => group'[u] = <<>>
    BY <1>2 DEF Sound, Served
  <2> QED BY <2>1, <2>2, <2>3, ServedAgain
<1>7. \A m \in Nodes : sess'[m] = "zero" => m \in left'
  BY <1>1, <1>3 DEF Sound, TypeOK
<1> QED BY <1>2, <1>5, <1>6, <1>7 DEF Sound, Capacity

\* A group ends only when it is empty.
LEMMA SoundEndPass ==
  ASSUME NEW t \in Threads
  PROVE  TypeOK /\ TypeOK' /\ Sound /\ EndPass(t) => Sound'
<1> SUFFICES ASSUME TypeOK, TypeOK', Sound, EndPass(t) PROVE Sound'
  OBVIOUS
<1>1. /\ UNCHANGED <<userList, sess, threadList, group, left>>
      /\ bThread' = [bThread EXCEPT ![t] = @ /\ group[t] # <<>>]
      /\ pc' = [pc EXCEPT ![t] = "top"]
  BY DEF EndPass, Goto
<1>2. \A u \in Threads : u # t => bThread'[u] = bThread[u]
  BY <1>1 DEF TypeOK
<1>3. bThread'[t] = (bThread[t] /\ group[t] # <<>>)
  BY <1>1, Zenon DEF TypeOK
<1>4. Served'
  <2>1. ASSUME NEW m \in Nodes, sess'[m] = "open"
        PROVE  \E u \in Threads :
                 u \in Range(threadList') /\ bThread'[u] /\ m \in Range(group'[u])
    <3>1. PICK u \in Threads :
            u \in Range(threadList) /\ bThread[u] /\ m \in Range(group[u])
      BY <1>1, <2>1, OpenIsServed DEF Sound
    <3>2. group[u] # <<>>
      BY <3>1, EmptySeq DEF Range
    <3> QED BY <1>1, <1>2, <1>3, <3>1, <3>2
  <2>2. \A u \in Threads : ~bThread'[u] => group'[u] = <<>>
    BY <1>1, <1>2, <1>3 DEF Sound, Served
  <2>3. Range(userList') = {m \in Nodes : sess'[m] # "free"}
    BY <1>1 DEF Sound, Served
  <2> QED BY <2>1, <2>2, <2>3, ServedAgain
<1>5. Capacity' /\ DisconnectIsLast' /\ IsInjective(userList')
  BY <1>1 DEF Sound, Capacity, DisconnectIsLast
<1>6. /\ \A u \in Threads : pc'[u] \in {"idle", "exit"} => u # t /\ pc[u] = pc'[u]
      /\ pc'[Accepter] = pc[Accepter]
  BY <1>1, ServerAssumption DEF TypeOK
<1>7. \A u \in Threads : pc'[u] \in {"idle", "exit"} => ~bThread'[u]
  BY <1>2, <1>6 DEF Sound
<1> QED BY <1>1, <1>4, <1>5, <1>6, <1>7 DEF Sound

\* A thread that is taken from g_threadList serves nobody.
LEMMA SoundThreadDelete ==
  ASSUME NEW t \in Threads
  PROVE  TypeOK /\ TypeOK' /\ Sound /\ ThreadDelete(t) => Sound'
<1> SUFFICES ASSUME TypeOK, TypeOK', Sound, ThreadDelete(t) PROVE Sound'
  OBVIOUS
<1>1. /\ UNCHANGED <<userList, sess, group, bThread, left>>
      /\ pc[t] = "exit" /\ pc' = [pc EXCEPT ![t] = "idle"]
  BY DEF ThreadDelete, Goto, At
<1>2. PICK i \in DOMAIN threadList :
        threadList[i] = t /\ threadList' = RemoveAt(threadList, i)
  BY DEF ThreadDelete
<1>3. Range(threadList) \ {t} \subseteq Range(threadList')
  <2>1. threadList \in Seq(Threads)
    BY DEF TypeOK
  <2> QED BY <1>2, <2>1, Removed
<1>4. ~bThread[t]
  BY <1>1 DEF Sound
<1>5. Served'
  <2>1. ASSUME NEW m \in Nodes, sess'[m] = "open"
        PROVE  \E u \in Threads :
                 u \in Range(threadList') /\ bThread'[u] /\ m \in Range(group'[u])
    <3>1. PICK u \in Threads :
            u \in Range(threadList) /\ bThread[u] /\ m \in Range(group[u])
      BY <1>1, <2>1, OpenIsServed DEF Sound
    <3>2. u \in Range(threadList')
      BY <1>3, <1>4, <3>1
    <3> QED BY <1>1, <3>1, <3>2
  <2>2. \A u \in Threads : ~bThread'[u] => group'[u] = <<>>
    BY <1>1 DEF Sound, Served
  <2>3. Range(userList') = {m \in Nodes : sess'[m] # "free"}
    BY <1>1 DEF Sound, Served
  <2> QED BY <2>1, <2>2, <2>3, ServedAgain
<1>6. Capacity' /\ DisconnectIsLast' /\ IsInjective(userList')
  BY <1>1 DEF Sound, Capacity, DisconnectIsLast
<1>7. /\ \A u \in Threads : pc'[u] \in {"idle", "exit"} => u = t \/ pc[u] = pc'[u]
      /\ pc'[Accepter] = pc[Accepter]
  BY <1>1, ServerAssumption DEF TypeOK
<1>8. \A u \in Threads : pc'[u] \in {"idle", "exit"} => ~bThread'[u]
  BY <1>1, <1>4, <1>7 DEF Sound
<1> QED BY <1>1, <1>5, <1>6, <1>7, <1>8 DEF Sound

\* Every step keeps Sound.
LEMMA SoundNext == TypeOK /\ TypeOK' /\ Sound /\ [Next]_vars => Sound'
<1> SUFFICES ASSUME TypeOK, TypeOK', Sound, [Next]_vars PROVE Sound'
  OBVIOUS
<1>0. Accepter \notin Threads
  BY ServerAssumption
<1>1. CASE AcceptUser
  BY <1>0, <1>1, SoundQuiet DEF AcceptUser, Goto, At, TypeOK
<1>2. CASE ConnectAdd
  BY <1>2, SoundConnectAdd
<1>3. CASE AcceptCallback \/ SendNext \/ SendDone
  <2>1. /\ UNCHANGED lists /\ UNCHANGED left
        /\ \A t \in Threads : pc'[t] = pc[t]
        /\ pc'[Accepter] = "adding" => pc[Accepter] = "adding"
    BY <1>0, <1>3 DEF AcceptCallback, SendNext, SendDone, Goto, At, TypeOK
  <2> QED BY <2>1, SoundQuiet DEF Sound
<1>4. ASSUME NEW t \in Threads, BeginPass(t) \/ VisitFreed(t) \/ LeaveLoop(t)
      PROVE  Sound'
  <2>1. /\ UNCHANGED lists /\ UNCHANGED left
        /\ \A u \in Threads : pc'[u] \in {"idle", "exit"} => pc[u] = pc'[u] \/ ~bThread[u]
        /\ pc'[Accepter] = pc[Accepter]
    BY <1>0, <1>4 DEF BeginPass, VisitFreed, LeaveLoop, Goto, At, TypeOK
  <2> QED BY <2>1, SoundQuiet DEF Sound
<1>5. ASSUME NEW t \in Threads, ProcThread(t) PROVE Sound'
  BY <1>4, <1>5, SoundDeleteUser, SoundVisit, SoundEndPass, SoundThreadDelete DEF ProcThread
<1>6. CASE UNCHANGED vars
  BY <1>6, SoundQuiet DEF vars, Sound
<1> QED BY <1>1, <1>2, <1>3, <1>5, <1>6 DEF Next, AcceptThread

\* The invariant, in every reachable state.
LEMMA SoundAlways == Spec => []Sound
<1>1. TypeOK /\ Sound /\ TypeOK' /\ [Next]_vars => Sound'
  BY SoundNext
<1> QED BY <1>1, SoundInit, Typing, PTL DEF Spec

\* At most TCP_MAX_CONNECTED users, and TCP_SPLIT_SIZE in each group.
THEOREM LimitsHold == Spec => []Capacity
<1>1. Sound => Capacity
  BY DEF Sound
<1> QED BY <1>1, SoundAlways, PTL

\* No open session is without a running thread, no node is lost.
THEOREM NobodyStranded == Spec => []Served
<1>1. Sound => Served
  BY DEF Sound
<1> QED BY <1>1, SoundAlways, PTL

\* A session that was disconnected stays so until its memory is used again.
THEOREM DisconnectedOnce == Spec => []DisconnectIsLast
<1>1. Sound => DisconnectIsLast
  BY DEF Sound
<1> QED BY <1>1, SoundAlways, PTL
-----------------------------------------------------------------------------
(***************************************************************************)
(* What the accept thread uses after it released the locks: the node of    *)
(* the new connection, and the node zhSendAllUser is at.  Both follow from *)
(* Sound and from the place of the node in g_userList.                     *)
(***************************************************************************)
Held ==
  /\ unode # Nobody => pc[Accepter] = "callback"
  /\ AcceptedOrLost /\ SendsToAll

\* A new node is the last of the list.
LEMMA HeldConnectAdd == TypeOK /\ Sound /\ Held /\ ConnectAdd => Held'
<1> SUFFICES ASSUME TypeOK, Sound, Held, ConnectAdd PROVE Held'
  OBVIOUS
<1>1. PICK n \in Nodes :
        /\ sess' = [sess EXCEPT ![n] = "open"]
        /\ userList' = Append(userList, n) /\ unode' = n
  BY DEF ConnectAdd
<1>2. pc'[Accepter] = "callback"
  BY ServerAssumption DEF ConnectAdd, Goto, At, TypeOK
<1>3. Len(userList') = Len(userList) + 1 /\ userList'[Len(userList) + 1] = n
  BY <1>1, AppendProperties DEF TypeOK
<1>4. sess'[n] = "open" /\ Last(userList') = n
  BY <1>1, <1>3 DEF TypeOK, Last
<1> QED BY <1>1, <1>2, <1>4 DEF Held, AcceptedOrLost, SendsToAll

\* The callback is made, and the walk begins at the first user or is over.
LEMMA HeldCallback == TypeOK /\ Held /\ AcceptCallback => Held'
<1> SUFFICES ASSUME TypeOK, Held, AcceptCallback PROVE Held'
  OBVIOUS
<1>1. /\ unode' = Nobody /\ sent' = {} /\ UNCHANGED <<userList, sess>>
      /\ pc'[Accepter] = "send" => pUser' = FirstUser
  BY DEF AcceptCallback, lists, Goto, At, TypeOK
<1>2. ASSUME pc'[Accepter] = "send" PROVE SendsToAll'
  <2>1. CASE userList = <<>>
    BY <1>1, <1>2, <2>1 DEF SendsToAll, FirstUser, Range
  <2>2. CASE userList # <<>>
    <3>1. pUser' = userList[1] /\ 1 \in DOMAIN userList
      BY <1>1, <1>2, <2>2, HeadTailProperties, LenProperties, EmptySeq DEF FirstUser, TypeOK
    <3>2. \A j \in DOMAIN userList : ~(j < 1)
      BY LenProperties DEF TypeOK
    <3> QED BY <1>1, <3>1, <3>2 DEF SendsToAll
  <2> QED BY <2>1, <2>2
<1> QED BY <1>1, <1>2 DEF Held, AcceptedOrLost, SendsToAll

\* The walk goes on to the next user.
LEMMA HeldSendNext == TypeOK /\ Sound /\ Held /\ SendNext => Held'
<1> SUFFICES ASSUME TypeOK, Sound, Held, SendNext PROVE Held'
  OBVIOUS
<1>1. /\ UNCHANGED <<userList, sess, pc, unode, left>>
      /\ pc[Accepter] = "send" /\ ~wild /\ pUser # Nobody
      /\ wild' = (sess[pUser] = "free")
      /\ pUser' = NextUser(pUser) /\ sent' = sent \cup {pUser}
  BY DEF SendNext, At, lists
<1>2. /\ userList \in Seq(Nodes) /\ Len(userList) \in Nat /\ DOMAIN userList = 1 .. Len(userList)
      /\ \A j, k \in 1 .. Len(userList) : userList[j] = userList[k] => j = k
  BY LenProperties DEF TypeOK, Sound, IsInjective
<1>3. ASSUME sess[pUser] # "free" PROVE SendsToAll'
  <2>1. PICK i \in 1 .. Len(userList) :
          /\ userList[i] = pUser
          /\ \A j \in 1 .. Len(userList) : userList[j] \in sent <=> j < i
    BY <1>1, <1>2, <1>3 DEF Held, SendsToAll
  <2>2. \A j \in 1 .. Len(userList) : userList[j] \in sent' <=> j < i + 1
    BY <1>1, <1>2, <2>1
  <2> DEFINE next == {j \in 1 .. Len(userList) - 1 : userList[j] = pUser}
  <2>3. CASE i = Len(userList)
    <3>1. next = {}
      BY <1>2, <2>1, <2>3
    <3>2. pUser' = Nobody
      BY <1>1, <3>1 DEF NextUser
    <3>3. Range(userList) \subseteq sent'
      BY <1>2, <2>2, <2>3 DEF Range
    <3> QED BY <1>1, <3>2, <3>3 DEF SendsToAll
  <2>4. CASE i # Len(userList)
    <3>1. next = {i} /\ i + 1 \in 1 .. Len(userList)
      <4>1. i \in 1 .. Len(userList) - 1 /\ i + 1 \in 1 .. Len(userList)
        <5>1. ASSUME NEW m \in Nat, NEW j \in 1 .. m, j # m
              PROVE  j \in 1 .. m - 1 /\ j + 1 \in 1 .. m
          BY <5>1
        <5> QED BY <1>2, <2>4, <5>1
      <4>2. \A j \in 1 .. Len(userList) - 1 : j \in 1 .. Len(userList)
        BY <1>2
      <4>3. \A j \in next : j = i
        BY <1>2, <2>1, <4>2
      <4>4. i \in next
        BY <2>1, <4>1
      <4> QED BY <4>1, <4>3, <4>4
    <3>2. pUser' = userList[1 + i] /\ 1 + i = i + 1
      BY <1>1, <3>1 DEF NextUser
    <3> QED BY <1>1, <1>2, <2>2, <3>1, <3>2 DEF SendsToAll
  <2> QED BY <2>3, <2>4
<1>4. sess[pUser] = "free" => SendsToAll'
  BY <1>1 DEF SendsToAll
<1>5. AcceptedOrLost'
  BY <1>1 DEF Held, AcceptedOrLost
<1> QED BY <1>1, <1>3, <1>4, <1>5 DEF Held

\* A user is deleted: the places of the others, from the end and from the node
\* the walk is at, stay what they were.
LEMMA HeldDeleteUser ==
  ASSUME NEW t \in Threads
  PROVE  TypeOK /\ Sound /\ Held /\ DeleteUser(t) => Held'
<1> SUFFICES ASSUME TypeOK, Sound, Held, DeleteUser(t) PROVE Held'
  OBVIOUS
<1>1. PICK d \in DOMAIN userList :
        /\ userList' = RemoveAt(userList, d)
        /\ sess' = [sess EXCEPT ![userList[d]] = "free"]
        /\ \A j \in 1 .. d - 1 : sess[userList[j]] \notin {"shut", "zero"}
  BY DEF DeleteUser, FirstZeroSocket
<1>2. UNCHANGED <<pc, unode, pUser, sent, left, wild>>
  BY DEF DeleteUser
<1>3. /\ userList \in Seq(Nodes) /\ Len(userList) \in Nat /\ DOMAIN userList = 1 .. Len(userList)
      /\ \A j, k \in 1 .. Len(userList) : userList[j] = userList[k] => j = k
      /\ \A j \in 1 .. Len(userList) : userList[j] \in Nodes
      /\ sess \in [Nodes -> Sessions]
  BY LenProperties DEF TypeOK, Sound, IsInjective
<1>4. /\ userList' \in Seq(Nodes) /\ Len(userList') = Len(userList) - 1
      /\ \A j \in 1 .. Len(userList) - 1 :
           userList'[j] = IF j < d THEN userList[j] ELSE userList[j + 1]
      /\ Range(userList') \subseteq Range(userList)
  <2>1. userList \in Seq(Nodes) /\ d \in DOMAIN userList
    BY <1>3
  <2>2. /\ RemoveAt(userList, d) \in Seq(Nodes)
        /\ Len(RemoveAt(userList, d)) = Len(userList) - 1
        /\ Range(RemoveAt(userList, d)) \subseteq Range(userList)
        /\ \A j \in 1 .. Len(userList) - 1 :
             RemoveAt(userList, d)[j] = IF j < d THEN userList[j] ELSE userList[j + 1]
    BY <2>1, Removed
  <2> QED BY <1>1, <2>2
<1>5. DOMAIN userList' = 1 .. Len(userList) - 1
  BY <1>4, LenProperties
<1>6. AcceptedOrLost'
  <2>1. CASE unode = Nobody
    BY <1>2, <2>1 DEF AcceptedOrLost
  <2>2. CASE unode # Nobody /\ sess[unode] = "free"
    <3>1. unode \in Nodes /\ unode \in left
      BY <2>2 DEF TypeOK, Held, AcceptedOrLost
    <3>2. sess'[unode] = "free"
      BY <1>1, <1>3, <2>2, <3>1
    <3> QED BY <1>2, <3>1, <3>2 DEF AcceptedOrLost
  <2>3. CASE unode # Nobody /\ sess[unode] # "free"
    <3>1. unode \in Nodes /\ userList[Len(userList)] = unode
      BY <2>3 DEF TypeOK, Held, AcceptedOrLost, Last
    <3>2. CASE d = Len(userList)
      <4>1. User(t) \in Nodes /\ sess[User(t)] = "zero"
        BY LenProperties DEF DeleteUser, AtUser, User, TypeOK
      <4>2. PICK k \in 1 .. Len(userList) : userList[k] = User(t)
        <5>1. User(t) \in Range(userList)
          BY <4>1 DEF Sound, Served
        <5> QED BY <1>3, <5>1 DEF Range
      <4>3. ~(k \in 1 .. d - 1)
        BY <1>1, <4>1, <4>2
      <4>4. k = Len(userList)
        <5>1. ~(k \in 1 .. Len(userList) - 1)
          BY <3>2, <4>3
        <5>2. ASSUME NEW m \in Nat, NEW j \in 1 .. m, ~(j \in 1 .. m - 1) PROVE j = m
          BY <5>2
        <5> QED BY <1>3, <5>1, <5>2
      <4>5. unode \in left
        BY <3>1, <4>1, <4>2, <4>4 DEF Sound
      <4>6. sess'[unode] = "free"
        BY <1>1, <1>3, <3>1, <3>2
      <4> QED BY <1>2, <4>5, <4>6 DEF AcceptedOrLost
    <3>3. CASE d # Len(userList)
      <4>1. /\ d \in 1 .. Len(userList) - 1 /\ Len(userList) - 1 \in 1 .. Len(userList) - 1
            /\ ~(Len(userList) - 1 < d) /\ Len(userList) - 1 + 1 = Len(userList)
        BY <1>1, <1>3, <3>3
      <4>2. userList'[Len(userList')] = unode
        BY <1>4, <3>1, <4>1
      <4>3. userList[d] # unode
        BY <1>1, <1>3, <3>1, <3>3, <4>1
      <4>4. sess'[unode] # "free"
        BY <1>1, <1>3, <2>3, <3>1, <4>3
      <4> QED BY <1>2, <4>2, <4>4 DEF AcceptedOrLost, Last
    <3> QED BY <3>2, <3>3
  <2> QED BY <2>1, <2>2, <2>3
<1>7. ASSUME pc[Accepter] = "send", ~wild PROVE SendsToAll'
  <2>1. CASE pUser = Nobody /\ Range(userList) \subseteq sent
    BY <1>2, <1>4, <2>1 DEF SendsToAll
  <2>2. CASE pUser # Nobody /\ sess[pUser] = "free"
    <3>1. pUser \in Nodes
      BY <2>2 DEF TypeOK
    <3>2. sess'[pUser] = "free"
      BY <1>1, <1>3, <2>2, <3>1
    <3> QED BY <1>2, <2>2, <3>2 DEF SendsToAll
  <2>3. ASSUME NEW i \in 1 .. Len(userList), userList[i] = pUser,
               \A j \in 1 .. Len(userList) : userList[j] \in sent <=> j < i
        PROVE  SendsToAll'
    <3>1. CASE i = d
      <4>1. pUser \in Nodes /\ pUser # Nobody /\ sess'[pUser] = "free"
        BY <1>1, <1>3, <2>3, <3>1, ServerAssumption
      <4> QED BY <1>2, <4>1 DEF SendsToAll
    <3>2. CASE i < d
      <4>1. i \in 1 .. Len(userList) - 1 /\ userList'[i] = pUser
        BY <1>1, <1>3, <1>4, <2>3, <3>2
      <4>2. ASSUME NEW j \in 1 .. Len(userList) - 1
            PROVE  userList'[j] \in sent <=> j < i
        <5>1. CASE j < d
          BY <1>3, <1>4, <2>3, <5>1
        <5>2. CASE ~(j < d)
          <6>1. j + 1 \in 1 .. Len(userList) /\ ~(j + 1 < i) /\ ~(j < i)
            BY <1>1, <1>3, <3>2, <5>2
          <6> QED BY <1>4, <2>3, <5>2, <6>1
        <5> QED BY <5>1, <5>2
      <4> QED BY <1>2, <1>5, <4>1, <4>2 DEF SendsToAll
    <3>3. CASE i > d
      <4>1. i - 1 \in 1 .. Len(userList) - 1 /\ ~(i - 1 < d) /\ i - 1 + 1 = i
        BY <1>1, <1>3, <3>3
      <4>2. userList'[i - 1] = pUser
        BY <1>4, <2>3, <4>1
      <4>3. ASSUME NEW j \in 1 .. Len(userList) - 1
            PROVE  userList'[j] \in sent <=> j < i - 1
        <5>1. CASE j < d
          <6>1. j \in 1 .. Len(userList) /\ j < i /\ j < i - 1
            BY <1>1, <1>3, <3>3, <5>1
          <6> QED BY <1>4, <2>3, <5>1, <6>1
        <5>2. CASE ~(j < d)
          <6>1. j + 1 \in 1 .. Len(userList) /\ (j + 1 < i <=> j < i - 1)
            BY <1>1, <1>3, <3>3, <5>2
          <6> QED BY <1>4, <2>3, <5>2, <6>1
        <5> QED BY <5>1, <5>2
      <4> QED BY <1>2, <1>5, <4>1, <4>2, <4>3 DEF SendsToAll
    <3> QED BY <1>1, <1>3, <3>1, <3>2, <3>3
  <2> QED BY <1>3, <1>7, <2>1, <2>2, <2>3 DEF Held, SendsToAll
<1>8. SendsToAll'
  BY <1>2, <1>7 DEF SendsToAll
<1> QED BY <1>2, <1>6, <1>8 DEF Held

\* A step that leaves the list and the accept thread alone and frees nothing.
LEMMA HeldQuiet ==
  ASSUME TypeOK, Held, UNCHANGED <<userList, unode, pUser, sent>>,
         wild => wild',
         pc'[Accepter] \in {"callback", "send"} => pc'[Accepter] = pc[Accepter],
         unode # Nobody => pc'[Accepter] = "callback",
         left \subseteq left',
         \A n \in Nodes : sess'[n] = "free" <=> sess[n] = "free"
  PROVE  Held'
<1>1. unode \in Nodes \cup {Nobody} /\ pUser \in Nodes \cup {Nobody} /\ wild \in BOOLEAN
  BY DEF TypeOK
<1>2. AcceptedOrLost'
  BY <1>1 DEF Held, AcceptedOrLost
<1>3. SendsToAll'
  BY <1>1 DEF Held, SendsToAll
<1> QED BY <1>2, <1>3 DEF Held

\* Every step keeps Held.
LEMMA HeldNext == TypeOK /\ Sound /\ Held /\ [Next]_vars => Held'
<1> SUFFICES ASSUME TypeOK, Sound, Held, [Next]_vars PROVE Held'
  OBVIOUS
<1>0. Accepter \notin Threads /\ pc \in [Threads \cup {Accepter} ->
        {"idle", "top", "scan", "exit", "listen", "adding", "callback", "send"}]
  BY ServerAssumption DEF TypeOK
<1>1. CASE ConnectAdd
  BY <1>1, HeldConnectAdd
<1>2. CASE AcceptCallback
  BY <1>2, HeldCallback
<1>3. CASE SendNext
  BY <1>3, HeldSendNext
<1>4. CASE AcceptUser \/ SendDone
  <2>1. /\ UNCHANGED <<userList, sess, unode, pUser, sent, left, wild>>
        /\ pc[Accepter] \in {"listen", "send"} /\ pc'[Accepter] \in {"listen", "adding"}
    BY <1>0, <1>4 DEF AcceptUser, SendDone, Goto, At, lists
  <2> QED BY <2>1, HeldQuiet DEF Held
<1>5. ASSUME NEW t \in Threads, ProcThread(t) PROVE Held'
  <2>1. CASE DeleteUser(t)
    BY <2>1, HeldDeleteUser
  <2>2. CASE VisitOpen(t) \/ VisitShut(t)
    <3>1. User(t) \in Nodes /\ sess[User(t)] \in {"open", "shut"} /\ sess \in [Nodes -> Sessions]
      BY <2>2, LenProperties DEF TypeOK, VisitOpen, VisitShut, AtUser, User
    <3>2. /\ UNCHANGED <<userList, unode, pUser, sent, pc, wild>> /\ left \subseteq left'
          /\ \A n \in Nodes : sess'[n] = "free" <=> sess[n] = "free"
      BY <2>2, <3>1 DEF VisitOpen, VisitShut
    <3> QED BY <3>2, HeldQuiet DEF Held
  <2>3. CASE BeginPass(t) \/ EndPass(t) \/ LeaveLoop(t) \/ ThreadDelete(t) \/ VisitFreed(t)
    <3>1. /\ UNCHANGED <<userList, sess, unode, pUser, sent, left>>
          /\ pc'[Accepter] = pc[Accepter] /\ (wild => wild')
      BY <1>0, <2>3
         DEF BeginPass, EndPass, LeaveLoop, ThreadDelete, VisitFreed, Goto, At, lists
    <3> QED BY <3>1, HeldQuiet DEF Held
  <2> QED BY <1>5, <2>1, <2>2, <2>3 DEF ProcThread
<1>6. CASE UNCHANGED vars
  <2>1. UNCHANGED <<userList, sess, unode, pUser, sent, left, wild, pc>>
    BY <1>6 DEF vars, lists
  <2> QED BY <2>1, HeldQuiet DEF Held
<1> QED BY <1>1, <1>2, <1>3, <1>4, <1>5, <1>6 DEF Next, AcceptThread

\* No connection is held at the start.
LEMMA HeldInit == Init => Held
BY DEF Init, Held, AcceptedOrLost, SendsToAll

\* Held is an invariant.
LEMMA HeldAlways == Spec => []Held
<1>1. TypeOK /\ Sound /\ Held /\ [Next]_vars => Held'
  BY HeldNext
<1> QED BY <1>1, HeldInit, Typing, SoundAlways, PTL DEF Spec

\* The accept callback is given its own connection, or one whose Disconnect
\* was reported before.
THEOREM AcceptIsOfItsOwn == Spec => []AcceptedOrLost
<1>1. Held => AcceptedOrLost
  BY DEF Held
<1> QED BY <1>1, HeldAlways, PTL

\* zhSendAllUser misses nobody and sends to nobody twice, unless the node it
\* is at is freed.
THEOREM SendReachesAll == Spec => []SendsToAll
<1>1. Held => SendsToAll
  BY DEF Held
<1> QED BY <1>1, HeldAlways, PTL
=============================================================================
