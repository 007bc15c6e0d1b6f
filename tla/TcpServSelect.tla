---------------------------- MODULE TcpServSelect ----------------------------
(***************************************************************************)
(* The multi-threaded server of ZH/zhTcpServer_select: an accept thread    *)
(* (zhInitTcpProc, ConnectAdd) and processing threads (ProcThread), each   *)
(* serving a group of at most TCP_SPLIT_SIZE users, over two shared lists  *)
(* (g_userList, g_threadList) and two locks (g_userCs, g_threadCs).        *)
(*                                                                         *)
(* A user node and a thread node are addresses: memory that was freed may  *)
(* be handed out again.  Of a session only what this layer reads is kept:  *)
(* whether its socket number is 0 and whether it reached Zero (the module  *)
(* Session has the rest).  A step that reads freed memory sets wild, and   *)
(* nothing is said of what the program does after it.                      *)
(***************************************************************************)
EXTENDS Integers, Sequences, FiniteSets, SequencesExt

CONSTANTS
  Nodes,         \* addresses of TagUserNode
  Threads,       \* addresses of TagThreadNode, and names of their threads
  MaxConnected,  \* TCP_MAX_CONNECTED
  SplitSize,     \* TCP_SPLIT_SIZE
  Accepter,      \* the thread that runs zhInitTcpProc
  Nobody         \* no thread, no node

ASSUME ServerAssumption ==
  /\ MaxConnected \in Nat \ {0} /\ SplitSize \in Nat \ {0}
  /\ Accepter \notin Threads /\ Nobody \notin Threads \cup {Accepter} \cup Nodes
  /\ Cardinality(Nodes) >= MaxConnected /\ Cardinality(Threads) >= MaxConnected

VARIABLES
  userList,    \* g_userList
  sess,        \* node -> "free", "open" (s # 0), "shut" (Dead, s = 0), "zero"
  threadList,  \* g_threadList
  group,       \* thread -> pUserListNodeList
  bThread,     \* thread -> pThreadNode->bThread
  pc,          \* where each thread is
  cursor,      \* thread -> index of pUser in its group
  userCs,      \* holder of g_userCs
  threadCs,    \* holder of g_threadCs
  unode,       \* the node ConnectAdd returned, until the accept callback
  pUser,       \* the node zhSendAllUser is at
  sent,        \* history: the nodes it has sent to
  left,        \* history: nodes whose Disconnect callback was made
  wild         \* history: freed memory was read

lists == <<userList, sess, threadList, group, bThread>>
locks == <<userCs, threadCs>>
vars  == <<lists, pc, cursor, locks, unode, pUser, sent, left, wild>>

Sessions == {"free", "open", "shut", "zero"}

\* Type invariant: the lists hold nodes, only the accept thread holds g_userCs
\* between two steps, and only a processing thread holds g_threadCs.
TypeOK ==
  /\ userList \in Seq(Nodes) /\ sess \in [Nodes -> Sessions]
  /\ threadList \in Seq(Threads) /\ group \in [Threads -> Seq(Nodes)]
  /\ bThread \in [Threads -> BOOLEAN]
  /\ pc \in [Threads \cup {Accepter} ->
               {"idle", "top", "scan", "exit", "listen", "adding", "callback", "send"}]
  /\ cursor \in [Threads -> Nat \ {0}]
  /\ userCs \in {Nobody, Accepter} /\ threadCs \in Threads \cup {Nobody}
  /\ unode \in Nodes \cup {Nobody} /\ pUser \in Nodes \cup {Nobody}
  /\ sent \subseteq Nodes /\ left \subseteq Nodes /\ wild \in BOOLEAN

Init ==
  /\ userList = <<>> /\ sess = [n \in Nodes |-> "free"]
  /\ threadList = <<>> /\ group = [t \in Threads |-> <<>>]
  /\ bThread = [t \in Threads |-> FALSE]
  /\ pc = [t \in Threads \cup {Accepter} |-> IF t = Accepter THEN "listen" ELSE "idle"]
  /\ cursor = [t \in Threads |-> 1]
  /\ userCs = Nobody /\ threadCs = Nobody
  /\ unode = Nobody /\ pUser = Nobody
  /\ sent = {} /\ left = {} /\ wild = FALSE

\* No step is modelled after a read of freed memory.
At(t, step) == ~wild /\ pc[t] = step
Goto(t, from, to) == At(t, from) /\ pc' = [pc EXCEPT ![t] = to]

-----------------------------------------------------------------------------
(* The accept thread. *)

\* A connection is accepted; the number of users is read without a lock, and
\* ConnectAdd takes g_userCs.  A connection over the limit is closed again
\* (zhSionSafeClose of a session no list knows), which changes nothing here.
AcceptUser ==
  /\ Len(userList) < MaxConnected
  /\ Goto(Accepter, "listen", "adding")
  /\ userCs = Nobody /\ userCs' = Accepter
  /\ UNCHANGED <<lists, cursor, threadCs, unode, pUser, sent, left, wild>>

\* Mutants: a group takes one user too many; a group that has ended takes users.
BugOneTooMany(t) == bThread[t] /\ Len(group[t]) <= SplitSize
BugEndedGroup(t) == Len(group[t]) < SplitSize

Roomy(t) == bThread[t] /\ Len(group[t]) < SplitSize

\* The first group with room, or none.
FirstRoomy ==
  {i \in DOMAIN threadList :
     Roomy(threadList[i]) /\ \A j \in 1 .. i - 1 : ~Roomy(threadList[j])}

\* UserListAdd does not add a node the group already points to.
UserListAdd(s, n) == IF Contains(s, n) THEN s ELSE Append(s, n)

\* The rest of ConnectAdd, with g_threadCs as well: the new node goes to the
\* end of g_userList and to the first group with room, or to a new thread.
ConnectAdd ==
  /\ threadCs = Nobody
  /\ \E n \in Nodes :
       /\ sess[n] = "free"
       /\ sess' = [sess EXCEPT ![n] = "open"]
       /\ userList' = Append(userList, n)
       /\ unode' = n /\ left' = left \ {n}
       /\ \/ \E i \in FirstRoomy :
               /\ group' = [group EXCEPT ![threadList[i]] = UserListAdd(@, n)]
               /\ Goto(Accepter, "adding", "callback")
               /\ UNCHANGED <<threadList, bThread>>
          \/ /\ FirstRoomy = {}
             /\ \E t \in Threads :
                  /\ pc[t] = "idle"
                  /\ threadList' = Append(threadList, t)
                  /\ bThread' = [bThread EXCEPT ![t] = TRUE]
                  /\ group' = [group EXCEPT ![t] = <<n>>]
                  /\ At(Accepter, "adding")
                  /\ pc' = [pc EXCEPT ![Accepter] = "callback", ![t] = "top"]
  /\ userCs' = Nobody
  /\ UNCHANGED <<cursor, threadCs, pUser, sent, wild>>

FirstUser == IF userList = <<>> THEN Nobody ELSE Head(userList)

\* zhNetListNext of a node of g_userList.
NextUser(n) ==
  LET at == {i \in 1 .. Len(userList) - 1 : userList[i] = n}
  IN  IF at = {} THEN Nobody ELSE userList[1 + CHOOSE i \in at : TRUE]

\* g_pfAccept(&unode->sion, unode->sion.pInfo), after both locks are released.
AcceptCallback ==
  /\ \/ Goto(Accepter, "callback", "listen") /\ UNCHANGED pUser
     \/ Goto(Accepter, "callback", "send") /\ pUser' = FirstUser
  /\ unode' = Nobody /\ sent' = {}
  /\ wild' = (sess[unode] = "free")
  /\ UNCHANGED <<lists, cursor, locks, left>>

\* zhSendAllUser, called by the application from its accept callback: it
\* walks g_userList without a lock.
SendNext ==
  /\ pUser # Nobody /\ At(Accepter, "send")
  /\ wild' = (sess[pUser] = "free")
  /\ pUser' = NextUser(pUser) /\ sent' = sent \cup {pUser}
  /\ UNCHANGED <<lists, pc, cursor, locks, unode, left>>

SendDone ==
  /\ pUser = Nobody /\ Goto(Accepter, "send", "listen")
  /\ UNCHANGED <<lists, cursor, locks, unode, pUser, sent, left, wild>>

-----------------------------------------------------------------------------
(* A processing thread. *)

BeginPass(t) ==
  /\ bThread[t] /\ Goto(t, "top", "scan")
  /\ threadCs = Nobody /\ threadCs' = t
  /\ cursor' = [cursor EXCEPT ![t] = 1]
  /\ UNCHANGED <<lists, userCs, unode, pUser, sent, left, wild>>

AtUser(t) == At(t, "scan") /\ cursor[t] \in DOMAIN group[t]
User(t)   == group[t][cursor[t]]
Advance(t) == cursor' = [cursor EXCEPT ![t] = @ + 1]

\* The entry of a node that was freed and not reused.
VisitFreed(t) ==
  /\ AtUser(t) /\ sess[User(t)] = "free"
  /\ wild' = TRUE
  /\ UNCHANGED <<lists, pc, cursor, locks, unode, pUser, sent, left>>

\* Mutant: the last node whose socket is 0.
BugLastZeroSocket ==
  {i \in DOMAIN userList :
     /\ sess[userList[i]] \in {"shut", "zero"}
     /\ \A j \in i + 1 .. Len(userList) : sess[userList[j]] \notin {"shut", "zero"}}

\* UserFind(&g_userList, sion) of a session whose socket is 0: the first node
\* whose socket is 0.
FirstZeroSocket ==
  {i \in DOMAIN userList :
     /\ sess[userList[i]] \in {"shut", "zero"}
     /\ \A j \in 1 .. i - 1 : sess[userList[j]] \notin {"shut", "zero"}}

\* Mutant: g_userCs is not released.
BugUserLockKept(t) ==
  /\ AtUser(t) /\ sess[User(t)] = "zero"
  /\ userCs = Nobody /\ userCs' = t
  /\ \E i \in FirstZeroSocket :
       /\ userList' = RemoveAt(userList, i)
       /\ sess' = [sess EXCEPT ![userList[i]] = "free"]
  /\ group' = [group EXCEPT ![t] = RemoveAt(@, cursor[t])]
  /\ UNCHANGED <<threadList, bThread, pc, cursor, threadCs, unode, pUser, sent, left, wild>>

\* Mutant: the last node of the list takes the place of the deleted one.
BugLastMoves(t) ==
  /\ AtUser(t) /\ sess[User(t)] = "zero"
  /\ userCs = Nobody
  /\ \E i \in FirstZeroSocket :
       /\ userList' = Front([userList EXCEPT ![i] = Last(userList)])
       /\ sess' = [sess EXCEPT ![userList[i]] = "free"]
  /\ group' = [group EXCEPT ![t] = RemoveAt(@, cursor[t])]
  /\ UNCHANGED <<threadList, bThread, pc, cursor, locks, unode, pUser, sent, left, wild>>

\* A session that reached Zero: g_userCs, UserDelete, UserListDelete.  UserFind
\* finds a node, this one if no other (Served: it is still in g_userList).
DeleteUser(t) ==
  /\ AtUser(t) /\ sess[User(t)] = "zero"
  /\ userCs = Nobody
  /\ \E i \in FirstZeroSocket :
       /\ userList' = RemoveAt(userList, i)
       /\ sess' = [sess EXCEPT ![userList[i]] = "free"]
  /\ group' = [group EXCEPT ![t] = RemoveAt(@, cursor[t])]
  /\ UNCHANGED <<threadList, bThread, pc, cursor, locks, unode, pUser, sent, left, wild>>

\* An open session: it stays open; or a callback closes it after
\* zhSionStateThread (the keep-alive check in g_pfRealTime); or it is lost, or
\* closed by another callback, and zhSionStateThread reports Disconnect.
VisitOpen(t) ==
  /\ AtUser(t) /\ sess[User(t)] = "open"
  /\ \/ UNCHANGED <<sess, left>>
     \/ sess' = [sess EXCEPT ![User(t)] = "shut"] /\ UNCHANGED left
     \/ sess' = [sess EXCEPT ![User(t)] = "zero"] /\ left' = left \cup {User(t)}
  /\ Advance(t)
  /\ UNCHANGED <<userList, threadList, group, bThread, pc, locks, unode, pUser, sent, wild>>

\* Mutant: the session stays Dead after Disconnect.
BugStaysDead(t) ==
  /\ AtUser(t) /\ sess[User(t)] = "shut"
  /\ left' = left \cup {User(t)}
  /\ Advance(t)
  /\ UNCHANGED <<userList, sess, threadList, group, bThread, pc, locks, unode, pUser, sent, wild>>

\* A session closed by zhSionSafeClose: zhSionStateThread reports Disconnect.
VisitShut(t) ==
  /\ AtUser(t) /\ sess[User(t)] = "shut"
  /\ sess' = [sess EXCEPT ![User(t)] = "zero"] /\ left' = left \cup {User(t)}
  /\ Advance(t)
  /\ UNCHANGED <<userList, threadList, group, bThread, pc, locks, unode, pUser, sent, wild>>

EndPass(t) ==
  /\ ~AtUser(t) /\ Goto(t, "scan", "top")
  /\ bThread' = [bThread EXCEPT ![t] = @ /\ group[t] # <<>>]
  /\ threadCs' = Nobody
  /\ UNCHANGED <<userList, sess, threadList, group, cursor, userCs, unode, pUser, sent, left, wild>>

LeaveLoop(t) ==
  /\ ~bThread[t] /\ Goto(t, "top", "exit")
  /\ UNCHANGED <<lists, cursor, locks, unode, pUser, sent, left, wild>>

\* ThreadDelete under g_threadCs; the thread node is freed.
ThreadDelete(t) ==
  /\ Goto(t, "exit", "idle") /\ threadCs = Nobody
  /\ \E i \in DOMAIN threadList :
       threadList[i] = t /\ threadList' = RemoveAt(threadList, i)
  /\ UNCHANGED <<userList, sess, group, bThread, cursor, locks, unode, pUser, sent, left, wild>>

ProcThread(t) ==
  \/ BeginPass(t) \/ VisitFreed(t) \/ DeleteUser(t) \/ VisitOpen(t)
  \/ VisitShut(t) \/ EndPass(t) \/ LeaveLoop(t) \/ ThreadDelete(t)

AcceptThread == AcceptUser \/ ConnectAdd \/ AcceptCallback \/ SendNext \/ SendDone

Next == AcceptThread \/ \E t \in Threads : ProcThread(t)

Spec == Init /\ [][Next]_vars

-----------------------------------------------------------------------------
(* Properties. *)

\* The limits hold although the number of users is read without a lock and
\* groups end while users are being added.
Capacity ==
  /\ Len(userList) <= MaxConnected
  /\ \A t \in Threads : Len(group[t]) <= SplitSize

\* No user is stranded: the nodes that are allocated are those of g_userList,
\* an open session is in the group of a thread that is in g_threadList and
\* keeps running, however the end of a group races with ConnectAdd, and a
\* thread that ends has no users left.
Served ==
  /\ Range(userList) = {n \in Nodes : sess[n] # "free"}
  /\ \A i \in DOMAIN userList :
       sess[userList[i]] = "open" =>
         \E t \in Range(threadList) : bThread[t] /\ Contains(group[t], userList[i])
  /\ \A t \in Threads : ~bThread[t] => group[t] = <<>>

\* The Disconnect callback of a connection is made once: the session it was
\* made for stays Zero, or freed, until its memory holds a new connection, so
\* the next pass deletes it and zhSionStateThread is not asked about it again.
DisconnectIsLast == \A n \in left : sess[n] \in {"zero", "free"}

\* The accept callback, made after the locks were released, is given the newest
\* connection, or memory that was freed after its Disconnect callback was made
\* (tcp_serv_select.c:234): no other connection can take its place.
AcceptedOrLost ==
  unode # Nobody =>
    IF sess[unode] = "free" THEN unode \in left ELSE Last(userList) = unode

\* zhSendAllUser, which holds no lock, sends to all users, and once to each,
\* while others are deleted around it: those it has sent to are those before
\* the one it is at, unless that one was freed (tcp_serv_select.c:254).
SendsToAll ==
  pc[Accepter] = "send" /\ ~wild =>
    \/ pUser = Nobody /\ Range(userList) \subseteq sent
    \/ pUser # Nobody /\ sess[pUser] = "free"
    \/ \E i \in DOMAIN userList :
         /\ userList[i] = pUser
         /\ \A j \in DOMAIN userList : userList[j] \in sent <=> j < i

-----------------------------------------------------------------------------
(* What the comments of the code say, and the code does not do. *)

\* tcp_serv_select.c:9: g_userList is the one list of users, so what a group
\* points to is in it.
NoDangling ==
  \A t \in Threads : \A i \in DOMAIN group[t] : Contains(userList, group[t][i])

\* tcp_serv_select.c:168: the processing threads let each other run.  They
\* cannot once ConnectAdd holds g_userCs and waits for g_threadCs while a
\* processing thread holds g_threadCs and waits for g_userCs.
NoLockCycle ==
  ~ \E t \in Threads :
      /\ userCs = Accepter /\ pc[Accepter] = "adding"
      /\ threadCs = t /\ AtUser(t) /\ sess[User(t)] = "zero"
=============================================================================
