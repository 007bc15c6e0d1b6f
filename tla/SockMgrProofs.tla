---------------------------- MODULE SockMgrProofs ----------------------------
(***************************************************************************)
(* SockMgr: every reachable state is well typed; buffers and objects have  *)
(* one owner; each valid object has a socket of its own and a receive      *)
(* outstanding inside its buffer; a closed socket is on its way to be      *)
(* deleted.  For any number of objects, buffers, threads and connections.  *)
(***************************************************************************)
EXTENDS SockMgr, SequenceTheorems, TLAPS

Adders == {t \in Openers : pc[t] = "add"}

\* The typing of the objects, of the threads and of the callback queue.
ObjTyped ==
  /\ mapSocket \subseteq Handle /\ info \in [Handle -> SockInfo] /\ memSocket \subseteq Handle
  /\ ov \in [Overlapped -> [op : Op, wLeft : 0 .. Word - 1, wIndex : 0 .. Word - 1]]
  /\ memOverlapped \subseteq Overlapped
  /\ open \subseteq 1 .. lastSock /\ lastSock \in 0 .. MaxConn

NetTyped ==
  /\ IsABag(posted) /\ BagToSet(posted) \subseteq Request
  /\ speaks \subseteq 1 .. lastSock

QueueTyped ==
  /\ queue \in Seq(Item) /\ Len(queue) <= QueueMax
  /\ stuck \subseteq Handle

ThreadsTyped ==
  /\ known \subseteq Handle
  /\ pc \in [Openers -> {"open", "add", "recv", "event", "seed"}]
  /\ obj \in [Openers -> Handle \cup {NULL}]
  /\ \A t \in Openers : pc[t] # "open" => obj[t] \in Handle
  /\ deal \in [at : {"get", "close", "accept"}, h : Handle \cup {NULL}]
  /\ deal.at # "get" => deal.h \in Handle

\* The objects in use are those in the map and those about to be put there.
InUse ==
  /\ \A h \in Handle : h \in memSocket <=> h \in mapSocket \/ \E t \in Adders : obj[t] = h
  /\ \A t \in Adders : obj[t] \in Handle \ mapSocket /\ info[obj[t]].bActive
  /\ \A t, u \in Adders : obj[t] = obj[u] => t = u

Has(h, o) == o = info[h].pRecv \/ o \in info[h].lstSend

\* A buffer in use has one owner; an active object has one to receive into.
Buffers ==
  /\ \A o \in Overlapped : o \in memOverlapped <=> \E h \in Handle : Has(h, o)
  /\ \A g, h \in Handle, o \in Overlapped : Has(g, o) /\ Has(h, o) => g = h
  /\ \A h \in Handle : info[h].pRecv \notin info[h].lstSend
  /\ \A h \in Handle \ memSocket : info[h].pRecv = NULL
  /\ \A h \in memSocket : info[h].bActive => info[h].pRecv # NULL
  /\ \A h \in Handle : info[h].pRecv # NULL =>
       ov[info[h].pRecv].wIndex + ov[info[h].pRecv].wLeft <= BufferLen

\* An active object has a socket number of its own.
Numbers ==
  /\ \A h \in memSocket : info[h].s \in 1 .. lastSock
  /\ \A g, h \in memSocket :
       info[g].bActive /\ info[h].bActive /\ info[g].s = info[h].s => g = h
  /\ Connecting = {} => \A h \in memSocket : info[h].bActive => info[h].s \in open

Objects == ObjTyped /\ InUse /\ Buffers /\ Numbers

-----------------------------------------------------------------------------
(* Bags, remainders, constants.                                             *)

\* What (+) of one element does to the elements of a bag.
LEMMA BagAdd ==
  ASSUME NEW B, NEW r, IsABag(B)
  PROVE  /\ IsABag(B (+) SetToBag({r}))
         /\ BagToSet(B (+) SetToBag({r})) = BagToSet(B) \cup {r}
  BY DEF IsABag, SetToBag, BagToSet, (+)

\* What (-) of one element does: no other element goes.
LEMMA BagRemove ==
  ASSUME NEW B, NEW r, IsABag(B)
  PROVE  /\ IsABag(B (-) SetToBag({r}))
         /\ BagToSet(B (-) SetToBag({r})) \subseteq BagToSet(B)
         /\ \A x \in BagToSet(B) : x # r => x \in BagToSet(B (-) SetToBag({r}))
  BY DEF IsABag, SetToBag, BagToSet, (-)

\* What the assumption says of lengths, limits and NULL.
LEMMA Constants ==
  /\ HeadLen \in 1 .. BufferLen /\ HeadLen \in 0 .. Word - 1 /\ HeadLen \in 1 .. BodyMax
  /\ SeedLen \in 1 .. BufferLen /\ BodyMax \in 1 .. BufferLen /\ HeadLen + BodyMax <= BufferLen
  /\ BufferLen \in Nat /\ Word \in Nat /\ Word > 2 * BufferLen
  /\ NULL \notin Handle /\ NULL \notin Overlapped
  /\ QueueMax \in Nat \ {0} /\ MaxConn \in Nat
  BY SockAssumption

\* A WORD that is reduced by less than a buffer wraps around to more than one.
LEMMA WordWraps ==
  ASSUME NEW a \in Int, 0 - Word < a, a < Word
  PROVE  a % Word = IF a < 0 THEN a + Word ELSE a
  BY Constants

-----------------------------------------------------------------------------
(* What becomes of an object.                                               *)

Opened(x, n, o)    == [x EXCEPT !.s = n, !.bActive = TRUE, !.pRecv = o]
Failed(x, n)       == [x EXCEPT !.s = n, !.bActive = TRUE]
Closed(x)          == [x EXCEPT !.bActive = FALSE, !.pRecv = NULL, !.lstSend = {}]
Deleted(x)         == [x EXCEPT !.bActive = FALSE, !.s = 0, !.pRecv = NULL, !.lstSend = {}]
Dropped(x)         == [x EXCEPT !.pRecv = NULL, !.lstSend = {}]
WithSeed(x)        == [x EXCEPT !.seed = TRUE]
WithSends(x, list) == [x EXCEPT !.lstSend = list]

\* The object NewSocket has filled in.
LEMMA OpenedObject ==
  ASSUME NEW x \in SockInfo, NEW n \in Nat, NEW o \in Overlapped
  PROVE  /\ Opened(x, n, o) \in SockInfo
         /\ Opened(x, n, o).s = n /\ Opened(x, n, o).bActive = TRUE
         /\ Opened(x, n, o).pRecv = o /\ Opened(x, n, o).lstSend = x.lstSend
<1>1. Opened(x, n, o) \in SockInfo
  BY Zenon DEF Opened, SockInfo
<1> QED
  BY <1>1 DEF Opened, SockInfo

\* The object of a NewSocket that failed.
LEMMA FailedObject ==
  ASSUME NEW x \in SockInfo, NEW n \in Nat
  PROVE  /\ Failed(x, n) \in SockInfo
         /\ Failed(x, n).pRecv = x.pRecv /\ Failed(x, n).lstSend = x.lstSend
<1>1. Failed(x, n) \in SockInfo
  BY Zenon DEF Failed, SockInfo
<1> QED
  BY <1>1 DEF Failed, SockInfo

\* The object CloseSocket leaves: it keeps its socket number.
LEMMA ClosedObject ==
  ASSUME NEW x \in SockInfo
  PROVE  /\ Closed(x) \in SockInfo /\ Closed(x).s = x.s /\ Closed(x).bActive = FALSE
         /\ Closed(x).pRecv = NULL /\ Closed(x).lstSend = {}
<1>1. Closed(x) \in SockInfo
  BY Zenon DEF Closed, SockInfo
<1> QED
  BY <1>1 DEF Closed, SockInfo

\* The object DeleteSock leaves, active or closed before.
LEMMA DeletedObject ==
  ASSUME NEW x \in SockInfo
  PROVE  /\ Deleted(x) \in SockInfo /\ Deleted(x).pRecv = NULL /\ Deleted(x).lstSend = {}
         /\ Dropped(x) \in SockInfo /\ Dropped(x).pRecv = NULL /\ Dropped(x).lstSend = {}
<1>1. Deleted(x) \in SockInfo
  BY Zenon DEF Deleted, SockInfo
<1>2. Dropped(x) \in SockInfo
  BY Zenon DEF Dropped, SockInfo
<1>3. Deleted(x).pRecv = NULL /\ Deleted(x).lstSend = {}
  BY DEF Deleted, SockInfo
<1>4. Dropped(x).pRecv = NULL /\ Dropped(x).lstSend = {}
  BY DEF Dropped, SockInfo
<1> QED
  BY <1>1, <1>2, <1>3, <1>4

\* The object whose seed has been sent or received.
LEMMA SeededObject ==
  ASSUME NEW x \in SockInfo
  PROVE  /\ WithSeed(x) \in SockInfo
         /\ WithSeed(x).s = x.s /\ WithSeed(x).bActive = x.bActive
         /\ WithSeed(x).pRecv = x.pRecv /\ WithSeed(x).lstSend = x.lstSend
<1>1. WithSeed(x) \in SockInfo
  BY Zenon DEF WithSeed, SockInfo
<1> QED
  BY <1>1 DEF WithSeed, SockInfo

\* The object with another list of sends.
LEMMA SendsObject ==
  ASSUME NEW x \in SockInfo, NEW list \in SUBSET Overlapped
  PROVE  /\ WithSends(x, list) \in SockInfo
         /\ WithSends(x, list).s = x.s /\ WithSends(x, list).bActive = x.bActive
         /\ WithSends(x, list).pRecv = x.pRecv /\ WithSends(x, list).lstSend = list
<1>1. WithSends(x, list) \in SockInfo
  BY Zenon DEF WithSends, SockInfo
<1> QED
  BY <1>1 DEF WithSends, SockInfo

-----------------------------------------------------------------------------
(* What each operation of the manager does to the objects.                  *)

\* The threads that are between NewSocket and AddSock stay there.
Stable == Adders' = Adders /\ \A t \in Adders : obj'[t] = obj[t]

\* The objects may differ from info in the seed flag of h.
Seeded(i, h) == i = info \/ i = [info EXCEPT ![h].seed = TRUE]

\* What of two families of objects the invariant looks at is the same.
SameObjects(i, j) ==
  \A g \in Handle : /\ i[g].s = j[g].s /\ i[g].bActive = j[g].bActive
                     /\ i[g].pRecv = j[g].pRecv /\ i[g].lstSend = j[g].lstSend

\* The seed flag is nothing the invariant looks at.
LEMMA SeededTyped ==
  ASSUME ObjTyped, NEW h \in Handle, NEW i, Seeded(i, h)
  PROVE  i \in [Handle -> SockInfo] /\ SameObjects(i, info)
<1>1. info \in [Handle -> SockInfo]
  BY DEF ObjTyped
<1>2. CASE i = info
  BY <1>1, <1>2 DEF SameObjects
<1>3. CASE i = [info EXCEPT ![h].seed = TRUE]
  <2>1. i = [info EXCEPT ![h] = WithSeed(info[h])]
    BY <1>3 DEF WithSeed
  <2> QED
    BY <1>1, <2>1, SeededObject DEF SameObjects
<1> QED
  BY <1>2, <1>3 DEF Seeded

\* FreeBuffers of what one object owns.
LEMMA FreeBuffersTyped ==
  ASSUME ObjTyped, NEW set, FreeBuffers(set)
  PROVE  /\ ov' \in [Overlapped -> [op : Op, wLeft : 0 .. Word - 1, wIndex : 0 .. Word - 1]]
         /\ memOverlapped' \subseteq Overlapped
         /\ \A o \in Overlapped \ set : ov'[o] = ov[o]
  BY Constants DEF ObjTyped, FreeBuffers, Zero, Op

\* An object that loses all its buffers, and is no longer active or in use.
LEMMA EmptiedKeeps ==
  ASSUME Objects, NEW h \in Handle, FreeBuffers(Owned(h)),
         info' \in [Handle -> SockInfo], info'[h].pRecv = NULL, info'[h].lstSend = {},
         \A g \in Handle \ {h} : /\ info'[g].bActive = info[g].bActive
                                 /\ info'[g].pRecv = info[g].pRecv
                                 /\ info'[g].lstSend = info[g].lstSend,
         memSocket' \in {memSocket, memSocket \ {h}},
         h \in memSocket' => info'[h].bActive = FALSE
  PROVE  Buffers'
<1> USE Constants DEF Objects
<1>1. \A o \in Overlapped \ Owned(h) : ov'[o] = ov[o]
  BY FreeBuffersTyped
<1>2. \A g \in Handle, o \in Overlapped : Has(g, o)' <=> g # h /\ Has(g, o)
  BY DEF Has
<1>3. \A o \in Overlapped : o \in Owned(h) <=> Has(h, o)
  BY DEF Has, Owned
<1>4. memOverlapped' = memOverlapped \ Owned(h)
  BY DEF FreeBuffers
<1>5. \A o \in Overlapped : o \in memOverlapped' <=> \E g \in Handle : Has(g, o)'
  BY <1>2, <1>3, <1>4 DEF Buffers
<1>6. \A g, k \in Handle, o \in Overlapped : Has(g, o)' /\ Has(k, o)' => g = k
  BY <1>2 DEF Buffers
<1>7. \A g \in Handle : info'[g].pRecv # NULL =>
        /\ info'[g].pRecv = info[g].pRecv /\ ov'[info[g].pRecv] = ov[info[g].pRecv]
  <2> SUFFICES ASSUME NEW g \in Handle, info'[g].pRecv # NULL
               PROVE  /\ info'[g].pRecv = info[g].pRecv
                      /\ ov'[info[g].pRecv] = ov[info[g].pRecv]
    OBVIOUS
  <2>1. g # h /\ info'[g].pRecv = info[g].pRecv
    OBVIOUS
  <2>2. info[g].pRecv \in Overlapped
    BY <2>1 DEF ObjTyped, SockInfo
  <2>3. ~Has(h, info[g].pRecv)
    BY <2>1, <2>2 DEF Buffers, Has
  <2> QED
    BY <2>1, <2>2, <2>3, <1>1, <1>3
<1>8. \A g \in Handle : info'[g].pRecv \notin info'[g].lstSend
  BY DEF Buffers
<1>9. \A g \in Handle \ memSocket' : info'[g].pRecv = NULL
  BY DEF Buffers
<1>10. \A g \in memSocket' : info'[g].bActive => info'[g].pRecv # NULL
  BY DEF Buffers, ObjTyped
<1>11. \A g \in Handle : info'[g].pRecv # NULL =>
         ov'[info'[g].pRecv].wIndex + ov'[info'[g].pRecv].wLeft <= BufferLen
  BY <1>7 DEF Buffers
<1> QED
  BY <1>5, <1>6, <1>8, <1>9, <1>10, <1>11 DEF Buffers

\* CloseSocket leaves the objects sound.
LEMMA CloseKeeps ==
  ASSUME Objects, Stable, NEW h \in Handle, NEW i, Seeded(i, h), NEW q,
         CloseSocket(i, h, q), UNCHANGED <<mapSocket, memSocket, lastSock>>
  PROVE  Objects'
<1> USE Constants DEF Objects
<1>1. i \in [Handle -> SockInfo] /\ SameObjects(i, info)
  BY SeededTyped
<1>2. CASE ~IsValid(h)
  <2>1. info' = i /\ UNCHANGED <<ov, memOverlapped, open>>
    BY <1>2 DEF CloseSocket
  <2>2. ObjTyped'
    BY <1>1, <2>1 DEF ObjTyped
  <2>3. InUse'
    BY <1>1, <2>1 DEF InUse, Stable, ObjTyped, SameObjects
  <2>4. Buffers'
    BY <1>1, <2>1 DEF Buffers, Has, ObjTyped, SameObjects
  <2>5. Numbers'
    BY <1>1, <2>1 DEF Numbers, ObjTyped, SameObjects
  <2> QED
    BY <2>2, <2>3, <2>4, <2>5
<1>3. CASE IsValid(h)
  <2>1. /\ FreeBuffers(Owned(h))
        /\ info' = [i EXCEPT ![h].bActive = FALSE, ![h].pRecv = NULL, ![h].lstSend = {}]
        /\ open' = open \ {info[h].s}
    BY <1>3 DEF CloseSocket
  <2>2. /\ info' \in [Handle -> SockInfo]
        /\ info'[h].bActive = FALSE /\ info'[h].pRecv = NULL /\ info'[h].lstSend = {}
        /\ \A g \in Handle : info'[g].s = info[g].s
        /\ \A g \in Handle \ {h} : /\ info'[g].bActive = info[g].bActive
                                   /\ info'[g].pRecv = info[g].pRecv
                                   /\ info'[g].lstSend = info[g].lstSend
    <3>1. info' = [i EXCEPT ![h] = Closed(i[h])]
      BY <2>1 DEF Closed
    <3>2. i[h] \in SockInfo
      BY <1>1
    <3>3. info'[h] = Closed(i[h]) /\ \A g \in Handle \ {h} : info'[g] = i[g]
      BY <1>1, <3>1
    <3>4. info' \in [Handle -> SockInfo]
      BY <1>1, <3>1, <3>2, ClosedObject
    <3>5. /\ info'[h].s = i[h].s /\ info'[h].bActive = FALSE
          /\ info'[h].pRecv = NULL /\ info'[h].lstSend = {}
      BY <3>2, <3>3, ClosedObject
    <3> QED
      BY <1>1, <3>3, <3>4, <3>5 DEF SameObjects
  <2>3. /\ ov' \in [Overlapped -> [op : Op, wLeft : 0 .. Word - 1, wIndex : 0 .. Word - 1]]
        /\ memOverlapped' \subseteq Overlapped
        /\ \A o \in Overlapped \ Owned(h) : ov'[o] = ov[o]
    BY <2>1, FreeBuffersTyped
  <2>4. ObjTyped'
    BY <2>1, <2>2, <2>3 DEF ObjTyped
  <2>5. InUse'
    BY <1>3, <2>2 DEF InUse, Stable, ObjTyped, IsValid
  <2>9. Buffers'
    BY <2>1, <2>2, EmptiedKeeps
  <2>10. Numbers'
    BY <1>3, <2>1, <2>2 DEF Numbers, ObjTyped, IsValid, InUse
  <2> QED
    BY <2>4, <2>5, <2>9, <2>10
<1> QED
  BY <1>2, <1>3

\* So does DeleteSock.
LEMMA DeleteKeeps ==
  ASSUME Objects, Stable, NEW h \in Handle, DeleteSock(h), UNCHANGED lastSock
  PROVE  Objects'
<1> USE Constants DEF Objects
<1>1. CASE h \notin mapSocket
  <2>1. UNCHANGED <<mapSocket, info, memSocket, ov, memOverlapped, open>>
    BY <1>1 DEF DeleteSock, objects
  <2> QED
    BY <2>1 DEF ObjTyped, InUse, Stable, Buffers, Has, Numbers
<1>2. CASE h \in mapSocket
  <2>1. /\ mapSocket' = mapSocket \ {h} /\ memSocket' = memSocket \ {h}
        /\ FreeBuffers(Owned(h))
    BY <1>2 DEF DeleteSock
  <2>2. /\ info' \in [Handle -> SockInfo]
        /\ info'[h].pRecv = NULL /\ info'[h].lstSend = {}
        /\ \A g \in Handle \ {h} : info'[g] = info[g]
    <3>1. \/ info' = [info EXCEPT ![h] = Deleted(info[h])]
          \/ info' = [info EXCEPT ![h] = Dropped(info[h])]
      BY <1>2 DEF DeleteSock, Deleted, Dropped
    <3>2. info \in [Handle -> SockInfo] /\ info[h] \in SockInfo
      BY DEF ObjTyped
    <3>3. /\ info'[h] = Deleted(info[h]) \/ info'[h] = Dropped(info[h])
          /\ \A g \in Handle \ {h} : info'[g] = info[g]
      BY <3>1, <3>2
    <3>4. info' \in [Handle -> SockInfo]
      BY <3>1, <3>2, DeletedObject
    <3> QED
      BY <3>2, <3>3, <3>4, DeletedObject
  <2>3. /\ info[h].bActive => open' = open \ {info[h].s}
        /\ ~info[h].bActive => open' = open
    BY <1>2 DEF DeleteSock
  <2>4. info[h].bActive \in BOOLEAN
    BY DEF ObjTyped, SockInfo
  <2>5. ObjTyped'
    BY <2>1, <2>2, <2>3, <2>4, FreeBuffersTyped DEF ObjTyped
  <2>6. InUse'
    BY <1>2, <2>1, <2>2 DEF InUse, Stable, ObjTyped
  <2>7. Buffers'
    BY <2>1, <2>2, EmptiedKeeps
  <2>8. Numbers'
    BY <1>2, <2>1, <2>2, <2>3, <2>4 DEF Numbers, ObjTyped, InUse
  <2> QED
    BY <2>5, <2>6, <2>7, <2>8
<1> QED
  BY <1>1, <1>2

\* A buffer for a send, of a valid object or of one that is gone.
LEMMA SendKeeps ==
  ASSUME Objects, Stable, NEW h \in Handle, NEW i, Seeded(i, h),
         NEW o \in Overlapped \ memOverlapped,
         memOverlapped' = memOverlapped \cup {o},
         info' = [i EXCEPT ![h].lstSend = @ \cup {o}],
         ov' = [ov EXCEPT ![o] = SendBuffer],
         UNCHANGED <<mapSocket, memSocket, lastSock, open>>
  PROVE  /\ Objects'
         /\ \A g \in Handle : /\ info'[g].s = info[g].s /\ info'[g].bActive = info[g].bActive
                              /\ info'[g].pRecv = info[g].pRecv
                              /\ info[g].pRecv # NULL => ov'[info[g].pRecv] = ov[info[g].pRecv]
<1> USE Constants DEF Objects
<1>1. i \in [Handle -> SockInfo] /\ SameObjects(i, info)
  BY SeededTyped
<1>2. i[h] \in SockInfo /\ i[h].lstSend = info[h].lstSend /\ i[h].lstSend \cup {o} \in SUBSET Overlapped
  BY <1>1 DEF SockInfo, SameObjects
<1>3. info' = [i EXCEPT ![h] = WithSends(i[h], i[h].lstSend \cup {o})]
  BY DEF WithSends
<1>4. /\ info' \in [Handle -> SockInfo]
      /\ info'[h] = WithSends(i[h], i[h].lstSend \cup {o})
      /\ \A g \in Handle \ {h} : info'[g] = i[g]
  <2>1. WithSends(i[h], i[h].lstSend \cup {o}) \in SockInfo
    BY <1>2, SendsObject
  <2> QED
    BY <1>1, <1>3, <2>1
<1>5. /\ info'[h].s = i[h].s /\ info'[h].bActive = i[h].bActive
      /\ info'[h].pRecv = i[h].pRecv /\ info'[h].lstSend = info[h].lstSend \cup {o}
  BY <1>2, <1>4, SendsObject
<1>6. /\ \A g \in Handle : /\ info'[g].s = info[g].s /\ info'[g].bActive = info[g].bActive
                           /\ info'[g].pRecv = info[g].pRecv
      /\ \A g \in Handle \ {h} : info'[g].lstSend = info[g].lstSend
  BY <1>1, <1>4, <1>5 DEF SameObjects
<1>7. SendBuffer \in [op : Op, wLeft : 0 .. Word - 1, wIndex : 0 .. Word - 1]
  <2>1. Zero \in [op : Op, wLeft : 0 .. Word - 1, wIndex : 0 .. Word - 1]
    BY DEF Zero, Op
  <2>2. "send" \in Op
    BY DEF Op
  <2> QED
    BY <2>1, <2>2, Zenon DEF SendBuffer
<1>8. ObjTyped'
  BY <1>4, <1>7 DEF ObjTyped
<1>9. InUse'
  BY <1>6 DEF InUse, Stable
<1>10. \A g \in Handle, p \in Overlapped : Has(g, p)' <=> Has(g, p) \/ (g = h /\ p = o)
  BY <1>5, <1>6 DEF Has
<1>11. \A g \in Handle : ~Has(g, o)
  BY DEF Buffers
<1>12. \A g \in Handle : info[g].pRecv # NULL =>
         info[g].pRecv \in Overlapped \ {o} /\ ov'[info[g].pRecv] = ov[info[g].pRecv]
  <2> SUFFICES ASSUME NEW g \in Handle, info[g].pRecv # NULL
               PROVE  info[g].pRecv \in Overlapped \ {o} /\ ov'[info[g].pRecv] = ov[info[g].pRecv]
    OBVIOUS
  <2>1. info[g].pRecv \in Overlapped
    BY DEF ObjTyped, SockInfo
  <2>2. info[g].pRecv # o
    BY <1>11 DEF Has
  <2> QED
    BY <2>1, <2>2 DEF ObjTyped
<1>13. Buffers'
  <2>1. \A p \in Overlapped : p \in memOverlapped' <=> \E g \in Handle : Has(g, p)'
    BY <1>10 DEF Buffers
  <2>2. \A g, k \in Handle, p \in Overlapped : Has(g, p)' /\ Has(k, p)' => g = k
    BY <1>10, <1>11 DEF Buffers
  <2>3. \A g \in Handle : info'[g].pRecv \notin info'[g].lstSend
    BY <1>5, <1>6, <1>12 DEF Buffers
  <2>4. \A g \in Handle \ memSocket' : info'[g].pRecv = NULL
    BY <1>6 DEF Buffers
  <2>5. \A g \in memSocket' : info'[g].bActive => info'[g].pRecv # NULL
    BY <1>6 DEF Buffers, ObjTyped
  <2>6. \A g \in Handle : info'[g].pRecv # NULL =>
          ov'[info'[g].pRecv].wIndex + ov'[info'[g].pRecv].wLeft <= BufferLen
    BY <1>6, <1>12 DEF Buffers
  <2> QED
    BY <2>1, <2>2, <2>3, <2>4, <2>5, <2>6 DEF Buffers
<1>14. Numbers'
  BY <1>6 DEF Numbers, ObjTyped
<1> QED
  BY <1>6, <1>8, <1>9, <1>12, <1>13, <1>14

\* A receive is posted: the state of its buffer becomes x.
LEMMA RecvKeeps ==
  ASSUME Objects, Stable, NEW h \in Handle, NEW i, Seeded(i, h),
         NEW x \in [op : Op, wLeft : 0 .. Word - 1, wIndex : 0 .. Word - 1],
         x.wIndex + x.wLeft <= BufferLen,
         PostRecv(i, h, x), UNCHANGED <<mapSocket, memSocket, lastSock>>
  PROVE  /\ Objects'
         /\ SameObjects(info', info)
         /\ \A o \in Overlapped \ {info[h].pRecv} : ov'[o] = ov[o]
         /\ info[h].pRecv # NULL => ov'[info[h].pRecv] = x
<1> USE Constants DEF Objects
<1>1. info' \in [Handle -> SockInfo] /\ SameObjects(info', info)
  BY SeededTyped DEF PostRecv
<1>2. /\ ov' = [ov EXCEPT ![info[h].pRecv] = x]
      /\ UNCHANGED <<memOverlapped, open>>
  BY DEF PostRecv
<1>3. /\ \A o \in Overlapped \ {info[h].pRecv} : ov'[o] = ov[o]
      /\ \A o \in Overlapped : o = info[h].pRecv => ov'[o] = x
      /\ ov' \in [Overlapped -> [op : Op, wLeft : 0 .. Word - 1, wIndex : 0 .. Word - 1]]
  BY <1>2 DEF ObjTyped
<1>4. \A g \in Handle : info[g].pRecv # NULL => info[g].pRecv \in Overlapped
  BY DEF ObjTyped, SockInfo
<1>5. ObjTyped'
  BY <1>1, <1>2, <1>3 DEF ObjTyped
<1>6. InUse'
  BY <1>1 DEF InUse, Stable, SameObjects
<1>7. Buffers'
  <2>1. \A g \in Handle, o \in Overlapped : Has(g, o)' <=> Has(g, o)
    BY <1>1 DEF Has, SameObjects
  <2>2. \A g \in Handle : info'[g].pRecv # NULL =>
          ov'[info'[g].pRecv].wIndex + ov'[info'[g].pRecv].wLeft <= BufferLen
    BY <1>1, <1>3, <1>4 DEF Buffers, SameObjects
  <2>3. \A g \in Handle : info'[g].pRecv \notin info'[g].lstSend
    BY <1>1 DEF Buffers, SameObjects
  <2>4. /\ \A g \in Handle \ memSocket' : info'[g].pRecv = NULL
        /\ \A g \in memSocket' : info'[g].bActive => info'[g].pRecv # NULL
    BY <1>1 DEF Buffers, SameObjects, ObjTyped
  <2> QED
    BY <1>2, <2>1, <2>2, <2>3, <2>4 DEF Buffers
<1>8. Numbers'
  BY <1>1, <1>2 DEF Numbers, ObjTyped, SameObjects
<1> QED
  BY <1>1, <1>3, <1>4, <1>5, <1>6, <1>7, <1>8

\* A send is complete and its buffer free.
LEMMA SentKeeps ==
  ASSUME Objects, Stable, NEW h \in Handle, NEW o \in info[h].lstSend,
         FreeBuffers({o}), info' = [info EXCEPT ![h].lstSend = @ \ {o}],
         UNCHANGED <<mapSocket, memSocket, lastSock, open>>
  PROVE  /\ Objects'
         /\ \A g \in Handle : /\ info'[g].s = info[g].s /\ info'[g].bActive = info[g].bActive
                              /\ info'[g].pRecv = info[g].pRecv
                              /\ info[g].pRecv # NULL => ov'[info[g].pRecv] = ov[info[g].pRecv]
<1> USE Constants DEF Objects
<1>1. /\ info \in [Handle -> SockInfo] /\ info[h] \in SockInfo /\ o \in Overlapped
      /\ info[h].lstSend \ {o} \in SUBSET Overlapped
  BY DEF ObjTyped, SockInfo
<1>2. info' = [info EXCEPT ![h] = WithSends(info[h], info[h].lstSend \ {o})]
  BY DEF WithSends
<1>3. /\ info' \in [Handle -> SockInfo]
      /\ info'[h] = WithSends(info[h], info[h].lstSend \ {o})
      /\ \A g \in Handle \ {h} : info'[g] = info[g]
  <2>1. WithSends(info[h], info[h].lstSend \ {o}) \in SockInfo
    BY <1>1, SendsObject
  <2> QED
    BY <1>1, <1>2, <2>1
<1>4. /\ info'[h].s = info[h].s /\ info'[h].bActive = info[h].bActive
      /\ info'[h].pRecv = info[h].pRecv /\ info'[h].lstSend = info[h].lstSend \ {o}
  BY <1>1, <1>3, SendsObject
<1>5. \A g \in Handle : /\ info'[g].s = info[g].s /\ info'[g].bActive = info[g].bActive
                        /\ info'[g].pRecv = info[g].pRecv
  BY <1>3, <1>4
<1>6. /\ \A p \in Overlapped \ {o} : ov'[p] = ov[p]
      /\ memOverlapped' = memOverlapped \ {o}
      /\ ov' \in [Overlapped -> [op : Op, wLeft : 0 .. Word - 1, wIndex : 0 .. Word - 1]]
      /\ memOverlapped' \subseteq Overlapped
  BY FreeBuffersTyped DEF FreeBuffers
<1>7. ObjTyped'
  BY <1>3, <1>6 DEF ObjTyped
<1>8. InUse'
  BY <1>5 DEF InUse, Stable
<1>9. Has(h, o) /\ o # info[h].pRecv
  BY DEF Has, Buffers
<1>10. \A g \in Handle, p \in Overlapped : Has(g, p)' <=> Has(g, p) /\ p # o
  BY <1>1, <1>3, <1>4, <1>9 DEF Has, Buffers
<1>11. \A g \in Handle : info[g].pRecv # NULL => ov'[info[g].pRecv] = ov[info[g].pRecv]
  <2> SUFFICES ASSUME NEW g \in Handle, info[g].pRecv # NULL
               PROVE  ov'[info[g].pRecv] = ov[info[g].pRecv]
    OBVIOUS
  <2>1. info[g].pRecv \in Overlapped
    BY DEF ObjTyped, SockInfo
  <2>2. info[g].pRecv # o
    BY <1>1, <1>9 DEF Has, Buffers
  <2> QED
    BY <2>1, <2>2, <1>6
<1>12. Buffers'
  <2>1. \A p \in Overlapped : p \in memOverlapped' <=> \E g \in Handle : Has(g, p)'
    BY <1>6, <1>10 DEF Buffers
  <2>2. \A g, k \in Handle, p \in Overlapped : Has(g, p)' /\ Has(k, p)' => g = k
    BY <1>10 DEF Buffers
  <2>3. \A g \in Handle : info'[g].pRecv \notin info'[g].lstSend
    BY <1>3, <1>4 DEF Buffers
  <2>4. \A g \in Handle \ memSocket' : info'[g].pRecv = NULL
    BY <1>5 DEF Buffers
  <2>5. \A g \in memSocket' : info'[g].bActive => info'[g].pRecv # NULL
    BY <1>5 DEF Buffers, ObjTyped
  <2>6. \A g \in Handle : info'[g].pRecv # NULL =>
          ov'[info'[g].pRecv].wIndex + ov'[info'[g].pRecv].wLeft <= BufferLen
    BY <1>5, <1>11 DEF Buffers
  <2> QED
    BY <2>1, <2>2, <2>3, <2>4, <2>5, <2>6 DEF Buffers
<1>13. Numbers'
  BY <1>5 DEF Numbers, ObjTyped
<1> QED
  BY <1>5, <1>7, <1>8, <1>11, <1>12, <1>13

\* Nothing happens to the objects, but a socket may be closed by a thread that
\* connects, or one opened for which there is no object.
LEMMA IdleKeeps ==
  ASSUME Objects, Stable, UNCHANGED objects, lastSock' \in 0 .. MaxConn, lastSock <= lastSock',
         open' \subseteq 1 .. lastSock', Connecting = {} => open \subseteq open'
  PROVE  Objects'
<1> USE DEF Objects, objects
<1>1. ObjTyped'
  BY DEF ObjTyped
<1>2. InUse'
  BY DEF InUse, Stable
<1>3. Buffers'
  BY DEF Buffers, Has
<1>4. Numbers'
  BY DEF Numbers, ObjTyped
<1> QED
  BY <1>1, <1>2, <1>3, <1>4

\* NewSocket takes an object and a buffer nobody has.
LEMMA NewSocketKeeps ==
  ASSUME Objects, ThreadsTyped, NEW t \in Openers, NewSocket(t)
  PROVE  Objects'
<1> USE Constants DEF Objects
<1>1. PICK h \in Handle \ memSocket, o \in Overlapped \ memOverlapped :
        /\ memSocket' = memSocket \cup {h} /\ memOverlapped' = memOverlapped \cup {o}
        /\ info' = [info EXCEPT ![h] = [@ EXCEPT !.s = lastSock', !.bActive = TRUE, !.pRecv = o]]
        /\ ov' = [ov EXCEPT ![o] = Zero]
        /\ obj' = [obj EXCEPT ![t] = h]
  BY DEF NewSocket
<1>2. /\ lastSock < MaxConn /\ lastSock' = lastSock + 1 /\ mapSocket' = mapSocket
      /\ open' = open \cup {lastSock'}
      /\ pc[t] = "open" /\ pc' = [pc EXCEPT ![t] = "add"]
  BY DEF NewSocket, NewSock, Goto
<1>3. lastSock' \in Nat /\ lastSock' \in 0 .. MaxConn /\ lastSock' \in 1 .. lastSock'
  BY <1>2 DEF ObjTyped
<1>4. info \in [Handle -> SockInfo] /\ info[h] \in SockInfo
  BY DEF ObjTyped
<1>5. /\ info' = [info EXCEPT ![h] = Opened(info[h], lastSock', o)]
      /\ Opened(info[h], lastSock', o) \in SockInfo
  BY <1>1, <1>3, <1>4, OpenedObject DEF Opened
<1>6. /\ info' \in [Handle -> SockInfo]
      /\ info'[h] = Opened(info[h], lastSock', o)
      /\ \A g \in Handle \ {h} : info'[g] = info[g]
  BY <1>4, <1>5
<1>7. /\ info'[h].s = lastSock' /\ info'[h].bActive = TRUE
      /\ info'[h].pRecv = o /\ info'[h].lstSend = info[h].lstSend
  <2> DEFINE n == lastSock'
  <2>1. n \in Nat
    BY <1>3
  <2> HIDE DEF n
  <2>2. /\ Opened(info[h], n, o).s = n /\ Opened(info[h], n, o).bActive = TRUE
        /\ Opened(info[h], n, o).pRecv = o /\ Opened(info[h], n, o).lstSend = info[h].lstSend
    <3> DEFINE x == info[h]
    <3>1. x \in SockInfo /\ n \in Nat /\ o \in Overlapped
      BY <1>4, <2>1
    <3> HIDE DEF x
    <3>2. /\ Opened(x, n, o).s = n /\ Opened(x, n, o).bActive = TRUE
          /\ Opened(x, n, o).pRecv = o /\ Opened(x, n, o).lstSend = x.lstSend
      BY ONLY <3>1, OpenedObject
    <3> QED
      BY <3>2 DEF x
  <2> QED
    BY <1>6, <2>2 DEF n
<1>8. Adders' = Adders \cup {t} /\ t \notin Adders
  BY <1>2 DEF Adders, ThreadsTyped
<1>9. obj'[t] = h /\ \A u \in Adders : obj'[u] = obj[u]
  BY <1>1, <1>8 DEF ThreadsTyped, Adders
<1>10. ObjTyped'
  <2>1. Zero \in [op : Op, wLeft : 0 .. Word - 1, wIndex : 0 .. Word - 1]
    BY DEF Zero, Op
  <2> QED
    BY <1>1, <1>2, <1>3, <1>6, <2>1 DEF ObjTyped
<1>11. InUse'
  <2>1. \A u \in Adders : obj[u] \in Handle \ {h}
    BY DEF InUse
  <2>2. h \notin mapSocket
    BY DEF InUse
  <2>3. \A g \in Handle : g \in memSocket' <=> g \in mapSocket' \/ \E u \in Adders' : obj'[u] = g
    BY <1>1, <1>2, <1>8, <1>9 DEF InUse
  <2>4. \A u \in Adders' : obj'[u] \in Handle \ mapSocket' /\ info'[obj'[u]].bActive
    BY <1>2, <1>6, <1>7, <1>8, <1>9, <2>1, <2>2 DEF InUse
  <2>5. \A u, v \in Adders' : obj'[u] = obj'[v] => u = v
    BY <1>8, <1>9, <2>1 DEF InUse
  <2> QED
    BY <2>3, <2>4, <2>5 DEF InUse
<1>12. Buffers'
  <2>1. info[h].pRecv = NULL /\ \A g \in Handle : ~Has(g, o)
    BY DEF Buffers
  <2>2. \A g \in Handle, p \in Overlapped : Has(g, p)' <=> Has(g, p) \/ (g = h /\ p = o)
    BY <1>6, <1>7, <2>1 DEF Has
  <2>3. \A p \in Overlapped : p \in memOverlapped' <=> \E g \in Handle : Has(g, p)'
    BY <1>1, <2>2 DEF Buffers
  <2>4. \A g, k \in Handle, p \in Overlapped : Has(g, p)' /\ Has(k, p)' => g = k
    BY <2>1, <2>2 DEF Buffers
  <2>5. \A g \in Handle : info'[g].pRecv \notin info'[g].lstSend
    BY <1>6, <1>7, <2>1 DEF Buffers, Has
  <2>6. \A g \in Handle \ memSocket' : info'[g].pRecv = NULL
    BY <1>1, <1>6 DEF Buffers
  <2>7. \A g \in memSocket' : info'[g].bActive => info'[g].pRecv # NULL
    BY <1>1, <1>6, <1>7 DEF Buffers, ObjTyped
  <2>8. \A g \in Handle : info'[g].pRecv # NULL =>
          ov'[info'[g].pRecv].wIndex + ov'[info'[g].pRecv].wLeft <= BufferLen
    <3>1. ov'[o].wIndex + ov'[o].wLeft <= BufferLen
      BY <1>1 DEF ObjTyped, Zero
    <3>2. ASSUME NEW g \in Handle \ {h}, info[g].pRecv # NULL
          PROVE  ov'[info[g].pRecv] = ov[info[g].pRecv]
      <4>1. info[g].pRecv \in Overlapped
        BY <3>2, <1>4 DEF SockInfo
      <4>2. info[g].pRecv # o
        BY <2>1 DEF Has
      <4> QED
        BY <1>1, <4>1, <4>2 DEF ObjTyped
    <3> QED
      BY <1>6, <1>7, <3>1, <3>2 DEF Buffers
  <2> QED
    BY <2>3, <2>4, <2>5, <2>6, <2>7, <2>8 DEF Buffers
<1>13. Numbers'
  <2>1. \A g \in memSocket : g # h /\ info[g].s \in 1 .. lastSock
    BY DEF Numbers
  <2>2. \A g \in memSocket' : info'[g].s \in 1 .. lastSock'
    BY <1>1, <1>2, <1>3, <1>6, <1>7, <2>1 DEF ObjTyped
  <2>3. \A g, k \in memSocket' :
          info'[g].bActive /\ info'[k].bActive /\ info'[g].s = info'[k].s => g = k
    BY <1>1, <1>2, <1>6, <1>7, <2>1 DEF ObjTyped, Numbers
  <2>4. Connecting = {} => \A g \in memSocket' : info'[g].bActive => info'[g].s \in open'
    BY <1>1, <1>2, <1>6, <1>7, <2>1 DEF ObjTyped, Numbers
  <2> QED
    BY <2>2, <2>3, <2>4 DEF Numbers
<1> QED
  BY <1>10, <1>11, <1>12, <1>13

\* NewSocket fails: what it wrote into a free object is not looked at.
LEMMA NewSocketFailsKeeps ==
  ASSUME Objects, NEW t \in Openers, NewSocketFails(t)
  PROVE  Objects'
<1> USE Constants DEF Objects
<1>1. PICK h \in Handle \ memSocket :
        info' = [info EXCEPT ![h].s = lastSock', ![h].bActive = TRUE]
  BY DEF NewSocketFails
<1>2. /\ lastSock < MaxConn /\ lastSock' = lastSock + 1 /\ mapSocket' = mapSocket
      /\ UNCHANGED <<memSocket, ov, memOverlapped, open, pc, obj>>
  BY DEF NewSocketFails, NewSock
<1>3. lastSock' \in Nat /\ lastSock' \in 0 .. MaxConn
  BY <1>2 DEF ObjTyped
<1>4. info \in [Handle -> SockInfo] /\ info[h] \in SockInfo
  BY DEF ObjTyped
<1>5. info' = [info EXCEPT ![h] = Failed(info[h], lastSock')]
  BY <1>1 DEF Failed
<1>6. Failed(info[h], lastSock') \in SockInfo
  BY <1>3, <1>4, FailedObject
<1>7. /\ info' \in [Handle -> SockInfo]
      /\ info'[h] = Failed(info[h], lastSock')
      /\ \A g \in Handle \ {h} : info'[g] = info[g]
  BY <1>4, <1>5, <1>6
<1>8. info'[h].pRecv = info[h].pRecv /\ info'[h].lstSend = info[h].lstSend
  BY <1>3, <1>4, <1>7, FailedObject
<1>9. \A g \in Handle : info'[g].pRecv = info[g].pRecv /\ info'[g].lstSend = info[g].lstSend
  BY <1>7, <1>8
<1>10. ObjTyped'
  BY <1>2, <1>3, <1>7 DEF ObjTyped
<1>11. InUse'
  <2>1. \A u \in Adders : obj[u] \in Handle \ {h}
    BY DEF InUse
  <2>2. Adders' = Adders
    BY <1>2 DEF Adders
  <2> QED
    BY <1>2, <1>7, <2>1, <2>2 DEF InUse
<1>12. Buffers'
  <2>1. \A g \in Handle, p \in Overlapped : Has(g, p)' <=> Has(g, p)
    BY <1>9 DEF Has
  <2>2. \A g \in Handle : info'[g].pRecv \notin info'[g].lstSend
    BY <1>9 DEF Buffers
  <2>3. \A g \in memSocket' : info'[g].bActive => info'[g].pRecv # NULL
    BY <1>2, <1>7 DEF Buffers, ObjTyped
  <2>4. \A g \in Handle \ memSocket' : info'[g].pRecv = NULL
    BY <1>2, <1>9 DEF Buffers
  <2>5. \A g \in Handle : info'[g].pRecv # NULL =>
          ov'[info'[g].pRecv].wIndex + ov'[info'[g].pRecv].wLeft <= BufferLen
    BY <1>2, <1>9 DEF Buffers
  <2> QED
    BY <1>2, <2>1, <2>2, <2>3, <2>4, <2>5 DEF Buffers
<1>13. Numbers'
  BY <1>2, <1>7 DEF Numbers, ObjTyped
<1> QED
  BY <1>10, <1>11, <1>12, <1>13

\* AddSock puts the object of its thread into the map.
LEMMA AddSockKeeps ==
  ASSUME Objects, ThreadsTyped, NEW t \in Openers, AddSock(t)
  PROVE  Objects'
<1> USE Constants DEF Objects
<1>1. /\ pc[t] = "add" /\ pc' = [pc EXCEPT ![t] = "recv"]
      /\ mapSocket' = mapSocket \cup {obj[t]}
      /\ UNCHANGED <<info, memSocket, ov, memOverlapped, open, lastSock, obj>>
  BY DEF AddSock, Goto, net
<1>2. t \in Adders /\ Adders' = Adders \ {t}
  BY <1>1 DEF Adders, ThreadsTyped
<1>3. ObjTyped'
  BY <1>1, <1>2 DEF ObjTyped, InUse
<1>4. InUse'
  BY <1>1, <1>2 DEF InUse
<1>5. Buffers'
  BY <1>1 DEF Buffers, Has
<1>6. Numbers'
  BY <1>1 DEF Numbers
<1> QED
  BY <1>3, <1>4, <1>5, <1>6

-----------------------------------------------------------------------------
(* Typing.  What does not depend on what is posted is inductive by itself.  *)

Typed == NetTyped /\ QueueTyped /\ ThreadsTyped /\ Objects

BoundedQueue(q) == q \in Seq(Item) /\ Len(q) <= QueueMax

\* A close event of h waits in the queue q.
CloseIn(q, h) == \E i \in 1 .. Len(q) : q[i] = [h |-> h, op |-> "close"]

\* Insert keeps the queue bounded and what is in it, and adds an event if
\* there is room.
LEMMA InsertKeeps ==
  ASSUME NEW q, BoundedQueue(q), NEW h \in Handle, NEW op \in {"none", "close", "accept"}
  PROVE  /\ BoundedQueue(Insert(q, h, op))
         /\ \A g : CloseIn(q, g) => CloseIn(Insert(q, h, op), g)
         /\ op = "close" /\ Len(q) < QueueMax => CloseIn(Insert(q, h, op), h)
<1> DEFINE e == [h |-> h, op |-> op]
<1>1. e \in Item
  BY DEF Item
<1>2. CASE Len(q) < QueueMax
  <2>1. Insert(q, h, op) = Append(q, e)
    BY <1>2 DEF Insert
  <2>2. /\ Append(q, e) \in Seq(Item) /\ Len(Append(q, e)) = Len(q) + 1
        /\ \A i \in 1 .. Len(q) : Append(q, e)[i] = q[i]
        /\ Append(q, e)[Len(q) + 1] = e
    BY <1>1 DEF BoundedQueue
  <2>3. Len(q) \in Nat
    BY DEF BoundedQueue
  <2> HIDE DEF e
  <2>4. BoundedQueue(Insert(q, h, op))
    BY <1>2, <2>1, <2>2, <2>3, Constants DEF BoundedQueue
  <2>5. \A g : CloseIn(q, g) => CloseIn(Insert(q, h, op), g)
    BY <2>1, <2>2, <2>3 DEF CloseIn
  <2>6. op = "close" => CloseIn(Insert(q, h, op), h)
    BY <2>1, <2>2, <2>3 DEF CloseIn, e
  <2> QED
    BY <2>4, <2>5, <2>6
<1>3. CASE ~(Len(q) < QueueMax)
  BY <1>3 DEF Insert
<1> QED
  BY <1>2, <1>3

\* CloseSocket keeps the queue well typed.
LEMMA CloseTyped ==
  ASSUME QueueTyped, NEW h \in Handle, NEW i, NEW q, BoundedQueue(q), CloseSocket(i, h, q)
  PROVE  QueueTyped'
<1>1. CASE ~IsValid(h)
  BY <1>1 DEF CloseSocket, QueueTyped, BoundedQueue
<1>2. CASE IsValid(h)
  <2>1. /\ queue' = Insert(q, h, "close")
        /\ stuck' = IF Len(q) < QueueMax THEN stuck ELSE stuck \cup {h}
    BY <1>2 DEF CloseSocket
  <2> QED
    BY <2>1, InsertKeeps DEF QueueTyped, BoundedQueue
<1> QED
  BY <1>1, <1>2

\* The request that Start puts into the port.
LEMMA StartTyped ==
  ASSUME NEW B, IsABag(B), BagToSet(B) \subseteq Request, Objects,
         NEW h \in Handle, NEW o \in Overlapped, NEW len \in 1 .. BufferLen, NEW send \in BOOLEAN
  PROVE  /\ IsABag(B (+) Start(h, o, len, send))
         /\ BagToSet(B) \subseteq BagToSet(B (+) Start(h, o, len, send))
         /\ [h |-> h, o |-> o, s |-> info[h].s, len |-> len, send |-> send]
              \in BagToSet(B (+) Start(h, o, len, send))
         /\ BagToSet(B (+) Start(h, o, len, send)) \subseteq Request
<1> DEFINE r == [h |-> h, o |-> o, s |-> info[h].s, len |-> len, send |-> send]
<1>1. info[h].s \in Nat
  BY DEF Objects, ObjTyped, SockInfo
<1>2. r \in Request
  BY <1>1 DEF Request
<1>3. Start(h, o, len, send) = SetToBag({r})
  BY DEF Start
<1> HIDE DEF r
<1>4. IsABag(B (+) SetToBag({r})) /\ BagToSet(B (+) SetToBag({r})) = BagToSet(B) \cup {r}
  BY BagAdd
<1> QED
  BY <1>2, <1>3, <1>4 DEF r

\* A thread that posts, closes or deletes does not touch the threads.
LEMMA ThreadsKept ==
  ASSUME ThreadsTyped, UNCHANGED <<known, pc, obj, deal>>
  PROVE  ThreadsTyped' /\ Stable
  BY DEF ThreadsTyped, Stable, Adders

\* FailSend, whatever else the caller leaves alone.
LEMMA FailSendTyped ==
  ASSUME Objects, QueueTyped, NetTyped, Stable, NEW h \in Handle, FailSend(h),
         UNCHANGED <<mapSocket, memSocket, lastSock>>
  PROVE  Objects' /\ QueueTyped'
<1>1. CloseSocket(info, h, queue)
  BY DEF FailSend
<1> QED
  BY <1>1, CloseKeeps, CloseTyped DEF QueueTyped, BoundedQueue, Seeded

\* PostSend, likewise.
LEMMA PostSendTyped ==
  ASSUME Objects, QueueTyped, NetTyped, Stable, NEW h \in Handle, NEW i, Seeded(i, h),
         NEW len \in 1 .. BufferLen, PostSend(i, h, len),
         UNCHANGED <<mapSocket, memSocket, lastSock>>
  PROVE  /\ Objects' /\ QueueTyped'
         /\ IsABag(posted') /\ BagToSet(posted') \subseteq Request
         /\ BagToSet(posted) \subseteq BagToSet(posted')
<1>1. PICK o \in Overlapped \ memOverlapped :
        /\ memOverlapped' = memOverlapped \cup {o}
        /\ info' = [i EXCEPT ![h].lstSend = @ \cup {o}]
        /\ ov' = [ov EXCEPT ![o] = SendBuffer]
        /\ posted' = posted (+) Start(h, o, len, TRUE)
  BY DEF PostSend
<1>2. UNCHANGED <<open, queue, stuck>>
  BY DEF PostSend
<1>3. Objects'
  BY <1>1, <1>2, SendKeeps
<1>4. QueueTyped'
  BY <1>2 DEF QueueTyped
<1>5. /\ IsABag(posted') /\ BagToSet(posted') \subseteq Request
      /\ BagToSet(posted) \subseteq BagToSet(posted')
  <2> DEFINE B == posted (+) Start(h, o, len, TRUE)
  <2>1. IsABag(posted) /\ BagToSet(posted) \subseteq Request /\ o \in Overlapped /\ TRUE \in BOOLEAN
    BY DEF NetTyped
  <2>2. IsABag(B) /\ BagToSet(B) \subseteq Request /\ BagToSet(posted) \subseteq BagToSet(B)
    BY <2>1, StartTyped, Zenon
  <2> QED
    BY <1>1, <2>2
<1> QED
  BY <1>3, <1>4, <1>5

\* StraySend, likewise.
LEMMA StraySendTyped ==
  ASSUME Objects, QueueTyped, Stable, NEW h \in Handle, StraySend(h),
         UNCHANGED <<mapSocket, memSocket, lastSock>>
  PROVE  Objects' /\ QueueTyped'
<1>1. PICK o \in Overlapped \ memOverlapped :
        /\ memOverlapped' = memOverlapped \cup {o}
        /\ info' = [info EXCEPT ![h].lstSend = @ \cup {o}]
        /\ ov' = [ov EXCEPT ![o] = SendBuffer]
  BY DEF StraySend
<1>2. UNCHANGED <<open, queue, stuck>>
  BY DEF StraySend
<1>3. Objects'
  BY <1>1, <1>2, SendKeeps DEF Seeded
<1> QED
  BY <1>2, <1>3 DEF QueueTyped

-----------------------------------------------------------------------------
(* The threads that open sockets keep the typing.                           *)

\* A thread goes on, with or without an object.
LEMMA ThreadsMoved ==
  ASSUME ThreadsTyped, NEW t \in Openers,
         NEW to \in {"open", "add", "recv", "event", "seed"}, pc' = [pc EXCEPT ![t] = to],
         NEW v \in Handle \cup {NULL}, obj' = [obj EXCEPT ![t] = v], to # "open" => v \in Handle,
         known' \subseteq Handle, UNCHANGED deal
  PROVE  /\ ThreadsTyped'
         /\ pc[t] # "add" /\ to # "add" => Stable
<1>1. /\ pc' \in [Openers -> {"open", "add", "recv", "event", "seed"}]
      /\ obj' \in [Openers -> Handle \cup {NULL}]
      /\ pc'[t] = to /\ obj'[t] = v
      /\ \A u \in Openers \ {t} : pc'[u] = pc[u] /\ obj'[u] = obj[u]
  BY DEF ThreadsTyped
<1>2. ThreadsTyped'
  BY <1>1 DEF ThreadsTyped
<1>3. ASSUME pc[t] # "add", to # "add" PROVE Stable
  BY <1>1, <1>3 DEF Stable, Adders
<1> QED
  BY <1>2, <1>3

\* NewSocket, whether there is an object for the socket or not.
LEMMA NewSockTyped ==
  ASSUME Typed, NEW t \in Openers, NewSock(t)
  PROVE  /\ lastSock' = lastSock + 1 /\ lastSock' \in 0 .. MaxConn /\ NetTyped' /\ QueueTyped'
         /\ UNCHANGED <<mapSocket, posted, queue, stuck, known, deal>>
<1>1. /\ lastSock < MaxConn /\ lastSock' = lastSock + 1
      /\ speaks' = IF t \in Connecting THEN speaks \cup {lastSock'} ELSE speaks
      /\ UNCHANGED <<mapSocket, posted, queue, stuck, known, deal>>
  BY DEF NewSock
<1>2. lastSock \in 0 .. MaxConn
  BY DEF Typed, Objects, ObjTyped
<1>3. speaks' \subseteq 1 .. lastSock'
  BY <1>1, <1>2, Constants DEF Typed, NetTyped
<1>4. NetTyped'
  BY <1>1, <1>3 DEF Typed, NetTyped
<1>5. QueueTyped'
  BY <1>1 DEF Typed, QueueTyped
<1> QED
  BY <1>1, <1>2, <1>4, <1>5, Constants

\* The thread that has an object and a socket goes on to AddSock.
LEMMA NewSocketTyped ==
  ASSUME Typed, NEW t \in Openers, NewSocket(t)
  PROVE  Typed'
<1>1. /\ NewSock(t) /\ pc' = [pc EXCEPT ![t] = "add"]
      /\ \E h \in Handle : obj' = [obj EXCEPT ![t] = h]
  BY DEF NewSocket, Goto
<1>2. Objects'
  BY NewSocketKeeps DEF Typed
<1>3. NetTyped' /\ QueueTyped' /\ UNCHANGED <<known, deal>>
  BY <1>1, NewSockTyped
<1>4. ThreadsTyped'
  <2>1. PICK h \in Handle : obj' = [obj EXCEPT ![t] = h]
    BY <1>1
  <2>2. ThreadsTyped /\ h \in Handle \cup {NULL} /\ known' \subseteq Handle
    BY <1>3 DEF Typed, ThreadsTyped
  <2> QED
    BY <1>1, <1>3, <2>1, <2>2, ThreadsMoved
<1> QED
  BY <1>2, <1>3, <1>4 DEF Typed

\* NewSocket without an object, or for whose object there is no buffer.
LEMMA NewSocketFailsTyped ==
  ASSUME Typed, NEW t \in Openers, NewSocketFails(t) \/ NoObject(t)
  PROVE  Typed'
<1>1. NewSock(t) /\ UNCHANGED <<pc, obj>>
  BY DEF NewSocketFails, NoObject
<1>2. /\ lastSock' = lastSock + 1 /\ lastSock' \in 0 .. MaxConn /\ NetTyped' /\ QueueTyped'
      /\ UNCHANGED <<mapSocket, posted, queue, stuck, known, deal>>
  BY <1>1, NewSockTyped
<1>3. ThreadsTyped' /\ Stable
  BY <1>1, <1>2, ThreadsKept DEF Typed
<1>4. Objects'
  <2>1. CASE NewSocketFails(t)
    BY <2>1, NewSocketFailsKeeps DEF Typed
  <2>2. CASE NoObject(t)
    <3>1. UNCHANGED objects /\ open' = open \cup {lastSock'}
      BY <1>2, <2>2 DEF NoObject, objects
    <3>2. open \subseteq 1 .. lastSock /\ lastSock \in Nat
      BY Constants DEF Typed, Objects, ObjTyped
    <3>3. open' \subseteq 1 .. lastSock' /\ lastSock <= lastSock'
      BY <1>2, <3>1, <3>2
    <3> QED
      BY <1>2, <1>3, <3>1, <3>3, IdleKeeps DEF Typed
  <2> QED
    BY <2>1, <2>2
<1> QED
  BY <1>2, <1>3, <1>4 DEF Typed

\* AddSock.
LEMMA AddSockTyped ==
  ASSUME Typed, NEW t \in Openers, AddSock(t)
  PROVE  Typed'
<1>1. /\ pc[t] = "add" /\ pc' = [pc EXCEPT ![t] = "recv"]
      /\ UNCHANGED <<posted, open, lastSock, speaks, queue, stuck, known, obj, deal>>
  BY DEF AddSock, Goto, net
<1>2. Objects'
  BY AddSockKeeps DEF Typed
<1>3. ThreadsTyped'
  BY <1>1 DEF Typed, ThreadsTyped
<1>4. NetTyped' /\ QueueTyped'
  BY <1>1 DEF Typed, NetTyped, QueueTyped
<1> QED
  BY <1>2, <1>3, <1>4 DEF Typed

\* The first receive.
LEMMA FirstRecvTyped ==
  ASSUME Typed, NEW t \in Openers, FirstRecv(t)
  PROVE  /\ Typed' /\ Stable
         /\ SameObjects(info', info)
         /\ \A o \in Overlapped \ {info[obj[t]].pRecv} : ov'[o] = ov[o]
         /\ obj[t] \in mapSocket /\ info[obj[t]].pRecv \in Overlapped
         /\ ov'[info[obj[t]].pRecv] = FrameHead
         /\ BagToSet(posted) \subseteq BagToSet(posted')
         /\ [h |-> obj[t], o |-> info[obj[t]].pRecv, s |-> info[obj[t]].s,
             len |-> HeadLen, send |-> FALSE] \in BagToSet(posted')
<1> DEFINE h == obj[t]
           to == IF t \in Accepting THEN "event" ELSE "seed"
<1>1. /\ pc[t] = "recv" /\ pc' = [pc EXCEPT ![t] = to]
      /\ IsValid(h) /\ PostRecv(info, h, FrameHead)
      /\ posted' = posted (+) Start(h, info[h].pRecv, HeadLen, FALSE)
      /\ UNCHANGED <<mapSocket, memSocket, lastSock, speaks, queue, stuck, known, obj, deal>>
  BY DEF FirstRecv, Goto, PostRecv
<1>2. h \in mapSocket /\ h \in Handle /\ h \in memSocket /\ info[h].bActive
  BY <1>1 DEF IsValid, Typed, Objects, ObjTyped, InUse
<1>3. info[h].pRecv # NULL /\ info[h].pRecv \in Overlapped
  BY <1>2 DEF Typed, Objects, Buffers, ObjTyped, SockInfo
<1>4. ThreadsTyped' /\ Stable
  <2>1. ThreadsTyped /\ obj' = [obj EXCEPT ![t] = h] /\ known' \subseteq Handle
    BY <1>1 DEF Typed, ThreadsTyped
  <2>2. to \in {"open", "add", "recv", "event", "seed"} /\ to # "add" /\ pc[t] # "add"
    BY <1>1
  <2> HIDE DEF to, h
  <2> QED
    BY <1>1, <1>2, <2>1, <2>2, ThreadsMoved
<1>5. FrameHead \in [op : Op, wLeft : 0 .. Word - 1, wIndex : 0 .. Word - 1]
  BY Constants DEF FrameHead, Op
<1>6. FrameHead.wIndex + FrameHead.wLeft <= BufferLen
  BY Constants DEF FrameHead
<1>7. /\ Objects' /\ SameObjects(info', info)
      /\ \A o \in Overlapped \ {info[h].pRecv} : ov'[o] = ov[o]
      /\ ov'[info[h].pRecv] = FrameHead
  <2> HIDE DEF h
  <2> QED
    BY <1>1, <1>2, <1>3, <1>4, <1>5, <1>6, RecvKeeps DEF Typed, Seeded
<1>8. /\ IsABag(posted') /\ BagToSet(posted') \subseteq Request
      /\ BagToSet(posted) \subseteq BagToSet(posted')
      /\ [h |-> h, o |-> info[h].pRecv, s |-> info[h].s, len |-> HeadLen, send |-> FALSE]
           \in BagToSet(posted')
  <2> DEFINE o == info[h].pRecv
             B == posted (+) Start(h, o, HeadLen, FALSE)
  <2>1. /\ IsABag(posted) /\ BagToSet(posted) \subseteq Request /\ Objects /\ h \in Handle
        /\ o \in Overlapped /\ HeadLen \in 1 .. BufferLen /\ FALSE \in BOOLEAN
    BY <1>2, <1>3, Constants DEF Typed, NetTyped
  <2> HIDE DEF o, h
  <2>2. /\ IsABag(B) /\ BagToSet(B) \subseteq Request /\ BagToSet(posted) \subseteq BagToSet(B)
        /\ [h |-> h, o |-> o, s |-> info[h].s, len |-> HeadLen, send |-> FALSE] \in BagToSet(B)
    BY <2>1, StartTyped, Zenon
  <2>3. posted' = B
    BY <1>1 DEF o, h
  <2> QED
    BY <2>2, <2>3, Zenon DEF o
<1>9. NetTyped' /\ QueueTyped'
  BY <1>1, <1>8 DEF Typed, NetTyped, QueueTyped
<1> QED
  BY <1>2, <1>3, <1>4, <1>7, <1>8, <1>9 DEF Typed

\* RecvDataPart returns FALSE to the thread.
LEMMA FirstRecvFailsTyped ==
  ASSUME Typed, NEW t \in Openers, FirstRecvFails(t)
  PROVE  Typed' /\ Stable
<1>1. /\ pc[t] = "recv" /\ pc' = [pc EXCEPT ![t] = "open"] /\ obj' = [obj EXCEPT ![t] = NULL]
      /\ DeleteSock(obj[t])
      /\ UNCHANGED <<posted, lastSock, speaks, queue, known, deal>>
  BY DEF FirstRecvFails, Goto
<1>2. obj[t] \in Handle
  BY <1>1 DEF Typed, ThreadsTyped
<1>3. ThreadsTyped' /\ Stable
  BY <1>1, ThreadsMoved DEF Typed, ThreadsTyped
<1>4. Objects'
  BY <1>1, <1>2, <1>3, DeleteKeeps DEF Typed
<1>5. stuck' \subseteq stuck
  BY <1>1 DEF DeleteSock
<1>6. NetTyped' /\ QueueTyped'
  BY <1>1, <1>5 DEF Typed, NetTyped, QueueTyped
<1> QED
  BY <1>3, <1>4, <1>6 DEF Typed

\* AcceptThread puts its event into the queue.
LEMMA AcceptEventTyped ==
  ASSUME Typed, NEW t \in Accepting, AcceptEvent(t)
  PROVE  Typed' /\ Stable
<1>1. /\ pc[t] = "event" /\ pc' = [pc EXCEPT ![t] = "open"] /\ obj' = [obj EXCEPT ![t] = NULL]
      /\ queue' = Insert(queue, obj[t], "accept")
      /\ UNCHANGED <<objects, net, stuck, known, deal>>
  BY DEF AcceptEvent, Goto
<1>2. t \in Openers /\ obj[t] \in Handle
  BY <1>1 DEF Typed, ThreadsTyped, Openers
<1>3. ThreadsTyped' /\ Stable
  BY <1>1, <1>2, ThreadsMoved DEF Typed, ThreadsTyped
<1>4. Objects'
  BY <1>1, <1>3, IdleKeeps DEF Typed, Objects, ObjTyped, net
<1>5. QueueTyped'
  BY <1>1, <1>2, InsertKeeps DEF Typed, QueueTyped, BoundedQueue
<1>6. NetTyped'
  BY <1>1 DEF Typed, NetTyped, net
<1> QED
  BY <1>3, <1>4, <1>5, <1>6 DEF Typed

\* GCEApiSRTNetConnect returns, with the seed or after its timeout.
LEMMA ConnectedTyped ==
  ASSUME Typed, NEW t \in Connecting, Connected(t) \/ ConnectTimeout(t)
  PROVE  Typed' /\ Stable
<1>1. /\ pc[t] = "seed" /\ pc' = [pc EXCEPT ![t] = "open"] /\ obj' = [obj EXCEPT ![t] = NULL]
      /\ known' \in {known, known \cup {obj[t]}} /\ open' \subseteq open
      /\ UNCHANGED <<objects, posted, lastSock, speaks, queue, stuck, deal>>
  BY DEF Connected, ConnectTimeout, Goto, net
<1>2. t \in Openers /\ obj[t] \in Handle /\ Connecting # {}
  BY <1>1 DEF Typed, ThreadsTyped, Openers
<1>3. known' \subseteq Handle
  BY <1>1, <1>2 DEF Typed, ThreadsTyped
<1>4. ThreadsTyped' /\ Stable
  BY <1>1, <1>2, <1>3, ThreadsMoved DEF Typed
<1>5. open' \subseteq 1 .. lastSock' /\ lastSock' \in 0 .. MaxConn /\ lastSock <= lastSock'
  BY <1>1, Constants DEF Typed, Objects, ObjTyped
<1>6. Objects'
  BY <1>1, <1>2, <1>4, <1>5, IdleKeeps DEF Typed
<1>7. NetTyped' /\ QueueTyped'
  BY <1>1 DEF Typed, NetTyped, QueueTyped
<1> QED
  BY <1>4, <1>6, <1>7 DEF Typed

-----------------------------------------------------------------------------
(* What a step that concerns the object h leaves of the others, and how it  *)
(* leaves h.                                                                *)

IInv == Typed /\ Listening /\ ClosePending

Others(h) ==
  /\ mapSocket' \subseteq mapSocket \cup {h}
  /\ \A g \in mapSocket \ {h} :
       /\ info'[g].s = info[g].s /\ info'[g].bActive = info[g].bActive
       /\ info'[g].pRecv = info[g].pRecv
       /\ info[g].pRecv # NULL => ov'[info[g].pRecv].wLeft = ov[info[g].pRecv].wLeft
  /\ \A r \in BagToSet(posted) : r.h # h => r \in BagToSet(posted')
  /\ \A t \in Openers : pc[t] = "recv" /\ obj[t] # h => pc'[t] = "recv" /\ obj'[t] = obj[t]
  /\ \A g \in Handle \ {h} : /\ CloseIn(queue, g) => CloseIn(queue', g)
                             /\ g \in stuck => g \in stuck'
                             /\ deal = [at |-> "close", h |-> g] => deal' = deal

Awaited(h) == Receiving(h) \/ \E t \in Openers : pc[t] = "recv" /\ obj[t] = h

Settled(h) ==
  h \in mapSocket' => /\ info'[h].bActive => Awaited(h)'
                      /\ ~info'[h].bActive => Closing(h)' \/ h \in stuck'

\* A step on one object keeps what holds of each object.
LEMMA StepKeeps ==
  ASSUME IInv, NEW h, Others(h), Settled(h)
  PROVE  Listening' /\ ClosePending'
<1> USE DEF IInv
<1>1. mapSocket \subseteq Handle /\ \A g \in mapSocket : g \in memSocket /\ info[g].bActive \in BOOLEAN
  BY DEF Typed, Objects, ObjTyped, InUse, SockInfo
<1>2. ASSUME NEW g \in mapSocket', g # h
      PROVE  /\ IsValid(g)' => Awaited(g)'
             /\ ~info'[g].bActive => Closing(g)' \/ g \in stuck'
  <2>1. /\ g \in mapSocket /\ g \in Handle
        /\ info'[g].s = info[g].s /\ info'[g].bActive = info[g].bActive
        /\ info'[g].pRecv = info[g].pRecv
        /\ info[g].pRecv # NULL => ov'[info[g].pRecv].wLeft = ov[info[g].pRecv].wLeft
    BY <1>1, <1>2 DEF Others
  <2>2. ASSUME IsValid(g)' PROVE Awaited(g)'
    <3>1. IsValid(g) /\ info[g].pRecv # NULL
      BY <1>1, <2>1, <2>2 DEF IsValid, Typed, Objects, Buffers
    <3>2. CASE Receiving(g)
      <4>1. PICK r \in BagToSet(posted) :
              /\ r.h = g /\ r.o = info[g].pRecv /\ r.s = info[g].s /\ ~r.send
              /\ r.len = ov[r.o].wLeft
        BY <3>2 DEF Receiving
      <4>2. r \in BagToSet(posted')
        BY <1>2, <4>1 DEF Others
      <4> QED
        BY <2>1, <3>1, <4>1, <4>2 DEF Receiving, Awaited
    <3>3. CASE \E t \in Openers : pc[t] = "recv" /\ obj[t] = g
      BY <1>2, <3>3 DEF Others, Awaited
    <3> QED
      BY <2>1, <3>1, <3>2, <3>3 DEF Listening
  <2>3. ASSUME ~info'[g].bActive PROVE Closing(g)' \/ g \in stuck'
    <3>1. Closing(g) \/ g \in stuck
      BY <2>1, <2>3 DEF ClosePending
    <3>2. g \in Handle \ {h}
      BY <1>2, <2>1
    <3>3. CloseIn(queue, g) \/ deal = [at |-> "close", h |-> g] \/ g \in stuck
      BY <3>1 DEF Closing, CloseIn
    <3>4. CloseIn(queue', g) \/ deal' = [at |-> "close", h |-> g] \/ g \in stuck'
      BY <3>2, <3>3 DEF Others
    <3> QED
      BY <3>4 DEF Closing, CloseIn
  <2> QED
    BY <2>2, <2>3
<1>3. h \in mapSocket' => /\ IsValid(h)' => Awaited(h)'
                          /\ ~info'[h].bActive => Closing(h)' \/ h \in stuck'
  BY DEF Settled, IsValid
<1> QED
  BY <1>2, <1>3 DEF Listening, Awaited, ClosePending

\* The buffers of other objects are not those that are freed.
LEMMA OthersBuffers ==
  ASSUME Objects, NEW h \in Handle, FreeBuffers(Owned(h))
  PROVE  \A g \in Handle \ {h} : info[g].pRecv # NULL => ov'[info[g].pRecv] = ov[info[g].pRecv]
<1> SUFFICES ASSUME NEW g \in Handle \ {h}, info[g].pRecv # NULL
             PROVE  ov'[info[g].pRecv] = ov[info[g].pRecv]
  OBVIOUS
<1>1. info[g].pRecv \in Overlapped
  BY DEF Objects, ObjTyped, SockInfo
<1>2. info[g].pRecv \notin Owned(h)
  BY <1>1 DEF Objects, Buffers, Has, Owned
<1> QED
  BY <1>1, <1>2, FreeBuffersTyped DEF Objects

\* CloseSocket, of objects and a queue in which no close event is missing.
LEMMA CloseStep ==
  ASSUME Typed, ClosePending, Stable, NEW h \in Handle, NEW i, Seeded(i, h),
         NEW q, BoundedQueue(q), \A g \in Handle : CloseIn(queue, g) => CloseIn(q, g),
         CloseSocket(i, h, q),
         \A r \in BagToSet(posted) : r.h # h => r \in BagToSet(posted'),
         \A g \in Handle : deal = [at |-> "close", h |-> g] => deal' = deal,
         UNCHANGED <<mapSocket, memSocket, lastSock, pc, obj>>
  PROVE  Objects' /\ QueueTyped' /\ Others(h) /\ Settled(h)
<1>1. Objects' /\ QueueTyped'
  BY CloseKeeps, CloseTyped DEF Typed
<1>2. i \in [Handle -> SockInfo] /\ SameObjects(i, info) /\ mapSocket \subseteq Handle
  BY SeededTyped DEF Typed, Objects, ObjTyped
<1>3. CASE ~IsValid(h)
  <2>1. info' = i /\ queue' = q /\ UNCHANGED <<ov, memOverlapped, open, stuck>>
    BY <1>3 DEF CloseSocket
  <2>2. Others(h)
    BY <1>2, <2>1 DEF Others, SameObjects
  <2>3. ASSUME h \in mapSocket'
        PROVE  ~info'[h].bActive /\ (Closing(h)' \/ h \in stuck')
    <3>1. h \in mapSocket /\ ~info[h].bActive
      BY <1>3, <2>3 DEF IsValid
    <3>2. CloseIn(queue, h) \/ deal = [at |-> "close", h |-> h] \/ h \in stuck
      BY <3>1 DEF ClosePending, Closing, CloseIn
    <3>3. CloseIn(queue', h) \/ deal' = [at |-> "close", h |-> h] \/ h \in stuck'
      BY <2>1, <3>2
    <3>4. ~info'[h].bActive
      BY <1>2, <2>1, <3>1 DEF SameObjects
    <3> QED
      BY <3>3, <3>4 DEF Closing, CloseIn
  <2> QED
    BY <1>1, <2>2, <2>3 DEF Settled
<1>4. CASE IsValid(h)
  <2>1. /\ FreeBuffers(Owned(h))
        /\ info' = [i EXCEPT ![h].bActive = FALSE, ![h].pRecv = NULL, ![h].lstSend = {}]
        /\ queue' = Insert(q, h, "close")
        /\ stuck' = IF Len(q) < QueueMax THEN stuck ELSE stuck \cup {h}
    BY <1>4 DEF CloseSocket
  <2>2. /\ info'[h].bActive = FALSE
        /\ \A g \in Handle \ {h} : info'[g] = i[g]
    <3>1. info' = [i EXCEPT ![h] = Closed(i[h])]
      BY <2>1 DEF Closed
    <3>2. info'[h] = Closed(i[h]) /\ i[h] \in SockInfo
      BY <1>2, <3>1
    <3>3. info'[h].bActive = FALSE
      BY <3>2, ClosedObject
    <3> QED
      BY <1>2, <3>1, <3>3
  <2>3. \A g \in Handle \ {h} : info[g].pRecv # NULL => ov'[info[g].pRecv] = ov[info[g].pRecv]
    BY <2>1, OthersBuffers DEF Typed
  <2>4. /\ \A g : CloseIn(q, g) => CloseIn(queue', g)
        /\ CloseIn(queue', h) \/ h \in stuck'
    BY <2>1, InsertKeeps
  <2>5. \A g : g \in stuck => g \in stuck'
    BY <2>1
  <2>6. Others(h)
    BY <1>2, <2>2, <2>3, <2>4, <2>5 DEF Others, SameObjects
  <2>7. Closing(h)' \/ h \in stuck'
    BY <2>4 DEF Closing, CloseIn
  <2> QED
    BY <1>1, <2>2, <2>6, <2>7 DEF Settled
<1> QED
  BY <1>3, <1>4

\* DeleteSock: the object is in the map no more.
LEMMA DeleteStep ==
  ASSUME Typed, Stable, NEW h \in Handle, DeleteSock(h), UNCHANGED <<posted, queue, lastSock>>,
         \A t \in Openers : pc[t] = "recv" /\ obj[t] # h => pc'[t] = "recv" /\ obj'[t] = obj[t],
         \A g \in Handle \ {h} : deal = [at |-> "close", h |-> g] => deal' = deal
  PROVE  Objects' /\ QueueTyped' /\ Others(h) /\ h \notin mapSocket'
<1>1. Objects'
  BY DeleteKeeps DEF Typed
<1>2. QueueTyped'
  <2>1. stuck' \subseteq stuck
    BY DEF DeleteSock
  <2> QED
    BY <2>1 DEF Typed, QueueTyped
<1>3. CASE h \notin mapSocket
  <2>1. UNCHANGED <<mapSocket, info, memSocket, ov, memOverlapped, open, stuck>>
    BY <1>3 DEF DeleteSock, objects
  <2> QED
    BY <1>1, <1>2, <1>3, <2>1 DEF Others
<1>4. CASE h \in mapSocket
  <2>1. /\ mapSocket' = mapSocket \ {h} /\ FreeBuffers(Owned(h)) /\ stuck' = stuck \ {h}
    BY <1>4 DEF DeleteSock
  <2>2. \A g \in Handle \ {h} : info'[g] = info[g]
    BY <1>4 DEF DeleteSock, Typed, Objects, ObjTyped
  <2>3. \A g \in Handle \ {h} : info[g].pRecv # NULL => ov'[info[g].pRecv] = ov[info[g].pRecv]
    BY <2>1, OthersBuffers DEF Typed
  <2>4. mapSocket \subseteq Handle
    BY DEF Typed, Objects, ObjTyped
  <2>5. Others(h)
    BY <2>1, <2>2, <2>3, <2>4 DEF Others
  <2> QED
    BY <1>1, <1>2, <2>1, <2>5
<1> QED
  BY <1>3, <1>4

-----------------------------------------------------------------------------
(* WorkDealThread.                                                          *)

\* The state a buffer can be in.
OvState == [op : Op, wLeft : 0 .. Word - 1, wIndex : 0 .. Word - 1]

\* What the lemmas below say of a step that has dequeued the request r.
Done(r) == Typed' /\ Others(r.h) /\ Settled(r.h)

\* The completed request is taken from the port and no thread moves.
LEMMA Dequeued ==
  ASSUME IInv, NEW r \in BagToSet(posted), UNCHANGED Worker
  PROVE  /\ r.h \in Handle /\ r.o \in Overlapped /\ r.len \in 1 .. BufferLen /\ r.send \in BOOLEAN
         /\ IsABag(posted (-) SetToBag({r})) /\ BagToSet(posted (-) SetToBag({r})) \subseteq Request
         /\ \A p \in BagToSet(posted) : p # r => p \in BagToSet(posted (-) SetToBag({r}))
         /\ ThreadsTyped' /\ Stable /\ speaks' \subseteq 1 .. lastSock'
         /\ UNCHANGED <<mapSocket, memSocket, lastSock, speaks, known, pc, obj, deal>>
<1>1. IsABag(posted) /\ r \in Request /\ BagToSet(posted) \subseteq Request
  BY DEF IInv, Typed, NetTyped
<1>2. UNCHANGED <<mapSocket, memSocket, lastSock, speaks, known, pc, obj, deal>>
  BY DEF Worker, app
<1>3. ThreadsTyped' /\ Stable
  BY <1>2, ThreadsKept DEF IInv, Typed
<1>4. speaks' \subseteq 1 .. lastSock'
  BY <1>2 DEF IInv, Typed, NetTyped
<1>5. r.h \in Handle /\ r.o \in Overlapped /\ r.len \in 1 .. BufferLen /\ r.send \in BOOLEAN
  BY <1>1 DEF Request
<1>6. /\ IsABag(posted (-) SetToBag({r}))
      /\ BagToSet(posted (-) SetToBag({r})) \subseteq BagToSet(posted)
      /\ \A p \in BagToSet(posted) : p # r => p \in BagToSet(posted (-) SetToBag({r}))
  BY <1>1, BagRemove
<1> QED
  BY <1>1, <1>2, <1>3, <1>4, <1>5, <1>6

\* The worker closes the socket of the object.
LEMMA CloseDone ==
  ASSUME IInv, NEW r \in BagToSet(posted), NEW i, Seeded(i, r.h),
         NEW q, BoundedQueue(q), \A g \in Handle : CloseIn(queue, g) => CloseIn(q, g),
         CloseSocket(i, r.h, q), posted' = posted (-) SetToBag({r}), UNCHANGED Worker
  PROVE  Done(r)
<1>1. /\ r.h \in Handle
      /\ IsABag(posted') /\ BagToSet(posted') \subseteq Request
      /\ \A p \in BagToSet(posted) : p # r => p \in BagToSet(posted')
      /\ ThreadsTyped' /\ Stable /\ speaks' \subseteq 1 .. lastSock'
      /\ UNCHANGED <<mapSocket, memSocket, lastSock, speaks, known, pc, obj, deal>>
  BY Dequeued
<1>2. Typed /\ ClosePending
  BY DEF IInv
<1>3. Objects' /\ QueueTyped' /\ Others(r.h) /\ Settled(r.h)
  BY <1>1, <1>2, CloseStep
<1>4. NetTyped'
  BY <1>1 DEF NetTyped
<1> QED
  BY <1>1, <1>3, <1>4 DEF Done, Typed

\* RecvDataPart, with a state x of the buffer in which what is received stays
\* inside it if it is posted.
LEMMA RecvDone ==
  ASSUME IInv, NEW r \in BagToSet(posted), IsValid(r.h), r.o = info[r.h].pRecv,
         NEW i, Seeded(i, r.h), NEW x \in OvState,
         x.wLeft <= BodyMax => x.wIndex + x.wLeft <= BufferLen,
         NEW q, BoundedQueue(q), \A g \in Handle : CloseIn(queue, g) => CloseIn(q, g),
         RecvDataPart(i, r, x, q), UNCHANGED Worker
  PROVE  Done(r)
<1> DEFINE h == r.h
           o == r.o
           len == x.wLeft
           B == posted (-) SetToBag({r})
<1>1. CASE CloseSocket(i, r.h, q) /\ posted' = posted (-) SetToBag({r})
  BY <1>1, CloseDone
<1>2. CASE /\ x.wLeft \in 1 .. BodyMax /\ PostRecv(i, r.h, x) /\ queue' = q
           /\ posted' = (posted (-) SetToBag({r})) (+) Start(r.h, r.o, x.wLeft, FALSE)
  <2>1. /\ h \in Handle /\ o \in Overlapped
        /\ IsABag(B) /\ BagToSet(B) \subseteq Request
        /\ \A p \in BagToSet(posted) : p # r => p \in BagToSet(B)
        /\ ThreadsTyped' /\ Stable /\ speaks' \subseteq 1 .. lastSock'
        /\ UNCHANGED <<mapSocket, memSocket, lastSock, speaks, known, pc, obj, deal>>
    BY Dequeued
  <2>2. len \in 1 .. BufferLen /\ x.wIndex + x.wLeft <= BufferLen
    BY <1>2, Constants
  <2>3. Objects /\ QueueTyped /\ mapSocket \subseteq Handle /\ h \in mapSocket /\ info[h].bActive
    BY DEF IInv, Typed, Objects, ObjTyped, IsValid
  <2>4. /\ Objects' /\ SameObjects(info', info)
        /\ \A p \in Overlapped \ {info[h].pRecv} : ov'[p] = ov[p]
        /\ info[h].pRecv # NULL => ov'[info[h].pRecv] = x
    BY <1>2, <2>1, <2>2, <2>3, RecvKeeps DEF OvState
  <2>5. /\ IsABag(posted') /\ BagToSet(posted') \subseteq Request
        /\ BagToSet(B) \subseteq BagToSet(posted')
        /\ [h |-> h, o |-> o, s |-> info[h].s, len |-> len, send |-> FALSE] \in BagToSet(posted')
    <3> DEFINE N == B (+) Start(h, o, len, FALSE)
    <3>1. posted' = N
      BY <1>2
    <3>2. Objects /\ FALSE \in BOOLEAN
      BY <2>3
    <3> HIDE DEF B, h, o, len
    <3>3. /\ IsABag(N) /\ BagToSet(N) \subseteq Request /\ BagToSet(B) \subseteq BagToSet(N)
          /\ [h |-> h, o |-> o, s |-> info[h].s, len |-> len, send |-> FALSE] \in BagToSet(N)
      BY <2>1, <2>2, <3>2, StartTyped, Zenon
    <3> QED
      BY <3>1, <3>3, Zenon
  <2>6. queue' = q /\ stuck' = stuck
    BY <1>2 DEF PostRecv
  <2>7. NetTyped' /\ QueueTyped'
    BY <2>1, <2>3, <2>5, <2>6 DEF NetTyped, QueueTyped, BoundedQueue
  <2>8. \A g \in Handle \ {h} : info[g].pRecv # NULL => ov'[info[g].pRecv] = ov[info[g].pRecv]
    <3> SUFFICES ASSUME NEW g \in Handle \ {h}, info[g].pRecv # NULL
                 PROVE  ov'[info[g].pRecv] = ov[info[g].pRecv]
      OBVIOUS
    <3>1. info[g].pRecv \in Overlapped
      BY <2>3 DEF Objects, ObjTyped, SockInfo
    <3>2. info[g].pRecv # info[h].pRecv
      BY <2>1, <2>3, <3>1 DEF Objects, Buffers, Has
    <3> QED
      BY <2>4, <3>1, <3>2
  <2>9. Others(h)
    BY <2>1, <2>3, <2>4, <2>5, <2>6, <2>8 DEF Others, SameObjects
  <2>10. Receiving(h)'
    <3> DEFINE n == [h |-> h, o |-> o, s |-> info[h].s, len |-> len, send |-> FALSE]
    <3>1. /\ info'[h].pRecv = o /\ info'[h].s = info[h].s
      BY <2>1, <2>4 DEF SameObjects
    <3>2. ov'[o].wLeft = len
      BY <2>1, <2>4, Constants
    <3>3. n.h = h /\ n.o = o /\ n.s = info[h].s /\ n.len = len /\ ~n.send
      OBVIOUS
    <3>4. n \in BagToSet(posted')
      BY <2>5
    <3> HIDE DEF n, h, o, len
    <3> QED
      BY <3>1, <3>2, <3>3, <3>4 DEF Receiving
  <2>11. info'[h].bActive
    BY <2>1, <2>3, <2>4 DEF SameObjects
  <2>12. Settled(h)
    BY <2>10, <2>11 DEF Settled, Awaited
  <2> QED
    BY <2>1, <2>4, <2>7, <2>9, <2>12 DEF Done, Typed
<1> QED
  BY <1>1, <1>2 DEF RecvDataPart

\* The states RecvComplete leaves the buffer in.
LEMMA HeadState ==
  FrameHead \in OvState /\ FrameHead.wIndex + FrameHead.wLeft <= BufferLen
  BY Constants DEF FrameHead, OvState, Op

\* What is left of the buffer after n more bytes, when left bytes were asked
\* for: a difference that wraps around is larger than any length allowed.
LEMMA RestState ==
  ASSUME NEW op \in Op, NEW left \in 0 .. BufferLen, NEW index \in 0 .. BufferLen,
         index + left <= BufferLen, NEW n \in 1 .. BufferLen
  PROVE  LET x == Rest(op, left, index, n)
         IN  x \in OvState /\ (x.wLeft <= BodyMax => x.wIndex + x.wLeft <= BufferLen)
<1>1. (left - n) % Word = IF left - n < 0 THEN left - n + Word ELSE left - n
  BY WordWraps, Constants
<1>2. (index + n) % Word = index + n
  BY WordWraps, Constants
<1>3. (left - n) % Word \in 0 .. Word - 1 /\ (index + n) % Word \in 0 .. Word - 1
  BY <1>1, <1>2, Constants
<1> DEFINE a == (left - n) % Word
           b == (index + n) % Word
<1>4. a <= BodyMax => b + a <= BufferLen
  BY <1>1, <1>2, Constants
<1>5. Rest(op, left, index, n) = [op |-> op, wLeft |-> a, wIndex |-> b]
  BY DEF Rest
<1> HIDE DEF a, b
<1> QED
  BY <1>3, <1>4, <1>5 DEF OvState, a, b

\* The buffer of an object that receives.
LEMMA BufferState ==
  ASSUME Typed, NEW h \in Handle, IsValid(h)
  PROVE  LET x == ov[info[h].pRecv]
         IN  /\ info[h].pRecv \in Overlapped
             /\ x.op \in Op /\ x.wLeft \in 0 .. BufferLen /\ x.wIndex \in 0 .. BufferLen
             /\ x.wIndex + x.wLeft <= BufferLen
<1>1. /\ h \in memSocket /\ info[h].bActive /\ info[h] \in SockInfo
  BY DEF IsValid, Typed, Objects, ObjTyped, InUse
<1>2. info[h].pRecv # NULL /\ info[h].pRecv \in Overlapped
  BY <1>1 DEF Typed, Objects, Buffers, SockInfo
<1> DEFINE x == ov[info[h].pRecv]
<1>3. x \in OvState
  BY <1>2 DEF Typed, Objects, ObjTyped, OvState
<1>4. x.wIndex + x.wLeft <= BufferLen
  BY <1>2 DEF Typed, Objects, Buffers
<1>5. x.op \in Op /\ x.wLeft \in Nat /\ x.wIndex \in Nat
  BY <1>3, Constants DEF OvState
<1> HIDE DEF x
<1>6. x.wLeft \in 0 .. BufferLen /\ x.wIndex \in 0 .. BufferLen
  BY <1>4, <1>5, Constants
<1> QED
  BY <1>2, <1>4, <1>5, <1>6 DEF x

\* The seed, whole or in part.
LEMMA RecvSeedDone ==
  ASSUME IInv, NEW r \in BagToSet(posted), IsValid(r.h), r.o = info[r.h].pRecv,
         NEW n \in 1 .. BufferLen, RecvSeed(r, n), UNCHANGED Worker
  PROVE  Done(r)
<1> DEFINE x == ov[r.o]
           left == IF x.wIndex = 0 THEN SeedLen ELSE x.wLeft
           seeded == [info EXCEPT ![r.h].seed = TRUE]
<1>1. r.h \in Handle
  BY Dequeued
<1>2. BoundedQueue(queue) /\ \A g \in Handle : CloseIn(queue, g) => CloseIn(queue, g)
  BY DEF IInv, Typed, QueueTyped, BoundedQueue
<1>3. CASE n = left
  <2>1. RecvDataPart(seeded, r, FrameHead, queue)
    BY <1>3 DEF RecvSeed
  <2>2. Seeded(seeded, r.h)
    BY DEF Seeded
  <2> HIDE DEF seeded
  <2> QED
    BY <1>2, <2>1, <2>2, HeadState, RecvDone
<1>4. CASE n # left
  <2>1. RecvDataPart(info, r, Rest("body", left, x.wIndex, n), queue)
    BY <1>4 DEF RecvSeed
  <2>2. x.wLeft \in 0 .. BufferLen /\ x.wIndex \in 0 .. BufferLen /\ x.wIndex + x.wLeft <= BufferLen
    BY <1>1, BufferState DEF IInv
  <2>3. left \in 0 .. BufferLen /\ x.wIndex + left <= BufferLen
    BY <2>2, Constants
  <2>4. "body" \in Op /\ Seeded(info, r.h)
    BY DEF Op, Seeded
  <2> DEFINE y == Rest("body", left, x.wIndex, n)
  <2>5. y \in OvState /\ (y.wLeft <= BodyMax => y.wIndex + y.wLeft <= BufferLen)
    BY <2>2, <2>3, <2>4, RestState
  <2>6. RecvDataPart(info, r, y, queue)
    BY <2>1
  <2> HIDE DEF y
  <2> QED
    BY <1>2, <2>4, <2>5, <2>6, RecvDone
<1> QED
  BY <1>3, <1>4

\* A header, of a frame with or without a body, or of one that is too long.
LEMMA RecvHeadDone ==
  ASSUME IInv, NEW r \in BagToSet(posted), IsValid(r.h), r.o = info[r.h].pRecv,
         NEW n \in 1 .. BufferLen, RecvHead(r, n), UNCHANGED Worker
  PROVE  Done(r)
<1>1. r.h \in Handle
  BY Dequeued
<1>2. BoundedQueue(queue) /\ \A g \in Handle : CloseIn(queue, g) => CloseIn(queue, g)
  BY DEF IInv, Typed, QueueTyped, BoundedQueue
<1>3. Seeded(info, r.h)
  BY DEF Seeded
<1>4. PICK len \in DataLen :
        IF len > BufferLen
          THEN CloseSocket(info, r.h, queue) /\ posted' = posted (-) SetToBag({r})
          ELSE IF len > 0
            THEN RecvDataPart(info, r, [op |-> "body", wLeft |-> len, wIndex |-> HeadLen], queue)
            ELSE RecvDataPart(info, r, FrameHead, Insert(queue, r.h, "none"))
  BY DEF RecvHead
<1>5. CASE len > BufferLen
  BY <1>2, <1>3, <1>4, <1>5, CloseDone
<1>6. CASE ~(len > BufferLen) /\ len > 0
  <2> DEFINE y == [op |-> "body", wLeft |-> len, wIndex |-> HeadLen]
  <2>1. len \in 0 .. Word - 1
    BY SockAssumption
  <2>2. y \in OvState /\ (y.wLeft <= BodyMax => y.wIndex + y.wLeft <= BufferLen)
    BY <2>1, SockAssumption, Constants DEF OvState, Op
  <2>3. RecvDataPart(info, r, y, queue)
    BY <1>4, <1>6
  <2> HIDE DEF y
  <2> QED
    BY <1>2, <1>3, <2>2, <2>3, RecvDone
<1>7. CASE ~(len > BufferLen) /\ ~(len > 0)
  <2> DEFINE q == Insert(queue, r.h, "none")
  <2>1. BoundedQueue(q) /\ \A g \in Handle : CloseIn(queue, g) => CloseIn(q, g)
    BY <1>1, <1>2, InsertKeeps
  <2>2. RecvDataPart(info, r, FrameHead, q)
    BY <1>4, <1>7
  <2> HIDE DEF q
  <2> QED
    BY <1>3, <2>1, <2>2, HeadState, RecvDone
<1> QED
  BY <1>5, <1>6, <1>7

\* A body.
LEMMA RecvBodyDone ==
  ASSUME IInv, NEW r \in BagToSet(posted), IsValid(r.h), r.o = info[r.h].pRecv,
         NEW n \in 1 .. BufferLen, RecvBody(r, n), UNCHANGED Worker
  PROVE  Done(r)
<1> DEFINE q == Insert(queue, r.h, "none")
<1>1. r.h \in Handle
  BY Dequeued
<1>2. BoundedQueue(q) /\ \A g \in Handle : CloseIn(queue, g) => CloseIn(q, g)
  BY <1>1, InsertKeeps DEF IInv, Typed, QueueTyped, BoundedQueue
<1>3. RecvDataPart(info, r, FrameHead, q)
  BY DEF RecvBody
<1>4. Seeded(info, r.h)
  BY DEF Seeded
<1> HIDE DEF q
<1> QED
  BY <1>2, <1>3, <1>4, HeadState, RecvDone

\* A part of either.
LEMMA RecvPartDone ==
  ASSUME IInv, NEW r \in BagToSet(posted), IsValid(r.h), r.o = info[r.h].pRecv,
         NEW n \in 1 .. BufferLen, RecvPart(r, n), UNCHANGED Worker
  PROVE  Done(r)
<1> DEFINE x == ov[r.o]
           y == Rest(x.op, x.wLeft, x.wIndex, n)
<1>1. r.h \in Handle
  BY Dequeued
<1>2. BoundedQueue(queue) /\ \A g \in Handle : CloseIn(queue, g) => CloseIn(queue, g)
  BY DEF IInv, Typed, QueueTyped, BoundedQueue
<1>3. /\ x.op \in Op /\ x.wLeft \in 0 .. BufferLen /\ x.wIndex \in 0 .. BufferLen
      /\ x.wIndex + x.wLeft <= BufferLen
  BY <1>1, BufferState DEF IInv
<1>4. y \in OvState /\ (y.wLeft <= BodyMax => y.wIndex + y.wLeft <= BufferLen)
  BY <1>3, RestState
<1>5. RecvDataPart(info, r, y, queue)
  BY DEF RecvPart
<1>6. Seeded(info, r.h)
  BY DEF Seeded
<1> HIDE DEF y
<1> QED
  BY <1>2, <1>4, <1>5, <1>6, RecvDone

\* A step that changes nothing of an object but its list of sends and its seed
\* flag, and takes from the port no request the object waits for.
LEMMA SameSettled ==
  ASSUME IInv, NEW h \in Handle, UNCHANGED <<mapSocket, queue, stuck, pc, obj>>,
         \A g \in Handle : /\ info'[g].s = info[g].s /\ info'[g].bActive = info[g].bActive
                           /\ info'[g].pRecv = info[g].pRecv
                           /\ info[g].pRecv # NULL => ov'[info[g].pRecv] = ov[info[g].pRecv],
         \A p \in BagToSet(posted) :
           p.h # h \/ (p.o = info[h].pRecv /\ ~p.send /\ p.len = ov[p.o].wLeft)
             => p \in BagToSet(posted'),
         \A g \in Handle : deal = [at |-> "close", h |-> g] => deal' = deal
  PROVE  Others(h) /\ Settled(h)
<1>1. mapSocket \subseteq Handle
  BY DEF IInv, Typed, Objects, ObjTyped
<1>2. Others(h)
  BY <1>1 DEF Others
<1>3. ASSUME h \in mapSocket, info[h].bActive PROVE Awaited(h)'
  <2>1. IsValid(h) /\ info[h].pRecv # NULL
    BY <1>3 DEF IsValid, IInv, Typed, Objects, Buffers, InUse
  <2>2. CASE Receiving(h)
    <3>1. PICK p \in BagToSet(posted) :
            /\ p.h = h /\ p.o = info[h].pRecv /\ p.s = info[h].s /\ ~p.send
            /\ p.len = ov[p.o].wLeft
      BY <2>2 DEF Receiving
    <3>2. p \in BagToSet(posted')
      BY <3>1
    <3> QED
      BY <2>1, <3>1, <3>2 DEF Receiving, Awaited
  <2>3. CASE \E t \in Openers : pc[t] = "recv" /\ obj[t] = h
    BY <2>3 DEF Awaited
  <2> QED
    BY <2>1, <1>3, <2>2, <2>3 DEF IInv, Listening
<1>4. ASSUME h \in mapSocket, ~info[h].bActive PROVE Closing(h)' \/ h \in stuck'
  <2>1. CloseIn(queue, h) \/ deal = [at |-> "close", h |-> h] \/ h \in stuck
    BY <1>4 DEF IInv, ClosePending, Closing, CloseIn
  <2>2. CloseIn(queue', h) \/ deal' = [at |-> "close", h |-> h] \/ h \in stuck'
    BY <2>1
  <2> QED
    BY <2>2 DEF Closing, CloseIn
<1> QED
  BY <1>2, <1>3, <1>4 DEF Settled

\* A completion of an earlier receive, with more than is awaited: the receive
\* the object waits for is another.
LEMMA RecvIgnoredDone ==
  ASSUME IInv, NEW r \in BagToSet(posted), IsValid(r.h), r.o = info[r.h].pRecv,
         NEW n \in 1 .. r.len, RecvIgnored(r, n), UNCHANGED Worker
  PROVE  Done(r)
<1>1. /\ n > ov[r.o].wLeft /\ posted' = posted (-) SetToBag({r})
      /\ UNCHANGED <<info, ov, memOverlapped, open, queue, stuck>>
  BY DEF RecvIgnored
<1>2. /\ r.h \in Handle /\ r.len \in Nat
      /\ IsABag(posted') /\ BagToSet(posted') \subseteq Request
      /\ \A p \in BagToSet(posted) : p # r => p \in BagToSet(posted')
      /\ ThreadsTyped' /\ Stable /\ speaks' \subseteq 1 .. lastSock'
      /\ UNCHANGED <<mapSocket, memSocket, lastSock, speaks, known, pc, obj, deal>>
  BY <1>1, Dequeued, Constants
<1>3. r.len # ov[r.o].wLeft
  <2>1. ov[r.o].wLeft \in 0 .. BufferLen
    BY <1>2, BufferState DEF IInv
  <2> QED
    BY <1>1, <1>2, <2>1, Constants
<1>4. Others(r.h) /\ Settled(r.h)
  BY <1>1, <1>2, <1>3, SameSettled
<1>5. Objects'
  <2>1. /\ open' \subseteq 1 .. lastSock' /\ lastSock' \in 0 .. MaxConn /\ lastSock <= lastSock'
    BY <1>1, <1>2, Constants DEF IInv, Typed, Objects, ObjTyped
  <2> QED
    BY <1>1, <1>2, <2>1, IdleKeeps DEF IInv, Typed, objects
<1>6. NetTyped' /\ QueueTyped'
  BY <1>1, <1>2 DEF IInv, Typed, NetTyped, QueueTyped
<1> QED
  BY <1>2, <1>4, <1>5, <1>6 DEF Done, Typed

\* A send is complete.
LEMMA SendCompleteDone ==
  ASSUME IInv, NEW r \in BagToSet(posted), r.o \in info[r.h].lstSend, SendComplete(r),
         UNCHANGED Worker
  PROVE  Done(r)
<1>1. /\ FreeBuffers({r.o}) /\ info' = [info EXCEPT ![r.h].lstSend = @ \ {r.o}]
      /\ posted' = posted (-) SetToBag({r}) /\ UNCHANGED <<open, queue, stuck>>
  BY DEF SendComplete
<1>2. /\ r.h \in Handle
      /\ IsABag(posted') /\ BagToSet(posted') \subseteq Request
      /\ \A p \in BagToSet(posted) : p # r => p \in BagToSet(posted')
      /\ ThreadsTyped' /\ Stable /\ speaks' \subseteq 1 .. lastSock'
      /\ UNCHANGED <<mapSocket, memSocket, lastSock, speaks, known, pc, obj, deal>>
  BY <1>1, Dequeued
<1>3. /\ Objects'
      /\ \A g \in Handle : /\ info'[g].s = info[g].s /\ info'[g].bActive = info[g].bActive
                           /\ info'[g].pRecv = info[g].pRecv
                           /\ info[g].pRecv # NULL => ov'[info[g].pRecv] = ov[info[g].pRecv]
  <2>1. Objects
    BY DEF IInv, Typed
  <2> HIDE DEF SendComplete
  <2> QED
    BY <1>1, <1>2, <2>1, SentKeeps
<1>4. r.o # info[r.h].pRecv
  BY <1>2 DEF IInv, Typed, Objects, Buffers
<1>5. Others(r.h) /\ Settled(r.h)
  BY <1>1, <1>2, <1>3, <1>4, SameSettled
<1>6. NetTyped' /\ QueueTyped'
  BY <1>1, <1>2 DEF IInv, Typed, NetTyped, QueueTyped
<1> QED
  BY <1>2, <1>3, <1>5, <1>6 DEF Done, Typed

\* Whatever the completion port returns.
LEMMA WorkerKeeps ==
  ASSUME IInv, NEW r \in BagToSet(posted), Complete(r) \/ ErrDeal(r)
  PROVE  IInv'
<1> SUFFICES Done(r)
  BY StepKeeps DEF Done, IInv
<1>1. BoundedQueue(queue) /\ (\A g \in Handle : CloseIn(queue, g) => CloseIn(queue, g))
      /\ Seeded(info, r.h)
  BY DEF IInv, Typed, QueueTyped, BoundedQueue, Seeded
<1>2. UNCHANGED Worker
  BY DEF Complete, ErrDeal
<1>3. r.len \in 1 .. BufferLen
  BY <1>2, Dequeued
<1>4. CASE ErrDeal(r)
  BY <1>1, <1>2, <1>4, CloseDone DEF ErrDeal
<1>5. CASE Complete(r)
  <2>1. PICK n \in 1 .. r.len : OnCompleteEvent(r, n)
    BY <1>3, <1>5 DEF Complete
  <2>2. n \in 1 .. BufferLen
    BY <1>3, Constants
  <2>3. CASE IsValid(r.h) /\ r.o = info[r.h].pRecv /\
             (RecvSeed(r, n) \/ RecvHead(r, n) \/ RecvBody(r, n) \/ RecvPart(r, n) \/ RecvIgnored(r, n))
    BY <1>2, <2>2, <2>3, RecvSeedDone, RecvHeadDone, RecvBodyDone, RecvPartDone, RecvIgnoredDone
  <2>4. CASE IsValid(r.h) /\ r.o \in info[r.h].lstSend /\ SendComplete(r)
    BY <1>2, <2>4, SendCompleteDone
  <2>5. CASE CloseSocket(info, r.h, queue) /\ posted' = posted (-) SetToBag({r})
    BY <1>1, <1>2, <2>5, CloseDone
  <2> QED
    BY <2>1, <2>3, <2>4, <2>5 DEF OnCompleteEvent
<1> QED
  BY <1>4, <1>5

-----------------------------------------------------------------------------
(* The threads that open sockets.                                           *)

\* NewSocket concerns an object that is not in the map.
LEMMA NewSocketKeepsAll ==
  ASSUME IInv, NEW t \in Openers, NewSocket(t) \/ NewSocketFails(t) \/ NoObject(t)
  PROVE  IInv'
<1>1. Typed'
  BY NewSocketTyped, NewSocketFailsTyped DEF IInv
<1>2. NewSock(t) /\ pc[t] = "open" /\ \A u \in Openers : u # t => pc'[u] = pc[u] /\ obj'[u] = obj[u]
  BY DEF IInv, Typed, ThreadsTyped, NewSocket, NewSocketFails, NoObject, Goto
<1>3. UNCHANGED <<mapSocket, posted, queue, stuck, known, deal>>
  BY <1>2 DEF NewSock
<1>4. mapSocket \subseteq memSocket /\ mapSocket \subseteq Handle
  BY DEF IInv, Typed, Objects, ObjTyped, InUse
<1>5. PICK h : /\ h \notin mapSocket
               /\ \A g \in mapSocket : info'[g] = info[g]
               /\ \A g \in mapSocket : info[g].pRecv # NULL => ov'[info[g].pRecv] = ov[info[g].pRecv]
  <2>1. CASE NoObject(t)
    <3>1. UNCHANGED <<info, ov>>
      BY <2>1 DEF NoObject
    <3> QED
      BY <1>4, <3>1, Constants
  <2>2. CASE NewSocketFails(t)
    <3>1. PICK h \in Handle \ memSocket :
            info' = [info EXCEPT ![h].s = lastSock', ![h].bActive = TRUE]
      BY <2>2 DEF NewSocketFails
    <3>2. ov' = ov
      BY <2>2 DEF NewSocketFails
    <3>3. \A g \in mapSocket : info'[g] = info[g]
      BY <1>4, <3>1 DEF IInv, Typed, Objects, ObjTyped
    <3> QED
      BY <1>4, <3>1, <3>2, <3>3
  <2>3. CASE NewSocket(t)
    <3>1. PICK h \in Handle \ memSocket, o \in Overlapped \ memOverlapped :
            /\ info' = [info EXCEPT ![h] = [@ EXCEPT !.s = lastSock', !.bActive = TRUE, !.pRecv = o]]
            /\ ov' = [ov EXCEPT ![o] = Zero]
      BY <2>3 DEF NewSocket
    <3>2. \A g \in mapSocket : info'[g] = info[g]
      BY <1>4, <3>1 DEF IInv, Typed, Objects, ObjTyped
    <3>3. ASSUME NEW g \in mapSocket, info[g].pRecv # NULL
          PROVE  ov'[info[g].pRecv] = ov[info[g].pRecv]
      <4>1. info[g].pRecv \in Overlapped
        BY <1>4, <3>3 DEF IInv, Typed, Objects, ObjTyped, SockInfo
      <4>2. info[g].pRecv \in memOverlapped
        BY <1>4, <4>1 DEF IInv, Typed, Objects, Buffers, Has
      <4> QED
        BY <3>1, <4>1, <4>2 DEF IInv, Typed, Objects, ObjTyped
    <3> QED
      BY <1>4, <3>1, <3>2, <3>3
  <2> QED
    BY <2>1, <2>2, <2>3
<1>6. Others(h)
  BY <1>2, <1>3, <1>4, <1>5 DEF Others
<1>7. Settled(h)
  BY <1>3, <1>5 DEF Settled
<1> QED
  BY <1>1, <1>6, <1>7, StepKeeps DEF IInv

\* AddSock: the receive is about to be posted.
LEMMA AddSockKeepsAll ==
  ASSUME IInv, NEW t \in Openers, AddSock(t)
  PROVE  IInv'
<1>1. Typed'
  BY AddSockTyped DEF IInv
<1>2. /\ pc[t] = "add" /\ pc' = [pc EXCEPT ![t] = "recv"]
      /\ mapSocket' = mapSocket \cup {obj[t]}
      /\ UNCHANGED <<info, ov, posted, queue, stuck, obj, deal>>
  BY DEF AddSock, Goto, net
<1>3. pc'[t] = "recv" /\ \A u \in Openers \ {t} : pc'[u] = pc[u]
  BY <1>2 DEF IInv, Typed, ThreadsTyped
<1>4. t \in Adders /\ info[obj[t]].bActive
  BY <1>2 DEF Adders, IInv, Typed, Objects, InUse
<1>5. PICK h : h = obj[t]
  OBVIOUS
<1>6. Others(h)
  BY <1>2, <1>3, <1>5 DEF Others
<1>7. Settled(h)
  BY <1>2, <1>3, <1>4, <1>5 DEF Settled, Awaited
<1> QED
  BY <1>1, <1>6, <1>7, StepKeeps DEF IInv

\* The first receive is posted.
LEMMA FirstRecvKeepsAll ==
  ASSUME IInv, NEW t \in Openers, FirstRecv(t)
  PROVE  IInv'
<1> PICK h : h = obj[t]
  OBVIOUS
<1>1. /\ Typed' /\ SameObjects(info', info)
      /\ \A o \in Overlapped \ {info[h].pRecv} : ov'[o] = ov[o]
      /\ h \in mapSocket /\ info[h].pRecv \in Overlapped
      /\ ov'[info[h].pRecv] = FrameHead
      /\ BagToSet(posted) \subseteq BagToSet(posted')
      /\ [h |-> h, o |-> info[h].pRecv, s |-> info[h].s, len |-> HeadLen, send |-> FALSE]
           \in BagToSet(posted')
  BY FirstRecvTyped DEF IInv
<1>2. /\ pc[t] = "recv" /\ pc' = [pc EXCEPT ![t] = IF t \in Accepting THEN "event" ELSE "seed"]
      /\ IsValid(h)
      /\ UNCHANGED <<mapSocket, queue, stuck, obj, deal>>
  BY DEF FirstRecv, Goto, PostRecv
<1>3. \A u \in Openers \ {t} : pc'[u] = pc[u]
  BY <1>2 DEF IInv, Typed, ThreadsTyped
<1>4. mapSocket \subseteq Handle
  BY DEF IInv, Typed, Objects, ObjTyped
<1>5. \A g \in Handle \ {h} : info[g].pRecv # NULL => ov'[info[g].pRecv] = ov[info[g].pRecv]
  <2> SUFFICES ASSUME NEW g \in Handle \ {h}, info[g].pRecv # NULL
               PROVE  ov'[info[g].pRecv] = ov[info[g].pRecv]
    OBVIOUS
  <2>1. info[g].pRecv \in Overlapped
    BY DEF IInv, Typed, Objects, ObjTyped, SockInfo
  <2>2. info[g].pRecv # info[h].pRecv
    BY <1>1, <1>4, <2>1 DEF IInv, Typed, Objects, Buffers, Has
  <2> QED
    BY <1>1, <2>1, <2>2
<1>6. Others(h)
  BY <1>1, <1>2, <1>3, <1>4, <1>5 DEF Others, SameObjects
<1>7. Receiving(h)'
  <2> DEFINE r == [h |-> h, o |-> info[h].pRecv, s |-> info[h].s, len |-> HeadLen, send |-> FALSE]
  <2>1. r \in BagToSet(posted') /\ r.h = h /\ r.o = info[h].pRecv /\ r.s = info[h].s
        /\ ~r.send /\ r.len = HeadLen
    BY <1>1
  <2>2. info'[h].pRecv = info[h].pRecv /\ info'[h].s = info[h].s
    BY <1>1, <1>4 DEF SameObjects
  <2>3. ov'[info[h].pRecv].wLeft = HeadLen
    BY <1>1 DEF FrameHead
  <2> HIDE DEF r
  <2>4. /\ r.h = h /\ r.o = info'[h].pRecv /\ r.s = info'[h].s /\ ~r.send
        /\ r.len = ov'[r.o].wLeft
    BY <2>1, <2>2, <2>3
  <2>5. \E p \in BagToSet(posted') : /\ p.h = h /\ p.o = info'[h].pRecv /\ p.s = info'[h].s /\ ~p.send
                                     /\ p.len = ov'[p.o].wLeft
    BY <2>1, <2>4
  <2> QED
    BY <2>5 DEF Receiving
<1>8. info'[h].bActive
  BY <1>1, <1>2, <1>4 DEF SameObjects, IsValid
<1>9. Settled(h)
  BY <1>2, <1>7, <1>8 DEF Settled, Awaited
<1> QED
  BY <1>1, <1>6, <1>9, StepKeeps DEF IInv

\* The receive cannot be posted, and the thread deletes its object.
LEMMA FirstRecvFailsKeepsAll ==
  ASSUME IInv, NEW t \in Openers, FirstRecvFails(t)
  PROVE  IInv'
<1> PICK h : h = obj[t]
  OBVIOUS
<1>1. Typed' /\ Stable
  BY FirstRecvFailsTyped DEF IInv
<1>2. /\ pc[t] = "recv" /\ pc' = [pc EXCEPT ![t] = "open"] /\ obj' = [obj EXCEPT ![t] = NULL]
      /\ DeleteSock(h)
      /\ UNCHANGED <<posted, lastSock, queue, deal>>
  BY DEF FirstRecvFails, Goto
<1>3. h \in Handle
  BY <1>2 DEF IInv, Typed, ThreadsTyped
<1>4. \A u \in Openers : pc[u] = "recv" /\ obj[u] # h => pc'[u] = "recv" /\ obj'[u] = obj[u]
  BY <1>2 DEF IInv, Typed, ThreadsTyped
<1>5. Others(h) /\ h \notin mapSocket'
  BY <1>1, <1>2, <1>3, <1>4, DeleteStep DEF IInv
<1>6. Settled(h)
  BY <1>5 DEF Settled
<1> QED
  BY <1>1, <1>5, <1>6, StepKeeps DEF IInv

\* A thread is done with its object; it does not look at the others.
LEMMA ThreadDoneKeepsAll ==
  ASSUME IInv, NEW t \in Openers,
         \/ t \in Accepting /\ AcceptEvent(t)
         \/ t \in Connecting /\ (Connected(t) \/ ConnectTimeout(t))
  PROVE  IInv'
<1>1. Typed'
  BY AcceptEventTyped, ConnectedTyped DEF IInv
<1>2. pc[t] # "recv" /\ \A u \in Openers \ {t} : pc'[u] = pc[u] /\ obj'[u] = obj[u]
  BY DEF IInv, Typed, ThreadsTyped, AcceptEvent, Connected, ConnectTimeout, Goto
<1>3. UNCHANGED <<mapSocket, info, ov, posted, stuck, deal>>
  BY DEF AcceptEvent, Connected, ConnectTimeout, objects, net
<1>4. \A g : CloseIn(queue, g) => CloseIn(queue', g)
  <2>1. CASE t \in Accepting /\ AcceptEvent(t)
    <3>1. queue' = Insert(queue, obj[t], "accept") /\ pc[t] = "event"
      BY <2>1 DEF AcceptEvent, Goto
    <3>2. obj[t] \in Handle /\ BoundedQueue(queue)
      BY <3>1 DEF IInv, Typed, ThreadsTyped, QueueTyped, BoundedQueue
    <3> QED
      BY <3>1, <3>2, InsertKeeps
  <2>2. CASE Connected(t) \/ ConnectTimeout(t)
    BY <2>2 DEF Connected, ConnectTimeout
  <2> QED
    BY <2>1, <2>2
<1>5. mapSocket \subseteq Handle /\ NULL \notin Handle
  BY Constants DEF IInv, Typed, Objects, ObjTyped
<1>6. Others(NULL)
  BY <1>2, <1>3, <1>4, <1>5 DEF Others
<1>7. Settled(NULL)
  BY <1>3, <1>5 DEF Settled
<1> QED
  BY <1>1, <1>6, <1>7, StepKeeps DEF IInv

-----------------------------------------------------------------------------
(* The callback thread and the application.                                 *)

\* The consumer takes the first event of the queue.
LEMMA TakeKeeps ==
  ASSUME IInv, DealData \/ DealClose \/ DealAccept
  PROVE  IInv'
<1>1. /\ deal.at = "get" /\ queue # <<>> /\ queue' = Tail(queue)
      /\ known' \subseteq known
      /\ UNCHANGED <<objects, net, stuck, pc, obj>>
  BY DEF DealData, DealClose, DealAccept, Take
<1>2. /\ queue \in Seq(Item) /\ Len(queue) <= QueueMax /\ stuck \subseteq Handle
  BY DEF IInv, Typed, QueueTyped
<1>3. /\ Len(queue) \in Nat \ {0} /\ Tail(queue) \in Seq(Item) /\ Len(Tail(queue)) = Len(queue) - 1
      /\ \A i \in 1 .. Len(queue) - 1 : Tail(queue)[i] = queue[i + 1]
      /\ Head(queue) = queue[1] /\ queue[1] \in Item
  BY <1>1, <1>2
<1>4. QueueTyped'
  BY <1>1, <1>2, <1>3, Constants DEF QueueTyped
<1>5. PICK h : h = Head(queue).h
  OBVIOUS
<1>6. h \in Handle
  BY <1>3, <1>5 DEF Item
<1>7. \/ deal' = deal /\ Head(queue).op # "close"
      \/ deal' = [at |-> "accept", h |-> h] /\ Head(queue).op # "close"
      \/ deal' = [at |-> "close", h |-> h]
  BY <1>5 DEF DealData, DealClose, DealAccept, Take
<1>8. ThreadsTyped' /\ Stable
  <2>1. /\ deal' \in [at : {"get", "close", "accept"}, h : Handle \cup {NULL}]
        /\ deal'.at # "get" => deal'.h \in Handle
    BY <1>6, <1>7 DEF IInv, Typed, ThreadsTyped
  <2> QED
    BY <1>1, <2>1 DEF IInv, Typed, ThreadsTyped, Stable, Adders
<1>9. Objects' /\ NetTyped'
  BY <1>1, <1>8, IdleKeeps DEF IInv, Typed, NetTyped, Objects, ObjTyped, net
<1>10. \A g : CloseIn(queue, g) /\ (g # h \/ Head(queue).op # "close") => CloseIn(queue', g)
  <2> SUFFICES ASSUME NEW g, CloseIn(queue, g), g # h \/ Head(queue).op # "close"
               PROVE  CloseIn(queue', g)
    OBVIOUS
  <2>1. PICK i \in 1 .. Len(queue) : queue[i] = [h |-> g, op |-> "close"]
    BY DEF CloseIn
  <2>2. i # 1
    BY <1>3, <1>5, <2>1
  <2>3. i - 1 \in 1 .. Len(queue') /\ queue'[i - 1] = queue[i]
    BY <1>1, <1>3, <2>1, <2>2
  <2> QED
    BY <2>1, <2>3 DEF CloseIn
<1>11. mapSocket \subseteq Handle /\ \A g : deal # [at |-> "close", h |-> g]
  BY <1>1 DEF IInv, Typed, Objects, ObjTyped
<1>12. Others(h)
  BY <1>1, <1>10, <1>11 DEF Others, objects, net
<1>13. Settled(h)
  <2>1. ASSUME h \in mapSocket, info[h].bActive PROVE Awaited(h)'
    <3>1. Awaited(h)
      BY <2>1 DEF IInv, Listening, IsValid, Awaited
    <3> QED
      BY <1>1, <3>1 DEF Awaited, Receiving, objects, net
  <2>2. ASSUME h \in mapSocket, ~info[h].bActive PROVE Closing(h)' \/ h \in stuck'
    <3>1. CloseIn(queue, h) \/ h \in stuck
      BY <1>11, <2>2 DEF IInv, ClosePending, Closing, CloseIn
    <3>2. CloseIn(queue', h) \/ h \in stuck' \/ deal' = [at |-> "close", h |-> h]
      BY <1>1, <1>7, <1>10, <3>1
    <3> QED
      BY <3>2 DEF Closing, CloseIn
  <2> QED
    BY <1>1, <2>1, <2>2 DEF Settled, objects
<1> QED
  BY <1>4, <1>8, <1>9, <1>12, <1>13, StepKeeps DEF IInv, Typed

\* The consumer is done with an event.
LEMMA IdleThreads ==
  ASSUME Typed, Idle, UNCHANGED <<pc, obj>>, known' \subseteq Handle
  PROVE  ThreadsTyped' /\ Stable
  BY Constants DEF Typed, ThreadsTyped, Idle, Stable, Adders

\* The consumer deletes the object whose close it has reported.
LEMMA DealDeleteKeeps ==
  ASSUME IInv, DealDelete
  PROVE  IInv'
<1> PICK h : h = deal.h
  OBVIOUS
<1>1. /\ deal.at = "close" /\ Idle
      /\ IF info[h].s # 0 THEN DeleteSock(h) ELSE UNCHANGED <<objects, open, stuck>>
      /\ UNCHANGED <<posted, lastSock, speaks, queue, known, pc, obj>>
  BY DEF DealDelete
<1>2. h \in Handle /\ deal = [at |-> "close", h |-> h]
  BY <1>1 DEF IInv, Typed, ThreadsTyped
<1>3. ThreadsTyped' /\ Stable
  BY <1>1, IdleThreads DEF IInv, Typed, ThreadsTyped
<1>4. \A g \in Handle \ {h} : deal # [at |-> "close", h |-> g]
  BY <1>2
<1>5. Objects' /\ QueueTyped' /\ Others(h) /\ h \notin mapSocket'
  <2>1. CASE DeleteSock(h)
    BY <1>1, <1>2, <1>3, <1>4, <2>1, DeleteStep DEF IInv
  <2>2. CASE info[h].s = 0 /\ UNCHANGED <<objects, open, stuck>>
    <3>1. h \notin mapSocket /\ mapSocket \subseteq Handle
      BY <2>2 DEF IInv, Typed, Objects, ObjTyped, InUse, Numbers
    <3>2. Objects' /\ QueueTyped'
      BY <1>1, <1>3, <2>2, IdleKeeps DEF IInv, Typed, Objects, ObjTyped, QueueTyped
    <3>3. Others(h)
      BY <1>1, <1>4, <2>2, <3>1 DEF Others, objects
    <3> QED
      BY <2>2, <3>1, <3>2, <3>3 DEF objects
  <2> QED
    BY <1>1, <2>1, <2>2
<1>6. NetTyped' /\ Settled(h)
  BY <1>1, <1>5 DEF IInv, Typed, NetTyped, Settled
<1> QED
  BY <1>3, <1>5, <1>6, StepKeeps DEF IInv, Typed

\* A send is posted, of an object that differs at most in its seed flag.
Posts(h) == \E i, len : Seeded(i, h) /\ len \in 1 .. BufferLen /\ PostSend(i, h, len)

\* What SendPacket and SendEncryptKey do to the object, valid or not, when the
\* consumer is not about to delete it.
LEMMA SendStep ==
  ASSUME IInv, Stable, ThreadsTyped', NEW h \in Handle,
         UNCHANGED <<mapSocket, memSocket, lastSock, pc, obj>>, speaks' \subseteq 1 .. lastSock',
         \A g \in Handle : deal = [at |-> "close", h |-> g] => deal' = deal,
         \/ Posts(h) \/ FailSend(h) \/ (StraySend(h) /\ UNCHANGED posted)
         \/ UNCHANGED <<info, ov, memOverlapped, posted, open, queue, stuck>>
  PROVE  IInv'
<1> USE DEF IInv, Typed
<1>1. CASE FailSend(h)
  <2>1. CloseSocket(info, h, queue) /\ posted' = posted
    BY <1>1 DEF FailSend
  <2>2. BoundedQueue(queue) /\ Seeded(info, h)
    BY DEF QueueTyped, BoundedQueue, Seeded
  <2>3. Objects' /\ QueueTyped' /\ Others(h) /\ Settled(h)
    BY <2>1, <2>2, CloseStep
  <2>4. NetTyped'
    BY <2>1 DEF NetTyped
  <2> QED
    BY <2>3, <2>4, StepKeeps
<1>2. CASE UNCHANGED <<info, ov, memOverlapped, posted, open, queue, stuck>>
  <2>1. Objects'
    BY <1>2, IdleKeeps DEF Objects, ObjTyped, objects
  <2>2. NetTyped' /\ QueueTyped'
    BY <1>2 DEF NetTyped, QueueTyped
  <2>3. Others(h) /\ Settled(h)
    BY <1>2, SameSettled
  <2> QED
    BY <2>1, <2>2, <2>3, StepKeeps
<1>3. ASSUME NEW i, Seeded(i, h), NEW o \in Overlapped \ memOverlapped,
             memOverlapped' = memOverlapped \cup {o},
             info' = [i EXCEPT ![h].lstSend = @ \cup {o}],
             ov' = [ov EXCEPT ![o] = SendBuffer], UNCHANGED <<open, queue, stuck>>,
             IsABag(posted') /\ BagToSet(posted') \subseteq Request,
             BagToSet(posted) \subseteq BagToSet(posted')
      PROVE  IInv'
  <2>1. /\ Objects'
        /\ \A g \in Handle : /\ info'[g].s = info[g].s /\ info'[g].bActive = info[g].bActive
                             /\ info'[g].pRecv = info[g].pRecv
                             /\ info[g].pRecv # NULL => ov'[info[g].pRecv] = ov[info[g].pRecv]
    BY <1>3, SendKeeps
  <2>2. NetTyped' /\ QueueTyped'
    BY <1>3 DEF NetTyped, QueueTyped
  <2>3. Others(h) /\ Settled(h)
    BY <1>3, <2>1, SameSettled
  <2> QED
    BY <2>1, <2>2, <2>3, StepKeeps
<1>4. CASE StraySend(h) /\ UNCHANGED posted
  BY <1>3, <1>4 DEF StraySend, Seeded, NetTyped
<1>5. CASE Posts(h)
  <2>1. PICK i, len : Seeded(i, h) /\ len \in 1 .. BufferLen /\ PostSend(i, h, len)
    BY <1>5 DEF Posts
  <2>2. /\ IsABag(posted') /\ BagToSet(posted') \subseteq Request
        /\ BagToSet(posted) \subseteq BagToSet(posted')
    BY <2>1, PostSendTyped
  <2> QED
    BY <1>3, <2>1, <2>2 DEF PostSend
<1> QED
  BY <1>1, <1>2, <1>4, <1>5

\* The consumer sends the seed to a new client.
LEMMA DealSeedKeeps ==
  ASSUME IInv, DealSeed
  PROVE  IInv'
<1> PICK h : h = deal.h
  OBVIOUS
<1>1. /\ deal.at = "accept" /\ Idle /\ SendEncryptKey(h) /\ known' = known \cup {h}
      /\ UNCHANGED <<mapSocket, memSocket, lastSock, pc, obj>>
  BY DEF DealSeed
<1>2. h \in Handle /\ known \subseteq Handle
  BY <1>1 DEF IInv, Typed, ThreadsTyped
<1>3. ThreadsTyped' /\ Stable
  BY <1>1, <1>2, IdleThreads DEF IInv, Typed
<1>4. \A g : deal # [at |-> "close", h |-> g]
  BY <1>1
<1>5. info[h].s \in Nat /\ speaks \subseteq 1 .. lastSock /\ lastSock \in Nat /\ open \subseteq 1 .. lastSock
  BY <1>2, Constants DEF IInv, Typed, NetTyped, Objects, ObjTyped, SockInfo
<1>6. CASE /\ info[h].s = 0
           /\ UNCHANGED <<info, ov, memOverlapped, posted, open, speaks, queue, stuck>>
  BY <1>1, <1>2, <1>3, <1>4, <1>5, <1>6, SendStep
<1>7. CASE /\ PostSend([info EXCEPT ![h].seed = TRUE], h, SeedLen)
           /\ speaks' = speaks \cup {info[h].s}
  <2>1. info[h].s \in open
    BY <1>7 DEF PostSend
  <2>2. speaks' \subseteq 1 .. lastSock'
    BY <1>1, <1>5, <1>7, <2>1
  <2>3. Posts(h)
    BY <1>7, Constants DEF Seeded, Posts
  <2> QED
    BY <1>1, <1>2, <1>3, <1>4, <2>2, <2>3, SendStep
<1>8. CASE (FailSend(h) \/ StraySend(h)) /\ UNCHANGED speaks
  <2>1. FailSend(h) \/ (StraySend(h) /\ UNCHANGED posted)
    BY <1>8 DEF StraySend
  <2>2. speaks' \subseteq 1 .. lastSock'
    BY <1>1, <1>5, <1>8
  <2> QED
    BY <1>1, <1>2, <1>3, <1>4, <2>1, <2>2, SendStep
<1> QED
  BY <1>1, <1>6, <1>7, <1>8 DEF SendEncryptKey

\* The application sends.
LEMMA AppSendKeeps ==
  ASSUME IInv, AppSend
  PROVE  IInv'
<1>1. PICK h \in known : SendPacket(h)
  BY DEF AppSend
<1>2. h \in Handle /\ speaks \subseteq 1 .. lastSock
  BY DEF IInv, Typed, ThreadsTyped, NetTyped
<1>3. UNCHANGED <<mapSocket, memSocket, lastSock, speaks, known, pc, obj, deal>>
  BY <1>1 DEF SendPacket, app
<1>4. ThreadsTyped' /\ Stable
  BY <1>3, ThreadsKept DEF IInv, Typed
<1>5. FailSend(h) \/ Posts(h)
  BY <1>1, SockAssumption DEF SendPacket, Seeded, Posts
<1> QED
  BY <1>2, <1>3, <1>4, <1>5, SendStep

\* The application disconnects.
LEMMA DisconnectKeeps ==
  ASSUME IInv, Disconnect
  PROVE  IInv'
<1>1. PICK h \in known : DeleteSock(h) /\ known' = known \ {h}
  BY DEF Disconnect
<1>2. UNCHANGED <<posted, lastSock, speaks, queue, pc, obj, deal>>
  BY DEF Disconnect
<1>3. h \in Handle
  BY DEF IInv, Typed, ThreadsTyped
<1>4. ThreadsTyped' /\ Stable
  BY <1>1, <1>2 DEF IInv, Typed, ThreadsTyped, Stable, Adders
<1>5. Objects' /\ QueueTyped' /\ Others(h) /\ h \notin mapSocket'
  BY <1>1, <1>2, <1>3, <1>4, DeleteStep DEF IInv
<1>6. NetTyped' /\ Settled(h)
  BY <1>2, <1>5 DEF IInv, Typed, NetTyped, Settled
<1> QED
  BY <1>4, <1>5, <1>6, StepKeeps DEF IInv, Typed

-----------------------------------------------------------------------------
(* The theorems.                                                            *)

\* The strengthened invariant holds at the start ...
LEMMA InitIInv == Init => IInv
<1> SUFFICES ASSUME Init PROVE IInv
  OBVIOUS
<1> USE Constants DEF Init
<1>1. PICK active \in BOOLEAN :
        info = [h \in Handle |-> [s |-> 0, bActive |-> active, pRecv |-> NULL,
                                  lstSend |-> {}, seed |-> FALSE]]
  OBVIOUS
<1>2. /\ info \in [Handle -> SockInfo]
      /\ \A h \in Handle : info[h].pRecv = NULL /\ info[h].lstSend = {}
  <2> DEFINE x == [s |-> 0, bActive |-> active, pRecv |-> NULL, lstSend |-> {}, seed |-> FALSE]
  <2>1. 0 \in Nat /\ {} \in SUBSET Overlapped /\ FALSE \in BOOLEAN
    OBVIOUS
  <2>2. x \in SockInfo
    BY <2>1, Zenon DEF SockInfo
  <2>3. x.pRecv = NULL /\ x.lstSend = {} /\ info = [h \in Handle |-> x]
    BY <1>1
  <2> HIDE DEF x
  <2> QED
    BY <2>2, <2>3
<1>3. ObjTyped
  <2>1. Zero \in [op : Op, wLeft : 0 .. Word - 1, wIndex : 0 .. Word - 1]
    BY DEF Zero, Op
  <2>2. ov \in [Overlapped -> [op : Op, wLeft : 0 .. Word - 1, wIndex : 0 .. Word - 1]]
    BY <2>1
  <2>3. mapSocket = {} /\ memSocket = {} /\ memOverlapped = {} /\ open = {} /\ lastSock = 0
    OBVIOUS
  <2>4. open \subseteq 1 .. lastSock /\ lastSock \in 0 .. MaxConn
    BY <2>3
  <2> QED
    BY <1>2, <2>2, <2>3, <2>4 DEF ObjTyped
<1>4. Adders = {}
  BY DEF Adders
<1>5. InUse /\ Numbers
  BY <1>4 DEF InUse, Numbers
<1>6. Buffers
  <2>1. \A h \in Handle, o \in Overlapped : ~Has(h, o)
    BY <1>2 DEF Has
  <2> QED
    BY <1>2, <2>1 DEF Buffers
<1>7. NetTyped
  BY DEF NetTyped, EmptyBag, IsABag, BagToSet, SetToBag
<1>8. QueueTyped
  BY DEF QueueTyped
<1>9. ThreadsTyped
  BY DEF ThreadsTyped
<1>10. Listening /\ ClosePending
  BY DEF Listening, ClosePending
<1> QED
  BY <1>3, <1>5, <1>6, <1>7, <1>8, <1>9, <1>10 DEF IInv, Typed, Objects

\* ... and is kept by every step.
LEMMA NextIInv == IInv /\ [Next]_vars => IInv'
<1> SUFFICES ASSUME IInv, [Next]_vars PROVE IInv'
  OBVIOUS
<1>1. CASE \E t \in Openers : Open(t)
  BY <1>1, NewSocketKeepsAll, AddSockKeepsAll, FirstRecvKeepsAll, FirstRecvFailsKeepsAll DEF Open
<1>2. CASE \/ \E t \in Accepting : AcceptEvent(t)
           \/ \E t \in Connecting : Connected(t) \/ ConnectTimeout(t)
  BY <1>2, ThreadDoneKeepsAll DEF Openers
<1>3. CASE \E r \in BagToSet(posted) : Complete(r) \/ ErrDeal(r)
  BY <1>3, WorkerKeeps
<1>4. CASE Deal
  BY <1>4, TakeKeeps, DealDeleteKeeps, DealSeedKeeps DEF Deal
<1>5. CASE AppSend \/ Disconnect
  BY <1>5, AppSendKeeps, DisconnectKeeps
<1>6. CASE UNCHANGED vars
  <2>1. /\ UNCHANGED <<mapSocket, info, memSocket, ov, memOverlapped, posted, open, lastSock, speaks>>
        /\ UNCHANGED <<queue, stuck, known, pc, obj, deal>>
    BY <1>6 DEF vars, objects, net, app
  <2>2. Typed'
    BY <2>1 DEF IInv, Typed, NetTyped, QueueTyped, ThreadsTyped, Objects, ObjTyped,
                InUse, Buffers, Numbers, Has, Adders
  <2>3. Listening' /\ ClosePending'
    BY <2>1 DEF IInv, Listening, ClosePending, IsValid, Receiving, Closing
  <2> QED
    BY <2>2, <2>3 DEF IInv
<1> QED
  BY <1>1, <1>2, <1>3, <1>4, <1>5, <1>6 DEF Next

\* The invariant of every behaviour.
THEOREM Invariance == Spec => []IInv
  BY InitIInv, NextIInv, PTL DEF Spec

\* Every state is well typed.
THEOREM Typing == Spec => []TypeOK
<1>1. IInv => TypeOK
  BY DEF IInv, Typed, NetTyped, QueueTyped, ThreadsTyped, Objects, ObjTyped, TypeOK
<1> QED
  BY <1>1, Invariance, PTL

\* A buffer that is in use has one owner, and an object that is in use is in
\* the map or about to be: whatever order sockets were closed, reported,
\* deleted and opened in, nothing is given back twice, lost or shared.
THEOREM OneOwner == Spec => []Ownership
<1>1. IInv => Ownership
  <2> SUFFICES ASSUME IInv PROVE Ownership
    OBVIOUS
  <2>1. Objects
    BY DEF IInv, Typed
  <2>2. \A h \in Handle, o \in Overlapped : o \in Owned(h) <=> Has(h, o)
    BY <2>1, Constants DEF Owned, Has
  <2>3. \A h \in Handle : Owned(h) \subseteq Overlapped
    BY <2>1 DEF Owned, Objects, ObjTyped, SockInfo
  <2>4. memSocket = mapSocket \cup {obj[t] : t \in {u \in Openers : pc[u] = "add"}}
    BY <2>1 DEF Objects, InUse, ObjTyped, Adders
  <2>5. \A t \in Openers : pc[t] = "add" => obj[t] \notin mapSocket
    BY <2>1 DEF Objects, InUse, Adders
  <2>6. \A g, h \in Handle : g # h => Owned(g) \cap Owned(h) = {}
    BY <2>1, <2>2, <2>3 DEF Objects, Buffers
  <2>7. memOverlapped = UNION {Owned(h) : h \in Handle}
    BY <2>1, <2>2, <2>3 DEF Objects, Buffers, ObjTyped
  <2>8. /\ \A h \in Handle : info[h].pRecv \notin info[h].lstSend
        /\ \A h \in Handle \ memSocket : info[h].pRecv = NULL
    BY <2>1 DEF Objects, Buffers
  <2> QED
    BY <2>4, <2>5, <2>6, <2>7, <2>8 DEF Ownership
<1> QED
  BY <1>1, Invariance, PTL

\* A valid object has a socket of its own, and in a server that socket is open.
THEOREM OwnSockets == Spec => []Sockets
<1>1. IInv => Sockets
  BY DEF IInv, Typed, Objects, ObjTyped, InUse, Numbers, Sockets, IsValid
<1> QED
  BY <1>1, Invariance, PTL

\* A valid socket has a receive outstanding, of the length its object expects.
THEOREM AlwaysListening == Spec => []Listening
<1>1. IInv => Listening
  BY DEF IInv
<1> QED
  BY <1>1, Invariance, PTL

\* What a receive fills stays inside the buffer.
THEOREM InsideBuffer == Spec => []InBuffer
<1>1. IInv => InBuffer
  <2> SUFFICES ASSUME IInv, NEW h \in mapSocket, IsValid(h)
               PROVE  ov[info[h].pRecv].wIndex + ov[info[h].pRecv].wLeft <= BufferLen
    BY DEF InBuffer
  <2>1. h \in Handle
    BY DEF IInv, Typed, Objects, ObjTyped
  <2> QED
    BY <2>1, BufferState DEF IInv
<1> QED
  BY <1>1, Invariance, PTL

\* A closed socket is on its way to be reported and deleted, unless its event
\* was refused.
THEOREM ClosesPending == Spec => []ClosePending
<1>1. IInv => ClosePending
  BY DEF IInv
<1> QED
  BY <1>1, Invariance, PTL
=============================================================================
