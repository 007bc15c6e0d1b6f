------------------------------- MODULE SockMgr -------------------------------
(***************************************************************************)
(* CGCSSockMgr and CGCSIoCP: the sockets of the IOCP server, between the   *)
(* threads that open them (AcceptThread, GCEApiSRTNetConnect), the worker  *)
(* of the completion port, the thread that makes the callbacks             *)
(* (DealRecvDataThread) and the application.                               *)
(*                                                                         *)
(* A connection is an object GCSTS_Sock_Info, whose address is the handle  *)
(* the application knows and the key of the completion port.  Objects and  *)
(* overlapped buffers come from pools (MemMgr) and are used again without  *)
(* being constructed anew, while handles to them wait in the callback      *)
(* queue (DealQueue, here the Fifo it implements) and in the port.         *)
(*                                                                         *)
(* Whatever holds m_cs is one step.  There is one manager, as on a machine *)
(* where all sockets fall to g_pSockMgr[0].                                *)
(***************************************************************************)
EXTENDS Integers, Sequences, FiniteSets, Bags

CONSTANTS
  Handle,        \* the objects of m_memSocket
  Overlapped,    \* the objects of m_memOverlapped
  NULL,
  Accepting,     \* AcceptThread, if the program is a server
  Connecting,    \* the threads that call GCEApiSRTNetConnect
  QueueMax,      \* GCHMAC_MAX_WAITDEAL_COUNT
  SeedLen, HeadLen,    \* the seed, sizeof(GCSTH_Packet_Frame_Header)
  BodyMax, BufferLen,  \* PACKET_ONE_LENGTH, PACKET_ONE_HEADER_LENGTH
  Word,          \* the values of a WORD
  DataLen,       \* the values of wDataLen
  SendLen,       \* the sizes of what is sent
  MaxConn        \* bound: connections in a behaviour

ASSUME SockAssumption ==
  /\ NULL \notin Handle \cup Overlapped
  /\ Accepting \cap Connecting = {}
  /\ QueueMax \in Nat \ {0}
  /\ SeedLen \in Nat \ {0} /\ HeadLen \in Nat /\ BodyMax \in Nat /\ BufferLen \in Nat
  /\ SeedLen < HeadLen /\ HeadLen <= BodyMax /\ HeadLen + BodyMax <= BufferLen
  /\ Word \in Nat /\ Word > 2 * BufferLen
  /\ DataLen \subseteq 0 .. Word - 1 /\ SendLen \subseteq 1 .. BufferLen
  /\ MaxConn \in Nat

VARIABLES
  mapSocket,      \* m_mapSocket
  info,           \* the objects GCSTS_Sock_Info, free ones included
  memSocket,      \* the objects of m_memSocket in use
  ov,             \* the overlapped buffers
  memOverlapped,  \* those in use
  posted,         \* a bag: operations started and not yet dequeued
  open,           \* the sockets that are open
  lastSock,       \* the last socket number: numbers are not used again
  speaks,         \* the sockets whose peer may send: it has the seed
  queue,          \* the callback queue
  stuck,          \* closed sockets whose close event was refused
  known,          \* the handles the application holds
  pc, obj,        \* of the threads that open sockets
  deal            \* of DealRecvDataThread

objects == <<mapSocket, info, memSocket, ov, memOverlapped>>
net     == <<posted, open, lastSock, speaks>>
app     == <<known, pc, obj, deal>>
vars    == <<objects, net, queue, stuck, app>>

Openers == Accepting \cup Connecting
Op      == {"accept", "head", "body", "send"}   \* GCEM_Commplet_Port_Operate_Type
Zero    == [op |-> "accept", wLeft |-> 0, wIndex |-> 0]   \* memset by NewOverlapped
Request == [h : Handle, o : Overlapped, s : Nat, len : 1 .. BufferLen, send : BOOLEAN]
Item    == [h : Handle, op : {"none", "close", "accept"}]
SockInfo == [s : Nat, bActive : BOOLEAN, pRecv : Overlapped \cup {NULL},
             lstSend : SUBSET Overlapped, seed : BOOLEAN]

\* Type invariant.
TypeOK ==
  /\ mapSocket \subseteq Handle /\ info \in [Handle -> SockInfo] /\ memSocket \subseteq Handle
  /\ ov \in [Overlapped -> [op : Op, wLeft : 0 .. Word - 1, wIndex : 0 .. Word - 1]]
  /\ memOverlapped \subseteq Overlapped
  /\ IsABag(posted) /\ BagToSet(posted) \subseteq Request
  /\ open \subseteq 1 .. lastSock /\ lastSock \in 0 .. MaxConn /\ speaks \subseteq 1 .. lastSock
  /\ queue \in Seq(Item) /\ Len(queue) <= QueueMax
  /\ stuck \subseteq Handle /\ known \subseteq Handle
  /\ pc \in [Openers -> {"open", "add", "recv", "event", "seed"}]
  /\ obj \in [Openers -> Handle \cup {NULL}]
  /\ deal \in [at : {"get", "close", "accept"}, h : Handle \cup {NULL}]

\* The constructor of GCSTS_Sock_Info; bActive is not initialised.
Init ==
  /\ mapSocket = {} /\ memSocket = {} /\ memOverlapped = {}
  /\ \E active \in BOOLEAN :
       info = [h \in Handle |-> [s |-> 0, bActive |-> active, pRecv |-> NULL,
                                 lstSend |-> {}, seed |-> FALSE]]
  /\ ov = [o \in Overlapped |-> Zero]
  /\ posted = EmptyBag /\ open = {} /\ lastSock = 0 /\ speaks = {}
  /\ queue = <<>> /\ stuck = {} /\ known = {}
  /\ pc = [t \in Openers |-> "open"] /\ obj = [t \in Openers |-> NULL]
  /\ deal = [at |-> "get", h |-> NULL]

-----------------------------------------------------------------------------
(* The operations of the manager.                                           *)

IsValid(h) == h \in mapSocket /\ info[h].bActive
Owned(h) == ({info[h].pRecv} \ {NULL}) \cup info[h].lstSend

\* Mutant: the limit is compared with <=.
BugOneTooMany(q, h, op) == IF Len(q) <= QueueMax THEN Append(q, [h |-> h, op |-> op]) ELSE q

\* InsertWaitDealData and InsertOtherData, whose results nobody looks at.
Insert(q, h, op) == IF Len(q) < QueueMax THEN Append(q, [h |-> h, op |-> op]) ELSE q

\* MyDel of the buffers; nobody reads what is left in them before the memset
\* of NewOverlapped.
FreeBuffers(set) ==
  /\ memOverlapped' = memOverlapped \ set
  /\ ov' = [o \in Overlapped |-> IF o \in set THEN Zero ELSE ov[o]]

Start(h, o, len, send) ==
  SetToBag({[h |-> h, o |-> o, s |-> info[h].s, len |-> len, send |-> send]})

\* Mutant: the socket stays active.
BugStaysActive(i, h, q) ==
  IF IsValid(h)
    THEN /\ FreeBuffers(Owned(h))
         /\ info' = [i EXCEPT ![h].pRecv = NULL, ![h].lstSend = {}]
         /\ open' = open \ {info[h].s}
         /\ queue' = Insert(q, h, "close")
         /\ stuck' = IF Len(q) < QueueMax THEN stuck ELSE stuck \cup {h}
    ELSE info' = i /\ queue' = q /\ UNCHANGED <<ov, memOverlapped, open, stuck>>

\* Mutant: no close event.
BugNoCloseEvent(i, h, q) ==
  IF IsValid(h)
    THEN /\ FreeBuffers(Owned(h))
         /\ info' = [i EXCEPT ![h].bActive = FALSE, ![h].pRecv = NULL, ![h].lstSend = {}]
         /\ open' = open \ {info[h].s}
         /\ queue' = q
         /\ stuck' = IF Len(q) < QueueMax THEN stuck ELSE stuck \cup {h}
    ELSE info' = i /\ queue' = q /\ UNCHANGED <<ov, memOverlapped, open, stuck>>

\* Of the objects i and the queue q, which the caller may have changed.  The
\* object stays in the map, and keeps its socket number, until the consumer
\* of the queue deletes it.
CloseSocket(i, h, q) ==
  IF IsValid(h)
    THEN /\ FreeBuffers(Owned(h))
         /\ info' = [i EXCEPT ![h].bActive = FALSE, ![h].pRecv = NULL, ![h].lstSend = {}]
         /\ open' = open \ {info[h].s}
         /\ queue' = Insert(q, h, "close")
         /\ stuck' = IF Len(q) < QueueMax THEN stuck ELSE stuck \cup {h}
    ELSE info' = i /\ queue' = q /\ UNCHANGED <<ov, memOverlapped, open, stuck>>

\* Mutant: the buffers of the sends are forgotten.
BugForgetsSends(h) ==
  IF h \in mapSocket
    THEN /\ mapSocket' = mapSocket \ {h} /\ memSocket' = memSocket \ {h}
         /\ FreeBuffers(Owned(h) \ info[h].lstSend)
         /\ IF info[h].bActive
              THEN /\ info' = [info EXCEPT ![h] = [@ EXCEPT !.bActive = FALSE, !.s = 0,
                                                             !.pRecv = NULL, !.lstSend = {}]]
                   /\ open' = open \ {info[h].s}
              ELSE /\ info' = [info EXCEPT ![h].pRecv = NULL, ![h].lstSend = {}]
                   /\ UNCHANGED open
         /\ stuck' = stuck \ {h}
    ELSE UNCHANGED <<objects, open, stuck>>

DeleteSock(h) ==
  IF h \in mapSocket
    THEN /\ mapSocket' = mapSocket \ {h} /\ memSocket' = memSocket \ {h}
         /\ FreeBuffers(Owned(h))
         /\ IF info[h].bActive
              THEN /\ info' = [info EXCEPT ![h] = [@ EXCEPT !.bActive = FALSE, !.s = 0,
                                                             !.pRecv = NULL, !.lstSend = {}]]
                   /\ open' = open \ {info[h].s}
              ELSE /\ info' = [info EXCEPT ![h].pRecv = NULL, ![h].lstSend = {}]
                   /\ UNCHANGED open
         /\ stuck' = stuck \ {h}
    ELSE UNCHANGED <<objects, open, stuck>>

\* wLeft of a send is not read again.
SendBuffer == [Zero EXCEPT !.op = "send"]

\* NewOverlapped and WSASend, of SendPacket and SendEncryptKey.
PostSend(i, h, len) ==
  /\ info[h].s \in open
  /\ \E o \in Overlapped \ memOverlapped :
       /\ memOverlapped' = memOverlapped \cup {o}
       /\ info' = [i EXCEPT ![h].lstSend = @ \cup {o}]
       /\ ov' = [ov EXCEPT ![o] = SendBuffer]
       /\ posted' = posted (+) Start(h, o, len, TRUE)
  /\ UNCHANGED <<open, queue, stuck>>

\* No buffer, or WSASend fails: the buffer goes with the others of the object.
FailSend(h) ==
  /\ IsValid(h) \/ memOverlapped = Overlapped
  /\ CloseSocket(info, h, queue)
  /\ UNCHANGED posted

\* The object was deleted since, and CloseSocket does nothing: the buffer stays
\* in its list until the object is used again and closed.
StraySend(h) ==
  /\ ~IsValid(h)
  /\ \E o \in Overlapped \ memOverlapped :
       /\ memOverlapped' = memOverlapped \cup {o}
       /\ info' = [info EXCEPT ![h].lstSend = @ \cup {o}]
       /\ ov' = [ov EXCEPT ![o] = SendBuffer]
  /\ UNCHANGED <<posted, open, queue, stuck>>

SendPacket(h) ==
  /\ IsValid(h) /\ info[h].s # 0
  /\ (\E len \in SendLen : PostSend(info, h, len)) \/ FailSend(h)
  /\ UNCHANGED <<mapSocket, memSocket, lastSock, speaks, app>>

-----------------------------------------------------------------------------
(* The threads that open sockets: accept or connect, then NewSocket.        *)

Goto(t, from, to) == pc[t] = from /\ pc' = [pc EXCEPT ![t] = to]

NewSock(t) ==
  /\ lastSock < MaxConn /\ lastSock' = lastSock + 1
  /\ speaks' = IF t \in Connecting THEN speaks \cup {lastSock'} ELSE speaks
  /\ UNCHANGED <<mapSocket, posted, queue, stuck, known, deal>>

NewSocket(t) ==
  /\ Goto(t, "open", "add")
  /\ NewSock(t)
  /\ \E h \in Handle \ memSocket, o \in Overlapped \ memOverlapped :
       /\ memSocket' = memSocket \cup {h} /\ memOverlapped' = memOverlapped \cup {o}
       /\ info' = [info EXCEPT ![h] = [@ EXCEPT !.s = lastSock', !.bActive = TRUE, !.pRecv = o]]
       /\ ov' = [ov EXCEPT ![o] = Zero]
       /\ obj' = [obj EXCEPT ![t] = h]
  /\ open' = open \cup {lastSock'}

\* CreateIoCompletionPort or NewOverlapped fails: the object goes back to the
\* pool as it is, the socket is closed.
NewSocketFails(t) ==
  /\ pc[t] = "open" /\ NewSock(t)
  /\ \E h \in Handle \ memSocket :
       info' = [info EXCEPT ![h].s = lastSock', ![h].bActive = TRUE]
  /\ UNCHANGED <<memSocket, ov, memOverlapped, open, pc, obj>>

\* All objects are in use: NewSocket returns without closing the socket.
NoObject(t) ==
  /\ pc[t] = "open" /\ NewSock(t)
  /\ memSocket = Handle
  /\ open' = open \cup {lastSock'}
  /\ UNCHANGED <<info, memSocket, ov, memOverlapped, pc, obj>>

AddSock(t) ==
  /\ Goto(t, "add", "recv")
  /\ mapSocket' = mapSocket \cup {obj[t]}
  /\ UNCHANGED <<info, memSocket, ov, memOverlapped, net, queue, stuck, known, obj, deal>>

\* WSARecv of RecvDataPart: x is the new state of the buffer.
PostRecv(i, h, x) ==
  /\ info[h].s \in open
  /\ info' = i
  /\ ov' = [ov EXCEPT ![info[h].pRecv] = x]
  /\ UNCHANGED <<memOverlapped, open, stuck>>

FrameHead == [op |-> "head", wLeft |-> HeadLen, wIndex |-> 0]

FirstRecv(t) ==
  LET h == obj[t] IN
  /\ Goto(t, "recv", IF t \in Accepting THEN "event" ELSE "seed")
  /\ IsValid(h)
  /\ PostRecv(info, h, FrameHead)
  /\ posted' = posted (+) Start(h, info[h].pRecv, HeadLen, FALSE)
  /\ UNCHANGED <<mapSocket, memSocket, lastSock, speaks, queue, known, obj, deal>>

\* RecvDataPart returns FALSE.
FirstRecvFails(t) ==
  /\ Goto(t, "recv", "open")
  /\ DeleteSock(obj[t])
  /\ obj' = [obj EXCEPT ![t] = NULL]
  /\ UNCHANGED <<posted, lastSock, speaks, queue, known, deal>>

\* AcceptThread, after NewSocket: whatever happened to the socket since.
AcceptEvent(t) ==
  /\ Goto(t, "event", "open")
  /\ queue' = Insert(queue, obj[t], "accept")
  /\ obj' = [obj EXCEPT ![t] = NULL]
  /\ UNCHANGED <<objects, net, stuck, known, deal>>

\* GCEApiSRTNetConnect looks at the object, without a lock, until it sees the
\* seed flag, ...
Connected(t) ==
  /\ Goto(t, "seed", "open")
  /\ info[obj[t]].seed
  /\ known' = known \cup {obj[t]}
  /\ obj' = [obj EXCEPT ![t] = NULL]
  /\ UNCHANGED <<objects, net, queue, stuck, deal>>

\* ... or, after GC_KEY_CONNECT_TIMEOUT, closes the socket of the object.
ConnectTimeout(t) ==
  /\ Goto(t, "seed", "open")
  /\ ~info[obj[t]].seed
  /\ open' = open \ {info[obj[t]].s}
  /\ obj' = [obj EXCEPT ![t] = NULL]
  /\ UNCHANGED <<objects, posted, lastSock, speaks, queue, stuck, known, deal>>

-----------------------------------------------------------------------------
(* WorkDealThread.                                                          *)

\* Mutant: the length is compared with the whole buffer.
BugWholeBuffer(i, r, x, q) ==
  \/ /\ x.wLeft \in 1 .. BufferLen
     /\ PostRecv(i, r.h, x)
     /\ queue' = q
     /\ posted' = (posted (-) SetToBag({r})) (+) Start(r.h, r.o, x.wLeft, FALSE)
  \/ CloseSocket(i, r.h, q) /\ posted' = posted (-) SetToBag({r})

\* RecvDataPart, of the completed request r: goes on with x, or closes the
\* socket because the length is wrong or WSARecv fails.
RecvDataPart(i, r, x, q) ==
  \/ /\ x.wLeft \in 1 .. BodyMax
     /\ PostRecv(i, r.h, x)
     /\ queue' = q
     /\ posted' = (posted (-) SetToBag({r})) (+) Start(r.h, r.o, x.wLeft, FALSE)
  \/ CloseSocket(i, r.h, q) /\ posted' = posted (-) SetToBag({r})

\* The rest of what is being received; wLeft is a WORD.
Rest(op, left, index, n) ==
  [op |-> op, wLeft |-> (left - n) % Word, wIndex |-> (index + n) % Word]

\* Mutant: no header is awaited after the seed.
BugSeedOnly(r, n) ==
  LET x    == ov[r.o]
      left == IF x.wIndex = 0 THEN SeedLen ELSE x.wLeft
  IN /\ ~info[r.h].seed
     /\ IF n = left
          THEN /\ info' = [info EXCEPT ![r.h].seed = TRUE]
               /\ posted' = posted (-) SetToBag({r})
               /\ UNCHANGED <<ov, memOverlapped, open, queue, stuck>>
          ELSE RecvDataPart(info, r, Rest("body", left, x.wIndex, n), queue)

\* RecvComplete before the seed.  The first receive asked for a header, so more
\* than the seed may have come; wLeft wraps around then.
RecvSeed(r, n) ==
  LET x    == ov[r.o]
      left == IF x.wIndex = 0 THEN SeedLen ELSE x.wLeft
  IN /\ ~info[r.h].seed
     /\ IF n = left
          THEN RecvDataPart([info EXCEPT ![r.h].seed = TRUE], r, FrameHead, queue)
          ELSE RecvDataPart(info, r, Rest("body", left, x.wIndex, n), queue)

\* RecvComplete with a whole header, of any length.
RecvHead(r, n) ==
  /\ info[r.h].seed /\ n = ov[r.o].wLeft /\ ov[r.o].op = "head"
  /\ \E len \in DataLen :
       IF len > BufferLen
         THEN CloseSocket(info, r.h, queue) /\ posted' = posted (-) SetToBag({r})
         ELSE IF len > 0
           THEN RecvDataPart(info, r, [op |-> "body", wLeft |-> len, wIndex |-> HeadLen], queue)
           ELSE RecvDataPart(info, r, FrameHead, Insert(queue, r.h, "none"))

\* Mutant: the next header is not awaited.
BugNoNextHeader(r, n) ==
  /\ info[r.h].seed /\ n = ov[r.o].wLeft /\ ov[r.o].op = "body"
  /\ queue' = Insert(queue, r.h, "none")
  /\ posted' = posted (-) SetToBag({r})
  /\ UNCHANGED <<info, ov, memOverlapped, open, stuck>>

\* RecvComplete with a whole body.
RecvBody(r, n) ==
  /\ info[r.h].seed /\ n = ov[r.o].wLeft /\ ov[r.o].op = "body"
  /\ RecvDataPart(info, r, FrameHead, Insert(queue, r.h, "none"))

\* RecvComplete with a part of either.
RecvPart(r, n) ==
  LET x == ov[r.o] IN
  /\ info[r.h].seed /\ n < x.wLeft /\ x.op \in {"head", "body"}
  /\ RecvDataPart(info, r, Rest(x.op, x.wLeft, x.wIndex, n), queue)

\* RecvComplete returns FALSE: no receive is posted.
RecvIgnored(r, n) ==
  /\ info[r.h].seed /\ n > ov[r.o].wLeft
  /\ posted' = posted (-) SetToBag({r})
  /\ UNCHANGED <<info, ov, memOverlapped, open, queue, stuck>>

SendComplete(r) ==
  /\ FreeBuffers({r.o})
  /\ info' = [info EXCEPT ![r.h].lstSend = @ \ {r.o}]
  /\ posted' = posted (-) SetToBag({r})
  /\ UNCHANGED <<open, queue, stuck>>

\* What OnCompleteEvent does with the request r, of which n bytes were
\* transferred: it knows the object and the buffer, not the socket.
OnCompleteEvent(r, n) ==
  \/ /\ IsValid(r.h) /\ r.o = info[r.h].pRecv
     /\ RecvSeed(r, n) \/ RecvHead(r, n) \/ RecvBody(r, n) \/ RecvPart(r, n) \/ RecvIgnored(r, n)
  \/ /\ IsValid(r.h) /\ r.o \in info[r.h].lstSend
     /\ SendComplete(r)
  \/ /\ ~(IsValid(r.h) /\ r.o \in Owned(r.h))   \* of a deleted socket or buffer
     /\ CloseSocket(info, r.h, queue)
     /\ posted' = posted (-) SetToBag({r})

Worker == <<mapSocket, memSocket, lastSock, speaks, app>>

\* A request that succeeded, before its socket was closed or deleted.
Complete(r) ==
  /\ \E n \in IF r.send THEN {r.len} ELSE 1 .. r.len : OnCompleteEvent(r, n)
  /\ r.send \/ r.s \in speaks
  /\ UNCHANGED Worker

\* ErrDeal: no bytes or an error, because the peer or somebody here closed the
\* socket of the request; what is closed is the object.
ErrDeal(r) ==
  /\ CloseSocket(info, r.h, queue)
  /\ posted' = posted (-) SetToBag({r})
  /\ UNCHANGED Worker

-----------------------------------------------------------------------------
(* DealRecvDataThread and the application.                                  *)

Take(op, at) ==
  /\ deal.at = "get" /\ queue # <<>> /\ Head(queue).op = op
  /\ queue' = Tail(queue)
  /\ deal' = IF at = "get" THEN deal ELSE [at |-> at, h |-> Head(queue).h]
  /\ UNCHANGED <<objects, net, stuck, pc, obj>>

Idle == deal' = [at |-> "get", h |-> NULL]

\* ProcessData: the receive callback, when flag and CRC are right.
DealData == Take("none", "get") /\ UNCHANGED known

\* The disconnect callback, ...
DealClose == Take("close", "close") /\ known' = known \ {Head(queue).h}

\* Mutant: only an active socket is deleted.
BugDeletesActive ==
  /\ deal.at = "close" /\ Idle
  /\ IF IsValid(deal.h) THEN DeleteSock(deal.h) ELSE UNCHANGED <<objects, open, stuck>>
  /\ UNCHANGED <<posted, lastSock, speaks, queue, known, pc, obj>>

\* ... after which the object is deleted, whatever it is by now.
DealDelete ==
  /\ deal.at = "close" /\ Idle
  /\ IF info[deal.h].s # 0 THEN DeleteSock(deal.h) ELSE UNCHANGED <<objects, open, stuck>>
  /\ UNCHANGED <<posted, lastSock, speaks, queue, known, pc, obj>>

DealAccept == Take("accept", "accept") /\ UNCHANGED known

\* It does not ask whether the object is in the map.
SendEncryptKey(h) ==
  \/ /\ info[h].s = 0
     /\ UNCHANGED <<info, ov, memOverlapped, posted, open, speaks, queue, stuck>>
  \/ /\ info[h].s # 0
     /\ PostSend([info EXCEPT ![h].seed = TRUE], h, SeedLen)
     /\ speaks' = speaks \cup {info[h].s}
  \/ /\ info[h].s # 0
     /\ FailSend(h) \/ StraySend(h)
     /\ UNCHANGED speaks

\* SendEncryptKey and the accept callback.
DealSeed ==
  /\ deal.at = "accept" /\ Idle
  /\ SendEncryptKey(deal.h)
  /\ known' = known \cup {deal.h}
  /\ UNCHANGED <<mapSocket, memSocket, lastSock, pc, obj>>

\* The application uses the handles it was told of and was not told to drop,
\* from its callbacks or from threads of its own.
AppSend == \E h \in known : SendPacket(h)

\* GCEApiSRTNetDisconnect.
Disconnect ==
  /\ \E h \in known : DeleteSock(h) /\ known' = known \ {h}
  /\ UNCHANGED <<posted, lastSock, speaks, queue, pc, obj, deal>>

-----------------------------------------------------------------------------

Open(t) ==
  \/ NewSocket(t) \/ NewSocketFails(t) \/ NoObject(t) \/ AddSock(t)
  \/ FirstRecv(t) \/ FirstRecvFails(t)

Deal == DealData \/ DealClose \/ DealDelete \/ DealAccept \/ DealSeed

Next ==
  \/ \E t \in Openers : Open(t)
  \/ \E t \in Accepting : AcceptEvent(t)
  \/ \E t \in Connecting : Connected(t) \/ ConnectTimeout(t)
  \/ \E r \in BagToSet(posted) : Complete(r) \/ ErrDeal(r)
  \/ Deal \/ AppSend \/ Disconnect

Spec == Init /\ [][Next]_vars

\* The consumer of the queue takes what is there (DealQueue) and the
\* callbacks of the application return.
FairSpec == Spec /\ WF_vars(Deal)

-----------------------------------------------------------------------------
(* Properties.                                                              *)

\* No buffer has two owners or none, whoever closed and deleted objects in
\* whatever order; and the objects in use are those in the map, but for one
\* that is about to be put there.
Ownership ==
  /\ memSocket = mapSocket \cup {obj[t] : t \in {u \in Openers : pc[u] = "add"}}
  /\ \A t \in Openers : pc[t] = "add" => obj[t] \notin mapSocket
  /\ \A g, h \in Handle : g # h => Owned(g) \cap Owned(h) = {}
  /\ \A h \in Handle : info[h].pRecv \notin info[h].lstSend
  /\ \A h \in Handle \ memSocket : info[h].pRecv = NULL
  /\ memOverlapped = UNION {Owned(h) : h \in Handle}

\* Each valid object has a socket of its own, and in a server that socket is
\* open: CloseSocket and DeleteSock, which race, never close one twice, nor
\* one that has been given to somebody else.
Sockets ==
  /\ \A h \in mapSocket : IsValid(h) /\ Connecting = {} => info[h].s \in open
  /\ \A g, h \in mapSocket : IsValid(g) /\ IsValid(h) /\ g # h => info[g].s # info[h].s

Receiving(h) ==
  \E r \in BagToSet(posted) :
    /\ r.h = h /\ r.o = info[h].pRecv /\ r.s = info[h].s /\ ~r.send
    /\ r.len = ov[r.o].wLeft

\* A valid socket always has a receive outstanding, of the length the object
\* expects: else a peer that closes would not be noticed.  This although
\* completions of earlier users of the object and the buffer come in between.
Listening ==
  \A h \in mapSocket :
    IsValid(h) => Receiving(h) \/ \E t \in Openers : pc[t] = "recv" /\ obj[t] = h

\* What a receive fills stays inside szBuff.
InBuffer ==
  \A h \in mapSocket :
    IsValid(h) => ov[info[h].pRecv].wIndex + ov[info[h].pRecv].wLeft <= BufferLen

Closing(h) ==
  \/ \E i \in 1 .. Len(queue) : queue[i] = [h |-> h, op |-> "close"]
  \/ deal = [at |-> "close", h |-> h]

\* A closed socket is on its way to be reported and deleted, unless the queue
\* was full when it was closed.
ClosePending ==
  \A h \in mapSocket : ~info[h].bActive => Closing(h) \/ h \in stuck

\* It gets there.
CloseReported ==
  \A h \in Handle :
    (h \in mapSocket /\ ~info[h].bActive /\ h \notin stuck) ~> h \notin mapSocket

\* A failed request closes the connection it was made for and no other.
OwnSocketOnly ==
  [][\A r \in BagToSet(posted) : ErrDeal(r) /\ info[r.h].s # r.s => UNCHANGED open]_vars
=============================================================================
