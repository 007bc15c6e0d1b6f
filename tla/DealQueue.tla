------------------------------ MODULE DealQueue ------------------------------
(***************************************************************************)
(* CGCHDealQueMgr, the queue between the network threads of the IOCP       *)
(* server and the one thread (DealRecvDataThread) that makes the callbacks *)
(* of the application: two lists of objects of a CMemMgr pool, a counter,  *)
(* and the event m_hRecvEvent the consumer sleeps on.                      *)
(*                                                                         *)
(* Every operation of the queue holds CGCHDealQueMgr::m_cs from beginning  *)
(* to end and is one step; SetEvent, called after the lock is released,    *)
(* and WaitForSingleObject are steps of their own.                         *)
(***************************************************************************)
EXTENDS MemMgr

CONSTANTS
  Handles,    \* GCSTH_RecvDataInfo.handle
  Data,       \* flag, CRC, length and content of a frame
  Workers,    \* the threads of WorkDealThread and AcceptThread
  Consumer    \* the thread of DealRecvDataThread

ASSUME QueueAssumption ==
  /\ Handles # {} /\ Data # {} /\ Consumer \notin Workers

OpTypes == {"none", "close", "accept"}   \* GCEM_OPERATE_TYPE
Info == [handle : Handles, op : OpTypes, data : Data]

VARIABLES
  wait,       \* m_lstWaitDealData
  deal,       \* m_lstDealData
  curQueLen,  \* m_nCurQueLen
  mem,        \* the contents of the objects
  ret,        \* what the last insertion returned
  recvData,   \* what GetDealData copied last
  hEvent,     \* m_hRecvEvent, an auto-reset event, is set
  pc          \* where each thread is

lists  == <<wait, deal, curQueLen, mem>>
vars   == <<pool, lists, ret, recvData, hEvent, pc>>

Steps == {"run", "signal", "get", "deal", "dealSignal", "wait"}

\* Type invariant: the counter m_nCurQueLen never passes below 0.
TypeOK ==
  /\ PoolTyped
  /\ wait \in Seq(Address) /\ deal \in Seq(Address) /\ curQueLen \in Nat
  /\ mem \in [Address -> Info]
  /\ ret \in BOOLEAN /\ recvData \in Info /\ hEvent \in BOOLEAN
  /\ pc \in [Workers \cup {Consumer} -> Steps]

\* The objects new returns are not initialised, and neither is recvData.
Init ==
  /\ PoolInit
  /\ wait = <<>> /\ deal = <<>> /\ curQueLen = 0
  /\ mem \in [Address -> Info]
  /\ ret = TRUE /\ recvData \in Info /\ hEvent = FALSE
  /\ pc = [t \in Workers \cup {Consumer} |-> IF t = Consumer THEN "get" ELSE "run"]

Goto(t, from, to) == pc[t] = from /\ pc' = [pc EXCEPT ![t] = to]

\* The limit on m_nCurQueLen and the one on the pool are the same number,
\* GCHMAC_MAX_WAITDEAL_COUNT.
Enqueue(p, info) ==
  /\ curQueLen < MaxMem
  /\ MyNew(p)
  /\ mem' = [mem EXCEPT ![p] = info]
  /\ wait' = Append(wait, p) /\ curQueLen' = curQueLen + 1
  /\ ret' = TRUE
  /\ UNCHANGED <<deal, recvData>>

Refused ==
  /\ curQueLen >= MaxMem \/ Exhausted
  /\ ret' = FALSE
  /\ UNCHANGED <<pool, lists, recvData>>

InsertWaitDealData(h, d) ==
  \/ \E p \in Address : Enqueue(p, [handle |-> h, op |-> "none", data |-> d])
  \/ Refused

\* The data of the object is what its last user left there.
InsertOtherData(h, op) ==
  \/ \E p \in Address : Enqueue(p, [handle |-> h, op |-> op, data |-> mem[p].data])
  \/ Refused

\* Mutant: the object is not given back to the pool.
BugLeak(list) ==
  /\ list # <<>>
  /\ recvData' = mem[Head(list)]
  /\ deal' = Tail(list)
  /\ UNCHANGED <<pool, mem, ret>>

\* The end of GetDealData: the first object of a list, the rest becomes
\* m_lstDealData.
TakeFirst(list) ==
  /\ list # <<>>
  /\ recvData' = mem[Head(list)]
  /\ MyDel(Head(list))
  /\ deal' = Tail(list)
  /\ UNCHANGED <<mem, ret>>

\* Mutant: the lists are swapped before m_lstDealData is empty.
BugSwapsEarly ==
  \/ /\ wait = <<>> /\ TakeFirst(deal)
     /\ UNCHANGED <<wait, curQueLen>>
  \/ /\ TakeFirst(wait)
     /\ wait' = deal /\ curQueLen' = Len(deal)

GetDealData ==
  \/ /\ TakeFirst(deal)
     /\ UNCHANGED <<wait, curQueLen>>
  \/ /\ deal = <<>> /\ TakeFirst(wait)
     /\ wait' = <<>> /\ curQueLen' = 0

-----------------------------------------------------------------------------
(* The threads. *)

\* RecvComplete, CloseSocket and AcceptThread insert and then set the event,
\* whether the insertion succeeded or not.
Insert(t) ==
  /\ Goto(t, "run", "signal")
  /\ \E h \in Handles :
       \/ \E d \in Data : InsertWaitDealData(h, d)
       \/ \E op \in {"close", "accept"} : InsertOtherData(h, op)
  /\ UNCHANGED hEvent

SetEvent(t) ==
  /\ \/ Goto(t, "signal", "run")
     \/ Goto(t, "dealSignal", "deal")
  /\ hEvent' = TRUE
  /\ UNCHANGED <<pool, lists, ret, recvData>>

Get ==
  /\ Goto(Consumer, "get", "deal")
  /\ GetDealData
  /\ UNCHANGED hEvent

GetNothing ==
  /\ Goto(Consumer, "get", "wait")
  /\ deal = <<>> /\ wait = <<>>
  /\ UNCHANGED <<pool, lists, ret, recvData, hEvent>>

\* A callback that sends may close a socket, which inserts into the queue.
DealCloses ==
  /\ Goto(Consumer, "deal", "dealSignal")
  /\ \E h \in Handles : InsertOtherData(h, "close")
  /\ UNCHANGED hEvent

\* Mutant: one item for each time the event was set.
BugOneItemPerEvent ==
  /\ Goto(Consumer, "deal", "wait")
  /\ UNCHANGED <<pool, lists, ret, recvData, hEvent>>

DealDone ==
  /\ Goto(Consumer, "deal", "get")
  /\ UNCHANGED <<pool, lists, ret, recvData, hEvent>>

WaitForSingleObject ==
  /\ Goto(Consumer, "wait", "get")
  /\ hEvent /\ hEvent' = FALSE
  /\ UNCHANGED <<pool, lists, ret, recvData>>

Next ==
  \/ \E t \in Workers : Insert(t)
  \/ \E t \in Workers \cup {Consumer} : SetEvent(t)
  \/ Get \/ GetNothing \/ DealCloses \/ DealDone \/ WaitForSingleObject

Spec == Init /\ [][Next]_vars

\* Threads that can run do run, and the callbacks of the application return.
FairSpec ==
  /\ Spec
  /\ WF_vars(Get \/ GetNothing) /\ WF_vars(WaitForSingleObject)
  /\ SF_vars(DealDone)
  /\ \A t \in Workers \cup {Consumer} : WF_vars(SetEvent(t))

-----------------------------------------------------------------------------
(* Properties. *)

Listed == deal \o wait

\* Every object of the pool that is in use is in one of the two lists, once,
\* so none is lost, freed while it is listed, or reused while it waits; and
\* m_nCurQueLen counts the list it limits.
Linked ==
  /\ PoolSound
  /\ IsInjective(Listed) /\ Range(Listed) = inUse
  /\ curQueLen = Len(wait)

\* The consumer never sleeps over a filled queue: the event is set, or a
\* thread that inserted is about to set it.
NoLostWakeup ==
  pc[Consumer] = "wait" /\ Listed # <<>> =>
    hEvent \/ \E t \in Workers : pc[t] = "signal"

\* DealRecvDataThread does not look at the data of a close or an accept.
NoData == CHOOSE d \in Data : TRUE
Seen(info) == IF info.op = "none" THEN info ELSE [info EXCEPT !.data = NoData]

Queue == INSTANCE Fifo WITH
  Items    <- {Seen(i) : i \in Info},
  Capacity <- MaxMem,
  queue    <- [i \in 1 .. Len(Listed) |-> Seen(mem[Listed[i]])],
  taken    <- Seen(recvData),
  accepted <- ret

\* The two lists, the counter, the pool and its recycled objects behave as
\* one queue: nothing is reordered at the swap of the lists, an insertion is
\* refused only when MaxMem items wait, and every item is dealt with.
IsFifo == Queue!Spec
=============================================================================
