# A TLA+ model of lib.zhnet

`src/` is a collection of C and C++ network libraries: a portable session layer
over non-blocking sockets (`ZH/zhNet_Core`), a thread-pool server built on it
(`ZH/zhTcpServer_select`), a Windows server on I/O completion ports
(`win_serv/Server_Core_Lib`) with a service that asks MySQL
(`win_serv/Server_for_Mysql`), and a Linux business server on an event library
(`linux_serv`). This directory holds TLA+ modules that model their logic, TLC
configurations that check the modules on small instances, and TLAPS proofs of
the properties that matter most, for all values of the constants.

- [Inventory](#inventory): the components, their state, operations, hard
  behaviours and properties
- [Modules](#modules): how each module corresponds to the code
- [Runs](#runs): what each run checks, with which bounds and fairness
- [Proofs](#proofs): what is proved, from what, and how
- [Divergences](#divergences): where the code does not do what it says
- [Plan](#plan): what is not modelled yet, and in which order it comes

## Inventory

| Component | State | Operations | What is hard |
| --- | --- | --- | --- |
| **Session** `zhNet_Core/session.c` | socket, `cState` (Zero, Initizal, WaitSeed, Connecting, Connected, Dead), `isAlreadyGetEncryptSeed`, the cache `btCache[0..wNetPackPos-1]`, `bNetPackRecvBuf`, two times | init, connect, accept, send, close (two kinds); in a loop: `zhSionCacheData`, `zhSionReadData`, `zhSionStateThread` | a stream cut anywhere, resynchronisation, full cache, timeouts racing with data, closes from callbacks |
| **Sockets, platform** `zhNet_Core/socket.c`, `platform.c` | none | wrappers of system calls, CRC16, locks, threads | what a wrapper returns for "would block", "closed", "reset" |
| **Lists** `zhNet_Core/netlist.c` | header with two ends and a count, two pointers in each node | insert, add, delete, find, free | pointers at both ends |
| **Packets** `zhNet_Core/packet.c`, `packet_heap.c` | buffer, size, one position for reading and writing | typed reads and writes | the end of a string at the end of the buffer |
| **Select server** `zhTcpServer_select` | `g_userList`, `g_threadList`, per-thread groups, two locks | accept thread, `ConnectAdd`, `ProcThread`, `zhSendAllUser` | two locks, nodes freed by one thread and held by another, groups that end while users arrive |
| **Object pool** `common/memory/MemMgr.h` | free list, map of objects in use, counter, limits | `Init`, `MyNew`, `MyDel` | double delete, limit near the block size |
| **Callback queue** `GCHDealQueMgr` | two lists of pool objects, a counter, an auto-reset event | `InsertWaitDealData`, `InsertOtherData`, `GetDealData`, set and wait | order across the swap of the lists, full queue, lost wake-up |
| **IOCP sockets** `GCSSockMgr`, `GCSIoCP`, `GCSRTNet` | map of sockets, two pools (socket objects, overlapped buffers), per object the socket, the active flag, the receive buffer, the list of sends, the seed flag; completion port | accept or connect, post receive, send, complete, close, delete, callbacks | a handle is the address of a recycled object and outlives it in the port and in the queue; close and delete race; lengths are WORDs |
| **Business server** `linux_serv/src` on `lib/handy` | `g_businessServList`: id → connection, `isFree`, time of the last keep-alive, receive cache; `g_clientID`; the id in the context of each connection; per connection state, output buffer, write event; the queue of closes | accept, hand-shake and register or refuse, read and parse, keep-alive, write, timer, closes from the queue | one thread, but a close is queued: the id of a connection may be given again before it runs; a parsing loop that need not end |
| **MySQL threads** `Server_for_Mysql`: `MySQLProc`, `Cdbmysql`, `GCSNetWork` | queue of statements, `_ThreadUsing`, `lastExecuteTime`; per thread a connection with its stored and unread results | put a statement in (callback of the network), take, connect, execute with up to three attempts, call back, close when idle; start, end, destructor | threads that race for statements and share a time without a lock; retries of what may have been executed; the end of the program while threads and callbacks are under way |
| **Framings** `linux_serv/lib`: `hxnet`, `dtrsNetLib`, `miniData` | the receive buffer and its length, which the caller keeps | build a frame; find one at the head of a buffer and say how much to remove | parameters that hold every mark, frames that arrive in pieces, bytes read before they have arrived, the check behind the end mark |
| zhHttp, zhUPnP, zhEncrypt, `common/memory/GCSMemManager.h`, GCSetPack, GCHLog, GCHEncrypt, the service part of Server_for_Mysql | | | see `PROJECT.json`, `components` |

How they interact. The application, or the select server on its behalf, owns
`TzhNetSession` objects and calls three functions on each in a loop:
`zhSionCacheData` moves bytes from the socket to the cache,
`zhSionReadData` takes at most one frame out of the cache, and
`zhSionStateThread` advances the life cycle and returns an event. They share
the session and nothing else; `cState = Dead` is how the first tells the third
that the connection is lost. The select server runs that loop in several
threads, one per group of at most `TCP_SPLIT_SIZE` users, and its accept thread
shares the two lists with them under two locks. In the IOCP server the network
threads never call the application: they put frames, accepts and closes into
the callback queue, whose objects come from the pool, and one thread takes
them out and makes the callbacks. In the business server one thread does
everything: the event loop calls the handlers of connections and the timer one
after the other, and what a handler asks to be closed is closed in a later turn.
The select server keeps its users and threads in the lists of `zhNet_Core`; the
business server and the demos build messages with its packets. The MySQL service
is an application of the IOCP server: the callback of a received frame puts a
statement into a queue, and threads of their own execute it and answer the client.

What makes each part correct:

- *Session*: no use of a cache that is not there, no overrun; seed bytes and
  frames never mixed up; a peer's packets delivered in order, once, unless
  something was cut off or thrown away with an error; each event at most once
  and Disconnect last; a lost peer noticed; the documented read loop ends.
- *Select server*: limits hold; every connected user is served by a running
  thread; Disconnect once per connection; nobody reads a freed node; the
  threads do not lock each other out.
- *IOCP sockets*: a buffer or an object given back once and owned by one; one
  open socket per valid object; always a receive outstanding, inside its
  buffer; every closed socket reported and then deleted.
- *Pool and queue*: no object free and in use, or twice in use; the queue
  behaves as one bounded first-in first-out queue; the consumer never sleeps
  over work.
- *Business server*: an open connection is in the table under its own id; an
  entry is given up when and only when there is a reason; the limit holds;
  output moves; the parsing loop should end, and does not
  (`EndlessLoop`); the silent are closed.
- *MySQL threads*: every statement accepted is executed by one thread and answered
  once, or dropped at the end; callbacks are told the truth; a connection is ready for
  the next statement; what ends, ends.
- *Lists*: they are the sequences that their users take them for, forwards and
  backwards. *Packets*: what was written is read, and nothing else is touched.
- *Framings*: what one side builds the other finds, complete and in order,
  whatever the bytes; nothing is made up from bytes that have not arrived; never
  more is removed than there is.

The hazards behind these properties, each at its line, are in `PROJECT.json`.

## Modules

| Module | Models | Notes |
| --- | --- | --- |
| `Channel` | abstract: packets in, the same packets out, until something is lost | what a framing promises over a stream |
| `Session` | `zhNet_Core/session.c`, one session and its peer | complete; refines `Channel` |
| `SessionProofs` | proofs about `Session` | |
| `TcpServSelect` | `zhTcpServer_select` | complete |
| `TcpServProofs` | proofs about `TcpServSelect` | |
| `Fifo` | abstract: a bounded queue | what the callback queue promises |
| `MemMgr` | `CMemMgr` of `MemMgr.h` | extended by `DealQueue` |
| `DealQueue` | `CGCHDealQueMgr` and the threads around it | refines `Fifo` |
| `DealQueueProofs` | proofs about `MemMgr` and `DealQueue` | |
| `SockMgr` | `CGCSSockMgr`, `CGCSIoCP`, connect of `GCSRTNet` | uses the queue as `Fifo` describes it |
| `SockMgrProofs` | proofs about `SockMgr` | |
| `Frames` | the functions of hxnet, dtrs and miniData that build and find frames | pure operators |
| `FrameLine` | the receive loop their headers give, on a serial line | uses `Frames`; refines `Channel` |
| `FramesProofs` | proofs about `Frames` and `FrameLine` | |
| `TcpConn` | `TcpConn` and the event loop of `linux_serv/lib/handy` | parts of actions, used by `BusinessServ` |
| `BusinessServ` | `linux_serv/src/proc.cpp`, the business port | complete but for two commands |
| `BusinessServProofs` | proofs about `BusinessServ` | |
| `MySQLProc` | the threads of `Server_for_Mysql`, their queue and connections | complete |
| `MySQLProcProofs` | proofs about `MySQLProc` | |
| `NetList` | `zhNet_Core/netlist.c` | pure operators on pointers |
| `Packet` | `zhNet_Core/packet.c`, `packet_heap.c` | pure operators |
| `NetCoreProofs` | proofs about `NetList` and `Packet` | |
| `MCSession`, `MCTcpServSelect`, `MCSockMgr`, `MCFrameLine`, `MCBusinessServ`, `MCMySQLProc` | values and symmetries for TLC | |

Operators named `Bug...`, each before the definition it stands in for, are
plausible mistakes in that code. With one of them in place the property it is
paired with (`mutants` in `PROJECT.json`) must be violated; no specification
uses them.

### Session

Variables are the fields of `TzhNetSession` (`sock` is `s # 0`, `buf` is
`btCache # NULL`, `cache` the valid prefix of `btCache`, `recvBuf`
`bNetPackRecvBuf`), the results of the last call, and the TCP connection:
`link` and the cells on the `wire`. Histories record events, packets sent and
received, and whether cells were cut off (`cut`) or thrown away (`lost`).

One cell stands for one byte of a stream, except that each of the two-byte
fields of the frame header is one cell: a header has three cells. So cells of
a body can look like flags, lengths and checksums, and a stream can be cut
inside a header. Each return path of `zhSionCacheData`, `zhSionReadData` and
`zhSionStateThread` is an action. The actions follow the code where it is
surprising: the bytes kept after the seed (`CacheSeedDone`), the scan that
leaves the local header and reads whatever the stack holds (`StackScan`, a
free choice beyond the header), the flag `recvBuf` that survives two of the
error paths.

The peer runs the same library: it sends frames with one non-blocking `send`
that may be cut short, sends the seed or loses it, closes and resets. The clock
is a saturating counter per timeout, advanced by `Tick` at any moment.

Left out: addresses and ports, the `pInfo` pointer, socket options,
`zhSionStartup` (the listener keeps no session), and the effect of our own
sends, which change nothing in the session. When the peer sends again after a
send that was cut short, no later send is cut short: one cut already puts the
stream in the middle of a frame.

`Framing == INSTANCE Channel` maps what was sent, without the empty packets
(reading one cannot be told from reading nothing), to the packets put in, what was read to those
taken out, and "nothing was cut off or thrown away" to `intact`. `Channel` allows a
packet to be taken only in its turn, and nothing to be taken back, from the first
loss on too. `NonEmpty` leaves the empty packets out; it is a recursive function,
so that it can be proved about. The seed is assumed no longer than a header
(`SizeAssumption`): it has four bytes in the code and a header five.

### TcpServSelect

A node is an address that may be freed and handed out again; `sess[n]` says
what the node's session is for this layer: `free` memory, `open`, `shut`
(closed, `s = 0`, Disconnect not reported yet) or `zero`. The module tracks
the program counters of the accept thread and of each `ProcThread`, the two
locks, and the pointer of `zhSendAllUser`. A read of freed memory sets `wild`
and nothing is modelled after it, because nothing can be said of it.

One step of `ProcThread` is one iteration of its loop over the group, which
holds `g_threadCs` throughout; `ConnectAdd` is split where it holds `g_userCs`
and waits for `g_threadCs`. A pass over an open session ends in one of three
ways that this layer can tell apart (`VisitOpen`); the details are Session's.
The accept callback is assumed to send to all users or to do nothing, and
callbacks close sessions with `zhSionSafeClose`, as the demos do. Memory
exhaustion (`calloc` returning NULL) is left out. The history `sent` holds the
nodes that the walk of `zhSendAllUser` has been at since it began.

### MemMgr, DealQueue, Fifo

Each operation of pool and queue holds its own critical section from beginning
to end and is one step. `MyNew` takes the head of the free list or, when the
list is empty, a block of fresh addresses; addresses are chosen freely among
those not in use, so memory that was deleted comes back. `DealQueue` extends
`MemMgr`: its actions are the conjunction of list and pool operations. The
consumer's loop (get, deal, wait) and the producers' insert-then-signal are
steps of their own, so every interleaving of `SetEvent` with the consumer's
decision to sleep is there. A callback may itself close a socket and so insert
into the queue from the consumer's thread (`DealCloses`).

`Queue == INSTANCE Fifo` maps the two lists to one queue
(`m_lstDealData` followed by `m_lstWaitDealData`), each object to the contents
the consumer will look at: for a close or an accept the data bytes are those
the object had in its last use, and `DealRecvDataThread` ignores them (`Seen`).

### SockMgr

`info` holds the objects of the pool, the free ones included, because nothing
clears an object between two uses: `seed` keeps what the last connection left,
and `CloseSocket` keeps the socket number. `memSocket` and `memOverlapped` are
the objects in use, `ov` the buffers (operation, `wLeft`, `wIndex`). `posted` is
the completion port and the network behind it: a bag of requests, each with the
object (the completion key), the buffer and the length the code passed to
`WSARecv` or `WSASend`, and the socket it was really made for, which the code
does not see when it comes back. That is where late completions come from.

Every function of the manager that holds `m_cs` throughout is one step. Where
the code lets go of the lock there is a program counter: the opening threads
(`NewSocket`, `AddSock`, the first `RecvDataPart`, then the accept event or the
wait for the seed), and the callback thread between an event, its callback and
what it does afterwards (`deal`). One worker step is one completion
(`OnCompleteEvent`), in any order, since the workers hold the lock while they
deal with one. `WSARecv` and `WSASend` may fail at any time, pools may be
exhausted, the queue may be full and then refuses an event (`stuck` remembers
for whom; the code does not).

What is assumed. There is one manager, as on a machine where all sockets fall
to `g_pSockMgr[0]`. Peers follow the protocol: clients send nothing before
the seed (`speaks`). The application uses the handles it was told of, until it
is told of the end or disconnects (`known`). Memory of objects is recycled, not
returned to the system. Socket numbers are not used again, `MaxConn` bounds
how many there are. Contents of frames, the flag and the CRC decide only
whether a callback is made and are left out; signalling and sleeping of the
callback thread are `DealQueue`'s.

### Frames, FrameLine

Each framing is a pair of operators: the builder returns the bytes it writes,
the finder is given the array and the number of bytes received and returns how
many to remove, whether a frame was found, and the frame. The array holds more
than what was received: the bytes of earlier frames are still there, and
`hxNetGetFrame` and `miniDataGet` read a length before asking whether its two bytes
have arrived (`dtrsNetGetFrame` waits for four bytes, and the length is among them).
So the array is part of the state. `Base`
stands for 256; the first and the last bytes differ between the framings in
value only and are constants. The CRC is a constant operator; it covers
`Len % Base` bytes, because `hxCRC16` and `dtrsCRC16` take the length as an
`unsigned char`.

`FrameLine` is the loop of the header comments, the only callers in the
repository: store a byte, look for a frame once (`miniData`: if the byte can end
one), handle it, move the rest to the front. A byte stored outside the cache
sets `wild` and is not modelled further. The sender and the noise between frames
are external.

`Framing == INSTANCE Channel` takes the packets sent and the frames handled as they
are, and calls the line intact until the loop of miniData has thrown its cache away.
`LineUse` names what the properties suppose of the traffic; each part of it excludes
a way in which a framing fails, listed under [Divergences](#divergences).

### TcpConn, BusinessServ

`TcpConn` has the state of a connection of the event library (`state_`, whether
the channel asks for write events, whether `output_` holds anything), the bytes
that have arrived, what the peer has done with its end, and the loop's queue of
closes. `close()` only queues; the queue is run when the wakeup byte is handled,
and `woken` says that the batch being handled has one: a timer runs only between
batches. Events of one batch come in any order. `Send` and `WriteEvent` follow
`sendOutput` and `handleWrite`: for a connection in `Slow` the kernel may take
less than everything, or nothing.

`BusinessServ` adds `g_businessServList` (`table`), the id a connection keeps in
its context (0 before it is set), and `g_clientID`. Each handler runs to its end
in the one thread and is a step; reading is cut into the reading, one step per
turn of the loop in `businessRead`, and the cleanup that may follow, and `at`
says where the thread is. Peers act only while the thread polls: what they do
earlier is not seen before. A use of a null connection, which an entry made by
`operator[]` has, ends in `Crashed`. The time since the last keep-alive is a
counter that saturates. A cell is a byte, except that length and CRC are a cell
each, as in `Session`.

Left out: the bodies of the commands 'F' and 'G' (the first fills a list that
nothing in the repository reads, the second walks one that is never filled), the
port for users, whose handlers the repository does not have, `main` and logging.
A connection is numbered by the order of accepts and not used again.

### MySQLProc

`lstSql` is `_lstSql`, a statement the number of its `Query`; `using` is
`_ThreadUsing`. Each thread has its place in `_thread` (`at`), the tick it has
read, the statement in hand, the attempts `CzhMySql::Query` has left, the result
for the callback, and its `CzhMySql` (`db`): whether `m_handle` is set, what
`m_res` points to, and which results of the last statement are still to be read
from MySQL. What holds `_csSqlList` throughout is one step. `Query`, the
function of the network's callback, is two, because `GSRTEnd` ends that thread with
`TerminateThread` wherever it is; `held` then stays true. Histories count
executions, record callbacks and the statements that `Destory` cleared.

The idle time is computed in two steps, `Loop` and `ReadClock`: a call of
`GetTickCount` and then a read of the shared `lastExecuteTime`, which other threads
set. The language leaves the order of the two open; the other one makes the
difference larger by no more than the time between them. The difference is taken modulo `Dword`.

MySQL is external. It may fail to connect; it may refuse a statement, or execute
it and then lose the connection; it refuses a command while results of the one
before are unread; it answers a statement with one of `Answers`. These are those of
the only statement of the program, the CALL of a procedure that selects: results
with rows, the first at once, and a last one without rows (`MySQLAssumption`). A
procedure that selects nothing would make `GetRow` read a null result.

The main thread is `Initizal`, `Stop` (`func_main_release`), `End` (`GSRTEnd`) and the
destructor of `g_MySql`, whose `Sleep(100)` is taken to be long enough for every
step of a thread except a call of MySQL and a callback. Left out: `setMysqlInfo`
(it writes `_info` while threads may read it, which has no defined outcome, and tries a
connection of its own), the process ending under threads that still wait for MySQL,
and empty statements.

### NetList, Packet

Both are operators on a record, one operator per function. A list is its header
and the pointers in all nodes, those outside the list included, which hold
anything. `Represents(l, s)` says that the pointers are right for the sequence
`s`; `TcpServSelect` has that sequence in the place of the list. A packet is its
position, its size and the memory up to two bytes behind the buffer, as far as
a writer can reach; positions are unsigned shorts. Numbers are the bytes of
their type. A heap packet of 65534 bytes or more, whose position wraps around,
is outside `PacketAssumption`.

## Runs

| Run | Shows | Bounds |
| --- | --- | --- |
| `MCSession` | type invariant; resources; seed phase; order of events; in-order delivery; the read loop shrinks; a lost peer is noticed; no endless wait for the seed | cells 0..3 with flag 2, seed of two cells, packets of 0, 1 (the flag itself) and 2 cells, two packets per connection, cache 8, chunks of up to 4, frame buffer 2, both timeouts 0: one tick is too late |
| `MCTcpServSelect` | limits; users served; Disconnect once; an accept callback for its own connection; `zhSendAllUser` leaves nobody out; `NetList` on all lists of up to 3 of 4 nodes | 3 nodes, 3 threads, limit 3, groups of 2 |
| `DealQueue` | lists, counter and pool agree; the pool is sound; no lost wake-up; the queue implements `Fifo`, liveness included | 3 addresses, limit 3, 1 kept free, 1 worker and the callbacks' own inserts, 2 data values |
| `MCSockMgr` | a server: typing, ownership, sockets, listening, buffer bounds, closes pending | 2 objects, 2 buffers, queue of 1, 3 connections, header 2 and body 2 bytes, WORDs of 16 values |
| `MCSockMgrClient` | a client: it listens for the seed and then for headers, and closes are reported (the other invariants are proved for clients too) | 2 objects, 2 buffers, queue of 2, 2 connections, seed 2, header 3, body 3 bytes |
| `MCFrameLine` | the loop implements `Channel`: frames come out complete and in order; in time; nothing is stored outside the cache | bytes 0..5 (5 announces a long length), parameters of 0 to 6 bytes, flags of 0 and 2 bytes, three packets, two bytes of noise, cache of 14 |
| `BusinessServ` | the table agrees with the connections; the limit; output moves; silent peers are closed; `Packet` on every two items in a buffer of 4 | 3 connections (2 slow, 3 broken), ids 0..3, limit 1, cells 0..3 with flag 3 and keep-alive 1, cache 5, two kinds of junk, one message, whole or cut behind its third cell, keep-alive time 0 |
| `MySQLProc` | statements are conserved; each is answered or dropped in the end; callbacks are true; results are read; stopped is stopped | 2 threads, 2 statements, 1 tick, idle time 0, DWORDs of 8 values, answers of one or two results and a status |
| `DanglingUser`, `LockCycle`, `RecycledSocket` | the divergences below | as above, or smaller |
| `EndlessLoop` | a divergence: the parsing loop does not end | 1 connection, ids 0..1, cache 8, two kinds of junk of 7 cells |

Why the bounds are enough for the cases that matter. *Session*: a cache of 8
holds a whole frame and the beginning of the next one; the bytes of two frames
with the seed exceed it, so it overflows; a chunk of 4 cuts headers and bodies
everywhere and joins the seed with a frame; a packet that contains the flag
makes resynchronisation find the wrong place; the frame buffer of 2 is smaller
than a length found in the wrong place (3). The state is finite without a
constraint: `MaxFrames` bounds what the peer sends on a connection and the
histories are reset by a new one. TLC tells states apart by `lasting` (`VIEW`):
the results of the last call, which no step reads, are left out; every state that is
reached and every step is checked, and the type invariant, which speaks of the results,
is proved besides. *TcpServSelect*: with three users in groups
of two there are two groups, of which one ends while the other runs, and a
freed node can be handed out again. Deadlock is not checked there: threads that
wait for each other, and the stop after a wild read, are states the model
really has (`NoLockCycle` shows the first). *DealQueue*: with three objects the
queue fills up, both lists are non-empty at once, and objects are recycled; a
worker races with the consumer, whose callbacks insert too. *SockMgr*: with
three connections and two objects an object is used again while requests of its
first connection are still in the port; two buffers are exhausted by one
connection that sends; a queue of one refuses the second event. Every length
around a boundary occurs: an empty body, one that fits, one between
`BodyMax` and the size of the buffer, one beyond it. A WORD of 16 values is
more than twice the buffer, as 65536 is, so what wraps around in the code wraps
around here. `MCSockMgr` and `MCSockMgrClient` do not look for deadlock: a
server that nobody connects to, or that has reached `MaxConn`, stops. Objects,
buffers, nodes and threads are symmetric where no property compares them; the
liveness runs use no symmetry. *FrameLine*: parameters of 4, 5 and 6 bytes lie around the change of the length
field, hold every mark and false lengths, and 14 is the longest frame with its
check, so the cache is full when it ends; three packets leave bytes of two
earlier ones behind the third. Sender and line have no clock: the receiver deals
with a byte before the next comes. Noise has no first byte of a frame. Behind
one, hxnet and dtrs would take what follows for a length and wait for up to
65535 bytes, and their loops do not look whether the cache is full: with such
noise `IsChannel`, `KeepsUp` and `InCache` are not claimed. hxnet sends without the
check in this run: its finder compares a check before it has arrived (see below).
The line stops when everything is sent, so deadlock is not checked.
*BusinessServ*: with a limit of 1 the table holds two connections (the code
compares with `>`), so the third is refused or finds an id that is free again;
with three connections an old owner of an id, its new owner and a connection
that stays meet. A cache of 5 holds a frame and a cell more, so a frame whose
end is late overflows it; the junk is a header with a wrong CRC and bytes before
and behind a flag. In `EndlessLoop` the cache of 8 holds junk of 7
cells: shifting leaves an incomplete frame of one kind, and moves the other twice.
A turn that leaves everything as it is does nothing that TLC could show: its
behaviour ends in a state that stutters, with the loop's thread fair. One peer cuts its frames, one falls silent, one resets. One
message in all is enough for every turn of the loop, since each frame or piece of
junk goes through it alone or behind the rest of what came before; more messages
multiply the states beyond the time a run should take. A server at rest with all
connections closed has nothing to do, so deadlock is not checked.
*MySQLProc*: with two statements and two threads each can take both or one each, and one
may be left for `Destory` to drop; a statement is tried three times, each attempt ending
before or after its execution, and the next one uses the connection that was left. The idle
time of 0 with one tick makes threads close and connect again between statements, and read
a `lastExecuteTime` later than their tick. What a third statement could add is proved, not
run. A service that ended stops, so deadlock is not checked.

Fairness. `Session!FairSpec` assumes that the application goes on calling the
three functions (`session.h` prescribes the loop) and that time passes; nothing
is assumed of the peer, of the network, or of open and close. Weak fairness
suffices: each function has a step enabled whenever the session has something
to do. Fairness is that of steps which change more than the results (`lasting`): a
call that finds nothing to do need not be made. `DealQueue!FairSpec` assumes that threads which can run do run and that
callbacks return: `DealDone` needs strong fairness because a callback may
insert again and again (`DealCloses`), and each insertion disables `DealDone`
until the event is set. Producers are not assumed to insert anything.
`SockMgr!FairSpec` assumes the same of the callback thread and nothing else:
`CloseReported` needs no fairness of workers, openers or the application.
`BusinessServ!FairSpec` assumes that the loop's thread goes on with what it is
doing, handles a wakeup that is there, finds its timer due again and again, and
that time passes; nothing is assumed of peers, of the kernel or of the order of
events. A peer that sends a keep-alive has at most `MaxSends` to send, so every
peer falls silent in the end.

`MySQLProc!FairSpec` assumes that threads which can run do run, that MySQL answers or
fails, that callbacks return, and that the end of the service goes on once it has begun;
nobody is assumed to send a statement or to end the service. `_csSqlList` is held only inside
steps, and by `Query`, which is left again unless its thread is terminated. The
head of the queue is always the next one taken, so no statement is overtaken for ever.

Every property of a passing run is violated by its `Bug...` operator, and no
expression of the next-state relations is left unevaluated by the passing runs,
except what `FrameLine` says of a byte outside the cache, which `InCache`
excludes, and the check of an hxnet frame. `Channel` itself was also checked to be
implemented by `Session` with the constants of `MCSession`; the theorem makes a run
of its own superfluous.

## Proofs

`tlapm` proves every theorem below for all values of the constants that satisfy
the named assumptions (`CellAssumption`, `SizeAssumption`, `ServerAssumption`,
`PoolAssumption`, `QueueAssumption`, `SockAssumption`, `ByteAssumption`,
`LineAssumption`, `ServAssumption`, `ListAssumption`, `PacketAssumption`,
`MySQLAssumption`), which
TLC evaluates in every run.

*SessionProofs.* `Typing` (`TypeOK`) is inductive as it stands; the lemmas
`PartOfSeq` and `SuffixOfSeq` say what cutting a stream returns. `Resources` is
not inductive alone: that a received chunk finds a cache needs the link to
imply a cache, and that before the seed the cache is short needs the seed flag
to agree with the state. `Held == Resources /\ SeedPhase` is inductive, and
`ResourcesHeld` and `SeedTakenOnce` follow. `EventsInOrder` needs more: why an
event cannot be repeated is in the state, so `EventState` adds, for each event
already reported, the states that are no longer reachable (after Connected, not
WaitSeed or Connecting; after ConnectTimeout, not WaitSeed; after Disconnect,
only Zero) and is inductive together with `Held`. `ReadLoopShrinks` is an
action property: each return of -1 leaves a strict suffix of the cache, because
`StackScan` and `CacheScan` never return 0 and an oversized frame is not empty.

`FramesInOrder` (`InOrder`) needs to say what remains to be decoded. Its invariant,
`Stream`, does it with witnesses instead of a decoder: there are the cells `all` sent on this
connection and positions `pos` such that the frame of packet `i` lies between
`pos[i - 1]` and `pos[i]` (`SentIn`), `k` packets were read, and what is in the cache
and on the wire continues `all` from `pos[k]` on (`Continues`); before the seed it
continues from the beginning. `Fresh` says that a connection not yet made has
no packets, so a new one starts with empty witnesses. A send appends a frame and a
position; receiving moves cells from the wire to the cache; `ReadFrame` finds in the
cache the header at `pos[k]`, which is that of packet `k + 1`, and so takes exactly its
cells; every other return of `zhSionReadData` that removes something sets `lost`. What comes
before the seed is done needs care: `CacheSeedDone` keeps the first bytes received instead
of those behind the seed, so `lost` stays false only when nothing came with the seed; and
`zhSionReadData` does not ask whether the seed was taken, so no frame is read out of a
part of the seed only because such a part is shorter than a header. That `NonEmpty` of a prefix is a prefix is an induction over its
length (see below). `ImplementsChannel` follows step by step: `ReadFrame` is `Take`, or a
stutter when the packet is empty, because `InOrder` holds afterwards.

*TcpServProofs.* `Typing`, `LimitsHold`, `NobodyStranded` and
`DisconnectedOnce`. `Sound` joins the three invariants with what they leave
unsaid: the accept thread saw room before it took `g_userCs` (so the unlocked
reading of the count does no harm: nobody else adds), a node is in `g_userList`
once (or deleting it would leave a second entry), and a thread outside its loop
takes no users (so an address of a thread that is used again starts with an
empty group). The two steps with content are `ConnectAdd` (`Placed` says that
the new node lands with a thread that runs, is listed and has room) and
`DeleteUser`: whichever closed session `UserFind` finds, the entry that leaves
the group is that of a closed session, so no open one loses its thread. The
theorems hold although a node of another group may dangle (`NoDangling` below is
violated): what happens after a read of freed memory is not modelled.
`AcceptIsOfItsOwn` and `SendReachesAll` rest on a further layer, `Held`: between
`ConnectAdd` and the callback the new node is in the list or was deleted as a
closed one, and `sent` holds exactly the nodes in front of `pUser` in the list
of now. The step with content is `DeleteUser`, which moves everything behind the
deleted node by one while the walk is under way.

*DealQueueProofs.* First the pool. `PoolIsSound`: `PoolTyped /\ PoolSound` is
inductive. The cardinality of the objects in use changes by one at each operation,
an object taken from the free list was not in use, and a fresh block avoids both
(`NewKeepsPool`, `DelKeepsPool`), two lemmas that the proofs about the queue cite. The
theorem is about every sequence of `MyNew` and `MyDel`, of unknown addresses
too; the run `DealQueue` has only those that the queue makes. Then the queue. `ListsAndPool`: `TypeOK /\ Linked` is inductive, `Linked`
containing `PoolSound`. `NobodySleeps`: `NoLostWakeup` is inductive with it,
by where the consumer is. `ImplementsFifo`: the initial state maps to that of
`Fifo`, and each step to `Put`, `Refuse`, `Take` or a stutter. The step that
matters is the swap of the lists, where the concatenation of the lists does not
change, and `Refuse`, where it must be shown that a full pool or a full waiting
list means that `Capacity` items are listed. `QueueTyped` is `TypeOK` alone.

*SockMgrProofs.* All six invariants of `MCSockMgr`, for any number of objects,
buffers, threads and connections and any lengths with
`HeadLen + BodyMax <= BufferLen` and WORDs more than twice that. `IInv` has two
layers. `Typed` is inductive by itself: the objects in use are those in the map
and those a thread is about to put there, each thread its own (`InUse`); a
buffer is in use exactly when an object has it, and no two have (`Buffers`);
active objects have numbers of their own (`Numbers`). `Ownership`, `Sockets`
and `InBuffer` follow from it, the last because a length that wraps around is
larger than any that `RecvDataPart` posts (`WordWraps`, `RestState`).
On top of it, `Listening` and `ClosePending` speak of one object at a time, so
each step is shown to concern one object `h`: `Others(h)` says what it leaves
of the rest, `Settled(h)` how it leaves `h`, and `StepKeeps` concludes. The two
steps with content are a late completion for a recycled object: with more bytes
than are awaited it is ignored (`RecvIgnoredDone`) and cannot be the receive
that the object waits for, whose length is the one awaited; otherwise it is
taken for it, and then a new receive is posted.

*FramesProofs.* `DtrsRoundTrip`, `MiniDataRoundTrip` and `HxNetRoundTrip`: when a
buffer holds a frame that the builder made, complete and at its head, the finder
returns the frame's length, flag and parameter, for every parameter shorter than
`Base * Base`, every flag and whatever lies behind. The parts of the frame are
located one behind the other (`HoldsParts`), a two-byte length is read back as
it was written (`TwoBytes`), and the first mark found is the right one because
a flag has no zero byte (`PositionIs`). `TakesNoMore`: for every buffer of bytes
dtrs and miniData remove at most what has arrived, although miniData reads beyond it.
`Typing` (`FrameLine!TypeOK`) is inductive by itself and rests on the same facts
for buffers with arbitrary contents: no operator is applied outside the array,
and what is handled are bytes. The theorems assume `CrcHas16Bits`.

The others are about frames that arrive in pieces, under `LineUse`. `Line` proves
`LineInv`, which looks at the stream: what is in the cache, followed by what is on the
line. While nothing was thrown away the frames handled are the first packets
sent, and `Laid` says where the rest lies: the frame of packet `i` at `pos[i]`, in order,
complete in the stream, and no `Start` outside of them; so a finder that skips
bytes stops at the head of a frame and never inside one. `Prompt` bounds what waits: hxnet and
dtrs hold at most three bytes that begin no frame, and with four or more the incomplete frame at
the head; without noise miniData holds the one frame that is arriving. `FrameAtHead`
is the lemma about the finders: with a part of a frame at the head they return nothing
and remove nothing, whatever lies behind, and with all of it the frame. Each step
(a byte stored, then the removal of what the finder says) is followed through the stream, with
the noise and the new frame put at its end. `NeverOutside`
(`InCache`), `OnlyGenuine` (`Genuine`) and `HandledWhenQuiet` (`KeepsUp`) follow, and
`ImplementsChannel` from the growth of what was handled. TLC checked `LineInv` on
the constants of `MCFrameLine` with its two quantifiers bounded, and evaluates `LineUse` in
that run (`InstanceAssumption`), so its hypotheses are met.

*BusinessServProofs.* `ServTyped`, `EveryConnectionRegistered`, `MarksHaveReasons`,
`TableIsLimited`, `OutputIsMoved`. `Registered` and `Marked` need each other and
two facts more: `Owner`, that a connection in the table has that id in its
context and has finished its hand-shake, and `Queued`, that only such connections
wait to be closed. `Placed` says that the connection being read is connected and
that its id has an entry while its bytes are parsed (maybe another's entry, when
the id was given again), `Unsent` that only a connected socket has output. Most steps change one entry, or entries and
connections that are closed together: `OneEntryKept`, `CleanUpKeeps`,
`MarkFreeKeeps` and `ClosingKeeps` say what each leaves of the invariant. The
steps with content are `Register`, where the id found is not in use, so the old
owner, if there is one, is in the queue; `RunTasks`, which marks the entries of
all that are closed, those of a new owner too, the exception that `Marked` names;
and `Timer`, which erases entries whose connections go into the queue.
`TableIsLimited` counts: an id is added only when at most `MaxServ` are in use,
and an entry made by `operator[]` has no connection.

*MySQLProcProofs.* `MySQLTyped`, `StatementsConserved`, `CallbacksTrue`,
`ConnectionsRead` and `StoppedAtEnd`, from one inductive invariant, `IInv`. `Control` says
where the main thread and the flag are, `Locals` what a thread has at each place: a
statement in hand exactly while it connects, executes or calls back, and results only
while it calls back. `Conserved` is inductive with these two: the step with content is `Take`,
where the head of the queue is the number after those taken before, so nobody has it yet.
`Counts` follows a statement from the queue to its answer: not executed while it waits or
while its thread connects, executed at most as often as attempts were used up. It needs
`Conserved`: one more execution of a statement touches no other thread and no answer, because
only one thread has it and nobody answered it (`InHandAlone`). `TypeOK` needs `Counts`, as
it says that nothing is executed a fourth time. That freeing leaves no address behind
(`FreedDb`) rests on the status that ends every answer to a CALL.

*NetCoreProofs.* `ListInserts`, `ListAppends`, `ListDeletes`: if the pointers are
right for a sequence they are right afterwards for the sequence with the node
behind the given place, at the end, or without it. Each node is looked at by its
position: before, at or behind the change; that no node occurs twice makes the
comparison of addresses one of positions. `WritesInside` and `TextEndsBehind` say
which bytes a writer changes, `WrittenIsHeld` and `WrittenStays` that an item lies
where it was written and stays there, and `ReadsWhatIsHeld`, `ReadsString` and
`ReadsUnicode` that a reader at its place returns it and stops behind it. 
`ItemsComeBack` joins them: any number of items of any kind come back in order. By
induction the items written so far lie one behind the other (`LaidOut`), each under
the condition that its writer succeeded (`Fits`) and that a string holds no end
(`Endless`), and by a second one the reader is where the writer was.

Inductions over numbers are made without the theorem of the library that takes an
operator: the numbers for which the claim holds are a set with 0 and with each
successor; were one missing there would be a least missing one, by `WFMin`, whose
predecessor is in the set (`AllNumbers`).

Only model-checked is what needs fairness, which is outside TLAPS here:
`LostPeerNoticed`, `SeedWaitEnds`, `CloseReported`, `GetsAnswer`, `SilentClosed`
and the liveness half of `IsFifo`. Every invariant and every action property
of the passing runs is a theorem.

## Divergences

Each of these is a run in which TLC reaches what a comment excludes.

| Run | Comment | Code |
| --- | --- | --- |
| `DanglingUser` | `tcp_serv_select.c:9`: the only list of users | `UserDelete` finds a closed session by `s = 0`: the first closed one, not this one |
| `LockCycle` | `tcp_serv_select.c:168`: other threads run normally | lines 45-46 and 98, 105 take the locks in opposite orders |
| `RecycledSocket` | `GCSSockMgr.cpp:720-721`: the socket associated with the port was closed | `:724` closes the socket the object has now, which may be another connection's |
| `EndlessLoop` | `proc.cpp:371`: the data is less than a frame, leave the loop | the loop of `businessRead` is left when less than a header remains; with a header but part of its frame, as it arrived (`:346`) or as shifting after a wrong CRC left it (`:364`), it goes round for ever and no connection is served |

Met while modelling, visible in the actions, without a run of their own:

- `session.h:23` and `:284` promise frames with a fixed flag; after an error the
  flag of the next header is not looked at (`session.c:268`, `:326`, `:353`).
- `tcp_serv_select.c:103-104` locks `g_userCs` to change the list of users;
  `zhSendAllUser` (`:251-258`) walks it without.
- `session.c:187` says that a backlog disconnects the socket; the code empties
  the cache and goes on (`CacheOverflows`).
- `session.h:80` says that ConnectTimeout means the connection failed; a seed
  that arrives before the next `zhSionStateThread` makes the Dead session
  Connecting (`session.c:203-205`), and Connected is reported after it.
- `session.c:254` and `session.h:287` say that an error returns -1; a receive
  timeout returns 0 (`ReadOverdue`).
- `session.h:288` says that 0 means less than a frame; an empty frame returns 0
  too (`ReadFrame`), so the read loop stops before the frames behind it.
- `userlist.h:18` bounds the threads by `TCP_MAX_CONNECTED/TCP_SPLIT_SIZE`;
  groups are not refilled evenly, and an ending group still counts.
- `GCSSockMgr`: a socket may be closed, and its close reported, before its
  accept event is; the accept callback is then made for a deleted object
  (`AcceptEvent`, `StraySend`). A refused close event leaves the object in the
  map for ever (`stuck`).
- `isAlreadyGetEncryptSeed` is not cleared when an object is used again, so
  `GCEApiSRTNetConnect` may see the seed flag of the last connection
  (`Connected`).
- A seed and the first frame in one receive close the client: the length left
  wraps around (`RecvSeed`).
- `NewSocket` without a free object does not close the socket (`NoObject`).
- `hxnet-protocol.h:5` says that a frame that ends with 0xBB uses the check;
  `hxnet-protocol.c:236-243` compares the check before it has arrived, so a frame
  received byte by byte, as in the example, loses its first byte.
  `dtrs-protocol.c:126` asks first.
- A checked hxnet frame that repeats the one before it finds the old check behind
  its end mark: it is accepted before its own has arrived, and more is removed
  than there is (`hxFrame`).
- `hxNetGetFrame` drops a byte when the flag has not arrived whole after four
  bytes (`hxnet-protocol.c:201-205`), so a frame with a flag of three characters
  or more is lost when it arrives in pieces.
- The checks of hxnet and dtrs cover the number of bytes modulo 256
  (`hx-crc.h:77`, `dtrs-crc.h:84`); the protocol text says from 0xAA to 0xBB.
- `dtrs-protocol.c:74` and `hxnet-protocol.c:175` say that the least length is 6; it is 4 in the code, and a dtrs frame without
  parameter has 3: it waits for the byte behind it (`KeepsUp`). `mini-data.c:54`
  says 4, the code 3.
- The loop of `mini-data.h` looks once for each byte that can end a frame, so
  after noise it handles each frame one frame late (`KeepsUp`).
- `tcp_serv_select.c:32-35` speaks of 64 sockets per thread, the limit is 16.
- After a wrong CRC the bytes move and their number is not reduced (`proc.cpp:364`): the
  last byte is there twice. A turn of the loop that changes nothing is `Stuck`, which
  `SilentClosed` excepts: while the loop lasts no silent connection is closed.
- `proc.cpp:284-285` writes through the result of `find` without comparing it with
  `end()`; when the id was given again it marks the new owner's entry free, and
  the timer then closes a connection that is well (`Marked`).
- Reading for a connection that is out of the table makes an entry
  (`operator[]`) without a connection: the timer, or a keep-alive, then uses a null
  pointer (`Made`, `Crashed`). Its `isFree` and its cache are not initialised; the
  cache is taken as empty here.
- An empty frame makes `zhRecv` look at the byte behind it (`Commands`). A frame
  longer than the cache of 3000 bytes never fits. `proc.cpp` counts one connection
  more than its limit (`Limit`).
- `TagInfo` is declared nowhere in the repository, so `linux_serv` does not compile
  at this commit; `g_listRecvToCli` is filled and never read, `g_listUserToBusin`
  walked and never filled.
- `session.c:207` says that what follows the seed all goes to the frame buffer;
  `session.c:208-212` moves it past the valid prefix, and what stays are the first bytes
  received, the seed included (`CacheSeedDone`): a frame sent right after the seed is lost.
- `MySQLProc.cpp:80` says that after two minutes without any action the connection is
  closed. `:79` subtracts from its tick a `lastExecuteTime` that another thread may have set
  after it: the DWORD wraps around and a connection in use is closed (`ReadClock`). The next
  statement opens it again.
- `cdbmysql.h:35` says that `freeQueryRes` must be executed, and it must: without it the
  connection refuses the next statement (`ResultsRead`). But it overwrites the result that
  `Query` stored (`Cdbmysql.cpp:101`, `:233`), which nobody can free any more.
- `server.cpp:144` logs "Destory Mysql Thread."; the threads are told to stop and not
  awaited, so one that waits for MySQL answers later with the library that `GSRTEnd` ended.
- `server.cpp:146` logs "Close Services Successfully."; `TerminateThread`
  (`GCSRTNet.cpp:152`) may have ended the callback thread inside `CMySQLProc::Query`, and
  the destructor then waits for its critical section for ever (`End`, `Destruct`).
- A statement whose callback reports ezhMysqlOperatSqlFail may have been executed, up to
  three times (`TryFails`); on failure the client gets no answer at all (`ProcMysql`).
- The answer to a statement goes to a handle kept since the request
  (`GCSNetWork.cpp:54`, `:78`), whoever uses its object by then: the application does not
  do what `SockMgr` assumes of it.
- Statements that arrive between `GSRTInit` and `Initizal` are dropped without a word
  (`LeaveQuery`).
- `zhPackReadStringN` leaves one byte of its result unset when the string is as long
  as its buffer allows: the string may come out one byte longer, and the position
  is then one too far (`PackReadStringN`). When the string is cut the position is
  inside it, not behind it.
- `zhHttp.h:86` calls `timeout_second` the timeout; receiving does not use it, and
  waits without an end for a server that neither sends nor closes.
  `zhHttp.c:445` sends the beginning of a block again after a part of it was taken.

## Plan

Done, in this order, the most used code first: `Session` and its proofs,
`TcpServSelect` and its proofs, `MemMgr`, `DealQueue` and `Fifo` with theirs,
`SockMgr` and its proofs, `Frames` and `FrameLine` with theirs,
`BusinessServ` on `TcpConn` with its proofs, `NetList` and `Packet` with theirs,
`MySQLProc` and its proofs, `Channel` as what `Session` and `FrameLine` implement.

Left, in this order:

1. Several managers in `SockMgr`: `SendEncryptKey` takes the lock and the pool of
   manager 0 whatever manager the object belongs to.
   As modelled, with one worker thread, there is one manager. With it, applications that
   use a handle after its end, as the MySQL service does.
2. The port for users of `linux_serv`, should its handlers come to the repository.

### Not modelled

- *zhHttp*, *zhUPnP*: a call makes its requests one after the other on a blocking
  socket and returns; nothing is shared and nothing kept between calls, so there
  is no state to explore but the text of requests and answers. The loops that
  can wait for ever (above, and `zhUPnP_client.c:291-310`) wait in a single call.
- *GCSetPack*: the operations of `Packet` on a buffer whose length is not known to
  it: there are no bounds to state, and the round trip is that of `Packet`.
- *Server_for_Mysql* beside its threads: the protocol of the Windows service manager, the
  ini file, and a list of users that is always empty, because the only call of `addUser`
  is commented out (`GCSNetWork.cpp:15-20`).
- *GCSMemManager*: the library has no object of it. *zhEncrypt*, *GCHEncrypt*:
  a transformation of bytes, without state. *GCHLog*: writes to a file.
- Third-party code (the rest of the event library, zlib, xml, json, digests, AES,
  the character tables of `print_msg`, MySQL headers) and project files. This is
  most of the repository's lines.
