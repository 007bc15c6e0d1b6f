----------------------------- MODULE BusinessServ -----------------------------
(***************************************************************************)
(* The business server of linux_serv, proc.cpp, on the connections of      *)
(* TcpConn: a table of the connected business servers, each with a receive *)
(* cache and the time of its last keep-alive, and a timer that throws out  *)
(* the silent and the closed ones.                                         *)
(*                                                                         *)
(* Everything runs in the thread of the event loop.  What a handler does   *)
(* is one step, but for reading: reading from the connection, one turn of  *)
(* the loop of businessRead, and the cleanup that may follow are steps,    *)
(* during which at says where the thread is.  The peers go on meanwhile    *)
(* as after it: what they do is not seen before the thread polls again, so *)
(* they act only then.                                                     *)
(***************************************************************************)
EXTENDS TcpConn

CONSTANTS
  NULL,
  Ids,         \* bound: the ids there will be, 0 .. n
  MaxServ,     \* 20: a connection is refused when the table has more entries
  Keep,        \* 20000 ms
  CacheSize,   \* sizeof(dtrsCache)
  HeadLen,     \* sizeof(TzhPackFrameHeader), in cells: flag, length, CRC
  Flag,        \* ZH_NET_FRAME_FLAG
  Alive_E,     \* 'E': a keep-alive
  Crc(_),
  Bodies,      \* contents of the frames the peers send
  Junk,        \* what else they send
  Talkers,     \* bound: connections whose peers send
  Cuts,        \* bound: where what is sent may be cut in two
  MaxSends     \* bound: frames and junk sent, by all

ASSUME ServAssumption ==
  /\ Conns \subseteq Nat /\ NULL \notin Conns
  /\ Ids \subseteq Nat /\ IsFiniteSet(Ids) /\ 0 \in Ids
  /\ MaxServ \in Nat /\ Keep \in Nat
  /\ HeadLen = 3 /\ CacheSize \in Nat /\ CacheSize > HeadLen
  /\ Cell \subseteq Nat /\ Flag \in Cell /\ Alive_E \in Cell
  /\ Bodies \subseteq Seq(Cell) /\ Junk \subseteq Seq(Cell)
  /\ \A b \in Bodies : <<Flag, Len(b), Crc(b)>> \o b \in Seq(Cell)
  /\ Cuts \subseteq Nat \ {0} /\ MaxSends \in Nat

VARIABLES
  table,      \* g_businessServList
  context,    \* context<int>() of a connection; 0 until it is set
  clientID,   \* g_clientID
  at,         \* where the thread is
  rest,       \* what a peer has still to send of a frame it began
  sends       \* history: frames and junk sent

serv == <<table, context, clientID, at, rest, sends>>
vars == <<conn, serv>>

-----------------------------------------------------------------------------
(* TzhBusinessConInfo.  silence is the time since dwLastKeepTme. *)

Cached == {s \in Seq(Cell) : Len(s) < CacheSize}
Entry == [con : Conns \cup {NULL}, isFree : BOOLEAN, silence : 0 .. Keep + 1,
          cache : Cached]
NoEntry == [con |-> NULL]

Used(id) == table[id] # NoEntry
UsedIds == {id \in Ids : Used(id)}

Fresh(c) == [con |-> c, isFree |-> FALSE, silence |-> 0, cache |-> <<>>]

\* What operator[] makes of an id that is not in the table: no connection, no
\* keep-alive since 1970, isFree not initialised.
Made(free) == [con |-> NULL, isFree |-> free, silence |-> Keep + 1, cache |-> <<>>]

Where == [step : {"poll", "read", "parse", "cleanup", "crashed"},
          con : Conns \cup {NULL}, ending : BOOLEAN]
Poll == [step |-> "poll", con |-> NULL, ending |-> FALSE]
Crashed == [Poll EXCEPT !.step = "crashed"]
Doing(step, c, ending) == [step |-> step, con |-> c, ending |-> ending]

\* Type invariant.
TypeOK ==
  /\ ConnTyped
  /\ table \in [Ids -> Entry \cup {NoEntry}]
  /\ context \in [Conns -> Ids] /\ clientID \in Ids
  /\ at \in Where
  /\ rest \in [Conns -> Seq(Cell)] /\ sends \in Nat

Init ==
  /\ ConnInit
  /\ table = [id \in Ids |-> NoEntry]
  /\ context = [c \in Conns |-> 0] /\ clientID = 0
  /\ at = Poll
  /\ rest = [c \in Conns |-> <<>>] /\ sends = 0

-----------------------------------------------------------------------------
(* Peers and time. *)

Frame(b) == <<Flag, Len(b), Crc(b)>> \o b

\* A first part of s arrives.
SendPart(c, s) ==
  \E n \in {i \in Cuts : i < Len(s)} \cup {Len(s)} :
    /\ Arrive(c, SubSeq(s, 1, n))
    /\ rest' = [rest EXCEPT ![c] = SubSeq(s, n + 1, Len(s))]

PeerBegins(c) ==
  /\ at = Poll /\ c \in Talkers /\ rest[c] = <<>> /\ sends < MaxSends
  /\ \E s \in {Frame(b) : b \in Bodies} \cup Junk : SendPart(c, s)
  /\ sends' = sends + 1
  /\ UNCHANGED <<table, context, clientID, at>>

PeerGoesOn(c) ==
  /\ at = Poll /\ rest[c] # <<>>
  /\ Arrive(c, rest[c])
  /\ rest' = [rest EXCEPT ![c] = <<>>]
  /\ UNCHANGED <<table, context, clientID, at, sends>>

PeerLeaves(c) ==
  /\ at = Poll
  /\ PeerCloses(c) \/ PeerResets(c)
  /\ UNCHANGED serv

Tick ==
  /\ at = Poll
  /\ \E id \in UsedIds : table[id].silence <= Keep
  /\ table' = [id \in Ids |->
       IF Used(id) /\ table[id].silence <= Keep
         THEN [table[id] EXCEPT !.silence = @ + 1] ELSE table[id]]
  /\ UNCHANGED <<conn, context, clientID, at, rest, sends>>

-----------------------------------------------------------------------------
(* businessState. *)

\* Mutant: an id is taken without looking whether it is in use.
BugNextId(id) == id = IF clientID = 0 THEN 1 ELSE clientID

\* The first id that is free, from g_clientID on.
NewId(id) ==
  LET from == IF clientID = 0 THEN 1 ELSE clientID
  IN  /\ id \in Ids /\ id >= from /\ ~Used(id)
      /\ \A i \in from .. id - 1 : i \in Ids /\ Used(i)

Refuse(c) ==
  /\ Cardinality(UsedIds) > MaxServ
  /\ tasks' = CloseTasks({c})
  /\ writeEnabled' = [writeEnabled EXCEPT ![c] = FALSE]
  /\ UNCHANGED <<output, table, context, clientID>>

\* Mutant: a table of MaxServ entries is not full.
BugNoLimit(c) ==
  \E id \in Ids :
    /\ NewId(id)
    /\ clientID' = id
    /\ context' = [context EXCEPT ![c] = id]
    /\ table' = [table EXCEPT ![id] = Fresh(c)]
    /\ Send(c, [writeEnabled EXCEPT ![c] = FALSE])
    /\ UNCHANGED tasks

\* The last line is the four zero bytes.
Register(c) ==
  /\ Cardinality(UsedIds) <= MaxServ
  /\ \E id \in Ids :
       /\ NewId(id)
       /\ clientID' = id
       /\ context' = [context EXCEPT ![c] = id]
       /\ table' = [table EXCEPT ![id] = Fresh(c)]
  /\ Send(c, [writeEnabled EXCEPT ![c] = FALSE])
  /\ UNCHANGED tasks

\* Mutant: closed connections stay in the table.
BugNotMarked(cs) == UNCHANGED table

\* For connections that become Closed.  find(context) is not compared with
\* end(): without an entry the write goes past the map, into a global that
\* nothing here reads.
MarkFree(cs) ==
  table' = [id \in Ids |->
    IF Used(id) /\ \E c \in cs : context[c] = id
      THEN [table[id] EXCEPT !.isFree = TRUE] ELSE table[id]]

-----------------------------------------------------------------------------
(* The handlers of a connection. *)

Accept(c) ==
  /\ at = Poll
  /\ Attach(c)
  /\ UNCHANGED serv

\* handleHandshake, called for a write event or, when there is something to
\* read, for a read event, which goes on reading.
Handshake(c) ==
  /\ at = Poll
  /\ state[c] = "Handshaking" /\ peer[c] # "reset"
  /\ state' = [state EXCEPT ![c] = "Connected"]
  /\ Refuse(c) \/ Register(c)
  /\ at' = IF Readable(c) THEN Doing("read", c, FALSE) ELSE Poll
  /\ UNCHANGED <<woken, stream, peer, rest, sends>>

HandshakeReset(c) ==
  /\ at = Poll
  /\ HandshakeFails(c)
  /\ rest' = [rest EXCEPT ![c] = <<>>]
  /\ UNCHANGED <<table, context, clientID, at, sends>>

Write(c) ==
  /\ at = Poll
  /\ WriteEvent(c)
  /\ UNCHANGED serv

\* Mutant: the cache is not looked at for room.
BugNoRoom(cache, s) == cache \o s

\* The beginning of businessRead.
Store(cache, s) ==
  IF Len(cache) + Len(s) < CacheSize THEN cache \o s ELSE <<>>

\* handleRead up to the turns of the loop in businessRead: everything is read;
\* at the end of the stream cleanup calls businessRead first.
ReadEntry(c) ==
  LET id == context[c] IN
  \/ /\ Used(id)
     /\ table' = [table EXCEPT ![id].cache = Store(@, stream[c])]
  \/ /\ ~Used(id)
     /\ \E free \in BOOLEAN :
          table' = [table EXCEPT ![id] =
            [Made(free) EXCEPT !.cache = Store(<<>>, stream[c])]]

Read(c) ==
  /\ \/ at = Poll /\ state[c] = "Connected" /\ Readable(c)
     \/ at.step = "read" /\ at.con = c
  /\ IF stream[c] # <<>>
       THEN /\ ReadEntry(c)
            /\ at' = Doing("parse", c, peer[c] # "open")
       ELSE /\ UNCHANGED table
            /\ at' = Doing("cleanup", c, FALSE)
  /\ stream' = [stream EXCEPT ![c] = <<>>]
  /\ UNCHANGED <<state, writeEnabled, output, tasks, woken, peer,
                 context, clientID, rest, sends>>

\* cleanup after the read callback: the state callback, and the end.
Cleanup(c) ==
  /\ at.step = "cleanup" /\ at.con = c
  /\ CleanUp({c})
  /\ MarkFree({c})
  /\ rest' = [rest EXCEPT ![c] = <<>>]
  /\ at' = Poll
  /\ UNCHANGED <<tasks, woken, context, clientID, sends>>

-----------------------------------------------------------------------------
(* The loop of businessRead, for the connection c and the entry of its id.  *)

Cache(c) == table[context[c]].cache

\* From the first flag on.
FromFlag(s) ==
  LET before == {i \in 1 .. Len(s) : \A j \in 1 .. i : s[j] # Flag}
  IN  SubSeq(s, Cardinality(before) + 1, Len(s))

Whole(s) == Len(s) >= HeadLen /\ Len(s) >= HeadLen + s[2]
Body(s)  == SubSeq(s, HeadLen + 1, HeadLen + s[2])

Behind(s) == SubSeq(s, HeadLen + s[2] + 1, Len(s))

\* A turn that finds a frame, and whether its CRC is right.
Found(s) == Len(s) >= HeadLen /\ Whole(FromFlag(s))
Right(s) == LET t == FromFlag(s) IN Crc(Body(t)) = t[3]

\* What is left when the CRC is wrong: the bytes move by one, their number stays.
Shifted(s) == Append(Tail(s), s[Len(s)])

\* zhRecv looks at the byte behind the header, of an empty frame too.
Commands(t) == IF Len(t) > HeadLen THEN {t[HeadLen + 1]} ELSE Cell

Parsing(c) == at.step = "parse" /\ at.con = c

SetCache(c, s) == table' = [table EXCEPT ![context[c]].cache = s]

Busy == <<state, tasks, woken, stream, peer, context, clientID, rest, sends>>

\* Less than a header is left.
ParseEnd(c) ==
  /\ Parsing(c) /\ Len(Cache(c)) < HeadLen
  /\ at' = IF at.ending THEN Doing("cleanup", c, FALSE) ELSE Poll
  /\ UNCHANGED <<writeEnabled, output, table, Busy>>

\* No whole frame: bytes before a flag are dropped, and the loop goes round.
ParseSkip(c) ==
  /\ Parsing(c) /\ Len(Cache(c)) >= HeadLen /\ ~Found(Cache(c))
  /\ SetCache(c, FromFlag(Cache(c)))
  /\ UNCHANGED <<at, writeEnabled, output, Busy>>

ParseWrong(c) ==
  /\ Parsing(c) /\ Found(Cache(c)) /\ ~Right(Cache(c))
  /\ SetCache(c, Shifted(FromFlag(Cache(c))))
  /\ UNCHANGED <<at, writeEnabled, output, Busy>>

\* zhRecv, 'E': the entry of the id is refreshed, its connection answered.
KeepAlive(c) ==
  LET id == context[c] IN
  IF table[id].con = NULL
    THEN /\ at' = Crashed
         /\ UNCHANGED <<writeEnabled, output, table>>
    ELSE /\ table' = [table EXCEPT ![id].silence = 0, ![id].cache = Behind(FromFlag(@))]
         /\ Send(table[id].con, writeEnabled)
         /\ UNCHANGED at

\* 'F' and 'G' are for the users of the data side, who are not in the repository.
Other(c) ==
  /\ SetCache(c, Behind(FromFlag(Cache(c))))
  /\ UNCHANGED <<at, writeEnabled, output>>

ParseFrame(c) ==
  /\ Parsing(c) /\ Found(Cache(c)) /\ Right(Cache(c))
  /\ \E cmd \in Commands(FromFlag(Cache(c))) :
       \/ cmd = Alive_E /\ KeepAlive(c)
       \/ cmd # Alive_E /\ Other(c)
  /\ UNCHANGED Busy

Parse(c) == ParseEnd(c) \/ ParseSkip(c) \/ ParseWrong(c) \/ ParseFrame(c)

-----------------------------------------------------------------------------
(* The loop: queued tasks, the timer. *)

\* The wakeup is handled: Channel::close for each queued connection, whose
\* unread bytes are lost.
RunTasks ==
  LET closed == {c \in tasks : state[c] = "Connected"} IN
  /\ at = Poll /\ woken
  /\ woken' = FALSE /\ tasks' = {}
  /\ CleanUp(tasks)
  /\ MarkFree(closed)
  /\ rest' = [c \in Conns |-> IF c \in tasks THEN <<>> ELSE rest[c]]
  /\ UNCHANGED <<context, clientID, at, sends>>

Silent(id) == Used(id) /\ table[id].silence > Keep

\* Mutant: only entries that were free before are taken out.
BugOnlyClosed(id) == Used(id) /\ table[id].isFree

Leaves(id) == Used(id) /\ (table[id].isFree \/ Silent(id))

\* The timer: silent entries become free, and free ones are closed and erased.
Timer ==
  LET cons == {table[id].con : id \in {i \in Ids : Leaves(i)}} IN
  /\ at = Poll
  /\ IF NULL \in cons
       THEN /\ at' = Crashed
            /\ UNCHANGED <<conn, table>>
       ELSE /\ tasks' = CloseTasks(cons \cup tasks)
            /\ output' = [c \in Conns |-> output[c] /\ c \notin cons]
            /\ table' = [id \in Ids |-> IF Leaves(id) THEN NoEntry ELSE table[id]]
            /\ NextBatch(tasks')
            /\ UNCHANGED <<at, state, writeEnabled, stream, peer>>
  /\ UNCHANGED <<context, clientID, rest, sends>>

\* The timer is not due.
NoTimer ==
  /\ at = Poll
  /\ NextBatch(tasks)
  /\ UNCHANGED <<state, writeEnabled, output, tasks, stream, peer, serv>>

Next ==
  \/ \E c \in Conns :
       \/ PeerBegins(c) \/ PeerGoesOn(c) \/ PeerLeaves(c)
       \/ Accept(c) \/ Handshake(c) \/ HandshakeReset(c)
       \/ Read(c) \/ Parse(c) \/ Cleanup(c) \/ Write(c)
  \/ RunTasks \/ Timer \/ NoTimer \/ Tick

Spec == Init /\ [][Next]_vars

\* The thread goes on with what it is doing.
GoesOn == at # Poll /\ \E c \in Conns : Read(c) \/ Parse(c) \/ Cleanup(c)

\* It does, handles its wakeups, its timer comes due, and time passes.
FairSpec ==
  Spec /\ WF_vars(GoesOn) /\ WF_vars(RunTasks) /\ WF_vars(Timer) /\ WF_vars(Tick)

-----------------------------------------------------------------------------
(* Properties. *)

\* A connection is in the table under its own id, or it is being closed: one
\* that was refused, or thrown out of the table.  So two connections that stay
\* have different ids, and a keep-alive counts for the one that sent it,
\* whatever closed connections with the same id do (businessState, the timer).
Registered ==
  \A c \in Conns : state[c] = "Connected" =>
    c \in tasks \/ (Used(context[c]) /\ table[context[c]].con = c)

\* An entry is marked free for a reason: its connection is closed, or the id
\* was given again while a connection that had it was still being closed.
Marked ==
  \A id \in UsedIds : LET c == table[id].con IN
    c # NULL =>
      /\ state[c] = "Closed" => table[id].isFree
      /\ table[id].isFree =>
           \/ state[c] = "Closed"
           \/ \E d \in Conns \ {c} : state[d] = "Closed" /\ context[d] = id

\* The table has at most MaxServ + 1 entries of connections.
Limit == Cardinality({id \in UsedIds : table[id].con # NULL}) <= MaxServ + 1

\* What is in an output buffer moves when the kernel takes it, unless the
\* connection is broken.
OutputMoves ==
  \A c \in Conns : Alive(c) /\ output[c] /\ peer[c] # "reset" => writeEnabled[c]

\* A turn of the loop that changes nothing, so that it never ends: the frame at
\* the head has not arrived whole, or all bytes of one with a wrong CRC are equal.
Stuck ==
  \E c \in Conns : LET s == Cache(c) IN
    /\ Parsing(c) /\ Len(s) >= HeadLen
    /\ \/ ~Found(s) /\ FromFlag(s) = s
       \/ Found(s) /\ ~Right(s) /\ Shifted(FromFlag(s)) = s

\* The loop of businessRead is left: "the data is less than a frame, leave the
\* loop" (proc.cpp:371).  It is not when what is left is part of a frame but no
\* less than a header, as it arrived (:346) or as shifting left it (:364).
LoopEnds == at.step = "parse" ~> at.step # "parse"

\* A connection whose peer falls silent, and every peer does here, is closed.
SilentClosed ==
  \A c \in Conns :
    state[c] = "Connected" ~> state[c] # "Connected" \/ at = Crashed \/ Stuck
=============================================================================
