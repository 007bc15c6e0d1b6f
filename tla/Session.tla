------------------------------- MODULE Session -------------------------------
(***************************************************************************)
(* One TzhNetSession of ZH/zhNet_Core/session.c and the TCP connection     *)
(* under it.  The application drives a session by calling, in a loop,      *)
(* zhSionCacheData (socket -> cache), zhSionReadData (cache -> frames) and *)
(* zhSionStateThread (life cycle -> events); it opens it with zhSionInit   *)
(* and zhSionConnect, or with zhSionAccept, and closes it with             *)
(* zhSionSafeClose or zhSionClose.  The peer runs the same library.        *)
(*                                                                         *)
(* Scale.  A cell of a stream is one byte, except that the two length      *)
(* bytes and the two CRC bytes of TzhPackFrameHeader are one cell each, so *)
(* a header has three cells.  Times are counted in ticks and saturate just *)
(* past the limit they are compared with.  The cache is its valid prefix,  *)
(* btCache[0 .. wNetPackPos-1].                                            *)
(***************************************************************************)
EXTENDS Integers, Sequences, SequencesExt

CONSTANTS
  Byte,            \* the values of a cell
  Flag,            \* ZH_NET_FRAME_FLAG
  Crc(_),          \* zhPlatCRC16, of a sequence of cells
  Seed,            \* what _zhSionSendKeyInit sends
  Payloads,        \* the packets the peer may send
  CacheSize,       \* ZH_NET_PACKET_SIZE
  ChunkMax,        \* ZH_NET_PACKET_BODY_LENGTH, the most one recv returns
  FrameMax,        \* frame_len, the size of the buffer given to zhSionReadData
  RecvOvertime,    \* ZH_NET_RECV_OVERTIME
  ConnectTimeout,  \* ZH_NET_CONNECT_TIMEOUT
  MaxFrames        \* bound: packets the peer sends on one connection

HeaderLen == 3

ASSUME CellAssumption ==
  /\ Byte \subseteq Nat
  /\ Flag \in Byte
  /\ Seed \in Seq(Byte)
  /\ Len(Seed) > 0
  /\ Payloads \subseteq Seq(Byte)
  /\ \A p \in Payloads : Len(p) \in Byte /\ Crc(p) \in Byte

\* The four bytes of the seed are fewer than the five of a header: as cells
\* the seed is no longer than a header, so a part of a seed is never one.
ASSUME SizeAssumption ==
  /\ CacheSize \in Nat /\ ChunkMax \in Nat \ {0} /\ FrameMax \in Nat
  /\ RecvOvertime \in Nat /\ ConnectTimeout \in Nat
  /\ MaxFrames \in Nat
  /\ Len(Seed) < CacheSize /\ Len(Seed) <= HeaderLen

VARIABLES
  sock,     \* sion->s # 0
  cState,   \* sion->cState
  seedGot,  \* sion->isAlreadyGetEncryptSeed
  buf,      \* tagPack.btCache # NULL
  cache,    \* btCache[0 .. wNetPackPos-1]
  recvBuf,  \* tagPack.bNetPackRecvBuf
  quiet,    \* ticks since tagPack.lastRecvBufTime
  waited,   \* ticks since sion->dwStartTime
  link,     \* what the kernel knows of the connection
  wire,     \* cells that have arrived and were not received
  ret,      \* what the last zhSionCacheData or zhSionReadData returned
  err,      \* the EzhNetError variable the application passes to both
  events,   \* history: events of this connection
  sent,     \* history: packets the peer sent in full
  got,      \* history: frames zhSionReadData returned
  cut,      \* history: a send of the peer was cut short
  lost      \* history: received cells were thrown away

conn  == <<sock, cState, seedGot, buf, waited>>
store == <<cache, recvBuf, quiet>>
net   == <<link, wire, sent, cut>>
told  == <<ret, err, events, got, lost>>
vars  == <<conn, store, net, told>>

States == {"Zero", "Initizal", "WaitSeed", "Connecting", "Connected", "Dead"}
Errors == {"NoError", "PacketInvalid", "Socket", "CacheOverflow", "CRC16",
           "CacheNotEnough", "RecvOvertime"}
Events == {"Connected", "ConnectTimeout", "Disconnect"}
Links  == {"none", "pending", "open", "refused", "closed", "reset"}

Least(a, b) == IF a <= b THEN a ELSE b

(***************************************************************************)
(* The frame zhSionSend builds: flag, length, CRC of the body, body.       *)
(***************************************************************************)
Encode(p) == <<Flag, Len(p), Crc(p)>> \o p

Suffix(s, n) == SubSeq(s, n + 1, Len(s))

\* Type invariant: a state and an error are never mixed up with an event, the
\* times saturate, the streams hold cells.
TypeOK ==
  /\ sock \in BOOLEAN /\ cState \in States /\ seedGot \in BOOLEAN
  /\ buf \in BOOLEAN /\ recvBuf \in BOOLEAN /\ cut \in BOOLEAN /\ lost \in BOOLEAN
  /\ cache \in Seq(Byte) /\ wire \in Seq(Byte)
  /\ quiet \in 0 .. RecvOvertime + 1 /\ waited \in 0 .. ConnectTimeout + 1
  /\ link \in Links
  /\ ret \in Int /\ err \in Errors
  /\ events \in Seq(Events)
  /\ sent \in Seq(Payloads) /\ got \in Seq(Seq(Byte))

Init ==
  /\ sock = FALSE /\ cState = "Zero" /\ seedGot = FALSE /\ buf = FALSE
  /\ waited = 0 /\ quiet = 0
  /\ cache = <<>> /\ recvBuf = FALSE
  /\ link = "none" /\ wire = <<>> /\ sent = <<>> /\ cut = FALSE
  /\ ret = 0 /\ err = "NoError" /\ events = <<>> /\ got = <<>> /\ lost = FALSE

-----------------------------------------------------------------------------
(* Opening and closing. *)

NewHistory ==
  /\ events' = <<>> /\ sent' = <<>> /\ got' = <<>>
  /\ cut' = FALSE /\ lost' = FALSE

\* zhSionInit of a closed session.
SionInit ==
  /\ cState = "Zero" /\ ~sock
  /\ sock' = TRUE /\ cState' = "Initizal" /\ seedGot' = FALSE
  /\ buf' = FALSE /\ cache' = <<>>
  /\ NewHistory
  /\ UNCHANGED <<waited, recvBuf, quiet, link, wire, ret, err>>

\* zhSionInit whose socket cannot be made non-blocking: it returns false with
\* the socket open and nothing else assigned.  When SO_REUSEADDR or the bind
\* fails it returns false after all assignments: the session is that of SionInit.
SionInitFails ==
  /\ cState = "Zero" /\ ~sock
  /\ sock' = TRUE
  /\ UNCHANGED <<cState, seedGot, buf, waited, store, net, told>>

\* zhSionConnect: a non-blocking connect has been started.  When
\* zhSockConnect fails it returns false and changes nothing.
Connect ==
  /\ cState = "Initizal" /\ link = "none"
  /\ link' = "pending"
  /\ cState' = "WaitSeed" /\ waited' = 0
  /\ recvBuf' = FALSE /\ buf' = TRUE /\ cache' = <<>> /\ seedGot' = FALSE
  /\ UNCHANGED <<sock, quiet, wire, sent, cut, told>>

\* zhSionAccept: only a send of the seed that would block (0 bytes) keeps
\* the session out of Connected; a send that fails does not.
Accept ==
  /\ cState = "Zero" /\ ~sock
  /\ sock' = TRUE /\ waited' = 0
  /\ recvBuf' = FALSE /\ buf' = TRUE /\ cache' = <<>>
  /\ cState' \in {"Initizal", "Connected"}
  /\ seedGot' = TRUE
  /\ link' = "open" /\ wire' = <<>>
  /\ NewHistory
  /\ UNCHANGED <<quiet, ret, err>>

\* Mutant: btCache is not freed.
BugReleaseKeepsCache ==
  /\ sock' = FALSE /\ buf' = buf
  /\ cache' = <<>> /\ recvBuf' = FALSE
  /\ link' = "none" /\ wire' = <<>>

\* What the three closing paths have in common.
Release ==
  /\ sock' = FALSE /\ buf' = FALSE
  /\ cache' = <<>> /\ recvBuf' = FALSE
  /\ link' = "none" /\ wire' = <<>>

SafeClose ==
  /\ cState' = IF cState = "Zero" THEN "Zero" ELSE "Dead"
  /\ Release
  /\ UNCHANGED <<seedGot, waited, quiet, sent, cut, told>>

Close ==
  /\ cState' = "Zero"
  /\ Release
  /\ UNCHANGED <<seedGot, waited, quiet, sent, cut, told>>

-----------------------------------------------------------------------------
(* zhSionCacheData: one recv of at most ChunkMax cells. *)

Returns(r, e) == ret' = r /\ err' = e

CacheNoSocket ==
  /\ ~sock
  /\ Returns(0, "Socket")
  /\ UNCHANGED <<conn, store, net, events, got, lost>>

CacheNothing ==
  /\ sock /\ wire = <<>> /\ link \in {"pending", "open"}
  /\ Returns(1, "NoError")
  /\ UNCHANGED <<conn, store, net, events, got, lost>>

\* Mutant: the end of the stream does not end the session.
BugRecvFailureIgnored ==
  /\ sock /\ wire = <<>> /\ link \notin {"pending", "open"}
  /\ Returns(1, "NoError")
  /\ UNCHANGED <<conn, store, net, events, got, lost>>

\* recv failed, or returned 0 because the peer closed.
CacheRecvFails ==
  /\ sock /\ wire = <<>> /\ link \notin {"pending", "open"}
  /\ cState' = IF cState \in {"Zero", "WaitSeed"} THEN cState ELSE "Dead"
  /\ Returns(1, "NoError")
  /\ UNCHANGED <<sock, seedGot, buf, waited, store, net, events, got, lost>>

\* A backlog as long as the cache throws the whole cache away, the new cells too.
CacheOverflows(n) ==
  /\ Len(cache) + n >= CacheSize
  /\ cache' = <<>> /\ lost' = TRUE
  /\ Returns(0, "CacheOverflow")
  /\ UNCHANGED <<cState, seedGot>>

CacheAppends(n) ==
  /\ Len(cache) + n < CacheSize
  /\ seedGot
  /\ cache' = cache \o SubSeq(wire, 1, n)
  /\ Returns(1, "NoError")
  /\ UNCHANGED <<cState, seedGot, lost>>

\* The seed is not complete yet.
CacheSeedPart(n) ==
  /\ Len(cache) + n < CacheSize
  /\ ~seedGot /\ Len(cache) + n < Len(Seed)
  /\ cache' = cache \o SubSeq(wire, 1, n)
  /\ Returns(1, "NoError")
  /\ UNCHANGED <<cState, seedGot, lost>>

\* Mutant: isAlreadyGetEncryptSeed is not set.
BugSeedNotMarked(n) ==
  /\ Len(cache) + n < CacheSize
  /\ ~seedGot /\ Len(cache) + n >= Len(Seed)
  /\ cache' = SubSeq(cache \o SubSeq(wire, 1, n), 1, Len(cache) + n - Len(Seed))
  /\ seedGot' = FALSE /\ cState' = "Connecting"
  /\ lost' = (lost \/ Len(cache) + n > Len(Seed))
  /\ Returns(1, "NoError")

\* The seed is complete.  wNetPackPos is reduced by the length of the seed
\* and the memmove that follows writes the cells after the seed at
\* btCache[wNetPackPos], past the valid prefix: the cells the cache then
\* holds are the first ones received, the seed included.
CacheSeedDone(n) ==
  /\ Len(cache) + n < CacheSize
  /\ ~seedGot /\ Len(cache) + n >= Len(Seed)
  /\ cache' = SubSeq(cache \o SubSeq(wire, 1, n), 1, Len(cache) + n - Len(Seed))
  /\ seedGot' = TRUE /\ cState' = "Connecting"
  /\ lost' = (lost \/ Len(cache) + n > Len(Seed))
  /\ Returns(1, "NoError")

CacheRecv ==
  /\ sock /\ link \in {"open", "closed"}
  /\ \E n \in 1 .. Least(ChunkMax, Len(wire)) :
       /\ \/ CacheOverflows(n) \/ CacheAppends(n)
          \/ CacheSeedPart(n) \/ CacheSeedDone(n)
       /\ wire' = Suffix(wire, n)
  /\ quiet' = 0
  /\ UNCHANGED <<sock, buf, waited, recvBuf, link, sent, cut, events, got>>

CacheData == CacheNoSocket \/ CacheNothing \/ CacheRecvFails \/ CacheRecv

-----------------------------------------------------------------------------
(* zhSionReadData: at most one frame out of the cache. *)

Overdue == cache # <<>> /\ quiet > RecvOvertime
Whole   == ~Overdue /\ Len(cache) >= HeaderLen
Framed  == Whole /\ (recvBuf \/ cache[1] = Flag)
BodyLen == cache[2]
FrameEnd == HeaderLen + BodyLen
Body    == SubSeq(cache, HeaderLen + 1, FrameEnd)
Complete == Framed /\ Len(cache) >= FrameEnd

\* A cache that waited too long is emptied; the function goes on and returns 0.
ReadOverdue ==
  /\ Overdue
  /\ cache' = <<>> /\ quiet' = 0 /\ lost' = TRUE
  /\ Returns(0, "RecvOvertime")
  /\ UNCHANGED <<conn, recvBuf, net, events, got>>

ReadShort ==
  /\ ~Overdue /\ Len(cache) < HeaderLen
  /\ Returns(0, err)
  /\ UNCHANGED <<conn, store, net, events, got, lost>>

\* The scan for the next flag reads the local copy of the header, and past
\* its end whatever the stack holds: a flag found there can be anywhere.
StackScan(s) ==
  {k \in 1 .. Len(s) :
     /\ \A j \in 1 .. Least(k, HeaderLen) - 1 : s[j + 1] # Flag
     /\ k < HeaderLen => s[k + 1] = Flag}

\* Mutant: the scan begins at the flag of the frame that was rejected.
BugScanFromFlag(s) ==
  {k \in 0 .. Len(s) :
     /\ \A j \in 0 .. k - 1 : s[j + 1] # Flag
     /\ k < Len(s) => s[k + 1] = Flag}

\* The same scan over the cache itself.
CacheScan(s) ==
  {k \in 1 .. Len(s) :
     /\ \A j \in 1 .. k - 1 : s[j + 1] # Flag
     /\ k < Len(s) => s[k + 1] = Flag}

ReadResync ==
  /\ Whole /\ ~Framed
  /\ \E k \in StackScan(cache) : cache' = Suffix(cache, k)
  /\ lost' = TRUE
  /\ Returns(-1, "PacketInvalid")
  /\ UNCHANGED <<conn, recvBuf, quiet, net, events, got>>

ReadIncomplete ==
  /\ Framed /\ ~Complete
  /\ recvBuf' = TRUE
  /\ Returns(0, err)
  /\ UNCHANGED <<conn, cache, quiet, net, events, got, lost>>

\* bNetPackRecvBuf stays true after both of the next two.
ReadBadCrc ==
  /\ Complete /\ Crc(Body) # cache[3]
  /\ recvBuf' = TRUE
  /\ \E k \in CacheScan(cache) : cache' = Suffix(cache, k)
  /\ lost' = TRUE
  /\ Returns(-1, "CRC16")
  /\ UNCHANGED <<conn, quiet, net, events, got>>

ReadTooBig ==
  /\ Complete /\ Crc(Body) = cache[3] /\ BodyLen > FrameMax
  /\ recvBuf' = TRUE
  /\ cache' = <<>> /\ lost' = TRUE
  /\ Returns(-1, "CacheNotEnough")
  /\ UNCHANGED <<conn, quiet, net, events, got>>

\* Mutant: what follows the frame in the cache is dropped with it.
BugFrameClearsCache ==
  /\ Complete /\ Crc(Body) = cache[3] /\ BodyLen <= FrameMax
  /\ got' = IF BodyLen > 0 THEN Append(got, Body) ELSE got
  /\ cache' = <<>>
  /\ recvBuf' = FALSE /\ quiet' = 0
  /\ Returns(BodyLen, "NoError")
  /\ UNCHANGED <<conn, net, events, lost>>

ReadFrame ==
  /\ Complete /\ Crc(Body) = cache[3] /\ BodyLen <= FrameMax
  /\ got' = IF BodyLen > 0 THEN Append(got, Body) ELSE got
  /\ cache' = Suffix(cache, FrameEnd)
  /\ recvBuf' = FALSE /\ quiet' = 0
  /\ Returns(BodyLen, "NoError")
  /\ UNCHANGED <<conn, net, events, lost>>

ReadData ==
  \/ ReadOverdue \/ ReadShort \/ ReadResync \/ ReadIncomplete
  \/ ReadBadCrc \/ ReadTooBig \/ ReadFrame

-----------------------------------------------------------------------------
(* zhSionStateThread.  In Zero, Initizal, Connected, and in WaitSeed before *)
(* the timeout it changes nothing and reports no event.                     *)

\* Mutant: the number of an event is assigned to the state.
BugEventAsState ==
  /\ cState = "WaitSeed"
  /\ waited > ConnectTimeout \/ link = "refused"
  /\ cState' = "ConnectTimeout"
  /\ events' = Append(events, "ConnectTimeout")
  /\ UNCHANGED <<sock, seedGot, buf, waited, store, net, ret, err, got, lost>>

\* Mutant: only an exception on the socket ends the wait.
BugNoTimeout ==
  /\ cState = "WaitSeed" /\ link = "refused"
  /\ cState' = "Dead"
  /\ events' = Append(events, "ConnectTimeout")
  /\ UNCHANGED <<sock, seedGot, buf, waited, store, net, ret, err, got, lost>>

\* zhSockHasExcept reports a refused connection on some platforms only.
StateTimeout ==
  /\ cState = "WaitSeed"
  /\ waited > ConnectTimeout \/ link = "refused"
  /\ cState' = "Dead"
  /\ events' = Append(events, "ConnectTimeout")
  /\ UNCHANGED <<sock, seedGot, buf, waited, store, net, ret, err, got, lost>>

\* Mutant: the state is not advanced.
BugConnectedAgain ==
  /\ cState = "Connecting"
  /\ cState' = "Connecting"
  /\ events' = Append(events, "Connected")
  /\ UNCHANGED <<sock, seedGot, buf, waited, store, net, ret, err, got, lost>>

StateConnected ==
  /\ cState = "Connecting"
  /\ cState' = "Connected"
  /\ events' = Append(events, "Connected")
  /\ UNCHANGED <<sock, seedGot, buf, waited, store, net, ret, err, got, lost>>

StateDisconnect ==
  /\ cState = "Dead"
  /\ cState' = "Zero"
  /\ Release
  /\ events' = Append(events, "Disconnect")
  /\ UNCHANGED <<seedGot, waited, quiet, sent, cut, ret, err, got, lost>>

StateThread == StateTimeout \/ StateConnected \/ StateDisconnect

-----------------------------------------------------------------------------
(* The network, the peer and the clock. *)

\* The listener accepts; its send of the seed may have returned 0, and the
\* seed is then missing from the stream.
PeerAccept ==
  /\ link = "pending" /\ link' = "open"
  /\ \/ wire' = Seed /\ cut' = cut
     \/ wire' = <<>> /\ cut' = TRUE
  /\ UNCHANGED <<conn, store, sent, told>>

PeerRefuse ==
  /\ link = "pending" /\ link' = "refused"
  /\ UNCHANGED <<conn, store, wire, sent, cut, told>>

\* zhSionSend of the peer: one non-blocking send; whatever the kernel does
\* not take is dropped with the buffer.
PeerSend(p) ==
  /\ link = "open" /\ Len(sent) < MaxFrames /\ ~cut
  /\ \/ /\ wire' = wire \o Encode(p)
        /\ sent' = Append(sent, p) /\ cut' = cut
     \/ /\ \E n \in 1 .. Len(Encode(p)) - 1 : wire' = wire \o SubSeq(Encode(p), 1, n)
        /\ cut' = TRUE /\ sent' = sent
  /\ UNCHANGED <<conn, store, link, told>>

\* The stream goes on after a send that was cut short.
PeerSendAfterCut(p) ==
  /\ link = "open" /\ Len(sent) < MaxFrames /\ cut
  /\ wire' = wire \o Encode(p) /\ sent' = Append(sent, p)
  /\ UNCHANGED <<conn, store, link, cut, told>>

PeerClose ==
  /\ link = "open" /\ link' = "closed"
  /\ UNCHANGED <<conn, store, wire, sent, cut, told>>

PeerReset ==
  /\ link \in {"open", "closed"} /\ link' = "reset" /\ wire' = <<>>
  /\ UNCHANGED <<conn, store, sent, cut, told>>

Tick ==
  /\ quiet' = Least(quiet + 1, RecvOvertime + 1)
  /\ waited' = Least(waited + 1, ConnectTimeout + 1)
  /\ UNCHANGED <<sock, cState, seedGot, buf, cache, recvBuf, net, told>>

Application == SionInit \/ SionInitFails \/ Connect \/ Accept \/ SafeClose \/ Close

Network ==
  \/ PeerAccept \/ PeerRefuse \/ PeerClose \/ PeerReset
  \/ \E p \in Payloads : PeerSend(p) \/ PeerSendAfterCut(p)

Next == Application \/ CacheData \/ ReadData \/ StateThread \/ Network \/ Tick

Spec == Init /\ [][Next]_vars

\* Everything but the results of the last call, which no step reads.
lasting == <<conn, store, net, events, got, lost>>

\* The application calls the three functions in a loop (session.h: "cycle
\* using"), and time passes.  Calls that change nothing but their results need
\* not be fair.
FairSpec ==
  /\ Spec
  /\ WF_lasting(CacheData) /\ WF_lasting(ReadData) /\ WF_lasting(StateThread)
  /\ WF_lasting(Tick)

-----------------------------------------------------------------------------
(* Properties. *)

\* A session never holds a cache without its socket, data without a cache,
\* or more data than the cache; nothing can be received into a session whose
\* btCache is NULL (zhSionCacheData copies into btCache without looking);
\* and a session that is closed for good (Zero) has released its cache.
Resources ==
  /\ buf => sock
  /\ cache # <<>> \/ recvBuf => buf
  /\ Len(cache) < CacheSize
  /\ link # "none" => buf
  /\ wire # <<>> => link \in {"open", "closed"}
  /\ cState = "Zero" => ~buf
  /\ cState = "Initizal" => sock
  /\ cState \in {"WaitSeed", "Connecting", "Connected"} => buf

\* isAlreadyGetEncryptSeed agrees with the state: cells are read as frames
\* only after the seed, and before it the cache holds less than a seed, so
\* zhSionReadData cannot take seed cells for a header when it is called in
\* WaitSeed.
SeedPhase ==
  /\ cState = "WaitSeed" => ~seedGot
  /\ cState \in {"Connecting", "Connected"} => seedGot
  /\ buf /\ ~seedGot => cState \in {"WaitSeed", "Dead"} /\ Len(cache) < Len(Seed)

\* The events of one connection: each at most once, nothing after Disconnect,
\* Connected is reported only of a session that got its seed, and Disconnect
\* only once everything is released (the demos reconnect from that callback).
EventOrder ==
  /\ \A i, j \in DOMAIN events : events[i] = events[j] => i = j
  /\ \A i \in DOMAIN events :
       /\ events[i] = "Disconnect" => i = Len(events) /\ cState = "Zero" /\ ~buf
       /\ events[i] = "Connected" => seedGot

\* The packets of s without the empty ones, which are frames without a body.
NonEmpty(s) ==
  LET kept[i \in 0 .. Len(s)] ==
        IF i = 0 THEN <<>>
        ELSE IF s[i] = <<>> THEN kept[i - 1] ELSE Append(kept[i - 1], s[i])
  IN  kept[Len(s)]

\* Re-framing a TCP stream loses, duplicates, merges and reorders nothing:
\* while the peer's sends were complete and no error threw cells away, the
\* frames zhSionReadData returned are the packets sent, in order, and all of
\* them once nothing is left in the socket and the cache.
InOrder ==
  ~cut /\ ~lost =>
    /\ IsPrefix(got, NonEmpty(sent))
    /\ buf /\ seedGot /\ link \in {"open", "closed"} /\ wire = <<>> /\ cache = <<>>
         => got = NonEmpty(sent)

Framing == INSTANCE Channel WITH
  Packets <- Payloads \ {<<>>},
  sent    <- NonEmpty(sent),
  intact  <- ~cut /\ ~lost

\* A session is a channel for packets that are not empty: a frame, once read,
\* stays read, each reading returns the packet whose turn it is, and only
\* the errors and the sends that were cut short end the promise.
IsChannel == Framing!Spec

\* Every error return of zhSionReadData consumes something, so the loop
\* session.h documents (read again after -1, stop at 0) comes to an end.
ReadShrinks == [][ReadData /\ ret' = -1 => Len(cache') < Len(cache)]_vars

\* A connection the peer refused, closed or reset is noticed and its socket
\* is closed, whatever state the session is in when it happens.
LostPeerNoticed == link \in {"refused", "closed", "reset"} ~> ~sock

\* No session waits for its seed for ever.
SeedWaitEnds == cState = "WaitSeed" ~> cState # "WaitSeed"

=============================================================================
