---------------------------- MODULE SessionProofs ----------------------------
(***************************************************************************)
(* Proofs about Session: type correctness, the resource and seed           *)
(* invariants, the order of events, the termination measure of the read    *)
(* loop, and that the frames read are the packets sent, in order, for all  *)
(* values of the constants.                                                *)
(***************************************************************************)
EXTENDS Session, SequenceTheorems, WellFoundedInduction, TLAPS

(***************************************************************************)
(* What cutting a stream returns.                                          *)
(***************************************************************************)
LEMMA PartOfSeq ==
  ASSUME NEW S, NEW s \in Seq(S), NEW m \in Nat \ {0}, NEW n \in 0 .. Len(s)
  PROVE  /\ SubSeq(s, m, n) \in Seq(S)
         /\ Len(SubSeq(s, m, n)) = IF m <= n THEN n - m + 1 ELSE 0
<1>1. \A i \in m .. n : s[i] \in S
  BY LenProperties
<1> QED BY <1>1, SubSeqProperties

\* What is left of a stream when its first n cells are taken away.
LEMMA SuffixOfSeq ==
  ASSUME NEW S, NEW s \in Seq(S), NEW n \in 0 .. Len(s)
  PROVE  /\ Suffix(s, n) \in Seq(S)
         /\ Len(Suffix(s, n)) = Len(s) - n
<1>1. Len(s) \in Nat /\ n + 1 \in Nat \ {0} /\ Len(s) \in 0 .. Len(s)
  BY LenProperties
<1> QED BY <1>1, PartOfSeq DEF Suffix

(***************************************************************************)
(* A frame zhSionSend builds is a stream of cells.                         *)
(***************************************************************************)
LEMMA EncodedPayload ==
  ASSUME NEW p \in Payloads
  PROVE  Encode(p) \in Seq(Byte)
<1>1. p \in Seq(Byte) /\ Flag \in Byte /\ Len(p) \in Byte /\ Crc(p) \in Byte
  BY CellAssumption
<1>2. <<Flag, Len(p), Crc(p)>> \in Seq(Byte)
  BY <1>1
<1> QED BY <1>1, <1>2, ConcatProperties DEF Encode

(***************************************************************************)
(* The cells one recv takes from the wire.                                 *)
(***************************************************************************)
LEMMA Chunk ==
  ASSUME TypeOK, NEW n \in 1 .. Least(ChunkMax, Len(wire))
  PROVE  /\ n \in 0 .. Len(wire)
         /\ n \in Nat \ {0}
         /\ SubSeq(wire, 1, n) \in Seq(Byte)
         /\ Len(SubSeq(wire, 1, n)) = n
         /\ Suffix(wire, n) \in Seq(Byte)
         /\ cache \o SubSeq(wire, 1, n) \in Seq(Byte)
         /\ Len(cache \o SubSeq(wire, 1, n)) = Len(cache) + n
<1>1. wire \in Seq(Byte) /\ cache \in Seq(Byte) /\ Len(wire) \in Nat
  BY LenProperties DEF TypeOK
<1>2. n \in 0 .. Len(wire) /\ n \in Nat \ {0}
  BY <1>1, SizeAssumption DEF Least
<1>3. SubSeq(wire, 1, n) \in Seq(Byte) /\ Len(SubSeq(wire, 1, n)) = n
  BY <1>1, <1>2, PartOfSeq
<1> QED BY <1>1, <1>2, <1>3, SuffixOfSeq, ConcatProperties

-----------------------------------------------------------------------------
(***************************************************************************)
(* Type correctness.  One lemma per group of actions.                      *)
(***************************************************************************)
LEMMA TypeInit == Init => TypeOK
<1> SUFFICES ASSUME Init PROVE TypeOK
  OBVIOUS
<1>1. <<>> \in Seq(Byte) /\ <<>> \in Seq(Payloads) /\ <<>> \in Seq(Events)
      /\ <<>> \in Seq(Seq(Byte))
  BY EmptySeq
<1>2. 0 \in 0 .. RecvOvertime + 1 /\ 0 \in 0 .. ConnectTimeout + 1 /\ 0 \in Int
  BY SizeAssumption
<1>3. /\ cache \in Seq(Byte) /\ wire \in Seq(Byte) /\ events \in Seq(Events)
      /\ sent \in Seq(Payloads) /\ got \in Seq(Seq(Byte))
  BY <1>1, Zenon DEF Init
<1> QED BY <1>2, <1>3, Zenon DEF Init, TypeOK, States, Errors, Links

\* The calls that open and close a session keep TypeOK.
LEMMA TypeApplication == TypeOK /\ Application => TypeOK'
<1> SUFFICES ASSUME TypeOK, Application PROVE TypeOK'
  OBVIOUS
<1> USE DEF TypeOK, States, Errors, Links, store, net, told, NewHistory, Release
<1>0. <<>> \in Seq(Byte) /\ <<>> \in Seq(Payloads) /\ <<>> \in Seq(Events)
      /\ <<>> \in Seq(Seq(Byte)) /\ 0 \in 0 .. ConnectTimeout + 1
  BY EmptySeq, SizeAssumption
<1>1. CASE SionInit
  BY <1>0, <1>1 DEF SionInit
<1>2. CASE SionInitFails
  BY <1>2 DEF SionInitFails
<1>3. CASE Connect
  BY <1>0, <1>3 DEF Connect
<1>4. CASE Accept
  BY <1>0, <1>4 DEF Accept
<1>5. CASE SafeClose
  BY <1>0, <1>5 DEF SafeClose
<1>6. CASE Close
  BY <1>0, <1>6 DEF Close
<1> QED BY <1>1, <1>2, <1>3, <1>4, <1>5, <1>6 DEF Application

\* zhSionCacheData keeps TypeOK: what it stores are cells of the wire.
LEMMA TypeCacheData == TypeOK /\ CacheData => TypeOK'
<1> SUFFICES ASSUME TypeOK, CacheData PROVE TypeOK'
  OBVIOUS
<1> USE DEF conn, store, net, Returns
<1>1. CASE CacheNoSocket
  BY <1>1 DEF CacheNoSocket, TypeOK, Errors
<1>2. CASE CacheNothing
  BY <1>2 DEF CacheNothing, TypeOK, Errors
<1>3. CASE CacheRecvFails
  BY <1>3 DEF CacheRecvFails, TypeOK, Errors, States
<1>4. CASE CacheRecv
  <2>1. PICK n \in 1 .. Least(ChunkMax, Len(wire)) :
          /\ \/ CacheOverflows(n) \/ CacheAppends(n)
             \/ CacheSeedPart(n) \/ CacheSeedDone(n)
          /\ wire' = Suffix(wire, n)
    BY <1>4 DEF CacheRecv
  <2>2. wire' \in Seq(Byte) /\ cache \o SubSeq(wire, 1, n) \in Seq(Byte)
        /\ Len(cache \o SubSeq(wire, 1, n)) = Len(cache) + n
    BY <2>1, Chunk
  <2>3. /\ cache' \in Seq(Byte) /\ seedGot' \in BOOLEAN /\ cState' \in States
        /\ lost' \in BOOLEAN /\ ret' \in Int /\ err' \in Errors
    <3>1. CASE CacheOverflows(n)
      BY <3>1, EmptySeq DEF CacheOverflows, TypeOK, Errors
    <3>2. CASE CacheAppends(n)
      BY <3>2, <2>2 DEF CacheAppends, TypeOK, Errors
    <3>3. CASE CacheSeedPart(n)
      BY <3>3, <2>2 DEF CacheSeedPart, TypeOK, Errors
    <3>4. CASE CacheSeedDone(n)
      <4>1. Len(cache) + n - Len(Seed) \in 0 .. Len(cache \o SubSeq(wire, 1, n))
        BY <3>4, <2>2, CellAssumption, LenProperties DEF CacheSeedDone, TypeOK
      <4>2. cache' \in Seq(Byte)
        BY <3>4, <4>1, <2>2, PartOfSeq DEF CacheSeedDone
      <4> QED BY <3>4, <4>2 DEF CacheSeedDone, TypeOK, Errors, States
    <3> QED BY <2>1, <3>1, <3>2, <3>3, <3>4
  <2>4. quiet' \in 0 .. RecvOvertime + 1
    BY <1>4, SizeAssumption DEF CacheRecv
  <2> QED BY <1>4, <2>2, <2>3, <2>4 DEF CacheRecv, TypeOK
<1> QED BY <1>1, <1>2, <1>3, <1>4 DEF CacheData

\* zhSionReadData keeps TypeOK: whatever suffix of the cache it keeps.
LEMMA TypeReadData == TypeOK /\ ReadData => TypeOK'
<1> SUFFICES ASSUME TypeOK, ReadData PROVE TypeOK'
  OBVIOUS
<1> USE DEF conn, store, net, Returns
<1>0. cache \in Seq(Byte) /\ Len(cache) \in Nat /\ <<>> \in Seq(Byte)
  BY EmptySeq, LenProperties DEF TypeOK
<1>a. ASSUME Complete
      PROVE  /\ BodyLen \in Byte /\ BodyLen \in Int
             /\ FrameEnd \in 0 .. Len(cache)
             /\ Body \in Seq(Byte)
  <2>1. Len(cache) >= HeaderLen
    BY <1>a DEF Complete, Framed, Whole
  <2>a. cache \in [1 .. Len(cache) -> Byte] /\ 2 \in 1 .. Len(cache)
    BY <1>0, <2>1, LenProperties DEF HeaderLen
  <2>b. BodyLen \in Byte
    BY <2>a DEF BodyLen
  <2>2. BodyLen \in Byte /\ BodyLen \in Nat
    BY <2>b, CellAssumption
  <2>3. FrameEnd \in 0 .. Len(cache)
    BY <1>0, <1>a, <2>2 DEF Complete, FrameEnd, HeaderLen
  <2>4. Body \in Seq(Byte)
    BY <1>0, <2>3, PartOfSeq DEF Body, HeaderLen
  <2> QED BY <2>2, <2>3, <2>4
<1>1. CASE ReadOverdue
  BY <1>0, <1>1, SizeAssumption DEF ReadOverdue, TypeOK, Errors
<1>2. CASE ReadShort
  BY <1>2 DEF ReadShort, TypeOK
<1>3. CASE ReadResync
  <2>1. PICK k \in StackScan(cache) : cache' = Suffix(cache, k)
    BY <1>3 DEF ReadResync
  <2>2. cache' \in Seq(Byte)
    BY <1>0, <2>1, SuffixOfSeq DEF StackScan
  <2> QED BY <1>3, <2>2 DEF ReadResync, TypeOK, Errors
<1>4. CASE ReadIncomplete
  BY <1>4 DEF ReadIncomplete, TypeOK
<1>5. CASE ReadBadCrc
  <2>1. PICK k \in CacheScan(cache) : cache' = Suffix(cache, k)
    BY <1>5 DEF ReadBadCrc
  <2>2. cache' \in Seq(Byte)
    BY <1>0, <2>1, SuffixOfSeq DEF CacheScan
  <2> QED BY <1>5, <2>2 DEF ReadBadCrc, TypeOK, Errors
<1>6. CASE ReadTooBig
  BY <1>0, <1>6 DEF ReadTooBig, TypeOK, Errors
<1>7. CASE ReadFrame
  <2>1. Complete
    BY <1>7 DEF ReadFrame
  <2>2. cache' \in Seq(Byte)
    BY <1>0, <1>7, <1>a, <2>1, SuffixOfSeq DEF ReadFrame
  <2>3. got' \in Seq(Seq(Byte))
    BY <1>7, <1>a, <2>1, AppendProperties DEF ReadFrame, TypeOK
  <2>4. ret' \in Int /\ quiet' \in 0 .. RecvOvertime + 1
    BY <1>7, <1>a, <2>1, SizeAssumption DEF ReadFrame
  <2> QED BY <1>7, <2>2, <2>3, <2>4 DEF ReadFrame, TypeOK, Errors
<1> QED
  BY <1>1, <1>2, <1>3, <1>4, <1>5, <1>6, <1>7 DEF ReadData

\* zhSionStateThread keeps TypeOK: it only assigns states.
LEMMA TypeStateThread == TypeOK /\ StateThread => TypeOK'
<1> SUFFICES ASSUME TypeOK, StateThread PROVE TypeOK'
  OBVIOUS
<1> USE DEF store, net
<1>0. \A e \in Events : Append(events, e) \in Seq(Events)
  BY AppendProperties DEF TypeOK
<1>1. CASE StateTimeout
  BY <1>0, <1>1 DEF StateTimeout, TypeOK, States, Events
<1>2. CASE StateConnected
  BY <1>0, <1>2 DEF StateConnected, TypeOK, States, Events
<1>3. CASE StateDisconnect
  <2>1. events' \in Seq(Events)
    BY <1>0, <1>3 DEF StateDisconnect, Events
  <2>2. <<>> \in Seq(Byte)
    BY EmptySeq
  <2> QED BY <1>3, <2>1, <2>2 DEF StateDisconnect, Release, TypeOK, States, Links
<1> QED BY <1>1, <1>2, <1>3 DEF StateThread

\* The peer keeps TypeOK: what it sends are cells.
LEMMA TypeNetwork == TypeOK /\ Network => TypeOK'
<1> SUFFICES ASSUME TypeOK, Network PROVE TypeOK'
  OBVIOUS
<1> USE DEF conn, store, told
<1>0. <<>> \in Seq(Byte) /\ Seed \in Seq(Byte)
  BY EmptySeq, CellAssumption
<1>1. CASE PeerAccept
  BY <1>0, <1>1 DEF PeerAccept, TypeOK, Links
<1>2. CASE PeerRefuse
  BY <1>2 DEF PeerRefuse, TypeOK, Links
<1>3. CASE PeerClose
  BY <1>3 DEF PeerClose, TypeOK, Links
<1>4. CASE PeerReset
  BY <1>0, <1>4 DEF PeerReset, TypeOK, Links
<1>5. ASSUME NEW p \in Payloads, PeerSend(p) \/ PeerSendAfterCut(p)
      PROVE  TypeOK'
  <2>1. Encode(p) \in Seq(Byte) /\ Len(Encode(p)) \in Nat
    BY EncodedPayload, LenProperties
  <2>2. \A n \in 1 .. Len(Encode(p)) - 1 : SubSeq(Encode(p), 1, n) \in Seq(Byte)
    BY <2>1, PartOfSeq
  <2>3. wire' \in Seq(Byte)
    <3>1. \A s \in Seq(Byte) : wire \o s \in Seq(Byte)
      BY ConcatProperties DEF TypeOK
    <3>2. \/ wire' = wire \o Encode(p)
          \/ \E n \in 1 .. Len(Encode(p)) - 1 : wire' = wire \o SubSeq(Encode(p), 1, n)
      BY <1>5 DEF PeerSend, PeerSendAfterCut
    <3> QED BY <2>1, <2>2, <3>1, <3>2, Zenon
  <2>a. Append(sent, p) \in Seq(Payloads) /\ sent \in Seq(Payloads)
        /\ cut \in BOOLEAN /\ TRUE \in BOOLEAN
    BY AppendProperties DEF TypeOK
  <2>b. sent' \in {sent, Append(sent, p)} /\ cut' \in {cut, TRUE}
    <3>1. CASE PeerSend(p)
      BY <3>1, Zenon DEF PeerSend
    <3>2. CASE PeerSendAfterCut(p)
      BY <3>2, Zenon DEF PeerSendAfterCut
    <3> QED BY <1>5, <3>1, <3>2
  <2>4. sent' \in Seq(Payloads) /\ cut' \in BOOLEAN
    BY <2>a, <2>b, Zenon
  <2>5. UNCHANGED <<conn, store, link, told>>
    BY <1>5 DEF PeerSend, PeerSendAfterCut
  <2> QED BY <2>3, <2>4, <2>5 DEF TypeOK
<1> QED BY <1>1, <1>2, <1>3, <1>4, <1>5 DEF Network

\* Every step keeps TypeOK.
LEMMA TypeNext == TypeOK /\ [Next]_vars => TypeOK'
<1> SUFFICES ASSUME TypeOK, [Next]_vars PROVE TypeOK'
  OBVIOUS
<1>1. CASE Tick
  BY <1>1, SizeAssumption DEF Tick, Least, TypeOK, net, told
<1>2. CASE UNCHANGED vars
  BY <1>2 DEF vars, conn, store, net, told, TypeOK
<1> QED
  BY <1>1, <1>2, TypeApplication, TypeCacheData, TypeReadData, TypeStateThread,
     TypeNetwork DEF Next

\* Every reachable state of a session is well typed.
THEOREM Typing == Spec => []TypeOK
<1> QED BY TypeInit, TypeNext, PTL DEF Spec

-----------------------------------------------------------------------------
(***************************************************************************)
(* Resources and SeedPhase together are inductive: that nothing is received *)
(* into a NULL btCache needs the link to know of the cache, and that the   *)
(* seed is asked for once needs the state to agree with the flag.          *)
(***************************************************************************)
Held == Resources /\ SeedPhase

\* A new session holds nothing.
LEMMA HeldInit == Init => Held
<1> QED
  BY SizeAssumption, CellAssumption, EmptySeq DEF Init, Held, Resources, SeedPhase

\* The calls that open and close a session keep Held.
LEMMA HeldApplication == TypeOK /\ Held /\ Application => Held'
<1> SUFFICES ASSUME TypeOK, Held, Application PROVE Held'
  OBVIOUS
<1> USE DEF Held, Resources, SeedPhase, store, net, told, NewHistory, Release
<1>0. Len(<<>>) < CacheSize /\ Len(<<>>) < Len(Seed)
  BY SizeAssumption, CellAssumption, EmptySeq, LenProperties
<1>1. CASE SionInit
  BY <1>0, <1>1 DEF SionInit
<1>2. CASE SionInitFails
  BY <1>2 DEF SionInitFails
<1>3. CASE Connect
  BY <1>0, <1>3 DEF Connect
<1>4. CASE Accept
  BY <1>0, <1>4 DEF Accept
<1>5. CASE SafeClose
  BY <1>0, <1>5 DEF SafeClose
<1>6. CASE Close
  BY <1>0, <1>6 DEF Close
<1> QED BY <1>1, <1>2, <1>3, <1>4, <1>5, <1>6 DEF Application

\* zhSionCacheData keeps Held: a chunk is stored only where it fits.
LEMMA HeldCacheData == TypeOK /\ Held /\ CacheData => Held'
<1> SUFFICES ASSUME TypeOK, Held, CacheData PROVE Held'
  OBVIOUS
<1> USE DEF Held, Resources, SeedPhase, conn, store, net
<1>1. CASE CacheNoSocket
  BY <1>1 DEF CacheNoSocket
<1>2. CASE CacheNothing
  BY <1>2 DEF CacheNothing
<1>3. CASE CacheRecvFails
  BY <1>3 DEF CacheRecvFails
<1>4. CASE CacheRecv
  <2>1. PICK n \in 1 .. Least(ChunkMax, Len(wire)) :
          \/ CacheOverflows(n) \/ CacheAppends(n)
          \/ CacheSeedPart(n) \/ CacheSeedDone(n)
    BY <1>4 DEF CacheRecv
  <2>2. n \in Nat \ {0} /\ cache \o SubSeq(wire, 1, n) \in Seq(Byte)
        /\ Len(cache \o SubSeq(wire, 1, n)) = Len(cache) + n
    BY <2>1, Chunk
  <2>3. /\ buf /\ sock /\ cState # "Zero" /\ link \in {"open", "closed"}
        /\ UNCHANGED <<sock, buf, recvBuf, link>>
    BY <1>4 DEF CacheRecv
  <2>4. Len(cache) \in Nat /\ Len(Seed) \in Nat \ {0}
    BY CellAssumption, LenProperties DEF TypeOK
  <2>5. CASE CacheOverflows(n)
    BY <2>3, <2>4, <2>5, SizeAssumption, EmptySeq DEF CacheOverflows
  <2>6. CASE CacheAppends(n)
    BY <2>2, <2>3, <2>6 DEF CacheAppends
  <2>7. CASE CacheSeedPart(n)
    BY <2>2, <2>3, <2>7 DEF CacheSeedPart
  <2>8. CASE CacheSeedDone(n)
    <3>1. Len(cache) + n - Len(Seed) \in 0 .. Len(cache \o SubSeq(wire, 1, n))
      BY <2>2, <2>4, <2>8 DEF CacheSeedDone
    <3>a. \A k \in 0 .. Len(cache \o SubSeq(wire, 1, n)) :
            Len(SubSeq(cache \o SubSeq(wire, 1, n), 1, k)) = k
      BY <2>2, PartOfSeq
    <3>2. Len(cache') = Len(cache) + n - Len(Seed)
      BY <2>8, <3>1, <3>a DEF CacheSeedDone
    <3>3. Len(cache') < CacheSize
      BY <2>4, <2>8, <3>2, SizeAssumption DEF CacheSeedDone
    <3>4. seedGot' /\ cState' = "Connecting" /\ cState # "Zero"
      BY <2>3, <2>8 DEF CacheSeedDone
    <3>5. wire' # <<>> => link' \in {"open", "closed"}
      BY <2>3
    <3> QED BY <2>3, <3>3, <3>4, <3>5
  <2> QED BY <2>1, <2>5, <2>6, <2>7, <2>8
<1> QED BY <1>1, <1>2, <1>3, <1>4 DEF CacheData

(***************************************************************************)
(* zhSionReadData only shortens the cache, and never touches it when it    *)
(* is empty.                                                               *)
(***************************************************************************)
LEMMA ReadConsumes ==
  TypeOK /\ ReadData =>
    /\ Len(cache') \in Nat /\ Len(cache') <= Len(cache)
    /\ ret' = -1 => Len(cache') < Len(cache)
    /\ cache' # <<>> \/ (recvBuf' /\ ~recvBuf) => cache # <<>>
    /\ UNCHANGED <<conn, net>>
<1> SUFFICES ASSUME TypeOK, ReadData
             PROVE  /\ Len(cache') \in Nat /\ Len(cache') <= Len(cache)
                    /\ ret' = -1 => Len(cache') < Len(cache)
                    /\ cache' # <<>> \/ (recvBuf' /\ ~recvBuf) => cache # <<>>
                    /\ UNCHANGED <<conn, net>>
  OBVIOUS
<1> USE DEF Returns
<1>0. cache \in Seq(Byte) /\ Len(cache) \in Nat /\ Len(<<>>) = 0
  BY EmptySeq, LenProperties DEF TypeOK
<1>1. CASE ReadOverdue
  BY <1>0, <1>1 DEF ReadOverdue, Overdue
<1>2. CASE ReadShort
  BY <1>0, <1>2 DEF ReadShort, store
<1>3. CASE ReadResync
  <2>1. PICK k \in StackScan(cache) : cache' = Suffix(cache, k)
    BY <1>3 DEF ReadResync
  <2>2. k \in 1 .. Len(cache)
    BY <2>1 DEF StackScan
  <2>3. cache # <<>> /\ Len(cache') = Len(cache) - k
    BY <1>0, <2>1, <2>2, SuffixOfSeq
  <2> QED BY <1>0, <1>3, <2>2, <2>3 DEF ReadResync
<1>4. CASE ReadIncomplete
  <2>1. cache # <<>>
    BY <1>0, <1>4 DEF ReadIncomplete, Framed, Whole, HeaderLen
  <2> QED BY <1>0, <1>4, <2>1 DEF ReadIncomplete
<1>a. ASSUME Complete
      PROVE  cache # <<>> /\ FrameEnd \in 1 .. Len(cache) /\ BodyLen \in Nat
  <2>1. Len(cache) >= HeaderLen
    BY <1>a DEF Complete, Framed, Whole
  <2>2. cache \in [1 .. Len(cache) -> Byte] /\ 2 \in 1 .. Len(cache)
    BY <1>0, <2>1, LenProperties DEF HeaderLen
  <2>3. BodyLen \in Byte
    BY <2>2 DEF BodyLen
  <2>4. BodyLen \in Nat
    BY <2>3, CellAssumption
  <2> QED BY <1>0, <1>a, <2>1, <2>4 DEF Complete, FrameEnd, HeaderLen
<1>5. CASE ReadBadCrc
  <2>1. PICK k \in CacheScan(cache) : cache' = Suffix(cache, k)
    BY <1>5 DEF ReadBadCrc
  <2>2. k \in 1 .. Len(cache)
    BY <2>1 DEF CacheScan
  <2>3. cache # <<>> /\ Len(cache') = Len(cache) - k
    BY <1>0, <2>1, <2>2, SuffixOfSeq
  <2> QED BY <1>0, <1>5, <2>2, <2>3 DEF ReadBadCrc
<1>6. CASE ReadTooBig
  <2>1. cache # <<>> /\ Len(cache) >= 1
    BY <1>0, <1>6, <1>a DEF ReadTooBig
  <2> QED BY <1>0, <1>6, <2>1 DEF ReadTooBig
<1>7. CASE ReadFrame
  <2>1. FrameEnd \in 1 .. Len(cache) /\ BodyLen \in Nat /\ cache # <<>>
    BY <1>7, <1>a DEF ReadFrame
  <2>2. cache' = Suffix(cache, FrameEnd)
    BY <1>7 DEF ReadFrame
  <2>3. Len(cache') = Len(cache) - FrameEnd
    BY <1>0, <2>1, <2>2, SuffixOfSeq
  <2>4. ret' # -1
    BY <1>7, <2>1 DEF ReadFrame
  <2>5. UNCHANGED <<conn, net>>
    BY <1>7 DEF ReadFrame
  <2> QED BY <1>0, <2>1, <2>3, <2>4, <2>5
<1> QED
  BY <1>1, <1>2, <1>3, <1>4, <1>5, <1>6, <1>7 DEF ReadData

\* Every step keeps Held.
LEMMA HeldNext == TypeOK /\ Held /\ [Next]_vars => Held'
<1> SUFFICES ASSUME TypeOK, Held, [Next]_vars PROVE Held'
  OBVIOUS
<1> USE DEF Held, Resources, SeedPhase
<1>1. CASE ReadData
  <2>1. /\ Len(cache') \in Nat /\ Len(cache') <= Len(cache) /\ Len(cache) \in Nat
        /\ cache' # <<>> \/ (recvBuf' /\ ~recvBuf) => cache # <<>>
        /\ UNCHANGED <<conn, net>>
    BY <1>1, ReadConsumes, LenProperties DEF TypeOK
  <2>2. Len(cache') < CacheSize /\ (Len(cache) < Len(Seed) => Len(cache') < Len(Seed))
    BY <2>1, SizeAssumption, CellAssumption, LenProperties
  <2>3. cache' # <<>> \/ recvBuf' => buf'
    BY <2>1 DEF conn
  <2> QED BY <2>1, <2>2, <2>3 DEF conn, net
<1>2. CASE StateThread
  <2> USE DEF store, net
  <2>1. CASE StateTimeout
    BY <2>1 DEF StateTimeout
  <2>2. CASE StateConnected
    BY <2>2 DEF StateConnected
  <2>3. CASE StateDisconnect
    BY <2>3, SizeAssumption, CellAssumption, EmptySeq, LenProperties
       DEF StateDisconnect, Release
  <2> QED BY <1>2, <2>1, <2>2, <2>3 DEF StateThread
<1>3. CASE Network
  <2> USE DEF conn, store, told
  <2>1. CASE PeerAccept
    BY <2>1 DEF PeerAccept
  <2>2. CASE PeerRefuse
    BY <2>2 DEF PeerRefuse
  <2>3. CASE PeerClose
    BY <2>3 DEF PeerClose
  <2>4. CASE PeerReset
    BY <2>4 DEF PeerReset
  <2>5. ASSUME NEW p \in Payloads, PeerSend(p) \/ PeerSendAfterCut(p)
        PROVE  Held'
    <3>1. link = "open" /\ UNCHANGED <<conn, store, link>>
      BY <2>5 DEF PeerSend, PeerSendAfterCut
    <3> QED BY <3>1
  <2> QED BY <1>3, <2>1, <2>2, <2>3, <2>4, <2>5 DEF Network
<1>4. CASE Tick
  BY <1>4 DEF Tick, net
<1>5. CASE UNCHANGED vars
  BY <1>5 DEF vars, conn, store, net
<1> QED
  BY <1>1, <1>2, <1>3, <1>4, <1>5, HeldApplication, HeldCacheData DEF Next

\* A session never holds a cache without its socket nor data without a cache,
\* and nothing can arrive for a session whose btCache is NULL.
THEOREM ResourcesHeld == Spec => []Resources
<1>1. Spec => []Held
  BY Typing, HeldInit, HeldNext, PTL DEF Spec
<1>2. Held => Resources
  BY DEF Held
<1> QED BY <1>1, <1>2, PTL

\* Whether the seed was taken always agrees with the state of the session.
THEOREM SeedTakenOnce == Spec => []SeedPhase
<1>1. Spec => []Held
  BY Typing, HeldInit, HeldNext, PTL DEF Spec
<1>2. Held => SeedPhase
  BY DEF Held
<1> QED BY <1>1, <1>2, PTL

\* zhSionReadData consumes something whenever it returns an error.
THEOREM ReadLoopShrinks == Spec => ReadShrinks
<1>1. TypeOK /\ [Next]_vars
        => [ReadData /\ ret' = -1 => Len(cache') < Len(cache)]_vars
  BY ReadConsumes
<1> QED BY <1>1, Typing, PTL DEF Spec, ReadShrinks

-----------------------------------------------------------------------------
(***************************************************************************)
(* The order of events.  EventOrder is inductive once the state is tied to *)
(* what has been reported.                                                 *)
(***************************************************************************)
Reported(e) == \E i \in DOMAIN events : events[i] = e

EventState ==
  /\ \A i, j \in DOMAIN events : events[i] = events[j] => i = j
  /\ \A i \in DOMAIN events : events[i] = "Disconnect" => i = Len(events)
  /\ cState = "Initizal" => events = <<>>
  /\ Reported("Disconnect") => cState = "Zero"
  /\ Reported("ConnectTimeout") => cState # "WaitSeed"
  /\ Reported("Connected") => seedGot /\ cState \notin {"WaitSeed", "Connecting"}

\* A new connection starts without events.
LEMMA NoEvents ==
  ASSUME events' = <<>>
  PROVE  EventState'
<1>1. DOMAIN events' = {}
  BY EmptySeq
<1> QED BY <1>1 DEF EventState, Reported

\* Steps that report nothing.
LEMMA SameEvents ==
  ASSUME TypeOK, EventState, events' = events, seedGot => seedGot',
         \/ cState' = cState
         \/ cState' = "Zero"
         \/ cState' = "Dead" /\ cState # "Zero"
         \/ cState' = "Connecting" /\ cState # "Zero" /\ ~seedGot
  PROVE  EventState'
<1>1. \A e : Reported(e)' <=> Reported(e)
  BY DEF Reported
<1>2. cState' = "Initizal" => cState = "Initizal"
  OBVIOUS
<1>3. Reported("Disconnect")' => cState' = "Zero"
  BY <1>1 DEF EventState
<1>4. Reported("ConnectTimeout")' => cState' # "WaitSeed"
  BY <1>1 DEF EventState
<1>5. Reported("Connected")' => seedGot' /\ cState' \notin {"WaitSeed", "Connecting"}
  BY <1>1 DEF EventState
<1> QED BY <1>2, <1>3, <1>4, <1>5 DEF EventState

\* A step that reports one new event.
LEMMA NewEvent ==
  ASSUME TypeOK, EventState, NEW e \in Events, events' = Append(events, e),
         ~Reported(e), ~Reported("Disconnect")
  PROVE  /\ \A i, j \in DOMAIN events' : events'[i] = events'[j] => i = j
         /\ \A i \in DOMAIN events' : events'[i] = "Disconnect" => i = Len(events')
         /\ \A f : Reported(f)' <=> (Reported(f) \/ f = e)
<1>1. /\ events \in Seq(Events) /\ DOMAIN events = 1 .. Len(events)
      /\ Len(events) \in Nat
  BY LenProperties DEF TypeOK
<1>2. /\ events' \in Seq(Events) /\ Len(events') = Len(events) + 1
      /\ \A i \in 1 .. Len(events) : events'[i] = events[i]
      /\ events'[Len(events) + 1] = e
  BY <1>1, AppendProperties
<1>3. DOMAIN events' = 1 .. Len(events) + 1
  BY <1>2, LenProperties
<1>4. \A i \in 1 .. Len(events) : events'[i] # e /\ events'[i] # "Disconnect"
  BY <1>1, <1>2 DEF Reported
<1>5. \A i \in DOMAIN events' : i \in 1 .. Len(events) \/ i = Len(events) + 1
  BY <1>1, <1>3
<1>6. \A i, j \in DOMAIN events' : events'[i] = events'[j] => i = j
  BY <1>1, <1>2, <1>4, <1>5 DEF EventState
<1>7. \A i \in DOMAIN events' : events'[i] = "Disconnect" => i = Len(events')
  BY <1>2, <1>4, <1>5
<1>8. ASSUME NEW f
      PROVE  Reported(f)' <=> (Reported(f) \/ f = e)
  <2>1. Reported(f)' => Reported(f) \/ f = e
    BY <1>1, <1>2, <1>5 DEF Reported
  <2>2. Reported(f) => Reported(f)'
    BY <1>1, <1>2, <1>3 DEF Reported
  <2>3. f = e => Reported(f)'
    BY <1>1, <1>2, <1>3 DEF Reported
  <2> QED BY <2>1, <2>2, <2>3
<1> QED BY <1>6, <1>7, <1>8

\* Every step keeps EventState: an event changes the state it is reported in.
LEMMA EventStateNext ==
  TypeOK /\ Held /\ EventState /\ [Next]_vars => EventState'
<1> SUFFICES ASSUME TypeOK, Held, EventState, [Next]_vars PROVE EventState'
  OBVIOUS
<1> USE DEF store, net, told, conn
<1>1. CASE Application
  <2>1. CASE SionInit \/ Accept
    BY <2>1, NoEvents DEF SionInit, Accept, NewHistory
  <2>2. CASE SionInitFails
    BY <2>2, SameEvents DEF SionInitFails
  <2>3. CASE Connect
    <3>1. events' = <<>>
      BY <2>3 DEF Connect, EventState
    <3> QED BY <3>1, NoEvents
  <2>4. CASE SafeClose \/ Close
    BY <2>4, SameEvents DEF SafeClose, Close
  <2> QED BY <1>1, <2>1, <2>2, <2>3, <2>4 DEF Application
<1>2. CASE CacheData
  <2>1. CASE CacheNoSocket \/ CacheNothing
    BY <2>1, SameEvents DEF CacheNoSocket, CacheNothing
  <2>2. CASE CacheRecvFails
    BY <2>2, SameEvents DEF CacheRecvFails
  <2>3. CASE CacheRecv
    <3>1. cState # "Zero" /\ events' = events
      BY <2>3 DEF CacheRecv, Held, Resources
    <3>2. PICK n \in 1 .. Least(ChunkMax, Len(wire)) :
            \/ CacheOverflows(n) \/ CacheAppends(n)
            \/ CacheSeedPart(n) \/ CacheSeedDone(n)
      BY <2>3 DEF CacheRecv
    <3>3. \/ UNCHANGED <<cState, seedGot>>
          \/ ~seedGot /\ seedGot' /\ cState' = "Connecting"
      BY <3>2 DEF CacheOverflows, CacheAppends, CacheSeedPart, CacheSeedDone
    <3> QED BY <3>1, <3>3, SameEvents
  <2> QED BY <1>2, <2>1, <2>2, <2>3 DEF CacheData
<1>3. CASE ReadData
  <2>1. UNCHANGED <<conn, events>>
    BY <1>3 DEF ReadData, ReadOverdue, ReadShort, ReadResync, ReadIncomplete,
                ReadBadCrc, ReadTooBig, ReadFrame
  <2> QED BY <2>1, SameEvents
<1>4. CASE StateThread
  <2>1. CASE StateTimeout
    <3>1. ~Reported("ConnectTimeout") /\ ~Reported("Disconnect") /\ ~Reported("Connected")
      BY <2>1 DEF StateTimeout, EventState
    <3>2. events' = Append(events, "ConnectTimeout") /\ "ConnectTimeout" \in Events
      BY <2>1 DEF StateTimeout, Events
    <3>3. /\ \A i, j \in DOMAIN events' : events'[i] = events'[j] => i = j
          /\ \A i \in DOMAIN events' : events'[i] = "Disconnect" => i = Len(events')
          /\ \A f : Reported(f)' <=> (Reported(f) \/ f = "ConnectTimeout")
      BY <3>1, <3>2, NewEvent
    <3>4. cState' = "Dead"
      BY <2>1 DEF StateTimeout
    <3> QED BY <3>1, <3>3, <3>4 DEF EventState
  <2>2. CASE StateConnected
    <3>1. ~Reported("Connected") /\ ~Reported("Disconnect") /\ seedGot'
      BY <2>2 DEF StateConnected, EventState, Held, SeedPhase
    <3>2. events' = Append(events, "Connected") /\ "Connected" \in Events
      BY <2>2 DEF StateConnected, Events
    <3>3. /\ \A i, j \in DOMAIN events' : events'[i] = events'[j] => i = j
          /\ \A i \in DOMAIN events' : events'[i] = "Disconnect" => i = Len(events')
          /\ \A f : Reported(f)' <=> (Reported(f) \/ f = "Connected")
      BY <3>1, <3>2, NewEvent
    <3>4. cState' = "Connected"
      BY <2>2 DEF StateConnected
    <3> QED BY <3>1, <3>3, <3>4 DEF EventState
  <2>3. CASE StateDisconnect
    <3>1. ~Reported("Disconnect") /\ seedGot' = seedGot
      BY <2>3 DEF StateDisconnect, EventState
    <3>2. events' = Append(events, "Disconnect") /\ "Disconnect" \in Events
      BY <2>3 DEF StateDisconnect, Events
    <3>3. /\ \A i, j \in DOMAIN events' : events'[i] = events'[j] => i = j
          /\ \A i \in DOMAIN events' : events'[i] = "Disconnect" => i = Len(events')
          /\ \A f : Reported(f)' <=> (Reported(f) \/ f = "Disconnect")
      BY <3>1, <3>2, NewEvent
    <3>4. cState' = "Zero"
      BY <2>3 DEF StateDisconnect
    <3>5. Reported("Connected")' => seedGot'
      BY <3>1, <3>3 DEF EventState
    <3> QED BY <3>3, <3>4, <3>5 DEF EventState
  <2> QED BY <1>4, <2>1, <2>2, <2>3 DEF StateThread
<1>5. CASE Network \/ Tick \/ UNCHANGED vars
  <2>1. UNCHANGED <<cState, seedGot, events>>
    BY <1>5 DEF Network, PeerAccept, PeerRefuse, PeerClose, PeerReset, PeerSend,
                PeerSendAfterCut, Tick, vars
  <2> QED BY <2>1, SameEvents
<1> QED BY <1>1, <1>2, <1>3, <1>4, <1>5 DEF Next

\* The application hears each event of a connection at most once, Disconnect
\* last and only when everything is released, and Connected only of a
\* session that has its seed.
THEOREM EventsInOrder == Spec => []EventOrder
<1>1. Init => EventState
  <2> SUFFICES ASSUME Init PROVE EventState
    OBVIOUS
  <2>1. DOMAIN events = {} /\ events = <<>>
    BY EmptySeq DEF Init
  <2> QED BY <2>1 DEF EventState, Reported
<1>2. Spec => [](TypeOK /\ Held /\ EventState)
  BY <1>1, Typing, HeldInit, HeldNext, EventStateNext, PTL DEF Spec
<1>3. Held /\ EventState => EventOrder
  BY DEF Held, Resources, EventState, Reported, EventOrder
<1> QED BY <1>2, <1>3, PTL

-----------------------------------------------------------------------------
(***************************************************************************)
(* The packets that are not empty.  NonEmpty goes through a sequence by a  *)
(* recursive function; what it computes is shown by induction on the place *)
(* in the sequence.                                                        *)
(***************************************************************************)

\* Induction on a set of numbers.
LEMMA AllNumbers ==
  ASSUME NEW T, 0 \in T, \A n \in Nat : n \in T => n + 1 \in T
  PROVE  Nat \subseteq T
<1> SUFFICES ASSUME ~(Nat \subseteq T) PROVE FALSE
  OBVIOUS
<1> DEFINE Missing == Nat \ T
<1>1. IsWellFoundedOn(OpToRel(<, Nat), Nat) /\ Missing \subseteq Nat /\ Missing # {}
  BY NatLessThanWellFounded
<1>2. PICK x \in Missing : \A y \in Missing : ~(<<y, x>> \in OpToRel(<, Nat))
  <2> HIDE DEF Missing
  <2> QED BY <1>1, WFMin
<1>3. x \in Nat /\ x \notin T /\ \A y \in Nat : y < x => y \in T
  BY <1>2 DEF OpToRel
<1>4. x # 0 /\ x - 1 \in Nat /\ x - 1 < x
  BY <1>3
<1> QED BY <1>3, <1>4

\* f has kept the packets of the first n.
KeptBy(s, n, f) ==
  f = [i \in 0 .. n |-> IF i = 0 THEN <<>>
                        ELSE IF s[i] = <<>> THEN f[i - 1] ELSE Append(f[i - 1], s[i])]

\* Of none it has kept none.
LEMMA KeptFirst ==
  ASSUME NEW s, NEW n \in Nat, NEW f, KeptBy(s, n, f)
  PROVE  f[0] = <<>>
<1>1. 0 \in 0 .. n
  OBVIOUS
<1> QED BY <1>1 DEF KeptBy

\* Of one more it has kept one more, unless that is empty.
LEMMA KeptNext ==
  ASSUME NEW s, NEW n \in Nat, NEW f, KeptBy(s, n, f), NEW i \in 1 .. n
  PROVE  f[i] = IF s[i] = <<>> THEN f[i - 1] ELSE Append(f[i - 1], s[i])
<1>1. i \in 0 .. n /\ i # 0
  OBVIOUS
<1> QED BY <1>1 DEF KeptBy

\* There is such an f.
LEMMA KeptExists ==
  ASSUME NEW s, NEW n \in Nat
  PROVE  \E f : KeptBy(s, n, f)
<1> DEFINE T == {j \in Nat : \E f : KeptBy(s, j, f)}
<1>1. 0 \in T
  <2> DEFINE f == [i \in 0 .. 0 |-> <<>>]
  <2>1. f = [i \in 0 .. 0 |-> IF i = 0 THEN <<>>
                              ELSE IF s[i] = <<>> THEN f[i - 1] ELSE Append(f[i - 1], s[i])]
    OBVIOUS
  <2>2. KeptBy(s, 0, f)
    BY <2>1 DEF KeptBy
  <2> QED BY <2>2
<1>2. ASSUME NEW j \in Nat, j \in T PROVE j + 1 \in T
  <2>1. PICK f : KeptBy(s, j, f)
    BY <1>2
  <2> DEFINE last == IF s[j + 1] = <<>> THEN f[j] ELSE Append(f[j], s[j + 1])
             g == [i \in 0 .. j + 1 |-> IF i = j + 1 THEN last ELSE f[i]]
             h == [i \in 0 .. j + 1 |->
                     IF i = 0 THEN <<>>
                     ELSE IF s[i] = <<>> THEN g[i - 1] ELSE Append(g[i - 1], s[i])]
  <2>2. \A i \in 0 .. j : g[i] = f[i]
    OBVIOUS
  <2>3. ASSUME NEW i \in 0 .. j + 1 PROVE g[i] = h[i]
    <3>1. CASE i = 0
      <4>1. g[0] = f[0] /\ f[0] = <<>> /\ h[0] = <<>>
        <5>1. 0 \in 0 .. j /\ 0 \in 0 .. j + 1
          OBVIOUS
        <5>2. f[0] = <<>>
          BY <2>1, KeptFirst
        <5> QED BY <2>2, <5>1, <5>2
      <4> QED BY <3>1, <4>1
    <3>2. CASE i \in 1 .. j
      <4>1. g[i] = f[i] /\ g[i - 1] = f[i - 1]
        BY <2>2, <3>2
      <4>2. f[i] = IF s[i] = <<>> THEN f[i - 1] ELSE Append(f[i - 1], s[i])
        BY <2>1, <3>2, KeptNext
      <4>3. h[i] = IF s[i] = <<>> THEN g[i - 1] ELSE Append(g[i - 1], s[i])
        BY <3>2
      <4> HIDE DEF g, h
      <4> QED BY <4>1, <4>2, <4>3
    <3>3. CASE i = j + 1
      <4>1. g[i] = last /\ i - 1 = j /\ g[j] = f[j]
        BY <3>3
      <4>2. h[i] = IF s[i] = <<>> THEN g[i - 1] ELSE Append(g[i - 1], s[i])
        BY <3>3
      <4> HIDE DEF g, h
      <4> QED BY <3>3, <4>1, <4>2
    <3> QED BY <3>1, <3>2, <3>3
  <2>4. g = h
    <3>1. g = [i \in 0 .. j + 1 |-> g[i]] /\ h = [i \in 0 .. j + 1 |-> h[i]]
      OBVIOUS
    <3> HIDE DEF g, h
    <3> QED BY <2>3, <3>1
  <2>5. KeptBy(s, j + 1, g)
    <3> HIDE DEF g
    <3> QED BY <2>4 DEF KeptBy
  <2> QED BY <2>5
<1> HIDE DEF T
<1>3. Nat \subseteq T
  BY <1>1, <1>2, AllNumbers
<1> QED BY <1>3 DEF T

\* What is kept of the first k depends on the first k alone.
LEMMA KeptAgree ==
  ASSUME NEW s, NEW n \in Nat, NEW f, KeptBy(s, n, f),
         NEW t, NEW m \in Nat, NEW g, KeptBy(t, m, g),
         NEW k \in Nat, k <= n, k <= m, \A i \in 1 .. k : s[i] = t[i]
  PROVE  f[k] = g[k]
<1> DEFINE T == {j \in Nat : j <= k => f[j] = g[j]}
<1>1. 0 \in T
  BY KeptFirst
<1>2. ASSUME NEW j \in Nat, j \in T PROVE j + 1 \in T
  <2> SUFFICES ASSUME j + 1 <= k PROVE f[j + 1] = g[j + 1]
    OBVIOUS
  <2> DEFINE i == j + 1
  <2>1. i \in 1 .. n /\ i \in 1 .. m /\ i \in 1 .. k /\ i - 1 = j /\ f[j] = g[j]
    BY <1>2
  <2> HIDE DEF i
  <2>2. /\ f[i] = IF s[i] = <<>> THEN f[i - 1] ELSE Append(f[i - 1], s[i])
        /\ g[i] = IF t[i] = <<>> THEN g[i - 1] ELSE Append(g[i - 1], t[i])
    BY <2>1, KeptNext
  <2>3. f[i] = g[i]
    BY <2>1, <2>2
  <2> QED BY <2>3 DEF i
<1> HIDE DEF T
<1>3. Nat \subseteq T
  BY <1>1, <1>2, AllNumbers
<1> QED BY <1>3 DEF T

\* NonEmpty is what any such f has kept in the end.
LEMMA NonEmptyIs ==
  ASSUME NEW s, Len(s) \in Nat, NEW f, KeptBy(s, Len(s), f)
  PROVE  NonEmpty(s) = f[Len(s)]
<1> DEFINE g == CHOOSE h : KeptBy(s, Len(s), h)
<1>1. NonEmpty(s) = g[Len(s)]
  BY DEF NonEmpty, KeptBy
<1>2. KeptBy(s, Len(s), g)
  BY KeptExists
<1> HIDE DEF g
<1>3. g[Len(s)] = f[Len(s)]
  BY <1>2, KeptAgree
<1> QED BY <1>1, <1>3

\* Nothing is kept of nothing.
LEMMA NonEmptyNone == NonEmpty(<<>>) = <<>>
<1> DEFINE s == <<>>
<1>1. Len(s) = 0
  OBVIOUS
<1>2. PICK f : KeptBy(s, Len(s), f)
  BY <1>1, KeptExists
<1> HIDE DEF s
<1>3. NonEmpty(s) = f[0] /\ f[0] = <<>>
  BY <1>1, <1>2, NonEmptyIs, KeptFirst
<1> QED BY <1>3 DEF s

\* One packet more.
LEMMA NonEmptyMore ==
  ASSUME NEW T, NEW s \in Seq(T), NEW x \in T
  PROVE  NonEmpty(Append(s, x)) = IF x = <<>> THEN NonEmpty(s) ELSE Append(NonEmpty(s), x)
<1> DEFINE t == Append(s, x)
           n == Len(s)
<1>1. /\ n \in Nat /\ Len(t) = n + 1 /\ Len(t) \in Nat /\ t[n + 1] = x
      /\ \A i \in 1 .. n : t[i] = s[i]
  BY AppendProperties, LenProperties
<1> HIDE DEF t
<1>2. PICK f : KeptBy(s, n, f)
  BY <1>1, KeptExists
<1>3. PICK g : KeptBy(t, Len(t), g)
  BY <1>1, KeptExists
<1>4. NonEmpty(s) = f[n]
  BY <1>1, <1>2, NonEmptyIs
<1>5. NonEmpty(t) = g[n + 1]
  <2>1. NonEmpty(t) = g[Len(t)]
    BY <1>1, <1>3, NonEmptyIs
  <2> QED BY <1>1, <2>1
<1>6. g[n] = f[n]
  <2>1. n <= n /\ n <= Len(t) /\ \A i \in 1 .. n : t[i] = s[i]
    BY <1>1
  <2> HIDE DEF n
  <2> QED BY <1>1, <1>2, <1>3, <2>1, KeptAgree
<1>7. g[n + 1] = IF t[n + 1] = <<>> THEN g[n] ELSE Append(g[n], t[n + 1])
  <2> DEFINE i == n + 1
  <2>1. i \in 1 .. Len(t) /\ i - 1 = n
    BY <1>1
  <2> HIDE DEF i, n
  <2>2. g[i] = IF t[i] = <<>> THEN g[i - 1] ELSE Append(g[i - 1], t[i])
    BY <1>1, <1>3, <2>1, KeptNext
  <2> QED BY <2>1, <2>2 DEF i
<1> QED BY <1>1, <1>4, <1>5, <1>6, <1>7 DEF t

\* A sequence that agrees with a longer one is its beginning.
LEMMA PrefixOf ==
  ASSUME NEW S, NEW s \in Seq(S), NEW t \in Seq(S), Len(s) <= Len(t),
         \A i \in 1 .. Len(s) : s[i] = t[i]
  PROVE  IsPrefix(s, t) /\ SubSeq(t, 1, Len(s)) = s
<1>1. Len(s) \in Nat /\ Len(t) \in Nat
  BY LenProperties
<1>2. SubSeq(s, 1, Len(s)) = s
  BY <1>1, SubSeqProperties
<1>3. SubSeq(t, 1, Len(s)) = s
  <2>1. /\ SubSeq(t, 1, Len(s)) \in Seq(S) /\ Len(SubSeq(t, 1, Len(s))) = Len(s)
        /\ \A i \in 1 .. Len(s) : SubSeq(t, 1, Len(s))[i] = t[1 + i - 1]
    BY <1>1, SubSeqProperties
  <2> DEFINE u == SubSeq(t, 1, Len(s))
  <2>2. \A i \in 1 .. Len(s) : u[i] = s[i]
    BY <1>1, <2>1
  <2> HIDE DEF u
  <2>3. u \in Seq(S) /\ Len(u) = Len(s)
    BY <2>1 DEF u
  <2>4. u = s
    BY <2>2, <2>3, SeqEqual
  <2> QED BY <2>4 DEF u
<1> QED BY <1>2, <1>3 DEF IsPrefix

\* What is kept are packets.
LEMMA KeptTyped ==
  ASSUME NEW T, NEW s \in Seq(T), NEW f, KeptBy(s, Len(s), f), NEW k \in 0 .. Len(s)
  PROVE  f[k] \in Seq(T)
<1> DEFINE n == Len(s)
           S == {j \in Nat : j <= n => f[j] \in Seq(T)}
<1>1. n \in Nat /\ \A i \in 1 .. n : s[i] \in T
  BY LenProperties, ElementOfSeq
<1>2. 0 \in S
  <2>1. f[0] = <<>>
    <3> HIDE DEF n
    <3> QED BY <1>1, KeptFirst DEF n
  <2>2. f[0] \in Seq(T)
    BY <2>1
  <2> QED BY <2>2
<1>3. ASSUME NEW j \in Nat, j \in S PROVE j + 1 \in S
  <2> SUFFICES ASSUME j + 1 <= n PROVE f[j + 1] \in Seq(T)
    OBVIOUS
  <2> DEFINE i == j + 1
  <2>1. i \in 1 .. n /\ i - 1 = j /\ f[j] \in Seq(T) /\ s[i] \in T
    BY <1>1, <1>3
  <2> HIDE DEF i
  <2>2. f[i] = IF s[i] = <<>> THEN f[i - 1] ELSE Append(f[i - 1], s[i])
    BY <1>1, <2>1, KeptNext
  <2>3. Append(f[j], s[i]) \in Seq(T)
    BY <2>1, AppendProperties
  <2> QED BY <2>1, <2>2, <2>3 DEF i
<1> HIDE DEF S
<1>4. Nat \subseteq S
  BY <1>2, <1>3, AllNumbers
<1> QED BY <1>1, <1>4 DEF S

\* NonEmpty returns a sequence of packets.
LEMMA NonEmptyTyped ==
  ASSUME NEW T, NEW s \in Seq(T)
  PROVE  NonEmpty(s) \in Seq(T)
<1>1. Len(s) \in Nat /\ Len(s) \in 0 .. Len(s)
  BY LenProperties
<1>2. PICK f : KeptBy(s, Len(s), f)
  BY <1>1, KeptExists
<1>3. NonEmpty(s) = f[Len(s)]
  BY <1>1, <1>2, NonEmptyIs
<1>4. f[Len(s)] \in Seq(T)
  BY <1>1, <1>2, KeptTyped
<1> QED BY <1>3, <1>4

\* What is kept of a beginning is a beginning of what is kept.
LEMMA NonEmptyPrefix ==
  ASSUME NEW T, NEW s \in Seq(T), NEW k \in 0 .. Len(s)
  PROVE  IsPrefix(NonEmpty(SubSeq(s, 1, k)), NonEmpty(s))
<1> DEFINE n == Len(s)
           t == SubSeq(s, 1, k)
<1>1. /\ n \in Nat /\ k \in Nat /\ k <= n /\ Len(t) = k
      /\ \A i \in 1 .. k : t[i] = s[i]
  <2>1. n \in Nat
    BY LenProperties
  <2>2. /\ Len(t) = k /\ \A i \in 1 .. k : t[i] = s[1 + i - 1]
    BY <2>1, SubSeqProperties
  <2> HIDE DEF t
  <2> QED BY <2>1, <2>2
<1> HIDE DEF t
<1>2. PICK f : KeptBy(s, n, f)
  BY <1>1, KeptExists
<1>3. PICK g : KeptBy(t, Len(t), g)
  BY <1>1, KeptExists
<1>4. NonEmpty(s) = f[n] /\ NonEmpty(t) = f[k]
  <2>1. NonEmpty(s) = f[n]
    BY <1>1, <1>2, NonEmptyIs
  <2>2. NonEmpty(t) = g[Len(t)]
    BY <1>1, <1>3, NonEmptyIs
  <2>3. k <= Len(t) /\ k <= n /\ Len(t) \in Nat
    BY <1>1
  <2> HIDE DEF n
  <2>4. g[k] = f[k]
    BY <1>1, <1>2, <1>3, <2>3, KeptAgree
  <2> QED BY <1>1, <2>1, <2>2, <2>4
<1>5. \A j \in 0 .. n : f[j] \in Seq(T)
  BY <1>2, KeptTyped
<1> DEFINE a == f[k]
           S == {d \in Nat : k + d <= n => /\ Len(a) <= Len(f[k + d])
                                           /\ \A i \in 1 .. Len(a) : a[i] = f[k + d][i]}
<1>6. a \in Seq(T) /\ Len(a) \in Nat
  BY <1>5, LenProperties
<1>7. 0 \in S
  <2>1. k + 0 = k
    BY <1>1
  <2> QED BY <1>6, <2>1
<1>8. ASSUME NEW d \in Nat, d \in S PROVE d + 1 \in S
  <2> SUFFICES ASSUME k + (d + 1) <= n
               PROVE  /\ Len(a) <= Len(f[k + (d + 1)])
                      /\ \A i \in 1 .. Len(a) : a[i] = f[k + (d + 1)][i]
    OBVIOUS
  <2> DEFINE j == k + (d + 1)
             b == f[k + d]
  <2>1. j \in 1 .. n /\ j - 1 = k + d /\ k + d <= n /\ k + d \in 0 .. n
    BY <1>1
  <2>2. /\ Len(a) <= Len(b) /\ \A i \in 1 .. Len(a) : a[i] = b[i]
        /\ b \in Seq(T) /\ Len(b) \in Nat
    BY <1>5, <1>8, <2>1, LenProperties
  <2>3. f[j] = b \/ f[j] = Append(b, s[j])
    <3> HIDE DEF j, n
    <3>1. f[j] = IF s[j] = <<>> THEN f[j - 1] ELSE Append(f[j - 1], s[j])
      BY <1>1, <1>2, <2>1, KeptNext
    <3> QED BY <2>1, <3>1
  <2>4. s[j] \in T
    BY <1>1, <2>1, ElementOfSeq
  <2> HIDE DEF a, b, j
  <2>5. Len(Append(b, s[j])) = Len(b) + 1 /\ \A i \in 1 .. Len(b) : Append(b, s[j])[i] = b[i]
    BY <2>2, <2>4, AppendProperties
  <2>6. Len(a) <= Len(f[j]) /\ \A i \in 1 .. Len(a) : a[i] = f[j][i]
    BY <1>6, <2>2, <2>3, <2>5
  <2> QED BY <2>6 DEF j
<1> HIDE DEF S
<1>9. Nat \subseteq S
  BY <1>7, <1>8, AllNumbers
<1> DEFINE b == f[n]
<1>10. /\ Len(a) <= Len(b) /\ \A i \in 1 .. Len(a) : a[i] = b[i]
       /\ b \in Seq(T) /\ Len(b) \in Nat
  <2>1. n - k \in Nat /\ k + (n - k) = n /\ n \in 0 .. n
    BY <1>1
  <2>2. n - k \in S
    BY <1>9, <2>1
  <2> QED BY <1>5, <2>1, <2>2, LenProperties DEF S
<1> HIDE DEF a, b
<1>11. IsPrefix(a, b)
  BY <1>6, <1>10, PrefixOf
<1> QED BY <1>4, <1>11 DEF a, b, t

-----------------------------------------------------------------------------
(***************************************************************************)
(* The invariant behind InOrder.  all are the cells sent on the            *)
(* connection, the seed of a listener among them; the frame of the i-th    *)
(* packet lies between pos[i - 1] and pos[i].  k packets were read, and    *)
(* what has arrived and was not read are the cells of all from there on:   *)
(* all of them while nothing was thrown away.                              *)
(***************************************************************************)
Ahead == cache \o wire

SentIn(all, pos, ps) ==
  /\ all \in Seq(Byte) /\ pos[0] \in 0 .. Len(all) /\ pos[Len(ps)] = Len(all)
  /\ \A i \in 1 .. Len(ps) :
       /\ pos[i] \in 0 .. Len(all) /\ pos[i] = pos[i - 1] + Len(Encode(ps[i]))
       /\ \A j \in 1 .. Len(Encode(ps[i])) : all[pos[i - 1] + j] = Encode(ps[i])[j]

Continues(all, at, u) ==
  Len(u) <= Len(all) - at /\ \A x \in 1 .. Len(u) : u[x] = all[at + x]

\* Where reading goes on: no packet is read before the seed.
ReadFrom(pos, k) == IF seedGot THEN pos[k] ELSE 0

Reaches(all, pos, k) ==
  /\ SentIn(all, pos, sent) /\ k \in 0 .. Len(sent)
  /\ got = NonEmpty(SubSeq(sent, 1, k))
  /\ ~seedGot => k = 0 /\ pos[0] = Len(Seed)
  /\ Continues(all, ReadFrom(pos, k), Ahead)
  /\ link \in {"open", "closed"} => Len(Ahead) = Len(all) - ReadFrom(pos, k)

Delivered == ~cut /\ ~lost => \E all, pos, k : Reaches(all, pos, k)

\* Before the connection is there nothing was sent or received on it.
Fresh ==
  link = "pending" \/ (cState = "Initizal" /\ link = "none") =>
    sent = <<>> /\ got = <<>> /\ ~seedGot /\ cache = <<>>

Stream == Delivered /\ Fresh

\* What lies ahead is a stream of cells.
LEMMA AheadCells ==
  ASSUME NEW s \in Seq(Byte), NEW w \in Seq(Byte)
  PROVE  /\ s \o w \in Seq(Byte) /\ Len(s \o w) = Len(s) + Len(w)
         /\ Len(s) \in Nat /\ Len(w) \in Nat
         /\ \A x \in 1 .. Len(s) : (s \o w)[x] = s[x]
         /\ \A x \in 1 .. Len(w) : (s \o w)[Len(s) + x] = w[x]
<1>1. /\ Len(s) \in Nat /\ Len(w) \in Nat /\ s \o w \in Seq(Byte)
      /\ Len(s \o w) = Len(s) + Len(w)
      /\ \A i \in 1 .. Len(s) + Len(w) :
           (s \o w)[i] = IF i <= Len(s) THEN s[i] ELSE w[i - Len(s)]
  BY LenProperties, ConcatProperties
<1>2. ASSUME NEW x \in 1 .. Len(s) PROVE (s \o w)[x] = s[x]
  BY <1>1
<1>3. ASSUME NEW x \in 1 .. Len(w) PROVE (s \o w)[Len(s) + x] = w[x]
  <2>1. /\ Len(s) + x \in 1 .. Len(s) + Len(w) /\ ~(Len(s) + x <= Len(s))
        /\ (Len(s) + x) - Len(s) = x
    BY <1>1
  <2> QED BY <1>1, <2>1
<1> QED BY <1>1, <1>2, <1>3

\* The cells of a frame.
LEMMA EncodedCells ==
  ASSUME NEW p \in Payloads
  PROVE  /\ p \in Seq(Byte) /\ Len(p) \in Nat
         /\ Encode(p) \in Seq(Byte) /\ Len(Encode(p)) = HeaderLen + Len(p)
         /\ Encode(p)[1] = Flag /\ Encode(p)[2] = Len(p) /\ Encode(p)[3] = Crc(p)
         /\ \A j \in 1 .. Len(p) : Encode(p)[HeaderLen + j] = p[j]
<1> DEFINE head == <<Flag, Len(p), Crc(p)>>
           e == head \o p
<1>1. p \in Seq(Byte) /\ Flag \in Byte /\ Len(p) \in Byte /\ Crc(p) \in Byte /\ Len(p) \in Nat
  BY CellAssumption, LenProperties
<1>2. /\ head \in Seq(Byte) /\ Len(head) = 3
      /\ head[1] = Flag /\ head[2] = Len(p) /\ head[3] = Crc(p)
  BY <1>1
<1> HIDE DEF head
<1>3. /\ e \in Seq(Byte) /\ Len(e) = Len(head) + Len(p)
      /\ \A x \in 1 .. Len(head) : e[x] = head[x]
      /\ \A x \in 1 .. Len(p) : e[Len(head) + x] = p[x]
  BY <1>1, <1>2, AheadCells
<1>4. e[1] = Flag /\ e[2] = Len(p) /\ e[3] = Crc(p)
  <2>1. 1 \in 1 .. Len(head) /\ 2 \in 1 .. Len(head) /\ 3 \in 1 .. Len(head)
    BY <1>2
  <2> QED BY <1>2, <1>3, <2>1
<1>5. ASSUME NEW j \in 1 .. Len(p) PROVE e[3 + j] = p[j]
  BY <1>2, <1>3
<1>6. Encode(p) = e
  BY DEF Encode, head
<1> QED BY <1>1, <1>2, <1>3, <1>4, <1>5, <1>6 DEF HeaderLen

\* A step that loses no more than the end of what lies ahead.
LEMMA DeliveredLess ==
  ASSUME TypeOK, Delivered,
         UNCHANGED <<cut, lost, sent, got, seedGot>>,
         Len(Ahead') <= Len(Ahead), \A x \in 1 .. Len(Ahead') : Ahead'[x] = Ahead[x],
         Len(Ahead') \in Nat, Len(Ahead) \in Nat,
         link' \in {"open", "closed"} => link \in {"open", "closed"} /\ Len(Ahead') = Len(Ahead)
  PROVE  Delivered'
<1> SUFFICES ASSUME ~cut, ~lost PROVE \E all, pos, k : Reaches(all, pos, k)'
  BY DEF Delivered
<1>1. PICK all, pos, k : Reaches(all, pos, k)
  BY DEF Delivered
<1> DEFINE at == ReadFrom(pos, k)
<1>2. ReadFrom(pos, k)' = at
  BY DEF ReadFrom
<1>3. /\ SentIn(all, pos, sent) /\ k \in 0 .. Len(sent)
      /\ got = NonEmpty(SubSeq(sent, 1, k)) /\ (~seedGot => k = 0 /\ pos[0] = Len(Seed))
      /\ Continues(all, at, Ahead)
      /\ link \in {"open", "closed"} => Len(Ahead) = Len(all) - at
  BY <1>1 DEF Reaches
<1>4. at \in Nat /\ Len(all) \in Nat
  <2>1. /\ Len(all) \in Nat /\ Len(sent) \in Nat /\ pos[0] \in 0 .. Len(all)
        /\ \A i \in 1 .. Len(sent) : pos[i] \in 0 .. Len(all)
    BY <1>3, LenProperties DEF SentIn, TypeOK
  <2> QED BY <1>3, <2>1 DEF ReadFrom
<1> DEFINE u == Ahead
           v == Ahead'
<1>5. Continues(all, at, v)
  <2>1. Len(v) <= Len(u) /\ (\A x \in 1 .. Len(v) : v[x] = u[x]) /\ Len(v) \in Nat /\ Len(u) \in Nat
    OBVIOUS
  <2>2. Len(u) <= Len(all) - at /\ \A x \in 1 .. Len(u) : u[x] = all[at + x]
    BY <1>3 DEF Continues
  <2> HIDE DEF u, v, at
  <2>3. Len(v) <= Len(all) - at
    BY <1>4, <2>1, <2>2
  <2>4. \A x \in 1 .. Len(v) : v[x] = all[at + x]
    BY <2>1, <2>2
  <2> QED BY <2>3, <2>4 DEF Continues
<1>6. link' \in {"open", "closed"} => Len(v) = Len(all) - at
  BY <1>3
<1> HIDE DEF at, v
<1>7. Reaches(all, pos, k)'
  BY <1>2, <1>3, <1>5, <1>6 DEF Reaches, v
<1> QED BY <1>7

\* A connection that begins: only a listener has sent something, the seed.
LEMMA DeliveredNew ==
  ASSUME sent' = <<>>, got' = <<>>, seedGot' \in BOOLEAN,
         Ahead' = <<>> \/ (Ahead' = Seed /\ ~seedGot'),
         link' \in {"open", "closed"} /\ ~seedGot' => Ahead' = Seed
  PROVE  Delivered'
<1>0. PICK all, pos : all = (IF seedGot' THEN <<>> ELSE Seed) /\ pos = [i \in {0} |-> Len(all)]
  OBVIOUS
<1> DEFINE v == Ahead'
<1>1. all \in Seq(Byte) /\ Len(all) \in Nat /\ Len(Seed) \in Nat /\ Seed \in Seq(Byte)
  <2>1. <<>> \in Seq(Byte) /\ Seed \in Seq(Byte) /\ Len(<<>>) \in Nat
    BY CellAssumption
  <2> QED BY <1>0, <2>1, LenProperties
<1>2. Len(sent') = 0 /\ got' = NonEmpty(SubSeq(sent', 1, 0))
  <2>1. SubSeq(<<>>, 1, 0) = <<>> /\ Len(<<>>) = 0
    OBVIOUS
  <2> QED BY <2>1, NonEmptyNone
<1>3. pos[0] = Len(all)
  BY <1>0
<1>4. SentIn(all, pos, sent')
  <2>1. 1 .. Len(sent') = {} /\ Len(all) \in 0 .. Len(all)
    BY <1>1, <1>2
  <2> QED BY <1>1, <1>2, <1>3, <2>1 DEF SentIn
<1>5. ~seedGot' => pos[0] = Len(Seed)
  BY <1>0, <1>3
<1>6. ReadFrom(pos, 0)' = IF seedGot' THEN Len(all) ELSE 0
  <2> QED BY <1>3 DEF ReadFrom
<1> DEFINE at == IF seedGot' THEN Len(all) ELSE 0
<1>7. /\ Continues(all, at, v)
      /\ link' \in {"open", "closed"} => Len(v) = Len(all) - at
  <2>1. CASE seedGot'
    <3>1. v = <<>> /\ Len(v) = 0 /\ Len(all) = 0 /\ at = 0 /\ 1 .. Len(v) = {}
      BY <1>0, <2>1
    <3> HIDE DEF v, at
    <3> QED BY <3>1 DEF Continues
  <2>2. CASE ~seedGot'
    <3>1. all = Seed /\ at = 0 /\ (v = <<>> \/ v = Seed) /\ (link' \in {"open", "closed"} => v = Seed)
      BY <1>0, <2>2
    <3> HIDE DEF v, at
    <3>2. CASE v = Seed
      BY <1>1, <3>1, <3>2 DEF Continues
    <3>3. CASE v = <<>> /\ v # Seed
      <4>1. Len(v) = 0 /\ 1 .. Len(v) = {}
        BY <3>3
      <4> QED BY <1>1, <3>1, <3>3, <4>1 DEF Continues
    <3> QED BY <3>1, <3>2, <3>3
  <2> QED BY <2>1, <2>2
<1>8. 0 \in 0 .. Len(sent')
  BY <1>2
<1> HIDE DEF v, at
<1>9. Reaches(all, pos, 0)'
  BY <1>2, <1>4, <1>5, <1>6, <1>7, <1>8 DEF Reaches, v, at
<1> QED BY <1>9 DEF Delivered

-----------------------------------------------------------------------------
(* How the stream of cells grows and is read. *)

\* What a reading of the stream knows of its place in it.
LEMMA Placed ==
  ASSUME NEW all, NEW pos, NEW ps \in Seq(Payloads), SentIn(all, pos, ps), NEW k \in 0 .. Len(ps)
  PROVE  Len(all) \in Nat /\ Len(ps) \in Nat /\ k \in Nat /\ pos[k] \in Nat /\ pos[k] <= Len(all)
<1>1. /\ Len(all) \in Nat /\ Len(ps) \in Nat /\ pos[0] \in 0 .. Len(all)
      /\ \A i \in 1 .. Len(ps) : pos[i] \in 0 .. Len(all)
  BY LenProperties DEF SentIn
<1> QED BY <1>1

\* The stream goes on behind its first m cells.
LEMMA ContinuesBehind ==
  ASSUME NEW all, Len(all) \in Nat, NEW at \in Nat, NEW u, Len(u) \in Nat, Continues(all, at, u),
         NEW m \in 0 .. Len(u), NEW v, Len(v) = Len(u) - m, \A x \in 1 .. Len(v) : v[x] = u[m + x]
  PROVE  Continues(all, at + m, v)
<1>1. Len(u) <= Len(all) - at /\ \A x \in 1 .. Len(u) : u[x] = all[at + x]
  BY DEF Continues
<1>2. Len(v) <= Len(all) - (at + m)
  BY <1>1
<1>3. ASSUME NEW x \in 1 .. Len(v) PROVE v[x] = all[(at + m) + x]
  <2>1. m + x \in 1 .. Len(u) /\ at + (m + x) = (at + m) + x
    OBVIOUS
  <2> QED BY <1>1, <2>1
<1> QED BY <1>2, <1>3 DEF Continues

\* The stream goes on with what is sent.
LEMMA ContinuesLonger ==
  ASSUME NEW all \in Seq(Byte), NEW e \in Seq(Byte), NEW u \in Seq(Byte), NEW at \in Nat,
         Continues(all, at, u), Len(u) = Len(all) - at
  PROVE  Continues(all \o e, at, u \o e) /\ Len(u \o e) = Len(all \o e) - at
<1> DEFINE l == all \o e
           v == u \o e
<1>1. /\ Len(l) = Len(all) + Len(e) /\ Len(v) = Len(u) + Len(e)
      /\ Len(all) \in Nat /\ Len(u) \in Nat /\ Len(e) \in Nat
      /\ \A x \in 1 .. Len(all) : l[x] = all[x]
      /\ \A x \in 1 .. Len(e) : l[Len(all) + x] = e[x]
      /\ \A x \in 1 .. Len(u) : v[x] = u[x]
      /\ \A x \in 1 .. Len(e) : v[Len(u) + x] = e[x]
  BY AheadCells
<1>2. \A x \in 1 .. Len(u) : u[x] = all[at + x]
  BY DEF Continues
<1> HIDE DEF l, v
<1>3. Len(v) = Len(l) - at
  BY <1>1
<1>4. ASSUME NEW x \in 1 .. Len(v) PROVE v[x] = l[at + x]
  <2>1. CASE x \in 1 .. Len(u)
    <3>1. at + x \in 1 .. Len(all)
      BY <1>1, <2>1
    <3> QED BY <1>1, <1>2, <2>1, <3>1
  <2>2. CASE x \notin 1 .. Len(u)
    <3> DEFINE y == x - Len(u)
    <3>1. y \in 1 .. Len(e) /\ x = Len(u) + y /\ at + x = Len(all) + y
      BY <1>1, <2>2
    <3> HIDE DEF y
    <3> QED BY <1>1, <3>1
  <2> QED BY <2>1, <2>2
<1>5. Continues(l, at, v)
  BY <1>1, <1>3, <1>4 DEF Continues
<1> QED BY <1>3, <1>5 DEF l, v

\* Taking cells away at the front.
LEMMA CutFront ==
  ASSUME NEW s \in Seq(Byte), NEW w \in Seq(Byte), NEW m \in 0 .. Len(s)
  PROVE  /\ Suffix(s, m) \o w \in Seq(Byte)
         /\ Len(Suffix(s, m) \o w) = Len(s \o w) - m /\ m \in 0 .. Len(s \o w)
         /\ \A x \in 1 .. Len(Suffix(s, m) \o w) : (Suffix(s, m) \o w)[x] = (s \o w)[m + x]
<1> DEFINE r == Suffix(s, m)
           v == r \o w
           u == s \o w
<1>1. /\ r \in Seq(Byte) /\ Len(r) = Len(s) - m /\ Len(s) \in Nat /\ Len(w) \in Nat
      /\ \A x \in 1 .. Len(r) : r[x] = s[m + x]
  <2>1. r \in Seq(Byte) /\ Len(r) = Len(s) - m /\ Len(s) \in Nat /\ Len(w) \in Nat
    BY SuffixOfSeq, LenProperties
  <2>2. \A i \in m + 1 .. Len(s) : s[i] \in Byte
    BY <2>1, ElementOfSeq
  <2>3. \A x \in 1 .. Len(s) - (m + 1) + 1 : SubSeq(s, m + 1, Len(s))[x] = s[(m + 1) + x - 1]
    <3>1. m + 1 \in Int /\ Len(s) \in Int
      BY <2>1
    <3> QED BY <2>2, <3>1, SubSeqProperties
  <2>4. ASSUME NEW x \in 1 .. Len(s) - m PROVE SubSeq(s, m + 1, Len(s))[x] = s[m + x]
    <3>1. x \in 1 .. Len(s) - (m + 1) + 1 /\ (m + 1) + x - 1 = m + x
      BY <2>1
    <3> QED BY <2>3, <3>1
  <2> QED BY <2>1, <2>4 DEF Suffix
<1> HIDE DEF r
<1>2. /\ v \in Seq(Byte) /\ Len(v) = Len(r) + Len(w) /\ Len(u) = Len(s) + Len(w)
      /\ \A x \in 1 .. Len(r) : v[x] = r[x]
      /\ \A x \in 1 .. Len(w) : v[Len(r) + x] = w[x]
      /\ \A x \in 1 .. Len(s) : u[x] = s[x]
      /\ \A x \in 1 .. Len(w) : u[Len(s) + x] = w[x]
  BY <1>1, AheadCells
<1> HIDE DEF u, v
<1>3. ASSUME NEW x \in 1 .. Len(v) PROVE v[x] = u[m + x]
  <2>1. CASE x \in 1 .. Len(r)
    <3>1. m + x \in 1 .. Len(s)
      BY <1>1, <2>1
    <3> QED BY <1>1, <1>2, <2>1, <3>1
  <2>2. CASE x \notin 1 .. Len(r)
    <3> DEFINE y == x - Len(r)
    <3>1. y \in 1 .. Len(w) /\ x = Len(r) + y /\ m + x = Len(s) + y
      BY <1>1, <1>2, <2>2
    <3> HIDE DEF y
    <3> QED BY <1>2, <3>1
  <2> QED BY <2>1, <2>2
<1>4. Len(v) = Len(u) - m /\ m \in 0 .. Len(u)
  BY <1>1, <1>2
<1> QED BY <1>2, <1>3, <1>4 DEF u, v, r

\* One recv moves cells, it does not change what lies ahead.
LEMMA RecvMoves ==
  ASSUME TypeOK, NEW n \in 1 .. Least(ChunkMax, Len(wire))
  PROVE  /\ (cache \o SubSeq(wire, 1, n)) \o Suffix(wire, n) = cache \o wire
         /\ cache \o SubSeq(wire, 1, n) \in Seq(Byte) /\ Suffix(wire, n) \in Seq(Byte)
         /\ Len(cache \o SubSeq(wire, 1, n)) = Len(cache) + n
<1>1. cache \in Seq(Byte) /\ wire \in Seq(Byte) /\ Len(wire) \in Nat
  BY LenProperties DEF TypeOK
<1>2. /\ n \in 0 .. Len(wire) /\ n \in Nat \ {0}
      /\ SubSeq(wire, 1, n) \in Seq(Byte) /\ Suffix(wire, n) \in Seq(Byte)
      /\ cache \o SubSeq(wire, 1, n) \in Seq(Byte)
      /\ Len(cache \o SubSeq(wire, 1, n)) = Len(cache) + n
  BY Chunk
<1>3. SubSeq(wire, 1, n) \o Suffix(wire, n) = wire
  <2>1. 1 \in 1 .. Len(wire) + 1 /\ n \in 1 - 1 .. Len(wire) /\ Len(wire) \in n .. Len(wire)
    BY <1>1, <1>2
  <2>2. SubSeq(wire, 1, n) \o SubSeq(wire, n + 1, Len(wire)) = SubSeq(wire, 1, Len(wire))
    BY <1>1, <2>1, ConcatAdjacentSubSeq
  <2> QED BY <1>1, <2>2, SubSeqFull DEF Suffix
<1> DEFINE c == SubSeq(wire, 1, n)
           r == Suffix(wire, n)
<1>4. (cache \o c) \o r = cache \o (c \o r)
  <2>1. c \in Seq(Byte) /\ r \in Seq(Byte)
    BY <1>2
  <2> HIDE DEF c, r
  <2> QED BY <1>1, <2>1, ConcatAssociative
<1> QED BY <1>2, <1>3, <1>4

\* The first packets of a longer sequence are the same.
LEMMA FirstPackets ==
  ASSUME NEW T, NEW s \in Seq(T), NEW x \in T, NEW k \in 0 .. Len(s)
  PROVE  SubSeq(Append(s, x), 1, k) = SubSeq(s, 1, k)
<1> DEFINE t == Append(s, x)
           a == SubSeq(t, 1, k)
           b == SubSeq(s, 1, k)
<1>1. Len(s) \in Nat /\ t \in Seq(T) /\ Len(t) = Len(s) + 1 /\ \A i \in 1 .. Len(s) : t[i] = s[i]
  BY LenProperties, AppendProperties
<1> HIDE DEF t
<1>2. k \in Nat /\ k \in 0 .. Len(t) /\ k \in Int /\ 1 \in Int
  BY <1>1
<1>3. (\A i \in 1 .. k : t[i] \in T) /\ (\A i \in 1 .. k : s[i] \in T)
  BY <1>1, <1>2, ElementOfSeq
<1>4. a \in Seq(T) /\ Len(a) = k /\ \A i \in 1 .. k : a[i] = t[i]
  <2>1. /\ a \in Seq(T) /\ Len(a) = IF 1 <= k THEN k - 1 + 1 ELSE 0
        /\ \A i \in 1 .. k - 1 + 1 : a[i] = t[1 + i - 1]
    BY <1>2, <1>3, SubSeqProperties
  <2> HIDE DEF a
  <2> QED BY <1>2, <2>1
<1>5. b \in Seq(T) /\ Len(b) = k /\ \A i \in 1 .. k : b[i] = s[i]
  <2>1. /\ b \in Seq(T) /\ Len(b) = IF 1 <= k THEN k - 1 + 1 ELSE 0
        /\ \A i \in 1 .. k - 1 + 1 : b[i] = s[1 + i - 1]
    BY <1>2, <1>3, SubSeqProperties
  <2> HIDE DEF b
  <2> QED BY <1>2, <2>1
<1> HIDE DEF a, b
<1>6. \A i \in 1 .. k : a[i] = b[i]
  BY <1>1, <1>4, <1>5
<1>7. a = b
  BY <1>4, <1>5, <1>6, SeqEqual
<1> QED BY <1>7 DEF a, b, t

\* One packet more of those sent.
LEMMA NextPacket ==
  ASSUME NEW T, NEW s \in Seq(T), NEW k \in 0 .. Len(s) - 1
  PROVE  SubSeq(s, 1, k + 1) = Append(SubSeq(s, 1, k), s[k + 1])
         /\ SubSeq(s, 1, k) \in Seq(T) /\ s[k + 1] \in T
<1> DEFINE a == SubSeq(s, 1, k)
           n == k + 1
<1>1. Len(s) \in Nat /\ k \in Nat /\ n \in 1 .. Len(s) /\ 1 \in 1 .. Len(s) /\ n - 1 = k
      /\ n \in 1 .. Len(s) /\ k \in 0 .. Len(s)
  BY LenProperties
<1>2. a \in Seq(T) /\ s[n] \in T
  BY <1>1, PartOfSeq, ElementOfSeq
<1> HIDE DEF a, n
<1>3. SubSeq(s, 1, n) = SubSeq(s, 1, n - 1) \o << s[n] >>
  BY <1>1, SubSeqRecursiveSecond
<1>4. Append(a, s[n]) = a \o << s[n] >>
  BY <1>2, AppendIsConcat
<1> QED BY <1>1, <1>2, <1>3, <1>4 DEF a, n

-----------------------------------------------------------------------------
(* The invariant is kept: one lemma per way a step treats the stream. *)

\* Both streams of cells.
LEMMA AheadTyped == TypeOK => Ahead \in Seq(Byte) /\ Len(Ahead) \in Nat /\ Len(Ahead) = Len(cache) + Len(wire)
<1> SUFFICES ASSUME TypeOK PROVE Ahead \in Seq(Byte) /\ Len(Ahead) \in Nat /\ Len(Ahead) = Len(cache) + Len(wire)
  OBVIOUS
<1>1. cache \in Seq(Byte) /\ wire \in Seq(Byte)
  BY DEF TypeOK
<1> QED BY <1>1, AheadCells, LenProperties DEF Ahead

\* A step that does not touch what lies ahead.
LEMMA DeliveredSame ==
  ASSUME TypeOK, Delivered, UNCHANGED <<cut, lost, sent, got, seedGot>>, Ahead' = Ahead,
         link' \in {"open", "closed"} => link \in {"open", "closed"}
  PROVE  Delivered'
<1>1. Len(Ahead) \in Nat
  BY AheadTyped
<1> DEFINE u == Ahead
           v == Ahead'
<1>2. v = u /\ Len(u) \in Nat
  BY <1>1
<1> HIDE DEF u, v
<1>3. Len(v) <= Len(u) /\ (\A x \in 1 .. Len(v) : v[x] = u[x]) /\ Len(v) \in Nat /\ Len(v) = Len(u)
  BY <1>2
<1> QED BY <1>2, <1>3, DeliveredLess DEF u, v

\* A step that throws everything away with the connection.
LEMMA DeliveredNone ==
  ASSUME TypeOK, Delivered, UNCHANGED <<cut, lost, sent, got, seedGot>>,
         cache' = <<>>, wire' = <<>>, link' \notin {"open", "closed"}
  PROVE  Delivered'
<1>1. Len(Ahead) \in Nat
  BY AheadTyped
<1> DEFINE u == Ahead
           v == Ahead'
<1>2. v = <<>>
  BY DEF Ahead
<1> HIDE DEF u, v
<1>3. Len(v) = 0 /\ Len(v) <= Len(u) /\ (\A x \in 1 .. Len(v) : v[x] = u[x]) /\ Len(v) \in Nat /\ Len(u) \in Nat
  BY <1>1, <1>2 DEF u
<1> QED BY <1>3, DeliveredLess DEF u, v

\* A reset throws away what has not been received.
LEMMA DeliveredReset ==
  ASSUME TypeOK, Delivered, UNCHANGED <<cut, lost, sent, got, seedGot>>,
         cache' = cache, wire' = <<>>, link' \notin {"open", "closed"}
  PROVE  Delivered'
<1> DEFINE u == Ahead
           v == Ahead'
<1>1. cache \in Seq(Byte) /\ wire \in Seq(Byte)
  BY DEF TypeOK
<1>2. v = cache
  BY <1>1, ConcatEmptySeq DEF Ahead
<1>3. /\ Len(u) = Len(cache) + Len(wire) /\ Len(cache) \in Nat /\ Len(wire) \in Nat /\ Len(u) \in Nat
      /\ \A x \in 1 .. Len(cache) : u[x] = cache[x]
  BY <1>1, AheadCells, LenProperties DEF Ahead
<1> HIDE DEF u, v
<1>4. Len(v) <= Len(u) /\ (\A x \in 1 .. Len(v) : v[x] = u[x]) /\ Len(v) \in Nat /\ Len(u) \in Nat
  BY <1>2, <1>3
<1> QED BY <1>4, DeliveredLess DEF u, v

\* zhSionCacheData: cells move from the socket to the cache, and the seed is
\* taken off the front of the stream.
LEMMA DeliveredRecv ==
  ASSUME TypeOK, Held, Delivered, CacheRecv
  PROVE  Delivered'
<1>1. PICK n \in 1 .. Least(ChunkMax, Len(wire)) :
        /\ CacheOverflows(n) \/ CacheAppends(n) \/ CacheSeedPart(n) \/ CacheSeedDone(n)
        /\ wire' = Suffix(wire, n)
  BY DEF CacheRecv
<1> DEFINE s == cache \o SubSeq(wire, 1, n)
           r == Suffix(wire, n)
<1>2. /\ s \o r = Ahead /\ s \in Seq(Byte) /\ r \in Seq(Byte) /\ Len(s) = Len(cache) + n
  BY RecvMoves DEF Ahead
<1>3. UNCHANGED <<link, cut, sent, got>>
  BY DEF CacheRecv
<1>4. CASE CacheOverflows(n)
  BY <1>4 DEF CacheOverflows, Delivered
<1>5. CASE CacheAppends(n)
  <2>1. Ahead' = Ahead
    BY <1>1, <1>2, <1>5 DEF CacheAppends, Ahead
  <2> QED BY <1>3, <1>5, <2>1, DeliveredSame DEF CacheAppends
<1>6. CASE CacheSeedPart(n)
  <2>1. Ahead' = Ahead
    BY <1>1, <1>2, <1>6 DEF CacheSeedPart, Ahead
  <2> QED BY <1>3, <1>6, <2>1, DeliveredSame DEF CacheSeedPart
<1>7. CASE CacheSeedDone(n)
  <2> SUFFICES ASSUME ~cut', ~lost' PROVE \E all, pos, k : Reaches(all, pos, k)'
    BY DEF Delivered
  <2>1. /\ ~cut /\ ~lost /\ ~seedGot /\ seedGot' = TRUE
        /\ ~(Len(cache) + n > Len(Seed)) /\ Len(cache) + n >= Len(Seed)
        /\ cache' = SubSeq(s, 1, Len(cache) + n - Len(Seed))
    BY <1>3, <1>7 DEF CacheSeedDone
  <2>2. Len(s) = Len(Seed) /\ Len(Seed) \in Nat /\ cache' = <<>>
    <3>1. Len(cache) \in Nat /\ n \in Nat /\ Len(Seed) \in Nat
      BY CellAssumption, LenProperties, Chunk DEF TypeOK
    <3>2. Len(s) = Len(Seed) /\ Len(cache) + n - Len(Seed) = 0
      BY <1>2, <2>1, <3>1
    <3>3. SubSeq(s, 1, 0) = <<>>
      BY SubSeqEmpty
    <3> QED BY <2>1, <3>1, <3>2, <3>3
  <2>3. PICK all, pos, k : Reaches(all, pos, k)
    BY <2>1 DEF Delivered
  <2>4. /\ SentIn(all, pos, sent) /\ k = 0 /\ pos[0] = Len(Seed)
        /\ got = NonEmpty(SubSeq(sent, 1, 0))
        /\ Continues(all, 0, Ahead)
        /\ link \in {"open", "closed"} /\ Len(Ahead) = Len(all) - 0
    BY <2>1, <2>3 DEF Reaches, ReadFrom, CacheRecv
  <2>5. Len(all) \in Nat /\ Len(sent) \in Nat /\ 0 \in 0 .. Len(sent)
    <3>1. sent \in Seq(Payloads)
      BY DEF TypeOK
    <3>2. Len(sent) \in Nat /\ Len(all) \in Nat
      BY <2>4, <3>1, LenProperties DEF SentIn
    <3> QED BY <3>2
  <2> DEFINE m == Len(Seed)
             u == Ahead
             v == Suffix(s, m) \o r
  <2>6. m \in 0 .. Len(s) /\ Len(u) \in Nat
    BY <2>2, AheadTyped
  <2>7. Len(v) = Len(u) - m /\ m \in 0 .. Len(u) /\ \A x \in 1 .. Len(v) : v[x] = u[m + x]
    <3> HIDE DEF s, r, m
    <3> QED BY <1>2, <2>6, CutFront
  <2>8. Ahead' = v
    <3>1. Suffix(s, m) = <<>>
      BY <2>2, SubSeqEmpty DEF Suffix
    <3>2. v = <<>> \o r /\ Ahead' = <<>> \o r
      BY <1>1, <2>2, <3>1 DEF Ahead
    <3> QED BY <3>2
  <2>9. Continues(all, 0 + m, v)
    <3>1. Continues(all, 0, u)
      BY <2>4
    <3> HIDE DEF u, v, m
    <3>2. 0 \in Nat
      OBVIOUS
    <3> QED BY <2>5, <2>6, <2>7, <3>1, <3>2, ContinuesBehind
  <2>10. Continues(all, m, v) /\ Len(v) = Len(all) - m
    <3>1. 0 + m = m /\ Len(u) = Len(all)
      BY <2>2, <2>4, <2>5
    <3> HIDE DEF u, v, m
    <3> QED BY <2>7, <2>9, <3>1
  <2>11. ReadFrom(pos, 0)' = m
    BY <2>1, <2>4 DEF ReadFrom
  <2> HIDE DEF m, v
  <2>12. Reaches(all, pos, 0)'
    BY <1>3, <2>1, <2>4, <2>5, <2>8, <2>10, <2>11 DEF Reaches
  <2> QED BY <2>12
<1> QED BY <1>1, <1>4, <1>5, <1>6, <1>7

\* zhSionReadData: the frame at the front of the cache is the next one sent.
LEMMA DeliveredFrame ==
  ASSUME TypeOK, Held, Delivered, ReadFrame
  PROVE  Delivered'
<1> SUFFICES ASSUME ~cut', ~lost' PROVE \E all, pos, k : Reaches(all, pos, k)'
  BY DEF Delivered
<1>1. UNCHANGED <<cut, lost, sent, seedGot, link, wire>> /\ cache' = Suffix(cache, FrameEnd)
  BY DEF ReadFrame, conn, net
<1>2. PICK all, pos, k : Reaches(all, pos, k)
  BY <1>1 DEF Delivered
<1>3. /\ cache \in Seq(Byte) /\ wire \in Seq(Byte) /\ sent \in Seq(Payloads)
      /\ Len(cache) \in Nat /\ Len(wire) \in Nat /\ Len(sent) \in Nat /\ Len(cache) >= 3
  BY LenProperties DEF TypeOK, ReadFrame, Complete, Framed, Whole, HeaderLen
<1>4. seedGot
  <2>1. buf
    <3>1. cache # <<>>
      BY <1>3
    <3> QED BY <3>1 DEF Held, Resources
  <2>2. ~seedGot => Len(cache) < Len(Seed)
    BY <2>1 DEF Held, SeedPhase
  <2>3. Len(Seed) \in Nat /\ Len(Seed) <= 3
    BY SizeAssumption, CellAssumption, LenProperties DEF HeaderLen
  <2>4. seedGot \in BOOLEAN
    BY DEF TypeOK
  <2> QED BY <1>3, <2>2, <2>3, <2>4
<1> DEFINE u == Ahead
           at == pos[k]
<1>5. /\ SentIn(all, pos, sent) /\ k \in 0 .. Len(sent)
      /\ got = NonEmpty(SubSeq(sent, 1, k))
      /\ Continues(all, at, u)
      /\ link \in {"open", "closed"} => Len(u) = Len(all) - at
  BY <1>2, <1>4 DEF Reaches, ReadFrom
<1>6. Len(all) \in Nat /\ k \in Nat /\ at \in Nat /\ at <= Len(all)
  BY <1>3, <1>5, Placed
<1>7. /\ Len(u) = Len(cache) + Len(wire) /\ Len(u) \in Nat
      /\ \A x \in 1 .. Len(cache) : u[x] = cache[x]
  BY <1>3, AheadCells, AheadTyped DEF Ahead
<1>8. Len(u) <= Len(all) - at /\ \A x \in 1 .. Len(u) : u[x] = all[at + x]
  BY <1>5 DEF Continues
<1> HIDE DEF u, at
<1>9. k \in 0 .. Len(sent) - 1 /\ k + 1 \in 1 .. Len(sent)
  <2>1. at < Len(all)
    BY <1>3, <1>6, <1>7, <1>8
  <2>2. pos[Len(sent)] = Len(all)
    BY <1>5 DEF SentIn
  <2>3. k # Len(sent)
    BY <2>1, <2>2 DEF at
  <2> QED BY <1>3, <1>5, <2>3
<1> DEFINE p == sent[k + 1]
           e == Encode(p)
<1>10. p \in Payloads
  BY <1>3, <1>9, ElementOfSeq
<1>11. /\ p \in Seq(Byte) /\ Len(p) \in Nat /\ Len(e) = 3 + Len(p) /\ e[2] = Len(p)
       /\ \A j \in 1 .. Len(p) : e[3 + j] = p[j]
  <2> HIDE DEF p
  <2> QED BY <1>10, EncodedCells DEF HeaderLen
<1>12. pos[k + 1] = at + Len(e) /\ pos[k + 1] \in Nat /\ \A j \in 1 .. Len(e) : all[at + j] = e[j]
  <2> DEFINE i == k + 1
  <2>1. i \in 1 .. Len(sent) /\ i - 1 = k
    BY <1>6, <1>9
  <2> HIDE DEF i
  <2>2. /\ pos[i] \in 0 .. Len(all) /\ pos[i] = pos[i - 1] + Len(Encode(sent[i]))
        /\ \A j \in 1 .. Len(Encode(sent[i])) : all[pos[i - 1] + j] = Encode(sent[i])[j]
    BY <1>5, <2>1 DEF SentIn
  <2> QED BY <1>6, <2>1, <2>2 DEF i, at
<1> HIDE DEF p, e
\* What a cell of the cache is.
<1>13. ASSUME NEW x \in 1 .. Len(cache), x \in 1 .. Len(e) PROVE cache[x] = e[x]
  <2>1. x \in 1 .. Len(u)
    BY <1>3, <1>7
  <2> QED BY <1>7, <1>8, <1>12, <1>13, <2>1
<1>14. BodyLen = Len(p) /\ FrameEnd = Len(e)
  <2>1. 2 \in 1 .. Len(cache) /\ 2 \in 1 .. Len(e)
    BY <1>3, <1>11
  <2>2. cache[2] = Len(p)
    BY <1>11, <1>13, <2>1
  <2> QED BY <1>11, <2>2 DEF BodyLen, FrameEnd, HeaderLen
<1>15. Len(e) \in 0 .. Len(cache)
  BY <1>3, <1>11, <1>14 DEF ReadFrame, Complete
<1>16. Body = p
  <2> DEFINE b == Body
  <2>1. Body = SubSeq(cache, 4, 3 + Len(p))
    BY <1>11, <1>14 DEF Body, HeaderLen
  <2>2. \A i \in 4 .. 3 + Len(p) : cache[i] \in Byte
    BY <1>3, <1>11, <1>15, ElementOfSeq
  <2>3. /\ b \in Seq(Byte) /\ Len(b) = (IF 4 <= 3 + Len(p) THEN (3 + Len(p)) - 4 + 1 ELSE 0)
        /\ \A i \in 1 .. (3 + Len(p)) - 4 + 1 : b[i] = cache[4 + i - 1]
    <3>1. 4 \in Int /\ 3 + Len(p) \in Int
      BY <1>11
    <3> QED BY <2>1, <2>2, <3>1, SubSeqProperties
  <2> HIDE DEF b
  <2>4. Len(b) = Len(p)
    BY <1>11, <2>3
  <2>5. ASSUME NEW i \in 1 .. Len(p) PROVE b[i] = p[i]
    <3>1. /\ i \in 1 .. (3 + Len(p)) - 4 + 1 /\ 4 + i - 1 = 3 + i
          /\ 3 + i \in 1 .. Len(e) /\ 3 + i \in 1 .. Len(cache)
      BY <1>3, <1>11, <1>15
    <3>2. b[i] = cache[3 + i]
      BY <2>3, <3>1
    <3>3. cache[3 + i] = e[3 + i]
      BY <1>13, <3>1
    <3> QED BY <1>11, <3>2, <3>3
  <2>6. b = p
    BY <1>11, <2>3, <2>4, <2>5, SeqEqual
  <2> QED BY <2>6 DEF b
<1>17. got' = NonEmpty(SubSeq(sent, 1, k + 1))
  <2> DEFINE a == SubSeq(sent, 1, k)
  <2>1. SubSeq(sent, 1, k + 1) = Append(a, p) /\ a \in Seq(Payloads)
    BY <1>3, <1>9, NextPacket DEF p
  <2>2. got = NonEmpty(a)
    BY <1>5
  <2>3. got' = IF Len(p) > 0 THEN Append(got, p) ELSE got
    BY <1>14, <1>16 DEF ReadFrame
  <2> HIDE DEF a
  <2>4. NonEmpty(Append(a, p)) = IF p = <<>> THEN NonEmpty(a) ELSE Append(NonEmpty(a), p)
    BY <1>10, <2>1, NonEmptyMore
  <2>5. p = <<>> <=> ~(Len(p) > 0)
    BY <1>11, EmptySeq
  <2> QED BY <2>1, <2>2, <2>3, <2>4, <2>5
<1> DEFINE m == Len(e)
           v == Suffix(cache, m) \o wire
<1>18. Len(v) = Len(u) - m /\ m \in 0 .. Len(u) /\ \A x \in 1 .. Len(v) : v[x] = u[m + x]
  <2> HIDE DEF m
  <2> QED BY <1>3, <1>15, CutFront DEF m, u, Ahead
<1>19. Ahead' = v
  BY <1>1, <1>14 DEF Ahead
<1> HIDE DEF m, v
<1>20. Continues(all, at + m, v)
  BY <1>5, <1>6, <1>7, <1>18, ContinuesBehind
<1>21. at + m = pos[k + 1] /\ (link \in {"open", "closed"} => Len(v) = Len(all) - (at + m))
  BY <1>5, <1>6, <1>7, <1>12, <1>18 DEF m
<1>22. ReadFrom(pos, k + 1)' = pos[k + 1]
  BY <1>1, <1>4 DEF ReadFrom
<1>23. k + 1 \in 0 .. Len(sent)
  BY <1>3, <1>9
<1>24. Reaches(all, pos, k + 1)'
  BY <1>1, <1>4, <1>5, <1>17, <1>19, <1>20, <1>21, <1>22, <1>23 DEF Reaches
<1> QED BY <1>24

\* The peer sends a packet: the stream becomes longer by its frame.
LEMMA SentLonger ==
  ASSUME NEW all, NEW pos, NEW ps \in Seq(Payloads), SentIn(all, pos, ps), NEW p \in Payloads
  PROVE  \E q : /\ SentIn(all \o Encode(p), q, Append(ps, p))
                /\ \A i \in 0 .. Len(ps) : q[i] = pos[i]
<1> DEFINE e == Encode(p)
           l == all \o e
           qs == Append(ps, p)
           q == [i \in 0 .. Len(ps) + 1 |-> IF i = Len(ps) + 1 THEN Len(all) + Len(e) ELSE pos[i]]
<1>1. /\ all \in Seq(Byte) /\ pos[0] \in 0 .. Len(all) /\ pos[Len(ps)] = Len(all)
      /\ \A i \in 1 .. Len(ps) :
           /\ pos[i] \in 0 .. Len(all) /\ pos[i] = pos[i - 1] + Len(Encode(ps[i]))
           /\ \A j \in 1 .. Len(Encode(ps[i])) : all[pos[i - 1] + j] = Encode(ps[i])[j]
  BY DEF SentIn
<1>2. /\ Len(qs) = Len(ps) + 1 /\ qs[Len(ps) + 1] = p /\ Len(ps) \in Nat
      /\ \A i \in 1 .. Len(ps) : qs[i] = ps[i]
  BY AppendProperties, LenProperties
<1>3. e \in Seq(Byte) /\ Len(e) \in Nat /\ Len(all) \in Nat
  BY <1>1, EncodedCells, LenProperties
<1>4. /\ l \in Seq(Byte) /\ Len(l) = Len(all) + Len(e)
      /\ \A x \in 1 .. Len(all) : l[x] = all[x]
      /\ \A x \in 1 .. Len(e) : l[Len(all) + x] = e[x]
  <2> HIDE DEF e
  <2> QED BY <1>1, <1>3, AheadCells
<1>5. q[Len(ps) + 1] = Len(all) + Len(e) /\ \A i \in 0 .. Len(ps) : q[i] = pos[i]
  BY <1>2
<1> HIDE DEF e, l, qs, q
<1>6. /\ q[0] \in 0 .. Len(l) /\ q[Len(qs)] = Len(l)
  BY <1>1, <1>2, <1>3, <1>4, <1>5
<1>7. ASSUME NEW i \in 1 .. Len(qs)
      PROVE  /\ q[i] \in 0 .. Len(l) /\ q[i] = q[i - 1] + Len(Encode(qs[i]))
             /\ \A j \in 1 .. Len(Encode(qs[i])) : l[q[i - 1] + j] = Encode(qs[i])[j]
  <2>1. CASE i \in 1 .. Len(ps)
    <3> DEFINE c == Encode(ps[i])
               b == pos[i - 1]
    <3>1. q[i] = pos[i] /\ q[i - 1] = b /\ qs[i] = ps[i]
      BY <1>2, <1>5, <2>1
    <3>2. pos[i] \in 0 .. Len(all) /\ pos[i] = b + Len(c) /\ \A j \in 1 .. Len(c) : all[b + j] = c[j]
      BY <1>1, <2>1
    <3>3. Len(c) \in Nat
      <4>1. ps[i] \in Payloads
        BY <2>1, ElementOfSeq
      <4> QED BY <4>1, EncodedCells, LenProperties
    <3>4. b \in Nat
      <4>1. i - 1 = 0 \/ i - 1 \in 1 .. Len(ps)
        BY <1>2, <2>1
      <4> QED BY <1>1, <1>3, <4>1
    <3> HIDE DEF b, c
    <3>5. ASSUME NEW j \in 1 .. Len(c) PROVE l[b + j] = c[j]
      <4>1. b + j \in 1 .. Len(all)
        BY <1>3, <3>2, <3>3, <3>4
      <4> QED BY <1>4, <3>2, <4>1
    <3>6. q[i] \in 0 .. Len(l)
      BY <1>3, <1>4, <3>1, <3>2
    <3> QED BY <3>1, <3>2, <3>5, <3>6 DEF c
  <2>2. CASE i = Len(ps) + 1
    <3>1. i - 1 = Len(ps) /\ q[i] = Len(all) + Len(e) /\ q[i - 1] = Len(all) /\ Encode(qs[i]) = e
      BY <1>1, <1>2, <1>5, <2>2 DEF e
    <3> QED BY <1>3, <1>4, <3>1
  <2> QED BY <1>2, <2>1, <2>2
<1>8. SentIn(l, q, qs)
  BY <1>4, <1>6, <1>7 DEF SentIn
<1> QED BY <1>5, <1>8 DEF l, e, qs

\* A complete zhSionSend of the peer.
LEMMA DeliveredSend ==
  ASSUME TypeOK, Delivered, NEW p \in Payloads, PeerSend(p)
  PROVE  Delivered'
<1> SUFFICES ASSUME ~cut', ~lost' PROVE \E all, pos, k : Reaches(all, pos, k)'
  BY DEF Delivered
<1>1. /\ ~cut /\ ~lost /\ UNCHANGED <<got, seedGot, link, cache>> /\ link = "open"
      /\ wire' = wire \o Encode(p) /\ sent' = Append(sent, p)
  BY DEF PeerSend, conn, store, told
<1>2. PICK all, pos, k : Reaches(all, pos, k)
  BY <1>1 DEF Delivered
<1> DEFINE u == Ahead
           e == Encode(p)
           at == ReadFrom(pos, k)
<1>3. /\ SentIn(all, pos, sent) /\ k \in 0 .. Len(sent)
      /\ got = NonEmpty(SubSeq(sent, 1, k))
      /\ ~seedGot => k = 0 /\ pos[0] = Len(Seed)
      /\ Continues(all, at, u) /\ Len(u) = Len(all) - at
  BY <1>1, <1>2 DEF Reaches
<1>4. sent \in Seq(Payloads) /\ cache \in Seq(Byte) /\ wire \in Seq(Byte) /\ e \in Seq(Byte)
  BY EncodedPayload DEF TypeOK
<1>5. all \in Seq(Byte) /\ u \in Seq(Byte) /\ Len(sent) \in Nat
  BY <1>3, <1>4, AheadTyped, LenProperties DEF SentIn
<1>6. at \in Nat
  BY <1>3, <1>4, Placed DEF ReadFrom
<1>7. PICK q : SentIn(all \o e, q, sent') /\ \A i \in 0 .. Len(sent) : q[i] = pos[i]
  BY <1>1, <1>3, <1>4, SentLonger
<1>8. Ahead' = u \o e
  <2>1. (cache \o wire) \o e = cache \o (wire \o e)
    <3> HIDE DEF e
    <3> QED BY <1>4, ConcatAssociative
  <2> QED BY <1>1, <2>1 DEF Ahead
<1>9. ReadFrom(q, k)' = at
  BY <1>1, <1>3, <1>7 DEF ReadFrom
<1>10. q[0] = pos[0]
  BY <1>5, <1>7
<1>11. SubSeq(sent', 1, k) = SubSeq(sent, 1, k) /\ k \in 0 .. Len(sent')
  <2>1. Len(sent') = Len(sent) + 1
    BY <1>1, <1>4, AppendProperties
  <2> QED BY <1>1, <1>3, <1>4, <1>5, <2>1, FirstPackets
<1> HIDE DEF u, at, e
<1>12. PICK l : l = all \o e
  OBVIOUS
<1>13. Continues(l, at, u \o e) /\ Len(u \o e) = Len(l) - at
  BY <1>3, <1>4, <1>5, <1>6, <1>12, ContinuesLonger
<1>14. Reaches(l, q, k)'
  BY <1>1, <1>3, <1>7, <1>8, <1>9, <1>10, <1>11, <1>12, <1>13 DEF Reaches
<1> QED BY <1>14

\* Nothing was sent: the stream is the seed a listener would send.
LEMMA StreamInit == Init => Stream
<1> SUFFICES ASSUME Init PROVE Stream
  OBVIOUS
<1>2. /\ sent = <<>> /\ got = <<>> /\ cache = <<>> /\ wire = <<>> /\ link = "none"
      /\ seedGot = FALSE
  BY DEF Init
<1>3. PICK l, q : l = Seed /\ q = [i \in {0} |-> Len(Seed)]
  OBVIOUS
<1>4. /\ Seed \in Seq(Byte) /\ Len(Seed) \in Nat /\ Len(sent) = 0 /\ 1 .. Len(sent) = {}
      /\ Len(Ahead) = 0 /\ 1 .. Len(Ahead) = {}
  BY <1>2, CellAssumption, LenProperties DEF Ahead
<1>5. SentIn(l, q, sent)
  BY <1>3, <1>4 DEF SentIn
<1>6. Continues(l, 0, Ahead) /\ ReadFrom(q, 0) = 0
  BY <1>2, <1>3, <1>4 DEF Continues, ReadFrom
<1>7. got = NonEmpty(SubSeq(sent, 1, 0))
  <2>1. SubSeq(<<>>, 1, 0) = <<>>
    OBVIOUS
  <2> QED BY <1>2, <2>1, NonEmptyNone
<1>8. Reaches(l, q, 0)
  BY <1>2, <1>3, <1>4, <1>5, <1>6, <1>7 DEF Reaches
<1> QED BY <1>2, <1>8 DEF Stream, Delivered, Fresh

\* The calls that open and close a session.
LEMMA StreamApplication == TypeOK /\ Held /\ Stream /\ Application => Stream'
<1> SUFFICES ASSUME TypeOK, Held, Stream, Application PROVE Stream'
  OBVIOUS
<1> USE DEF Stream
<1>0. Len(wire) \in Nat /\ seedGot \in BOOLEAN
  BY LenProperties DEF TypeOK
<1>1. CASE SionInit
  <2>1. link = "none" /\ wire = <<>>
    BY <1>1 DEF SionInit, Held, Resources
  <2>2. /\ cache' = <<>> /\ wire' = <<>> /\ link' = "none" /\ sent' = <<>> /\ got' = <<>>
        /\ seedGot' = FALSE
    BY <1>1, <2>1 DEF SionInit, NewHistory
  <2>3. Ahead' = <<>>
    BY <2>2 DEF Ahead
  <2>4. Delivered'
    BY <2>2, <2>3, DeliveredNew
  <2> QED BY <2>2, <2>4 DEF Fresh
<1>2. CASE SionInitFails
  <2>1. UNCHANGED <<cState, seedGot, store, net, told>>
    BY <1>2 DEF SionInitFails
  <2>2. UNCHANGED <<cState, seedGot, cache, wire, link, sent, cut, got, lost>>
    BY <2>1 DEF store, net, told
  <2>3. Ahead' = Ahead
    BY <2>2 DEF Ahead
  <2>4. Delivered'
    BY <2>2, <2>3, DeliveredSame
  <2> QED BY <2>2, <2>4 DEF Fresh
<1>3. CASE Connect
  <2>1. sent = <<>> /\ got = <<>> /\ wire = <<>>
    BY <1>3 DEF Connect, Fresh, Held, Resources
  <2>2. /\ cache' = <<>> /\ wire' = <<>> /\ link' = "pending" /\ sent' = <<>> /\ got' = <<>>
        /\ seedGot' = FALSE
    BY <1>3, <2>1 DEF Connect, told
  <2>3. Ahead' = <<>>
    BY <2>2 DEF Ahead
  <2>4. Delivered'
    BY <2>2, <2>3, DeliveredNew
  <2> QED BY <2>2, <2>4 DEF Fresh
<1>4. CASE Accept
  <2>1. /\ cache' = <<>> /\ wire' = <<>> /\ link' = "open" /\ sent' = <<>> /\ got' = <<>>
        /\ seedGot' = TRUE
    BY <1>4 DEF Accept, NewHistory
  <2>2. Ahead' = <<>>
    BY <2>1 DEF Ahead
  <2>3. Delivered'
    BY <2>1, <2>2, DeliveredNew
  <2> QED BY <2>1, <2>3 DEF Fresh
<1>5. CASE SafeClose \/ Close
  <2>1. /\ cache' = <<>> /\ wire' = <<>> /\ link' = "none" /\ UNCHANGED <<sent, got, cut, lost, seedGot>>
        /\ cState' \in {"Zero", "Dead"}
    BY <1>5 DEF SafeClose, Close, Release, told
  <2>2. Delivered'
    BY <2>1, DeliveredNone
  <2> QED BY <2>1, <2>2 DEF Fresh
<1> QED BY <1>1, <1>2, <1>3, <1>4, <1>5 DEF Application

\* zhSionCacheData keeps Stream.
LEMMA StreamCacheData == TypeOK /\ Held /\ Stream /\ CacheData => Stream'
<1> SUFFICES ASSUME TypeOK, Held, Stream, CacheData PROVE Stream'
  OBVIOUS
<1> USE DEF Stream
<1>1. CASE CacheNoSocket \/ CacheNothing \/ CacheRecvFails
  <2>1. /\ UNCHANGED <<seedGot, cache, wire, link, sent, cut, got, lost>>
        /\ cState' = "Initizal" => cState = "Initizal"
    BY <1>1 DEF CacheNoSocket, CacheNothing, CacheRecvFails, conn, store, net
  <2>2. Ahead' = Ahead
    BY <2>1 DEF Ahead
  <2>3. Delivered'
    BY <2>1, <2>2, DeliveredSame
  <2> QED BY <2>1, <2>3 DEF Fresh
<1>2. CASE CacheRecv
  <2>1. link' \in {"open", "closed"}
    BY <1>2 DEF CacheRecv
  <2> QED BY <1>2, <2>1, DeliveredRecv DEF Fresh
<1> QED BY <1>1, <1>2 DEF CacheData

\* zhSionReadData keeps Stream: every error throws cells away.
LEMMA StreamReadData == TypeOK /\ Held /\ Stream /\ ReadData => Stream'
<1> SUFFICES ASSUME TypeOK, Held, Stream, ReadData PROVE Stream'
  OBVIOUS
<1> USE DEF Stream
<1>0. /\ UNCHANGED <<cState, seedGot, link, wire, sent, cut>>
      /\ cache' # <<>> => cache # <<>>
  BY ReadConsumes DEF conn, net
<1>1. CASE ReadShort \/ ReadIncomplete
  <2>1. UNCHANGED <<cache, got, lost>>
    BY <1>1 DEF ReadShort, ReadIncomplete, store
  <2>2. Ahead' = Ahead
    BY <1>0, <2>1 DEF Ahead
  <2>3. Delivered'
    BY <1>0, <2>1, <2>2, DeliveredSame
  <2> QED BY <1>0, <2>1, <2>3 DEF Fresh
<1>2. CASE ReadOverdue \/ ReadResync \/ ReadBadCrc \/ ReadTooBig
  <2>1. lost' /\ UNCHANGED got
    BY <1>2 DEF ReadOverdue, ReadResync, ReadBadCrc, ReadTooBig
  <2> QED BY <1>0, <2>1 DEF Fresh, Delivered
<1>3. CASE ReadFrame
  <2>1. cache # <<>>
    <3>1. Len(cache) >= 3
      BY <1>3 DEF ReadFrame, Complete, Framed, Whole, HeaderLen
    <3> QED BY <3>1
  <2>2. Fresh'
    BY <1>0, <2>1 DEF Fresh
  <2> QED BY <1>3, <2>2, DeliveredFrame
<1> QED BY <1>1, <1>2, <1>3 DEF ReadData

\* zhSionStateThread keeps Stream.
LEMMA StreamStateThread == TypeOK /\ Held /\ Stream /\ StateThread => Stream'
<1> SUFFICES ASSUME TypeOK, Held, Stream, StateThread PROVE Stream'
  OBVIOUS
<1> USE DEF Stream
<1>1. CASE StateTimeout \/ StateConnected
  <2>1. /\ UNCHANGED <<seedGot, cache, wire, link, sent, cut, got, lost>>
        /\ cState' # "Initizal"
    BY <1>1 DEF StateTimeout, StateConnected, store, net
  <2>2. Ahead' = Ahead
    BY <2>1 DEF Ahead
  <2>3. Delivered'
    BY <2>1, <2>2, DeliveredSame
  <2> QED BY <2>1, <2>3 DEF Fresh
<1>2. CASE StateDisconnect
  <2>1. /\ cache' = <<>> /\ wire' = <<>> /\ link' = "none" /\ UNCHANGED <<sent, got, cut, lost, seedGot>>
        /\ cState' = "Zero"
    BY <1>2 DEF StateDisconnect, Release
  <2>2. Delivered'
    BY <2>1, DeliveredNone
  <2> QED BY <2>1, <2>2 DEF Fresh
<1> QED BY <1>1, <1>2 DEF StateThread

\* What the peer and the kernel do keeps Stream.
LEMMA StreamNetwork == TypeOK /\ Held /\ Stream /\ Network => Stream'
<1> SUFFICES ASSUME TypeOK, Held, Stream, Network PROVE Stream'
  OBVIOUS
<1> USE DEF Stream
<1>1. CASE PeerAccept
  <2>1. /\ sent = <<>> /\ got = <<>> /\ ~seedGot /\ cache = <<>> /\ seedGot \in BOOLEAN
    BY <1>1 DEF PeerAccept, Fresh, TypeOK
  <2>2. /\ sent' = <<>> /\ got' = <<>> /\ seedGot' = FALSE /\ cache' = <<>> /\ link' = "open"
        /\ wire' = Seed \/ cut'
    BY <1>1, <2>1 DEF PeerAccept, conn, store, told
  <2>3. Delivered'
    <3>1. CASE cut'
      BY <3>1 DEF Delivered
    <3>2. CASE wire' = Seed
      <4>1. Ahead' = Seed
        BY <2>2, <3>2, CellAssumption, ConcatEmptySeq DEF Ahead
      <4> QED BY <2>2, <4>1, DeliveredNew
    <3> QED BY <2>2, <3>1, <3>2
  <2> QED BY <2>2, <2>3 DEF Fresh
<1>2. CASE PeerRefuse \/ PeerClose
  <2>1. /\ UNCHANGED <<seedGot, cache, wire, sent, cut, got, lost>>
        /\ link' = "refused" \/ (link' = "closed" /\ link = "open")
    BY <1>2 DEF PeerRefuse, PeerClose, conn, store, told
  <2>2. Ahead' = Ahead
    BY <2>1 DEF Ahead
  <2>3. Delivered'
    BY <2>1, <2>2, DeliveredSame
  <2> QED BY <2>1, <2>3 DEF Fresh
<1>3. CASE PeerReset
  <2>1. /\ UNCHANGED <<seedGot, cache, sent, cut, got, lost>> /\ link' = "reset" /\ wire' = <<>>
    BY <1>3 DEF PeerReset, conn, store, told
  <2>2. Delivered'
    BY <2>1, DeliveredReset
  <2> QED BY <2>1, <2>2 DEF Fresh
<1>4. ASSUME NEW p \in Payloads, PeerSend(p) \/ PeerSendAfterCut(p)
      PROVE  Stream'
  <2>1. link' = "open"
    BY <1>4 DEF PeerSend, PeerSendAfterCut
  <2>2. Delivered'
    <3>1. CASE PeerSendAfterCut(p)
      BY <3>1 DEF PeerSendAfterCut, Delivered
    <3> QED BY <1>4, <3>1, DeliveredSend
  <2> QED BY <2>1, <2>2 DEF Fresh
<1> QED BY <1>1, <1>2, <1>3, <1>4 DEF Network

\* Every step keeps Stream.
LEMMA StreamNext == TypeOK /\ Held /\ Stream /\ [Next]_vars => Stream'
<1> SUFFICES ASSUME TypeOK, Held, Stream, [Next]_vars PROVE Stream'
  OBVIOUS
<1>1. CASE Tick \/ UNCHANGED vars
  <2>1. UNCHANGED <<cState, seedGot, cache, wire, link, sent, cut, got, lost>>
    BY <1>1 DEF Tick, vars, conn, store, net, told
  <2>2. Ahead' = Ahead
    BY <2>1 DEF Ahead
  <2>3. Delivered'
    BY <2>1, <2>2, DeliveredSame DEF Stream
  <2> QED BY <2>1, <2>3 DEF Fresh, Stream
<1> QED
  BY <1>1, StreamApplication, StreamCacheData, StreamReadData, StreamStateThread,
     StreamNetwork DEF Next

\* What Stream says of the frames read.
LEMMA StreamInOrder == TypeOK /\ Stream => InOrder
<1> SUFFICES ASSUME TypeOK, Stream, ~cut, ~lost
             PROVE  /\ IsPrefix(got, NonEmpty(sent))
                    /\ buf /\ seedGot /\ link \in {"open", "closed"} /\ wire = <<>> /\ cache = <<>>
                         => got = NonEmpty(sent)
  BY DEF InOrder
<1>1. PICK all, pos, k : Reaches(all, pos, k)
  BY DEF Stream, Delivered
<1>2. /\ SentIn(all, pos, sent) /\ k \in 0 .. Len(sent) /\ got = NonEmpty(SubSeq(sent, 1, k))
      /\ link \in {"open", "closed"} => Len(Ahead) = Len(all) - ReadFrom(pos, k)
  BY <1>1 DEF Reaches
<1>3. sent \in Seq(Payloads)
  BY DEF TypeOK
<1>4. IsPrefix(got, NonEmpty(sent))
  BY <1>2, <1>3, NonEmptyPrefix
<1>5. ASSUME seedGot, link \in {"open", "closed"}, wire = <<>>, cache = <<>>
      PROVE  got = NonEmpty(sent)
  <2>1. pos[k] = Len(all) /\ Len(sent) \in Nat /\ k \in Nat /\ Len(all) \in Nat
    <3>1. Len(sent) \in Nat /\ k \in Nat /\ Len(all) \in Nat /\ pos[k] \in Nat
      BY <1>2, <1>3, Placed
    <3>2. Len(Ahead) = 0
      BY <1>5 DEF Ahead
    <3>3. Len(Ahead) = Len(all) - pos[k]
      BY <1>2, <1>5 DEF ReadFrom
    <3> QED BY <3>1, <3>2, <3>3
  <2>2. k = Len(sent)
    <3> SUFFICES ASSUME k # Len(sent) PROVE FALSE
      OBVIOUS
    <3> DEFINE i == k + 1
    <3>1. i \in 1 .. Len(sent) /\ i - 1 = k
      BY <1>2, <2>1
    <3> HIDE DEF i
    <3>2. pos[i] \in 0 .. Len(all) /\ pos[i] = pos[i - 1] + Len(Encode(sent[i]))
      BY <1>2, <3>1 DEF SentIn
    <3>3. Len(Encode(sent[i])) = 3 + Len(sent[i]) /\ Len(sent[i]) \in Nat
      <4>1. sent[i] \in Payloads
        BY <1>3, <3>1, ElementOfSeq
      <4> QED BY <4>1, EncodedCells DEF HeaderLen
    <3> QED BY <2>1, <3>1, <3>2, <3>3
  <2>3. SubSeq(sent, 1, k) = sent
    BY <1>3, <2>2, SubSeqFull
  <2> QED BY <1>2, <2>3
<1> QED BY <1>4, <1>5

\* The frames zhSionReadData returns are the packets the peer sent, in order,
\* and all of them once everything that arrived was read, as long as every
\* send was complete and nothing was thrown away.
THEOREM FramesInOrder == Spec => []InOrder
<1>1. Spec => []Held
  BY Typing, HeldInit, HeldNext, PTL DEF Spec
<1>2. Spec => []Stream
  BY <1>1, Typing, StreamInit, StreamNext, PTL DEF Spec
<1>3. TypeOK /\ Stream => InOrder
  BY StreamInOrder
<1> QED BY <1>2, <1>3, Typing, PTL

-----------------------------------------------------------------------------
(***************************************************************************)
(* A session implements a channel.  InOrder says which packets were read;  *)
(* what is left is that each step is one of the channel's.                 *)
(***************************************************************************)

\* A step that puts nothing in and takes nothing out, and mends nothing.
LEMMA ChannelQuiet ==
  ASSUME UNCHANGED <<sent, got>>, cut => cut', lost => lost'
  PROVE  [Framing!Next]_Framing!channel
<1>1. UNCHANGED <<NonEmpty(sent), got>>
  OBVIOUS
<1>2. CASE ~cut' /\ ~lost'
  <2>1. UNCHANGED Framing!channel
    BY <1>1, <1>2 DEF Framing!channel
  <2> QED BY <2>1
<1>3. CASE ~(~cut' /\ ~lost')
  <2>1. Framing!Damage
    BY <1>1, <1>3 DEF Framing!Damage
  <2> QED BY <2>1 DEF Framing!Next
<1> QED BY <1>2, <1>3

\* The peer sends a frame: one packet is put in, unless it is empty.
LEMMA ChannelPut ==
  ASSUME TypeOK, NEW p \in Payloads, sent' = Append(sent, p), UNCHANGED <<got, cut, lost>>
  PROVE  [Framing!Next]_Framing!channel
<1>1. sent \in Seq(Payloads)
  BY DEF TypeOK
<1>2. NonEmpty(Append(sent, p)) = IF p = <<>> THEN NonEmpty(sent) ELSE Append(NonEmpty(sent), p)
  BY <1>1, NonEmptyMore
<1>3. CASE p = <<>>
  BY <1>2, <1>3 DEF Framing!channel
<1>4. CASE p # <<>>
  <2>1. Framing!Put(p)
    BY <1>2, <1>4 DEF Framing!Put
  <2> QED BY <1>4, <2>1 DEF Framing!Next
<1> QED BY <1>3, <1>4

\* zhSionReadData returns a frame: it is the packet whose turn it is.
LEMMA ChannelTake ==
  ASSUME TypeOK, TypeOK', InOrder', ReadFrame
  PROVE  [Framing!Next]_Framing!channel
<1>1. UNCHANGED <<sent, cut, lost>>
  BY DEF ReadFrame, net
<1>2. CASE ~(BodyLen > 0)
  <2>1. UNCHANGED got
    BY <1>2 DEF ReadFrame
  <2> QED BY <1>1, <2>1, ChannelQuiet
<1>3. CASE BodyLen > 0
  <2>1. got' = Append(got, Body)
    BY <1>3 DEF ReadFrame
  <2>2. /\ got \in Seq(Seq(Byte)) /\ got' \in Seq(Seq(Byte)) /\ NonEmpty(sent) \in Seq(Payloads)
    BY NonEmptyTyped DEF TypeOK
  <2> DEFINE n == Len(got)
             all == NonEmpty(sent)
  <2>3. n \in Nat /\ Len(all) \in Nat
    BY <2>2, LenProperties
  <2>4. Body \in Seq(Byte)
    <3>1. cache \in Seq(Byte) /\ Len(cache) \in Nat /\ FrameEnd \in 0 .. Len(cache)
      <4>1. cache \in Seq(Byte) /\ Len(cache) \in Nat
        BY LenProperties DEF TypeOK
      <4>2. Len(cache) >= 3 /\ Len(cache) >= FrameEnd
        BY DEF ReadFrame, Complete, Framed, Whole, HeaderLen
      <4>3. cache[2] \in Byte
        <5>1. 2 \in 1 .. Len(cache)
          BY <4>1, <4>2
        <5> QED BY <4>1, <5>1, ElementOfSeq
      <4>4. BodyLen \in Nat
        BY <4>3, CellAssumption DEF BodyLen
      <4> QED BY <4>1, <4>2, <4>4 DEF FrameEnd, HeaderLen
    <3>2. HeaderLen + 1 \in Nat \ {0}
      BY DEF HeaderLen
    <3> QED BY <3>1, <3>2, PartOfSeq DEF Body
  <2>5. got' # <<>> /\ Len(got') = n + 1 /\ got'[n + 1] = Body
    BY <2>1, <2>2, <2>4, AppendProperties
  <2>6. CASE cut \/ lost
    <3>1. SubSeq(got', 1, Len(got') - 1) = got
      <4>1. SubSeq(Append(got, Body), 1, n) = SubSeq(got, 1, n) /\ SubSeq(got, 1, n) = got
        <5>1. n \in 0 .. Len(got)
          BY <2>3
        <5> QED BY <2>2, <2>4, <5>1, FirstPackets, SubSeqFull
      <4>2. Len(got') - 1 = n
        BY <2>3, <2>5
      <4> QED BY <2>1, <4>1, <4>2
    <3>2. Framing!Damage
      BY <1>1, <2>5, <2>6, <3>1 DEF Framing!Damage
    <3> QED BY <3>2 DEF Framing!Next
  <2>7. CASE ~cut /\ ~lost
    <3>1. IsPrefix(got', all)
      BY <1>1, <2>7 DEF InOrder
    <3>2. Len(got') <= Len(all) /\ SubSeq(all, 1, Len(got')) = got'
      <4>1. Len(got') <= Len(all) /\ SubSeq(got', 1, Len(got')) = SubSeq(all, 1, Len(got'))
        BY <3>1 DEF IsPrefix
      <4> QED BY <2>2, <4>1, SubSeqFull
    <3>3. n < Len(all) /\ Body = all[n + 1]
      <4>1. n + 1 <= Len(all) /\ SubSeq(all, 1, n + 1) = got'
        BY <2>3, <2>5, <3>2
      <4>2. \A i \in 1 .. n + 1 : all[i] \in Payloads
        BY <2>2, <2>3, <4>1, ElementOfSeq
      <4>3. \A i \in 1 .. (n + 1) - 1 + 1 : SubSeq(all, 1, n + 1)[i] = all[1 + i - 1]
        <5>1. 1 \in Int /\ n + 1 \in Int
          BY <2>3
        <5> QED BY <4>2, <5>1, SubSeqProperties
      <4>4. got'[n + 1] = all[n + 1]
        <5> HIDE DEF n, all
        <5>1. n + 1 \in 1 .. (n + 1) - 1 + 1 /\ 1 + (n + 1) - 1 = n + 1
          BY <2>3
        <5> QED BY <4>1, <4>3, <5>1
      <4> QED BY <2>3, <2>5, <4>1, <4>4
    <3>4. Framing!Take
      BY <1>1, <2>1, <2>7, <3>3 DEF Framing!Take
    <3> QED BY <3>4 DEF Framing!Next
  <2> QED BY <2>6, <2>7
<1> QED BY <1>2, <1>3

\* A new connection: the channel begins again.
LEMMA ChannelBegins ==
  ASSUME NewHistory
  PROVE  [Framing!Next]_Framing!channel
<1>1. sent' = <<>> /\ got' = <<>> /\ cut' = FALSE /\ lost' = FALSE
  BY DEF NewHistory
<1>2. NonEmpty(sent') = <<>>
  BY <1>1, NonEmptyNone
<1>3. Framing!Begin
  BY <1>1, <1>2 DEF Framing!Begin
<1> QED BY <1>3 DEF Framing!Next

\* Nothing was sent and nothing read.
LEMMA ChannelStart == Init => Framing!Init
<1> QED BY NonEmptyNone DEF Init, Framing!Init

\* Every step is one of the channel, or none.
LEMMA ChannelNext ==
  TypeOK /\ TypeOK' /\ InOrder' /\ [Next]_vars => [Framing!Next]_Framing!channel
<1> SUFFICES ASSUME TypeOK, TypeOK', InOrder', [Next]_vars
             PROVE  [Framing!Next]_Framing!channel
  OBVIOUS
<1>1. CASE Application
  <2>1. CASE SionInit \/ Accept
    <3>1. NewHistory
      BY <2>1 DEF SionInit, Accept
    <3> QED BY <3>1, ChannelBegins
  <2>2. CASE SionInitFails \/ Connect \/ SafeClose \/ Close
    <3>1. UNCHANGED <<sent, got, cut, lost>>
      BY <2>2 DEF SionInitFails, Connect, SafeClose, Close, net, told
    <3> QED BY <3>1, ChannelQuiet
  <2> QED BY <1>1, <2>1, <2>2 DEF Application
<1>2. CASE CacheData
  <2>1. UNCHANGED <<sent, got, cut>> /\ (lost => lost')
    <3>1. CASE CacheNoSocket \/ CacheNothing \/ CacheRecvFails
      BY <3>1 DEF CacheNoSocket, CacheNothing, CacheRecvFails, net
    <3>2. CASE CacheRecv
      <4>1. PICK n : CacheOverflows(n) \/ CacheAppends(n) \/ CacheSeedPart(n) \/ CacheSeedDone(n)
        BY <3>2 DEF CacheRecv
      <4>2. UNCHANGED <<sent, got, cut>>
        BY <3>2 DEF CacheRecv
      <4>3. lost => lost'
        BY <4>1 DEF CacheOverflows, CacheAppends, CacheSeedPart, CacheSeedDone
      <4> QED BY <4>2, <4>3
    <3> QED BY <1>2, <3>1, <3>2 DEF CacheData
  <2> QED BY <2>1, ChannelQuiet
<1>3. CASE ReadData
  <2>1. CASE ReadFrame
    BY <2>1, ChannelTake
  <2>2. CASE ReadOverdue \/ ReadShort \/ ReadResync \/ ReadIncomplete \/ ReadBadCrc \/ ReadTooBig
    <3>1. UNCHANGED <<sent, got, cut>> /\ (lost => lost')
      BY <2>2 DEF ReadOverdue, ReadShort, ReadResync, ReadIncomplete, ReadBadCrc, ReadTooBig, net
    <3> QED BY <3>1, ChannelQuiet
  <2> QED BY <1>3, <2>1, <2>2 DEF ReadData
<1>4. CASE StateThread
  <2>1. UNCHANGED <<sent, got, cut, lost>>
    BY <1>4 DEF StateThread, StateTimeout, StateConnected, StateDisconnect, net
  <2> QED BY <2>1, ChannelQuiet
<1>5. CASE Network
  <2>1. CASE PeerAccept \/ PeerRefuse \/ PeerClose \/ PeerReset
    <3>1. UNCHANGED <<sent, got, lost>> /\ (cut => cut')
      BY <2>1 DEF PeerAccept, PeerRefuse, PeerClose, PeerReset, told
    <3> QED BY <3>1, ChannelQuiet
  <2>2. ASSUME NEW p \in Payloads, PeerSend(p) \/ PeerSendAfterCut(p)
        PROVE  [Framing!Next]_Framing!channel
    <3>1. UNCHANGED <<got, lost>>
      BY <2>2 DEF PeerSend, PeerSendAfterCut, told
    <3>2. (sent' = Append(sent, p) /\ UNCHANGED cut) \/ (sent' = sent /\ (cut => cut'))
      BY <2>2 DEF PeerSend, PeerSendAfterCut
    <3> QED BY <3>1, <3>2, ChannelPut, ChannelQuiet
  <2> QED BY <1>5, <2>1, <2>2 DEF Network
<1>6. CASE Tick \/ UNCHANGED vars
  <2>1. UNCHANGED <<sent, got, cut, lost>>
    BY <1>6 DEF Tick, vars, net, told
  <2> QED BY <2>1, ChannelQuiet
<1> QED BY <1>1, <1>2, <1>3, <1>4, <1>5, <1>6 DEF Next

\* A session implements a channel: each frame read is the packet whose turn
\* it is, and stays read, until an error or a cut send ends the promise.
THEOREM ImplementsChannel == Spec => IsChannel
<1>1. Init => Framing!Init
  BY ChannelStart
<1>2. TypeOK /\ TypeOK' /\ InOrder' /\ [Next]_vars => [Framing!Next]_Framing!channel
  BY ChannelNext
<1> QED BY <1>1, <1>2, Typing, FramesInOrder, PTL DEF Spec, IsChannel, Framing!Spec

=============================================================================
