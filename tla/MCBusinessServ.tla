---------------------------- MODULE MCBusinessServ ----------------------------
(***************************************************************************)
(* BusinessServ for TLC: cells 0..3, of which 3 is the flag and 1 a        *)
(* keep-alive.  The messages of the server are built with Packet, which is *)
(* evaluated here for every two items, in a buffer of four bytes.          *)
(***************************************************************************)
EXTENDS BusinessServ, Packet

MCCrc(s) == IF s = <<>> THEN 0 ELSE (1 + s[1] + Len(s)) % 4
MCBodies == {<<1>>}
MCJunk == {<<3, 1, 0, 3>>, <<2, 3, 0, 0, 2>>}

\* Two pieces with a wrong CRC: shifting leaves an incomplete frame of the first,
\* and of the second another wrong one, which is shifted in its turn.
MCLongJunk == {<<3, 2, 0, 0, 3, 2, 2>>, <<3, 0, 1, 3, 0, 1, 2>>}

Items == UNION {[1 .. n -> Octet] : n \in 0 .. 4}
Dirty == PackWriteInit([i \in 0 .. PackLength + 1 |-> 1])

\* Two items of binary data are written and read back.
ASSUME PacketsRight ==
  \A s, t \in Items : Len(s) + Len(t) <= PackLength =>
    LET written == PackWrite(PackWrite(Dirty, s), t)
        first == PackRead([written EXCEPT !.wPos = 0], Len(s)) IN
    /\ first.got = s /\ PackReadBinary(first.left, Len(t)).got = t
    /\ PackReadInit(Dirty.btBuf, s).wSize = Len(s)
    /\ PackRead(PackReadInit(Dirty.btBuf, s), Len(s)).got = s

\* The same of strings of bytes 1, zhPackReadStringN with and without room.
ASSUME StringsRight ==
  \A n, m \in 0 .. 3 : n + 1 + m <= PackLength =>
    LET Ones(k) == [i \in 1 .. k |-> 1]
        written == PackWriteString(PackWriteString(Dirty, Ones(n)), Ones(m))
        start == [written EXCEPT !.wPos = 0] IN
    /\ PackReadString(start).got = Ones(n)
    /\ PackReadString(PackReadString(start).left).got = Ones(m)
    /\ PackReadStringN(start, n + 3) = {PackReadString(start)}
    /\ \A r \in PackReadStringN(start, n + 2) : n = Len(r.got) \/ n + 1 = Len(r.got)
    /\ n % 2 = 0 => PackReadUnicode([PackWriteUnicode(Dirty, Ones(n)) EXCEPT !.wPos = 0]).got
                     = Ones(n)
=============================================================================
