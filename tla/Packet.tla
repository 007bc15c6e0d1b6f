------------------------------- MODULE Packet -------------------------------
(***************************************************************************)
(* TzhPacket and TzhPacketHeap of zhNet_Core: a buffer that is written     *)
(* from the front, item by item, and read the same way.  The two have the  *)
(* same functions; they differ in where the buffer and its length are.     *)
(*                                                                         *)
(* A number or a flag is the bytes it has in memory, as many as its type;  *)
(* writer and reader are taken to have the same types.  The memory here    *)
(* reaches two bytes behind the buffer, as far as the functions can write. *)
(***************************************************************************)
EXTENDS Integers, Sequences

CONSTANTS
  Octet,
  PackLength,  \* ZH_NET_PACKET_BODY_LENGTH, or nBufLenght
  WordValues   \* how many values an unsigned short has

ASSUME PacketAssumption ==
  /\ 0 \in Octet
  /\ PackLength \in Nat /\ WordValues \in Nat /\ PackLength + 2 < WordValues

PackMemory == [0 .. PackLength + 1 -> Octet]
TzhPacket == [wPos : 0 .. WordValues - 1, wSize : 0 .. WordValues - 1,
              btBuf : PackMemory]

\* zhPackWriteInit, on memory that holds anything.
PackWriteInit(memory) ==
  [wPos |-> 0, wSize |-> 0,
   btBuf |-> [i \in DOMAIN memory |-> IF i < PackLength THEN 0 ELSE memory[i]]]

\* zhPackReadInit, of a frame that fits.
PackReadInit(memory, s) ==
  [wPos |-> 0, wSize |-> Len(s),
   btBuf |-> [i \in DOMAIN memory |-> IF i < Len(s) THEN s[i + 1] ELSE memory[i]]]

-----------------------------------------------------------------------------
(* Writing.  When a function returns 0 the packet is as it was.             *)

Put(p, s) ==
  [wPos |-> (p.wPos + Len(s)) % WordValues, wSize |-> (p.wSize + Len(s)) % WordValues,
   btBuf |-> [i \in DOMAIN p.btBuf |->
                IF i \in p.wPos .. p.wPos + Len(s) - 1 THEN s[i - p.wPos + 1]
                ELSE p.btBuf[i]]]

\* What every writer asks; for a string, of what comes before its end.
Fits(p, s) == p.wPos + Len(s) <= PackLength

\* The numbers, the flags, and zhPackWriteBinary.
PackWrite(p, s) == IF Fits(p, s) THEN Put(p, s) ELSE p

\* zhPackWriteString and zhPackWriteStringUnicode, of a string without its end.
PackWriteText(p, s, end) == IF Fits(p, s) THEN Put(p, s \o end) ELSE p
PackWriteString(p, s) == PackWriteText(p, s, <<0>>)
PackWriteUnicode(p, s) == PackWriteText(p, s, <<0, 0>>)

-----------------------------------------------------------------------------
(* Reading: what was read and the packet after it.  Nothing is compared     *)
(* with wSize, and with the length of the buffer only by zhPackReadBinary.  *)

\* n bytes are taken, and as many as the end of a string has are passed over.
PackReadBefore(p, n, end) ==
  [got |-> [k \in 1 .. n |-> p.btBuf[p.wPos + k - 1]],
   left |-> [p EXCEPT !.wPos = (@ + n + end) % WordValues]]

\* The numbers and the flags.
PackRead(p, n) == PackReadBefore(p, n, 0)

PackReadBinary(p, n) ==
  IF n > PackLength THEN [got |-> <<>>, left |-> p] ELSE PackRead(p, n)

\* The lengths at which a string can end; C stops at the first.
Ends(p) == {n \in 0 .. PackLength + 1 - p.wPos : p.btBuf[p.wPos + n] = 0}
UnicodeEnds(p) ==
  {n \in 0 .. PackLength - p.wPos :
     n % 2 = 0 /\ p.btBuf[p.wPos + n] = 0 /\ p.btBuf[p.wPos + n + 1] = 0}
First(lengths) == CHOOSE n \in lengths : \A m \in lengths : n <= m

\* zhPackReadString and zhPackReadStringUnicode, when there is an end.
PackReadString(p) == PackReadBefore(p, First(Ends(p)), 1)
PackReadUnicode(p) == PackReadBefore(p, First(UnicodeEnds(p)), 2)

\* zhPackReadStringN into max bytes.  strncpy puts no end behind max - 2 bytes:
\* the byte there, which holds anything, can come to be part of the string.
PackReadStringN(p, max) ==
  IF First(Ends(p)) < max - 2 THEN {PackReadString(p)}
  ELSE {PackReadBefore(p, max - 2, 1)}
         \cup {[got |-> Append(PackRead(p, max - 2).got, b),
                left |-> PackReadBefore(p, max - 2, 2).left] : b \in Octet \ {0}}

-----------------------------------------------------------------------------
\* What a reader finds at a position: the bytes of s.
Holds(memory, at, s) == \A k \in DOMAIN s : memory[at + k - 1] = s[k]
=============================================================================
