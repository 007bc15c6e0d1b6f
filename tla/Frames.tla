------------------------------- MODULE Frames -------------------------------
(***************************************************************************)
(* The three framings of linux_serv/lib for serial lines: hxnet, dtrs and  *)
(* miniData.  Each has a function that builds a frame and one that looks   *)
(* for a frame at the head of a receive buffer.  A buffer is its array mem *)
(* and the number len of bytes received; the bytes from len on are what    *)
(* was left there before, and some of these functions read them.           *)
(*                                                                         *)
(* The framings differ in the values of their marks only; the models share *)
(* one value for each.  A builder is called with a parameter (parm # NULL) *)
(* of the length it is told.                                               *)
(***************************************************************************)
EXTENDS Integers, Sequences, FiniteSets

CONSTANTS
  Base,      \* 256, the number of values of a byte
  Start,     \* 0xAA, 0xDA, 0xAF: the first byte of a frame
  Plain,     \* 0xBA, 0xEA, 0xFA: the last byte of a frame
  Checked,   \* 0xBB, 0xEB: the last byte of a frame before its CRC
  Crc(_)     \* the CRC16 of a sequence of bytes

Byte == 0 .. Base - 1
Long == Base - 1   \* 0xFF: two bytes of length follow

ASSUME ByteAssumption ==
  /\ Base \in Nat \ {0}
  /\ Start \in Byte /\ Plain \in Byte /\ Checked \in Byte
  /\ Plain # Checked

Word(lo, hi) == lo + Base * hi
Bytes(w) == <<w % Base, (w \div Base) % Base>>

\* hxCRC16 and dtrsCRC16 take the length as an unsigned char.
Checksum(s) == Crc(SubSeq(s, 1, Len(s) % Base))

-----------------------------------------------------------------------------
(* Building a frame: the bytes written to dst_buf. *)

LengthField(n) == IF n < Long THEN <<n>> ELSE <<Long>> \o Bytes(n)

Closed(s, checked) ==
  IF checked THEN LET t == Append(s, Checked) IN t \o Bytes(Checksum(t))
             ELSE Append(s, Plain)

hxNetCreateFrame(flag, parm, checked) ==
  IF Len(flag) > Base - 1
    THEN <<>>
    ELSE Closed(<<Start>> \o flag \o <<0>> \o LengthField(Len(parm)) \o parm, checked)

dtrsNetCreateFrame(parm, checked) ==
  Closed(<<Start>> \o LengthField(Len(parm)) \o parm, checked)

miniDataCreate(parm) ==
  IF parm = <<>> THEN <<>>
                 ELSE Closed(<<Start>> \o LengthField(Len(parm)) \o parm, FALSE)

-----------------------------------------------------------------------------
(* Looking for a frame: the number of bytes the caller is to remove from   *)
(* the buffer, *is_get_cmd_success, and the frame.                         *)

Cells(mem, from, n) == [i \in 1 .. n |-> mem[from + i - 1]]

Skip(n) == [take |-> n, ok |-> FALSE, flag |-> <<>>, parm |-> <<>>]
Found(n, flag, parm) == [take |-> n, ok |-> TRUE, flag |-> flag, parm |-> parm]

\* The place of the first received byte that is b, from on; len when there is
\* none: behind the bytes with no b up to them.
Position(mem, len, from, b) ==
  from + Cardinality({i \in from .. len - 1 : \A j \in from .. i : mem[j] # b})

\* The parameter behind a length field at n: where it begins and ends.
ParmAt(mem, n)  == IF mem[n] = Long THEN n + 3 ELSE n + 1
ParmLen(mem, n) == IF mem[n] = Long THEN Word(mem[n + 1], mem[n + 2]) ELSE mem[n]
EndAt(mem, n)   == ParmAt(mem, n) + ParmLen(mem, n)
Parm(mem, n)    == Cells(mem, ParmAt(mem, n), ParmLen(mem, n))

ChecksumHolds(mem, end) ==
  Word(mem[end + 1], mem[end + 2]) = Checksum(Cells(mem, 0, end + 1))

\* hxnet looks at the checksum without asking whether it has arrived.
hxFrame(mem, len, n, flag) ==
  LET end == EndAt(mem, n) IN
  CASE len < end + 1                                  -> Skip(0)
    [] len >= end + 1 /\ mem[end] = Plain             -> Found(end + 1, flag, Parm(mem, n))
    [] /\ len >= end + 1 /\ mem[end] = Checked
       /\ ChecksumHolds(mem, end)                     -> Found(end + 3, flag, Parm(mem, n))
    [] OTHER                                          -> Skip(1)

hxNetGetFrame(mem, len) ==
  LET start == Position(mem, len, 0, Start)
      nul   == Position(mem, len, 1, 0)
  IN  CASE len < 4                                    -> Skip(0)
        [] len >= 4 /\ start > 0                      -> Skip(start)
        [] len >= 4 /\ start = 0 /\ nul = len         -> Skip(1)
        [] OTHER -> hxFrame(mem, len, nul + 1, Cells(mem, 1, nul - 1))

\* Mutant: as in hxnet, the checksum is read before it has arrived.
BugChecksumUnasked(mem, len) == hxFrame(mem, len, 1, <<>>)

dtrsFrame(mem, len) ==
  LET end == EndAt(mem, 1) IN
  CASE len < end + 1                                  -> Skip(0)
    [] len >= end + 1 /\ mem[end] = Plain             -> Found(end + 1, <<>>, Parm(mem, 1))
    [] len \in {end + 1, end + 2} /\ mem[end] = Checked -> Skip(0)
    [] /\ len >= end + 3 /\ mem[end] = Checked
       /\ ChecksumHolds(mem, end)                     -> Found(end + 3, <<>>, Parm(mem, 1))
    [] OTHER                                          -> Skip(1)

\* Mutant: the shortest frame has six bytes, as the comment in the code says.
BugSixBytes(mem, len) ==
  IF len < 6 THEN Skip(0)
  ELSE IF Position(mem, len, 0, Start) > 0 THEN Skip(Position(mem, len, 0, Start))
  ELSE dtrsFrame(mem, len)

dtrsNetGetFrame(mem, len) ==
  LET start == Position(mem, len, 0, Start)
  IN  CASE len < 4                                    -> Skip(0)
        [] len >= 4 /\ start > 0                      -> Skip(start)
        [] OTHER                                      -> dtrsFrame(mem, len)

miniDataFrame(mem, len) ==
  LET end == EndAt(mem, 1) IN
  CASE ParmLen(mem, 1) = 0                            -> Skip(1)
    [] ParmLen(mem, 1) > 0 /\ len < end + 1           -> Skip(0)
    [] /\ ParmLen(mem, 1) > 0 /\ len >= end + 1
       /\ mem[end] = Plain                            -> Found(end + 1, <<>>, Parm(mem, 1))
    [] OTHER                                          -> Skip(1)

miniDataGet(mem, len) ==
  LET start == Position(mem, len, 0, Start)
  IN  CASE len < 3                                    -> Skip(0)
        [] len >= 3 /\ start > 0                      -> Skip(start)
        [] OTHER                                      -> miniDataFrame(mem, len)
=============================================================================
