----------------------------- MODULE FramesProofs -----------------------------
(***************************************************************************)
(* What the functions that look for a frame return for every buffer, and   *)
(* for every buffer that begins with a frame one of the builders made, of  *)
(* which the rest may not have arrived; and the invariants of the line.  A *)
(* CRC16 has 16 bits.                                                      *)
(***************************************************************************)
EXTENDS FrameLine, FiniteSetTheorems, SequenceTheorems, TLAPS

CrcHas16Bits == \A s \in Seq(Byte) : Crc(s) \in 0 .. Base * Base - 1

\* The buffer holds s from a place on.
Holds(m, at, s) == \A i \in 1 .. Len(s) : m[at + i - 1] = s[i]

(***************************************************************************)
(* Bytes and lengths.                                                      *)
(***************************************************************************)

\* A number of 16 bits, taken apart and put together again.
LEMMA TwoBytes ==
  ASSUME NEW n \in 0 .. Base * Base - 1
  PROVE  /\ Bytes(n) \in Seq(Byte) /\ Len(Bytes(n)) = 2
         /\ Word(Bytes(n)[1], Bytes(n)[2]) = n
<1>1. Base \in Nat \ {0} /\ n \in Int
  BY ByteAssumption
<1> DEFINE q == n \div Base
           r == n % Base
<1>2. n = Base * q + r /\ r \in 0 .. Base - 1 /\ q \in Int
  BY <1>1
<1>3. q \in 0 .. Base - 1
  BY <1>1, <1>2
<1>4. q % Base = q
  BY <1>1, <1>3
<1>5. Bytes(n) = <<r, q>>
  BY <1>4 DEF Bytes
<1> HIDE DEF q, r
<1>6. Word(r, q) = n
  BY <1>1, <1>2, <1>3 DEF Word
<1>7. r \in Byte /\ q \in Byte
  BY <1>2, <1>3 DEF Byte
<1>8. <<r, q>> \in Seq(Byte) /\ Len(<<r, q>>) = 2 /\ <<r, q>>[1] = r /\ <<r, q>>[2] = q
  BY <1>7
<1> QED BY <1>5, <1>6, <1>8

\* The bytes written for any number are bytes.
LEMMA BytesTyped ==
  ASSUME NEW n \in Int
  PROVE  Bytes(n) \in Seq(Byte) /\ Len(Bytes(n)) = 2
<1>1. Base \in Nat \ {0} /\ n \div Base \in Int
  BY ByteAssumption
<1>2. n % Base \in Byte /\ (n \div Base) % Base \in Byte
  BY <1>1 DEF Byte
<1> QED BY <1>2 DEF Bytes

\* A checksum is that of a sequence of bytes.
LEMMA ChecksumTyped ==
  ASSUME CrcHas16Bits, NEW s \in Seq(Byte)
  PROVE  Checksum(s) \in 0 .. Base * Base - 1
<1>1. Base \in Nat \ {0} /\ Len(s) \in Nat /\ \A i \in 1 .. Len(s) : s[i] \in Byte
  BY ByteAssumption, LenProperties
<1>2. Len(s) % Base \in Nat /\ Len(s) % Base <= Len(s)
  BY <1>1
<1>3. SubSeq(s, 1, Len(s) % Base) \in Seq(Byte)
  BY <1>1, <1>2, SubSeqProperties
<1> QED BY <1>3 DEF Checksum, CrcHas16Bits

\* The length field, by the two forms it has.
LEMMA LengthFieldTyped ==
  ASSUME NEW n \in Nat
  PROVE  /\ LengthField(n) \in Seq(Byte)
         /\ Len(LengthField(n)) \in Nat /\ Len(LengthField(n)) >= 1
         /\ n < Long => LengthField(n) = <<n>> /\ Len(LengthField(n)) = 1
         /\ ~(n < Long) => /\ Len(LengthField(n)) = 3
                           /\ LengthField(n)[1] = Long
                           /\ LengthField(n)[2] = Bytes(n)[1]
                           /\ LengthField(n)[3] = Bytes(n)[2]
<1>1. Base \in Nat \ {0} /\ Long \in Byte
  BY ByteAssumption DEF Long, Byte
<1>2. CASE n < Long
  <2>1. LengthField(n) = <<n>> /\ n \in Byte
    BY <1>1, <1>2 DEF LengthField, Long, Byte
  <2>2. LengthField(n) \in Seq(Byte) /\ Len(LengthField(n)) = 1
    BY <2>1
  <2> QED BY <1>2, <2>1, <2>2
<1>3. CASE ~(n < Long)
  <2>1. <<Long>> \in Seq(Byte) /\ Len(<<Long>>) = 1 /\ <<Long>>[1] = Long
    BY <1>1
  <2>2. Bytes(n) \in Seq(Byte) /\ Len(Bytes(n)) = 2
    BY BytesTyped
  <2>3. LengthField(n) = <<Long>> \o Bytes(n)
    BY <1>3 DEF LengthField
  <2>4. /\ LengthField(n) \in Seq(Byte) /\ Len(LengthField(n)) = 3
        /\ LengthField(n)[1] = Long
        /\ LengthField(n)[2] = Bytes(n)[1] /\ LengthField(n)[3] = Bytes(n)[2]
    BY <2>1, <2>2, <2>3, ConcatProperties
  <2> QED BY <1>3, <2>4
<1> QED BY <1>2, <1>3

-----------------------------------------------------------------------------
(***************************************************************************)
(* Buffers.                                                                *)
(***************************************************************************)

\* A buffer that holds s \o t holds both, one behind the other.
LEMMA HoldsParts ==
  ASSUME NEW m, NEW at \in Int, NEW s \in Seq(Byte), NEW t \in Seq(Byte),
         Holds(m, at, s \o t)
  PROVE  Holds(m, at, s) /\ Holds(m, at + Len(s), t)
<1>1. /\ Len(s) \in Nat /\ Len(t) \in Nat /\ Len(s \o t) = Len(s) + Len(t)
      /\ \A i \in 1 .. Len(s) + Len(t) :
           (s \o t)[i] = IF i <= Len(s) THEN s[i] ELSE t[i - Len(s)]
  BY LenProperties, ConcatProperties
<1>2. \A i \in 1 .. Len(s) + Len(t) : m[at + i - 1] = (s \o t)[i]
  BY <1>1 DEF Holds
<1>3. Holds(m, at, s)
  BY <1>1, <1>2 DEF Holds
<1>4. ASSUME NEW i \in 1 .. Len(t) PROVE m[(at + Len(s)) + i - 1] = t[i]
  <2>1. i + Len(s) \in 1 .. Len(s) + Len(t) /\ ~(i + Len(s) <= Len(s))
        /\ (i + Len(s)) - Len(s) = i
    BY <1>1
  <2>2. m[at + (i + Len(s)) - 1] = t[i]
    BY <1>1, <1>2, <2>1
  <2>3. at + (i + Len(s)) - 1 = (at + Len(s)) + i - 1
    BY <1>1
  <2> QED BY <2>2, <2>3
<1> QED BY <1>3, <1>4 DEF Holds

\* A buffer that holds Append(s, b) holds s, and b behind it.
LEMMA HoldsAppend ==
  ASSUME NEW m, NEW at \in Int, NEW s \in Seq(Byte), NEW b \in Byte,
         Holds(m, at, Append(s, b))
  PROVE  Holds(m, at, s) /\ m[at + Len(s)] = b
<1>1. <<b>> \in Seq(Byte) /\ Len(<<b>>) = 1 /\ <<b>>[1] = b
  OBVIOUS
<1>2. Holds(m, at, s) /\ Holds(m, at + Len(s), <<b>>)
  BY <1>1, AppendIsConcat, HoldsParts
<1>3. m[(at + Len(s)) + 1 - 1] = b /\ Len(s) \in Nat
  BY <1>1, <1>2, LenProperties DEF Holds
<1> QED BY <1>2, <1>3

\* Reading back what a buffer holds.
LEMMA CellsOf ==
  ASSUME NEW m, NEW at \in Int, NEW s \in Seq(Byte), Holds(m, at, s)
  PROVE  Cells(m, at, Len(s)) = s
<1>1. Len(s) \in Nat /\ s \in [1 .. Len(s) -> Byte]
  BY LenProperties
<1>2. \A i \in 1 .. Len(s) : Cells(m, at, Len(s))[i] = s[i]
  BY <1>1 DEF Cells, Holds
<1> QED BY <1>1, <1>2 DEF Cells

\* The first b of the buffer is found where it is.
LEMMA PositionIs ==
  ASSUME NEW m, NEW n \in Nat, NEW from \in Nat, NEW b, NEW k \in from .. n - 1,
         m[k] = b, \A j \in from .. k - 1 : m[j] # b
  PROVE  Position(m, n, from, b) = k
<1> DEFINE before == {i \in from .. n - 1 : \A j \in from .. i : m[j] # b}
<1>1. before = from .. k - 1
  OBVIOUS
<1>2. Cardinality(from .. k - 1) = k - from
  <2>1. from \in Int /\ k - 1 \in Int
    OBVIOUS
  <2> QED BY <2>1, FS_Interval
<1>3. Cardinality(before) = k - from
  BY <1>1, <1>2
<1>4. Position(m, n, from, b) = from + Cardinality(before)
  BY DEF Position
<1> HIDE DEF before
<1> QED BY <1>3, <1>4

\* What is found lies among the received bytes or just behind them.
LEMMA PositionRange ==
  ASSUME NEW m, NEW n \in Nat, NEW from \in 0 .. n, NEW b
  PROVE  Position(m, n, from, b) \in from .. n
<1> DEFINE before == {i \in from .. n - 1 : \A j \in from .. i : m[j] # b}
           last == n - 1
<1>1. from \in Int /\ last \in Int
  OBVIOUS
<1>2. last = n - 1 /\ before \subseteq from .. last
  OBVIOUS
<1>3. Position(m, n, from, b) = from + Cardinality(before)
  BY DEF Position
<1> HIDE DEF before, last
<1>4. /\ IsFiniteSet(from .. last)
      /\ Cardinality(from .. last) = IF from > last THEN 0 ELSE last - from + 1
  BY <1>1, FS_Interval
<1>5. /\ Cardinality(before) \in Nat
      /\ Cardinality(before) <= Cardinality(from .. last)
  BY <1>2, <1>4, FS_Subset, FS_CardinalityType
<1> QED BY <1>2, <1>3, <1>4, <1>5

\* A length field, read where it is.
LEMMA FieldHeld ==
  ASSUME NEW m, NEW at \in Nat, NEW p \in Seq(Byte), Len(p) < Base * Base,
         Holds(m, at, LengthField(Len(p)))
  PROVE  ParmAt(m, at) = at + Len(LengthField(Len(p))) /\ ParmLen(m, at) = Len(p)
<1> DEFINE n == Len(p)
           field == LengthField(n)
<1>1. n \in Nat /\ n \in 0 .. Base * Base - 1
  BY LenProperties, ByteAssumption
<1>2. field \in Seq(Byte) /\ Len(field) \in Nat
  BY <1>1, LengthFieldTyped, LenProperties
<1>3. CASE n < Long
  <2>1. field = <<n>> /\ Len(field) = 1
    BY <1>1, <1>3, LengthFieldTyped
  <2>2. m[at + 1 - 1] = field[1]
    BY <2>1 DEF Holds
  <2>3. m[at] = n /\ n # Long
    BY <1>3, <2>1, <2>2, ByteAssumption DEF Long
  <2> QED BY <2>1, <2>3 DEF ParmAt, ParmLen
<1>4. CASE ~(n < Long)
  <2>1. /\ Len(field) = 3 /\ field[1] = Long
        /\ field[2] = Bytes(n)[1] /\ field[3] = Bytes(n)[2]
    BY <1>1, <1>4, LengthFieldTyped
  <2>2. m[at + 1 - 1] = field[1] /\ m[at + 2 - 1] = field[2] /\ m[at + 3 - 1] = field[3]
    BY <2>1 DEF Holds
  <2>3. at + 1 - 1 = at /\ at + 2 - 1 = at + 1 /\ at + 3 - 1 = at + 2
    OBVIOUS
  <2>4. m[at] = Long /\ m[at + 1] = Bytes(n)[1] /\ m[at + 2] = Bytes(n)[2]
    BY <2>1, <2>2, <2>3
  <2>5. Word(m[at + 1], m[at + 2]) = n
    BY <1>1, <2>4, TwoBytes
  <2> QED BY <2>1, <2>4, <2>5 DEF ParmAt, ParmLen
<1> QED BY <1>3, <1>4

\* A length field and a parameter, read where they are.
LEMMA ParmHeld ==
  ASSUME NEW m, NEW at \in Nat, NEW p \in Seq(Byte), Len(p) < Base * Base,
         Holds(m, at, LengthField(Len(p))),
         Holds(m, at + Len(LengthField(Len(p))), p)
  PROVE  /\ ParmLen(m, at) = Len(p) /\ Parm(m, at) = p
         /\ EndAt(m, at) = at + Len(LengthField(Len(p))) + Len(p)
<1> DEFINE n == Len(p)
           field == LengthField(n)
<1>1. n \in Nat /\ n \in 0 .. Base * Base - 1
  BY LenProperties, ByteAssumption
<1>2. field \in Seq(Byte) /\ Len(field) \in Nat
  BY <1>1, LengthFieldTyped, LenProperties
<1>3. ParmAt(m, at) = at + Len(field) /\ ParmLen(m, at) = n
  BY FieldHeld
<1>4. Parm(m, at) = p
  <2>1. at + Len(field) \in Int
    BY <1>2
  <2>2. Cells(m, at + Len(field), Len(p)) = p
    BY <2>1, CellsOf
  <2> QED BY <1>3, <2>2 DEF Parm
<1> QED BY <1>3, <1>4 DEF EndAt

\* The end of a frame, read where it is.
LEMMA ClosedHeld ==
  ASSUME CrcHas16Bits, NEW m, NEW s \in Seq(Byte), NEW checked \in BOOLEAN,
         Holds(m, 0, Closed(s, checked))
  PROVE  /\ Holds(m, 0, s)
         /\ ~checked => m[Len(s)] = Plain /\ Len(Closed(s, checked)) = Len(s) + 1
         /\ checked => /\ m[Len(s)] = Checked /\ ChecksumHolds(m, Len(s))
                        /\ Len(Closed(s, checked)) = Len(s) + 3
<1>1. Plain \in Byte /\ Checked \in Byte /\ Len(s) \in Nat
  BY ByteAssumption, LenProperties
<1>2. CASE ~checked
  <2>1. Closed(s, checked) = Append(s, Plain)
    BY <1>2 DEF Closed
  <2>2. Holds(m, 0, s) /\ m[0 + Len(s)] = Plain
    BY <1>1, <2>1, HoldsAppend
  <2>3. m[Len(s)] = Plain /\ Len(Closed(s, checked)) = Len(s) + 1
    BY <1>1, <2>1, <2>2, AppendProperties
  <2> QED BY <1>2, <2>2, <2>3
<1>3. CASE checked
  <2> DEFINE t == Append(s, Checked)
             sum == Checksum(t)
  <2>1. t \in Seq(Byte) /\ Len(t) = Len(s) + 1
    BY <1>1, AppendProperties
  <2>2. sum \in 0 .. Base * Base - 1
    BY <2>1, ChecksumTyped
  <2>3. Bytes(sum) \in Seq(Byte) /\ Len(Bytes(sum)) = 2 /\ Word(Bytes(sum)[1], Bytes(sum)[2]) = sum
    BY <2>2, TwoBytes
  <2>4. Closed(s, checked) = t \o Bytes(sum)
    BY <1>3 DEF Closed
  <2> DEFINE crc == Bytes(sum)
  <2> HIDE DEF sum
  <2> HIDE DEF t, crc
  <2>5. Holds(m, 0, t) /\ Holds(m, 0 + Len(t), crc)
    <3>1. Holds(m, 0, t \o crc) /\ 0 \in Int /\ crc \in Seq(Byte)
      BY <2>3, <2>4 DEF t, crc
    <3> QED BY <2>1, <3>1, HoldsParts
  <2>6. Holds(m, 0, s) /\ m[0 + Len(s)] = Checked
    <3>1. Holds(m, 0, Append(s, Checked)) /\ 0 \in Int
      BY <2>5 DEF t
    <3> QED BY <1>1, <3>1, HoldsAppend
  <2>7. m[0 + Len(t) + 1 - 1] = Bytes(sum)[1] /\ m[0 + Len(t) + 2 - 1] = Bytes(sum)[2]
    BY <2>3, <2>5 DEF Holds, crc
  <2>8. 0 + Len(t) + 1 - 1 = Len(s) + 1 /\ 0 + Len(t) + 2 - 1 = Len(s) + 2
    BY <1>1, <2>1
  <2>9. Word(m[Len(s) + 1], m[Len(s) + 2]) = sum
    BY <2>3, <2>7, <2>8
  <2>10. Cells(m, 0, Len(s) + 1) = t
    <3>1. 0 \in Int
      OBVIOUS
    <3>2. Cells(m, 0, Len(t)) = t
      BY <2>1, <2>5, <3>1, CellsOf
    <3> QED BY <2>1, <3>2
  <2>11. ChecksumHolds(m, Len(s))
    BY <2>9, <2>10 DEF ChecksumHolds, sum
  <2>12. Len(Closed(s, checked)) = Len(s) + 3
    <3>1. Closed(s, checked) = t \o crc
      BY <2>4 DEF t, crc
    <3>2. crc \in Seq(Byte) /\ Len(crc) = 2
      BY <2>3 DEF crc
    <3>3. Len(t \o crc) = Len(t) + Len(crc)
      BY <2>1, <3>2, ConcatProperties
    <3> QED BY <1>1, <2>1, <3>1, <3>2, <3>3
  <2>13. m[Len(s)] = Checked
    BY <1>1, <2>6
  <2> QED BY <1>3, <2>6, <2>11, <2>12, <2>13
<1> QED BY <1>2, <1>3

\* What comes before the end of a dtrs or miniData frame is bytes.
LEMMA HeadTyped ==
  ASSUME NEW p \in Seq(Byte)
  PROVE  /\ <<Start>> \o LengthField(Len(p)) \o p \in Seq(Byte)
         /\ Len(<<Start>> \o LengthField(Len(p)) \o p) \in Nat
         /\ Len(<<Start>> \o LengthField(Len(p)) \o p) >= 2 + Len(p)
<1> DEFINE field == LengthField(Len(p))
<1>1. Len(p) \in Nat /\ field \in Seq(Byte) /\ Len(field) \in Nat /\ Len(field) >= 1
  <2>1. Len(p) \in Nat
    BY LenProperties
  <2> QED BY <2>1, LengthFieldTyped
<1>2. <<Start>> \in Seq(Byte) /\ Len(<<Start>>) = 1
  BY ByteAssumption
<1> HIDE DEF field
<1>3. <<Start>> \o field \in Seq(Byte) /\ Len(<<Start>> \o field) = 1 + Len(field)
  BY <1>1, <1>2, ConcatProperties
<1>4. <<Start>> \o field \o p \in Seq(Byte)
      /\ Len(<<Start>> \o field \o p) = 1 + Len(field) + Len(p)
  BY <1>1, <1>3, ConcatProperties
<1> QED BY <1>1, <1>4 DEF field

\* What comes before the end of a dtrs or miniData frame.
LEMMA HeadHeld ==
  ASSUME NEW m, NEW p \in Seq(Byte), Len(p) < Base * Base,
         Holds(m, 0, <<Start>> \o LengthField(Len(p)) \o p)
  PROVE  /\ m[0] = Start
         /\ ParmLen(m, 1) = Len(p) /\ Parm(m, 1) = p
         /\ EndAt(m, 1) = Len(<<Start>> \o LengthField(Len(p)) \o p)
<1> DEFINE field == LengthField(Len(p))
<1>1. Len(p) \in Nat /\ field \in Seq(Byte) /\ Len(field) \in Nat
  BY LenProperties, LengthFieldTyped
<1>2. <<Start>> \in Seq(Byte) /\ Len(<<Start>>) = 1 /\ <<Start>>[1] = Start
  BY ByteAssumption
<1> HIDE DEF field
<1>3. <<Start>> \o field \in Seq(Byte) /\ Len(<<Start>> \o field) = 1 + Len(field)
  BY <1>1, <1>2, ConcatProperties
<1>4. Len(<<Start>> \o field \o p) = 1 + Len(field) + Len(p)
  BY <1>1, <1>3, ConcatProperties
<1>5. Holds(m, 0, <<Start>> \o field) /\ Holds(m, 0 + (1 + Len(field)), p)
  <2> DEFINE h == <<Start>> \o field
  <2>1. Holds(m, 0, h \o p) /\ 0 \in Int
    BY DEF field
  <2>2. h \in Seq(Byte) /\ Len(h) = 1 + Len(field)
    BY <1>3
  <2> HIDE DEF h
  <2>3. Holds(m, 0, h) /\ Holds(m, 0 + Len(h), p)
    BY <2>1, <2>2, HoldsParts
  <2> QED BY <2>2, <2>3 DEF h
<1>6. Holds(m, 0, <<Start>>) /\ Holds(m, 0 + 1, field)
  <2> DEFINE h == <<Start>>
  <2>1. Holds(m, 0, h \o field) /\ 0 \in Int /\ h \in Seq(Byte) /\ Len(h) = 1
    BY <1>2, <1>5
  <2> HIDE DEF h
  <2>2. Holds(m, 0, h) /\ Holds(m, 0 + Len(h), field)
    BY <1>1, <2>1, HoldsParts
  <2> QED BY <2>1, <2>2 DEF h
<1>7. m[0 + 1 - 1] = Start
  <2> DEFINE h == <<Start>>
  <2>1. Len(h) = 1 /\ h[1] = Start /\ Holds(m, 0, h)
    BY <1>2, <1>6
  <2> HIDE DEF h
  <2> QED BY <2>1 DEF Holds
<1>8. 0 + (1 + Len(field)) = 1 + Len(field) /\ 0 + 1 = 1 /\ 0 + 1 - 1 = 0
  BY <1>1
<1>9. Holds(m, 1, field) /\ Holds(m, 1 + Len(field), p)
  BY <1>5, <1>6, <1>8
<1> QED BY <1>4, <1>7, <1>8, <1>9, ParmHeld DEF field
-----------------------------------------------------------------------------
(***************************************************************************)
(* A frame that is there is found.                                         *)
(***************************************************************************)

\* dtrs: a frame that has arrived whole at the head of the buffer is returned
\* with its parameter, whatever bytes this contains and whatever lies behind
\* the frame (dtrsNetCreateFrame, dtrsNetGetFrame).
THEOREM DtrsRoundTrip ==
  ASSUME CrcHas16Bits, NEW m, NEW n \in Nat, NEW p \in Seq(Byte), NEW checked \in BOOLEAN,
         Len(p) < Base * Base, n >= 4, n >= Len(dtrsNetCreateFrame(p, checked)),
         Holds(m, 0, dtrsNetCreateFrame(p, checked))
  PROVE  dtrsNetGetFrame(m, n) = Found(Len(dtrsNetCreateFrame(p, checked)), <<>>, p)
<1> DEFINE s == <<Start>> \o LengthField(Len(p)) \o p
<1>1. s \in Seq(Byte) /\ Len(s) \in Nat
  BY HeadTyped
<1>2. dtrsNetCreateFrame(p, checked) = Closed(s, checked)
  BY DEF dtrsNetCreateFrame
<1>3. m[0] = Start /\ Parm(m, 1) = p /\ EndAt(m, 1) = Len(s) /\ Holds(m, 0, s)
  <2>1. Holds(m, 0, s)
    <3> HIDE DEF s
    <3> QED BY <1>1, <1>2, ClosedHeld
  <2> QED BY <2>1, HeadHeld
<1> HIDE DEF s
<1>4. Position(m, n, 0, Start) = 0
  <2>1. 0 \in 0 .. n - 1 /\ \A j \in 0 .. 0 - 1 : m[j] # Start
    OBVIOUS
  <2> QED BY <1>3, <2>1, PositionIs
<1>5. dtrsNetGetFrame(m, n) = dtrsFrame(m, n)
  BY <1>4 DEF dtrsNetGetFrame
<1>6. CASE ~checked
  <2>1. m[Len(s)] = Plain /\ Len(Closed(s, checked)) = Len(s) + 1
    BY <1>1, <1>2, <1>6, ClosedHeld
  <2>2. n >= Len(s) + 1 /\ ~(n < Len(s) + 1)
    BY <1>1, <1>2, <2>1
  <2>3. dtrsFrame(m, n) = Found(Len(s) + 1, <<>>, p)
    BY <1>3, <2>1, <2>2, ByteAssumption DEF dtrsFrame
  <2> QED BY <1>2, <1>5, <2>1, <2>3
<1>7. CASE checked
  <2>1. /\ m[Len(s)] = Checked /\ ChecksumHolds(m, Len(s))
        /\ Len(Closed(s, checked)) = Len(s) + 3
    <3>1. Holds(m, 0, Closed(s, checked))
      BY <1>2
    <3> QED BY <1>1, <1>7, <3>1, ClosedHeld
  <2>2. /\ ~(n < Len(s) + 1) /\ n >= Len(s) + 1 /\ n >= Len(s) + 3
        /\ n \notin {Len(s) + 1, Len(s) + 2}
    BY <1>1, <1>2, <2>1
  <2>3. dtrsFrame(m, n) = Found(Len(s) + 3, <<>>, p)
    BY <1>3, <2>1, <2>2, ByteAssumption DEF dtrsFrame
  <2> QED BY <1>2, <1>5, <2>1, <2>3
<1> QED BY <1>6, <1>7

\* miniData: the same for a parameter that is not empty (miniDataCreate,
\* miniDataGet).
THEOREM MiniDataRoundTrip ==
  ASSUME CrcHas16Bits, NEW m, NEW n \in Nat, NEW p \in Seq(Byte),
         Len(p) < Base * Base, p # <<>>, n >= Len(miniDataCreate(p)),
         Holds(m, 0, miniDataCreate(p))
  PROVE  miniDataGet(m, n) = Found(Len(miniDataCreate(p)), <<>>, p)
<1> DEFINE s == <<Start>> \o LengthField(Len(p)) \o p
<1>1. s \in Seq(Byte) /\ Len(s) \in Nat /\ Len(s) >= 2 + Len(p) /\ Len(p) \in Nat \ {0}
  BY HeadTyped, EmptySeq, LenProperties
<1>2. miniDataCreate(p) = Closed(s, FALSE)
  BY DEF miniDataCreate
<1>3. /\ m[0] = Start /\ Parm(m, 1) = p /\ ParmLen(m, 1) = Len(p)
      /\ EndAt(m, 1) = Len(s) /\ Holds(m, 0, s)
  <2>1. Holds(m, 0, s)
    <3> HIDE DEF s
    <3> QED BY <1>1, <1>2, ClosedHeld
  <2> QED BY <2>1, HeadHeld
<1> HIDE DEF s
<1>4. m[Len(s)] = Plain /\ Len(Closed(s, FALSE)) = Len(s) + 1 /\ n >= Len(s) + 1
  <2>1. Holds(m, 0, Closed(s, FALSE))
    BY <1>2
  <2>2. m[Len(s)] = Plain /\ Len(Closed(s, FALSE)) = Len(s) + 1
    BY <1>1, <2>1, ClosedHeld
  <2> QED BY <1>2, <2>2
<1>5. Position(m, n, 0, Start) = 0
  <2>1. 0 \in 0 .. n - 1 /\ \A j \in 0 .. 0 - 1 : m[j] # Start
    BY <1>1, <1>4
  <2> QED BY <1>3, <2>1, PositionIs
<1>6. miniDataGet(m, n) = miniDataFrame(m, n)
  BY <1>1, <1>4, <1>5 DEF miniDataGet
<1>7. miniDataFrame(m, n) = Found(Len(s) + 1, <<>>, p)
  <2>1. ParmLen(m, 1) # 0 /\ ParmLen(m, 1) > 0 /\ ~(n < EndAt(m, 1) + 1)
        /\ n >= EndAt(m, 1) + 1 /\ m[EndAt(m, 1)] = Plain
    BY <1>1, <1>3, <1>4
  <2> QED BY <1>3, <2>1 DEF miniDataFrame
<1> QED BY <1>2, <1>4, <1>6, <1>7

\* hxnet: the same with a flag, which has no zero byte (hxNetCreateFrame,
\* hxNetGetFrame).  A frame of which the check has not arrived is another
\* matter: see CheckedArrive.
THEOREM HxNetRoundTrip ==
  ASSUME CrcHas16Bits, NEW m, NEW n \in Nat, NEW p \in Seq(Byte),
         NEW flag \in Seq(Byte \ {0}), NEW checked \in BOOLEAN,
         Len(flag) <= Base - 1, Len(p) < Base * Base,
         n >= Len(hxNetCreateFrame(flag, p, checked)),
         Holds(m, 0, hxNetCreateFrame(flag, p, checked))
  PROVE  hxNetGetFrame(m, n) = Found(Len(hxNetCreateFrame(flag, p, checked)), flag, p)
<1> DEFINE head == <<Start>> \o flag \o <<0>>
           field == LengthField(Len(p))
           s == head \o field \o p
<1>1. /\ Len(p) \in Nat /\ field \in Seq(Byte) /\ Len(field) \in Nat /\ Len(field) >= 1
      /\ flag \in Seq(Byte) /\ Len(flag) \in Nat /\ \A i \in 1 .. Len(flag) : flag[i] # 0
  <2>1. Len(p) \in Nat /\ Len(flag) \in Nat
    BY LenProperties
  <2>2. field \in Seq(Byte) /\ Len(field) \in Nat /\ Len(field) >= 1
    BY <2>1, LengthFieldTyped
  <2>3. flag \in Seq(Byte) /\ \A i \in 1 .. Len(flag) : flag[i] # 0
    OBVIOUS
  <2> QED BY <2>1, <2>2, <2>3
<1>2. /\ <<Start>> \in Seq(Byte) /\ Len(<<Start>>) = 1 /\ <<Start>>[1] = Start
      /\ <<0>> \in Seq(Byte) /\ Len(<<0>>) = 1 /\ <<0>>[1] = 0
  BY ByteAssumption DEF Byte
<1>3. <<Start>> \o flag \in Seq(Byte) /\ Len(<<Start>> \o flag) = 1 + Len(flag)
  BY <1>1, <1>2, ConcatProperties
<1>4. head \in Seq(Byte) /\ Len(head) = 2 + Len(flag)
  <2> DEFINE a == <<Start>> \o flag
             z == <<0>>
  <2>1. a \in Seq(Byte) /\ z \in Seq(Byte) /\ Len(z) = 1 /\ Len(a) = 1 + Len(flag)
        /\ Len(flag) \in Nat
    BY <1>1, <1>2, <1>3
  <2> HIDE DEF a, z
  <2>2. a \o z \in Seq(Byte) /\ Len(a \o z) = Len(a) + Len(z)
    BY <2>1, ConcatProperties
  <2>3. Len(a \o z) = 2 + Len(flag)
    BY <1>1, <2>1, <2>2
  <2> QED BY <2>2, <2>3 DEF a, z
<1> HIDE DEF field
<1>5. hxNetCreateFrame(flag, p, checked) = Closed(s, checked)
  BY <1>1, ByteAssumption DEF hxNetCreateFrame, field
<1> HIDE DEF head
<1>6. head \o field \in Seq(Byte) /\ Len(head \o field) = 2 + Len(flag) + Len(field)
  BY <1>1, <1>4, ConcatProperties
<1>7. s \in Seq(Byte) /\ Len(s) = 2 + Len(flag) + Len(field) + Len(p)
  BY <1>1, <1>6, ConcatProperties
<1>8. Holds(m, 0, s)
  <2> HIDE DEF s
  <2> QED BY <1>5, <1>7, ClosedHeld
<1>9. Holds(m, 0, head \o field) /\ Holds(m, 2 + Len(flag) + Len(field), p)
  <2> DEFINE h == head \o field
  <2>1. h \in Seq(Byte) /\ Len(h) = 2 + Len(flag) + Len(field) /\ Holds(m, 0, h \o p)
        /\ 0 \in Int
    BY <1>6, <1>8
  <2> HIDE DEF h
  <2>2. Holds(m, 0, h) /\ Holds(m, 0 + Len(h), p)
    BY <2>1, HoldsParts
  <2>3. 0 + Len(h) = 2 + Len(flag) + Len(field)
    BY <1>1, <2>1
  <2> QED BY <2>2, <2>3 DEF h
<1>10. Holds(m, 0, head) /\ Holds(m, 2 + Len(flag), field)
  <2>1. 0 \in Int /\ 0 + Len(head) = 2 + Len(flag)
    BY <1>1, <1>4
  <2> QED BY <1>1, <1>4, <1>9, <2>1, HoldsParts
<1>11. Holds(m, 0, <<Start>> \o flag) /\ m[1 + Len(flag)] = 0
  <2> DEFINE a == <<Start>> \o flag
             z == <<0>>
  <2>1. /\ a \in Seq(Byte) /\ z \in Seq(Byte) /\ Len(z) = 1 /\ z[1] = 0
        /\ Len(a) = 1 + Len(flag) /\ Holds(m, 0, a \o z) /\ 0 \in Int
    BY <1>2, <1>3, <1>10 DEF head
  <2> HIDE DEF a, z
  <2>2. Holds(m, 0, a) /\ Holds(m, 0 + Len(a), z)
    BY <2>1, HoldsParts
  <2>3. m[0 + Len(a) + 1 - 1] = 0 /\ 0 + Len(a) + 1 - 1 = 1 + Len(flag)
    BY <1>1, <2>1, <2>2 DEF Holds
  <2> QED BY <2>2, <2>3 DEF a
<1>12. m[0] = Start /\ Holds(m, 1, flag)
  <2> DEFINE a == <<Start>>
  <2>1. /\ a \in Seq(Byte) /\ Len(a) = 1 /\ a[1] = Start
        /\ Holds(m, 0, a \o flag) /\ 0 \in Int
    BY <1>2, <1>11
  <2> HIDE DEF a
  <2>2. Holds(m, 0, a) /\ Holds(m, 0 + Len(a), flag)
    BY <1>1, <2>1, HoldsParts
  <2>3. m[0 + 1 - 1] = Start /\ 0 + 1 - 1 = 0 /\ 0 + Len(a) = 1
    BY <2>1, <2>2 DEF Holds
  <2> QED BY <2>2, <2>3
<1> DEFINE end == Len(s)
<1>13. /\ Parm(m, 2 + Len(flag)) = p /\ EndAt(m, 2 + Len(flag)) = end
  <2>1. 2 + Len(flag) \in Nat
    BY <1>1
  <2>2. Parm(m, 2 + Len(flag)) = p
        /\ EndAt(m, 2 + Len(flag)) = 2 + Len(flag) + Len(field) + Len(p)
    BY <1>9, <1>10, <2>1, ParmHeld DEF field
  <2> QED BY <1>7, <2>2
<1>14. Cells(m, 1, Len(flag)) = flag
  BY <1>1, <1>12, CellsOf
<1>15. /\ ~checked => m[end] = Plain /\ Len(Closed(s, checked)) = end + 1
       /\ checked => /\ m[end] = Checked /\ ChecksumHolds(m, end)
                      /\ Len(Closed(s, checked)) = end + 3
  <2>1. Holds(m, 0, Closed(s, checked))
    BY <1>5
  <2> HIDE DEF s
  <2> QED BY <1>7, <2>1, ClosedHeld
<1>16. end \in Nat /\ end >= 3 + Len(flag)
  BY <1>1, <1>7
<1> HIDE DEF s
<1>17. n >= end + 1 /\ ~(n < end + 1) /\ ~(n < 4) /\ n >= 4
  BY <1>1, <1>5, <1>15, <1>16
<1>18. Position(m, n, 0, Start) = 0
  <2>1. 0 \in 0 .. n - 1 /\ \A j \in 0 .. 0 - 1 : m[j] # Start
    BY <1>17
  <2> QED BY <1>12, <2>1, PositionIs
<1>19. Position(m, n, 1, 0) = 1 + Len(flag)
  <2> DEFINE k == 1 + Len(flag)
  <2>1. k \in 1 .. n - 1 /\ 1 \in Nat /\ m[k] = 0
    BY <1>1, <1>11, <1>16, <1>17
  <2>2. ASSUME NEW j \in 1 .. k - 1 PROVE m[j] # 0
    <3>1. j \in 1 .. Len(flag) /\ 1 + j - 1 = j
      BY <1>1
    <3>2. m[1 + j - 1] = flag[j]
      BY <1>12, <3>1 DEF Holds
    <3> QED BY <1>1, <3>1, <3>2
  <2> HIDE DEF k
  <2>3. Position(m, n, 1, 0) = k
    BY <2>1, <2>2, PositionIs
  <2> QED BY <2>3 DEF k
<1>20. hxNetGetFrame(m, n) = hxFrame(m, n, 2 + Len(flag), flag)
  <2>1. /\ 1 + Len(flag) # n /\ (1 + Len(flag)) + 1 = 2 + Len(flag)
        /\ (1 + Len(flag)) - 1 = Len(flag)
    BY <1>1, <1>16, <1>17
  <2> QED BY <1>14, <1>17, <1>18, <1>19, <2>1 DEF hxNetGetFrame
<1>21. CASE ~checked
  <2>1. hxFrame(m, n, 2 + Len(flag), flag) = Found(end + 1, flag, p)
    BY <1>13, <1>15, <1>17, <1>21, ByteAssumption DEF hxFrame
  <2> QED BY <1>5, <1>15, <1>20, <1>21, <2>1
<1>22. CASE checked
  <2>1. hxFrame(m, n, 2 + Len(flag), flag) = Found(end + 3, flag, p)
    BY <1>13, <1>15, <1>17, <1>22, ByteAssumption DEF hxFrame
  <2> QED BY <1>5, <1>15, <1>20, <1>22, <2>1
<1> QED BY <1>21, <1>22

-----------------------------------------------------------------------------
(***************************************************************************)
(* What the functions return for any buffer.                               *)
(***************************************************************************)

Readable(m, n) == \A i \in 0 .. n + 2 : m[i] \in Byte
Answer == [take : Nat, ok : BOOLEAN, flag : Seq(Byte), parm : Seq(Byte)]

\* Bytes of the buffer, copied.
LEMMA CellsTyped ==
  ASSUME NEW m, NEW n \in Nat, Readable(m, n), NEW at \in Nat, NEW k \in Nat, at + k <= n
  PROVE  Cells(m, at, k) \in Seq(Byte)
<1>1. \A i \in 1 .. k : m[at + i - 1] \in Byte
  <2>1. ASSUME NEW i \in 1 .. k PROVE at + i - 1 \in 0 .. n + 2
    OBVIOUS
  <2> QED BY <2>1 DEF Readable
<1>2. Cells(m, at, k) \in [1 .. k -> Byte]
  BY <1>1 DEF Cells
<1> QED BY <1>2, SeqDef

\* A length field and a parameter, whatever the bytes.
LEMMA EndTyped ==
  ASSUME NEW m, NEW n \in Nat, Readable(m, n), NEW at \in Nat, at <= n
  PROVE  /\ EndAt(m, at) \in Nat /\ EndAt(m, at) >= at + 1 /\ ParmLen(m, at) \in Nat
         /\ n >= EndAt(m, at) + 1 => Parm(m, at) \in Seq(Byte)
<1>1. /\ Base \in Nat \ {0}
      /\ m[at] \in 0 .. Base - 1 /\ m[at + 1] \in 0 .. Base - 1 /\ m[at + 2] \in 0 .. Base - 1
  <2>1. at \in 0 .. n + 2 /\ at + 1 \in 0 .. n + 2 /\ at + 2 \in 0 .. n + 2
    OBVIOUS
  <2> QED BY <2>1, ByteAssumption DEF Readable, Byte
<1>2. Word(m[at + 1], m[at + 2]) \in Nat
  <2> DEFINE lo == m[at + 1]
             hi == m[at + 2]
  <2>1. lo \in Nat /\ hi \in Nat /\ Base \in Nat
    BY <1>1
  <2> HIDE DEF lo, hi
  <2>2. lo + Base * hi \in Nat
    BY <2>1
  <2> QED BY <2>2 DEF Word, lo, hi
<1>3. ParmLen(m, at) \in Nat /\ ParmAt(m, at) \in {at + 1, at + 3}
  BY <1>1, <1>2 DEF ParmLen, ParmAt
<1>4. ASSUME n >= EndAt(m, at) + 1 PROVE Parm(m, at) \in Seq(Byte)
  <2>1. ParmAt(m, at) \in Nat /\ ParmAt(m, at) + ParmLen(m, at) <= n
    BY <1>3, <1>4 DEF EndAt
  <2> QED BY <1>3, <2>1, CellsTyped DEF Parm
<1> QED BY <1>3, <1>4 DEF EndAt

\* dtrs and miniData never have the caller remove more bytes than there are,
\* although miniDataGet reads a length that may not have arrived (dtrsNetGetFrame
\* waits for it); what they return is typed.  Of hxnet only the latter holds.
THEOREM TakesNoMore ==
  ASSUME NEW m, NEW n \in Nat, Readable(m, n)
  PROVE  /\ dtrsNetGetFrame(m, n) \in Answer /\ dtrsNetGetFrame(m, n).take <= n
         /\ miniDataGet(m, n) \in Answer /\ miniDataGet(m, n).take <= n
<1> DEFINE start == Position(m, n, 0, Start)
           end == EndAt(m, 1)
<1>1. start \in 0 .. n
  <2>1. 0 \in 0 .. n
    OBVIOUS
  <2> QED BY <2>1, PositionRange
<1>2. ASSUME n >= 3
      PROVE  /\ end \in Nat /\ end >= 2 /\ ParmLen(m, 1) \in Nat
             /\ n >= end + 1 => Parm(m, 1) \in Seq(Byte)
  <2>1. 1 \in Nat /\ 1 <= n /\ 1 + 1 = 2
    BY <1>2
  <2> QED BY <2>1, EndTyped
<1> HIDE DEF start, end
<1>3. ASSUME NEW k \in Nat, k <= n PROVE Skip(k) \in Answer /\ Skip(k).take <= n
  <2>1. <<>> \in Seq(Byte)
    OBVIOUS
  <2> QED BY <1>3, <2>1 DEF Skip, Answer
<1>4. ASSUME NEW k \in Nat, k <= n, NEW q \in Seq(Byte)
      PROVE  Found(k, <<>>, q) \in Answer /\ Found(k, <<>>, q).take <= n
  <2>1. <<>> \in Seq(Byte)
    OBVIOUS
  <2> QED BY <1>4, <2>1 DEF Found, Answer
<1>5. ASSUME n >= 4 PROVE dtrsFrame(m, n) \in Answer /\ dtrsFrame(m, n).take <= n
  <2>1. /\ end \in Nat /\ end + 1 \in Nat /\ end + 3 \in Nat
        /\ n >= end + 1 => Parm(m, 1) \in Seq(Byte)
    BY <1>2, <1>5
  <2>2. n < end + 1 \/ n \in {end + 1, end + 2} \/ n >= end + 3
    BY <2>1
  <2>3. \/ dtrsFrame(m, n) = Skip(0) \/ dtrsFrame(m, n) = Skip(1)
        \/ n >= end + 1 /\ dtrsFrame(m, n) = Found(end + 1, <<>>, Parm(m, 1))
        \/ n >= end + 3 /\ dtrsFrame(m, n) = Found(end + 3, <<>>, Parm(m, 1))
    BY <2>1, <2>2, ByteAssumption DEF dtrsFrame, end
  <2>4. 0 \in Nat /\ 0 <= n /\ 1 \in Nat /\ 1 <= n
    BY <1>5
  <2> QED BY <1>3, <1>4, <2>1, <2>3, <2>4
<1>6. ASSUME n >= 3 PROVE miniDataFrame(m, n) \in Answer /\ miniDataFrame(m, n).take <= n
  <2>1. /\ end \in Nat /\ ParmLen(m, 1) \in Nat
        /\ n >= end + 1 => Parm(m, 1) \in Seq(Byte)
    BY <1>2, <1>6
  <2>2. \/ miniDataFrame(m, n) = Skip(0) \/ miniDataFrame(m, n) = Skip(1)
        \/ n >= end + 1 /\ miniDataFrame(m, n) = Found(end + 1, <<>>, Parm(m, 1))
    BY <2>1 DEF miniDataFrame, end
  <2>3. 0 \in Nat /\ 0 <= n /\ 1 \in Nat /\ 1 <= n
    BY <1>6
  <2> QED BY <1>3, <1>4, <2>1, <2>2, <2>3
<1>7. dtrsNetGetFrame(m, n) \in Answer /\ dtrsNetGetFrame(m, n).take <= n
  <2>1. \/ dtrsNetGetFrame(m, n) = Skip(0) \/ dtrsNetGetFrame(m, n) = Skip(start)
        \/ n >= 4 /\ dtrsNetGetFrame(m, n) = dtrsFrame(m, n)
    BY <1>1 DEF dtrsNetGetFrame, start
  <2>2. 0 \in Nat /\ 0 <= n /\ start \in Nat /\ start <= n
    BY <1>1
  <2> QED BY <1>3, <1>5, <2>1, <2>2
<1>8. miniDataGet(m, n) \in Answer /\ miniDataGet(m, n).take <= n
  <2>1. \/ miniDataGet(m, n) = Skip(0) \/ miniDataGet(m, n) = Skip(start)
        \/ n >= 3 /\ miniDataGet(m, n) = miniDataFrame(m, n)
    BY <1>1 DEF miniDataGet, start
  <2>2. 0 \in Nat /\ 0 <= n /\ start \in Nat /\ start <= n
    BY <1>1
  <2> QED BY <1>3, <1>6, <2>1, <2>2
<1> QED BY <1>7, <1>8

\* What hxnet returns is typed.
LEMMA HxTyped ==
  ASSUME NEW m, NEW n \in Nat, Readable(m, n)
  PROVE  hxNetGetFrame(m, n) \in Answer
<1> DEFINE start == Position(m, n, 0, Start)
           nul == Position(m, n, 1, 0)
           at == nul + 1
           flag == Cells(m, 1, nul - 1)
           end == EndAt(m, at)
<1>1. start \in Nat
  <2>1. 0 \in 0 .. n
    OBVIOUS
  <2> QED BY <2>1, PositionRange
<1>2. ASSUME n >= 4 PROVE nul \in 1 .. n
  <2>1. 1 \in 0 .. n
    BY <1>2
  <2> QED BY <2>1, PositionRange
<1>3. ASSUME n >= 4, nul # n
      PROVE  /\ end \in Nat /\ flag \in Seq(Byte)
             /\ n >= end + 1 => Parm(m, at) \in Seq(Byte)
  <2>1. at \in Nat /\ at <= n /\ nul - 1 \in Nat /\ 1 + (nul - 1) <= n /\ 1 \in Nat
    BY <1>2, <1>3
  <2> HIDE DEF nul, at
  <2>2. end \in Nat /\ (n >= end + 1 => Parm(m, at) \in Seq(Byte))
    BY <2>1, EndTyped
  <2>3. flag \in Seq(Byte)
    BY <2>1, CellsTyped
  <2> QED BY <2>2, <2>3
<1> HIDE DEF flag, end
<1>4. \/ hxNetGetFrame(m, n) = Skip(0) \/ hxNetGetFrame(m, n) = Skip(start)
      \/ hxNetGetFrame(m, n) = Skip(1)
      \/ n >= 4 /\ nul # n /\ hxNetGetFrame(m, n) = hxFrame(m, n, at, flag)
  <2> HIDE DEF start, nul
  <2>1. n < 4 \/ n >= 4
    OBVIOUS
  <2>2. start > 0 \/ start = 0
    BY <1>1
  <2> QED BY <2>1, <2>2 DEF hxNetGetFrame, start, nul, flag
<1>5. \/ hxFrame(m, n, at, flag) = Skip(0) \/ hxFrame(m, n, at, flag) = Skip(1)
      \/ n >= end + 1 /\ hxFrame(m, n, at, flag) = Found(end + 1, flag, Parm(m, at))
      \/ n >= end + 1 /\ hxFrame(m, n, at, flag) = Found(end + 3, flag, Parm(m, at))
  <2> HIDE DEF at
  <2> QED BY DEF hxFrame, end
<1> HIDE DEF at, nul, start
<1>6. ASSUME NEW k \in Nat PROVE Skip(k) \in Answer
  <2>1. <<>> \in Seq(Byte)
    OBVIOUS
  <2> QED BY <2>1 DEF Skip, Answer
<1>7. ASSUME NEW k \in Nat, NEW f \in Seq(Byte), NEW q \in Seq(Byte)
      PROVE  Found(k, f, q) \in Answer
  BY DEF Found, Answer
<1>8. CASE n >= 4 /\ nul # n /\ hxNetGetFrame(m, n) = hxFrame(m, n, at, flag)
  <2>1. /\ end \in Nat /\ end + 1 \in Nat /\ end + 3 \in Nat /\ flag \in Seq(Byte)
        /\ n >= end + 1 => Parm(m, at) \in Seq(Byte)
    BY <1>3, <1>8
  <2> QED BY <1>5, <1>6, <1>7, <1>8, <2>1
<1> QED BY <1>1, <1>4, <1>6, <1>8

-----------------------------------------------------------------------------
(***************************************************************************)
(* The line.                                                               *)
(***************************************************************************)

\* What is sent is bytes.
LEMMA ClosedTyped ==
  ASSUME CrcHas16Bits, NEW s \in Seq(Byte), NEW checked \in BOOLEAN
  PROVE  Closed(s, checked) \in Seq(Byte)
<1>1. Append(s, Plain) \in Seq(Byte) /\ Append(s, Checked) \in Seq(Byte)
  BY ByteAssumption
<1>2. Checksum(Append(s, Checked)) \in Int
  <2> DEFINE t == Append(s, Checked)
             last == Base * Base - 1
  <2>1. t \in Seq(Byte) /\ last \in Int
    BY <1>1, ByteAssumption
  <2> HIDE DEF t
  <2>2. Checksum(t) \in 0 .. last
    BY <2>1, ChecksumTyped
  <2> HIDE DEF last
  <2>3. Checksum(t) \in Int
    BY <2>1, <2>2
  <2> QED BY <2>3 DEF t
<1>3. Bytes(Checksum(Append(s, Checked))) \in Seq(Byte)
  BY <1>2, BytesTyped
<1>4. Append(s, Checked) \o Bytes(Checksum(Append(s, Checked))) \in Seq(Byte)
  BY <1>1, <1>3, ConcatProperties
<1> QED BY <1>1, <1>4 DEF Closed

\* Every builder makes bytes.
LEMMA EncodeTyped ==
  ASSUME CrcHas16Bits, NEW p \in Protocols,
         NEW pk \in [flag : Seq(Byte \ {0}), parm : Seq(Byte), checked : BOOLEAN]
  PROVE  Encode(p, pk) \in Seq(Byte)
<1>1. /\ pk.flag \in Seq(Byte) /\ pk.parm \in Seq(Byte) /\ pk.checked \in BOOLEAN
      /\ Len(pk.parm) \in Nat
  <2>1. pk.flag \in Seq(Byte \ {0}) /\ pk.parm \in Seq(Byte) /\ pk.checked \in BOOLEAN
    OBVIOUS
  <2> QED BY <2>1, LenProperties
<1> DEFINE field == LengthField(Len(pk.parm))
           flag == pk.flag
           parm == pk.parm
           first == <<Start>>
           zero == <<0>>
<1>2. /\ field \in Seq(Byte) /\ flag \in Seq(Byte) /\ parm \in Seq(Byte)
      /\ first \in Seq(Byte) /\ zero \in Seq(Byte) /\ <<>> \in Seq(Byte)
  BY <1>1, LengthFieldTyped, ByteAssumption DEF Byte
<1> HIDE DEF field, flag, parm, first, zero
<1>3. first \o field \o parm \in Seq(Byte)
  BY <1>2, ConcatProperties
<1>4. first \o flag \o zero \o field \o parm \in Seq(Byte)
  <2>1. first \o flag \o zero \in Seq(Byte)
    BY <1>2, ConcatProperties
  <2> QED BY <1>2, <2>1, ConcatProperties
<1>5. hxNetCreateFrame(pk.flag, pk.parm, pk.checked) \in Seq(Byte)
  BY <1>1, <1>2, <1>4, ClosedTyped DEF hxNetCreateFrame, field, flag, parm, first, zero
<1>6. dtrsNetCreateFrame(pk.parm, pk.checked) \in Seq(Byte)
  BY <1>1, <1>3, ClosedTyped DEF dtrsNetCreateFrame, field, parm, first
<1>7. miniDataCreate(pk.parm) \in Seq(Byte)
  BY <1>2, <1>3, ClosedTyped DEF miniDataCreate, field, parm, first
<1>8. p \in {"hxnet", "dtrs", "miniData"}
  BY LineAssumption
<1> QED BY <1>5, <1>6, <1>7, <1>8 DEF Encode

\* What is found for a buffer and a byte.
LEMMA GetFrameTyped ==
  ASSUME proto \in Protocols, NEW m, NEW n \in Int, n >= 0 => Readable(m, n), NEW b
  PROVE  /\ GetFrame(m, n, b) \in Answer
         /\ n < 3 => GetFrame(m, n, b) = Skip(0)
<1>1. Skip(0) \in Answer
  <2>1. <<>> \in Seq(Byte) /\ 0 \in Nat
    OBVIOUS
  <2> QED BY <2>1 DEF Skip, Answer
<1>2. proto \in {"hxnet", "dtrs", "miniData"}
  BY LineAssumption
<1>3. CASE n < 3
  <2>1. hxNetGetFrame(m, n) = Skip(0) /\ dtrsNetGetFrame(m, n) = Skip(0) /\ miniDataGet(m, n) = Skip(0)
    BY <1>3 DEF hxNetGetFrame, dtrsNetGetFrame, miniDataGet
  <2>2. GetFrame(m, n, b) = Skip(0)
    BY <1>2, <2>1 DEF GetFrame
  <2> QED BY <1>1, <2>2
<1>4. CASE ~(n < 3)
  <2>1. n \in Nat /\ Readable(m, n)
    BY <1>4
  <2>2. hxNetGetFrame(m, n) \in Answer /\ dtrsNetGetFrame(m, n) \in Answer /\ miniDataGet(m, n) \in Answer
    BY <2>1, HxTyped, TakesNoMore
  <2> QED BY <1>1, <1>2, <1>4, <2>2 DEF GetFrame
<1> QED BY <1>3, <1>4

\* The receive loop keeps the types (the examples in the headers).
LEMMA ReceiveTyped ==
  ASSUME TypeOK, Receive PROVE TypeOK'
<1>1. /\ proto \in Protocols /\ mem \in [0 .. CacheSize + 2 -> Byte] /\ len \in Int
      /\ line \in Seq(Byte) /\ got \in Seq(Packet) /\ CacheSize \in Nat
  BY LineAssumption DEF TypeOK
<1>2. line # <<>>
  BY DEF Receive
<1>3. Head(line) \in Byte /\ Tail(line) \in Seq(Byte)
  BY <1>1, <1>2, HeadTailProperties
<1>4. Place \in Int
  BY <1>1 DEF Place
<1> DEFINE b == Head(line)
           m == IF Place \in Cache THEN [mem EXCEPT ![Place] = b] ELSE mem
           r == IF Place < CacheSize THEN GetFrame(m, Place + 1, b) ELSE Skip(0)
           left == Place + 1 - r.take
<1>5. m \in [0 .. CacheSize + 2 -> Byte]
  BY <1>1, <1>3
<1>6. /\ len' = left /\ mem' = Shift(m, r.take, left)
      /\ got' = IF r.ok THEN Append(got, [flag |-> r.flag, parm |-> r.parm]) ELSE got
  BY DEF Receive
<1> HIDE DEF b, m
<1>7. /\ r \in Answer
      /\ Place \in Cache \/ r = Skip(0)
  <2>1. CASE Place < CacheSize
    <3>1. Place + 1 >= 0 => Readable(m, Place + 1)
      <4>1. ASSUME Place + 1 >= 0, NEW i \in 0 .. (Place + 1) + 2 PROVE m[i] \in Byte
        <5>1. i \in 0 .. CacheSize + 2
          BY <1>1, <1>4, <2>1, <4>1
        <5> QED BY <1>5, <5>1
      <4> QED BY <4>1 DEF Readable
    <3>2. /\ GetFrame(m, Place + 1, b) \in Answer
          /\ Place + 1 < 3 => GetFrame(m, Place + 1, b) = Skip(0)
      <4> DEFINE n == Place + 1
      <4>1. n \in Int /\ (n >= 0 => Readable(m, n))
        BY <1>4, <3>1
      <4> HIDE DEF n
      <4>2. GetFrame(m, n, b) \in Answer /\ (n < 3 => GetFrame(m, n, b) = Skip(0))
        BY <1>1, <4>1, GetFrameTyped
      <4> QED BY <4>2 DEF n
    <3>3. Place \in Cache \/ Place + 1 < 3
      BY <1>1, <1>4, <2>1 DEF Cache
    <3> QED BY <2>1, <3>2, <3>3
  <2>2. CASE ~(Place < CacheSize)
    <3>1. <<>> \in Seq(Byte) /\ 0 \in Nat
      OBVIOUS
    <3>2. Skip(0) \in Answer
      BY <3>1 DEF Skip, Answer
    <3> QED BY <2>2, <3>2
  <2> QED BY <2>1, <2>2
<1> HIDE DEF r
<1>8. /\ r.take \in Nat /\ r.ok \in BOOLEAN /\ r.flag \in Seq(Byte) /\ r.parm \in Seq(Byte)
      /\ Place \in Cache \/ r.take = 0
  BY <1>7 DEF Answer, Skip
<1>9. len' \in Int
  BY <1>4, <1>6, <1>8
<1>10. mem' \in [0 .. CacheSize + 2 -> Byte]
  <2>1. DOMAIN m = 0 .. CacheSize + 2
    BY <1>5
  <2>2. ASSUME NEW i \in 0 .. CacheSize + 2
        PROVE  (IF i \in 0 .. left - 1 THEN m[r.take + i] ELSE m[i]) \in Byte
    <3>1. CASE i \in 0 .. left - 1
      <4>1. r.take + i \in 0 .. CacheSize + 2
        <5>1. CASE Place \in Cache
          BY <1>1, <1>4, <1>8, <3>1, <5>1 DEF Cache
        <5>2. CASE r.take = 0
          BY <1>1, <5>2
        <5> QED BY <1>8, <5>1, <5>2
      <4> QED BY <1>5, <3>1, <4>1
    <3>2. CASE ~(i \in 0 .. left - 1)
      BY <1>5, <3>2
    <3> QED BY <3>1, <3>2
  <2> HIDE DEF left
  <2> QED BY <1>6, <2>1, <2>2 DEF Shift
<1>11. got' \in Seq(Packet)
  <2>1. [flag |-> r.flag, parm |-> r.parm] \in Packet
    BY <1>8 DEF Packet
  <2> QED BY <1>1, <1>6, <1>8, <2>1
<1>12. UNCHANGED <<proto, sent, noise>> /\ line' = Tail(line)
       /\ lost' \in BOOLEAN /\ wild' \in BOOLEAN
  BY DEF Receive
<1> QED BY <1>1, <1>3, <1>9, <1>10, <1>11, <1>12 DEF TypeOK

\* The variables of the line keep their types: what is handled are packets of
\* bytes, whatever the noise, although the functions read bytes that have not
\* arrived (the receive loops of the headers).
THEOREM Typing == CrcHas16Bits => (Spec => []TypeOK)
<1> SUFFICES ASSUME CrcHas16Bits PROVE Spec => []TypeOK
  OBVIOUS
<1>1. Init => TypeOK
  <2>1. 0 \in Byte /\ CacheSize \in Nat
    BY ByteAssumption, LineAssumption DEF Byte
  <2>2. [i \in 0 .. CacheSize + 2 |-> 0] \in [0 .. CacheSize + 2 -> Byte]
    BY <2>1
  <2>3. <<>> \in Seq(Byte) /\ <<>> \in Seq(Packet) /\ 0 \in Int /\ 0 \in Nat
    OBVIOUS
  <2> QED BY <2>2, <2>3 DEF Init, TypeOK
<1>2. TypeOK /\ [Next]_vars => TypeOK'
  <2> SUFFICES ASSUME TypeOK, [Next]_vars PROVE TypeOK'
    OBVIOUS
  <2>1. ASSUME NEW pk \in Sendable[proto], Send(pk) PROVE TypeOK'
    <3>1. /\ proto \in Protocols
          /\ pk \in [flag : Seq(Byte \ {0}), parm : Seq(Byte), checked : BOOLEAN]
      BY LineAssumption DEF TypeOK
    <3>2. Encode(proto, pk) \in Seq(Byte)
      BY <3>1, EncodeTyped
    <3>3. pk.flag \in Seq(Byte \ {0}) /\ pk.parm \in Seq(Byte)
      BY <3>1
    <3>4. [flag |-> pk.flag, parm |-> pk.parm] \in Packet
      BY <3>3 DEF Packet
    <3> QED BY <2>1, <3>2, <3>4 DEF Send, TypeOK
  <2>2. ASSUME NEW b \in Noise, MakeNoise(b) PROVE TypeOK'
    <3>1. b \in Byte
      BY LineAssumption
    <3> QED BY <2>2, <3>1 DEF MakeNoise, TypeOK
  <2>3. CASE Receive
    BY <2>3, ReceiveTyped
  <2>4. CASE UNCHANGED vars
    BY <2>4 DEF TypeOK, vars
  <2> QED BY <2>1, <2>2, <2>3, <2>4 DEF Next
<1> QED BY <1>1, <1>2, PTL DEF Spec

-----------------------------------------------------------------------------
(***************************************************************************)
(* A frame that arrives in pieces.                                         *)
(***************************************************************************)

\* A set of numbers that is not empty has a least one.
LEMMA LeastNumber ==
  ASSUME NEW T, T \subseteq Nat, T # {}
  PROVE  \E x \in T : \A y \in T : x <= y
<1>1. IsWellFoundedOn(OpToRel(<, Nat), Nat)
  BY NatLessThanWellFounded
<1>2. PICK x \in T : \A y \in T : ~(<<y, x>> \in OpToRel(<, Nat))
  BY <1>1, WFMin
<1>3. \A y \in T : ~(y < x)
  BY <1>2 DEF OpToRel
<1> QED BY <1>3

\* What Position finds: no b before it, and b there unless it is the end.
LEMMA PositionFirst ==
  ASSUME NEW m, NEW n \in Nat, NEW from \in 0 .. n, NEW b
  PROVE  /\ Position(m, n, from, b) \in from .. n
         /\ \A j \in from .. Position(m, n, from, b) - 1 : m[j] # b
         /\ Position(m, n, from, b) < n => m[Position(m, n, from, b)] = b
<1> DEFINE T == {j \in from .. n - 1 : m[j] = b}
<1>1. CASE T # {}
  <2>1. PICK k \in T : \A j \in T : k <= j
    <3>1. T \subseteq Nat
      OBVIOUS
    <3> HIDE DEF T
    <3> QED BY <1>1, <3>1, LeastNumber
  <2>2. k \in from .. n - 1 /\ m[k] = b /\ \A j \in from .. k - 1 : m[j] # b
    BY <2>1
  <2>3. Position(m, n, from, b) = k
    BY <2>2, PositionIs
  <2> QED BY <2>2, <2>3
<1>2. CASE T = {}
  <2> DEFINE last == n - 1
  <2>1. \A j \in from .. n - 1 : m[j] # b
    BY <1>2
  <2>2. {i \in from .. n - 1 : \A j \in from .. i : m[j] # b} = from .. last
    BY <2>1
  <2>3. Cardinality(from .. last) = n - from
    <3>1. from \in Int /\ last \in Int /\ last = n - 1
      OBVIOUS
    <3> HIDE DEF last
    <3>2. Cardinality(from .. last) = IF from > last THEN 0 ELSE last - from + 1
      BY <3>1, FS_Interval
    <3> QED BY <3>1, <3>2
  <2>4. Position(m, n, from, b) = n
    <3>1. Position(m, n, from, b) = from + (n - from)
      BY <2>2, <2>3 DEF Position
    <3> QED BY <3>1
  <2> QED BY <2>1, <2>4
<1> QED BY <1>1, <1>2

\* The same for a buffer that begins with b.
LEMMA PositionHead ==
  ASSUME NEW m, NEW n \in Nat \ {0}, NEW b, m[0] = b
  PROVE  Position(m, n, 0, b) = 0
<1>1. 0 \in 0 .. n - 1 /\ 0 \in Nat /\ \A j \in 0 .. 0 - 1 : m[j] # b
  OBVIOUS
<1> QED BY <1>1, PositionIs

\* The length of the parameter fits in two bytes.
LengthFits(p) == Len(p) < Base * Base

\* While the length field and the parameter have not arrived whole, the end
\* that is read is not among the bytes received: it is right, or behind them
\* whatever the bytes are that are read before they arrive.
LEMMA EndBehind ==
  ASSUME NEW m, NEW n \in Nat, Readable(m, n), NEW at \in Nat, at <= n,
         NEW p \in Seq(Byte), LengthFits(p),
         \A j \in 1 .. Len(LengthField(Len(p))) :
           at + j - 1 < n => m[at + j - 1] = LengthField(Len(p))[j],
         n <= at + Len(LengthField(Len(p))) + Len(p)
  PROVE  n <= EndAt(m, at)
<1> DEFINE field == LengthField(Len(p))
<1>1. Len(p) \in Nat
  BY LenProperties
<1> DEFINE k == Len(field)
<1>2. /\ field \in Seq(Byte) /\ k \in Nat
      /\ k = 1 \/ (k = 3 /\ field[1] = Long)
  <2>1. /\ field \in Seq(Byte) /\ k \in Nat
        /\ Len(p) < Long => k = 1
        /\ ~(Len(p) < Long) => k = 3 /\ field[1] = Long
    BY <1>1, LengthFieldTyped
  <2> QED BY <2>1
<1>3. EndAt(m, at) \in Nat /\ EndAt(m, at) >= at + 1 /\ ParmLen(m, at) \in Nat
  BY EndTyped
<1> HIDE DEF k, field
<1>4. CASE at + k <= n
  <2>1. Holds(m, at, field)
    BY <1>2, <1>4 DEF Holds, field, k
  <2>2. ParmAt(m, at) = at + k /\ ParmLen(m, at) = Len(p)
    BY <2>1, FieldHeld DEF field, k, LengthFits
  <2> QED BY <2>2 DEF EndAt, field, k
<1>5. CASE ~(at + k <= n)
  <2>1. CASE n <= at + 1
    BY <1>3, <2>1
  <2>2. CASE ~(n <= at + 1)
    <3>1. k = 3 /\ field[1] = Long /\ n = at + 2
      <4>1. k # 1
        BY <1>2, <1>5, <2>2
      <4>2. k = 3 /\ field[1] = Long
        BY <1>2, <4>1
      <4> QED BY <1>5, <2>2, <4>2
    <3>2. 1 \in 1 .. k /\ at + 1 - 1 < n /\ at + 1 - 1 = at
      BY <3>1
    <3>3. m[at] = Long
      BY <3>1, <3>2 DEF field, k
    <3> QED BY <1>3, <3>1, <3>3 DEF EndAt, ParmAt
  <2> QED BY <2>1, <2>2
<1> QED BY <1>4, <1>5

\* The bytes of two sequences, one behind the other.
LEMMA ConcatCells ==
  ASSUME NEW s \in Seq(Byte), NEW t \in Seq(Byte)
  PROVE  /\ s \o t \in Seq(Byte) /\ Len(s \o t) = Len(s) + Len(t)
         /\ Len(s) \in Nat /\ Len(t) \in Nat
         /\ \A j \in 1 .. Len(s) : (s \o t)[j] = s[j]
         /\ \A j \in 1 .. Len(t) : (s \o t)[Len(s) + j] = t[j]
<1>1. /\ Len(s) \in Nat /\ Len(t) \in Nat /\ s \o t \in Seq(Byte)
      /\ Len(s \o t) = Len(s) + Len(t)
      /\ \A i \in 1 .. Len(s) + Len(t) :
           (s \o t)[i] = IF i <= Len(s) THEN s[i] ELSE t[i - Len(s)]
  BY LenProperties, ConcatProperties
<1>2. ASSUME NEW j \in 1 .. Len(s) PROVE (s \o t)[j] = s[j]
  <2>1. j \in 1 .. Len(s) + Len(t) /\ j <= Len(s)
    BY <1>1
  <2> QED BY <1>1, <2>1
<1>3. ASSUME NEW j \in 1 .. Len(t) PROVE (s \o t)[Len(s) + j] = t[j]
  <2>1. /\ Len(s) + j \in 1 .. Len(s) + Len(t) /\ ~(Len(s) + j <= Len(s))
        /\ (Len(s) + j) - Len(s) = j
    BY <1>1
  <2> QED BY <1>1, <2>1
<1> QED BY <1>1, <1>2, <1>3

\* The bytes of a closed frame.
LEMMA ClosedCells ==
  ASSUME CrcHas16Bits, NEW s \in Seq(Byte), NEW checked \in BOOLEAN
  PROVE  /\ Closed(s, checked) \in Seq(Byte)
         /\ Len(Closed(s, checked)) = Len(s) + (IF checked THEN 3 ELSE 1)
         /\ \A j \in 1 .. Len(s) : Closed(s, checked)[j] = s[j]
         /\ Closed(s, checked)[Len(s) + 1] = IF checked THEN Checked ELSE Plain
<1>1. Plain \in Byte /\ Checked \in Byte /\ Len(s) \in Nat
  BY ByteAssumption, LenProperties
<1>2. Closed(s, checked) \in Seq(Byte)
  BY ClosedTyped
<1>3. CASE ~checked
  <2>1. Closed(s, checked) = Append(s, Plain)
    BY <1>3 DEF Closed
  <2> QED BY <1>1, <1>2, <1>3, <2>1, AppendProperties
<1>4. CASE checked
  <2> DEFINE t == Append(s, Checked)
             crc == Bytes(Checksum(t))
  <2>1. /\ t \in Seq(Byte) /\ Len(t) = Len(s) + 1 /\ t[Len(s) + 1] = Checked
        /\ \A j \in 1 .. Len(s) : t[j] = s[j]
    BY <1>1, AppendProperties
  <2>2. Closed(s, checked) = t \o crc
    BY <1>4 DEF Closed
  <2>3. crc \in Seq(Byte) /\ Len(crc) = 2
    <3> HIDE DEF t
    <3> DEFINE sum == Checksum(t)
               last == Base * Base - 1
    <3>1. sum \in 0 .. last /\ last \in Int
      BY <2>1, ChecksumTyped, ByteAssumption
    <3> HIDE DEF sum, last
    <3>2. sum \in Int
      BY <3>1
    <3>3. Bytes(sum) \in Seq(Byte) /\ Len(Bytes(sum)) = 2
      BY <3>2, BytesTyped
    <3> QED BY <3>3 DEF sum
  <2> HIDE DEF t, crc
  <2>4. /\ Len(t \o crc) = Len(s) + 3
        /\ \A j \in 1 .. Len(s) + 1 : (t \o crc)[j] = t[j]
    <3>1. /\ Len(t \o crc) = Len(t) + Len(crc)
          /\ \A j \in 1 .. Len(t) : (t \o crc)[j] = t[j]
      BY <2>1, <2>3, ConcatCells
    <3> QED BY <1>1, <2>1, <2>3, <3>1
  <2>5. Closed(s, checked)[Len(s) + 1] = Checked
    BY <1>1, <2>1, <2>2, <2>4
  <2>6. \A j \in 1 .. Len(s) : Closed(s, checked)[j] = s[j]
    BY <1>1, <2>1, <2>2, <2>4
  <2> QED BY <1>2, <1>4, <2>2, <2>4, <2>5, <2>6
<1> QED BY <1>3, <1>4

\* The bytes before the end of a dtrs or miniData frame.
LEMMA HeadCells ==
  ASSUME NEW p \in Seq(Byte)
  PROVE  LET s == <<Start>> \o LengthField(Len(p)) \o p IN
         /\ s \in Seq(Byte) /\ Len(s) = 1 + Len(LengthField(Len(p))) + Len(p)
         /\ s[1] = Start
         /\ \A j \in 1 .. Len(LengthField(Len(p))) : s[1 + j] = LengthField(Len(p))[j]
<1> DEFINE field == LengthField(Len(p))
           first == <<Start>>
<1>1. Len(p) \in Nat /\ field \in Seq(Byte) /\ Len(field) \in Nat
  <2>1. Len(p) \in Nat
    BY LenProperties
  <2> QED BY <2>1, LengthFieldTyped
<1>2. first \in Seq(Byte) /\ Len(first) = 1 /\ first[1] = Start
  BY ByteAssumption
<1> HIDE DEF field, first
<1>3. /\ first \o field \in Seq(Byte) /\ Len(first \o field) = 1 + Len(field)
      /\ (first \o field)[1] = Start
      /\ \A j \in 1 .. Len(field) : (first \o field)[1 + j] = field[j]
  <2>1. /\ first \o field \in Seq(Byte) /\ Len(first \o field) = Len(first) + Len(field)
        /\ \A j \in 1 .. Len(first) : (first \o field)[j] = first[j]
        /\ \A j \in 1 .. Len(field) : (first \o field)[Len(first) + j] = field[j]
    BY <1>1, <1>2, ConcatCells
  <2>2. 1 \in 1 .. Len(first)
    BY <1>2
  <2> QED BY <1>2, <2>1, <2>2
<1> DEFINE h == first \o field
<1> HIDE DEF h
<1>4. /\ h \in Seq(Byte) /\ Len(h) = 1 + Len(field) /\ h[1] = Start
      /\ \A j \in 1 .. Len(field) : h[1 + j] = field[j]
  BY <1>3 DEF h
<1>5. /\ h \o p \in Seq(Byte) /\ Len(h \o p) = 1 + Len(field) + Len(p)
      /\ \A j \in 1 .. 1 + Len(field) : (h \o p)[j] = h[j]
  <2>1. /\ h \o p \in Seq(Byte) /\ Len(h \o p) = Len(h) + Len(p)
        /\ \A j \in 1 .. Len(h) : (h \o p)[j] = h[j]
    BY <1>4, ConcatCells
  <2> QED BY <1>4, <2>1
<1>6. (h \o p)[1] = Start /\ \A j \in 1 .. Len(field) : (h \o p)[1 + j] = field[j]
  BY <1>1, <1>4, <1>5
<1> QED BY <1>5, <1>6 DEF h, first, field

\* The buffer holds what has arrived of s.
Begins(m, n, s) == \A j \in 1 .. Len(s) : j <= n => m[j - 1] = s[j]

\* dtrs waits for the rest of a frame that has begun to arrive.
LEMMA DtrsWaits ==
  ASSUME CrcHas16Bits, NEW m, NEW n \in Nat, Readable(m, n),
         NEW p \in Seq(Byte), NEW checked \in BOOLEAN,
         LengthFits(p), n < Len(dtrsNetCreateFrame(p, checked)),
         Begins(m, n, dtrsNetCreateFrame(p, checked))
  PROVE  dtrsNetGetFrame(m, n) = Skip(0)
<1> DEFINE field == LengthField(Len(p))
           s == <<Start>> \o field \o p
           frame == dtrsNetCreateFrame(p, checked)
           end == EndAt(m, 1)
<1>1. CASE n < 4
  BY <1>1 DEF dtrsNetGetFrame
<1>2. CASE ~(n < 4)
  <2>1. Len(p) \in Nat /\ field \in Seq(Byte) /\ Len(field) \in Nat /\ Len(field) >= 1
    <3>1. Len(p) \in Nat
      BY LenProperties
    <3> QED BY <3>1, LengthFieldTyped
  <2>2. /\ s \in Seq(Byte) /\ Len(s) = 1 + Len(field) + Len(p) /\ s[1] = Start
        /\ \A j \in 1 .. Len(field) : s[1 + j] = field[j]
    BY HeadCells
  <2> HIDE DEF s
  <2>3. /\ Len(frame) = Len(s) + (IF checked THEN 3 ELSE 1)
        /\ \A j \in 1 .. Len(s) : frame[j] = s[j]
        /\ frame[Len(s) + 1] = IF checked THEN Checked ELSE Plain
    <3>1. frame = Closed(s, checked)
      BY DEF dtrsNetCreateFrame, s
    <3> HIDE DEF frame
    <3> QED BY <2>2, <3>1, ClosedCells
  <2> HIDE DEF field, frame
  <2>4. \A j \in 1 .. Len(frame) : j <= n => m[j - 1] = frame[j]
    BY DEF Begins, frame
  <2>5. m[0] = Start
    <3>1. 1 \in 1 .. Len(frame) /\ 1 \in 1 .. Len(s) /\ 1 <= n /\ 1 - 1 = 0
      BY <1>2, <2>1, <2>2, <2>3
    <3> QED BY <2>2, <2>3, <2>4, <3>1
  <2>6. Position(m, n, 0, Start) = 0
    <3>1. n \in Nat \ {0}
      BY <1>2
    <3> QED BY <2>5, <3>1, PositionHead
  <2>7. dtrsNetGetFrame(m, n) = dtrsFrame(m, n)
    BY <1>2, <2>6 DEF dtrsNetGetFrame
  <2>8. \A j \in 1 .. Len(field) : 1 + j - 1 < n => m[1 + j - 1] = field[j]
    <3> SUFFICES ASSUME NEW j \in 1 .. Len(field), 1 + j - 1 < n
                 PROVE  m[1 + j - 1] = field[j]
      OBVIOUS
    <3>1. 1 + j \in 1 .. Len(frame) /\ 1 + j \in 1 .. Len(s) /\ 1 + j <= n
      BY <2>1, <2>2, <2>3
    <3>2. m[(1 + j) - 1] = frame[1 + j] /\ frame[1 + j] = s[1 + j] /\ s[1 + j] = field[j]
      BY <2>2, <2>3, <2>4, <3>1
    <3> QED BY <3>2
  <2>9. end \in Nat
    <3>1. 1 \in Nat /\ 1 <= n
      BY <1>2
    <3> QED BY <3>1, EndTyped
  <2>10. CASE n <= Len(s)
    <3>1. 1 \in Nat /\ 1 <= n /\ n <= 1 + Len(field) + Len(p)
      BY <1>2, <2>2, <2>10
    <3>2. n <= end
      BY <2>8, <3>1, EndBehind DEF field
    <3>3. n < end + 1
      BY <2>9, <3>2
    <3>4. dtrsFrame(m, n) = Skip(0)
      <4>1. end + 1 \in Int /\ ~(n >= end + 1) /\ n # end + 1 /\ n # end + 2 /\ ~(n >= end + 3)
        BY <2>9, <3>3
      <4> HIDE DEF end
      <4> QED BY <3>3, <4>1 DEF dtrsFrame, end
    <3> QED BY <2>7, <3>4
  <2>11. CASE ~(n <= Len(s))
    <3>1. /\ checked /\ Len(s) \in Nat /\ n \in {Len(s) + 1, Len(s) + 2}
          /\ Len(frame) = Len(s) + 3 /\ frame[Len(s) + 1] = Checked
      <4>1. Len(s) \in Nat /\ n < Len(frame)
        BY <2>1, <2>2 DEF frame
      <4>2. checked
        BY <2>3, <2>11, <4>1
      <4> QED BY <2>3, <2>11, <4>1, <4>2
    <3>2. Holds(m, 0, s)
      <4> SUFFICES ASSUME NEW j \in 1 .. Len(s) PROVE m[0 + j - 1] = s[j]
        BY DEF Holds
      <4>1. j \in 1 .. Len(frame) /\ j <= n /\ 0 + j - 1 = j - 1
        BY <3>1
      <4> QED BY <2>3, <2>4, <4>1
    <3>3. end = Len(s)
      BY <3>2, HeadHeld DEF s, field, LengthFits
    <3>4. m[Len(s)] = Checked
      <4>1. Len(s) + 1 \in 1 .. Len(frame) /\ Len(s) + 1 <= n /\ (Len(s) + 1) - 1 = Len(s)
        BY <3>1
      <4> QED BY <2>4, <3>1, <4>1
    <3>5. ~(n < end + 1) /\ n >= end + 1 /\ n \in {end + 1, end + 2} /\ ~(n >= end + 3)
      BY <3>1, <3>3
    <3>6. dtrsFrame(m, n) = Skip(0)
      BY <3>3, <3>4, <3>5, ByteAssumption DEF dtrsFrame
    <3> QED BY <2>7, <3>6
  <2> QED BY <2>10, <2>11
<1> QED BY <1>1, <1>2

\* miniData waits too: when it looks, the byte that came last is Plain, so a
\* length of which the second byte has not arrived is not taken for 0.
LEMMA MiniDataWaits ==
  ASSUME CrcHas16Bits, NEW m, NEW n \in Nat \ {0}, Readable(m, n),
         NEW p \in Seq(Byte), p # <<>>, LengthFits(p),
         n < Len(miniDataCreate(p)), Begins(m, n, miniDataCreate(p)),
         m[n - 1] = Plain, Plain # 0
  PROVE  miniDataGet(m, n) = Skip(0)
<1> DEFINE field == LengthField(Len(p))
           k == Len(field)
           s == <<Start>> \o field \o p
           frame == miniDataCreate(p)
           end == EndAt(m, 1)
<1>1. CASE n < 3
  BY <1>1 DEF miniDataGet
<1>2. CASE ~(n < 3)
  <2>1. Len(p) \in Nat /\ Len(p) > 0
    BY LenProperties, EmptySeq
  <2>2. /\ field \in Seq(Byte) /\ k \in Nat /\ k >= 1
        /\ k = 1 \/ (k = 3 /\ field[1] = Long)
    <3>1. /\ field \in Seq(Byte) /\ k \in Nat /\ k >= 1
          /\ Len(p) < Long => k = 1
          /\ ~(Len(p) < Long) => k = 3 /\ field[1] = Long
      BY <2>1, LengthFieldTyped
    <3> QED BY <3>1
  <2>3. /\ s \in Seq(Byte) /\ Len(s) = 1 + k + Len(p) /\ s[1] = Start
        /\ \A j \in 1 .. k : s[1 + j] = field[j]
    BY HeadCells
  <2> HIDE DEF s
  <2>4. Len(frame) = Len(s) + 1 /\ \A j \in 1 .. Len(s) : frame[j] = s[j]
    <3>1. frame = Closed(s, FALSE)
      BY DEF miniDataCreate, s
    <3> HIDE DEF frame
    <3> QED BY <2>3, <3>1, ClosedCells
  <2> HIDE DEF field, k, frame
  <2>5. n <= Len(s) /\ Len(s) \in Nat /\ \A j \in 1 .. n : m[j - 1] = s[j]
    <3>1. n <= Len(s) /\ Len(s) \in Nat
      <4>1. Len(s) \in Nat /\ n < Len(frame)
        BY <2>1, <2>2, <2>3 DEF frame
      <4> QED BY <2>4, <4>1
    <3>2. ASSUME NEW j \in 1 .. n PROVE m[j - 1] = s[j]
      <4>1. j \in 1 .. Len(frame) /\ j <= n /\ j \in 1 .. Len(s)
        BY <2>4, <3>1
      <4> QED BY <2>4, <4>1 DEF Begins, frame
    <3> QED BY <3>1, <3>2
  <2>6. m[0] = Start
    <3>1. 1 \in 1 .. n /\ 1 - 1 = 0
      BY <1>2
    <3> QED BY <2>3, <2>5, <3>1
  <2>7. miniDataGet(m, n) = miniDataFrame(m, n)
    BY <1>2, <2>6, PositionHead DEF miniDataGet
  <2>8. ASSUME NEW j \in 1 .. k, 1 + j - 1 < n PROVE m[1 + j - 1] = field[j]
    <3>1. 1 + j \in 1 .. n /\ (1 + j) - 1 = 1 + j - 1
      BY <2>2, <2>8
    <3>2. m[(1 + j) - 1] = s[1 + j] /\ s[1 + j] = field[j]
      BY <2>3, <2>5, <3>1
    <3> QED BY <3>1, <3>2
  <2>9. end \in Nat /\ n <= end /\ ParmLen(m, 1) \in Nat
    <3>1. 1 \in Nat /\ 1 <= n /\ n <= 1 + k + Len(p)
      BY <1>2, <2>3, <2>5
    <3> QED BY <2>8, <3>1, EndBehind, EndTyped DEF field, k
  <2>10. ParmLen(m, 1) > 0
    <3>1. CASE 1 + k <= n
      <4>1. Holds(m, 1, field)
        BY <2>2, <2>8, <3>1 DEF Holds, k
      <4>2. ParmLen(m, 1) = Len(p)
        BY <4>1, FieldHeld DEF field, LengthFits
      <4> QED BY <2>1, <4>2
    <3>2. CASE ~(1 + k <= n)
      <4>1. k # 1
        BY <1>2, <3>2
      <4>2. k = 3 /\ n = 3 /\ field[1] = Long
        BY <1>2, <2>2, <3>2, <4>1
      <4>3. m[1] = Long
        <5>1. 1 \in 1 .. k /\ 1 + 1 - 1 < n /\ 1 + 1 - 1 = 1
          BY <4>2
        <5> QED BY <2>8, <4>2, <5>1
      <4>4. ParmLen(m, 1) = Word(Plain, m[3])
        BY <4>2, <4>3 DEF ParmLen
      <4>5. Word(Plain, m[3]) > 0
        <5> DEFINE hi == m[3]
        <5>1. 3 \in 0 .. n + 2
          BY <4>2
        <5>2. hi \in Nat /\ Plain \in Nat /\ Plain > 0 /\ Base \in Nat
          BY <5>1, ByteAssumption DEF Readable, Byte
        <5> HIDE DEF hi
        <5>3. Base * hi \in Nat
          BY <5>2
        <5>4. Plain + Base * hi > 0
          BY <5>2, <5>3
        <5> QED BY <5>4 DEF Word, hi
      <4> QED BY <4>4, <4>5
    <3> QED BY <3>1, <3>2
  <2>11. miniDataFrame(m, n) = Skip(0)
    <3>1. n < end + 1 /\ ~(n >= end + 1) /\ ParmLen(m, 1) # 0
      BY <2>9, <2>10
    <3> HIDE DEF end
    <3> QED BY <2>10, <3>1 DEF miniDataFrame, end
  <2> QED BY <2>7, <2>11
<1> QED BY <1>1, <1>2

\* The bytes before the end of a hxnet frame.
LEMMA HxHeadCells ==
  ASSUME NEW flag \in Seq(Byte), NEW p \in Seq(Byte)
  PROVE  LET s == <<Start>> \o flag \o <<0>> \o LengthField(Len(p)) \o p
             at == 2 + Len(flag)
         IN  /\ s \in Seq(Byte) /\ Len(s) = at + Len(LengthField(Len(p))) + Len(p)
             /\ s[1] = Start /\ s[at] = 0
             /\ \A j \in 1 .. Len(flag) : s[1 + j] = flag[j]
             /\ \A j \in 1 .. Len(LengthField(Len(p))) : s[at + j] = LengthField(Len(p))[j]
<1> DEFINE field == LengthField(Len(p))
           first == <<Start>>
           zero == <<0>>
           at == 2 + Len(flag)
<1>1. /\ Len(p) \in Nat /\ Len(flag) \in Nat /\ at \in Nat
      /\ field \in Seq(Byte) /\ Len(field) \in Nat
  <2>1. Len(p) \in Nat /\ Len(flag) \in Nat
    BY LenProperties
  <2> QED BY <2>1, LengthFieldTyped
<1>2. /\ first \in Seq(Byte) /\ Len(first) = 1 /\ first[1] = Start
      /\ zero \in Seq(Byte) /\ Len(zero) = 1 /\ zero[1] = 0
  BY ByteAssumption DEF Byte
<1> HIDE DEF field, first, zero
<1> DEFINE a == first \o flag
           z == a \o zero
           h == z \o field
           s == h \o p
<1>3. /\ a \in Seq(Byte) /\ Len(a) = 1 + Len(flag) /\ a[1] = Start
      /\ \A j \in 1 .. Len(flag) : a[1 + j] = flag[j]
  <2>1. /\ a \in Seq(Byte) /\ Len(a) = Len(first) + Len(flag)
        /\ \A j \in 1 .. Len(first) : a[j] = first[j]
        /\ \A j \in 1 .. Len(flag) : a[Len(first) + j] = flag[j]
    BY <1>2, ConcatCells
  <2>2. 1 \in 1 .. Len(first)
    BY <1>2
  <2> HIDE DEF a
  <2> QED BY <1>2, <2>1, <2>2
<1> HIDE DEF a
<1>4. /\ z \in Seq(Byte) /\ Len(z) = at
      /\ \A j \in 1 .. 1 + Len(flag) : z[j] = a[j]
      /\ z[at] = 0
  <2>1. /\ z \in Seq(Byte) /\ Len(z) = Len(a) + Len(zero)
        /\ \A j \in 1 .. Len(a) : z[j] = a[j]
        /\ \A j \in 1 .. Len(zero) : z[Len(a) + j] = zero[j]
    BY <1>2, <1>3, ConcatCells
  <2>2. 1 \in 1 .. Len(zero) /\ Len(a) + 1 = at
    BY <1>1, <1>2, <1>3
  <2>3. z[at] = 0 /\ Len(z) = at
    BY <1>2, <2>1, <2>2
  <2> HIDE DEF z
  <2> QED BY <1>3, <2>1, <2>3
<1> HIDE DEF z
<1>5. /\ h \in Seq(Byte) /\ Len(h) = at + Len(field)
      /\ \A j \in 1 .. at : h[j] = z[j]
      /\ \A j \in 1 .. Len(field) : h[at + j] = field[j]
  <2>1. /\ h \in Seq(Byte) /\ Len(h) = Len(z) + Len(field)
        /\ \A j \in 1 .. Len(z) : h[j] = z[j]
        /\ \A j \in 1 .. Len(field) : h[Len(z) + j] = field[j]
    BY <1>1, <1>4, ConcatCells
  <2> HIDE DEF h, at
  <2> QED BY <1>4, <2>1
<1> HIDE DEF h
<1>6. /\ s \in Seq(Byte) /\ Len(s) = Len(h) + Len(p)
      /\ \A j \in 1 .. Len(h) : s[j] = h[j]
  BY <1>5, ConcatCells
<1> HIDE DEF s
<1>7. s[1] = Start /\ s[at] = 0 /\ \A j \in 1 .. Len(flag) : s[1 + j] = flag[j]
  <2>1. ASSUME NEW j \in 1 .. 1 + Len(flag) PROVE s[j] = a[j]
    <3>1. j \in 1 .. at /\ j \in 1 .. Len(h)
      BY <1>1, <1>5
    <3> QED BY <1>4, <1>5, <1>6, <3>1
  <2>2. s[at] = z[at]
    <3>1. at \in 1 .. at /\ at \in 1 .. Len(h)
      BY <1>1, <1>5
    <3> QED BY <1>5, <1>6, <3>1
  <2>3. 1 \in 1 .. 1 + Len(flag) /\ \A j \in 1 .. Len(flag) : 1 + j \in 1 .. 1 + Len(flag)
    BY <1>1
  <2> QED BY <1>3, <1>4, <2>1, <2>2, <2>3
<1>8. ASSUME NEW j \in 1 .. Len(field) PROVE s[at + j] = field[j]
  <2>1. at + j \in 1 .. Len(h)
    BY <1>1, <1>5
  <2> QED BY <1>5, <1>6, <2>1
<1>9. s = <<Start>> \o flag \o <<0>> \o LengthField(Len(p)) \o p
  BY DEF s, h, z, a, first, zero, field
<1>10. Len(s) = at + Len(field) + Len(p)
  BY <1>5, <1>6
<1> QED BY <1>6, <1>7, <1>8, <1>9, <1>10 DEF field

\* hxnet waits when the flag has at most two bytes: of four bytes one is then
\* the zero behind it.
LEMMA HxNetWaits ==
  ASSUME CrcHas16Bits, NEW m, NEW n \in Nat, Readable(m, n),
         NEW flag \in Seq(Byte \ {0}), Len(flag) <= 2, Base > 2,
         NEW p \in Seq(Byte), LengthFits(p),
         n < Len(hxNetCreateFrame(flag, p, FALSE)),
         Begins(m, n, hxNetCreateFrame(flag, p, FALSE))
  PROVE  hxNetGetFrame(m, n) = Skip(0)
<1> DEFINE field == LengthField(Len(p))
           k == Len(field)
           at == 2 + Len(flag)
           s == <<Start>> \o flag \o <<0>> \o field \o p
           frame == hxNetCreateFrame(flag, p, FALSE)
           end == EndAt(m, at)
<1>1. CASE n < 4
  BY <1>1 DEF hxNetGetFrame
<1>2. CASE ~(n < 4)
  <2>1. /\ flag \in Seq(Byte) /\ Len(flag) \in Nat /\ \A j \in 1 .. Len(flag) : flag[j] # 0
        /\ Len(p) \in Nat /\ k \in Nat /\ field \in Seq(Byte)
    <3>1. flag \in Seq(Byte) /\ \A j \in 1 .. Len(flag) : flag[j] # 0
      OBVIOUS
    <3>2. Len(p) \in Nat /\ Len(flag) \in Nat
      BY LenProperties
    <3> QED BY <3>1, <3>2, LengthFieldTyped
  <2>2. /\ s \in Seq(Byte) /\ Len(s) = at + k + Len(p) /\ s[1] = Start /\ s[at] = 0
        /\ \A j \in 1 .. Len(flag) : s[1 + j] = flag[j]
        /\ \A j \in 1 .. k : s[at + j] = field[j]
    BY <2>1, HxHeadCells
  <2> HIDE DEF s
  <2>3. Len(frame) = Len(s) + 1 /\ \A j \in 1 .. Len(s) : frame[j] = s[j]
    <3>1. ~(Len(flag) > Base - 1)
      BY <2>1, ByteAssumption
    <3>2. frame = Closed(s, FALSE)
      BY <3>1 DEF hxNetCreateFrame, s
    <3> HIDE DEF frame
    <3> QED BY <2>2, <3>2, ClosedCells
  <2> HIDE DEF field, k, frame, at
  <2>4. at \in 2 .. 4 /\ at = 2 + Len(flag)
    BY <2>1 DEF at
  <2>5. n <= Len(s) /\ Len(s) \in Nat /\ \A j \in 1 .. n : m[j - 1] = s[j]
    <3>1. n <= Len(s) /\ Len(s) \in Nat
      <4>1. Len(s) \in Nat /\ n < Len(frame)
        BY <2>2, LenProperties DEF frame
      <4> QED BY <2>3, <4>1
    <3>2. ASSUME NEW j \in 1 .. n PROVE m[j - 1] = s[j]
      <4>1. j \in 1 .. Len(frame) /\ j <= n /\ j \in 1 .. Len(s)
        BY <2>3, <3>1
      <4> QED BY <2>3, <4>1 DEF Begins, frame
    <3> QED BY <3>1, <3>2
  <2>6. m[0] = Start /\ m[at - 1] = 0 /\ \A j \in 1 .. at - 2 : m[j] # 0
    <3>1. 1 \in 1 .. n /\ 1 - 1 = 0 /\ at \in 1 .. n
      BY <1>2, <2>4
    <3>2. ASSUME NEW j \in 1 .. at - 2 PROVE m[j] # 0
      <4>1. j \in 1 .. Len(flag) /\ 1 + j \in 1 .. n /\ (1 + j) - 1 = j
        BY <1>2, <2>1, <2>4
      <4>2. m[(1 + j) - 1] = s[1 + j] /\ s[1 + j] = flag[j] /\ flag[j] # 0
        BY <2>1, <2>2, <2>5, <4>1
      <4> QED BY <4>1, <4>2
    <3> QED BY <2>2, <2>5, <3>1, <3>2
  <2>7. Position(m, n, 0, Start) = 0
    BY <1>2, <2>6, PositionHead
  <2>8. Position(m, n, 1, 0) = at - 1
    <3> DEFINE nul == at - 1
    <3>1. /\ nul \in 1 .. n - 1 /\ 1 \in Nat /\ m[nul] = 0
          /\ \A j \in 1 .. nul - 1 : m[j] # 0
      BY <1>2, <2>4, <2>6
    <3> HIDE DEF nul
    <3>2. Position(m, n, 1, 0) = nul
      BY <3>1, PositionIs, SMTT(60)
    <3> QED BY <3>2 DEF nul
  <2>9. \E f : hxNetGetFrame(m, n) = hxFrame(m, n, at, f)
    <3>1. at - 1 # n /\ (at - 1) + 1 = at /\ n >= 4
      BY <1>2, <2>4
    <3>2. hxNetGetFrame(m, n) = hxFrame(m, n, (at - 1) + 1, Cells(m, 1, (at - 1) - 1))
      BY <1>2, <2>7, <2>8, <3>1 DEF hxNetGetFrame
    <3> QED BY <3>1, <3>2
  <2>10. end \in Nat /\ n <= end
    <3>1. ASSUME NEW j \in 1 .. k, at + j - 1 < n PROVE m[at + j - 1] = field[j]
      <4>1. at + j \in 1 .. n /\ (at + j) - 1 = at + j - 1
        BY <2>1, <2>4, <3>1
      <4>2. m[(at + j) - 1] = s[at + j] /\ s[at + j] = field[j]
        BY <2>2, <2>5, <4>1
      <4> QED BY <4>1, <4>2
    <3>2. at \in Nat /\ at <= n /\ n <= at + k + Len(p)
      BY <1>2, <2>2, <2>4, <2>5
    <3> QED BY <3>1, <3>2, EndBehind, EndTyped DEF field, k
  <2>11. ASSUME NEW f PROVE hxFrame(m, n, at, f) = Skip(0)
    <3>1. n < end + 1 /\ ~(n >= end + 1)
      BY <2>10
    <3> HIDE DEF end
    <3> QED BY <3>1 DEF hxFrame, end
  <2> QED BY <2>9, <2>11
<1> QED BY <1>1, <1>2

\* A frame that the line carries.
LEMMA FrameFacts ==
  ASSUME CrcHas16Bits, LineUse, NEW p \in Protocols, NEW pk \in Sendable[p]
  PROVE  /\ pk.flag \in Seq(Byte \ {0}) /\ pk.parm \in Seq(Byte) /\ pk.checked \in BOOLEAN
         /\ LengthFits(pk.parm)
         /\ Encode(p, pk) \in Seq(Byte) /\ Len(Encode(p, pk)) \in Nat
         /\ Len(Encode(p, pk)) >= 3 /\ Len(Encode(p, pk)) <= CacheSize
         /\ Encode(p, pk)[1] = Start
         /\ p # "dtrs" => Len(Encode(p, pk)) >= 4
         /\ p = "dtrs" /\ Len(Encode(p, pk)) < 4 => pk.parm = <<>>
         /\ p = "miniData" => /\ Len(Encode(p, pk)) <= CacheSize - 1
                              /\ Encode(p, pk)[Len(Encode(p, pk))] = Plain
<1> DEFINE f == Encode(p, pk)
           flag == pk.flag
           parm == pk.parm
           field == LengthField(Len(parm))
<1>1. pk \in [flag : Seq(Byte \ {0}), parm : Seq(Byte), checked : BOOLEAN]
  BY LineAssumption
<1>2. /\ flag \in Seq(Byte \ {0}) /\ parm \in Seq(Byte) /\ pk.checked \in BOOLEAN
      /\ f \in Seq(Byte)
  BY <1>1, EncodeTyped
<1>3. /\ Len(parm) \in Nat /\ Len(flag) \in Nat /\ flag \in Seq(Byte) /\ Len(f) \in Nat
      /\ field \in Seq(Byte) /\ Len(field) \in Nat /\ Len(field) >= 1
      /\ parm # <<>> => Len(parm) > 0
  <2>1. flag \in Seq(Byte)
    BY <1>2
  <2>2. Len(parm) \in Nat /\ Len(flag) \in Nat /\ Len(f) \in Nat /\ (parm # <<>> => Len(parm) > 0)
    BY <1>2, LenProperties, EmptySeq
  <2> QED BY <2>1, <2>2, LengthFieldTyped
<1>4. /\ LengthFits(parm)
      /\ Len(f) <= IF p = "miniData" THEN CacheSize - 1 ELSE CacheSize
      /\ p = "hxnet" => Len(flag) <= 2
      /\ p = "miniData" => parm # <<>>
      /\ Base > 2
  BY DEF LineUse, LengthFits
<1>5. p \in {"hxnet", "dtrs", "miniData"} /\ CacheSize \in Nat
  BY LineAssumption
<1> DEFINE s == <<Start>> \o field \o parm
           t == <<Start>> \o flag \o <<0>> \o field \o parm
<1>6. s \in Seq(Byte) /\ Len(s) = 1 + Len(field) + Len(parm) /\ s[1] = Start
  BY <1>2, HeadCells
<1>7. t \in Seq(Byte) /\ Len(t) = 2 + Len(flag) + Len(field) + Len(parm) /\ t[1] = Start
  BY <1>2, <1>3, HxHeadCells
<1>8. p = "hxnet" => f = Closed(t, pk.checked)
  <2>1. p = "hxnet" => ~(Len(flag) > Base - 1)
    BY <1>3, <1>4, ByteAssumption
  <2> QED BY <2>1 DEF Encode, hxNetCreateFrame
<1>9. p = "dtrs" => f = Closed(s, pk.checked)
  BY DEF Encode, dtrsNetCreateFrame
<1>10. p = "miniData" => f = Closed(s, FALSE)
  BY <1>4 DEF Encode, miniDataCreate
<1> HIDE DEF f, flag, parm, field, s, t
<1>11. CASE p = "hxnet"
  <2>1. /\ Len(f) = Len(t) + (IF pk.checked THEN 3 ELSE 1)
        /\ \A j \in 1 .. Len(t) : f[j] = t[j]
    <3> DEFINE checked == pk.checked
    <3>1. f = Closed(t, checked) /\ checked \in BOOLEAN
      BY <1>2, <1>7, <1>8, <1>11
    <3> HIDE DEF checked
    <3>2. /\ Len(Closed(t, checked)) = Len(t) + (IF checked THEN 3 ELSE 1)
          /\ \A j \in 1 .. Len(t) : Closed(t, checked)[j] = t[j]
      BY <1>7, <3>1, ClosedCells
    <3> QED BY <3>1, <3>2 DEF checked
  <2>2. Len(f) >= 4 /\ f[1] = Start
    <3>1. Len(t) >= 3 /\ 1 \in 1 .. Len(t)
      BY <1>3, <1>7
    <3> QED BY <1>7, <2>1, <3>1
  <2>3. Len(f) <= CacheSize /\ Len(f) >= 3
    BY <1>3, <1>4, <1>5, <1>11, <2>2
  <2> QED BY <1>2, <1>3, <1>4, <1>11, <2>2, <2>3 DEF f, flag, parm
<1>12. CASE p = "dtrs"
  <2>1. /\ Len(f) = Len(s) + (IF pk.checked THEN 3 ELSE 1)
        /\ \A j \in 1 .. Len(s) : f[j] = s[j]
    <3> DEFINE checked == pk.checked
    <3>1. f = Closed(s, checked) /\ checked \in BOOLEAN
      BY <1>2, <1>6, <1>9, <1>12
    <3> HIDE DEF checked
    <3>2. /\ Len(Closed(s, checked)) = Len(s) + (IF checked THEN 3 ELSE 1)
          /\ \A j \in 1 .. Len(s) : Closed(s, checked)[j] = s[j]
      BY <1>6, <3>1, ClosedCells
    <3> QED BY <3>1, <3>2 DEF checked
  <2>2. Len(f) >= 3 /\ f[1] = Start
    <3>1. Len(s) >= 2 /\ 1 \in 1 .. Len(s)
      BY <1>3, <1>6
    <3> QED BY <1>6, <2>1, <3>1
  <2>3. Len(f) < 4 => parm = <<>>
    <3>1. Len(f) >= 3 + Len(parm)
      BY <1>3, <1>6, <2>1
    <3> QED BY <1>3, <3>1
  <2>4. Len(f) <= CacheSize
    BY <1>4, <1>12
  <2> QED BY <1>2, <1>3, <1>4, <1>12, <2>2, <2>3, <2>4 DEF f, flag, parm
<1>13. CASE p = "miniData"
  <2>1. /\ Len(f) = Len(s) + 1
        /\ \A j \in 1 .. Len(s) : f[j] = s[j]
        /\ f[Len(s) + 1] = Plain
    BY <1>6, <1>10, <1>13, ClosedCells
  <2>2. Len(f) >= 4 /\ f[1] = Start /\ f[Len(f)] = Plain
    <3>1. Len(s) >= 3 /\ 1 \in 1 .. Len(s)
      BY <1>3, <1>4, <1>6, <1>13
    <3> QED BY <1>6, <2>1, <3>1
  <2>3. Len(f) <= CacheSize - 1 /\ Len(f) <= CacheSize /\ Len(f) >= 3
    BY <1>3, <1>4, <1>5, <1>13, <2>2
  <2> QED BY <1>2, <1>3, <1>4, <1>13, <2>2, <2>3 DEF f, flag, parm
<1> QED BY <1>5, <1>11, <1>12, <1>13

\* What is found when the buffer begins with a frame: nothing until it is
\* there, then the frame.  dtrs and hxnet want four bytes, miniData looks when
\* the last byte can end a frame.
LEMMA FrameAtHead ==
  ASSUME CrcHas16Bits, LineUse, proto \in Protocols, NEW pk \in Sendable[proto],
         NEW m, NEW n \in Nat \ {0}, Readable(m, n), Begins(m, n, Encode(proto, pk))
  PROVE  /\ n < Len(Encode(proto, pk)) => GetFrame(m, n, m[n - 1]) = Skip(0)
         /\ /\ n >= Len(Encode(proto, pk)) /\ n >= 4
            /\ proto = "miniData" => m[n - 1] = Plain
            => GetFrame(m, n, m[n - 1]) = Found(Len(Encode(proto, pk)), pk.flag, pk.parm)
<1> DEFINE f == Encode(proto, pk)
<1>1. /\ pk.flag \in Seq(Byte \ {0}) /\ pk.parm \in Seq(Byte) /\ pk.checked \in BOOLEAN
      /\ LengthFits(pk.parm) /\ Len(f) \in Nat
  BY FrameFacts
<1>2. /\ Base > 2 /\ Plain # 0
      /\ IF proto = "hxnet" THEN Len(pk.flag) <= 2 /\ ~pk.checked ELSE pk.flag = <<>>
      /\ proto = "miniData" => pk.parm # <<>> /\ ~pk.checked
  BY DEF LineUse
<1>3. proto \in {"hxnet", "dtrs", "miniData"}
  BY LineAssumption
<1>4. ASSUME n >= Len(f) PROVE Holds(m, 0, f)
  <2> SUFFICES ASSUME NEW j \in 1 .. Len(f) PROVE m[0 + j - 1] = f[j]
    BY DEF Holds
  <2>1. j <= n /\ 0 + j - 1 = j - 1
    BY <1>1, <1>4
  <2> HIDE DEF f
  <2> QED BY <2>1 DEF Begins, f
<1>5. CASE proto = "hxnet"
  <2>1. f = hxNetCreateFrame(pk.flag, pk.parm, FALSE) /\ pk.checked = FALSE
    BY <1>1, <1>2, <1>5 DEF Encode
  <2>2. GetFrame(m, n, m[n - 1]) = hxNetGetFrame(m, n)
    BY <1>5 DEF GetFrame
  <2>3. n < Len(f) => hxNetGetFrame(m, n) = Skip(0)
    BY <1>1, <1>2, <1>5, <2>1, HxNetWaits
  <2>4. n >= Len(f) => hxNetGetFrame(m, n) = Found(Len(f), pk.flag, pk.parm)
    <3>1. Len(pk.flag) \in Nat
      BY <1>1, LenProperties
    <3>2. Len(pk.flag) <= Base - 1 /\ Len(pk.parm) < Base * Base
      BY <1>1, <1>2, <1>5, <3>1, ByteAssumption DEF LengthFits
    <3> DEFINE flag == pk.flag
               parm == pk.parm
               frame == hxNetCreateFrame(flag, parm, FALSE)
    <3>3. ASSUME n >= Len(frame) PROVE hxNetGetFrame(m, n) = Found(Len(frame), flag, parm)
      <4>1. /\ flag \in Seq(Byte \ {0}) /\ parm \in Seq(Byte) /\ FALSE \in BOOLEAN /\ n \in Nat
            /\ Len(flag) <= Base - 1 /\ Len(parm) < Base * Base /\ Holds(m, 0, frame)
        BY <1>1, <1>4, <2>1, <3>2, <3>3
      <4> HIDE DEF flag, parm
      <4> QED BY <3>3, <4>1, HxNetRoundTrip
    <3> QED BY <2>1, <3>3
  <2> QED BY <2>2, <2>3, <2>4
<1>6. CASE proto = "dtrs"
  <2>1. f = dtrsNetCreateFrame(pk.parm, pk.checked) /\ pk.flag = <<>>
    BY <1>2, <1>6 DEF Encode
  <2>2. GetFrame(m, n, m[n - 1]) = dtrsNetGetFrame(m, n)
    BY <1>6 DEF GetFrame
  <2>3. n < Len(f) => dtrsNetGetFrame(m, n) = Skip(0)
    BY <1>1, <2>1, DtrsWaits
  <2>4. n >= Len(f) /\ n >= 4 => dtrsNetGetFrame(m, n) = Found(Len(f), <<>>, pk.parm)
    <3>1. Len(pk.parm) < Base * Base
      BY <1>1 DEF LengthFits
    <3> QED BY <1>1, <1>4, <2>1, <3>1, DtrsRoundTrip
  <2> QED BY <2>1, <2>2, <2>3, <2>4
<1>7. CASE proto = "miniData"
  <2>1. f = miniDataCreate(pk.parm) /\ pk.flag = <<>> /\ pk.parm # <<>>
    BY <1>2, <1>7 DEF Encode
  <2>2. CASE m[n - 1] = Plain
    <3>1. GetFrame(m, n, m[n - 1]) = miniDataGet(m, n)
      BY <1>7, <2>2 DEF GetFrame
    <3>2. n < Len(f) => miniDataGet(m, n) = Skip(0)
      BY <1>1, <1>2, <2>1, <2>2, MiniDataWaits
    <3>3. n >= Len(f) => miniDataGet(m, n) = Found(Len(f), <<>>, pk.parm)
      <4>1. Len(pk.parm) < Base * Base
        BY <1>1 DEF LengthFits
      <4> QED BY <1>1, <1>4, <2>1, <4>1, MiniDataRoundTrip
    <3> QED BY <2>1, <3>1, <3>2, <3>3
  <2>3. CASE m[n - 1] # Plain
    <3>1. GetFrame(m, n, m[n - 1]) = Skip(0)
      BY <1>7, <2>3 DEF GetFrame
    <3> QED BY <1>7, <2>3, <3>1
  <2> QED BY <2>2, <2>3
<1> QED BY <1>3, <1>5, <1>6, <1>7

\* What is found when it begins with another byte: that byte and those up to
\* the next Start are to be removed, or nothing yet.
LEMMA JunkAtHead ==
  ASSUME proto \in Protocols, NEW m, NEW n \in Nat \ {0}, m[0] # Start
  PROVE  \E k \in 1 .. n :
           /\ \A x \in 0 .. k - 1 : m[x] # Start
           /\ k < n => m[k] = Start
           /\ GetFrame(m, n, m[n - 1]) \in {Skip(0), Skip(k)}
           /\ n >= 4 /\ proto # "miniData" => GetFrame(m, n, m[n - 1]) = Skip(k)
<1> DEFINE k == Position(m, n, 0, Start)
<1>1. /\ k \in 0 .. n /\ \A x \in 0 .. k - 1 : m[x] # Start
      /\ k < n => m[k] = Start
  <2>1. 0 \in 0 .. n /\ n \in Nat
    OBVIOUS
  <2> QED BY <2>1, PositionFirst
<1>2. k > 0 /\ k # 0
  BY <1>1
<1>3. proto \in {"hxnet", "dtrs", "miniData"}
  BY LineAssumption
<1>4. hxNetGetFrame(m, n) = IF n < 4 THEN Skip(0) ELSE Skip(k)
  <2> HIDE DEF k
  <2> QED BY <1>2 DEF hxNetGetFrame, k
<1>5. dtrsNetGetFrame(m, n) = IF n < 4 THEN Skip(0) ELSE Skip(k)
  <2> HIDE DEF k
  <2> QED BY <1>2 DEF dtrsNetGetFrame, k
<1>6. miniDataGet(m, n) = IF n < 3 THEN Skip(0) ELSE Skip(k)
  <2> HIDE DEF k
  <2> QED BY <1>2 DEF miniDataGet, k
<1> HIDE DEF k
<1>7. /\ GetFrame(m, n, m[n - 1]) \in {Skip(0), Skip(k)}
      /\ n >= 4 /\ proto # "miniData" => GetFrame(m, n, m[n - 1]) = Skip(k)
  BY <1>3, <1>4, <1>5, <1>6 DEF GetFrame
<1> QED BY <1>1, <1>2, <1>7

-----------------------------------------------------------------------------
(***************************************************************************)
(* The packets that are on their way.  all are the packets sent and k how  *)
(* many of them were handled; s are the bytes that have arrived and those  *)
(* that have not, total in number.  The frames of the others lie in s, in  *)
(* order and apart, the frame of the i-th at pos[i], with a checksum if    *)
(* c[i]; and outside of them no byte is Start.                             *)
(***************************************************************************)
PacketOf(all, c, i) == [flag |-> all[i].flag, parm |-> all[i].parm, checked |-> c[i]]
FrameOf(p, all, c, i) == Encode(p, PacketOf(all, c, i))
Inside(p, all, c, pos, i, x) == pos[i] <= x /\ x < pos[i] + Len(FrameOf(p, all, c, i))

Laid(p, all, k, s, total, pos, c) ==
  /\ \A i \in k + 1 .. Len(all) :
       /\ PacketOf(all, c, i) \in Sendable[p]
       /\ pos[i] \in Nat /\ pos[i] + Len(FrameOf(p, all, c, i)) <= total
       /\ \A j \in 1 .. Len(FrameOf(p, all, c, i)) :
            s[pos[i] + j - 1] = FrameOf(p, all, c, i)[j]
       /\ \A h \in k + 1 .. i - 1 : pos[h] + Len(FrameOf(p, all, c, h)) <= pos[i]
  /\ \A x \in 0 .. total - 1 :
       s[x] = Start => \E i \in k + 1 .. Len(all) : Inside(p, all, c, pos, i, x)

\* The first frame on its way begins where the buffer does.
AtHead(all, k, pos) == k < Len(all) /\ pos[k + 1] = 0

\* The frame of a packet on its way.
LEMMA FrameOfFacts ==
  ASSUME CrcHas16Bits, LineUse, NEW p \in Protocols, NEW all, NEW k \in Nat, Len(all) \in Nat,
         NEW s, NEW total \in Nat, NEW pos, NEW c, Laid(p, all, k, s, total, pos, c),
         NEW i \in k + 1 .. Len(all)
  PROVE  /\ Len(FrameOf(p, all, c, i)) \in Nat /\ Len(FrameOf(p, all, c, i)) >= 3
         /\ Len(FrameOf(p, all, c, i)) <= CacheSize
         /\ pos[i] \in Nat /\ pos[i] <= total - 3 /\ s[pos[i]] = Start
<1> DEFINE f == FrameOf(p, all, c, i)
<1>1. /\ PacketOf(all, c, i) \in Sendable[p]
      /\ pos[i] \in Nat /\ pos[i] + Len(f) <= total
      /\ \A j \in 1 .. Len(f) : s[pos[i] + j - 1] = f[j]
  BY DEF Laid
<1>2. Len(f) \in Nat /\ Len(f) >= 3 /\ Len(f) <= CacheSize /\ f[1] = Start
  BY <1>1, FrameFacts DEF FrameOf
<1> HIDE DEF f
<1>3. s[pos[i] + 1 - 1] = Start /\ pos[i] + 1 - 1 = pos[i]
  <2>1. 1 \in 1 .. Len(f)
    BY <1>2
  <2> QED BY <1>1, <1>2, <2>1
<1>4. pos[i] <= total - 3
  BY <1>1, <1>2
<1> QED BY <1>1, <1>2, <1>3, <1>4 DEF f

\* One look at the bytes received finds nothing, and then hxnet and dtrs have
\* less than four bytes or the beginning of a frame; or bytes to remove that
\* belong to no frame; or the first frame on its way, whole.
Outcome(all, k, pos, c, m, n) ==
  LET r == GetFrame(m, n, m[n - 1])
      f == FrameOf(proto, all, c, k + 1)
  IN  \/ /\ r = Skip(0)
         /\ proto # "miniData" /\ n >= 4 => AtHead(all, k, pos) /\ n < Len(f)
         /\ proto = "miniData" /\ AtHead(all, k, pos) => n # Len(f)
      \/ \E t \in 1 .. n : r = Skip(t) /\ \A i \in k + 1 .. Len(all) : t <= pos[i]
      \/ /\ AtHead(all, k, pos) /\ Len(f) <= n
         /\ r = Found(Len(f), all[k + 1].flag, all[k + 1].parm)

\* One look has one of these outcomes, wherever the frames lie.
LEMMA Finds ==
  ASSUME CrcHas16Bits, LineUse, proto \in Protocols,
         NEW all \in Seq(Packet), NEW k \in Nat, k <= Len(all),
         NEW s, NEW total \in Nat, NEW pos, NEW c, Laid(proto, all, k, s, total, pos, c),
         NEW m, NEW n \in Nat \ {0}, n <= total, Readable(m, n),
         \A x \in 0 .. n - 1 : m[x] = s[x]
  PROVE  Outcome(all, k, pos, c, m, n)
<1> USE DEF Outcome
<1> DEFINE r == GetFrame(m, n, m[n - 1])
           f == FrameOf(proto, all, c, k + 1)
<1>1. Len(all) \in Nat
  BY LenProperties
<1>2. \A i \in k + 1 .. Len(all) :
        /\ Len(FrameOf(proto, all, c, i)) \in Nat /\ Len(FrameOf(proto, all, c, i)) >= 3
        /\ pos[i] \in Nat /\ pos[i] <= total - 3 /\ s[pos[i]] = Start
  BY <1>1, FrameOfFacts
<1>3. CASE m[0] # Start
  <2>1. PICK t \in 1 .. n :
          /\ \A x \in 0 .. t - 1 : m[x] # Start
          /\ r \in {Skip(0), Skip(t)}
          /\ n >= 4 /\ proto # "miniData" => r = Skip(t)
    BY <1>3, JunkAtHead
  <2>2. ASSUME NEW i \in k + 1 .. Len(all) PROVE t <= pos[i]
    <3> SUFFICES ASSUME pos[i] < t PROVE FALSE
      BY <1>2, <2>1
    <3>1. pos[i] \in 0 .. t - 1 /\ pos[i] \in 0 .. n - 1
      BY <1>2
    <3> QED BY <1>2, <2>1, <3>1
  <2>3. ~AtHead(all, k, pos)
    <3> SUFFICES ASSUME k < Len(all), pos[k + 1] = 0 PROVE FALSE
      BY DEF AtHead
    <3>1. k + 1 \in k + 1 .. Len(all)
      BY <1>1
    <3> QED BY <2>2, <3>1
  <2> HIDE DEF r, f
  <2>4. r = Skip(t) \/ (r = Skip(0) /\ ~(n >= 4 /\ proto # "miniData"))
    BY <2>1
  <2> QED BY <2>2, <2>3, <2>4 DEF r, f
<1>4. CASE m[0] = Start
  <2>1. AtHead(all, k, pos)
    <3>1. 0 \in 0 .. total - 1 /\ 0 \in 0 .. n - 1 /\ s[0] = Start
      <4>1. 0 \in 0 .. total - 1 /\ 0 \in 0 .. n - 1
        OBVIOUS
      <4> QED BY <1>4, <4>1
    <3>2. PICK i \in k + 1 .. Len(all) : Inside(proto, all, c, pos, i, 0)
      BY <3>1 DEF Laid
    <3>3. pos[i] = 0
      BY <1>2, <3>2 DEF Inside
    <3>4. k < Len(all) /\ k + 1 \in k + 1 .. Len(all)
      BY <1>1
    <3>5. i = k + 1
      <4> SUFFICES ASSUME i # k + 1 PROVE FALSE
        OBVIOUS
      <4>1. k + 1 \in k + 1 .. i - 1
        BY <1>1
      <4>2. pos[k + 1] + Len(FrameOf(proto, all, c, k + 1)) <= pos[i]
        BY <4>1 DEF Laid
      <4>3. /\ pos[k + 1] \in Nat /\ Len(FrameOf(proto, all, c, k + 1)) \in Nat
            /\ Len(FrameOf(proto, all, c, k + 1)) >= 3
        BY <1>2, <3>4
      <4> QED BY <3>3, <4>2, <4>3
    <3> QED BY <3>3, <3>4, <3>5 DEF AtHead
  <2> DEFINE pk == PacketOf(all, c, k + 1)
  <2>2. /\ k + 1 \in k + 1 .. Len(all) /\ pos[k + 1] = 0
        /\ pk \in Sendable[proto] /\ f = Encode(proto, pk)
    <3>1. k + 1 \in k + 1 .. Len(all) /\ pos[k + 1] = 0
      BY <1>1, <2>1 DEF AtHead
    <3> QED BY <3>1 DEF Laid, FrameOf
  <2>3. /\ Len(f) \in Nat /\ f[Len(f)] = f[Len(f)]
        /\ \A j \in 1 .. Len(f) : s[0 + j - 1] = f[j]
    <3>1. \A j \in 1 .. Len(f) : s[pos[k + 1] + j - 1] = f[j]
      BY <2>2 DEF Laid
    <3> QED BY <1>2, <2>2, <3>1
  <2> HIDE DEF f, pk
  <2>4. Begins(m, n, f)
    <3> SUFFICES ASSUME NEW j \in 1 .. Len(f), j <= n PROVE m[j - 1] = f[j]
      BY DEF Begins
    <3>1. j - 1 \in 0 .. n - 1 /\ 0 + j - 1 = j - 1
      BY <2>3
    <3> QED BY <2>3, <3>1
  <2>5. /\ n < Len(f) => r = Skip(0)
        /\ /\ n >= Len(f) /\ n >= 4
           /\ proto = "miniData" => m[n - 1] = Plain
           => r = Found(Len(f), pk.flag, pk.parm)
    BY <2>2, <2>4, FrameAtHead
  <2>6. proto = "miniData" => Len(f) >= 4 /\ f[Len(f)] = Plain
    BY <2>2, FrameFacts
  <2>7. pk.flag = all[k + 1].flag /\ pk.parm = all[k + 1].parm
    BY DEF pk, PacketOf
  <2>8. proto = "miniData" /\ m[n - 1] # Plain => r = Skip(0)
    BY DEF GetFrame
  <2>9. proto # "miniData" /\ n < 4 => r = Skip(0)
    <3>1. proto \in {"hxnet", "dtrs", "miniData"}
      BY LineAssumption
    <3> QED BY <3>1 DEF GetFrame, hxNetGetFrame, dtrsNetGetFrame
  <2> HIDE DEF r
  <2>10. CASE proto # "miniData"
    BY <2>1, <2>3, <2>5, <2>7, <2>9, <2>10 DEF r, f
  <2>11. CASE proto = "miniData"
    <3>1. CASE n < Len(f)
      BY <2>3, <2>5, <2>11, <3>1 DEF r, f
    <3>2. CASE n >= Len(f) /\ m[n - 1] = Plain
      <4>1. n >= 4
        BY <2>3, <2>6, <2>11, <3>2
      <4> QED BY <2>1, <2>5, <2>7, <2>11, <3>2, <4>1 DEF r, f
    <3>3. CASE n >= Len(f) /\ m[n - 1] # Plain
      <4>1. n # Len(f)
        <5> SUFFICES ASSUME n = Len(f) PROVE FALSE
          OBVIOUS
        <5>1. n \in 1 .. Len(f) /\ n <= n
          OBVIOUS
        <5>2. m[n - 1] = f[n]
          BY <2>4, <5>1 DEF Begins
        <5> QED BY <2>6, <2>11, <3>3, <5>2
      <4> QED BY <2>8, <2>11, <3>3, <4>1 DEF r, f
    <3> QED BY <2>3, <3>1, <3>2, <3>3
  <2> QED BY <2>10, <2>11
<1> QED BY <1>3, <1>4

\* The first t bytes are the frames up to the l-th and what lies between them.
Departs(p, all, k, l, pos, c, t, at) ==
  /\ \A i \in k + 1 .. l : pos[i] + Len(FrameOf(p, all, c, i)) <= t
  /\ \A i \in l + 1 .. Len(all) : t <= pos[i] /\ at[i] = pos[i] - t

\* The frames in the stream of which the first t bytes have left.
LaidBehind(p, all, l, u, total, t, at, c) == Laid(p, all, l, u, total - t, at, c)

\* The first t bytes are gone, with the frames in them.
LEMMA LaidShifted ==
  ASSUME CrcHas16Bits, LineUse, NEW p \in Protocols, NEW all \in Seq(Packet), NEW k \in Nat,
         NEW s, NEW total \in Nat, NEW pos, NEW c, Laid(p, all, k, s, total, pos, c),
         NEW t \in 0 .. total, NEW l \in k .. Len(all), NEW at, Departs(p, all, k, l, pos, c, t, at),
         NEW u, \A x \in 0 .. total - t - 1 : u[x] = s[x + t]
  PROVE  LaidBehind(p, all, l, u, total, t, at, c)
<1>0. /\ \A i \in k + 1 .. l : pos[i] + Len(FrameOf(p, all, c, i)) <= t
      /\ \A i \in l + 1 .. Len(all) : t <= pos[i] /\ at[i] = pos[i] - t
  BY DEF Departs
<1>1. Len(all) \in Nat
  BY LenProperties
<1>2. \A i \in l + 1 .. Len(all) : i \in k + 1 .. Len(all) /\ at[i] = pos[i] - t
  BY <1>0, <1>1
<1>3. ASSUME NEW i \in l + 1 .. Len(all)
      PROVE  /\ PacketOf(all, c, i) \in Sendable[p]
             /\ at[i] \in Nat /\ at[i] + Len(FrameOf(p, all, c, i)) <= total - t
             /\ \A j \in 1 .. Len(FrameOf(p, all, c, i)) :
                  u[at[i] + j - 1] = FrameOf(p, all, c, i)[j]
             /\ \A h \in l + 1 .. i - 1 : at[h] + Len(FrameOf(p, all, c, h)) <= at[i]
  <2> DEFINE f == FrameOf(p, all, c, i)
  <2>1. i \in k + 1 .. Len(all) /\ at[i] = pos[i] - t /\ t <= pos[i]
    BY <1>0, <1>2
  <2>2. /\ PacketOf(all, c, i) \in Sendable[p] /\ pos[i] \in Nat /\ pos[i] + Len(f) <= total
        /\ \A j \in 1 .. Len(f) : s[pos[i] + j - 1] = f[j]
        /\ \A h \in k + 1 .. i - 1 : pos[h] + Len(FrameOf(p, all, c, h)) <= pos[i]
    BY <2>1 DEF Laid
  <2>3. Len(f) \in Nat
    BY <1>1, <2>1, FrameOfFacts
  <2> HIDE DEF f
  <2>4. at[i] \in Nat /\ at[i] + Len(f) <= total - t
    BY <2>1, <2>2, <2>3
  <2>5. ASSUME NEW j \in 1 .. Len(f) PROVE u[at[i] + j - 1] = f[j]
    <3> DEFINE x == at[i] + j - 1
    <3>1. x \in 0 .. total - t - 1
      BY <2>3, <2>4
    <3>2. x + t = pos[i] + j - 1
      BY <2>1, <2>2, <2>4
    <3> HIDE DEF x
    <3>3. u[x] = f[j]
      BY <2>2, <3>1, <3>2
    <3> QED BY <3>3 DEF x
  <2>6. ASSUME NEW h \in l + 1 .. i - 1 PROVE at[h] + Len(FrameOf(p, all, c, h)) <= at[i]
    <3>1. h \in l + 1 .. Len(all) /\ h \in k + 1 .. i - 1 /\ h \in k + 1 .. Len(all)
      BY <1>1
    <3>2. Len(FrameOf(p, all, c, h)) \in Nat /\ pos[h] \in Nat
      BY <1>1, <3>1, FrameOfFacts
    <3>3. at[h] = pos[h] - t /\ pos[h] + Len(FrameOf(p, all, c, h)) <= pos[i]
      BY <1>2, <2>2, <3>1
    <3> QED BY <2>1, <2>2, <3>2, <3>3
  <2> QED BY <2>2, <2>4, <2>5, <2>6 DEF f
<1>4. ASSUME NEW x \in 0 .. total - t - 1, u[x] = Start
      PROVE  \E i \in l + 1 .. Len(all) : Inside(p, all, c, at, i, x)
  <2>1. x + t \in 0 .. total - 1 /\ s[x + t] = Start
    BY <1>4
  <2>2. PICK i \in k + 1 .. Len(all) : Inside(p, all, c, pos, i, x + t)
    BY <2>1 DEF Laid
  <2>3. Len(FrameOf(p, all, c, i)) \in Nat /\ pos[i] \in Nat
    BY <1>1, FrameOfFacts
  <2>4. pos[i] <= x + t /\ x + t < pos[i] + Len(FrameOf(p, all, c, i))
    BY <2>2 DEF Inside
  <2>5. i \in l + 1 .. Len(all)
    <3> SUFFICES ASSUME i <= l PROVE FALSE
      BY <1>1
    <3>1. i \in k + 1 .. l
      BY <1>1
    <3>2. pos[i] + Len(FrameOf(p, all, c, i)) <= t
      BY <1>0, <3>1
    <3> QED BY <2>3, <2>4, <3>2
  <2>6. at[i] <= x /\ x < at[i] + Len(FrameOf(p, all, c, i))
    BY <1>2, <2>3, <2>4, <2>5
  <2> QED BY <2>5, <2>6 DEF Inside
<1> QED BY <1>3, <1>4 DEF Laid, LaidBehind

\* A byte of noise comes behind.
LEMMA LaidNoise ==
  ASSUME CrcHas16Bits, LineUse, NEW p \in Protocols, NEW all \in Seq(Packet), NEW k \in Nat,
         NEW s, NEW total \in Nat, NEW pos, NEW c, Laid(p, all, k, s, total, pos, c),
         NEW u, \A x \in 0 .. total - 1 : u[x] = s[x], u[total] # Start
  PROVE  Laid(p, all, k, u, total + 1, pos, c)
<1>1. Len(all) \in Nat
  BY LenProperties
<1>2. ASSUME NEW i \in k + 1 .. Len(all)
      PROVE  /\ PacketOf(all, c, i) \in Sendable[p]
             /\ pos[i] \in Nat /\ pos[i] + Len(FrameOf(p, all, c, i)) <= total + 1
             /\ \A j \in 1 .. Len(FrameOf(p, all, c, i)) :
                  u[pos[i] + j - 1] = FrameOf(p, all, c, i)[j]
             /\ \A h \in k + 1 .. i - 1 : pos[h] + Len(FrameOf(p, all, c, h)) <= pos[i]
  <2> DEFINE f == FrameOf(p, all, c, i)
  <2>1. /\ PacketOf(all, c, i) \in Sendable[p] /\ pos[i] \in Nat /\ pos[i] + Len(f) <= total
        /\ \A j \in 1 .. Len(f) : s[pos[i] + j - 1] = f[j]
        /\ \A h \in k + 1 .. i - 1 : pos[h] + Len(FrameOf(p, all, c, h)) <= pos[i]
    BY DEF Laid
  <2>2. Len(f) \in Nat
    BY <1>1, FrameOfFacts
  <2> HIDE DEF f
  <2>3. pos[i] + Len(f) <= total + 1
    BY <2>1, <2>2
  <2>4. ASSUME NEW j \in 1 .. Len(f) PROVE u[pos[i] + j - 1] = f[j]
    <3>1. pos[i] + j - 1 \in 0 .. total - 1
      BY <2>1, <2>2
    <3> QED BY <2>1, <3>1
  <2> QED BY <2>1, <2>3, <2>4 DEF f
<1>3. ASSUME NEW x \in 0 .. (total + 1) - 1, u[x] = Start
      PROVE  \E i \in k + 1 .. Len(all) : Inside(p, all, c, pos, i, x)
  <2>1. x \in 0 .. total - 1
    BY <1>3
  <2> QED BY <1>3, <2>1 DEF Laid
<1> QED BY <1>2, <1>3 DEF Laid

\* The stream u goes on after s with the bytes of f.
Continues(u, s, total, f) ==
  /\ \A x \in 0 .. total - 1 : u[x] = s[x]
  /\ \A j \in 1 .. Len(f) : u[total + j - 1] = f[j]

\* The frames lie in u as before, and that of pk behind them.
LaidToo(p, all, k, u, total, pos, c, pk, more) ==
  \E at, d :
    /\ Laid(p, more, k, u, total + Len(Encode(p, pk)), at, d)
    /\ \A i \in k + 1 .. Len(all) :
         at[i] = pos[i] /\ FrameOf(p, more, d, i) = FrameOf(p, all, c, i)
    /\ at[Len(all) + 1] = total /\ FrameOf(p, more, d, Len(all) + 1) = Encode(p, pk)

\* A packet is sent behind what is on its way.
LEMMA LaidMore ==
  ASSUME CrcHas16Bits, LineUse, NEW p \in Protocols, NEW all \in Seq(Packet),
         NEW k \in Nat, k <= Len(all),
         NEW s, NEW total \in Nat, NEW pos, NEW c, Laid(p, all, k, s, total, pos, c),
         NEW pk \in Sendable[p], NEW more, more = Append(all, [flag |-> pk.flag, parm |-> pk.parm]),
         NEW u, Continues(u, s, total, Encode(p, pk))
  PROVE  LaidToo(p, all, k, u, total, pos, c, pk, more)
<1> DEFINE last == Len(all) + 1
           frame == Encode(p, pk)
           at == [i \in k + 1 .. last |-> IF i = last THEN total ELSE pos[i]]
           d == [i \in k + 1 .. last |-> IF i = last THEN pk.checked ELSE c[i]]
<1>1. Len(all) \in Nat /\ last \in Nat
  BY LenProperties
<1>2. Len(frame) \in Nat /\ pk \in [flag : Seq(Byte \ {0}), parm : Seq(Byte), checked : BOOLEAN]
  BY LineAssumption, FrameFacts
<1>3. [flag |-> pk.flag, parm |-> pk.parm] \in Packet
  <2>1. pk.flag \in Seq(Byte \ {0}) /\ pk.parm \in Seq(Byte)
    BY <1>2
  <2>2. pk.flag \in Seq(Byte)
    BY <2>1
  <2> QED BY <2>1, <2>2 DEF Packet
<1>4. /\ Len(more) = last /\ more[last] = [flag |-> pk.flag, parm |-> pk.parm]
      /\ \A i \in 1 .. Len(all) : more[i] = all[i]
  BY <1>1, <1>3, AppendProperties
<1>5. ASSUME NEW i \in k + 1 .. Len(all)
      PROVE  /\ at[i] = pos[i] /\ PacketOf(more, d, i) = PacketOf(all, c, i)
             /\ FrameOf(p, more, d, i) = FrameOf(p, all, c, i)
  <2>1. i \in k + 1 .. last /\ i # last /\ i \in 1 .. Len(all)
    BY <1>1
  <2>2. at[i] = pos[i] /\ d[i] = c[i] /\ more[i] = all[i]
    BY <1>4, <2>1
  <2> HIDE DEF at, d, last
  <2> QED BY <2>2 DEF PacketOf, FrameOf
<1>6. at[last] = total /\ PacketOf(more, d, last) = pk /\ FrameOf(p, more, d, last) = frame
  <2>1. last \in k + 1 .. last
    BY <1>1
  <2>2. at[last] = total /\ d[last] = pk.checked
    BY <2>1
  <2> HIDE DEF at, d, last, frame
  <2>3. PacketOf(more, d, last) = [flag |-> pk.flag, parm |-> pk.parm, checked |-> pk.checked]
    BY <1>4, <2>2 DEF PacketOf
  <2>4. PacketOf(more, d, last) = pk
    BY <1>2, <2>3
  <2> QED BY <2>2, <2>4 DEF FrameOf, frame
<1> HIDE DEF at, d
<1>7. ASSUME NEW i \in k + 1 .. Len(all)
      PROVE  /\ PacketOf(all, c, i) \in Sendable[p]
             /\ pos[i] \in Nat /\ pos[i] + Len(FrameOf(p, all, c, i)) <= total
             /\ \A j \in 1 .. Len(FrameOf(p, all, c, i)) :
                  s[pos[i] + j - 1] = FrameOf(p, all, c, i)[j]
             /\ \A h \in k + 1 .. i - 1 : pos[h] + Len(FrameOf(p, all, c, h)) <= pos[i]
             /\ Len(FrameOf(p, all, c, i)) \in Nat
  BY <1>1, FrameOfFacts DEF Laid
<1> HIDE DEF frame, last
<1>8. ASSUME NEW i \in k + 1 .. Len(more)
      PROVE  /\ PacketOf(more, d, i) \in Sendable[p]
             /\ at[i] \in Nat /\ at[i] + Len(FrameOf(p, more, d, i)) <= total + Len(frame)
             /\ \A j \in 1 .. Len(FrameOf(p, more, d, i)) :
                  u[at[i] + j - 1] = FrameOf(p, more, d, i)[j]
             /\ \A h \in k + 1 .. i - 1 : at[h] + Len(FrameOf(p, more, d, h)) <= at[i]
  <2>1. CASE i = last
    <3>1. ASSUME NEW h \in k + 1 .. i - 1 PROVE at[h] + Len(FrameOf(p, more, d, h)) <= at[i]
      <4>1. h \in k + 1 .. Len(all)
        BY <1>1, <2>1 DEF last
      <4> QED BY <1>5, <1>6, <1>7, <2>1, <4>1
    <3>2. \A j \in 1 .. Len(frame) : u[total + j - 1] = frame[j]
      BY DEF frame, Continues
    <3>3. total + Len(frame) <= total + Len(frame)
      BY <1>2
    <3> QED BY <1>6, <2>1, <3>1, <3>2, <3>3
  <2>2. CASE i # last
    <3>1. i \in k + 1 .. Len(all)
      BY <1>1, <1>4, <2>2 DEF last
    <3> DEFINE f == FrameOf(p, all, c, i)
    <3>2. /\ FrameOf(p, more, d, i) = f /\ at[i] = pos[i]
          /\ PacketOf(more, d, i) = PacketOf(all, c, i)
      BY <1>5, <3>1
    <3>3. /\ PacketOf(all, c, i) \in Sendable[p] /\ pos[i] \in Nat /\ pos[i] + Len(f) <= total
          /\ \A j \in 1 .. Len(f) : s[pos[i] + j - 1] = f[j]
          /\ Len(f) \in Nat
      BY <1>7, <3>1
    <3> HIDE DEF f
    <3>4. ASSUME NEW j \in 1 .. Len(f) PROVE u[pos[i] + j - 1] = f[j]
      <4>1. pos[i] + j - 1 \in 0 .. total - 1
        BY <3>3
      <4> QED BY <3>3, <4>1 DEF Continues
    <3>5. pos[i] + Len(f) <= total + Len(frame)
      BY <1>2, <3>3
    <3>6. ASSUME NEW h \in k + 1 .. i - 1 PROVE at[h] + Len(FrameOf(p, more, d, h)) <= at[i]
      <4>1. h \in k + 1 .. Len(all)
        BY <1>1, <3>1
      <4>2. pos[h] + Len(FrameOf(p, all, c, h)) <= pos[i]
        BY <1>7, <3>1
      <4> QED BY <1>5, <3>2, <4>1, <4>2
    <3> QED BY <3>2, <3>3, <3>4, <3>5, <3>6
  <2> QED BY <2>1, <2>2
<1>9. ASSUME NEW x \in 0 .. (total + Len(frame)) - 1, u[x] = Start
      PROVE  \E i \in k + 1 .. Len(more) : Inside(p, more, d, at, i, x)
  <2>1. CASE x < total
    <3>1. x \in 0 .. total - 1 /\ s[x] = Start
      BY <1>9, <2>1 DEF Continues
    <3>2. PICK i \in k + 1 .. Len(all) : Inside(p, all, c, pos, i, x)
      BY <3>1 DEF Laid
    <3>3. i \in k + 1 .. Len(more)
      BY <1>1, <1>4, <3>2 DEF last
    <3>4. Inside(p, more, d, at, i, x)
      BY <1>5, <3>2 DEF Inside
    <3> QED BY <3>3, <3>4
  <2>2. CASE ~(x < total)
    <3>1. last \in k + 1 .. Len(more)
      BY <1>1, <1>4 DEF last
    <3>2. total <= x /\ x < total + Len(frame)
      BY <1>2, <2>2
    <3>3. Inside(p, more, d, at, last, x)
      BY <1>6, <3>2 DEF Inside
    <3> QED BY <3>1, <3>3
  <2> QED BY <2>1, <2>2
<1>10. Laid(p, more, k, u, total + Len(frame), at, d)
  BY <1>8, <1>9 DEF Laid
<1> QED BY <1>5, <1>6, <1>10 DEF frame, last, LaidToo

-----------------------------------------------------------------------------
(***************************************************************************)
(* The inductive invariant of the line.  The bytes received and those on   *)
(* the line are one stream, in which the frames that were not handled lie. *)
(* Prompt says how far behind the receiver may be.                         *)
(***************************************************************************)
StreamOf(l, m, w) ==
  [x \in 0 .. l + Len(w) - 1 |-> IF x < l THEN m[x] ELSE w[x - l + 1]]
Stream == StreamOf(len, mem, line)
Total == len + Len(line)

\* hxnet and dtrs hold at most three bytes that do not begin a frame.  With no
\* noise miniData is behind with at most one frame, of which the end has not
\* been stored.
Prompt(k, pos, c) ==
  LET F == FrameOf(proto, sent, c, k + 1) IN
  /\ proto # "miniData" /\ len >= 4 => AtHead(sent, k, pos) /\ len < Len(F)
  /\ proto = "miniData" /\ noise = 0 =>
       \/ k = Len(sent) /\ Total = 0
       \/ k + 1 = Len(sent) /\ AtHead(sent, k, pos) /\ Total = Len(F) /\ len < Total

Behind(k) == \E pos, c : Laid(proto, sent, k, Stream, Total, pos, c) /\ Prompt(k, pos, c)

LineInv ==
  /\ ~wild /\ len \in Cache
  /\ lost => proto = "miniData" /\ noise > 0
  /\ ~lost => /\ Len(got) <= Len(sent) /\ \A i \in 1 .. Len(got) : got[i] = sent[i]
              /\ Behind(Len(got))

\* The bytes of the stream.
LEMMA StreamCells ==
  ASSUME NEW l \in Nat, NEW m, NEW w \in Seq(Byte)
  PROVE  /\ Len(w) \in Nat
         /\ \A x \in 0 .. l - 1 : StreamOf(l, m, w)[x] = m[x]
         /\ \A j \in 1 .. Len(w) : StreamOf(l, m, w)[l + j - 1] = w[j]
<1>1. Len(w) \in Nat
  BY LenProperties
<1> DEFINE total == l + Len(w)
<1>2. \A x \in 0 .. total - 1 : StreamOf(l, m, w)[x] = IF x < l THEN m[x] ELSE w[x - l + 1]
  BY DEF StreamOf
<1>3. ASSUME NEW x \in 0 .. l - 1 PROVE StreamOf(l, m, w)[x] = m[x]
  <2>1. x \in 0 .. total - 1 /\ x < l
    BY <1>1
  <2> QED BY <1>2, <2>1
<1>4. ASSUME NEW j \in 1 .. Len(w) PROVE StreamOf(l, m, w)[l + j - 1] = w[j]
  <2>1. l + j - 1 \in 0 .. total - 1 /\ ~(l + j - 1 < l) /\ (l + j - 1) - l + 1 = j
    BY <1>1
  <2> QED BY <1>2, <2>1
<1> QED BY <1>1, <1>3, <1>4

\* Before anything is sent the stream is empty.
LEMMA LineInit == LineUse /\ Init => LineInv
<1> SUFFICES ASSUME LineUse, Init PROVE LineInv
  OBVIOUS
<1>1. /\ len = 0 /\ line = <<>> /\ sent = <<>> /\ got = <<>> /\ ~lost /\ ~wild
      /\ Len(sent) = 0 /\ Len(got) = 0 /\ Len(line) = 0 /\ Total = 0
  BY DEF Init, Total
<1>2. len \in Cache
  BY <1>1, LineAssumption DEF Cache
<1>3. ASSUME NEW pos, NEW c PROVE Laid(proto, sent, 0, Stream, Total, pos, c)
  <2>1. 0 + 1 .. Len(sent) = {} /\ 0 .. Total - 1 = {}
    BY <1>1
  <2> QED BY <2>1 DEF Laid
<1>4. ASSUME NEW pos, NEW c PROVE Prompt(0, pos, c)
  BY <1>1 DEF Prompt
<1>5. Behind(0)
  BY <1>3, <1>4 DEF Behind
<1>6. \A i \in 1 .. Len(got) : got[i] = sent[i]
  BY <1>1
<1> QED BY <1>1, <1>2, <1>5, <1>6 DEF LineInv

\* A packet is sent (the example of the sender in the headers).
LEMMA LineSend ==
  ASSUME CrcHas16Bits, LineUse, TypeOK, LineInv, NEW pk \in Sendable[proto], Send(pk)
  PROVE  LineInv'
<1> DEFINE packet == [flag |-> pk.flag, parm |-> pk.parm]
           frame == Encode(proto, pk)
           k == Len(got)
<1>1. /\ line = <<>> /\ line' = frame /\ sent' = Append(sent, packet)
      /\ UNCHANGED <<proto, mem, len, got, noise, lost, wild>>
  BY DEF Send
<1>2. /\ proto \in Protocols /\ len \in Cache /\ len \in Nat /\ sent \in Seq(Packet) /\ k \in Nat
      /\ Len(sent) \in Nat /\ line \in Seq(Byte) /\ frame \in Seq(Byte) /\ Len(frame) \in Nat
      /\ Len(frame) >= 3 /\ packet \in Packet
  <2>1. /\ proto \in Protocols /\ len \in Cache /\ sent \in Seq(Packet) /\ got \in Seq(Packet)
        /\ line \in Seq(Byte)
    BY DEF TypeOK, LineInv
  <2>2. /\ frame \in Seq(Byte) /\ Len(frame) \in Nat /\ Len(frame) >= 3
        /\ pk.flag \in Seq(Byte \ {0}) /\ pk.parm \in Seq(Byte)
    BY <2>1, FrameFacts
  <2>3. pk.flag \in Seq(Byte)
    BY <2>2
  <2>4. packet \in Packet
    BY <2>2, <2>3 DEF Packet
  <2>5. len \in Nat
    BY <2>1, LineAssumption DEF Cache
  <2> QED BY <2>1, <2>2, <2>4, <2>5, LenProperties
<1>3. CASE lost
  <2>1. lost' /\ ~wild' /\ len' \in Cache /\ proto' = "miniData" /\ noise' > 0
    BY <1>1, <1>3 DEF LineInv, Cache
  <2> QED BY <2>1 DEF LineInv
<1>4. CASE ~lost
  <2>1. k <= Len(sent) /\ \A i \in 1 .. k : got[i] = sent[i]
    BY <1>4 DEF LineInv
  <2>2. PICK pos, c : Laid(proto, sent, k, Stream, Total, pos, c) /\ Prompt(k, pos, c)
    BY <1>4 DEF LineInv, Behind
  <2>3. /\ Total = len /\ Total' = Total + Len(frame)
        /\ \A x \in 0 .. Total - 1 : Stream'[x] = Stream[x]
        /\ \A j \in 1 .. Len(frame) : Stream'[Total + j - 1] = frame[j]
    <3>1. Total = len
      BY <1>1, <1>2 DEF Total
    <3>2. Total' = Total + Len(frame)
      BY <1>1, <3>1 DEF Total
    <3>3. Stream = StreamOf(len, mem, line) /\ Stream' = StreamOf(len, mem, frame)
      BY <1>1 DEF Stream
    <3>4. /\ \A x \in 0 .. len - 1 : StreamOf(len, mem, line)[x] = mem[x]
          /\ \A x \in 0 .. len - 1 : StreamOf(len, mem, frame)[x] = mem[x]
          /\ \A j \in 1 .. Len(frame) : StreamOf(len, mem, frame)[len + j - 1] = frame[j]
      <4> HIDE DEF frame
      <4> QED BY <1>2, StreamCells
    <3> QED BY <3>1, <3>2, <3>3, <3>4
  <2>4. Total \in Nat
    BY <1>2, <2>3
  <2>5. PICK at, d :
          /\ Laid(proto, sent', k, Stream', Total + Len(frame), at, d)
          /\ \A i \in k + 1 .. Len(sent) :
               at[i] = pos[i] /\ FrameOf(proto, sent', d, i) = FrameOf(proto, sent, c, i)
          /\ at[Len(sent) + 1] = Total /\ FrameOf(proto, sent', d, Len(sent) + 1) = frame
    <3> DEFINE more == sent'
               u == Stream'
               total == Total
               s == Stream
    <3>1. /\ more = Append(sent, [flag |-> pk.flag, parm |-> pk.parm])
          /\ Continues(u, s, total, Encode(proto, pk))
          /\ Laid(proto, sent, k, s, total, pos, c)
      BY <1>1, <2>2, <2>3 DEF Continues
    <3>2. total \in Nat
      BY <2>4
    <3> HIDE DEF more, u, total, s
    <3>3. LaidToo(proto, sent, k, u, total, pos, c, pk, more)
      <4>1. proto \in Protocols /\ sent \in Seq(Packet) /\ k \in Nat /\ k <= Len(sent)
        BY <1>2, <2>1
      <4> HIDE DEF k
      <4> QED BY <4>1, <3>1, <3>2, LaidMore
    <3> QED BY <3>3 DEF more, u, total, LaidToo
  <2>6. Laid(proto', sent', Len(got)', Stream', Total', at, d)
    BY <1>1, <2>3, <2>5
  <2>7. Len(sent') = Len(sent) + 1 /\ \A i \in 1 .. Len(sent) : sent'[i] = sent[i]
    BY <1>1, <1>2, AppendProperties
  <2>8. Prompt(k, at, d)'
    <3> DEFINE F == FrameOf(proto, sent, c, k + 1)
               G == FrameOf(proto, sent', d, k + 1)
    <3>1. /\ proto # "miniData" /\ len >= 4 => AtHead(sent, k, pos) /\ len < Len(F)
          /\ proto = "miniData" /\ noise = 0 =>
               \/ k = Len(sent) /\ Total = 0
               \/ k + 1 = Len(sent) /\ AtHead(sent, k, pos) /\ Total = Len(F) /\ len < Total
      BY <2>2 DEF Prompt
    <3>2. AtHead(sent, k, pos) => AtHead(sent', k, at) /\ G = F
      <4>1. k < Len(sent) => k + 1 \in k + 1 .. Len(sent) /\ k < Len(sent) + 1
        BY <1>2
      <4> QED BY <2>5, <2>7, <4>1 DEF AtHead
    <3>3. proto # "miniData" /\ len >= 4 => AtHead(sent', k, at) /\ len < Len(G)
      BY <3>1, <3>2
    <3>4. ASSUME proto = "miniData", noise = 0
          PROVE  k + 1 = Len(sent') /\ AtHead(sent', k, at) /\ Total' = Len(G) /\ len < Total'
      <4>1. k = Len(sent) /\ Total = 0
        BY <2>3, <3>1, <3>4
      <4>2. G = frame /\ at[k + 1] = 0 /\ k < Len(sent')
        BY <1>2, <2>5, <2>7, <4>1
      <4> QED BY <1>2, <2>3, <2>7, <4>1, <4>2 DEF AtHead
    <3> QED BY <1>1, <3>3, <3>4 DEF Prompt
  <2>9. k' = k
    BY <1>1
  <2>10. Behind(k)'
    BY <1>1, <2>6, <2>8 DEF Behind
  <2>11. k' <= Len(sent') /\ \A i \in 1 .. k' : got'[i] = sent'[i]
    BY <1>1, <1>2, <2>1, <2>7
  <2>12. ~wild' /\ len' \in Cache /\ ~lost'
    BY <1>1, <1>4 DEF LineInv, Cache
  <2> QED BY <1>1, <2>10, <2>11, <2>12 DEF LineInv
<1> QED BY <1>3, <1>4

\* The line makes a byte up.
LEMMA LineNoise ==
  ASSUME CrcHas16Bits, LineUse, TypeOK, LineInv, NEW b \in Noise, MakeNoise(b)
  PROVE  LineInv'
<1> DEFINE k == Len(got)
           byte == <<b>>
<1>1. /\ line = <<>> /\ line' = byte /\ noise' = noise + 1
      /\ UNCHANGED <<proto, mem, len, sent, got, lost, wild>>
  BY DEF MakeNoise
<1>2. /\ proto \in Protocols /\ len \in Cache /\ len \in Nat /\ sent \in Seq(Packet) /\ k \in Nat
      /\ Len(sent) \in Nat /\ line \in Seq(Byte) /\ noise \in Nat /\ b \in Byte /\ b # Start
  <2>1. /\ proto \in Protocols /\ len \in Cache /\ sent \in Seq(Packet) /\ got \in Seq(Packet)
        /\ line \in Seq(Byte) /\ noise \in Nat
    BY DEF TypeOK, LineInv
  <2>2. len \in Nat /\ b \in Byte /\ b # Start
    BY <2>1, LineAssumption DEF Cache, LineUse
  <2> QED BY <2>1, <2>2, LenProperties
<1>3. CASE lost
  <2>1. lost' /\ ~wild' /\ len' \in Cache /\ proto' = "miniData" /\ noise' > 0
    BY <1>1, <1>2, <1>3 DEF LineInv, Cache
  <2> QED BY <2>1 DEF LineInv
<1>4. CASE ~lost
  <2>1. k <= Len(sent) /\ \A i \in 1 .. k : got[i] = sent[i]
    BY <1>4 DEF LineInv
  <2>2. PICK pos, c : Laid(proto, sent, k, Stream, Total, pos, c) /\ Prompt(k, pos, c)
    BY <1>4 DEF LineInv, Behind
  <2>3. byte \in Seq(Byte) /\ Len(byte) = 1 /\ byte[1] = b
    BY <1>2
  <2> HIDE DEF byte
  <2>4. /\ Total = len /\ Total \in Nat /\ Total' = Total + 1
        /\ \A x \in 0 .. Total - 1 : Stream'[x] = Stream[x]
        /\ Stream'[Total] # Start
    <3>1. Total = len
      BY <1>1, <1>2 DEF Total
    <3>2. Total' = Total + 1
      BY <1>1, <2>3, <3>1 DEF Total
    <3>3. Stream = StreamOf(len, mem, line) /\ Stream' = StreamOf(len, mem, byte)
      BY <1>1 DEF Stream
    <3>4. /\ \A x \in 0 .. len - 1 : StreamOf(len, mem, line)[x] = mem[x]
          /\ \A x \in 0 .. len - 1 : StreamOf(len, mem, byte)[x] = mem[x]
          /\ \A j \in 1 .. Len(byte) : StreamOf(len, mem, byte)[len + j - 1] = byte[j]
      BY <1>2, <2>3, StreamCells
    <3>5. StreamOf(len, mem, byte)[len] = b
      <4>1. 1 \in 1 .. Len(byte) /\ len + 1 - 1 = len
        BY <1>2, <2>3
      <4>2. StreamOf(len, mem, byte)[len + 1 - 1] = b
        BY <2>3, <3>4, <4>1
      <4> QED BY <4>1, <4>2
    <3> QED BY <1>2, <3>1, <3>2, <3>3, <3>4, <3>5
  <2>5. Laid(proto, sent, k, Stream', Total + 1, pos, c)
    <3> DEFINE u == Stream'
               total == Total
               s == Stream
    <3>1. /\ \A x \in 0 .. total - 1 : u[x] = s[x]
          /\ u[total] # Start /\ Laid(proto, sent, k, s, total, pos, c) /\ total \in Nat
      BY <2>2, <2>4
    <3> HIDE DEF u, total, s
    <3>2. Laid(proto, sent, k, u, total + 1, pos, c)
      BY <1>2, <3>1, LaidNoise
    <3> QED BY <3>2 DEF u, total
  <2>6. Laid(proto', sent', k, Stream', Total', pos, c)
    BY <1>1, <2>4, <2>5
  <2>7. Prompt(k, pos, c)'
    <3>1. noise' # 0
      BY <1>1, <1>2
    <3>2. proto # "miniData" /\ len >= 4
            => AtHead(sent, k, pos) /\ len < Len(FrameOf(proto, sent, c, k + 1))
      BY <2>2 DEF Prompt
    <3> QED BY <1>1, <3>1, <3>2 DEF Prompt
  <2>8. Behind(k)'
    BY <1>1, <2>6, <2>7 DEF Behind
  <2>9. ~wild' /\ len' \in Cache /\ ~lost'
    BY <1>1, <1>4 DEF LineInv, Cache
  <2> QED BY <1>1, <2>1, <2>8, <2>9 DEF LineInv
<1> QED BY <1>3, <1>4

\* The byte that arrives is stored in the cache, and behind the others unless
\* noise has filled the cache of miniData; there is room behind it for the
\* three bytes that the functions read.
LEMMA PlaceFacts ==
  ASSUME CrcHas16Bits, LineUse, TypeOK, LineInv, line # <<>>
  PROVE  /\ Place \in Cache /\ Place \in Nat
         /\ proto = "miniData" => Place + 1 <= CacheSize - 1
         /\ Place # len => proto = "miniData" /\ noise > 0
<1>1. /\ CacheSize \in Nat /\ CacheSize >= 4 /\ len \in 0 .. CacheSize - 1 /\ noise \in Nat
      /\ line \in Seq(Byte) /\ proto \in Protocols /\ sent \in Seq(Packet) /\ got \in Seq(Packet)
      /\ Len(sent) \in Nat /\ Len(got) \in Nat
  <2>1. /\ sent \in Seq(Packet) /\ got \in Seq(Packet)
    BY DEF TypeOK
  <2> QED BY <2>1, LineAssumption, LenProperties DEF LineInv, Cache, TypeOK
<1>2. /\ Place \in Cache /\ Place \in Nat
      /\ proto = "miniData" => Place + 1 <= CacheSize - 1
  BY <1>1 DEF Place, Cache
<1>3. ASSUME Place # len PROVE proto = "miniData" /\ noise > 0
  <2>1. proto = "miniData" /\ len + 1 > CacheSize - 1
    BY <1>3 DEF Place
  <2>2. CASE lost
    BY <2>2 DEF LineInv
  <2>3. ASSUME ~lost, ~(noise > 0) PROVE FALSE
    <3> DEFINE k == Len(got)
    <3>1. PICK pos, c : Laid(proto, sent, k, Stream, Total, pos, c) /\ Prompt(k, pos, c)
      BY <2>3 DEF LineInv, Behind
    <3>2. noise = 0 /\ k <= Len(sent) /\ k \in Nat /\ k + 1 \in Nat
      BY <1>1, <2>3 DEF LineInv
    <3> DEFINE F == FrameOf(proto, sent, c, k + 1)
    <3>3. \/ k = Len(sent) /\ Total = 0
          \/ k + 1 = Len(sent) /\ AtHead(sent, k, pos) /\ Total = Len(F) /\ len < Total
      BY <2>1, <3>1, <3>2 DEF Prompt
    <3>4. Total # 0
      BY <1>1, LenProperties, EmptySeq DEF Total
    <3>5. k + 1 \in k + 1 .. Len(sent)
      BY <1>1, <3>2, <3>3, <3>4
    <3>6. PacketOf(sent, c, k + 1) \in Sendable[proto]
      <4> HIDE DEF k
      <4> QED BY <3>1, <3>5 DEF Laid
    <3>7. Len(F) <= CacheSize - 1
      BY <1>1, <2>1, <3>6 DEF LineUse, FrameOf
    <3> QED BY <1>1, <2>1, <3>3, <3>4, <3>7
  <2> QED BY <1>1, <2>1, <2>2, <2>3
<1> QED BY <1>2, <1>3

\* The step of the receive loop: with the byte stored n bytes are there, of
\* which r.take leave.
LEMMA ReceiveStep ==
  ASSUME CrcHas16Bits, LineUse, TypeOK, LineInv, Receive
  PROVE  \E m, n, r :
           /\ n \in 1 .. CacheSize /\ r = GetFrame(m, n, m[n - 1])
           /\ Readable(m, n) /\ n = Place + 1 /\ m[n - 1] = Head(line)
           /\ \A x \in 0 .. n - 2 : m[x] = mem[x]
           /\ r.take \in Nat => len' = n - r.take /\ \A x \in 0 .. len' - 1 : mem'[x] = m[x + r.take]
           /\ got' = IF r.ok THEN Append(got, [flag |-> r.flag, parm |-> r.parm]) ELSE got
<1> DEFINE b == Head(line)
           m == [mem EXCEPT ![Place] = b]
           n == Place + 1
           r == GetFrame(m, n, b)
<1>1. /\ Place \in Cache /\ Place \in Nat /\ CacheSize \in Nat /\ Place < CacheSize
      /\ mem \in [0 .. CacheSize + 2 -> Byte] /\ b \in Byte /\ proto \in Protocols
  <2>1. line # <<>> /\ line \in Seq(Byte)
    BY DEF Receive, TypeOK
  <2>2. Head(line) \in Byte
    BY <2>1, HeadTailProperties
  <2>3. Place \in Cache /\ Place \in Nat
    BY <2>1, PlaceFacts
  <2> QED BY <2>2, <2>3, LineAssumption DEF TypeOK, Cache
<1>2. /\ len' = Place + 1 - r.take /\ mem' = Shift(m, r.take, len')
      /\ got' = IF r.ok THEN Append(got, [flag |-> r.flag, parm |-> r.parm]) ELSE got
  <2> DEFINE stored == IF Place \in Cache THEN [mem EXCEPT ![Place] = b] ELSE mem
             found == IF Place < CacheSize THEN GetFrame(stored, Place + 1, b) ELSE Skip(0)
  <2>1. /\ len' = Place + 1 - found.take /\ mem' = Shift(stored, found.take, len')
        /\ got' = IF found.ok THEN Append(got, [flag |-> found.flag, parm |-> found.parm]) ELSE got
    BY DEF Receive
  <2>2. stored = m /\ found = r
    BY <1>1
  <2> HIDE DEF stored, found, r, m, b
  <2>3. len' = Place + 1 - r.take
    BY <2>1, <2>2
  <2>4. mem' = Shift(m, r.take, len')
    BY <2>1, <2>2
  <2>5. got' = IF r.ok THEN Append(got, [flag |-> r.flag, parm |-> r.parm]) ELSE got
    BY <2>1, <2>2
  <2> QED BY <2>3, <2>4, <2>5
<1>3. n \in 1 .. CacheSize /\ n - 1 = Place
  BY <1>1 DEF Cache
<1>4. m \in [0 .. CacheSize + 2 -> Byte] /\ m[n - 1] = b
  <2>1. Place \in 0 .. CacheSize + 2
    BY <1>1
  <2> QED BY <1>1, <1>3, <2>1
<1>5. \A x \in 0 .. n - 2 : m[x] = mem[x]
  <2> SUFFICES ASSUME NEW x \in 0 .. n - 2 PROVE m[x] = mem[x]
    OBVIOUS
  <2>1. x # Place /\ x \in 0 .. CacheSize + 2
    BY <1>1
  <2> QED BY <1>1, <2>1
<1> HIDE DEF b, m, n
<1>6. Readable(m, n)
  BY <1>1, <1>3, <1>4 DEF Readable
<1>7. ASSUME r.take \in Nat, NEW x \in 0 .. len' - 1 PROVE mem'[x] = m[x + r.take]
  <2> DEFINE t == r.take
  <2>1. t \in Nat /\ len' = n - t
    BY <1>1, <1>2, <1>7 DEF n
  <2> HIDE DEF r
  <2>2. x \in 0 .. CacheSize + 2 /\ t + x = x + t
    BY <1>1, <1>3, <2>1
  <2>3. DOMAIN m = 0 .. CacheSize + 2
    BY <1>4
  <2> HIDE DEF t
  <2>4. mem' = Shift(m, t, len')
    BY <1>2 DEF t
  <2>5. mem'[x] = m[t + x]
    BY <1>7, <2>2, <2>3, <2>4 DEF Shift
  <2> QED BY <2>2, <2>5 DEF t
<1>8. r = GetFrame(m, n, m[n - 1])
  BY <1>4
<1> HIDE DEF r
<1>9. /\ n \in 1 .. CacheSize /\ r = GetFrame(m, n, m[n - 1])
      /\ Readable(m, n) /\ n = Place + 1 /\ m[n - 1] = Head(line)
      /\ \A x \in 0 .. n - 2 : m[x] = mem[x]
      /\ r.take \in Nat => len' = n - r.take /\ \A x \in 0 .. len' - 1 : mem'[x] = m[x + r.take]
      /\ got' = IF r.ok THEN Append(got, [flag |-> r.flag, parm |-> r.parm]) ELSE got
  <2>1. r.take \in Nat => len' = n - r.take /\ \A x \in 0 .. len' - 1 : mem'[x] = m[x + r.take]
    BY <1>1, <1>2, <1>7 DEF n
  <2>2. n = Place + 1 /\ m[n - 1] = Head(line)
    BY <1>4 DEF n, b
  <2> QED BY <1>2, <1>3, <1>5, <1>6, <1>8, <2>1, <2>2
<1> QED BY <1>9

\* q holds what has arrived of the stream and a the bytes behind the first t:
\* the stream moves by t.
Moved(l, m, w, q, t, a) ==
  /\ l + Len(w) \in Nat /\ Len(w) >= 1 /\ (l + 1 - t) + Len(Tail(w)) = (l + Len(w)) - t
  /\ \A x \in 0 .. l : q[x] = StreamOf(l, m, w)[x]
  /\ \A x \in 0 .. (l + Len(w)) - t - 1 :
       StreamOf(l + 1 - t, a, Tail(w))[x] = StreamOf(l, m, w)[x + t]

\* When a byte is stored and the first t bytes leave, the stream moves by t.
LEMMA StreamShift ==
  ASSUME NEW l \in Nat, NEW m, NEW w \in Seq(Byte), w # <<>>, NEW q, NEW t \in 0 .. l + 1, NEW a,
         \A x \in 0 .. l - 1 : q[x] = m[x], q[l] = Head(w),
         \A x \in 0 .. l - t : a[x] = q[x + t]
  PROVE  Moved(l, m, w, q, t, a)
<1> DEFINE k == l + 1 - t
           v == Tail(w)
<1>1. /\ Len(w) \in Nat /\ Len(w) >= 1 /\ v \in Seq(Byte) /\ Len(v) = Len(w) - 1 /\ k \in Nat
      /\ w[1] = Head(w) /\ \A j \in 1 .. Len(v) : v[j] = w[j + 1]
  BY LenProperties, EmptySeq, HeadTailProperties
<1> HIDE DEF v
<1>2. /\ \A x \in 0 .. l - 1 : StreamOf(l, m, w)[x] = m[x]
      /\ \A j \in 1 .. Len(w) : StreamOf(l, m, w)[l + j - 1] = w[j]
  BY StreamCells
<1>3. /\ \A x \in 0 .. k - 1 : StreamOf(k, a, v)[x] = a[x]
      /\ \A j \in 1 .. Len(v) : StreamOf(k, a, v)[k + j - 1] = v[j]
  <2> HIDE DEF k
  <2> QED BY <1>1, StreamCells
<1>4. ASSUME NEW x \in 0 .. l PROVE q[x] = StreamOf(l, m, w)[x]
  <2>1. CASE x = l
    <3>1. 1 \in 1 .. Len(w) /\ l + 1 - 1 = l
      BY <1>1
    <3>2. StreamOf(l, m, w)[l + 1 - 1] = w[1]
      BY <1>2, <3>1
    <3> QED BY <1>1, <2>1, <3>1, <3>2
  <2>2. CASE x # l
    <3>1. x \in 0 .. l - 1
      BY <2>2
    <3> QED BY <1>2, <3>1
  <2> QED BY <2>1, <2>2
<1>5. ASSUME NEW x \in 0 .. (l + Len(w)) - t - 1 PROVE StreamOf(k, a, v)[x] = StreamOf(l, m, w)[x + t]
  <2>1. CASE x < k
    <3>1. x \in 0 .. k - 1 /\ x \in 0 .. l - t /\ x + t \in 0 .. l
      BY <1>1, <2>1
    <3>2. StreamOf(k, a, v)[x] = a[x]
      <4> HIDE DEF k
      <4> QED BY <1>3, <3>1
    <3>3. a[x] = q[x + t] /\ q[x + t] = StreamOf(l, m, w)[x + t]
      BY <1>4, <3>1
    <3> QED BY <3>2, <3>3
  <2>2. CASE ~(x < k)
    <3> DEFINE j == x - k + 1
    <3>1. /\ j \in 1 .. Len(v) /\ j + 1 \in 1 .. Len(w)
          /\ x = k + j - 1 /\ x + t = l + (j + 1) - 1
      BY <1>1, <2>2
    <3> HIDE DEF j, k
    <3>2. StreamOf(k, a, v)[k + j - 1] = v[j] /\ v[j] = w[j + 1]
      BY <1>1, <1>3, <3>1
    <3>3. StreamOf(l, m, w)[l + (j + 1) - 1] = w[j + 1]
      BY <1>2, <3>1
    <3> QED BY <3>1, <3>2, <3>3
  <2> QED BY <2>1, <2>2
<1>6. k + Len(v) = (l + Len(w)) - t
  BY <1>1
<1> QED BY <1>1, <1>4, <1>5, <1>6 DEF v, Moved

\* The receive loop of the headers.
LEMMA LineReceive ==
  ASSUME CrcHas16Bits, LineUse, TypeOK, LineInv, Receive
  PROVE  LineInv'
<1>1. /\ line # <<>> /\ line' = Tail(line) /\ UNCHANGED <<proto, sent, noise>>
      /\ lost' = (lost \/ Place # len) /\ wild' = (wild \/ Place \notin Cache)
  BY DEF Receive
<1>2. /\ proto \in Protocols /\ sent \in Seq(Packet) /\ got \in Seq(Packet) /\ line \in Seq(Byte)
      /\ len \in Nat /\ CacheSize \in Nat /\ CacheSize >= 4 /\ ~wild
      /\ Len(sent) \in Nat /\ Len(got) \in Nat
  <2>1. sent \in Seq(Packet) /\ got \in Seq(Packet)
    BY DEF TypeOK
  <2> QED BY <2>1, LineAssumption, LenProperties DEF TypeOK, LineInv, Cache
<1>3. /\ Place \in Cache /\ Place \in Nat
      /\ proto = "miniData" => Place + 1 <= CacheSize - 1
      /\ Place # len => proto = "miniData" /\ noise > 0
  BY <1>1, PlaceFacts
<1>4. PICK m, n, r :
        /\ n \in 1 .. CacheSize /\ r = GetFrame(m, n, m[n - 1])
        /\ Readable(m, n) /\ n = Place + 1 /\ m[n - 1] = Head(line)
        /\ \A x \in 0 .. n - 2 : m[x] = mem[x]
        /\ r.take \in Nat => len' = n - r.take /\ \A x \in 0 .. len' - 1 : mem'[x] = m[x + r.take]
        /\ got' = IF r.ok THEN Append(got, [flag |-> r.flag, parm |-> r.parm]) ELSE got
  BY ReceiveStep
<1>5. ~wild'
  BY <1>1, <1>2, <1>3
<1>6. CASE lost'
  <2>1. proto = "miniData" /\ noise > 0
    BY <1>1, <1>3, <1>6 DEF LineInv
  <2>2. r.take \in Nat /\ r.take <= n
    <3>1. n \in Nat
      BY <1>4
    <3>2. miniDataGet(m, n) \in Answer /\ miniDataGet(m, n).take <= n
      BY <1>4, <3>1, TakesNoMore
    <3>3. r = miniDataGet(m, n) \/ r = Skip(0)
      BY <1>4, <2>1 DEF GetFrame
    <3>4. Skip(0).take = 0
      BY DEF Skip
    <3> QED BY <3>1, <3>2, <3>3, <3>4 DEF Answer
  <2>3. len' \in Cache
    BY <1>2, <1>3, <1>4, <2>1, <2>2 DEF Cache
  <2>4. len' \in Cache' /\ proto' = "miniData" /\ noise' > 0
    BY <1>1, <2>1, <2>3 DEF Cache
  <2> QED BY <1>5, <1>6, <2>4 DEF LineInv
<1>7. CASE ~lost'
  <2> DEFINE k == Len(got)
             s == Stream
             total == Total
             t == r.take
  <2>1. ~lost /\ n = len + 1
    BY <1>1, <1>4, <1>7
  <2>2. k <= Len(sent) /\ \A i \in 1 .. k : got[i] = sent[i]
    BY <2>1 DEF LineInv
  <2>3. PICK pos, c : Laid(proto, sent, k, Stream, Total, pos, c) /\ Prompt(k, pos, c)
    BY <2>1 DEF LineInv, Behind
  <2> DEFINE f == FrameOf(proto, sent, c, k + 1)
  <2>4. /\ total \in Nat /\ n <= total /\ \A x \in 0 .. n - 1 : m[x] = s[x]
        /\ t \in 0 .. n =>
             /\ len' = n - t /\ Total' = total - t
             /\ \A x \in 0 .. total - t - 1 : Stream'[x] = s[x + t]
    <3>1. (\A x \in 0 .. len - 1 : m[x] = mem[x]) /\ m[len] = Head(line)
      <4>1. n - 2 = len - 1 /\ n - 1 = len
        BY <1>2, <2>1
      <4> QED BY <1>4, <4>1
    <3>2. ASSUME NEW u \in 0 .. len + 1, NEW a, \A x \in 0 .. len - u : a[x] = m[x + u]
          PROVE  /\ total \in Nat /\ Len(line) >= 1 /\ (len + 1 - u) + Len(Tail(line)) = total - u
                 /\ \A x \in 0 .. len : m[x] = s[x]
                 /\ \A x \in 0 .. total - u - 1 : StreamOf(len + 1 - u, a, Tail(line))[x] = s[x + u]
      <4>1. Moved(len, mem, line, m, u, a)
        <5> HIDE DEF s, total
        <5> QED BY <1>1, <1>2, <3>1, <3>2, StreamShift
      <4>2. total = len + Len(line) /\ s = StreamOf(len, mem, line)
        BY DEF Total, Stream
      <4> HIDE DEF s, total
      <4> QED BY <4>1, <4>2 DEF Moved
    <3>3. total \in Nat /\ Len(line) >= 1 /\ \A x \in 0 .. len : m[x] = s[x]
      <4> DEFINE none == len + 1
      <4>1. none \in 0 .. len + 1 /\ 0 .. len - none = {}
        BY <1>2
      <4>2. \A x \in 0 .. len - none : m[x] = m[x + none]
        BY <4>1
      <4> HIDE DEF none, total, s
      <4> QED BY <3>2, <4>1, <4>2
    <3>4. ASSUME t \in 0 .. n
          PROVE  /\ len' = n - t /\ Total' = total - t
                 /\ \A x \in 0 .. total - t - 1 : Stream'[x] = s[x + t]
      <4>1. t \in Nat /\ t \in 0 .. len + 1
        BY <1>2, <2>1, <3>4
      <4>2. len' = n - t /\ \A x \in 0 .. len' - 1 : mem'[x] = m[x + t]
        BY <1>4, <4>1
      <4> HIDE DEF t
      <4>3. len' = len + 1 - t /\ len' - 1 = len - t
        BY <1>2, <2>1, <4>1, <4>2
      <4> DEFINE a == mem'
      <4>4. \A x \in 0 .. len - t : a[x] = m[x + t]
        BY <4>2, <4>3
      <4> HIDE DEF a, total, s
      <4>5. /\ (len + 1 - t) + Len(Tail(line)) = total - t
            /\ \A x \in 0 .. total - t - 1 : StreamOf(len + 1 - t, a, Tail(line))[x] = s[x + t]
        BY <3>2, <4>1, <4>4
      <4>6. Total' = len' + Len(line') /\ Stream' = StreamOf(len', mem', line')
        BY DEF Total, Stream
      <4> QED BY <1>1, <4>2, <4>3, <4>5, <4>6 DEF a
    <3>5. n <= total
      <4>1. total = len + Len(line)
        BY DEF Total
      <4> HIDE DEF total
      <4> QED BY <1>2, <2>1, <3>3, <4>1, LenProperties
    <3>6. \A x \in 0 .. n - 1 : m[x] = s[x]
      BY <1>2, <2>1, <3>3
    <3> QED BY <3>3, <3>4, <3>5, <3>6
  <2>5. k + 1 \in Nat /\ k < Len(sent) => Len(f) \in Nat /\ 3 <= Len(f) /\ Len(f) <= CacheSize
    <3> HIDE DEF k, f, total
    <3>1. ASSUME k < Len(sent) PROVE k + 1 \in k + 1 .. Len(sent)
      BY <1>2, <3>1 DEF k
    <3> QED BY <1>2, <2>3, <2>4, <3>1, FrameOfFacts DEF k, f, total
  <2>6. /\ proto # "miniData" /\ len >= 4 => AtHead(sent, k, pos) /\ len < Len(f)
        /\ proto = "miniData" /\ noise = 0 =>
             \/ k = Len(sent) /\ total = 0
             \/ k + 1 = Len(sent) /\ AtHead(sent, k, pos) /\ total = Len(f) /\ len < total
    BY <2>3 DEF Prompt
  \* The frames behind the bytes removed are where they were in the stream.
  <2>7. ASSUME t \in 0 .. n, NEW l \in k .. Len(sent), NEW at,
               \A i \in k + 1 .. l : pos[i] + Len(FrameOf(proto, sent, c, i)) <= t,
               \A i \in l + 1 .. Len(sent) : t <= pos[i] /\ at[i] = pos[i] - t
        PROVE  Laid(proto', sent', l, Stream', Total', at, c)
    <3> DEFINE u == Stream'
    <3>1. \A x \in 0 .. total - t - 1 : u[x] = s[x + t]
      BY <2>4, <2>7
    <3>2. k \in Nat /\ total \in Nat /\ Total' = total - t
      BY <1>2, <2>4, <2>7
    <3>3. Laid(proto, sent, k, s, total, pos, c)
      BY <2>3
    <3>4. Departs(proto, sent, k, l, pos, c, t, at)
      BY <2>7 DEF Departs
    <3> HIDE DEF u, t, total, s, k
    <3>5. t \in 0 .. total
      BY <1>4, <2>4, <2>7
    <3>6. LaidBehind(proto, sent, l, u, total, t, at, c)
      <4>1. proto \in Protocols /\ sent \in Seq(Packet) /\ l \in k .. Len(sent)
        BY <1>2
      <4> QED BY <3>1, <3>2, <3>3, <3>4, <3>5, <4>1, LaidShifted
    <3> QED BY <1>1, <3>2, <3>6 DEF u, LaidBehind
  <2>8. \/ /\ r = Skip(0)
           /\ proto # "miniData" /\ n >= 4 => AtHead(sent, k, pos) /\ n < Len(f)
           /\ proto = "miniData" /\ AtHead(sent, k, pos) => n # Len(f)
        \/ \E j \in 1 .. n : r = Skip(j) /\ \A i \in k + 1 .. Len(sent) : j <= pos[i]
        \/ /\ AtHead(sent, k, pos) /\ Len(f) <= n
           /\ r = Found(Len(f), sent[k + 1].flag, sent[k + 1].parm)
    <3>1. n \in Nat \ {0} /\ k \in Nat /\ Laid(proto, sent, k, s, total, pos, c)
      BY <1>2, <1>4, <2>3
    <3> HIDE DEF s, total, k
    <3>2. Outcome(sent, k, pos, c, m, n)
      <4>1. /\ proto \in Protocols /\ sent \in Seq(Packet) /\ k <= Len(sent)
            /\ n <= total /\ Readable(m, n) /\ total \in Nat
        BY <1>2, <1>4, <2>2, <2>4
      <4>2. \A x \in 0 .. n - 1 : m[x] = s[x]
        BY <2>4
      <4> QED BY <3>1, <4>1, <4>2, Finds
    <3> QED BY <1>4, <3>2 DEF f, Outcome
  \* What remains to show in each case.
  <2>9. ASSUME NEW l \in Nat, NEW at, len' \in 0 .. CacheSize - 1, Len(got') = l, l <= Len(sent),
               \A i \in 1 .. l : got'[i] = sent[i],
               Laid(proto', sent', l, Stream', Total', at, c),
               proto # "miniData" /\ len' >= 4
                 => AtHead(sent, l, at) /\ len' < Len(FrameOf(proto, sent, c, l + 1)),
               proto = "miniData" /\ noise = 0 =>
                 \/ l = Len(sent) /\ Total' = 0
                 \/ /\ l + 1 = Len(sent) /\ AtHead(sent, l, at)
                    /\ Total' = Len(FrameOf(proto, sent, c, l + 1)) /\ len' < Total'
        PROVE  LineInv'
    <3>1. Prompt(l, at, c)'
      BY <1>1, <2>9 DEF Prompt
    <3>2. Behind(l)'
      BY <2>9, <3>1 DEF Behind
    <3>3. len' \in Cache'
      BY <2>9 DEF Cache
    <3> QED BY <1>1, <1>5, <1>7, <2>9, <3>2, <3>3 DEF LineInv
  <2>10. \A i \in k + 1 .. Len(sent) : pos[i] \in Nat
    <3> HIDE DEF k
    <3> QED BY <2>3 DEF Laid
  <2>11. k \in Nat /\ k \in k .. Len(sent) /\ n \in Nat
    BY <1>2, <1>4, <2>2
  <2>12. Total >= 1
    <3> QED BY <1>2, <1>4, <2>1, <2>4
  <2>13. CASE /\ r = Skip(0)
              /\ proto # "miniData" /\ n >= 4 => AtHead(sent, k, pos) /\ n < Len(f)
              /\ proto = "miniData" /\ AtHead(sent, k, pos) => n # Len(f)
    <3>1. t = 0 /\ ~r.ok /\ t \in 0 .. n
      BY <1>4, <2>13 DEF Skip
    <3>2. len' = n /\ Total' = total /\ got' = got
      <4> HIDE DEF t, total
      <4> QED BY <1>4, <2>4, <2>11, <3>1
    <3>3. Laid(proto', sent', k, Stream', Total', pos, c)
      <4>1. \A i \in k + 1 .. k : pos[i] + Len(FrameOf(proto, sent, c, i)) <= t
        BY <2>11
      <4>2. \A i \in k + 1 .. Len(sent) : t <= pos[i] /\ pos[i] = pos[i] - t
        BY <2>10, <3>1
      <4> HIDE DEF t, k
      <4> QED BY <2>7, <2>11, <3>1, <4>1, <4>2
    <3>4. len' \in 0 .. CacheSize - 1
      <4>1. CASE proto = "miniData" \/ n < 4
        BY <1>2, <1>3, <1>4, <3>2, <4>1
      <4>2. CASE ~(proto = "miniData") /\ ~(n < 4)
        <5>1. AtHead(sent, k, pos) /\ n < Len(f) /\ n >= 4
          BY <2>11, <2>13, <4>2
        <5>2. Len(f) \in Nat /\ Len(f) <= CacheSize
          BY <2>5, <2>11, <5>1 DEF AtHead
        <5> QED BY <1>2, <2>11, <3>2, <5>1, <5>2
      <4> QED BY <4>1, <4>2
    <3>5. ASSUME proto = "miniData", noise = 0
          PROVE  /\ k + 1 = Len(sent) /\ AtHead(sent, k, pos)
                 /\ Total' = Len(f) /\ len' < Total'
      <4>1. k + 1 = Len(sent) /\ AtHead(sent, k, pos) /\ total = Len(f)
        BY <2>4, <2>6, <2>12, <3>5
      <4>2. n # Len(f)
        BY <2>13, <3>5, <4>1
      <4> HIDE DEF f, total, k
      <4> QED BY <2>4, <2>11, <3>2, <4>1, <4>2
    <3>6. proto # "miniData" /\ len' >= 4 => AtHead(sent, k, pos) /\ len' < Len(f)
      BY <2>13, <3>2
    <3>7. /\ Len(got') = k /\ \A i \in 1 .. k : got'[i] = sent[i]
          /\ proto = "miniData" /\ noise = 0 =>
                 \/ k = Len(sent) /\ Total' = 0
                 \/ /\ k + 1 = Len(sent) /\ AtHead(sent, k, pos)
                    /\ Total' = Len(f) /\ len' < Total'
      BY <2>2, <3>2, <3>5
    <3> HIDE DEF k
    <3> QED BY <2>2, <2>9, <2>11, <3>3, <3>4, <3>6, <3>7 DEF f
  <2>14. ASSUME NEW j \in 1 .. n, r = Skip(j), \A i \in k + 1 .. Len(sent) : j <= pos[i]
         PROVE  LineInv'
    <3> DEFINE at == [i \in k + 1 .. Len(sent) |-> pos[i] - t]
    <3>1. t = j /\ ~r.ok /\ t \in 0 .. n
      BY <2>11, <2>14 DEF Skip
    <3>2. len' = n - j /\ Total' = total - j /\ got' = got
      <4> HIDE DEF t, total
      <4> QED BY <1>4, <2>4, <2>11, <3>1
    <3>3. Laid(proto', sent', k, Stream', Total', at, c)
      <4>1. \A i \in k + 1 .. k : pos[i] + Len(FrameOf(proto, sent, c, i)) <= t
        BY <2>11
      <4>2. \A i \in k + 1 .. Len(sent) : t <= pos[i] /\ at[i] = pos[i] - t
        BY <2>10, <2>14, <3>1
      <4> HIDE DEF t, k, at
      <4> QED BY <2>7, <2>11, <3>1, <4>1, <4>2
    <3>4. len' \in 0 .. CacheSize - 1
      BY <1>2, <1>4, <2>11, <3>2
    <3>5. ~AtHead(sent, k, pos)
      <4>1. ASSUME AtHead(sent, k, pos) PROVE FALSE
        <5>1. k + 1 \in k + 1 .. Len(sent) /\ pos[k + 1] = 0
          BY <1>2, <2>11, <4>1 DEF AtHead
        <5>2. j <= 0
          BY <2>14, <5>1
        <5> QED BY <2>11, <5>2
      <4> QED BY <4>1
    <3>6. ~(proto # "miniData" /\ len' >= 4)
      <4>1. proto # "miniData" => ~(len >= 4)
        BY <2>6, <3>5
      <4> QED BY <1>2, <2>1, <2>11, <3>2, <4>1
    <3>7. ~(proto = "miniData" /\ noise = 0)
      BY <2>6, <2>12, <3>5
    <3>8. Len(got') = k /\ \A i \in 1 .. k : got'[i] = sent[i]
      BY <2>2, <3>2
    <3> HIDE DEF k, at
    <3> QED BY <2>2, <2>9, <2>11, <3>3, <3>4, <3>6, <3>7, <3>8
  <2>15. CASE /\ AtHead(sent, k, pos) /\ Len(f) <= n
              /\ r = Found(Len(f), sent[k + 1].flag, sent[k + 1].parm)
    <3> DEFINE l == k + 1
               at == [i \in l + 1 .. Len(sent) |-> pos[i] - t]
    <3>1. /\ k < Len(sent) /\ pos[l] = 0 /\ l \in k + 1 .. Len(sent) /\ l \in k .. Len(sent)
          /\ Len(f) \in Nat /\ Len(f) >= 3 /\ l \in Nat
      BY <1>2, <2>5, <2>11, <2>15 DEF AtHead
    <3>2. t = Len(f) /\ t \in 0 .. n /\ r.ok /\ r.flag = sent[l].flag /\ r.parm = sent[l].parm
      BY <2>11, <2>15, <3>1 DEF Found
    <3>3. /\ len' = n - Len(f) /\ Total' = total - Len(f)
          /\ got' = Append(got, [flag |-> sent[l].flag, parm |-> sent[l].parm])
      <4> HIDE DEF t, total, f
      <4> QED BY <1>4, <2>4, <2>11, <3>1, <3>2
    <3>4. [flag |-> sent[l].flag, parm |-> sent[l].parm] = sent[l] /\ sent[l] \in Packet
      <4>1. l \in 1 .. Len(sent)
        BY <1>2, <2>11, <3>1
      <4>2. sent[l] \in Packet
        <5> HIDE DEF l
        <5> QED BY <1>2, <4>1, ElementOfSeq
      <4> HIDE DEF l
      <4> QED BY <4>2 DEF Packet
    <3>5. Len(got') = l /\ l <= Len(sent) /\ \A i \in 1 .. l : got'[i] = sent[i]
      BY <1>2, <2>2, <2>11, <3>1, <3>3, <3>4, AppendProperties
    <3>6. Laid(proto', sent', l, Stream', Total', at, c)
      <4>1. \A i \in k + 1 .. l : pos[i] + Len(FrameOf(proto, sent, c, i)) <= t
        <5> SUFFICES ASSUME NEW i \in k + 1 .. l PROVE pos[i] + Len(FrameOf(proto, sent, c, i)) <= t
          OBVIOUS
        <5>1. i = l
          BY <2>11
        <5> QED BY <3>1, <3>2, <5>1
      <4>2. ASSUME NEW i \in l + 1 .. Len(sent) PROVE t <= pos[i] /\ at[i] = pos[i] - t
        <5>1. i \in k + 1 .. Len(sent) /\ l \in k + 1 .. i - 1
          BY <1>2, <2>11, <3>1
        <5>2. pos[l] + Len(FrameOf(proto, sent, c, l)) <= pos[i]
          <6> HIDE DEF k, l
          <6> QED BY <2>3, <5>1 DEF Laid
        <5> QED BY <2>10, <3>1, <3>2, <5>1, <5>2
      <4> HIDE DEF t, k, l, at
      <4> QED BY <2>7, <3>1, <3>2, <4>1, <4>2
    <3>7. len' \in 0 .. CacheSize - 1
      BY <1>2, <1>4, <2>11, <2>15, <3>1, <3>3
    <3>8. ~(proto # "miniData" /\ len' >= 4)
      <4>1. proto # "miniData" /\ len >= 4 => len < Len(f)
        BY <2>6
      <4> HIDE DEF f
      <4> QED BY <1>2, <2>1, <2>11, <3>1, <3>3, <4>1
    <3>9. ASSUME proto = "miniData", noise = 0 PROVE l = Len(sent) /\ Total' = 0
      <4>1. l = Len(sent) /\ total = Len(f)
        BY <2>4, <2>6, <2>12, <3>9
      <4> HIDE DEF f, total, l
      <4> QED BY <2>4, <3>1, <3>3, <4>1
    <3> HIDE DEF l, at
    <3> QED BY <2>9, <3>1, <3>5, <3>6, <3>7, <3>8, <3>9
  <2> QED BY <2>8, <2>13, <2>14, <2>15
<1> QED BY <1>6, <1>7

\* Every step keeps the invariant.
LEMMA LineStep ==
  ASSUME CrcHas16Bits, LineUse, TypeOK, LineInv, [Next]_vars
  PROVE  LineInv'
<1>1. ASSUME NEW pk \in Sendable[proto], Send(pk) PROVE LineInv'
  BY <1>1, LineSend
<1>2. ASSUME NEW b \in Noise, MakeNoise(b) PROVE LineInv'
  BY <1>2, LineNoise
<1>3. CASE Receive
  BY <1>3, LineReceive
<1>4. CASE UNCHANGED vars
  <2>1. /\ UNCHANGED <<proto, mem, len, line, sent, got, noise, lost, wild>>
        /\ Stream' = Stream /\ Total' = Total
    BY <1>4 DEF vars, Stream, Total
  <2>2. ASSUME NEW k, NEW pos, NEW c, Prompt(k, pos, c) PROVE Prompt(k, pos, c)'
    BY <2>1, <2>2 DEF Prompt
  <2>3. ASSUME NEW k, Behind(k) PROVE Behind(k)'
    BY <2>1, <2>2, <2>3 DEF Behind
  <2>4. Behind(Len(got)) => Behind(Len(got))'
    <3>1. PICK k : k = Len(got)
      OBVIOUS
    <3>2. k = Len(got')
      BY <2>1, <3>1
    <3> QED BY <2>3, <3>1, <3>2
  <2>5. Cache' = Cache
    BY DEF Cache
  <2> QED BY <2>1, <2>4, <2>5 DEF LineInv
<1> QED BY <1>1, <1>2, <1>3, <1>4 DEF Next

\* The frames on their way lie in the stream, in order and apart (the receive
\* loops of the headers).
THEOREM Line == CrcHas16Bits /\ LineUse => (Spec => []LineInv)
<1> SUFFICES ASSUME CrcHas16Bits, LineUse PROVE Spec => []LineInv
  OBVIOUS
<1>1. Spec => []TypeOK
  BY Typing
<1>2. Init => LineInv
  BY LineInit
<1>3. TypeOK /\ LineInv /\ [Next]_vars => LineInv'
  BY LineStep
<1> QED BY <1>1, <1>2, <1>3, PTL DEF Spec

\* A sequence that agrees with a longer one is its beginning.
LEMMA PrefixOf ==
  ASSUME NEW S, NEW s \in Seq(S), NEW t \in Seq(S), Len(s) <= Len(t),
         \A i \in 1 .. Len(s) : s[i] = t[i]
  PROVE  IsPrefix(s, t) /\ SubSeq(t, 1, Len(s)) = s
<1>1. Len(s) \in Nat /\ Len(t) \in Nat
  BY LenProperties
<1>2. SubSeq(s, 1, Len(s)) = s
  BY <1>1, SubSeqProperties
<1>3. SubSeq(t, 1, Len(s)) = s
  <2>1. /\ SubSeq(t, 1, Len(s)) \in Seq(S) /\ Len(SubSeq(t, 1, Len(s))) = Len(s)
        /\ \A i \in 1 .. Len(s) : SubSeq(t, 1, Len(s))[i] = t[1 + i - 1]
    BY <1>1, SubSeqProperties
  <2> DEFINE u == SubSeq(t, 1, Len(s))
  <2>2. \A i \in 1 .. Len(s) : u[i] = s[i]
    BY <1>1, <2>1
  <2> HIDE DEF u
  <2>3. u \in Seq(S) /\ Len(u) = Len(s)
    BY <2>1 DEF u
  <2>4. u = s
    BY <2>2, <2>3, SeqEqual
  <2> QED BY <2>4 DEF u
<1> QED BY <1>2, <1>3 DEF IsPrefix

\* No byte is stored outside the cache.
THEOREM NeverOutside == CrcHas16Bits /\ LineUse => (Spec => []InCache)
<1> SUFFICES ASSUME CrcHas16Bits, LineUse PROVE Spec => []InCache
  OBVIOUS
<1>1. LineInv => InCache
  BY DEF LineInv, InCache
<1>2. Spec => []LineInv
  BY Line
<1> QED BY <1>1, <1>2, PTL

\* What is handled is what was sent, in order and none left out.
THEOREM OnlyGenuine == CrcHas16Bits /\ LineUse => (Spec => []Genuine)
<1> SUFFICES ASSUME CrcHas16Bits, LineUse PROVE Spec => []Genuine
  OBVIOUS
<1>1. TypeOK /\ LineInv => Genuine
  <2> SUFFICES ASSUME TypeOK, LineInv, ~lost PROVE IsPrefix(got, sent)
    BY DEF Genuine
  <2>1. /\ Len(got) <= Len(sent) /\ \A i \in 1 .. Len(got) : got[i] = sent[i]
        /\ got \in Seq(Packet) /\ sent \in Seq(Packet)
    BY DEF TypeOK, LineInv
  <2> QED BY <2>1, PrefixOf
<1>2. Spec => []LineInv
  BY Line
<1>3. Spec => []TypeOK
  BY Typing
<1> QED BY <1>1, <1>2, <1>3, PTL

\* Only the frame of an empty parameter has three bytes.
LEMMA DtrsEmpty ==
  ASSUME CrcHas16Bits, NEW p \in Seq(Byte), NEW checked \in BOOLEAN,
         Len(dtrsNetCreateFrame(p, checked)) <= 3
  PROVE  p = <<>>
<1> DEFINE field == LengthField(Len(p))
           s == <<Start>> \o field \o p
<1>1. Len(p) \in Nat /\ Len(field) \in Nat /\ Len(field) >= 1
  <2>1. Len(p) \in Nat
    BY LenProperties
  <2> QED BY <2>1, LengthFieldTyped
<1>2. s \in Seq(Byte) /\ Len(s) = 1 + Len(field) + Len(p)
  BY HeadCells
<1>3. Len(dtrsNetCreateFrame(p, checked)) = Len(s) + (IF checked THEN 3 ELSE 1)
  <2>1. dtrsNetCreateFrame(p, checked) = Closed(s, checked)
    BY DEF dtrsNetCreateFrame
  <2> HIDE DEF s
  <2> QED BY <1>2, <2>1, ClosedCells
<1> HIDE DEF s, field
<1>4. Len(p) = 0
  BY <1>1, <1>2, <1>3
<1> QED BY <1>4, EmptySeq

\* When the line is quiet, the receiver is behind by nothing, by a frame of
\* three bytes, or miniData by what noise hides.
LEMMA Quiet ==
  ASSUME CrcHas16Bits, LineUse, TypeOK, LineInv, line = <<>>, ~(proto = "miniData" /\ noise > 0)
  PROVE  \/ got = sent
         \/ proto = "dtrs" /\ Last(sent).parm = <<>> /\ got = Front(sent)
<1> DEFINE k == Len(got)
<1>1. /\ ~lost /\ proto \in Protocols /\ sent \in Seq(Packet) /\ got \in Seq(Packet)
      /\ len \in Nat /\ noise \in Nat /\ Len(sent) \in Nat /\ k \in Nat
  <2>1. sent \in Seq(Packet) /\ got \in Seq(Packet)
    BY DEF TypeOK
  <2> QED BY <2>1, LineAssumption, LenProperties DEF TypeOK, LineInv, Cache
<1>2. k <= Len(sent) /\ \A i \in 1 .. k : got[i] = sent[i]
  BY <1>1 DEF LineInv
<1>3. PICK pos, c : Laid(proto, sent, k, Stream, Total, pos, c) /\ Prompt(k, pos, c)
  BY <1>1 DEF LineInv, Behind
<1>4. SubSeq(sent, 1, k) = got
  BY <1>1, <1>2, PrefixOf
<1> DEFINE total == Total
           F(i) == FrameOf(proto, sent, c, i)
<1>5. total = len
  BY <1>1 DEF Total
<1>6. CASE k = Len(sent)
  <2>1. SubSeq(sent, 1, Len(sent)) = sent
    BY <1>1, SubSeqFull
  <2> QED BY <1>4, <1>6, <2>1
<1>7. CASE k < Len(sent)
  <2>1. ASSUME NEW i \in k + 1 .. Len(sent)
        PROVE  /\ PacketOf(sent, c, i) \in Sendable[proto]
               /\ pos[i] \in Nat /\ pos[i] + Len(F(i)) <= total
               /\ Len(F(i)) \in Nat /\ Len(F(i)) >= 3
               /\ \A h \in k + 1 .. i - 1 : pos[h] + Len(F(h)) <= pos[i]
    <3> DEFINE s == Stream
    <3>1. Laid(proto, sent, k, s, total, pos, c) /\ total \in Nat
      BY <1>1, <1>3, <1>5
    <3> HIDE DEF k, total, s
    <3>2. Len(F(i)) \in Nat /\ Len(F(i)) >= 3
      BY <1>1, <2>1, <3>1, FrameOfFacts
    <3> QED BY <2>1, <3>1, <3>2 DEF Laid
  <2> DEFINE l == k + 1
             f == F(l)
  <2>2. /\ l \in k + 1 .. Len(sent) /\ l \in Nat
        /\ PacketOf(sent, c, l) \in Sendable[proto] /\ pos[l] \in Nat
        /\ pos[l] + Len(f) <= len /\ Len(f) \in Nat /\ Len(f) >= 3
    BY <1>1, <1>5, <1>7, <2>1
  <2>3. proto # "miniData"
    <3>1. ASSUME proto = "miniData" PROVE FALSE
      <4>1. noise = 0
        BY <1>1, <3>1
      <4>2. total = 0 \/ len < total
        BY <1>3, <3>1, <4>1 DEF Prompt
      <4> HIDE DEF f, total
      <4> QED BY <1>1, <1>5, <2>2, <4>2
    <3> QED BY <3>1
  <2>4. len = 3 /\ pos[l] = 0 /\ Len(f) = 3
    <3>1. len >= 4 => pos[l] = 0 /\ len < Len(f)
      BY <1>3, <2>3 DEF Prompt, AtHead
    <3> DEFINE a == pos[l]
               b == Len(f)
    <3>2. len \in Nat /\ a \in Nat /\ b \in Nat /\ b >= 3 /\ a + b <= len
      BY <1>1, <2>2
    <3>3. len >= 4 => a = 0 /\ len < b
      BY <3>1
    <3> HIDE DEF a, b
    <3>4. len = 3 /\ a = 0 /\ b = 3
      BY <3>2, <3>3
    <3> QED BY <3>4 DEF a, b
  <2>5. l = Len(sent)
    <3>1. ASSUME l # Len(sent) PROVE FALSE
      <4> DEFINE i == l + 1
      <4>1. i \in k + 1 .. Len(sent) /\ l \in k + 1 .. i - 1
        BY <1>1, <1>7, <3>1
      <4>2. pos[i] \in Nat /\ pos[i] + Len(F(i)) <= len /\ Len(F(i)) >= 3 /\ Len(F(i)) \in Nat
        <5> HIDE DEF i, F
        <5> QED BY <1>5, <2>1, <4>1
      <4>3. pos[l] + Len(F(l)) <= pos[i]
        <5> HIDE DEF i, F, k, l
        <5> QED BY <2>1, <4>1
      <4> HIDE DEF i, F
      <4> QED BY <2>2, <2>4, <4>2, <4>3 DEF f
    <3> QED BY <3>1
  <2> DEFINE pk == PacketOf(sent, c, l)
  <2>6. /\ pk \in Sendable[proto] /\ f = Encode(proto, pk) /\ pk.parm = sent[l].parm
        /\ pk.parm \in Seq(Byte) /\ pk.checked \in BOOLEAN
        /\ proto # "dtrs" => Len(f) >= 4
    <3>1. pk \in Sendable[proto] /\ f = Encode(proto, pk) /\ pk.parm = sent[l].parm
      BY <2>2 DEF PacketOf, FrameOf
    <3> HIDE DEF pk, f
    <3> QED BY <1>1, <3>1, FrameFacts
  <2>7. proto = "dtrs" /\ sent[l].parm = <<>>
    <3> HIDE DEF pk, f, l
    <3>1. proto = "dtrs"
      BY <2>4, <2>6
    <3>2. Len(dtrsNetCreateFrame(pk.parm, pk.checked)) <= 3
      BY <2>4, <2>6, <3>1 DEF Encode
    <3>3. pk.parm = <<>>
      BY <2>6, <3>2, DtrsEmpty
    <3> QED BY <2>6, <3>1, <3>3
  <2>8. Last(sent) = sent[l] /\ Front(sent) = SubSeq(sent, 1, k)
    <3>1. Len(sent) - 1 = k
      BY <1>1, <2>5
    <3> QED BY <2>5, <3>1 DEF Last, Front
  <2> QED BY <1>4, <2>7, <2>8
<1> QED BY <1>1, <1>2, <1>6, <1>7

\* When the line is quiet every packet has been handled, but for the delays
\* named in KeepsUp.
THEOREM HandledWhenQuiet == CrcHas16Bits /\ LineUse => (Spec => []KeepsUp)
<1> SUFFICES ASSUME CrcHas16Bits, LineUse PROVE Spec => []KeepsUp
  OBVIOUS
<1>1. TypeOK /\ LineInv => KeepsUp
  BY Quiet DEF KeepsUp
<1>2. Spec => []LineInv
  BY Line
<1>3. Spec => []TypeOK
  BY Typing
<1> QED BY <1>1, <1>2, <1>3, PTL

-----------------------------------------------------------------------------
(* The line implements a channel. *)

\* Appending to a sequence keeps its beginning.
LEMMA KeepsBeginning ==
  ASSUME NEW S, NEW s \in Seq(S), NEW x, Append(s, x) \in Seq(S)
  PROVE  /\ Append(s, x) # <<>> /\ Len(s) \in Nat /\ Len(Append(s, x)) = Len(s) + 1
         /\ SubSeq(Append(s, x), 1, Len(Append(s, x)) - 1) = s
         /\ Append(s, x)[Len(s) + 1] = x
<1> DEFINE T == S \cup {x}
           t == Append(s, x)
<1>1. s \in Seq(T) /\ x \in T
  BY SeqMonotonic
<1>2. /\ t # <<>> /\ Len(t) = Len(s) + 1 /\ t[Len(s) + 1] = x /\ Len(s) \in Nat
      /\ \A i \in 1 .. Len(s) : t[i] = s[i]
  BY <1>1, AppendProperties, LenProperties
<1>3. \A i \in 1 .. Len(s) : s[i] = t[i]
  BY <1>2
<1>4. SubSeq(t, 1, Len(s)) = s
  <2> HIDE DEF t
  <2>1. t \in Seq(S) /\ Len(s) <= Len(t)
    BY <1>2 DEF t
  <2> QED BY <1>3, <2>1, PrefixOf
<1>5. Len(t) - 1 = Len(s)
  BY <1>2
<1> QED BY <1>2, <1>4, <1>5

\* The next one of a sequence begun in order.
LEMMA NextInOrder ==
  ASSUME NEW S, NEW s \in Seq(S), NEW x, Append(s, x) \in Seq(S), NEW all \in Seq(S),
         IsPrefix(Append(s, x), all)
  PROVE  Len(s) < Len(all) /\ x = all[Len(s) + 1]
<1> DEFINE t == Append(s, x)
           n == Len(t)
<1>1. n = Len(s) + 1 /\ t[n] = x /\ Len(s) \in Nat /\ Len(all) \in Nat
  BY KeepsBeginning, LenProperties
<1>2. n <= Len(all) /\ SubSeq(t, 1, n) = SubSeq(all, 1, n)
  BY DEF IsPrefix
<1> HIDE DEF t, n
<1>3. SubSeq(t, 1, n) = t
  BY SubSeqFull DEF n, t
<1>4. \A i \in 1 .. n : all[i] \in S
  BY <1>1, <1>2, ElementOfSeq
<1>5. \A i \in 1 .. n - 1 + 1 : SubSeq(all, 1, n)[i] = all[1 + i - 1]
  <2>1. 1 \in Int /\ n \in Int
    BY <1>1
  <2> QED BY <1>4, <2>1, SubSeqProperties
<1>6. n \in 1 .. n - 1 + 1 /\ 1 + n - 1 = n
  BY <1>1
<1>7. SubSeq(all, 1, n)[n] = all[n]
  BY <1>5, <1>6
<1> QED BY <1>1, <1>2, <1>3, <1>7

\* A byte arrives: at most one packet comes out, the one whose turn it is.
LEMMA ChannelReceives ==
  ASSUME TypeOK, TypeOK', Genuine', Receive
  PROVE  [Framing!Next]_Framing!channel
<1>1. UNCHANGED sent /\ (lost => lost') /\ (got' = got \/ \E x : got' = Append(got, x))
  <2>1. UNCHANGED sent /\ lost' = (lost \/ Place # len)
    BY DEF Receive
  <2> DEFINE b == Head(line)
             m == IF Place \in Cache THEN [mem EXCEPT ![Place] = b] ELSE mem
             r == IF Place < CacheSize THEN GetFrame(m, Place + 1, b) ELSE Skip(0)
  <2>2. got' = IF r.ok THEN Append(got, [flag |-> r.flag, parm |-> r.parm]) ELSE got
    BY DEF Receive
  <2> HIDE DEF r
  <2> QED BY <2>1, <2>2
<1>2. got \in Seq(Packet) /\ got' \in Seq(Packet) /\ sent \in Seq(Packet) /\ lost \in BOOLEAN /\ lost' \in BOOLEAN
  BY DEF TypeOK
<1>3. CASE got' = got
  <2>1. CASE lost' = lost
    BY <1>1, <1>3, <2>1 DEF Framing!channel
  <2>2. CASE lost' # lost
    <3>1. Framing!Damage
      BY <1>1, <1>2, <1>3, <2>2 DEF Framing!Damage
    <3> QED BY <3>1 DEF Framing!Next
  <2> QED BY <2>1, <2>2
<1>4. ASSUME NEW x, got' = Append(got, x)
      PROVE  [Framing!Next]_Framing!channel
  <2>1. Append(got, x) \in Seq(Packet)
    BY <1>2, <1>4
  <2>2. CASE lost'
    <3>1. got' # <<>> /\ SubSeq(got', 1, Len(got') - 1) = got
      BY <1>2, <1>4, <2>1, KeepsBeginning
    <3>2. Framing!Damage
      BY <1>1, <2>2, <3>1 DEF Framing!Damage
    <3> QED BY <3>2 DEF Framing!Next
  <2>3. CASE ~lost'
    <3>1. IsPrefix(Append(got, x), sent)
      BY <1>1, <1>4, <2>3 DEF Genuine
    <3>2. Len(got) < Len(sent) /\ x = sent[Len(got) + 1]
      BY <1>2, <2>1, <3>1, NextInOrder
    <3>3. ~lost /\ UNCHANGED <<sent, lost>>
      BY <1>1, <1>2, <2>3
    <3>4. Framing!Take
      BY <1>4, <3>2, <3>3 DEF Framing!Take
    <3> QED BY <3>4 DEF Framing!Next
  <2> QED BY <2>2, <2>3
<1> QED BY <1>1, <1>3, <1>4

\* A serial line implements a channel, whatever its packets hold.
THEOREM ImplementsChannel == CrcHas16Bits /\ LineUse => (Spec => IsChannel)
<1> SUFFICES ASSUME CrcHas16Bits, LineUse PROVE Spec => IsChannel
  OBVIOUS
<1>1. Init => Framing!Init
  BY DEF Init, Framing!Init
<1>2. TypeOK /\ TypeOK' /\ Genuine' /\ [Next]_vars => [Framing!Next]_Framing!channel
  <2> SUFFICES ASSUME TypeOK, TypeOK', Genuine', [Next]_vars
               PROVE  [Framing!Next]_Framing!channel
    OBVIOUS
  <2>1. ASSUME NEW pk \in Sendable[proto], Send(pk) PROVE [Framing!Next]_Framing!channel
    <3> DEFINE p == [flag |-> pk.flag, parm |-> pk.parm]
               all == {[flag |-> k.flag, parm |-> k.parm] : k \in UNION {Sendable[q] : q \in Protocols}}
    <3>1. p \in all
      BY DEF TypeOK
    <3>2. Framing!Put(p)
      BY <2>1 DEF Send, Framing!Put
    <3> HIDE DEF p
    <3> QED BY <3>1, <3>2 DEF Framing!Next
  <2>2. CASE (\E b \in Noise : MakeNoise(b)) \/ UNCHANGED vars
    <3>1. UNCHANGED <<sent, got, lost>>
      BY <2>2 DEF MakeNoise, vars
    <3> QED BY <3>1 DEF Framing!channel
  <2>3. CASE Receive
    BY <2>3, ChannelReceives
  <2> QED BY <2>1, <2>2, <2>3 DEF Next
<1>3. Spec => []TypeOK
  BY Typing
<1>4. Spec => []Genuine
  BY OnlyGenuine
<1> QED BY <1>1, <1>2, <1>3, <1>4, PTL DEF Spec, IsChannel, Framing!Spec

=============================================================================
