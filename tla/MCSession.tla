------------------------------ MODULE MCSession ------------------------------
(***************************************************************************)
(* Instances of Session for TLC: cells 0..3 of which 2 is the frame flag   *)
(* (so a length, a CRC and a body can all contain it), a seed of two cells *)
(* and a small checksum that, like zhPlatCRC16, is 0 for an empty body.    *)
(***************************************************************************)
EXTENDS Session

MCByte == 0 .. 3
MCFlag == 2
MCSeed == <<0, 0>>
MCCrc(s) == IF s = <<>> THEN 0 ELSE (3 + FoldSeq(+, 0, s) + Len(s)) % 4

\* An empty packet, a packet of one cell that is the flag, one of two cells.
MCPayloads == {<<>>, <<2>>, <<1, 3>>}
=============================================================================
