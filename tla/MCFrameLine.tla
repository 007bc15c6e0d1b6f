----------------------------- MODULE MCFrameLine -----------------------------
(***************************************************************************)
(* FrameLine for TLC: bytes 0..5, so that 5 announces a length of two      *)
(* bytes; parameters that are empty, hold each mark, and have 4, 5 and 6   *)
(* bytes, around the change of the length field.  The weights of the       *)
(* checksum are prime to 36: one wrong byte never goes unnoticed.          *)
(***************************************************************************)
EXTENDS FrameLine

Weight == <<1, 5, 7, 11, 13>>
MCCrc(s) == FoldLeftDomain(LAMBDA sum, i : (sum + (Weight[1 + (i % 5)] * s[i])) % 36, 1, s)

Parms == {<<>>, <<4>>, <<2, 3>>, <<0, 4, 2, 5>>, <<3, 2, 5, 4, 0>>, <<4, 0, 1, 1, 2, 2>>}
Packets(flags, parms, checks) == [flag : flags, parm : parms, checked : checks]

MCSendable ==
  [ hxnet    |-> Packets({<<>>, <<4, 2>>}, Parms, {FALSE}),
    dtrs     |-> Packets({<<>>}, Parms, BOOLEAN),
    miniData |-> Packets({<<>>}, Parms \ {<<>>}, {FALSE}) ]

ASSUME InstanceAssumption == LineUse
=============================================================================
