------------------------------- MODULE Channel -------------------------------
(***************************************************************************)
(* What a framing promises over a stream of bytes: packets come out as     *)
(* they were put in, in order, none left out and none made up, until       *)
(* something is lost on the way.  After that nothing is promised of what   *)
(* comes out, but that it is not taken back.                               *)
(***************************************************************************)
EXTENDS Integers, Sequences

CONSTANT Packets

VARIABLES
  sent,    \* the packets put in
  got,     \* the packets taken out
  intact   \* nothing was lost

channel == <<sent, got, intact>>

Init == sent = <<>> /\ got = <<>> /\ intact = TRUE

Put(p) ==
  /\ sent' = Append(sent, p)
  /\ UNCHANGED <<got, intact>>

Take ==
  /\ intact /\ Len(got) < Len(sent)
  /\ got' = Append(got, sent[Len(got) + 1])
  /\ UNCHANGED <<sent, intact>>

\* Something is lost, or was before; something may come out.
Damage ==
  /\ intact' = FALSE
  /\ got' = got \/ (got' # <<>> /\ SubSeq(got', 1, Len(got') - 1) = got)
  /\ UNCHANGED sent

\* A new connection.
Begin == sent' = <<>> /\ got' = <<>> /\ intact' = TRUE

Next == (\E p \in Packets : Put(p)) \/ Take \/ Damage \/ Begin

Spec == Init /\ [][Next]_channel
=============================================================================
