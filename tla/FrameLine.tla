------------------------------ MODULE FrameLine ------------------------------
(***************************************************************************)
(* A serial line on which one side sends frames of Frames, back to back or *)
(* with noise between them, and the other receives them byte by byte, with *)
(* the loop that hxnet-protocol.h, dtrs-protocol.h and mini-data.h give    *)
(* with their functions: store the byte, look for a frame once, remove     *)
(* what the function says.                                                 *)
(*                                                                         *)
(* The receiver acts on each byte before the next arrives, so it cannot    *)
(* tell a sender that waits for the line to be empty from one that does    *)
(* not; the model has the former.                                          *)
(***************************************************************************)
EXTENDS Frames, SequencesExt

CONSTANTS
  CacheSize,   \* the length of g_cache
  Sendable,    \* for each protocol used, the packets [flag, parm, checked] sent
  Noise,       \* bytes the line makes up between frames
  MaxSends,    \* bound: packets sent
  MaxNoise     \* bound: bytes of noise

Protocols == DOMAIN Sendable

ASSUME LineAssumption ==
  /\ CacheSize \in Nat /\ CacheSize >= 4
  /\ Protocols \subseteq {"hxnet", "dtrs", "miniData"}
  /\ \A p \in Protocols :
       Sendable[p] \subseteq [flag : Seq(Byte \ {0}), parm : Seq(Byte), checked : BOOLEAN]
  /\ Noise \subseteq Byte
  /\ MaxSends \in Nat /\ MaxNoise \in Nat

VARIABLES
  proto,   \* the protocol of the line
  mem,     \* g_cache, and the three bytes behind it
  len,     \* g_len
  line,    \* bytes sent that have not arrived
  sent,    \* history: packets sent
  got,     \* history: frames handled
  noise,   \* history: bytes of noise so far
  lost,    \* history: the loop of miniData threw the cache away
  wild     \* history: a byte was stored outside g_cache

vars == <<proto, mem, len, line, sent, got, noise, lost, wild>>

Cache == 0 .. CacheSize - 1
Packet == [flag : Seq(Byte), parm : Seq(Byte)]

\* Type invariant.  g_len is an int.
TypeOK ==
  /\ proto \in Protocols
  /\ mem \in [0 .. CacheSize + 2 -> Byte] /\ len \in Int
  /\ line \in Seq(Byte) /\ sent \in Seq(Packet) /\ got \in Seq(Packet)
  /\ noise \in Nat /\ lost \in BOOLEAN /\ wild \in BOOLEAN

\* g_cache is a global array, of zeros.
Init ==
  /\ proto \in Protocols
  /\ mem = [i \in 0 .. CacheSize + 2 |-> 0] /\ len = 0
  /\ line = <<>> /\ sent = <<>> /\ got = <<>>
  /\ noise = 0 /\ lost = FALSE /\ wild = FALSE

Encode(p, pk) ==
  CASE p = "hxnet"    -> hxNetCreateFrame(pk.flag, pk.parm, pk.checked)
    [] p = "dtrs"     -> dtrsNetCreateFrame(pk.parm, pk.checked)
    [] p = "miniData" -> miniDataCreate(pk.parm)

Send(pk) ==
  /\ line = <<>> /\ Len(sent) < MaxSends
  /\ line' = Encode(proto, pk)
  /\ sent' = Append(sent, [flag |-> pk.flag, parm |-> pk.parm])
  /\ UNCHANGED <<proto, mem, len, got, noise, lost, wild>>

MakeNoise(b) ==
  /\ line = <<>> /\ noise < MaxNoise
  /\ line' = <<b>> /\ noise' = noise + 1
  /\ UNCHANGED <<proto, mem, len, sent, got, lost, wild>>

\* Mutant: the loop of miniData does not look whether the cache is full.
BugNoLimit == len

\* Where the next byte goes: the loop of miniData starts again when the cache
\* is nearly full, the others do not look.
Place == IF proto = "miniData" /\ len + 1 > CacheSize - 1 THEN 0 ELSE len

\* miniData looks for a frame when a byte that can end one arrives.
GetFrame(m, n, b) ==
  CASE proto = "hxnet"                    -> hxNetGetFrame(m, n)
    [] proto = "dtrs"                     -> dtrsNetGetFrame(m, n)
    [] proto = "miniData" /\ b = Plain    -> miniDataGet(m, n)
    [] OTHER                              -> Skip(0)

Shift(m, k, left) ==
  [i \in DOMAIN m |-> IF i \in 0 .. left - 1 THEN m[k + i] ELSE m[i]]

\* A byte behind the cache is stored and nothing more: what it destroys there
\* is not modelled.
Receive ==
  /\ line # <<>>
  /\ LET b == Head(line)
         m == IF Place \in Cache THEN [mem EXCEPT ![Place] = b] ELSE mem
         r == IF Place < CacheSize THEN GetFrame(m, Place + 1, b) ELSE Skip(0)
     IN  /\ len' = Place + 1 - r.take
         /\ mem' = Shift(m, r.take, len')
         /\ got' = IF r.ok THEN Append(got, [flag |-> r.flag, parm |-> r.parm]) ELSE got
  /\ lost' = (lost \/ Place # len)
  /\ wild' = (wild \/ Place \notin Cache)
  /\ line' = Tail(line)
  /\ UNCHANGED <<proto, sent, noise>>

Next ==
  \/ \E pk \in Sendable[proto] : Send(pk)
  \/ \E b \in Noise : MakeNoise(b)
  \/ Receive

Spec == Init /\ [][Next]_vars

-----------------------------------------------------------------------------
(* Properties. *)

\* What the properties suppose of the line.  Noise does not look like the
\* first byte of a frame: what follows one is taken for a length, and the
\* cache of hxnet and dtrs fills.  A length has two bytes and a frame fits in
\* the cache, that of miniData before the loop starts again.  hxnet sends
\* flags of at most two bytes, or the function that looks for a frame throws
\* it away before the zero behind the flag is there; and no checksum, which
\* it reads before it has arrived.  Only hxnet has flags, and miniData builds
\* no frame without a parameter and none with a checksum.
LineUse ==
  /\ Base > 2 /\ Plain # 0 /\ Start \notin Noise
  /\ \A p \in Protocols : \A pk \in Sendable[p] :
       /\ Len(pk.parm) < Base * Base
       /\ Len(Encode(p, pk)) <= IF p = "miniData" THEN CacheSize - 1 ELSE CacheSize
       /\ IF p = "hxnet" THEN Len(pk.flag) <= 2 /\ ~pk.checked ELSE pk.flag = <<>>
       /\ p = "miniData" => pk.parm # <<>> /\ ~pk.checked

\* The frames handled are the packets sent, in order and none left out,
\* although a parameter may contain every mark, a frame arrives in pieces,
\* and the functions read bytes that have not arrived; unless noise has
\* filled the cache of miniData, which is then thrown away.
Genuine == lost \/ IsPrefix(got, sent)

Framing == INSTANCE Channel WITH
  Packets <- {[flag |-> pk.flag, parm |-> pk.parm] :
                 pk \in UNION {Sendable[p] : p \in Protocols}},
  intact  <- ~lost

\* The line is a channel: a byte that ends a frame brings the packet whose
\* turn it is, each once, until noise has filled the cache of miniData.
IsChannel == Framing!Spec

\* When the line is quiet every packet has been handled.  Two delays remain:
\* dtrs waits for a fourth byte, so a frame of three is handled with the next
\* one; and the loop of miniData looks once for each byte that can end a
\* frame, so it stays behind after noise.
KeepsUp ==
  line = <<>> =>
    \/ got = sent
    \/ proto = "dtrs" /\ Last(sent).parm = <<>> /\ got = Front(sent)
    \/ proto = "miniData" /\ noise > 0

\* No byte is stored outside the cache: what the functions say to remove is
\* never more than there is, and frames leave in time for those behind them.
InCache == ~wild
=============================================================================
