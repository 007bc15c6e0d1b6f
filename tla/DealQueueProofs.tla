---------------------------- MODULE DealQueueProofs ----------------------------
(***************************************************************************)
(* DealQueue keeps its two lists, its counter and its pool consistent,     *)
(* never sleeps over a filled queue, and implements the safety part of     *)
(* Fifo.  The inductive invariant is TypeOK /\ Linked (and NoLostWakeup).  *)
(***************************************************************************)
EXTENDS DealQueue, FiniteSetTheorems, SequenceTheorems, TLAPS

-----------------------------------------------------------------------------
(* The pool of MemMgr never hands out an object that is in use, counts what *)
(* it handed out, and holds at most MaxMem objects.                         *)

\* The first element of a sequence without repetitions, and the rest of it.
LEMMA HeadAndTail ==
  ASSUME NEW S, NEW s \in Seq(S), s # <<>>
  PROVE  /\ Head(s) \in S /\ Head(s) \in Range(s)
         /\ Tail(s) \in Seq(S) /\ Len(Tail(s)) = Len(s) - 1
         /\ IsInjective(s) =>
              IsInjective(Tail(s)) /\ Range(Tail(s)) = Range(s) \ {Head(s)}
<1>1. /\ Head(s) \in S /\ Tail(s) \in Seq(S) /\ Len(Tail(s)) = Len(s) - 1
      /\ \A i \in 1 .. Len(Tail(s)) : Tail(s)[i] = s[i + 1]
  BY HeadTailProperties
<1>2. Len(s) \in Nat \ {0} /\ DOMAIN s = 1 .. Len(s) /\ DOMAIN Tail(s) = 1 .. Len(s) - 1
      /\ Head(s) = s[1]
  BY <1>1, EmptySeq, LenProperties
<1>3. Head(s) \in Range(s)
  BY <1>2 DEF Range
<1>4. ASSUME IsInjective(s) PROVE IsInjective(Tail(s))
  <2>1. \A i \in 1 .. Len(s) - 1 : Tail(s)[i] = s[i + 1] /\ i + 1 \in 1 .. Len(s)
    BY <1>1, <1>2
  <2> QED BY <1>2, <1>4, <2>1 DEF IsInjective
<1>5. ASSUME IsInjective(s) PROVE Range(Tail(s)) = Range(s) \ {Head(s)}
  <2>1. ASSUME NEW x \in Range(Tail(s)) PROVE x \in Range(s) \ {Head(s)}
    <3>1. PICK i \in 1 .. Len(s) - 1 : x = s[i + 1]
      BY <1>1, <1>2, <2>1 DEF Range
    <3>2. i + 1 \in 1 .. Len(s) /\ i + 1 # 1 /\ 1 \in 1 .. Len(s)
      BY <1>2, <3>1
    <3> QED BY <1>2, <1>5, <3>1, <3>2 DEF Range, IsInjective
  <2>2. ASSUME NEW x \in Range(s) \ {Head(s)} PROVE x \in Range(Tail(s))
    <3>1. PICK i \in 1 .. Len(s) : x = s[i]
      BY <1>2, <2>2 DEF Range
    <3>2. i # 1
      BY <1>2, <2>2, <3>1
    <3>3. i - 1 \in 1 .. Len(s) - 1 /\ i = (i - 1) + 1
      BY <1>2, <3>1, <3>2
    <3>4. Tail(s)[i - 1] = x
      BY <1>1, <1>2, <3>1, <3>3
    <3> QED BY <1>2, <3>3, <3>4 DEF Range
  <2> QED BY <2>1, <2>2
<1> QED BY <1>1, <1>3, <1>4, <1>5

\* A new element after a sequence without repetitions.
LEMMA AppendNew ==
  ASSUME NEW S, NEW s \in Seq(S), NEW x \in S
  PROVE  /\ Append(s, x) \in Seq(S) /\ Len(Append(s, x)) = Len(s) + 1
         /\ Range(Append(s, x)) = Range(s) \cup {x}
         /\ IsInjective(s) /\ x \notin Range(s) => IsInjective(Append(s, x))
<1> DEFINE t == Append(s, x)
<1>1. /\ t \in Seq(S) /\ Len(t) = Len(s) + 1
      /\ \A i \in 1 .. Len(s) : t[i] = s[i]
      /\ t[Len(s) + 1] = x
  BY AppendProperties
<1>2. Len(s) \in Nat /\ DOMAIN s = 1 .. Len(s) /\ DOMAIN t = 1 .. Len(s) + 1
  BY <1>1, LenProperties
<1>3. Range(t) = Range(s) \cup {x}
  <2>1. ASSUME NEW y \in Range(t) PROVE y \in Range(s) \cup {x}
    <3>1. PICK i \in 1 .. Len(s) + 1 : y = t[i]
      BY <1>2, <2>1 DEF Range
    <3>2. CASE i = Len(s) + 1
      BY <1>1, <3>1, <3>2
    <3>3. CASE i # Len(s) + 1
      <4>1. i \in 1 .. Len(s)
        BY <1>2, <3>1, <3>3
      <4> QED BY <1>1, <1>2, <3>1, <4>1 DEF Range
    <3> QED BY <3>2, <3>3
  <2>2. ASSUME NEW y \in Range(s) PROVE y \in Range(t)
    <3>1. PICK i \in 1 .. Len(s) : y = s[i]
      BY <1>2, <2>2 DEF Range
    <3>2. i \in 1 .. Len(s) + 1 /\ y = t[i]
      BY <1>1, <1>2, <3>1
    <3> QED BY <1>2, <3>2 DEF Range
  <2>3. x \in Range(t)
    <3>1. Len(s) + 1 \in DOMAIN t
      BY <1>2
    <3> QED BY <1>1, <3>1 DEF Range
  <2> QED BY <2>1, <2>2, <2>3
<1>4. ASSUME IsInjective(s), x \notin Range(s),
             NEW a \in DOMAIN t, NEW b \in DOMAIN t, t[a] = t[b]
      PROVE  a = b
  <2>1. \A i \in 1 .. Len(s) : t[i] # x
    BY <1>1, <1>2, <1>4 DEF Range
  <2>2. a \in 1 .. Len(s) + 1 /\ b \in 1 .. Len(s) + 1
    BY <1>2, <1>4
  <2>3. CASE a = Len(s) + 1
    BY <1>1, <1>2, <1>4, <2>1, <2>2, <2>3
  <2>4. CASE b = Len(s) + 1
    BY <1>1, <1>2, <1>4, <2>1, <2>2, <2>4
  <2>5. CASE a # Len(s) + 1 /\ b # Len(s) + 1
    <3>1. a \in 1 .. Len(s) /\ b \in 1 .. Len(s)
      BY <1>2, <2>2, <2>5
    <3> QED BY <1>1, <1>2, <1>4, <3>1 DEF IsInjective
  <2> QED BY <2>3, <2>4, <2>5
<1>5. IsInjective(s) /\ x \notin Range(s) => IsInjective(t)
  BY <1>4 DEF IsInjective
<1> QED BY <1>1, <1>3, <1>5

\* What CreateMemBlock puts into an empty free list: distinct objects nobody
\* uses, at least one, and no more than the limits allow.
LEMMA BlockFacts ==
  ASSUME NEW busy \in SUBSET Address, NEW used \in Nat, used < MaxMem,
         NEW b \in Blocks(busy, used)
  PROVE  /\ b \in Seq(Address) /\ b # <<>> /\ IsInjective(b)
         /\ Range(b) \cap busy = {}
         /\ Len(b) >= 1 /\ Len(b) + used <= MaxMem /\ Len(b) <= Greater(1, FreeMem)
<1> USE PoolAssumption
<1> DEFINE n == BlockLen(used)
<1>1. n \in Nat /\ n >= 1 /\ n + used <= MaxMem /\ n <= Greater(1, FreeMem)
  BY DEF BlockLen, Greater, Lesser
<1>2. b \in [1 .. n -> Address \ busy] /\ IsInjective(b)
  BY DEF Blocks
<1> HIDE DEF n
<1>3. b \in Seq(Address) /\ Len(b) = n /\ DOMAIN b = 1 .. n
  BY <1>1, <1>2
<1>4. Range(b) \cap busy = {}
  BY <1>2, <1>3 DEF Range
<1>5. b # <<>>
  BY <1>1, <1>3, EmptySeq
<1> QED BY <1>1, <1>2, <1>3, <1>4, <1>5

\* MyNew keeps the pool sound and returns an object that was not in use.
LEMMA NewKeepsPool ==
  ASSUME PoolTyped, PoolSound, NEW p, MyNew(p)
  PROVE  PoolTyped' /\ PoolSound' /\ p \in Address /\ p \notin inUse
         /\ inUse' = inUse \cup {p}
<1> USE PoolAssumption
<1>1. /\ lstFree \in Seq(Address) /\ inUse \in SUBSET Address /\ useCnt \in Nat
      /\ IsInjective(lstFree) /\ Range(lstFree) \cap inUse = {}
      /\ IsFiniteSet(inUse) /\ useCnt = Cardinality(inUse)
      /\ Len(lstFree) + useCnt <= MaxMem /\ Len(lstFree) <= Greater(1, FreeMem)
  BY DEF PoolTyped, PoolSound
<1>2. useCnt < MaxMem /\ inUse' = inUse \cup {p} /\ useCnt' = useCnt + 1
  BY DEF MyNew
<1>3. PICK s \in Seq(Address) :
        /\ s # <<>> /\ IsInjective(s) /\ Range(s) \cap inUse = {}
        /\ Len(s) + useCnt <= MaxMem /\ Len(s) <= Greater(1, FreeMem)
        /\ p = Head(s) /\ lstFree' = Tail(s)
  <2>1. CASE lstFree # <<>> /\ p = Head(lstFree) /\ lstFree' = Tail(lstFree)
    BY <1>1, <2>1
  <2>2. CASE \E b \in Blocks(inUse, useCnt) : p = Head(b) /\ lstFree' = Tail(b)
    <3>1. PICK b \in Blocks(inUse, useCnt) : p = Head(b) /\ lstFree' = Tail(b)
      BY <2>2
    <3> QED BY <1>1, <1>2, <3>1, BlockFacts
  <2> QED BY <2>1, <2>2 DEF MyNew
<1>4. /\ p \in Address /\ p \in Range(s)
      /\ lstFree' \in Seq(Address) /\ Len(lstFree') = Len(s) - 1
      /\ IsInjective(lstFree') /\ Range(lstFree') = Range(s) \ {p}
  BY <1>3, HeadAndTail
<1>5. p \notin inUse
  BY <1>3, <1>4
<1>6. IsFiniteSet(inUse') /\ Cardinality(inUse') = Cardinality(inUse) + 1
  BY <1>1, <1>2, <1>5, FS_AddElement
<1>7. PoolTyped'
  BY <1>1, <1>2, <1>4 DEF PoolTyped
<1>8. Range(lstFree') \cap inUse' = {}
  BY <1>2, <1>3, <1>4
<1>9. Len(lstFree') + useCnt' <= MaxMem /\ Len(lstFree') <= Greater(1, FreeMem)
  <2>1. Len(s) \in Nat
    BY <1>3, LenProperties
  <2> QED BY <1>1, <1>2, <1>3, <1>4, <2>1 DEF Greater
<1> QED BY <1>1, <1>2, <1>4, <1>5, <1>6, <1>7, <1>8, <1>9 DEF PoolSound

\* MyDel of an object in use keeps the pool sound.
LEMMA DelKeepsPool ==
  ASSUME PoolTyped, PoolSound, NEW p \in Address, MyDel(p)
  PROVE  PoolTyped' /\ PoolSound' /\ inUse' = inUse \ {p}
<1> USE PoolAssumption
<1>1. /\ lstFree \in Seq(Address) /\ inUse \in SUBSET Address /\ useCnt \in Nat
      /\ IsInjective(lstFree) /\ Range(lstFree) \cap inUse = {}
      /\ IsFiniteSet(inUse) /\ useCnt = Cardinality(inUse)
      /\ Len(lstFree) + useCnt <= MaxMem /\ Len(lstFree) <= Greater(1, FreeMem)
      /\ Len(lstFree) \in Nat
  BY LenProperties DEF PoolTyped, PoolSound
<1>2. p \in inUse /\ inUse' = inUse \ {p} /\ useCnt' = useCnt - 1
      /\ lstFree' = IF Len(lstFree) < FreeMem THEN Append(lstFree, p) ELSE lstFree
  BY DEF MyDel
<1>3. IsFiniteSet(inUse') /\ Cardinality(inUse') = Cardinality(inUse) - 1
  BY <1>1, <1>2, FS_RemoveElement
<1>4. Cardinality(inUse') \in Nat
  BY <1>3, FS_CardinalityType
<1>5. useCnt' \in Nat /\ useCnt' = Cardinality(inUse') /\ inUse' \in SUBSET Address
  BY <1>1, <1>2, <1>3, <1>4
<1>6. CASE Len(lstFree) < FreeMem
  <2>1. lstFree' = Append(lstFree, p) /\ p \notin Range(lstFree)
    BY <1>1, <1>2, <1>6
  <2>2. /\ lstFree' \in Seq(Address) /\ Len(lstFree') = Len(lstFree) + 1
        /\ Range(lstFree') = Range(lstFree) \cup {p} /\ IsInjective(lstFree')
    BY <1>1, <2>1, AppendNew
  <2>3. Len(lstFree') + useCnt' <= MaxMem /\ Len(lstFree') <= Greater(1, FreeMem)
    BY <1>1, <1>2, <1>6, <2>2 DEF Greater
  <2>4. Range(lstFree') \cap inUse' = {}
    BY <1>1, <1>2, <2>2
  <2> QED BY <1>2, <1>3, <1>5, <2>2, <2>3, <2>4 DEF PoolTyped, PoolSound
<1>7. CASE ~(Len(lstFree) < FreeMem)
  <2>1. lstFree' = lstFree
    BY <1>2, <1>7
  <2>2. Len(lstFree') + useCnt' <= MaxMem
    BY <1>1, <1>2, <2>1
  <2>3. Range(lstFree') \cap inUse' = {}
    BY <1>1, <1>2, <2>1
  <2> QED BY <1>1, <1>2, <1>3, <1>5, <2>1, <2>2, <2>3 DEF PoolTyped, PoolSound
<1> QED BY <1>6, <1>7

\* The pool is sound when Init has filled it.
LEMMA PoolInitSound == PoolInit => PoolTyped /\ PoolSound
<1> USE PoolAssumption
<1> SUFFICES ASSUME PoolInit PROVE PoolTyped /\ PoolSound
  OBVIOUS
<1>1. lstFree \in Blocks({}, 0) /\ inUse = {} /\ useCnt = 0
  BY DEF PoolInit
<1>2. /\ lstFree \in Seq(Address) /\ IsInjective(lstFree)
      /\ Len(lstFree) + 0 <= MaxMem /\ Len(lstFree) <= Greater(1, FreeMem)
  BY <1>1, BlockFacts
<1>3. IsFiniteSet({}) /\ Cardinality({}) = 0
  BY FS_EmptySet
<1> QED BY <1>1, <1>2, <1>3 DEF PoolTyped, PoolSound

\* Whatever is called in whatever order, a second MyDel of an object included:
\* objects in use and free objects are disjoint and without repetitions, the
\* counter is right, and the limits hold.
THEOREM PoolIsSound == PoolSpec => [](PoolTyped /\ PoolSound)
<1>1. PoolInit => PoolTyped /\ PoolSound
  BY PoolInitSound
<1>2. PoolTyped /\ PoolSound /\ [PoolNext]_pool => (PoolTyped /\ PoolSound)'
  <2> SUFFICES ASSUME PoolTyped, PoolSound, [PoolNext]_pool
               PROVE  (PoolTyped /\ PoolSound)'
    OBVIOUS
  <2>1. CASE \E p \in Address : MyNew(p)
    BY <2>1, NewKeepsPool
  <2>2. CASE \E p \in Address : MyDel(p)
    BY <2>2, DelKeepsPool
  <2>3. CASE UNCHANGED pool
    BY <2>3 DEF pool, PoolTyped, PoolSound
  <2> QED BY <2>1, <2>2, <2>3 DEF PoolNext, MyDelUnknown
<1> QED BY <1>1, <1>2, PTL DEF PoolSpec

-----------------------------------------------------------------------------
(* The queue. *)

\* The part of TypeOK that the operations of the queue change.
Typed ==
  /\ PoolTyped
  /\ wait \in Seq(Address) /\ deal \in Seq(Address) /\ curQueLen \in Nat
  /\ mem \in [Address -> Info]
  /\ ret \in BOOLEAN /\ recvData \in Info

\* Appending to the second of two lists appends to both together.
LEMMA AppendToBoth ==
  ASSUME NEW S, NEW s \in Seq(S), NEW t \in Seq(S), NEW x \in S
  PROVE  s \o Append(t, x) = Append(s \o t, x)
<1>1. /\ s \o t \in Seq(S) /\ Len(s \o t) = Len(s) + Len(t)
      /\ \A i \in 1 .. Len(s) + Len(t) :
           (s \o t)[i] = IF i <= Len(s) THEN s[i] ELSE t[i - Len(s)]
  BY ConcatProperties
<1>2. /\ Append(t, x) \in Seq(S) /\ Len(Append(t, x)) = Len(t) + 1
      /\ \A i \in 1 .. Len(t) : Append(t, x)[i] = t[i]
      /\ Append(t, x)[Len(t) + 1] = x
  BY AppendProperties
<1> DEFINE a == s \o Append(t, x)
           b == Append(s \o t, x)
<1>3. /\ a \in Seq(S) /\ Len(a) = Len(s) + Len(Append(t, x))
      /\ \A i \in 1 .. Len(s) + Len(Append(t, x)) :
           a[i] = IF i <= Len(s) THEN s[i] ELSE Append(t, x)[i - Len(s)]
  BY <1>2, ConcatProperties
<1>4. /\ b \in Seq(S) /\ Len(b) = Len(s \o t) + 1
      /\ \A i \in 1 .. Len(s \o t) : b[i] = (s \o t)[i]
      /\ b[Len(s \o t) + 1] = x
  BY <1>1, AppendProperties
<1>5. Len(s) \in Nat /\ Len(t) \in Nat
  BY LenProperties
<1> HIDE DEF a, b
<1>6. Len(a) = Len(s) + Len(t) + 1 /\ Len(b) = Len(a)
  BY <1>1, <1>2, <1>3, <1>4, <1>5
<1>7. ASSUME NEW i \in 1 .. Len(a) PROVE a[i] = b[i]
  <2>1. CASE i = Len(s) + Len(t) + 1
    BY <1>1, <1>2, <1>3, <1>4, <1>5, <1>6, <2>1
  <2>2. CASE i # Len(s) + Len(t) + 1
    <3>1. i \in 1 .. Len(s) + Len(t)
      BY <1>5, <1>6, <1>7, <2>2
    <3>2. b[i] = IF i <= Len(s) THEN s[i] ELSE t[i - Len(s)]
      BY <1>1, <1>4, <3>1
    <3>3. a[i] = IF i <= Len(s) THEN s[i] ELSE Append(t, x)[i - Len(s)]
      BY <1>2, <1>3, <1>5, <3>1
    <3>4. i > Len(s) => i - Len(s) \in 1 .. Len(t)
      BY <1>5, <3>1
    <3> QED BY <1>2, <1>5, <3>1, <3>2, <3>3, <3>4
  <2> QED BY <2>1, <2>2
<1>8. a = b
  BY <1>3, <1>4, <1>6, <1>7, SeqEqual
<1> QED BY <1>8 DEF a, b

\* The first of two lists taken together is the first of the first list.
LEMMA FirstOfBoth ==
  ASSUME NEW S, NEW s \in Seq(S), NEW t \in Seq(S), s # <<>>
  PROVE  /\ s \o t # <<>> /\ Head(s \o t) = Head(s) /\ Tail(s \o t) = Tail(s) \o t
<1>1. /\ s \o t \in Seq(S) /\ Len(s \o t) = Len(s) + Len(t)
      /\ \A i \in 1 .. Len(s) + Len(t) :
           (s \o t)[i] = IF i <= Len(s) THEN s[i] ELSE t[i - Len(s)]
  BY ConcatProperties
<1>2. Len(s) \in Nat \ {0} /\ Len(t) \in Nat
  BY EmptySeq, LenProperties
<1>3. s \o t # <<>>
  BY <1>1, <1>2, EmptySeq
<1>4. Head(s \o t) = Head(s)
  <2>1. (s \o t)[1] = s[1]
    BY <1>1, <1>2
  <2> QED BY <1>1, <2>1
<1> DEFINE a == Tail(s \o t)
           b == Tail(s) \o t
<1>5. /\ a \in Seq(S) /\ Len(a) = Len(s) + Len(t) - 1
      /\ \A i \in 1 .. Len(a) : a[i] = (s \o t)[i + 1]
  BY <1>1, <1>3, HeadTailProperties
<1>6. /\ Tail(s) \in Seq(S) /\ Len(Tail(s)) = Len(s) - 1
      /\ \A i \in 1 .. Len(Tail(s)) : Tail(s)[i] = s[i + 1]
  BY HeadTailProperties
<1>7. /\ b \in Seq(S) /\ Len(b) = Len(Tail(s)) + Len(t)
      /\ \A i \in 1 .. Len(Tail(s)) + Len(t) :
           b[i] = IF i <= Len(Tail(s)) THEN Tail(s)[i] ELSE t[i - Len(Tail(s))]
  BY <1>6, ConcatProperties
<1> HIDE DEF a, b
<1>8. ASSUME NEW i \in 1 .. Len(a) PROVE a[i] = b[i]
  <2>1. i + 1 \in 1 .. Len(s) + Len(t) /\ i \in 1 .. Len(Tail(s)) + Len(t)
    BY <1>2, <1>5, <1>6, <1>8
  <2>2. a[i] = IF i + 1 <= Len(s) THEN s[i + 1] ELSE t[i + 1 - Len(s)]
    BY <1>1, <1>5, <1>8, <2>1
  <2>3. b[i] = IF i <= Len(s) - 1 THEN s[i + 1] ELSE t[i - (Len(s) - 1)]
    BY <1>2, <1>6, <1>7, <2>1
  <2>4. i + 1 - Len(s) = i - (Len(s) - 1) /\ (i + 1 <= Len(s) <=> i <= Len(s) - 1)
    BY <1>2, <2>1
  <2> QED BY <2>2, <2>3, <2>4
<1>9. Len(a) = Len(b)
  BY <1>2, <1>5, <1>6, <1>7
<1>10. a = b
  BY <1>5, <1>7, <1>8, <1>9, SeqEqual
<1> QED BY <1>3, <1>4, <1>10 DEF a, b

\* A sequence without repetitions has as many elements as places.
LEMMA CountDistinct ==
  ASSUME NEW S, NEW s \in Seq(S), IsInjective(s)
  PROVE  Cardinality(Range(s)) = Len(s)
<1>1. Len(s) \in Nat /\ DOMAIN s = 1 .. Len(s) /\ s \in [1 .. Len(s) -> S]
  BY LenProperties
<1>2. s \in [1 .. Len(s) -> Range(s)]
  BY <1>1 DEF Range
<1>3. \A y \in Range(s) : \E i \in 1 .. Len(s) : s[i] = y
  BY <1>1 DEF Range
<1>4. s \in Bijection(1 .. Len(s), Range(s))
  BY <1>1, <1>2, <1>3 DEF Bijection, Injection, Surjection
<1> QED BY <1>1, <1>4, FS_CountingElements DEF ExistsBijection

\* The two lists together hold as many objects as the pool has in use.
LEMMA ListedFacts ==
  ASSUME Typed, Linked
  PROVE  /\ Listed \in Seq(Address) /\ Len(Listed) = useCnt
         /\ Len(wait) <= useCnt
         /\ deal = <<>> => Listed = wait
<1>1. Listed \in Seq(Address) /\ Len(Listed) = Len(deal) + Len(wait)
  BY ConcatProperties DEF Typed, Listed
<1>2. Len(deal) \in Nat /\ Len(wait) \in Nat
  BY LenProperties DEF Typed
<1>3. Len(Listed) = useCnt
  BY <1>1, CountDistinct DEF Linked, PoolSound
<1>4. deal = <<>> => Listed = wait
  BY ConcatEmptySeq DEF Typed, Listed
<1> QED BY <1>1, <1>2, <1>3, <1>4

\* An insertion that succeeds appends a new object to the two lists.
LEMMA EnqueueStep ==
  ASSUME Typed, Linked, NEW p, NEW info \in Info, Enqueue(p, info)
  PROVE  /\ Typed' /\ Linked'
         /\ p \in Address /\ p \notin Range(Listed)
         /\ Listed' = Append(Listed, p)
<1>1. /\ PoolTyped' /\ PoolSound' /\ p \in Address /\ p \notin inUse
      /\ inUse' = inUse \cup {p}
  BY NewKeepsPool DEF Typed, Linked, Enqueue
<1>2. Listed \in Seq(Address)
  BY ListedFacts
<1>3. Listed' = Append(Listed, p)
  BY <1>1, AppendToBoth DEF Typed, Enqueue, Listed
<1>4. p \notin Range(Listed)
  BY <1>1 DEF Linked
<1>5. IsInjective(Listed') /\ Range(Listed') = inUse'
  BY <1>1, <1>2, <1>3, <1>4, AppendNew DEF Linked
<1>6. wait' \in Seq(Address) /\ Len(wait') = Len(wait) + 1
  BY <1>1, AppendProperties DEF Typed, Enqueue
<1>7. Typed'
  BY <1>1, <1>6 DEF Typed, Enqueue
<1>8. curQueLen' = Len(wait')
  BY <1>6 DEF Linked, Enqueue
<1> QED BY <1>1, <1>3, <1>4, <1>5, <1>7, <1>8 DEF Linked

\* GetDealData takes the first object of the two lists and leaves the rest.
LEMMA GetStep ==
  ASSUME Typed, Linked, GetDealData
  PROVE  /\ Typed' /\ Linked'
         /\ Listed # <<>> /\ Listed' = Tail(Listed)
         /\ Head(Listed) \in Address /\ recvData' = mem[Head(Listed)]
         /\ UNCHANGED <<mem, ret>>
<1>1. wait \in Seq(Address) /\ deal \in Seq(Address) /\ Listed \in Seq(Address)
  BY ListedFacts DEF Typed
<1>2. /\ Listed # <<>> /\ Listed' = Tail(Listed)
      /\ MyDel(Head(Listed)) /\ recvData' = mem[Head(Listed)]
      /\ mem' = mem /\ ret' = ret
      /\ deal' \in Seq(Address) /\ wait' \in Seq(Address) /\ curQueLen' = Len(wait')
  <2>1. CASE TakeFirst(deal) /\ UNCHANGED <<wait, curQueLen>>
    <3>1. /\ Listed # <<>> /\ Head(Listed) = Head(deal)
          /\ Tail(Listed) = Tail(deal) \o wait
      BY <1>1, <2>1, FirstOfBoth DEF TakeFirst, Listed
    <3>2. Tail(deal) \in Seq(Address)
      BY <1>1, <2>1, HeadTailProperties DEF TakeFirst
    <3> QED BY <1>1, <2>1, <3>1, <3>2 DEF TakeFirst, Listed, Linked
  <2>2. CASE deal = <<>> /\ TakeFirst(wait) /\ wait' = <<>> /\ curQueLen' = 0
    <3>1. Listed = wait
      BY <2>2, ListedFacts
    <3>2. Tail(wait) \in Seq(Address)
      BY <1>1, <2>2, HeadTailProperties DEF TakeFirst
    <3>3. Tail(wait) \o <<>> = Tail(wait)
      BY <3>2, ConcatEmptySeq
    <3>4. Listed' = Tail(wait)
      BY <2>2, <3>3 DEF TakeFirst, Listed
    <3>5. wait' \in Seq(Address) /\ curQueLen' = Len(wait')
      BY <2>2
    <3> QED BY <2>2, <3>1, <3>2, <3>4, <3>5 DEF TakeFirst
  <2> QED BY <2>1, <2>2 DEF GetDealData
<1>3. /\ Head(Listed) \in Address /\ IsInjective(Listed')
      /\ Range(Listed') = Range(Listed) \ {Head(Listed)}
  BY <1>1, <1>2, HeadAndTail DEF Linked
<1>4. PoolTyped' /\ PoolSound' /\ inUse' = inUse \ {Head(Listed)}
  BY <1>2, <1>3, DelKeepsPool DEF Typed, Linked
<1>5. Typed'
  <2>1. recvData' \in Info
    BY <1>2, <1>3 DEF Typed
  <2>2. curQueLen' \in Nat
    BY <1>2, LenProperties
  <2> QED BY <1>2, <1>4, <2>1, <2>2 DEF Typed
<1>6. Linked'
  BY <1>2, <1>3, <1>4 DEF Linked
<1> QED BY <1>2, <1>3, <1>5, <1>6

\* Both insertions, whoever calls them, are an Enqueue of some Info or Refused.
LEMMA Insertions ==
  ASSUME Typed, NEW h \in Handles
  PROVE  /\ \A d \in Data : InsertWaitDealData(h, d) =>
              Refused \/ \E p \in Address, info \in Info : Enqueue(p, info)
         /\ \A op \in OpTypes : InsertOtherData(h, op) =>
              Refused \/ \E p \in Address, info \in Info : Enqueue(p, info)
<1>1. \A d \in Data : [handle |-> h, op |-> "none", data |-> d] \in Info
  BY DEF Info, OpTypes
<1>2. \A op \in OpTypes, p \in Address :
        [handle |-> h, op |-> op, data |-> mem[p].data] \in Info
  BY DEF Typed, Info
<1>3. ASSUME NEW d \in Data, InsertWaitDealData(h, d)
      PROVE  Refused \/ \E p \in Address, info \in Info : Enqueue(p, info)
  BY <1>1, <1>3 DEF InsertWaitDealData
<1>4. ASSUME NEW op \in OpTypes, InsertOtherData(h, op)
      PROVE  Refused \/ \E p \in Address, info \in Info : Enqueue(p, info)
  BY <1>2, <1>4 DEF InsertOtherData
<1> QED BY <1>3, <1>4

\* A step of a thread does one of the three operations of the queue, or none.
LEMMA QueueSteps ==
  ASSUME Typed, [Next]_vars
  PROVE  \/ \E p \in Address, info \in Info : Enqueue(p, info)
         \/ Refused
         \/ GetDealData
         \/ UNCHANGED <<pool, lists, ret, recvData>>
<1>1. CASE \E t \in Workers : Insert(t)
  <2>1. PICK h \in Handles : \/ \E d \in Data : InsertWaitDealData(h, d)
                             \/ \E op \in {"close", "accept"} : InsertOtherData(h, op)
    BY <1>1 DEF Insert
  <2> QED BY <2>1, Insertions DEF OpTypes
<1>2. CASE DealCloses
  <2>1. PICK h \in Handles : InsertOtherData(h, "close")
    BY <1>2 DEF DealCloses
  <2> QED BY <2>1, Insertions DEF OpTypes
<1>3. CASE Get
  BY <1>3 DEF Get
<1>4. CASE (\E t \in Workers \cup {Consumer} : SetEvent(t)) \/ GetNothing
           \/ DealDone \/ WaitForSingleObject
  BY <1>4 DEF SetEvent, GetNothing, DealDone, WaitForSingleObject
<1>5. CASE UNCHANGED vars
  BY <1>5 DEF vars
<1> QED BY <1>1, <1>2, <1>3, <1>4, <1>5 DEF Next

\* The control points and the event keep their types.
LEMMA TypedControl ==
  ASSUME TypeOK, [Next]_vars
  PROVE  hEvent' \in BOOLEAN /\ pc' \in [Workers \cup {Consumer} -> Steps]
<1> DEFINE T == Workers \cup {Consumer}
<1>1. \A t \in T, from, to \in Steps : Goto(t, from, to) => pc' \in [T -> Steps]
  BY DEF TypeOK, Goto
<1>2. {"run", "signal", "get", "deal", "dealSignal", "wait"} \subseteq Steps
  BY DEF Steps
<1>3. CASE \E t \in Workers : Insert(t)
  BY <1>1, <1>2, <1>3, Zenon DEF Insert, TypeOK
<1>4. CASE \E t \in T : SetEvent(t)
  <2>1. hEvent' = TRUE
    BY <1>4 DEF SetEvent
  <2>2. pc' \in [T -> Steps]
    BY <1>1, <1>2, <1>4 DEF SetEvent
  <2> QED BY <2>1, <2>2
<1>5. CASE Get \/ GetNothing \/ DealCloses \/ DealDone
  BY <1>1, <1>2, <1>5, Zenon DEF Get, GetNothing, DealCloses, DealDone, TypeOK
<1>6. CASE WaitForSingleObject
  <2>1. hEvent' = FALSE
    BY <1>6 DEF WaitForSingleObject
  <2>2. pc' \in [T -> Steps]
    BY <1>1, <1>2, <1>6 DEF WaitForSingleObject
  <2> QED BY <2>1, <2>2
<1>7. CASE UNCHANGED vars
  BY <1>7 DEF vars, TypeOK
<1> QED BY <1>3, <1>4, <1>5, <1>6, <1>7 DEF Next

\* Init and every step keep TypeOK and Linked.
LEMMA LinkedInductive ==
  /\ Init => TypeOK /\ Linked
  /\ TypeOK /\ Linked /\ [Next]_vars => (TypeOK /\ Linked)'
<1>1. ASSUME Init PROVE TypeOK /\ Linked
  <2>1. PoolTyped /\ PoolSound
    BY <1>1, PoolInitSound DEF Init
  <2>2. inUse = {} /\ wait = <<>> /\ deal = <<>> /\ curQueLen = 0
    BY <1>1 DEF Init, PoolInit
  <2>3. Listed = <<>>
    BY <2>2, ConcatEmptySeq DEF Listed
  <2>4. IsInjective(Listed) /\ Range(Listed) = {} /\ Len(wait) = 0
    BY <2>2, <2>3 DEF IsInjective, Range
  <2>5. pc \in [Workers \cup {Consumer} -> Steps]
    BY <1>1 DEF Init, Steps
  <2>6. wait \in Seq(Address) /\ deal \in Seq(Address) /\ curQueLen \in Nat
    BY <2>2
  <2>7. /\ mem \in [Address -> Info] /\ recvData \in Info
        /\ ret \in BOOLEAN /\ hEvent \in BOOLEAN
    BY <1>1, Zenon DEF Init
  <2> QED BY <2>1, <2>2, <2>4, <2>5, <2>6, <2>7, Zenon DEF TypeOK, Linked
<1>2. ASSUME TypeOK, Linked, [Next]_vars PROVE (TypeOK /\ Linked)'
  <2>1. Typed
    BY <1>2 DEF TypeOK, Typed
  <2>2. Typed' /\ Linked'
    <3>1. CASE \E p \in Address, info \in Info : Enqueue(p, info)
      BY <1>2, <2>1, <3>1, EnqueueStep
    <3>2. CASE Refused
      <4>1. ret' \in BOOLEAN
        BY <3>2 DEF Refused
      <4>2. UNCHANGED <<pool, lists, recvData>>
        BY <3>2 DEF Refused
      <4> QED BY <1>2, <2>1, <4>1, <4>2, Zenon
              DEF Typed, Linked, Listed, PoolTyped, PoolSound, pool, lists
    <3>3. CASE GetDealData
      BY <1>2, <2>1, <3>3, GetStep
    <3>4. CASE UNCHANGED <<pool, lists, ret, recvData>>
      BY <1>2, <2>1, <3>4, Zenon
         DEF Typed, Linked, Listed, PoolTyped, PoolSound, pool, lists
    <3> QED BY <1>2, <2>1, <3>1, <3>2, <3>3, <3>4, QueueSteps
  <2>3. hEvent' \in BOOLEAN /\ pc' \in [Workers \cup {Consumer} -> Steps]
    BY <1>2, TypedControl
  <2> QED BY <2>2, <2>3, Zenon DEF TypeOK, Typed
<1> QED BY <1>1, <1>2

\* The objects in use are exactly those in the two lists, each once, and
\* m_nCurQueLen counts the list the insertions look at.
THEOREM ListsAndPool == Spec => [](TypeOK /\ Linked)
<1>1. TypeOK /\ Linked /\ [Next]_vars => (TypeOK /\ Linked)'
  BY LinkedInductive
<1> QED BY <1>1, LinkedInductive, PTL DEF Spec

\* The lists hold objects of the pool, and m_nCurQueLen, which insertions raise
\* and the swap of the lists resets, never passes below 0.
THEOREM QueueTyped == Spec => []TypeOK
BY ListsAndPool, PTL

\* When the consumer sleeps and something waits, the event is set or a thread
\* that inserted has not called SetEvent yet: no order of insertions, SetEvent
\* and GetDealData leaves the consumer asleep over a filled queue.
THEOREM NobodySleeps == Spec => []NoLostWakeup
<1>1. Init => NoLostWakeup
  BY DEF Init, NoLostWakeup
<1>2. TypeOK /\ NoLostWakeup /\ [Next]_vars => NoLostWakeup'
  <2> SUFFICES ASSUME TypeOK, NoLostWakeup, [Next]_vars,
                      pc'[Consumer] = "wait", Listed' # <<>>
               PROVE  hEvent' \/ \E t \in Workers : pc'[t] = "signal"
    BY DEF NoLostWakeup
  <2>1. /\ \A t \in Workers : t # Consumer
        /\ pc \in [Workers \cup {Consumer} -> Steps]
    BY QueueAssumption DEF TypeOK
  <2>2. CASE \E t \in Workers : Insert(t)
    BY <2>1, <2>2 DEF Insert, Goto
  <2>3. CASE \E t \in Workers \cup {Consumer} : SetEvent(t)
    BY <2>3 DEF SetEvent
  <2>4. CASE GetNothing
    <3>1. deal' = <<>> /\ wait' = <<>>
      BY <2>4 DEF GetNothing, lists
    <3>2. Listed' = <<>>
      BY <3>1, ConcatEmptySeq DEF Listed
    <3> QED BY <3>2
  <2>5. CASE Get \/ DealCloses \/ DealDone \/ WaitForSingleObject
    BY <2>1, <2>5 DEF Get, DealCloses, DealDone, WaitForSingleObject, Goto
  <2>6. CASE UNCHANGED vars
    BY <2>6, Zenon DEF vars, lists, NoLostWakeup, Listed
  <2> QED BY <2>2, <2>3, <2>4, <2>5, <2>6 DEF Next
<1>3. Spec => [](TypeOK /\ Linked)
  BY ListsAndPool
<1> QED BY <1>1, <1>2, <1>3, PTL DEF Spec

-----------------------------------------------------------------------------
(* The refinement. *)

\* The queue of Fifo that two lists and a memory stand for.
Shown(l, m) == [i \in 1 .. Len(l) |-> Seen(m[l[i]])]
SeenInfo == {Seen(i) : i \in Info}

\* It is a sequence of what the consumer sees, as long as the lists; its
\* first element and its rest are those of the lists; and an append shows.
LEMMA ShownFacts ==
  ASSUME NEW l \in Seq(Address), NEW m \in [Address -> Info]
  PROVE  /\ Shown(l, m) \in Seq(SeenInfo) /\ Len(Shown(l, m)) = Len(l)
         /\ \A i \in 1 .. Len(l) : Shown(l, m)[i] = Seen(m[l[i]])
<1>1. Len(l) \in Nat /\ \A i \in 1 .. Len(l) : l[i] \in Address
  BY ElementOfSeq, LenProperties
<1>2. \A i \in 1 .. Len(l) : Seen(m[l[i]]) \in SeenInfo
  BY <1>1 DEF SeenInfo
<1>3. Shown(l, m) \in [1 .. Len(l) -> SeenInfo]
  BY <1>2 DEF Shown
<1>4. Shown(l, m) \in Seq(SeenInfo) /\ Len(Shown(l, m)) = Len(l)
  BY <1>1, <1>3
<1> QED BY <1>4 DEF Shown

\* Taking the first object of the lists takes the first element that shows.
LEMMA ShownTail ==
  ASSUME NEW l \in Seq(Address), NEW m \in [Address -> Info], l # <<>>
  PROVE  /\ Shown(l, m) # <<>> /\ Head(Shown(l, m)) = Seen(m[Head(l)])
         /\ Shown(Tail(l), m) = Tail(Shown(l, m))
<1> DEFINE q == Shown(l, m)
           r == Shown(Tail(l), m)
<1>1. /\ Tail(l) \in Seq(Address) /\ Len(Tail(l)) = Len(l) - 1 /\ Head(l) = l[1]
      /\ \A i \in 1 .. Len(Tail(l)) : Tail(l)[i] = l[i + 1]
      /\ Len(l) \in Nat \ {0}
  BY HeadTailProperties, EmptySeq
<1>2. /\ q \in Seq(SeenInfo) /\ Len(q) = Len(l)
      /\ \A i \in 1 .. Len(l) : q[i] = Seen(m[l[i]])
  BY ShownFacts
<1>3. /\ r \in Seq(SeenInfo) /\ Len(r) = Len(l) - 1
      /\ \A i \in 1 .. Len(l) - 1 : r[i] = Seen(m[Tail(l)[i]])
  BY <1>1, ShownFacts
<1> HIDE DEF q, r
<1>4. q # <<>> /\ Head(q) = Seen(m[Head(l)])
  BY <1>1, <1>2, EmptySeq
<1>5. /\ Tail(q) \in Seq(SeenInfo) /\ Len(Tail(q)) = Len(l) - 1
      /\ \A i \in 1 .. Len(l) - 1 : Tail(q)[i] = q[i + 1]
  BY <1>2, <1>4, HeadTailProperties
<1>6. ASSUME NEW i \in 1 .. Len(r) PROVE r[i] = Tail(q)[i]
  <2>1. i \in 1 .. Len(l) - 1 /\ i + 1 \in 1 .. Len(l)
    BY <1>1, <1>3, <1>6
  <2> QED BY <1>1, <1>2, <1>3, <1>5, <2>1
<1>7. r = Tail(q)
  BY <1>3, <1>5, <1>6, SeqEqual
<1> QED BY <1>4, <1>7 DEF q, r

\* Filling an object that is not listed and appending it appends what is seen.
LEMMA ShownAppend ==
  ASSUME NEW l \in Seq(Address), NEW m \in [Address -> Info],
         NEW p \in Address, p \notin Range(l), NEW info \in Info
  PROVE  Shown(Append(l, p), [m EXCEPT ![p] = info]) = Append(Shown(l, m), Seen(info))
<1> DEFINE n == [m EXCEPT ![p] = info]
           k == Append(l, p)
           q == Shown(k, n)
           r == Append(Shown(l, m), Seen(info))
<1>1. /\ k \in Seq(Address) /\ Len(k) = Len(l) + 1 /\ Len(l) \in Nat
      /\ \A i \in 1 .. Len(l) : k[i] = l[i]
      /\ k[Len(l) + 1] = p
  BY AppendProperties, LenProperties
<1>2. n \in [Address -> Info]
  OBVIOUS
<1>3. /\ Shown(l, m) \in Seq(SeenInfo) /\ Len(Shown(l, m)) = Len(l)
      /\ \A i \in 1 .. Len(l) : Shown(l, m)[i] = Seen(m[l[i]])
  BY ShownFacts
<1> HIDE DEF n, k
<1>4. /\ q \in Seq(SeenInfo) /\ Len(q) = Len(l) + 1
      /\ \A i \in 1 .. Len(l) + 1 : q[i] = Seen(n[k[i]])
  BY <1>1, <1>2, ShownFacts
<1>5. Seen(info) \in SeenInfo
  BY DEF SeenInfo
<1>6. /\ r \in Seq(SeenInfo) /\ Len(r) = Len(l) + 1
      /\ \A i \in 1 .. Len(l) : r[i] = Shown(l, m)[i]
      /\ r[Len(l) + 1] = Seen(info)
  BY <1>3, <1>5, AppendProperties
<1> HIDE DEF q, r
<1>7. ASSUME NEW i \in 1 .. Len(q) PROVE q[i] = r[i]
  <2>1. CASE i = Len(l) + 1
    <3>1. n[p] = info
      BY DEF n
    <3> QED BY <1>1, <1>4, <1>6, <2>1, <3>1
  <2>2. CASE i # Len(l) + 1
    <3>1. i \in 1 .. Len(l)
      BY <1>1, <1>4, <1>7, <2>2
    <3>2. l[i] \in Address /\ l[i] # p
      BY <3>1, ElementOfSeq, LenProperties DEF Range
    <3>3. n[l[i]] = m[l[i]]
      BY <3>2 DEF n
    <3> QED BY <1>1, <1>3, <1>4, <1>6, <3>1, <3>3
  <2> QED BY <2>1, <2>2
<1>8. q = r
  BY <1>4, <1>6, <1>7, SeqEqual
<1> QED BY <1>8 DEF q, r, k, n

\* Whatever the threads do in whatever order, the two lists with their pool of
\* recycled objects are one first-in first-out queue that refuses an item only
\* when it holds MaxMem.
THEOREM ImplementsFifo == Spec => Queue!SafeSpec
<1>1. Init => Queue!Init
  <2> SUFFICES ASSUME Init PROVE Queue!Init
    OBVIOUS
  <2>1. Listed = <<>> /\ recvData \in Info /\ ret = TRUE
    BY ConcatEmptySeq DEF Init, Listed
  <2>2. [i \in 1 .. Len(Listed) |-> Seen(mem[Listed[i]])] = <<>>
    BY <2>1
  <2> QED BY <2>1, <2>2 DEF Queue!Init
<1>2. TypeOK /\ Linked /\ [Next]_vars => [Queue!Next]_(Queue!fifo)
  <2> SUFFICES ASSUME TypeOK, Linked, [Next]_vars PROVE [Queue!Next]_(Queue!fifo)
    OBVIOUS
  <2> DEFINE q == Shown(Listed, mem)
  <2>1. /\ Typed
        /\ mem \in [Address -> Info] /\ Listed \in Seq(Address)
        /\ Len(q) = useCnt /\ Len(wait) <= useCnt /\ useCnt \in Nat
    <3>1. Typed
      BY DEF TypeOK, Typed
    <3>2. Len(q) = Len(Listed)
      BY <3>1, ListedFacts, ShownFacts DEF Typed
    <3> QED BY <3>1, <3>2, ListedFacts DEF Typed, PoolTyped
  <2>2. CASE \E p \in Address, info \in Info : Enqueue(p, info)
    <3>1. PICK p \in Address, info \in Info : Enqueue(p, info)
      BY <2>2
    <3>2. Listed' = Append(Listed, p) /\ p \notin Range(Listed)
      BY <2>1, <3>1, EnqueueStep
    <3>3. mem' = [mem EXCEPT ![p] = info] /\ ret' = TRUE /\ recvData' = recvData
      BY <3>1 DEF Enqueue
    <3>4. q' = Append(q, Seen(info))
      BY <2>1, <3>2, <3>3, ShownAppend
    <3>5. Len(q) < MaxMem
      BY <2>1, <3>1 DEF Enqueue, MyNew
    <3>6. Queue!Put(Seen(info))
      BY <3>3, <3>4, <3>5 DEF Queue!Put, Shown
    <3> QED BY <3>6 DEF Queue!Next
  <2>3. CASE Refused
    <3>1. Len(q) >= MaxMem
      BY <2>1, <2>3, PoolAssumption DEF Refused, Exhausted, Linked
    <3>2. Listed' = Listed /\ mem' = mem /\ recvData' = recvData /\ ret' = FALSE
      BY <2>3 DEF Refused, lists, Listed
    <3> QED BY <3>1, <3>2 DEF Queue!Next, Queue!Refuse, Shown
  <2>4. CASE GetDealData
    <3>1. /\ Listed # <<>> /\ Listed' = Tail(Listed)
          /\ recvData' = mem[Head(Listed)] /\ mem' = mem /\ ret' = ret
      BY <2>1, <2>4, GetStep
    <3>2. q # <<>> /\ Head(q) = Seen(recvData') /\ q' = Tail(q)
      BY <2>1, <3>1, ShownTail
    <3> QED BY <3>1, <3>2 DEF Queue!Next, Queue!Take, Shown
  <2>5. CASE UNCHANGED <<pool, lists, ret, recvData>>
    BY <2>5 DEF lists, Listed, Queue!fifo
  <2> QED BY <2>1, <2>2, <2>3, <2>4, <2>5, QueueSteps
<1> QED BY <1>1, <1>2, ListsAndPool, PTL DEF Spec, Queue!SafeSpec
=============================================================================
