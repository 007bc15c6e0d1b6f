---------------------------- MODULE NetCoreProofs ----------------------------
(***************************************************************************)
(* Proofs about the data structures of zhNet_Core: the linked list of      *)
(* NetList and the buffer of Packet, up to packets of any number of items. *)
(***************************************************************************)
EXTENDS NetList, Packet, WellFoundedInduction, TLAPS

(***************************************************************************)
(* Lists.                                                                  *)
(***************************************************************************)
LEMMA NodeAtType ==
  ASSUME NEW s \in Seq(ListNode), NEW i \in Int
  PROVE  /\ NodeAt(s, i) \in Pointer
         /\ NodeAt(s, i) = NULL <=> i \notin 1 .. Len(s)
         /\ i \in 1 .. Len(s) => NodeAt(s, i) = s[i] /\ s[i] \in ListNode
BY ListAssumption DEF NodeAt, Pointer

\* What the pointers of a list say of its nodes.
LEMMA WhatIsRepresented ==
  ASSUME NEW l, NEW s, Represents(l, s)
  PROVE  /\ s \in Seq(ListNode) /\ Len(s) \in Nat /\ DOMAIN s = 1 .. Len(s)
         /\ l.HEAD = NodeAt(s, 1) /\ l.TAIL = NodeAt(s, Len(s)) /\ l.count = Len(s)
         /\ \A i, j \in 1 .. Len(s) : s[i] = s[j] => i = j
         /\ \A i \in 1 .. Len(s) : /\ s[i] \in ListNode
                                  /\ l.next[s[i]] = NodeAt(s, i + 1)
                                  /\ l.prev[s[i]] = NodeAt(s, i - 1)
BY DEF Represents

\* Setting one pointer leaves pointers.
LEMMA PointType ==
  ASSUME NEW pointers \in [ListNode -> Pointer], NEW n, NEW value \in Pointer
  PROVE  Point(pointers, n, value) \in [ListNode -> Pointer]
BY DEF Point

\* zhNetListInsert puts a node that is not in the list behind the given one, or
\* first, and leaves the order of the others and both directions of pointers
\* right (netlist.c:52-86).
THEOREM ListInserts ==
  ASSUME NEW l \in ListHeader, NEW s, Represents(l, s),
         NEW k \in Nat, k <= Len(s), NEW n \in ListNode,
         \A i \in DOMAIN s : s[i] # n
  PROVE  /\ ListInsert(l, NodeAt(s, k), n) \in ListHeader
         /\ Represents(ListInsert(l, NodeAt(s, k), n), WithNode(s, k, n))
<1> DEFINE before == NodeAt(s, k)
           after == NodeAt(s, k + 1)
           m == ListInsert(l, before, n)
           w == WithNode(s, k, n)
<1>1. s \in Seq(ListNode) /\ Len(s) \in Nat /\ DOMAIN s = 1 .. Len(s)
  BY WhatIsRepresented
<1>0. k \in Nat /\ k + 1 \in Int /\ k <= Len(s)
  OBVIOUS
<1>2. /\ before \in Pointer /\ (before = NULL <=> k = 0)
      /\ k # 0 => before = s[k] /\ k \in 1 .. Len(s)
  BY <1>1, <1>0, NodeAtType
<1>3. /\ after \in Pointer /\ (after = NULL <=> k = Len(s))
      /\ k # Len(s) => after = s[k + 1] /\ k + 1 \in 1 .. Len(s)
  <2>1. k + 1 \in 1 .. Len(s) <=> k # Len(s)
    <3>1. ASSUME NEW b \in Nat, NEW a \in Nat, a <= b
          PROVE  a + 1 \in 1 .. b <=> a # b
      BY <3>1
    <3> HIDE DEF before, after, m, w
    <3> QED BY <1>1, <1>0, <3>1
  <2> QED BY <1>1, <1>0, <2>1, NodeAtType
<1>4. pNext(l, before) = after
  BY <1>1, <1>0, <1>2 DEF pNext, Represents
<1>5. m = [ HEAD  |-> IF k = 0 THEN n ELSE l.HEAD,
            TAIL  |-> IF k = Len(s) THEN n ELSE l.TAIL,
            count |-> l.count + 1,
            next  |-> Point(Point(l.next, before, n), n, after),
            prev  |-> Point(Point(l.prev, after, n), n, before) ]
  BY <1>2, <1>3, <1>4 DEF ListInsert
<1>6. m \in ListHeader
  <2>1. /\ n \in Pointer /\ l.HEAD \in Pointer /\ l.TAIL \in Pointer /\ l.count \in Int
        /\ l.next \in [ListNode -> Pointer] /\ l.prev \in [ListNode -> Pointer]
    BY DEF ListHeader, Pointer
  <2>2. /\ Point(Point(l.next, before, n), n, after) \in [ListNode -> Pointer]
        /\ Point(Point(l.prev, after, n), n, before) \in [ListNode -> Pointer]
    BY <1>2, <1>3, <2>1, PointType
  <2> QED BY <1>5, <2>1, <2>2 DEF ListHeader
<1>7. /\ w \in Seq(ListNode) /\ Len(w) = Len(s) + 1 /\ DOMAIN w = 1 .. Len(s) + 1
      /\ \A i \in 1 .. Len(s) + 1 :
           w[i] = IF i <= k THEN s[i] ELSE IF i = k + 1 THEN n ELSE s[i - 1]
  BY <1>1 DEF WithNode
<1>8. ASSUME NEW i \in DOMAIN w, NEW j \in DOMAIN w, w[i] = w[j]
      PROVE  i = j
  <2> DEFINE old(x) == IF x <= k THEN x ELSE x - 1
  <2>1. /\ \A x \in DOMAIN w : x # k + 1 => old(x) \in 1 .. Len(s) /\ w[x] = s[old(x)]
        /\ \A x \in DOMAIN w : x = k + 1 => w[x] = n
    BY <1>1, <1>0, <1>7
  <2>2. i = k + 1 <=> j = k + 1
    BY <1>1, <1>0, <1>8, <2>1
  <2>3. ASSUME i # k + 1
        PROVE  old(i) = old(j)
    <3>1. s[old(i)] = s[old(j)] /\ old(i) \in 1 .. Len(s) /\ old(j) \in 1 .. Len(s)
      BY <1>8, <2>1, <2>2, <2>3
    <3> HIDE DEF old, w
    <3> QED BY <3>1, WhatIsRepresented
  <2> QED BY <1>1, <1>0, <1>7, <2>2, <2>3
<1>9. ASSUME NEW i \in DOMAIN w
      PROVE  m.next[w[i]] = NodeAt(w, i + 1) /\ m.prev[w[i]] = NodeAt(w, i - 1)
  <2>1. w[i] \in ListNode /\ i \in 1 .. Len(s) + 1
    BY <1>7
  <2>2. /\ m.next[w[i]] = IF w[i] = n THEN after ELSE IF w[i] = before THEN n ELSE l.next[w[i]]
        /\ m.prev[w[i]] = IF w[i] = n THEN before ELSE IF w[i] = after THEN n ELSE l.prev[w[i]]
    BY <1>5, <2>1 DEF Point
  <2>3. CASE i = k + 1
    <3>1. w[i] = n
      BY <1>7, <2>1, <2>3
    <3>2. NodeAt(w, i + 1) = after
      BY <1>1, <1>0, <1>7, <2>3 DEF NodeAt
    <3>3. NodeAt(w, i - 1) = before
      BY <1>1, <1>0, <1>7, <2>3 DEF NodeAt
    <3> QED BY <2>2, <3>1, <3>2, <3>3
  <2>4. CASE i <= k
    <3>1. w[i] = s[i] /\ i \in 1 .. Len(s) /\ w[i] # n
      BY <1>1, <1>0, <1>7, <2>1, <2>4
    <3>2. w[i] # after
      <4>1. k # Len(s) => s[i] # s[k + 1]
        BY <1>0, <1>3, <2>4, <3>1, WhatIsRepresented
      <4> QED BY <1>3, <2>1, <3>1, <4>1, ListAssumption
    <3>3. w[i] = before <=> i = k
      BY <1>1, <1>0, <1>2, <2>4, <3>1, ListAssumption, <2>1 DEF Represents
    <3>4. l.next[s[i]] = NodeAt(s, i + 1) /\ l.prev[s[i]] = NodeAt(s, i - 1)
      BY <1>1, <1>0, <3>1 DEF Represents
    <3>5. NodeAt(w, i - 1) = NodeAt(s, i - 1)
      BY <1>1, <1>0, <1>7, <2>4, <3>1 DEF NodeAt
    <3>6. NodeAt(w, i + 1) = IF i = k THEN n ELSE NodeAt(s, i + 1)
      BY <1>1, <1>0, <1>7, <2>4, <3>1 DEF NodeAt
    <3> QED BY <2>2, <3>1, <3>2, <3>3, <3>4, <3>5, <3>6
  <2>5. CASE i > k + 1
    <3>1. w[i] = s[i - 1] /\ i - 1 \in 1 .. Len(s) /\ w[i] # n
      BY <1>1, <1>0, <1>7, <2>1, <2>5
    <3>2. w[i] # before
      BY <1>1, <1>0, <1>2, <2>5, <3>1, ListAssumption, <2>1 DEF Represents
    <3>3. w[i] = after <=> i = k + 2
      <4>1. k + 1 \in 1 .. Len(s) /\ after = s[k + 1]
        <5>1. k # Len(s)
          BY <1>1, <1>0, <2>1, <2>5
        <5> QED BY <1>3, <5>1
      <4>2. s[i - 1] = s[k + 1] <=> i - 1 = k + 1
        BY <3>1, <4>1, WhatIsRepresented
      <4> QED BY <1>1, <1>0, <2>1, <3>1, <4>1, <4>2
    <3>4. l.next[s[i - 1]] = NodeAt(s, i) /\ l.prev[s[i - 1]] = NodeAt(s, i - 2)
      <4>1. /\ l.next[s[i - 1]] = NodeAt(s, i - 1 + 1)
            /\ l.prev[s[i - 1]] = NodeAt(s, i - 1 - 1)
        BY <3>1, WhatIsRepresented
      <4>2. i - 1 + 1 = i /\ i - 1 - 1 = i - 2
        BY <2>1
      <4> QED BY <4>1, <4>2
    <3>5. NodeAt(w, i + 1) = NodeAt(s, i)
      BY <1>1, <1>0, <1>7, <2>5, <3>1 DEF NodeAt
    <3>6. NodeAt(w, i - 1) = IF i = k + 2 THEN n ELSE NodeAt(s, i - 2)
      BY <1>1, <1>0, <1>7, <2>5, <3>1 DEF NodeAt
    <3> QED BY <2>2, <3>1, <3>2, <3>3, <3>4, <3>5, <3>6
  <2> QED BY <1>1, <1>0, <2>1, <2>3, <2>4, <2>5
<1>10. m.count = Len(w)
  <2>1. m.count = l.count + 1
    BY <1>5
  <2> HIDE DEF m, w
  <2> QED BY <1>1, <1>0, <1>7, <2>1, WhatIsRepresented
<1>11. m.HEAD = NodeAt(w, 1)
  <2>1. 1 \in DOMAIN w /\ w[1] = (IF k = 0 THEN n ELSE s[1])
    BY <1>1, <1>0, <1>7
  <2>2. k # 0 => l.HEAD = s[1]
    BY <1>1, <1>0, WhatIsRepresented DEF NodeAt
  <2> QED BY <1>5, <2>1, <2>2 DEF NodeAt
<1>12. m.TAIL = NodeAt(w, Len(w))
  <2>1. /\ Len(w) \in DOMAIN w
        /\ w[Len(w)] = (IF k = Len(s) THEN n ELSE s[Len(s)])
    <3> HIDE DEF w
    <3>1. ASSUME NEW b \in Nat, b = Len(s)
          PROVE  /\ b + 1 \in DOMAIN w
                 /\ w[b + 1] = (IF k = b THEN n ELSE s[b])
      BY <1>0, <1>7, <3>1
    <3> QED BY <1>1, <1>7, <3>1
  <2>2. k # Len(s) => l.TAIL = s[Len(s)]
    <3>1. k # Len(s) => Len(s) \in 1 .. Len(s)
      <4>1. ASSUME NEW b \in Nat, k <= b, k # b
            PROVE  b \in 1 .. b
        BY <4>1
      <4> QED BY <1>1, <1>0, <4>1
    <3> QED BY <1>1, <1>0, <3>1, WhatIsRepresented DEF NodeAt
  <2> QED BY <1>5, <2>1, <2>2 DEF NodeAt
<1> QED BY <1>6, <1>7, <1>8, <1>9, <1>10, <1>11, <1>12 DEF Represents

\* zhNetListAdd appends (netlist.c:88-91).
THEOREM ListAppends ==
  ASSUME NEW l \in ListHeader, NEW s, Represents(l, s),
         NEW n \in ListNode, \A i \in DOMAIN s : s[i] # n
  PROVE  Represents(ListAdd(l, n), Append(s, n))
<1>1. s \in Seq(ListNode) /\ Len(s) \in Nat /\ Len(s) <= Len(s) /\ DOMAIN s = 1 .. Len(s)
  BY DEF Represents
<1>2. l.TAIL = NodeAt(s, Len(s))
  BY DEF Represents
<1>3. Represents(ListAdd(l, n), WithNode(s, Len(s), n))
  BY <1>1, <1>2, ListInserts DEF ListAdd
<1>4. WithNode(s, Len(s), n) = Append(s, n)
  <2>1. /\ WithNode(s, Len(s), n) \in Seq(ListNode) /\ Append(s, n) \in Seq(ListNode)
        /\ Len(WithNode(s, Len(s), n)) = Len(s) + 1 /\ Len(Append(s, n)) = Len(s) + 1
    BY <1>1 DEF WithNode
  <2>2. ASSUME NEW i \in 1 .. Len(s) + 1
        PROVE  WithNode(s, Len(s), n)[i] = Append(s, n)[i]
    BY <1>1 DEF WithNode
  <2> QED BY <1>1, <2>1, <2>2
<1> QED BY <1>3, <1>4

\* zhNetListDelete takes the node out wherever it is, first and last included,
\* and leaves the others in their order (netlist.c:93-106).
THEOREM ListDeletes ==
  ASSUME NEW l \in ListHeader, NEW s, Represents(l, s), NEW k \in DOMAIN s
  PROVE  /\ ListDelete(l, s[k]) \in ListHeader
         /\ Represents(ListDelete(l, s[k]), WithoutNode(s, k))
<1> DEFINE before == NodeAt(s, k - 1)
           behind == NodeAt(s, k + 1)
           m == ListDelete(l, s[k])
           w == WithoutNode(s, k)
<1>1. /\ s \in Seq(ListNode) /\ Len(s) \in Nat /\ DOMAIN s = 1 .. Len(s)
      /\ k \in Int /\ k - 1 \in Int /\ k + 1 \in Int
  BY DEF Represents
<1>2. /\ before \in Pointer /\ (before = NULL <=> k = 1)
      /\ k # 1 => before = s[k - 1] /\ k - 1 \in 1 .. Len(s)
  BY <1>1, NodeAtType
<1>3. /\ behind \in Pointer /\ (behind = NULL <=> k = Len(s))
      /\ k # Len(s) => behind = s[k + 1] /\ k + 1 \in 1 .. Len(s)
  BY <1>1, NodeAtType
<1>4. m = [ HEAD  |-> IF k = 1 THEN behind ELSE l.HEAD,
            TAIL  |-> IF k = Len(s) THEN before ELSE l.TAIL,
            count |-> l.count - 1,
            next  |-> Point(l.next, before, behind),
            prev  |-> Point(l.prev, behind, before) ]
  BY <1>1, <1>2, <1>3 DEF ListDelete, Represents
<1>5. m \in ListHeader
  <2>1. /\ l.HEAD \in Pointer /\ l.TAIL \in Pointer /\ l.count \in Int
        /\ l.next \in [ListNode -> Pointer] /\ l.prev \in [ListNode -> Pointer]
    BY DEF ListHeader
  <2>2. /\ Point(l.next, before, behind) \in [ListNode -> Pointer]
        /\ Point(l.prev, behind, before) \in [ListNode -> Pointer]
    BY <1>2, <1>3, <2>1, PointType
  <2> QED BY <1>2, <1>3, <1>4, <2>1, <2>2 DEF ListHeader
<1>6. /\ w \in Seq(ListNode) /\ Len(w) = Len(s) - 1 /\ DOMAIN w = 1 .. Len(s) - 1
      /\ \A i \in 1 .. Len(s) - 1 : w[i] = IF i < k THEN s[i] ELSE s[i + 1]
  BY <1>1 DEF WithoutNode
<1>7. ASSUME NEW i \in DOMAIN w, NEW j \in DOMAIN w, w[i] = w[j]
      PROVE  i = j
  <2> DEFINE old(x) == IF x < k THEN x ELSE x + 1
  <2>1. \A x \in DOMAIN w : old(x) \in 1 .. Len(s) /\ w[x] = s[old(x)]
    BY <1>1, <1>6
  <2>2. old(i) = old(j)
    <3>1. s[old(i)] = s[old(j)] /\ old(i) \in 1 .. Len(s) /\ old(j) \in 1 .. Len(s)
      BY <1>7, <2>1
    <3> HIDE DEF old, w
    <3> QED BY <3>1, WhatIsRepresented
  <2> QED BY <1>1, <1>6, <2>2
<1>8. ASSUME NEW i \in DOMAIN w
      PROVE  m.next[w[i]] = NodeAt(w, i + 1) /\ m.prev[w[i]] = NodeAt(w, i - 1)
  <2>1. w[i] \in ListNode /\ i \in 1 .. Len(s) - 1
    BY <1>6
  <2>2. /\ m.next[w[i]] = IF w[i] = before THEN behind ELSE l.next[w[i]]
        /\ m.prev[w[i]] = IF w[i] = behind THEN before ELSE l.prev[w[i]]
    BY <1>4, <2>1 DEF Point
  <2>3. CASE i < k
    <3>1. w[i] = s[i] /\ i \in 1 .. Len(s)
      BY <1>1, <1>6, <2>1, <2>3
    <3>2. w[i] # behind
      BY <1>1, <1>3, <2>3, <3>1, ListAssumption, <2>1 DEF Represents
    <3>3. w[i] = before <=> i = k - 1
      BY <1>1, <1>2, <2>3, <3>1, ListAssumption, <2>1 DEF Represents
    <3>4. l.next[s[i]] = NodeAt(s, i + 1) /\ l.prev[s[i]] = NodeAt(s, i - 1)
      BY <1>1, <3>1 DEF Represents
    <3>5. NodeAt(w, i - 1) = NodeAt(s, i - 1)
      BY <1>1, <1>6, <2>3, <3>1 DEF NodeAt
    <3>6. NodeAt(w, i + 1) = IF i = k - 1 THEN behind ELSE NodeAt(s, i + 1)
      BY <1>1, <1>6, <2>3, <3>1 DEF NodeAt
    <3> QED BY <2>2, <3>1, <3>2, <3>3, <3>4, <3>5, <3>6
  <2>4. CASE i >= k
    <3>1. w[i] = s[i + 1] /\ i + 1 \in 1 .. Len(s)
      BY <1>1, <1>6, <2>1, <2>4
    <3>2. w[i] # before
      BY <1>1, <1>2, <2>4, <3>1, ListAssumption, <2>1 DEF Represents
    <3>3. w[i] = behind <=> i = k
      BY <1>1, <1>3, <2>4, <3>1, ListAssumption, <2>1 DEF Represents
    <3>4. l.next[s[i + 1]] = NodeAt(s, i + 2) /\ l.prev[s[i + 1]] = NodeAt(s, i)
      <4>1. /\ l.next[s[i + 1]] = NodeAt(s, i + 1 + 1)
            /\ l.prev[s[i + 1]] = NodeAt(s, i + 1 - 1)
        BY <3>1, WhatIsRepresented
      <4>2. i + 1 + 1 = i + 2 /\ i + 1 - 1 = i
        BY <2>1
      <4> QED BY <4>1, <4>2
    <3>5. NodeAt(w, i + 1) = NodeAt(s, i + 2)
      BY <1>1, <1>6, <2>4, <3>1 DEF NodeAt
    <3>6. NodeAt(w, i - 1) = IF i = k THEN before ELSE NodeAt(s, i)
      BY <1>1, <1>6, <2>4, <3>1 DEF NodeAt
    <3> QED BY <2>2, <3>1, <3>2, <3>3, <3>4, <3>5, <3>6
  <2> QED BY <1>1, <2>1, <2>3, <2>4
<1>9. m.count = Len(w)
  BY <1>1, <1>4, <1>6 DEF Represents
<1>10. m.HEAD = NodeAt(w, 1)
  BY <1>1, <1>4, <1>6 DEF Represents, NodeAt
<1>11. m.TAIL = NodeAt(w, Len(w))
  BY <1>1, <1>4, <1>6 DEF Represents, NodeAt
<1> QED BY <1>5, <1>6, <1>7, <1>8, <1>9, <1>10, <1>11 DEF Represents

(***************************************************************************)
(* Packets.                                                                *)
(***************************************************************************)
LEMMA WordRange ==
  ASSUME NEW a \in Nat
  PROVE  /\ a % WordValues \in 0 .. WordValues - 1
         /\ a < WordValues => a % WordValues = a
BY PacketAssumption

\* Whatever is put into a packet, it stays one, and only the bytes from wPos
\* on that are written differ.
LEMMA PutIntoPacket ==
  ASSUME NEW p \in TzhPacket, NEW s \in Seq(Octet)
  PROVE  /\ Put(p, s) \in TzhPacket
         /\ \A i \in 0 .. PackLength + 1 :
              Put(p, s).btBuf[i] = IF i \in p.wPos .. p.wPos + Len(s) - 1
                                   THEN s[i - p.wPos + 1] ELSE p.btBuf[i]
         /\ p.wPos + Len(s) < WordValues => Put(p, s).wPos = p.wPos + Len(s)
<1>1. /\ p.wPos \in Nat /\ p.wSize \in Nat /\ p.btBuf \in [0 .. PackLength + 1 -> Octet]
      /\ Len(s) \in Nat
  BY PacketAssumption DEF TzhPacket, PackMemory
<1>2. /\ (p.wPos + Len(s)) % WordValues \in 0 .. WordValues - 1
      /\ (p.wSize + Len(s)) % WordValues \in 0 .. WordValues - 1
      /\ p.wPos + Len(s) < WordValues => (p.wPos + Len(s)) % WordValues = p.wPos + Len(s)
  <2>1. p.wPos + Len(s) \in Nat /\ p.wSize + Len(s) \in Nat
    BY <1>1
  <2> QED BY <2>1, WordRange
<1>3. ASSUME NEW i \in 0 .. PackLength + 1, i \in p.wPos .. p.wPos + Len(s) - 1
      PROVE  s[i - p.wPos + 1] \in Octet
  <2>1. i - p.wPos + 1 \in 1 .. Len(s)
    BY <1>1, <1>3
  <2> QED BY <2>1
<1>4. Put(p, s).btBuf \in [0 .. PackLength + 1 -> Octet]
  BY <1>1, <1>3 DEF Put
<1>5. /\ Put(p, s) = [wPos |-> (p.wPos + Len(s)) % WordValues,
                      wSize |-> (p.wSize + Len(s)) % WordValues,
                      btBuf |-> Put(p, s).btBuf]
  BY DEF Put
<1>6. Put(p, s) \in TzhPacket
  BY <1>2, <1>4, <1>5 DEF TzhPacket, PackMemory
<1>7. \A i \in 0 .. PackLength + 1 :
        Put(p, s).btBuf[i] = IF i \in p.wPos .. p.wPos + Len(s) - 1
                             THEN s[i - p.wPos + 1] ELSE p.btBuf[i]
  BY <1>1 DEF Put
<1> QED BY <1>2, <1>5, <1>6, <1>7

\* A writer of numbers, flags or binary data changes no byte before wPos and
\* none behind the buffer (packet.c:45-101, 180-187 and 195-269).
THEOREM WritesInside ==
  ASSUME NEW p \in TzhPacket, NEW s \in Seq(Octet)
  PROVE  /\ PackWrite(p, s) \in TzhPacket
         /\ \A i \in 0 .. PackLength + 1 :
              i < p.wPos \/ i >= PackLength => PackWrite(p, s).btBuf[i] = p.btBuf[i]
<1>1. p.wPos \in Nat /\ Len(s) \in Nat
  BY DEF TzhPacket
<1>2. CASE Fits(p, s)
  <2>1. p.wPos + Len(s) <= PackLength
    BY <1>2 DEF Fits
  <2>2. \A i \in 0 .. PackLength + 1 :
          i < p.wPos \/ i >= PackLength => i \notin p.wPos .. p.wPos + Len(s) - 1
    BY <1>1, <2>1, PacketAssumption
  <2> QED BY <1>2, <2>2, PutIntoPacket DEF PackWrite
<1>3. CASE ~Fits(p, s)
  BY <1>3 DEF PackWrite
<1> QED BY <1>2, <1>3

\* The writers of strings compare the length without the end: they change at
\* most one byte behind the buffer (two for Unicode), only when the string ends
\* close to it, and then no writer takes anything more (packet.c:108, 126).
THEOREM TextEndsBehind ==
  ASSUME NEW p \in TzhPacket, NEW s \in Seq(Octet), NEW e \in {<< 0 >>, << 0, 0 >>},
         Fits(p, s)
  PROVE  /\ PackWriteText(p, s, e) \in TzhPacket
         /\ \A i \in 0 .. PackLength + 1 :
              \/ i < p.wPos
              \/ i >= PackLength + Len(e)
              \/ i >= PackLength /\ p.wPos + Len(s) + Len(e) <= PackLength
              => PackWriteText(p, s, e).btBuf[i] = p.btBuf[i]
         /\ p.wPos + Len(s) + Len(e) > PackLength =>
              \A t \in Seq(Octet) : ~Fits(PackWriteText(p, s, e), t)
<1> DEFINE f == s \o e
           q == Put(p, f)
<1>1. p.wPos \in Nat /\ Len(s) \in Nat /\ p.wPos + Len(s) <= PackLength
  BY DEF TzhPacket, Fits
<1>2. f \in Seq(Octet) /\ (Len(e) = 1 \/ Len(e) = 2) /\ Len(f) = Len(s) + Len(e)
  <2>1. << 0 >> \in Seq(Octet) /\ <<0, 0>> \in Seq(Octet) /\ Len(<< 0 >>) = 1 /\ Len(<<0, 0>>) = 2
    BY PacketAssumption
  <2>2. CASE e = << 0 >>
    BY <2>1, <2>2
  <2>3. CASE e = <<0, 0>>
    BY <2>1, <2>3
  <2> QED BY <2>2, <2>3
<1>3. p.wPos + Len(f) <= PackLength + Len(e) /\ p.wPos + Len(f) < WordValues
  <2>1. ASSUME NEW a \in Nat, NEW b \in Nat, NEW c \in Nat,
               a + b <= PackLength, c = 1 \/ c = 2
        PROVE  a + (b + c) <= PackLength + c /\ a + (b + c) < WordValues
    BY <2>1, PacketAssumption
  <2>2. Len(e) \in Nat
    BY <1>2
  <2> HIDE DEF f
  <2> QED BY <1>1, <1>2, <2>1, <2>2
<1>4. /\ q \in TzhPacket /\ q.wPos = p.wPos + Len(f)
      /\ \A i \in 0 .. PackLength + 1 :
            q.btBuf[i] = IF i \in p.wPos .. p.wPos + Len(f) - 1
                         THEN f[i - p.wPos + 1] ELSE p.btBuf[i]
  <2> HIDE DEF f
  <2> QED BY <1>2, <1>3, PutIntoPacket
<1>5. ASSUME NEW i \in 0 .. PackLength + 1,
             \/ i < p.wPos
             \/ i >= PackLength + Len(e)
             \/ i >= PackLength /\ p.wPos + Len(s) + Len(e) <= PackLength
      PROVE  q.btBuf[i] = p.btBuf[i]
  <2>1. i \notin p.wPos .. p.wPos + Len(f) - 1
    <3> HIDE DEF f
    <3> QED BY <1>1, <1>2, <1>3, <1>5, PacketAssumption
  <2> QED BY <1>4, <2>1
<1>6. ASSUME p.wPos + Len(s) + Len(e) > PackLength, NEW t \in Seq(Octet)
      PROVE  ~Fits(q, t)
  <2>1. q.wPos > PackLength /\ q.wPos \in Nat /\ Len(t) \in Nat
    <3> HIDE DEF f, q
    <3> QED BY <1>1, <1>2, <1>4, <1>6
  <2> QED BY <2>1, PacketAssumption DEF Fits
<1> QED BY <1>4, <1>5, <1>6 DEF PackWriteText

\* What a writer wrote is there, from where it wrote it.
THEOREM WrittenIsHeld ==
  ASSUME NEW p \in TzhPacket, NEW s \in Seq(Octet), p.wPos + Len(s) <= PackLength + 2
  PROVE  /\ Holds(Put(p, s).btBuf, p.wPos, s)
         /\ Put(p, s).wPos = p.wPos + Len(s)
<1>1. p.wPos \in Nat /\ Len(s) \in Nat /\ p.wPos + Len(s) < WordValues
  BY PacketAssumption DEF TzhPacket
<1>2. ASSUME NEW j \in DOMAIN s
      PROVE  Put(p, s).btBuf[p.wPos + j - 1] = s[j]
  <2> DEFINE i == p.wPos + j - 1
  <2>1. /\ i \in 0 .. PackLength + 1 /\ i \in p.wPos .. p.wPos + Len(s) - 1
        /\ i - p.wPos + 1 = j
    BY <1>1, <1>2, PacketAssumption
  <2> HIDE DEF i
  <2>2. Put(p, s).btBuf[i] = s[i - p.wPos + 1]
    BY <2>1, PutIntoPacket
  <2>3. Put(p, s).btBuf[i] = s[j]
    BY <2>1, <2>2
  <2> QED BY <2>3 DEF i
<1> QED BY <1>1, <1>2, PutIntoPacket DEF Holds

\* What was written before stays as it was, whatever is written behind it.
THEOREM WrittenStays ==
  ASSUME NEW p \in TzhPacket, NEW s \in Seq(Octet), NEW t \in Seq(Octet),
         NEW at \in Nat, at + Len(s) <= p.wPos, at + Len(s) <= PackLength + 2,
         Holds(p.btBuf, at, s)
  PROVE  Holds(Put(p, t).btBuf, at, s)
<1>1. ASSUME NEW j \in DOMAIN s
      PROVE  Put(p, t).btBuf[at + j - 1] = s[j]
  <2>1. /\ at + j - 1 \in 0 .. PackLength + 1
        /\ at + j - 1 \notin p.wPos .. p.wPos + Len(t) - 1
    BY <1>1, PacketAssumption DEF TzhPacket
  <2>2. p.btBuf[at + j - 1] = s[j]
    BY DEF Holds
  <2>3. \A i \in 0 .. PackLength + 1 :
          i \notin p.wPos .. p.wPos + Len(t) - 1 => Put(p, t).btBuf[i] = p.btBuf[i]
    BY PutIntoPacket
  <2> QED BY <2>1, <2>2, <2>3
<1> QED BY <1>1 DEF Holds

-----------------------------------------------------------------------------
\* A number, a flag or binary data is read as it was written, and the reader
\* goes on where the writer did (packet.c:53-101, 188-194 and 204-269).
THEOREM ReadsWhatIsHeld ==
  ASSUME NEW p \in TzhPacket, NEW s \in Seq(Octet),
         Holds(p.btBuf, p.wPos, s), p.wPos + Len(s) <= PackLength
  PROVE  /\ PackRead(p, Len(s)).got = s
         /\ PackRead(p, Len(s)).left = [p EXCEPT !.wPos = p.wPos + Len(s)]
         /\ PackReadBinary(p, Len(s)) = PackRead(p, Len(s))
<1>1. p.wPos \in Nat /\ Len(s) \in Nat /\ p.wPos + Len(s) < WordValues /\ Len(s) <= PackLength
  BY PacketAssumption DEF TzhPacket
<1>2. (p.wPos + Len(s) + 0) % WordValues = p.wPos + Len(s)
  BY <1>1, WordRange
<1>3. [k \in 1 .. Len(s) |-> p.btBuf[p.wPos + k - 1]] = s
  BY DEF Holds
<1> QED BY <1>1, <1>2, <1>3, PacketAssumption DEF PackRead, PackReadBefore, PackReadBinary

\* The first length is the least.
LEMMA FirstIs ==
  ASSUME NEW lengths \in SUBSET Nat, NEW n \in lengths, \A m \in lengths : n <= m
  PROVE  First(lengths) = n
<1>1. \A m \in lengths : (\A o \in lengths : m <= o) => m = n
  BY SMT
<1> QED BY <1>1 DEF First

\* A string is read as it was written, when it contains no 0, even if its end is
\* behind the buffer; by zhPackReadStringN too, given three bytes more than the
\* string has (packet.c:138-162).
THEOREM ReadsString ==
  ASSUME NEW p \in TzhPacket, NEW s \in Seq(Octet), \A j \in DOMAIN s : s[j] # 0,
         Holds(p.btBuf, p.wPos, s \o << 0 >>), p.wPos + Len(s) <= PackLength
  PROVE  /\ PackReadString(p).got = s
         /\ PackReadString(p).left = [p EXCEPT !.wPos = p.wPos + Len(s) + 1]
         /\ \A max \in Nat : Len(s) < max - 2 => PackReadStringN(p, max) = {PackReadString(p)}
<1>1. /\ p.wPos \in Nat /\ Len(s) \in Nat /\ PackLength \in Nat
      /\ p.wPos + Len(s) + 1 < WordValues
  BY PacketAssumption DEF TzhPacket
<1>2. ASSUME NEW n \in Nat, n <= Len(s)
      PROVE  p.btBuf[p.wPos + n] = IF n < Len(s) THEN s[n + 1] ELSE 0
  <2>1. << 0 >> \in Seq({0}) /\ Len(<< 0 >>) = 1 /\ << 0 >>[1] = 0
    OBVIOUS
  <2>2. /\ n + 1 \in DOMAIN (s \o << 0 >>) /\ p.wPos + (n + 1) - 1 = p.wPos + n
        /\ (s \o << 0 >>)[n + 1] = IF n < Len(s) THEN s[n + 1] ELSE 0
    BY <1>1, <1>2, <2>1
  <2> QED BY <2>2 DEF Holds
<1>3. First(Ends(p)) = Len(s)
  <2>1. Ends(p) \in SUBSET Nat
    BY <1>1 DEF Ends
  <2>2. Len(s) \in Ends(p)
    <3>1. Len(s) \in 0 .. PackLength + 1 - p.wPos
      BY <1>1
    <3> QED BY <1>1, <1>2, <3>1 DEF Ends
  <2>3. ASSUME NEW n \in Ends(p), n < Len(s)
        PROVE  FALSE
    <3>1. n \in Nat /\ p.btBuf[p.wPos + n] = 0
      BY <2>1 DEF Ends
    <3>2. n + 1 \in DOMAIN s
      BY <1>1, <2>3, <3>1
    <3> QED BY <1>2, <2>3, <3>1, <3>2, <1>1
  <2>4. \A n \in Ends(p) : Len(s) <= n
    BY <1>1, <2>1, <2>3
  <2> QED BY <2>1, <2>2, <2>4, FirstIs
<1>4. [k \in 1 .. Len(s) |-> p.btBuf[p.wPos + k - 1]] = s
  <2>1. ASSUME NEW j \in 1 .. Len(s)
        PROVE  p.btBuf[p.wPos + j - 1] = s[j]
    <3>1. j - 1 \in Nat /\ j - 1 < Len(s) /\ p.wPos + (j - 1) = p.wPos + j - 1 /\ j - 1 + 1 = j
      BY <1>1
    <3>2. p.btBuf[p.wPos + (j - 1)] = s[j - 1 + 1]
      BY <1>1, <1>2, <3>1
    <3> QED BY <3>1, <3>2
  <2> QED BY <2>1
<1>5. (p.wPos + Len(s) + 1) % WordValues = p.wPos + Len(s) + 1
  BY <1>1, WordRange
<1> QED BY <1>3, <1>4, <1>5 DEF PackReadString, PackReadBefore, PackReadStringN

\* So is a Unicode string in which no character is 0 (packet.c:164-178).
THEOREM ReadsUnicode ==
  ASSUME NEW p \in TzhPacket, NEW s \in Seq(Octet), NEW half \in Nat, Len(s) = 2 * half,
         \A j \in 1 .. Len(s) - 1 : j % 2 = 1 => s[j] # 0 \/ s[j + 1] # 0,
         Holds(p.btBuf, p.wPos, s \o <<0, 0>>), p.wPos + Len(s) <= PackLength
  PROVE  /\ PackReadUnicode(p).got = s
         /\ PackReadUnicode(p).left = [p EXCEPT !.wPos = p.wPos + Len(s) + 2]
<1>1. /\ p.wPos \in Nat /\ Len(s) \in Nat /\ PackLength \in Nat
      /\ p.wPos + Len(s) + 2 < WordValues
  BY PacketAssumption DEF TzhPacket
<1>2. ASSUME NEW n \in Nat, n <= Len(s) + 1
      PROVE  p.btBuf[p.wPos + n] = IF n < Len(s) THEN s[n + 1] ELSE 0
  <2>1. <<0, 0>> \in Seq({0}) /\ Len(<<0, 0>>) = 2 /\ <<0, 0>>[1] = 0 /\ <<0, 0>>[2] = 0
    OBVIOUS
  <2>2. /\ n + 1 \in DOMAIN (s \o <<0, 0>>) /\ p.wPos + (n + 1) - 1 = p.wPos + n
        /\ (s \o <<0, 0>>)[n + 1] = IF n < Len(s) THEN s[n + 1] ELSE 0
    BY <1>1, <1>2, <2>1
  <2> QED BY <2>2 DEF Holds
<1>3. First(UnicodeEnds(p)) = Len(s)
  <2>1. UnicodeEnds(p) \in SUBSET Nat
    BY <1>1 DEF UnicodeEnds
  <2>2. Len(s) \in UnicodeEnds(p)
    <3>1. Len(s) \in 0 .. PackLength - p.wPos /\ Len(s) + 1 \in Nat
      BY <1>1
    <3>2. p.btBuf[p.wPos + Len(s)] = 0 /\ p.btBuf[p.wPos + (Len(s) + 1)] = 0
      BY <1>1, <1>2, <3>1
    <3>3. p.wPos + (Len(s) + 1) = p.wPos + Len(s) + 1
      BY <1>1
    <3> QED BY <3>1, <3>2, <3>3 DEF UnicodeEnds
  <2>3. ASSUME NEW n \in UnicodeEnds(p), n < Len(s)
        PROVE  FALSE
    <3>1. n \in Nat /\ n % 2 = 0 /\ p.btBuf[p.wPos + n] = 0 /\ p.btBuf[p.wPos + n + 1] = 0
      BY <2>1 DEF UnicodeEnds
    <3>2. n + 1 \in 1 .. Len(s) - 1 /\ (n + 1) % 2 = 1
      <4>1. ASSUME NEW a \in Nat, NEW b \in Nat, a % 2 = 0, a < 2 * b
            PROVE  a + 1 \in 1 .. 2 * b - 1 /\ (a + 1) % 2 = 1
        BY <4>1
      <4> QED BY <2>3, <3>1, <4>1
    <3>3. s[n + 1] = 0
      BY <1>1, <1>2, <2>3, <3>1
    <3>4. s[n + 1 + 1] = 0
      <4>1. n + 1 \in Nat /\ n + 1 < Len(s) /\ p.wPos + (n + 1) = p.wPos + n + 1
        <5>1. ASSUME NEW a \in Nat, NEW b \in Nat, NEW c \in Nat, a + 1 \in 1 .. b - 1
              PROVE  a + 1 \in Nat /\ a + 1 < b /\ c + (a + 1) = c + a + 1
          BY <5>1
        <5> QED BY <1>1, <3>1, <3>2, <5>1
      <4>2. p.btBuf[p.wPos + (n + 1)] = s[n + 1 + 1]
        BY <1>1, <1>2, <4>1
      <4> QED BY <3>1, <4>1, <4>2
    <3> QED BY <3>2, <3>3, <3>4
  <2>4. \A n \in UnicodeEnds(p) : Len(s) <= n
    BY <1>1, <2>1, <2>3
  <2> QED BY <2>1, <2>2, <2>4, FirstIs
<1>4. [k \in 1 .. Len(s) |-> p.btBuf[p.wPos + k - 1]] = s
  <2>1. ASSUME NEW j \in 1 .. Len(s)
        PROVE  p.btBuf[p.wPos + j - 1] = s[j]
    <3>1. j - 1 \in Nat /\ j - 1 < Len(s) /\ p.wPos + (j - 1) = p.wPos + j - 1 /\ j - 1 + 1 = j
      BY <1>1
    <3>2. p.btBuf[p.wPos + (j - 1)] = s[j - 1 + 1]
      BY <1>1, <1>2, <3>1
    <3> QED BY <3>1, <3>2
  <2> QED BY <2>1
<1>5. (p.wPos + Len(s) + 2) % WordValues = p.wPos + Len(s) + 2
  <2>1. p.wPos + Len(s) + 2 \in Nat
    BY <1>1
  <2> QED BY <1>1, <2>1, WordRange
<1> QED BY <1>3, <1>4, <1>5 DEF PackReadUnicode, PackReadBefore

-----------------------------------------------------------------------------
(***************************************************************************)
(* Whole packets: any number of items, written one behind the other and    *)
(* read in the same order.  w[i] and r[i] are the packets of writer and    *)
(* reader after the i-th item.                                             *)
(***************************************************************************)
Item == [kind : {"bytes", "text", "unicode"}, s : Seq(Octet)]

End(x) == IF x.kind = "bytes" THEN <<>> ELSE IF x.kind = "text" THEN <<0>> ELSE <<0, 0>>
Bytes(x) == x.s \o End(x)

\* A string has no end inside it.
Endless(x) ==
  /\ x.kind = "text" => \A j \in DOMAIN x.s : x.s[j] # 0
  /\ x.kind = "unicode" =>
       /\ \E half \in Nat : Len(x.s) = 2 * half
       /\ \A j \in 1 .. Len(x.s) - 1 : j % 2 = 1 => x.s[j] # 0 \/ x.s[j + 1] # 0

WriteItem(p, x) ==
  IF x.kind = "bytes" THEN PackWrite(p, x.s)
  ELSE IF x.kind = "text" THEN PackWriteString(p, x.s) ELSE PackWriteUnicode(p, x.s)

ReadItem(p, x) ==
  IF x.kind = "bytes" THEN PackRead(p, Len(x.s))
  ELSE IF x.kind = "text" THEN PackReadString(p) ELSE PackReadUnicode(p)

\* The writer, each of whose calls succeeds.
Writes(items, w) ==
  /\ w[0] \in TzhPacket /\ w[0].wPos = 0
  /\ \A i \in 1 .. Len(items) : /\ Fits(w[i - 1], items[i].s)
                                /\ w[i] = WriteItem(w[i - 1], items[i])

\* The reader, of memory that begins with what was written.
Reads(items, written, r) ==
  /\ r[0] \in TzhPacket /\ r[0].wPos = 0
  /\ \A i \in 0 .. written.wPos - 1 : r[0].btBuf[i] = written.btBuf[i]
  /\ \A i \in 1 .. Len(items) : r[i] = ReadItem(r[i - 1], items[i]).left

\* Induction on a set of numbers.
LEMMA AllNumbers ==
  ASSUME NEW T, 0 \in T, \A n \in Nat : n \in T => n + 1 \in T
  PROVE  Nat \subseteq T
<1> SUFFICES ASSUME ~(Nat \subseteq T) PROVE FALSE
  OBVIOUS
<1> DEFINE Missing == Nat \ T
<1>1. IsWellFoundedOn(OpToRel(<, Nat), Nat) /\ Missing \subseteq Nat /\ Missing # {}
  BY NatLessThanWellFounded
<1>2. PICK x \in Missing : \A y \in Missing : ~(<<y, x>> \in OpToRel(<, Nat))
  <2> HIDE DEF Missing
  <2> QED BY <1>1, WFMin
<1>3. x \in Nat /\ x \notin T /\ \A y \in Nat : y < x => y \in T
  BY <1>2 DEF OpToRel
<1>4. x # 0 /\ x - 1 \in Nat /\ x - 1 < x
  BY <1>3
<1> QED BY <1>3, <1>4

\* An item's bytes.
LEMMA ItemBytes ==
  ASSUME NEW x \in Item
  PROVE  /\ x.s \in Seq(Octet) /\ Bytes(x) \in Seq(Octet) /\ Len(x.s) \in Nat
         /\ Len(Bytes(x)) = Len(x.s) + Len(End(x)) /\ Len(End(x)) \in 0 .. 2
<1>1. x.s \in Seq(Octet) /\ Len(x.s) \in Nat
  BY DEF Item
<1>2. End(x) \in Seq(Octet) /\ Len(End(x)) \in 0 .. 2
  BY PacketAssumption DEF End
<1> HIDE DEF End
<1> QED BY <1>1, <1>2 DEF Bytes

\* Writing an item puts its bytes there.
LEMMA WriteItemPuts ==
  ASSUME NEW p, NEW x \in Item, Fits(p, x.s)
  PROVE  WriteItem(p, x) = Put(p, Bytes(x))
<1>1. x.kind \in {"bytes", "text", "unicode"} /\ x.s \in Seq(Octet)
  BY DEF Item
<1>2. CASE x.kind = "bytes"
  <2>1. x.s \o <<>> = x.s
    BY <1>1
  <2> QED BY <1>2, <2>1 DEF WriteItem, PackWrite, Bytes, End
<1>3. CASE x.kind = "text"
  BY <1>3 DEF WriteItem, PackWriteString, PackWriteText, Bytes, End
<1>4. CASE x.kind = "unicode"
  BY <1>4 DEF WriteItem, PackWriteUnicode, PackWriteText, Bytes, End
<1> QED BY <1>1, <1>2, <1>3, <1>4

\* An item that lies where reading goes on is read.
LEMMA ReadItemReads ==
  ASSUME NEW p \in TzhPacket, NEW x \in Item, Endless(x), Holds(p.btBuf, p.wPos, Bytes(x)),
         p.wPos + Len(x.s) <= PackLength
  PROVE  /\ ReadItem(p, x).got = x.s
         /\ ReadItem(p, x).left = [p EXCEPT !.wPos = p.wPos + Len(Bytes(x))]
<1>1. x.kind \in {"bytes", "text", "unicode"} /\ x.s \in Seq(Octet) /\ Len(x.s) \in Nat /\ p.wPos \in Nat
  BY DEF Item, TzhPacket
<1>2. CASE x.kind = "bytes"
  <2>1. Bytes(x) = x.s
    BY <1>1, <1>2 DEF Bytes, End
  <2> QED BY <1>1, <1>2, <2>1, ReadsWhatIsHeld DEF ReadItem
<1>3. CASE x.kind = "text"
  <2>1. Bytes(x) = x.s \o <<0>> /\ \A j \in DOMAIN x.s : x.s[j] # 0
    BY <1>3 DEF Bytes, End, Endless
  <2>2. Len(Bytes(x)) = Len(x.s) + 1
    <3>1. Len(<<0>>) = 1
      OBVIOUS
    <3> QED BY <1>3, <3>1, ItemBytes DEF End
  <2>3. /\ PackReadString(p).got = x.s
        /\ PackReadString(p).left = [p EXCEPT !.wPos = p.wPos + Len(x.s) + 1]
    BY <1>1, <2>1, ReadsString
  <2> QED BY <1>1, <1>3, <2>2, <2>3 DEF ReadItem
<1>4. CASE x.kind = "unicode"
  <2>1. /\ Bytes(x) = x.s \o <<0, 0>>
        /\ \A j \in 1 .. Len(x.s) - 1 : j % 2 = 1 => x.s[j] # 0 \/ x.s[j + 1] # 0
    BY <1>4 DEF Bytes, End, Endless
  <2>2. PICK half \in Nat : Len(x.s) = 2 * half
    BY <1>4 DEF Endless
  <2>3. Len(Bytes(x)) = Len(x.s) + 2
    BY <1>1, <2>1, PacketAssumption
  <2>4. /\ PackReadUnicode(p).got = x.s
        /\ PackReadUnicode(p).left = [p EXCEPT !.wPos = p.wPos + Len(x.s) + 2]
    BY <1>1, <2>1, <2>2, ReadsUnicode
  <2> QED BY <1>1, <1>4, <2>3, <2>4 DEF ReadItem
<1> QED BY <1>1, <1>2, <1>3, <1>4

\* All items written so far lie one behind the other.
Laid(items, w, j) ==
  /\ w[j] \in TzhPacket /\ w[j].wPos <= PackLength + 2
  /\ \A i \in 1 .. j : /\ Holds(w[j].btBuf, w[i - 1].wPos, Bytes(items[i]))
                       /\ w[i - 1].wPos \in Nat
                       /\ w[i].wPos = w[i - 1].wPos + Len(Bytes(items[i]))
                       /\ w[i].wPos <= w[j].wPos

\* What a later item is written over is none of the earlier ones.
LEMMA LaidOut ==
  ASSUME NEW items \in Seq(Item), NEW w, Writes(items, w)
  PROVE  \A j \in 0 .. Len(items) : Laid(items, w, j)
<1> DEFINE n == Len(items)
           T == {j \in Nat : j <= n => Laid(items, w, j)}
<1>1. n \in Nat /\ PackLength \in Nat
  BY PacketAssumption
<1>2. 0 \in T
  <2>1. Laid(items, w, 0)
    BY <1>1 DEF Laid, Writes
  <2> QED BY <2>1
<1>3. ASSUME NEW j \in Nat, j \in T PROVE j + 1 \in T
  <2> SUFFICES ASSUME j + 1 <= n PROVE Laid(items, w, j + 1)
    OBVIOUS
  <2> DEFINE k == j + 1
             x == items[k]
             b == Bytes(x)
             p == w[j]
             q == w[k]
  <2>1. k \in 1 .. n /\ k - 1 = j /\ x \in Item /\ Laid(items, w, j)
    BY <1>1, <1>3
  <2>2. Fits(p, x.s) /\ q = WriteItem(p, x)
    <3> HIDE DEF k
    <3> QED BY <2>1 DEF Writes
  <2>3. q = Put(p, b)
    <3> HIDE DEF x, p, q
    <3> QED BY <2>1, <2>2, WriteItemPuts
  <2>4. /\ p \in TzhPacket /\ p.wPos \in Nat
        /\ \A i \in 1 .. j : /\ Holds(p.btBuf, w[i - 1].wPos, Bytes(items[i]))
                             /\ w[i - 1].wPos \in Nat
                             /\ w[i].wPos = w[i - 1].wPos + Len(Bytes(items[i]))
                             /\ w[i].wPos <= p.wPos
    BY <2>1 DEF Laid, TzhPacket
  <2>5. /\ b \in Seq(Octet) /\ Len(b) \in Nat /\ p.wPos + Len(b) <= PackLength + 2
    <3>1. /\ x.s \in Seq(Octet) /\ b \in Seq(Octet) /\ Len(x.s) \in Nat
          /\ Len(b) = Len(x.s) + Len(End(x)) /\ Len(End(x)) \in 0 .. 2
      <4> HIDE DEF x
      <4> QED BY <2>1, ItemBytes
    <3>2. p.wPos + Len(x.s) <= PackLength /\ p.wPos \in Nat
      BY <2>2, <2>4 DEF Fits
    <3> HIDE DEF x, b, p
    <3> DEFINE at == p.wPos
               l == Len(x.s)
               e == Len(End(x))
               m == Len(b)
    <3>3. at \in Nat /\ l \in Nat /\ e \in 0 .. 2 /\ m = l + e /\ at + l <= PackLength
      BY <3>1, <3>2
    <3> HIDE DEF at, l, e, m
    <3>4. m \in Nat /\ at + m <= PackLength + 2
      BY <1>1, <3>3
    <3> QED BY <3>1, <3>4 DEF at, m
  <2> HIDE DEF x, b, p, q, k
  <2>6. q \in TzhPacket /\ Holds(q.btBuf, p.wPos, b) /\ q.wPos = p.wPos + Len(b)
    BY <2>3, <2>4, <2>5, PutIntoPacket, WrittenIsHeld
  <2>7. ASSUME NEW i \in 1 .. k
        PROVE  /\ Holds(q.btBuf, w[i - 1].wPos, Bytes(items[i]))
               /\ w[i - 1].wPos \in Nat
               /\ w[i].wPos = w[i - 1].wPos + Len(Bytes(items[i]))
               /\ w[i].wPos <= q.wPos
    <3>1. CASE i = k
      BY <2>1, <2>4, <2>5, <2>6, <3>1 DEF x, b, p, q
    <3>2. CASE i \in 1 .. j
      <4> DEFINE c == Bytes(items[i])
                 at == w[i - 1].wPos
      <4>1. /\ Holds(p.btBuf, at, c) /\ at \in Nat
            /\ w[i].wPos = at + Len(c) /\ w[i].wPos <= p.wPos
        BY <2>4, <3>2
      <4>2. c \in Seq(Octet) /\ Len(c) \in Nat
        <5>1. items[i] \in Item
          BY <1>1, <2>1, <3>2
        <5> QED BY <5>1, ItemBytes
      <4> HIDE DEF c, at
      <4>3. at + Len(c) <= p.wPos /\ at + Len(c) <= PackLength + 2
        BY <1>1, <2>4, <2>5, <4>1, <4>2
      <4>4. Holds(Put(p, b).btBuf, at, c)
        BY <2>4, <2>5, <4>1, <4>2, <4>3, WrittenStays
      <4>5. w[i].wPos <= q.wPos
        BY <2>4, <2>5, <2>6, <4>1, <4>2
      <4> QED BY <2>3, <4>1, <4>4, <4>5 DEF c, at
    <3>3. i = k \/ i \in 1 .. j
      BY <2>1 DEF k
    <3> QED BY <3>1, <3>2, <3>3
  <2>8. Laid(items, w, k)
    <3>1. w[k] \in TzhPacket /\ w[k].wPos <= PackLength + 2
      BY <2>5, <2>6 DEF q
    <3> QED BY <2>7, <3>1 DEF Laid, q
  <2> QED BY <2>8 DEF k
<1> HIDE DEF T
<1>4. Nat \subseteq T
  BY <1>2, <1>3, AllNumbers
<1> QED BY <1>1, <1>4 DEF T

\* Any number of items, of every kind, come back as they were written, in
\* order, from a packet that has arrived whole: whatever was in the memory of
\* the writer, and whatever lies behind in that of the reader.
THEOREM ItemsComeBack ==
  ASSUME NEW items \in Seq(Item), \A i \in 1 .. Len(items) : Endless(items[i]),
         NEW w, Writes(items, w), NEW r, Reads(items, w[Len(items)], r)
  PROVE  \A i \in 1 .. Len(items) : ReadItem(r[i - 1], items[i]).got = items[i].s
<1> DEFINE n == Len(items)
           last == w[n]
           Back(j) == r[j] = [r[0] EXCEPT !.wPos = w[j].wPos]
           T == {j \in Nat : j <= n => Back(j)}
<1>1. n \in Nat /\ n \in 0 .. n
  OBVIOUS
<1>2. /\ last \in TzhPacket /\ last.wPos <= PackLength + 2 /\ last.wPos \in Nat
      /\ \A i \in 1 .. n : /\ Holds(last.btBuf, w[i - 1].wPos, Bytes(items[i]))
                           /\ w[i - 1].wPos \in Nat
                           /\ w[i].wPos = w[i - 1].wPos + Len(Bytes(items[i]))
                           /\ w[i].wPos <= last.wPos
  BY <1>1, LaidOut DEF Laid, TzhPacket
<1>3. /\ r[0] \in TzhPacket /\ r[0].wPos = 0 /\ w[0].wPos = 0
      /\ \A i \in 0 .. last.wPos - 1 : r[0].btBuf[i] = last.btBuf[i]
      /\ \A i \in 1 .. n : r[i] = ReadItem(r[i - 1], items[i]).left
      /\ \A i \in 1 .. n : Fits(w[i - 1], items[i].s)
  BY DEF Reads, Writes
<1> HIDE DEF last
\* One item, read from where the ones before it end.
<1>4. ASSUME NEW i \in 1 .. n, Back(i - 1)
      PROVE  ReadItem(r[i - 1], items[i]).got = items[i].s /\ Back(i)
  <2> DEFINE x == items[i]
             at == w[i - 1].wPos
             b == Bytes(x)
             p == r[i - 1]
  <2>1. x \in Item /\ Endless(x)
    BY <1>1
  <2>2. /\ Holds(last.btBuf, at, b) /\ at \in Nat /\ w[i].wPos = at + Len(b) /\ w[i].wPos <= last.wPos
        /\ at + Len(x.s) <= PackLength
    BY <1>2, <1>3 DEF Fits
  <2>3. b \in Seq(Octet) /\ Len(b) \in Nat
    <3> HIDE DEF x
    <3> QED BY <2>1, ItemBytes
  <2>4. p = [r[0] EXCEPT !.wPos = at]
    BY <1>4
  <2>5. r[i] = ReadItem(p, x).left
    BY <1>3
  <2>6. PackLength \in Nat /\ PackLength + 2 < WordValues /\ WordValues \in Nat
    BY PacketAssumption
  <2> HIDE DEF x, at, b, p
  <2>7. at \in 0 .. WordValues - 1
    BY <1>2, <2>2, <2>3, <2>6
  <2>8. p \in TzhPacket /\ p.wPos = at /\ p.btBuf = r[0].btBuf
    BY <1>3, <2>4, <2>7 DEF TzhPacket
  <2>9. Holds(p.btBuf, at, b)
    <3>1. ASSUME NEW k \in DOMAIN b PROVE r[0].btBuf[at + k - 1] = b[k]
      <4>1. DOMAIN b = 1 .. Len(b)
        BY <2>3
      <4>2. at + k - 1 \in 0 .. last.wPos - 1
        BY <1>2, <2>2, <2>3, <2>6, <4>1
      <4>3. last.btBuf[at + k - 1] = b[k]
        BY <2>2 DEF Holds
      <4> QED BY <1>3, <4>2, <4>3
    <3> QED BY <2>8, <3>1 DEF Holds
  <2>10. ReadItem(p, x).got = x.s /\ ReadItem(p, x).left = [p EXCEPT !.wPos = at + Len(b)]
    <3>1. p.wPos + Len(x.s) <= PackLength
      BY <2>2, <2>8
    <3> QED BY <2>1, <2>8, <2>9, <3>1, ReadItemReads DEF b
  <2>11. [p EXCEPT !.wPos = at + Len(b)] = [r[0] EXCEPT !.wPos = w[i].wPos]
    BY <1>3, <2>2, <2>4 DEF TzhPacket
  <2> QED BY <2>5, <2>10, <2>11 DEF x, p
<1>5. 0 \in T
  <2>1. Back(0)
    BY <1>3 DEF TzhPacket
  <2> QED BY <2>1
<1>6. ASSUME NEW j \in Nat, j \in T PROVE j + 1 \in T
  <2> SUFFICES ASSUME j + 1 <= n PROVE Back(j + 1)
    OBVIOUS
  <2> DEFINE i == j + 1
  <2>1. i \in 1 .. n /\ i - 1 = j /\ Back(j)
    BY <1>1, <1>6
  <2> HIDE DEF i, Back
  <2>2. Back(i)
    BY <1>4, <2>1
  <2> QED BY <2>2 DEF i
<1> HIDE DEF T
<1>7. Nat \subseteq T
  BY <1>5, <1>6, AllNumbers
<1>8. ASSUME NEW i \in 1 .. n PROVE ReadItem(r[i - 1], items[i]).got = items[i].s
  <2>1. i - 1 \in Nat /\ i - 1 <= n
    BY <1>1
  <2>2. Back(i - 1)
    BY <1>7, <2>1 DEF T
  <2> QED BY <1>4, <2>2
<1> QED BY <1>8
=============================================================================
