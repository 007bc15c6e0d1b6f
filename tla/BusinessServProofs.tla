-------------------------- MODULE BusinessServProofs --------------------------
(***************************************************************************)
(* BusinessServ keeps its table and its connections consistent, for any    *)
(* number of connections and ids, any limit, cache and frames.             *)
(***************************************************************************)
EXTENDS BusinessServ, FiniteSetTheorems, SequenceTheorems, TLAPS

(***************************************************************************)
(* The bytes of a cache.                                                   *)
(***************************************************************************)

\* A part of a sequence of cells.
LEMMA PartTyped ==
  ASSUME NEW s \in Seq(Cell), NEW m \in Nat \ {0}, NEW n \in 0 .. Len(s)
  PROVE  /\ SubSeq(s, m, n) \in Seq(Cell)
         /\ Len(SubSeq(s, m, n)) <= Len(s)
<1>1. Len(s) \in Nat /\ \A i \in m .. n : s[i] \in Cell
  BY LenProperties
<1>2. /\ SubSeq(s, m, n) \in Seq(Cell)
      /\ Len(SubSeq(s, m, n)) = IF m <= n THEN n - m + 1 ELSE 0
  BY <1>1, SubSeqProperties
<1> QED BY <1>1, <1>2

\* What is left from the first flag on is no longer than before.
LEMMA FromFlagTyped ==
  ASSUME NEW s \in Seq(Cell)
  PROVE  FromFlag(s) \in Seq(Cell) /\ Len(FromFlag(s)) <= Len(s)
<1> DEFINE before == {i \in 1 .. Len(s) : \A j \in 1 .. i : s[j] # Flag}
<1>1. Len(s) \in Nat
  BY LenProperties
<1>2. IsFiniteSet(1 .. Len(s))
  BY <1>1, FS_Interval
<1>3. IsFiniteSet(before)
  BY <1>2, FS_Subset
<1>4. Cardinality(before) \in Nat
  BY <1>3, FS_CardinalityType
<1> HIDE DEF before
<1>5. Cardinality(before) + 1 \in Nat \ {0} /\ Len(s) \in 0 .. Len(s)
  BY <1>1, <1>4
<1>6. FromFlag(s) = SubSeq(s, Cardinality(before) + 1, Len(s))
  BY DEF FromFlag, before
<1> QED BY <1>5, <1>6, PartTyped

\* Moving by one byte keeps the length.
LEMMA ShiftedTyped ==
  ASSUME NEW s \in Seq(Cell), Len(s) > 0
  PROVE  Shifted(s) \in Seq(Cell) /\ Len(Shifted(s)) = Len(s)
<1>1. Len(s) \in Nat /\ s # <<>>
  BY LenProperties, EmptySeq
<1>2. Tail(s) \in Seq(Cell) /\ Len(Tail(s)) = Len(s) - 1
  BY <1>1, HeadTailProperties
<1>3. s[Len(s)] \in Cell
  BY <1>1, LenProperties
<1> QED BY <1>1, <1>2, <1>3, AppendProperties DEF Shifted

\* Behind a frame there are no more bytes than before.
LEMMA BehindTyped ==
  ASSUME NEW s \in Seq(Cell), Whole(s)
  PROVE  Behind(s) \in Seq(Cell) /\ Len(Behind(s)) <= Len(s)
<1>1. Len(s) \in Nat /\ HeadLen = 3
  BY LenProperties, ServAssumption
<1>2. 2 \in 1 .. Len(s)
  BY <1>1 DEF Whole
<1>3. s[2] \in Nat
  BY <1>2, LenProperties, ServAssumption
<1>4. HeadLen + s[2] + 1 \in Nat \ {0} /\ Len(s) \in 0 .. Len(s)
  BY <1>1, <1>3
<1> QED BY <1>4, PartTyped DEF Behind

\* What arrives never fills the cache: it is stored, or the cache is emptied.
LEMMA StoreTyped ==
  ASSUME NEW s \in Seq(Cell), NEW t \in Seq(Cell)
  PROVE  Store(s, t) \in Cached
<1>1. s \o t \in Seq(Cell) /\ Len(s \o t) = Len(s) + Len(t)
  BY ConcatProperties
<1>2. <<>> \in Seq(Cell) /\ Len(<<>>) = 0 /\ 0 < CacheSize
  BY ServAssumption
<1> QED BY <1>1, <1>2 DEF Store, Cached

\* What a peer sends is a sequence of cells.
LEMMA SentTyped ==
  ASSUME NEW s \in {Frame(b) : b \in Bodies} \cup Junk
  PROVE  s \in Seq(Cell)
BY ServAssumption DEF Frame

(***************************************************************************)
(* The invariant.  Besides the properties it says where the thread may be, *)
(* that an entry belongs to a connection of its id, and that only a        *)
(* connection that was open is being closed or has something to send.      *)
(***************************************************************************)
Known == {"Connected", "Closed"}

Placed ==
  /\ at.step \in {"read", "parse", "cleanup"} =>
       at.con \in Conns /\ state[at.con] = "Connected"
  /\ at.step = "parse" => Used(context[at.con])

Owner ==
  \A id \in UsedIds :
    table[id].con # NULL =>
      context[table[id].con] = id /\ state[table[id].con] \in Known

Queued == \A c \in tasks : state[c] \in Known

Unsent == \A c \in Conns : output[c] => state[c] = "Connected"

Entries == Registered /\ Marked /\ Limit /\ Owner /\ Queued
Inv == TypeOK /\ Entries /\ OutputMoves /\ Placed /\ Unsent

(***************************************************************************)
(* Parts of the steps.                                                     *)
(***************************************************************************)

\* An entry is not the absence of one.
LEMMA EntryIsUsed == \A e \in Entry : e # NoEntry
<1>1. ASSUME NEW e \in Entry PROVE e # NoEntry
  <2>1. DOMAIN e = {"con", "isFree", "silence", "cache"}
    BY DEF Entry
  <2>2. DOMAIN NoEntry = {"con"}
    BY DEF NoEntry
  <2>3. "cache" # "con"
    OBVIOUS
  <2> QED BY <2>1, <2>2, <2>3
<1> QED BY <1>1

\* The fields of an entry of the table.
LEMMA EntryFields ==
  ASSUME TypeOK, NEW id \in Ids, Used(id)
  PROVE  table[id] \in Entry
BY DEF TypeOK, Used

\* The table entry by entry: what a step does that changes neither the
\* connection nor the mark of an entry.
SameEntries ==
  \A id \in Ids :
    /\ Used(id)' <=> Used(id)
    /\ Used(id) => table'[id].con = table[id].con /\ table'[id].isFree = table[id].isFree

\* A step that leaves the entries and those who own them keeps Entries.
LEMMA EntriesKept ==
  ASSUME TypeOK, Entries, SameEntries, UNCHANGED <<context, tasks>>,
         \A c \in Conns : state'[c] = state[c] \/ (state[c] \notin Known /\ state'[c] \notin Known)
  PROVE  Entries'
<1>1. context \in [Conns -> Ids] /\ tasks \subseteq Conns
  BY DEF TypeOK, ConnTyped
<1>2. \A id \in Ids : Used(id) => table[id].con \in Conns \cup {NULL}
  BY EntryFields DEF Entry
<1>3. \A id \in Ids : Used(id)' <=> Used(id)
  BY DEF SameEntries
<1>4. UsedIds' = UsedIds
  BY <1>3 DEF UsedIds
<1>5. \A id \in UsedIds : table'[id].con = table[id].con /\ table'[id].isFree = table[id].isFree
  BY DEF SameEntries, UsedIds
<1>6. \A c \in Conns : /\ state'[c] = "Connected" <=> state[c] = "Connected"
                       /\ state'[c] = "Closed" <=> state[c] = "Closed"
  BY DEF Known
<1>7. Registered'
  BY <1>1, <1>3, <1>5, <1>6 DEF Entries, Registered, UsedIds
<1>8. Marked'
  BY <1>1, <1>2, <1>4, <1>5, <1>6 DEF Entries, Marked, UsedIds
<1>9. Limit'
  <2>1. {id \in UsedIds : table[id].con # NULL}' = {id \in UsedIds : table[id].con # NULL}
    BY <1>4, <1>5
  <2> QED BY <2>1 DEF Entries, Limit
<1>10. Owner'
  BY <1>1, <1>2, <1>4, <1>5, <1>6 DEF Entries, Owner, UsedIds, Known
<1>11. Queued'
  BY <1>1, <1>6 DEF Entries, Queued, Known
<1> QED BY <1>7, <1>8, <1>9, <1>10, <1>11 DEF Entries

\* Only the cache and the silence of one entry change.
LEMMA OneEntryKept ==
  ASSUME TypeOK, NEW id \in Ids, Used(id), NEW e \in Entry,
         e.con = table[id].con, e.isFree = table[id].isFree,
         table' = [table EXCEPT ![id] = e]
  PROVE  SameEntries /\ table' \in [Ids -> Entry \cup {NoEntry}]
<1>1. table \in [Ids -> Entry \cup {NoEntry}]
  BY DEF TypeOK
<1>2. \A i \in Ids : table'[i] = IF i = id THEN e ELSE table[i]
  BY <1>1
<1>3. e # NoEntry
  BY EntryIsUsed
<1>4. \A i \in Ids : Used(i)' <=> Used(i)
  BY <1>2, <1>3 DEF Used
<1> QED BY <1>1, <1>2, <1>4 DEF SameEntries

\* A send that does not find a broken connection leaves no bytes behind
\* without asking for a write event.
LEMMA SendKeeps ==
  ASSUME NEW c \in Conns, NEW enabled \in [Conns -> BOOLEAN],
         output \in [Conns -> BOOLEAN], Send(c, enabled)
  PROVE  /\ output' \in [Conns -> BOOLEAN] /\ writeEnabled' \in [Conns -> BOOLEAN]
         /\ \A d \in Conns \ {c} : output'[d] = output[d] /\ writeEnabled'[d] = enabled[d]
         /\ ~Alive(c) => output'[c] = output[c]
         /\ Alive(c) /\ output'[c] /\ peer[c] # "reset" /\ (output[c] => enabled[c])
              => writeEnabled'[c]
BY DEF Send

\* The same when the table does not change.
LEMMA EntriesUntouched ==
  ASSUME TypeOK, Entries, UNCHANGED <<table, context, tasks>>,
         \A c \in Conns : state'[c] = state[c] \/ (state[c] \notin Known /\ state'[c] \notin Known)
  PROVE  Entries'
<1>1. SameEntries
  BY DEF SameEntries, Used
<1> QED BY <1>1, EntriesKept

\* The end of connections: those of cs that were open are closed, and hold
\* nothing.
LEMMA CleanUpKeeps ==
  ASSUME ConnTyped, Unsent, OutputMoves, NEW cs, CleanUp(cs)
  PROVE  /\ state' \in [Conns -> States] /\ writeEnabled' \in [Conns -> BOOLEAN]
         /\ output' \in [Conns -> BOOLEAN] /\ stream' \in [Conns -> Seq(Cell)]
         /\ peer' \in [Conns -> {"open", "eof", "reset"}]
         /\ \A c \in Conns \ cs : state'[c] = state[c]
         /\ \A c \in Conns : state[c] = "Closed" => state'[c] = "Closed"
         /\ \A c \in Conns \cap cs : state[c] = "Connected" => state'[c] = "Closed"
         /\ \A c \in Conns \cap cs : state[c] = "Handshaking" => state'[c] = "Failed"
         /\ Unsent' /\ OutputMoves'
<1>1. <<>> \in Seq(Cell)
  OBVIOUS
<1>2. /\ \A c \in Conns : state'[c] = IF ~(c \in cs /\ Alive(c)) THEN state[c]
                 ELSE IF state[c] = "Handshaking" THEN "Failed" ELSE "Closed"
      /\ \A c \in Conns : output'[c] <=> output[c] /\ ~(c \in cs /\ Alive(c))
      /\ \A c \in Conns : writeEnabled'[c] <=> writeEnabled[c] /\ ~(c \in cs /\ Alive(c))
      /\ \A c \in Conns : peer'[c] = IF c \in cs /\ Alive(c) THEN "open" ELSE peer[c]
  BY DEF CleanUp
<1>3. /\ state' \in [Conns -> States] /\ writeEnabled' \in [Conns -> BOOLEAN]
      /\ output' \in [Conns -> BOOLEAN] /\ stream' \in [Conns -> Seq(Cell)]
      /\ peer' \in [Conns -> {"open", "eof", "reset"}]
  BY <1>1 DEF CleanUp, ConnTyped, States
<1>4. /\ \A c \in Conns \ cs : state'[c] = state[c]
      /\ \A c \in Conns : state[c] = "Closed" => state'[c] = "Closed"
      /\ \A c \in Conns \cap cs : state[c] = "Connected" => state'[c] = "Closed"
      /\ \A c \in Conns \cap cs : state[c] = "Handshaking" => state'[c] = "Failed"
  BY <1>2 DEF Alive
<1>5. Unsent'
  <2>1. ASSUME NEW c \in Conns, output'[c] PROVE state'[c] = "Connected"
    <3>1. output[c] /\ ~(c \in cs /\ Alive(c))
      BY <1>2, <2>1
    <3> QED BY <1>2, <3>1 DEF Unsent
  <2> QED BY <2>1 DEF Unsent
<1>6. OutputMoves'
  <2>1. ASSUME NEW c \in Conns, Alive(c)', output'[c], peer'[c] # "reset"
        PROVE  writeEnabled'[c]
    <3>1. ~(c \in cs /\ Alive(c)) /\ output[c]
      BY <1>2, <2>1
    <3>2. Alive(c) /\ peer[c] # "reset"
      BY <1>2, <2>1, <3>1 DEF Alive
    <3> QED BY <1>2, <3>1, <3>2 DEF OutputMoves
  <2> QED BY <2>1 DEF OutputMoves
<1> QED BY <1>3, <1>4, <1>5, <1>6

\* The marks that businessState leaves.
LEMMA MarkFreeKeeps ==
  ASSUME TypeOK, NEW cs, MarkFree(cs)
  PROVE  /\ table' \in [Ids -> Entry \cup {NoEntry}]
         /\ \A id \in Ids :
              /\ Used(id)' <=> Used(id)
              /\ Used(id) => table'[id].con = table[id].con
              /\ Used(id) => (table'[id].isFree <=>
                                table[id].isFree \/ \E c \in cs : context[c] = id)
<1>1. \A id \in Ids :
        table'[id] = IF Used(id) /\ \E c \in cs : context[c] = id
                       THEN [table[id] EXCEPT !.isFree = TRUE] ELSE table[id]
  BY DEF MarkFree
<1>2. ASSUME NEW id \in Ids, Used(id)
      PROVE  /\ [table[id] EXCEPT !.isFree = TRUE] \in Entry
             /\ [table[id] EXCEPT !.isFree = TRUE].con = table[id].con
             /\ [table[id] EXCEPT !.isFree = TRUE].isFree = TRUE
             /\ table[id].isFree \in BOOLEAN
  <2>1. table[id] \in Entry
    BY <1>2, EntryFields
  <2> QED BY <2>1 DEF Entry
<1>3. table \in [Ids -> Entry \cup {NoEntry}]
  BY DEF TypeOK
<1>4. \A id \in Ids : table'[id] \in Entry \cup {NoEntry}
  BY <1>1, <1>2, <1>3
<1>5. table' \in [Ids -> Entry \cup {NoEntry}]
  BY <1>4 DEF MarkFree
<1>6. \A id \in Ids : Used(id)' <=> Used(id)
  <2>1. ASSUME NEW id \in Ids, Used(id) PROVE table'[id] # NoEntry
    <3>1. CASE \E c \in cs : context[c] = id
      BY <1>1, <1>2, <2>1, <3>1, EntryIsUsed
    <3>2. CASE ~ \E c \in cs : context[c] = id
      BY <1>1, <2>1, <3>2 DEF Used
    <3> QED BY <3>1, <3>2
  <2> QED BY <1>1, <2>1 DEF Used
<1>7. ASSUME NEW id \in Ids, Used(id)
      PROVE  /\ table'[id].con = table[id].con
             /\ table'[id].isFree <=> table[id].isFree \/ \E c \in cs : context[c] = id
  <2>1. CASE \E c \in cs : context[c] = id
    BY <1>1, <1>2, <1>7, <2>1
  <2>2. CASE ~ \E c \in cs : context[c] = id
    BY <1>1, <1>7, <2>2
  <2> QED BY <2>1, <2>2
<1> QED BY <1>5, <1>6, <1>7

\* Connections end: their entries are marked, and nothing is forgotten.
LEMMA ClosingKeeps ==
  ASSUME TypeOK, Entries, Unsent, OutputMoves, NEW cs \in SUBSET Conns,
         \A c \in cs : state[c] \in Known,
         CleanUp(cs), MarkFree({c \in cs : state[c] = "Connected"}), UNCHANGED context,
         tasks' \subseteq tasks, tasks \subseteq tasks' \cup cs
  PROVE  Entries'
<1> DEFINE open == {c \in cs : state[c] = "Connected"}
<1>1. context \in [Conns -> Ids] /\ tasks \subseteq Conns /\ ConnTyped
  BY DEF TypeOK, ConnTyped
<1>2. /\ \A c \in Conns \ cs : state'[c] = state[c]
      /\ \A c \in Conns : state[c] = "Closed" => state'[c] = "Closed"
      /\ \A c \in cs : state'[c] = "Closed"
  BY <1>1, CleanUpKeeps DEF Known
<1>3. \A id \in Ids :
        /\ Used(id)' <=> Used(id)
        /\ Used(id) => table'[id].con = table[id].con
        /\ Used(id) => (table'[id].isFree <=>
                          table[id].isFree \/ \E c \in open : context[c] = id)
  BY MarkFreeKeeps
<1>4. UsedIds' = UsedIds
  BY <1>3 DEF UsedIds
<1>5. \A id \in UsedIds : table'[id].con = table[id].con /\ table[id].con \in Conns \cup {NULL}
  BY <1>3, EntryFields DEF UsedIds, Entry
<1>6. Registered'
  <2>1. ASSUME NEW c \in Conns, state'[c] = "Connected", c \notin tasks'
        PROVE  Used(context[c])' /\ table'[context[c]].con = c
    <3>1. c \notin cs /\ state[c] = "Connected" /\ c \notin tasks /\ context[c] \in Ids
      BY <1>1, <1>2, <2>1
    <3> QED BY <1>3, <3>1 DEF Entries, Registered
  <2> QED BY <2>1 DEF Registered
<1>7. Marked'
  <2>1. ASSUME NEW id \in UsedIds, table[id].con # NULL
        PROVE  LET c == table[id].con IN
               /\ state'[c] = "Closed" => table'[id].isFree
               /\ table'[id].isFree =>
                    \/ state'[c] = "Closed"
                    \/ \E d \in Conns \ {c} : state'[d] = "Closed" /\ context[d] = id
    <3> DEFINE c == table[id].con
    <3>1. c \in Conns /\ context[c] = id /\ id \in Ids /\ Used(id) /\ state[c] \in Known
      BY <1>5, <2>1 DEF Entries, Owner, UsedIds
    <3>2. /\ state[c] = "Closed" => table[id].isFree
          /\ table[id].isFree =>
               \/ state[c] = "Closed"
               \/ \E d \in Conns \ {c} : state[d] = "Closed" /\ context[d] = id
      BY <2>1 DEF Entries, Marked
    <3> HIDE DEF c
    <3>3. state'[c] = "Closed" => table'[id].isFree
      BY <1>2, <1>3, <3>1, <3>2 DEF Known
    <3>4. table'[id].isFree =>
            \/ state'[c] = "Closed"
            \/ \E d \in Conns \ {c} : state'[d] = "Closed" /\ context[d] = id
      <4> DEFINE Ended == \/ state'[c] = "Closed"
                         \/ \E d \in Conns \ {c} : state'[d] = "Closed" /\ context[d] = id
      <4>1. ASSUME table[id].isFree PROVE Ended
        BY <1>2, <3>1, <3>2, <4>1
      <4>2. ASSUME NEW e \in open, context[e] = id PROVE Ended
        <5>1. e \in cs /\ e \in Conns
          OBVIOUS
        <5>2. state'[e] = "Closed"
          BY <1>2, <5>1
        <5>3. e # c => \E d \in Conns \ {c} : state'[d] = "Closed" /\ context[d] = id
          BY <4>2, <5>1, <5>2
        <5> QED BY <5>2, <5>3
      <4>3. table'[id].isFree => table[id].isFree \/ \E d \in open : context[d] = id
        BY <1>3, <3>1
      <4> HIDE DEF open, Ended
      <4>4. table'[id].isFree => Ended
        BY <4>1, <4>2, <4>3
      <4> QED BY <4>4 DEF Ended
    <3> QED BY <3>3, <3>4 DEF c
  <2> QED BY <1>4, <1>5, <2>1 DEF Marked
<1>8. Limit'
  <2>1. {id \in UsedIds : table[id].con # NULL}' = {id \in UsedIds : table[id].con # NULL}
    BY <1>4, <1>5
  <2> QED BY <2>1 DEF Entries, Limit
<1>9. Owner'
  <2>1. ASSUME NEW id \in UsedIds, table[id].con # NULL
        PROVE  context[table[id].con] = id /\ state'[table[id].con] \in Known
    BY <1>2, <1>5, <2>1 DEF Entries, Owner, Known
  <2> QED BY <1>4, <1>5, <2>1 DEF Owner
<1>10. Queued'
  BY <1>1, <1>2 DEF Entries, Queued, Known
<1> QED BY <1>6, <1>7, <1>8, <1>9, <1>10 DEF Entries

(***************************************************************************)
(* The steps.                                                              *)
(***************************************************************************)

\* Where the thread is does not matter while it polls.
LEMMA PollPlaced == at' = Poll => Placed'
BY DEF Placed, Poll

\* After a crash nothing is at work.
LEMMA CrashPlaced == at' = Crashed => Placed'
BY DEF Placed, Poll, Crashed

\* Waiting and having crashed are places the thread can be.
LEMMA PollTyped == Poll \in Where /\ Crashed \in Where
BY DEF Poll, Crashed, Where

\* The thread at work for a connection.
LEMMA DoingTyped ==
  ASSUME NEW step \in {"read", "parse", "cleanup"}, NEW c \in Conns, NEW ending \in BOOLEAN
  PROVE  /\ Doing(step, c, ending) \in Where
         /\ Doing(step, c, ending).step = step /\ Doing(step, c, ending).con = c
         /\ Doing(step, c, ending).ending = ending
BY DEF Doing, Where

\* What the peers do: neither the table nor a connection's standing changes.
LEMMA PeerSteps ==
  ASSUME Inv, NEW c \in Conns, PeerBegins(c) \/ PeerGoesOn(c) \/ PeerLeaves(c)
  PROVE  Inv'
<1>1. /\ TypeOK /\ ConnTyped /\ Entries /\ OutputMoves /\ Unsent
      /\ UNCHANGED <<table, context, clientID, at, state, output, writeEnabled, tasks, woken>>
      /\ at = Poll
  BY DEF Inv, TypeOK, PeerBegins, PeerGoesOn, PeerLeaves, SendPart, Arrive, PeerCloses, PeerResets, serv
<1>2. /\ stream' \in [Conns -> Seq(Cell)] /\ rest' \in [Conns -> Seq(Cell)] /\ sends' \in Nat
      /\ peer' \in [Conns -> {"open", "eof", "reset"}]
      /\ \A d \in Conns : peer'[d] # "reset" => peer[d] # "reset"
  <2>1. CASE PeerBegins(c)
    <3>1. PICK s \in {Frame(b) : b \in Bodies} \cup Junk : SendPart(c, s)
      BY <2>1 DEF PeerBegins
    <3>2. s \in Seq(Cell) /\ Len(s) \in Nat
      BY SentTyped, LenProperties
    <3>3. PICK n \in {i \in Cuts : i < Len(s)} \cup {Len(s)} :
            /\ Arrive(c, SubSeq(s, 1, n))
            /\ rest' = [rest EXCEPT ![c] = SubSeq(s, n + 1, Len(s))]
      BY <3>1 DEF SendPart
    <3>4. n \in 0 .. Len(s) /\ n + 1 \in Nat \ {0} /\ 1 \in Nat \ {0} /\ Len(s) \in 0 .. Len(s)
      BY <3>2, ServAssumption
    <3>5. SubSeq(s, 1, n) \in Seq(Cell) /\ SubSeq(s, n + 1, Len(s)) \in Seq(Cell)
      BY <3>2, <3>4, PartTyped
    <3>6. stream[c] \o SubSeq(s, 1, n) \in Seq(Cell)
      BY <1>1, <3>5, ConcatProperties DEF ConnTyped
    <3>7. sends' \in Nat
      BY <1>1, <2>1 DEF PeerBegins, TypeOK
    <3> QED BY <1>1, <3>3, <3>5, <3>6, <3>7 DEF Arrive, ConnTyped, TypeOK
  <2>2. CASE PeerGoesOn(c)
    <3>1. stream[c] \o rest[c] \in Seq(Cell) /\ <<>> \in Seq(Cell)
      BY <1>1, ConcatProperties DEF ConnTyped, TypeOK
    <3> QED BY <1>1, <2>2, <3>1 DEF PeerGoesOn, Arrive, ConnTyped, TypeOK
  <2>3. CASE PeerLeaves(c)
    <3>1. <<>> \in Seq(Cell)
      OBVIOUS
    <3> QED BY <1>1, <2>3, <3>1 DEF PeerLeaves, PeerCloses, PeerResets, serv, ConnTyped, TypeOK
  <2> QED BY <2>1, <2>2, <2>3
<1>3. TypeOK'
  BY <1>1, <1>2 DEF TypeOK, ConnTyped
<1>4. Entries'
  BY <1>1, EntriesUntouched
<1>5. OutputMoves' /\ Unsent'
  BY <1>1, <1>2 DEF OutputMoves, Unsent, Alive
<1>6. Placed'
  BY <1>1, PollPlaced
<1> QED BY <1>3, <1>4, <1>5, <1>6 DEF Inv

\* Time passes: only silences grow, to one more than Keep.
LEMMA TickStep ==
  ASSUME Inv, Tick
  PROVE  Inv'
<1>1. /\ TypeOK /\ ConnTyped /\ Entries /\ OutputMoves /\ Unsent
      /\ UNCHANGED <<conn, context, clientID, at, rest, sends>>
      /\ at = Poll
  BY DEF Inv, TypeOK, Tick
<1>2. \A id \in Ids : table'[id] =
        IF Used(id) /\ table[id].silence <= Keep
          THEN [table[id] EXCEPT !.silence = @ + 1] ELSE table[id]
  BY DEF Tick
<1>3. ASSUME NEW id \in Ids
      PROVE  /\ table'[id] \in Entry \cup {NoEntry}
             /\ Used(id)' <=> Used(id)
             /\ Used(id) => /\ table'[id].con = table[id].con
                            /\ table'[id].isFree = table[id].isFree
  <2>1. CASE Used(id) /\ table[id].silence <= Keep
    <3>1. table[id] \in Entry
      BY <1>1, <2>1, EntryFields
    <3>2. table[id].silence \in 0 .. Keep + 1 /\ Keep \in Nat
      BY <3>1, ServAssumption DEF Entry
    <3>3. table[id].silence + 1 \in 0 .. Keep + 1
      BY <2>1, <3>2
    <3> DEFINE e == [table[id] EXCEPT !.silence = table[id].silence + 1]
    <3>4. e \in Entry /\ e.con = table[id].con /\ e.isFree = table[id].isFree
      BY <3>1, <3>3 DEF Entry
    <3>5. table'[id] = e
      BY <1>2, <2>1
    <3> HIDE DEF e
    <3>6. table'[id] # NoEntry
      BY <3>4, <3>5, EntryIsUsed
    <3> QED BY <2>1, <3>4, <3>5, <3>6 DEF Used
  <2>2. CASE ~(Used(id) /\ table[id].silence <= Keep)
    <3>1. table'[id] = table[id]
      BY <1>2, <2>2
    <3> QED BY <1>1, <3>1 DEF TypeOK, Used
  <2> QED BY <2>1, <2>2
<1>4. table' \in [Ids -> Entry \cup {NoEntry}]
  BY <1>3 DEF Tick
<1>5. SameEntries
  BY <1>3 DEF SameEntries
<1>6. TypeOK'
  BY <1>1, <1>4 DEF TypeOK, ConnTyped, conn
<1>7. Entries'
  BY <1>1, <1>5, EntriesKept DEF conn
<1>8. OutputMoves' /\ Unsent'
  BY <1>1 DEF OutputMoves, Unsent, Alive, conn
<1>9. Placed'
  BY <1>1, PollPlaced
<1> QED BY <1>6, <1>7, <1>8, <1>9 DEF Inv

\* A connection is accepted, its handshake fails, or what it holds is written.
LEMMA ChannelSteps ==
  ASSUME Inv, NEW c \in Conns, Accept(c) \/ HandshakeReset(c) \/ Write(c)
  PROVE  Inv'
<1>1. /\ TypeOK /\ ConnTyped /\ Entries /\ OutputMoves /\ Unsent
      /\ UNCHANGED <<table, context, clientID, at, tasks, woken, sends>>
      /\ at = Poll
  BY DEF Inv, TypeOK, Accept, Attach, HandshakeReset, HandshakeFails, Write, WriteEvent, serv
<1>2. /\ state' \in [Conns -> States] /\ writeEnabled' \in [Conns -> BOOLEAN]
      /\ output' \in [Conns -> BOOLEAN] /\ stream' \in [Conns -> Seq(Cell)]
      /\ peer' \in [Conns -> {"open", "eof", "reset"}] /\ rest' \in [Conns -> Seq(Cell)]
      /\ \A d \in Conns :
           state'[d] = state[d] \/ (state[d] \notin Known /\ state'[d] \notin Known)
      /\ Unsent' /\ OutputMoves'
  <2>1. CASE Accept(c)
    <3>1. /\ state[c] = "Invalid"
          /\ state' = [state EXCEPT ![c] = "Handshaking"]
          /\ writeEnabled' = [writeEnabled EXCEPT ![c] = TRUE]
          /\ UNCHANGED <<output, stream, peer, rest>>
      BY <2>1 DEF Accept, Attach, serv
    <3>2. Unsent' /\ OutputMoves'
      BY <1>1, <3>1 DEF ConnTyped, Unsent, OutputMoves, Alive
    <3> QED BY <1>1, <3>1, <3>2 DEF ConnTyped, TypeOK, Known, States
  <2>2. CASE HandshakeReset(c)
    <3>1. state[c] = "Handshaking" /\ CleanUp({c}) /\ rest' = [rest EXCEPT ![c] = <<>>]
      BY <2>2 DEF HandshakeReset, HandshakeFails
    <3>2. /\ state' \in [Conns -> States] /\ writeEnabled' \in [Conns -> BOOLEAN]
          /\ output' \in [Conns -> BOOLEAN] /\ stream' \in [Conns -> Seq(Cell)]
          /\ peer' \in [Conns -> {"open", "eof", "reset"}]
          /\ \A d \in Conns \ {c} : state'[d] = state[d]
          /\ state'[c] = "Failed"
          /\ Unsent' /\ OutputMoves'
      BY <1>1, <3>1, CleanUpKeeps
    <3>3. <<>> \in Seq(Cell)
      OBVIOUS
    <3> QED BY <1>1, <3>1, <3>2, <3>3 DEF TypeOK, Known
  <2>3. CASE Write(c)
    <3>1. UNCHANGED <<state, stream, peer, rest>>
      BY <2>3 DEF Write, WriteEvent, serv
    <3>2. /\ writeEnabled' \in [Conns -> BOOLEAN] /\ output' \in [Conns -> BOOLEAN]
          /\ \A d \in Conns : output'[d] => output[d] /\ writeEnabled'[d] = writeEnabled[d]
      BY <1>1, <2>3 DEF Write, WriteEvent, ConnTyped
    <3>3. Unsent' /\ OutputMoves'
      BY <1>1, <3>1, <3>2 DEF Unsent, OutputMoves, Alive
    <3> QED BY <1>1, <3>1, <3>2, <3>3 DEF ConnTyped, TypeOK
  <2> QED BY <2>1, <2>2, <2>3
<1>3. TypeOK'
  BY <1>1, <1>2 DEF TypeOK, ConnTyped
<1>4. Entries'
  BY <1>1, <1>2, EntriesUntouched
<1>5. Placed'
  BY <1>1, PollPlaced
<1> QED BY <1>2, <1>3, <1>4, <1>5 DEF Inv

\* The table with a new entry.
LEMMA NewEntry ==
  ASSUME TypeOK, NEW id \in Ids, ~Used(id), NEW e \in Entry,
         table' = [table EXCEPT ![id] = e]
  PROVE  /\ table' \in [Ids -> Entry \cup {NoEntry}]
         /\ table'[id] = e /\ UsedIds' = UsedIds \cup {id} /\ id \notin UsedIds
         /\ Used(id)' /\ \A i \in Ids : Used(i) => Used(i)'
         /\ \A i \in UsedIds : i \in Ids /\ table'[i] = table[i]
<1>1. table \in [Ids -> Entry \cup {NoEntry}]
  BY DEF TypeOK
<1>2. \A i \in Ids : table'[i] = IF i = id THEN e ELSE table[i]
  BY <1>1
<1>3. e # NoEntry
  BY EntryIsUsed
<1>4. \A i \in Ids : Used(i)' <=> Used(i) \/ i = id
  BY <1>2, <1>3 DEF Used
<1>5. id \notin UsedIds /\ UsedIds' = UsedIds \cup {id}
  BY <1>4 DEF UsedIds
<1> QED BY <1>1, <1>2, <1>4, <1>5 DEF UsedIds

\* The limit counts no more than the entries there are.
LEMMA UsedCounted ==
  ASSUME NEW S \in SUBSET Ids
  PROVE  /\ IsFiniteSet(S) /\ Cardinality(S) \in Nat
         /\ \A T \in SUBSET S : Cardinality(T) <= Cardinality(S)
         /\ \A x \in Ids \ S : Cardinality(S \cup {x}) = Cardinality(S) + 1
<1>1. IsFiniteSet(Ids)
  BY ServAssumption
<1>2. IsFiniteSet(S)
  BY <1>1, FS_Subset
<1> QED BY <1>2, FS_Subset, FS_CardinalityType, FS_AddElement

\* A connection is refused: it is closed without having been in the table.
LEMMA RefuseKeeps ==
  ASSUME TypeOK, Entries, NEW c \in Conns, state[c] = "Handshaking",
         state' = [state EXCEPT ![c] = "Connected"], Refuse(c)
  PROVE  Entries'
<1>1. context \in [Conns -> Ids] /\ state \in [Conns -> States] /\ tasks \subseteq Conns
  BY DEF TypeOK, ConnTyped
<1>2. tasks' = tasks \cup {c} /\ UNCHANGED <<table, context>>
  BY DEF Refuse, CloseTasks, Alive
<1>3. state'[c] = "Connected" /\ \A d \in Conns \ {c} : state'[d] = state[d]
  BY <1>1
<1>4. UsedIds' = UsedIds /\ \A id \in Ids : Used(id)' <=> Used(id)
  BY <1>2 DEF UsedIds, Used
<1>5. \A id \in UsedIds : table[id].con # NULL =>
        table[id].con \in Conns \ {c} /\ context[table[id].con] = id
  BY EntryFields DEF Entries, Owner, UsedIds, Known, Entry
<1>6. Registered'
  BY <1>1, <1>2, <1>3, <1>4 DEF Entries, Registered
<1>7. Marked'
  <2>1. ASSUME NEW id \in UsedIds, table[id].con # NULL
        PROVE  LET e == table[id].con IN
               /\ state'[e] = "Closed" => table[id].isFree
               /\ table[id].isFree =>
                    \/ state'[e] = "Closed"
                    \/ \E d \in Conns \ {e} : state'[d] = "Closed" /\ context[d] = id
    <3> DEFINE e == table[id].con
    <3>1. /\ state[e] = "Closed" => table[id].isFree
          /\ table[id].isFree =>
               \/ state[e] = "Closed"
               \/ \E d \in Conns \ {e} : state[d] = "Closed" /\ context[d] = id
      BY <2>1 DEF Entries, Marked
    <3>2. e \in Conns /\ state'[e] = state[e]
      BY <1>3, <1>5, <2>1
    <3> HIDE DEF e
    <3>3. \A d \in Conns : state[d] = "Closed" => state'[d] = "Closed"
      BY <1>3
    <3> QED BY <3>1, <3>2, <3>3 DEF e
  <2> QED BY <1>2, <1>4, <2>1 DEF Marked
<1>8. Limit'
  <2>1. {id \in UsedIds : table[id].con # NULL}' = {id \in UsedIds : table[id].con # NULL}
    BY <1>2, <1>4
  <2> QED BY <2>1 DEF Entries, Limit
<1>9. Owner'
  BY <1>2, <1>3, <1>4, <1>5 DEF Entries, Owner, Known
<1>10. Queued'
  BY <1>1, <1>2, <1>3 DEF Entries, Queued, Known
<1> QED BY <1>6, <1>7, <1>8, <1>9, <1>10 DEF Entries

\* A connection is registered under an id that nobody in the table has.
LEMMA RegisterKeeps ==
  ASSUME TypeOK, Entries, NEW c \in Conns, state[c] = "Handshaking",
         state' = [state EXCEPT ![c] = "Connected"], Register(c)
  PROVE  /\ Entries' /\ table' \in [Ids -> Entry \cup {NoEntry}]
         /\ context' \in [Conns -> Ids] /\ clientID' \in Ids
<1>1. /\ context \in [Conns -> Ids] /\ state \in [Conns -> States] /\ tasks \subseteq Conns
  BY DEF TypeOK, ConnTyped
<1>2. PICK id \in Ids : /\ NewId(id) /\ clientID' = id
                        /\ context' = [context EXCEPT ![c] = id]
                        /\ table' = [table EXCEPT ![id] = Fresh(c)]
  BY DEF Register
<1>3. Fresh(c) \in Entry /\ Fresh(c).con = c /\ Fresh(c).isFree = FALSE
  <2>1. 0 \in 0 .. Keep + 1 /\ <<>> \in Cached /\ c # NULL
    BY ServAssumption DEF Cached
  <2> QED BY <2>1 DEF Fresh, Entry
<1>4. ~Used(id)
  BY <1>2 DEF NewId
<1>5. /\ table' \in [Ids -> Entry \cup {NoEntry}]
      /\ table'[id] = Fresh(c) /\ UsedIds' = UsedIds \cup {id} /\ id \notin UsedIds
      /\ Used(id)' /\ \A i \in Ids : Used(i) => Used(i)'
      /\ \A i \in UsedIds : i \in Ids /\ table'[i] = table[i]
  BY <1>2, <1>3, <1>4, NewEntry
<1>6. /\ state'[c] = "Connected" /\ \A d \in Conns \ {c} : state'[d] = state[d]
      /\ context'[c] = id /\ \A d \in Conns \ {c} : context'[d] = context[d]
      /\ UNCHANGED tasks
  BY <1>1, <1>2 DEF Register
<1>7. \A i \in UsedIds : table[i].con # NULL =>
        /\ table[i].con \in Conns \ {c} /\ context[table[i].con] = i
        /\ state[table[i].con] \in Known
  BY EntryFields DEF Entries, Owner, UsedIds, Known, Entry
<1>8. Registered'
  <2>1. ASSUME NEW d \in Conns \ {c}, state'[d] = "Connected", d \notin tasks'
        PROVE  table'[context'[d]] # NoEntry /\ table'[context'[d]].con = d
    <3>1. Used(context[d]) /\ table[context[d]].con = d /\ context[d] \in Ids
      BY <1>1, <1>6, <2>1 DEF Entries, Registered
    <3>2. context'[d] = context[d] /\ context[d] \in UsedIds
      BY <1>6, <3>1 DEF UsedIds
    <3> QED BY <1>5, <3>1, <3>2 DEF Used
  <2>2. table'[context'[c]] # NoEntry /\ table'[context'[c]].con = c
    BY <1>3, <1>5, <1>6, EntryIsUsed
  <2> QED BY <2>1, <2>2 DEF Registered, Used
<1>9. Marked'
  <2>1. ASSUME NEW i \in UsedIds, table[i].con # NULL
        PROVE  LET e == table[i].con IN
               /\ state'[e] = "Closed" => table[i].isFree
               /\ table[i].isFree =>
                    \/ state'[e] = "Closed"
                    \/ \E d \in Conns \ {e} : state'[d] = "Closed" /\ context'[d] = i
    <3> DEFINE e == table[i].con
    <3>1. /\ state[e] = "Closed" => table[i].isFree
          /\ table[i].isFree =>
               \/ state[e] = "Closed"
               \/ \E d \in Conns \ {e} : state[d] = "Closed" /\ context[d] = i
      BY <2>1 DEF Entries, Marked
    <3>2. e \in Conns /\ state'[e] = state[e]
      BY <1>6, <1>7, <2>1
    <3> HIDE DEF e
    <3>3. \A d \in Conns : state[d] = "Closed" => state'[d] = "Closed" /\ context'[d] = context[d]
      BY <1>6
    <3> QED BY <3>1, <3>2, <3>3 DEF e
  <2> QED BY <1>3, <1>5, <1>6, <2>1 DEF Marked
<1>10. Limit'
  <2> DEFINE held == {i \in UsedIds' : table'[i].con # NULL}
  <2>1. UsedIds \in SUBSET Ids /\ Cardinality(UsedIds) <= MaxServ /\ MaxServ \in Nat
    BY ServAssumption DEF UsedIds, Register
  <2>2. Cardinality(UsedIds \cup {id}) = Cardinality(UsedIds) + 1 /\ Cardinality(UsedIds) \in Nat
    BY <1>5, <2>1, UsedCounted
  <2>3. held \in SUBSET (UsedIds \cup {id}) /\ UsedIds \cup {id} \in SUBSET Ids
    BY <1>5, <2>1
  <2> HIDE DEF held
  <2>4. Cardinality(held) <= Cardinality(UsedIds \cup {id}) /\ Cardinality(held) \in Nat
    <3>1. held \in SUBSET Ids
      BY <2>3
    <3> QED BY <2>3, <3>1, UsedCounted
  <2>5. Cardinality(held) <= MaxServ + 1
    BY <2>1, <2>2, <2>4
  <2> QED BY <2>5 DEF Limit, held
<1>11. Owner'
  BY <1>3, <1>5, <1>6, <1>7 DEF Owner, Known
<1>12. Queued'
  BY <1>1, <1>6 DEF Entries, Queued, Known
<1>13. Entries'
  BY <1>8, <1>9, <1>10, <1>11, <1>12 DEF Entries
<1> QED BY <1>1, <1>2, <1>5, <1>13

\* The end of a handshake, with the state callback.
LEMMA HandshakeStep ==
  ASSUME Inv, NEW c \in Conns, Handshake(c)
  PROVE  Inv'
<1>1. /\ TypeOK /\ ConnTyped /\ Entries /\ OutputMoves /\ Unsent
      /\ UNCHANGED <<woken, stream, peer, rest, sends>>
      /\ state[c] = "Handshaking" /\ state' = [state EXCEPT ![c] = "Connected"]
  BY DEF Inv, TypeOK, Handshake
<1>2. /\ state' \in [Conns -> States] /\ state'[c] = "Connected"
      /\ \A d \in Conns \ {c} : state'[d] = state[d]
  BY <1>1 DEF ConnTyped, States
<1>3. ~output[c] /\ Alive(c)
  BY <1>1 DEF Unsent, Alive
<1>4. /\ Entries' /\ table' \in [Ids -> Entry \cup {NoEntry}]
      /\ context' \in [Conns -> Ids] /\ clientID' \in Ids /\ tasks' \subseteq Conns
      /\ output' \in [Conns -> BOOLEAN] /\ writeEnabled' \in [Conns -> BOOLEAN]
      /\ \A d \in Conns \ {c} : output'[d] = output[d] /\ writeEnabled'[d] = writeEnabled[d]
      /\ output'[c] /\ peer[c] # "reset" => writeEnabled'[c]
  <2>1. CASE Refuse(c)
    <3>1. Entries'
      BY <1>1, <2>1, RefuseKeeps
    <3> QED BY <1>1, <1>3, <2>1, <3>1 DEF Refuse, CloseTasks, TypeOK, ConnTyped
  <2>2. CASE Register(c)
    <3>1. /\ Entries' /\ table' \in [Ids -> Entry \cup {NoEntry}]
          /\ context' \in [Conns -> Ids] /\ clientID' \in Ids
      BY <1>1, <2>2, RegisterKeeps
    <3> DEFINE enabled == [writeEnabled EXCEPT ![c] = FALSE]
    <3>2. enabled \in [Conns -> BOOLEAN] /\ output \in [Conns -> BOOLEAN]
          /\ \A d \in Conns \ {c} : enabled[d] = writeEnabled[d]
      BY <1>1 DEF ConnTyped
    <3>3. Send(c, enabled) /\ UNCHANGED tasks
      BY <2>2 DEF Register
    <3> HIDE DEF enabled
    <3>4. /\ output' \in [Conns -> BOOLEAN] /\ writeEnabled' \in [Conns -> BOOLEAN]
          /\ \A d \in Conns \ {c} : output'[d] = output[d] /\ writeEnabled'[d] = enabled[d]
          /\ Alive(c) /\ output'[c] /\ peer[c] # "reset" /\ (output[c] => enabled[c])
               => writeEnabled'[c]
      BY <3>2, <3>3, SendKeeps
    <3> QED BY <1>1, <1>3, <3>1, <3>2, <3>3, <3>4 DEF ConnTyped
  <2> QED BY <2>1, <2>2 DEF Handshake
<1>5. at' \in Where /\ Placed'
  <2>1. CASE Readable(c)
    <3>1. at' = Doing("read", c, FALSE)
      BY <2>1 DEF Handshake
    <3>2. at' \in Where /\ at'.step = "read" /\ at'.con = c
      BY <3>1, DoingTyped
    <3> QED BY <1>2, <3>2 DEF Placed
  <2>2. CASE ~Readable(c)
    <3>1. at' = Poll
      BY <2>2 DEF Handshake
    <3> QED BY <3>1, PollPlaced, PollTyped
  <2> QED BY <2>1, <2>2
<1>6. TypeOK'
  BY <1>1, <1>2, <1>4, <1>5 DEF TypeOK, ConnTyped
<1>7. OutputMoves'
  <2>1. ASSUME NEW d \in Conns, Alive(d)', output'[d], peer'[d] # "reset"
        PROVE  writeEnabled'[d]
    <3>1. CASE d = c
      BY <1>1, <1>4, <2>1, <3>1
    <3>2. CASE d # c
      BY <1>1, <1>2, <1>4, <2>1, <3>2 DEF OutputMoves, Alive
    <3> QED BY <3>1, <3>2
  <2> QED BY <2>1 DEF OutputMoves
<1>8. Unsent'
  BY <1>1, <1>2, <1>4 DEF Unsent
<1> QED BY <1>4, <1>5, <1>6, <1>7, <1>8 DEF Inv

\* An entry that operator[] makes belongs to nobody.
LEMMA MadeKeeps ==
  ASSUME TypeOK, Entries, NEW id \in Ids, ~Used(id), NEW e \in Entry, e.con = NULL,
         table' = [table EXCEPT ![id] = e], UNCHANGED <<state, context, tasks>>
  PROVE  Entries'
<1>1. /\ table'[id] = e /\ UsedIds' = UsedIds \cup {id} /\ id \notin UsedIds
      /\ \A i \in Ids : Used(i) => Used(i)'
      /\ \A i \in UsedIds : i \in Ids /\ table'[i] = table[i]
  BY NewEntry
<1>2. context \in [Conns -> Ids]
  BY DEF TypeOK
<1>3. Registered'
  BY <1>1, <1>2 DEF Entries, Registered, UsedIds
<1>4. Marked'
  BY <1>1 DEF Entries, Marked
<1>5. Limit'
  <2>1. {i \in UsedIds : table[i].con # NULL}' = {i \in UsedIds : table[i].con # NULL}
    BY <1>1
  <2> QED BY <2>1 DEF Entries, Limit
<1>6. Owner'
  BY <1>1 DEF Entries, Owner
<1>7. Queued'
  BY DEF Entries, Queued
<1> QED BY <1>3, <1>4, <1>5, <1>6, <1>7 DEF Entries

\* What is read goes into the entry of the connection's id, which is made when
\* there is none.
LEMMA ReadStep ==
  ASSUME Inv, NEW c \in Conns, Read(c)
  PROVE  Inv'
<1>1. /\ TypeOK /\ ConnTyped /\ Entries /\ OutputMoves /\ Unsent /\ Placed
      /\ UNCHANGED <<state, writeEnabled, output, tasks, woken, peer, context, clientID, rest, sends>>
      /\ stream' = [stream EXCEPT ![c] = <<>>]
  BY DEF Inv, TypeOK, Read
<1>2. state[c] = "Connected"
  BY <1>1 DEF Read, Placed
<1>3. stream' \in [Conns -> Seq(Cell)] /\ stream[c] \in Seq(Cell) /\ context[c] \in Ids
  <2>1. <<>> \in Seq(Cell)
    OBVIOUS
  <2> QED BY <1>1, <2>1 DEF ConnTyped, TypeOK
<1>4. CASE stream[c] # <<>>
  <2> DEFINE id == context[c]
  <2>1. ReadEntry(c) /\ at' = Doing("parse", c, peer[c] # "open")
    BY <1>4 DEF Read
  <2>2. at' \in Where /\ at'.step = "parse" /\ at'.con = c
    <3>1. (peer[c] # "open") \in BOOLEAN
      OBVIOUS
    <3> QED BY <2>1, <3>1, DoingTyped
  <2>3. /\ table' \in [Ids -> Entry \cup {NoEntry}] /\ Entries' /\ Used(context[c])'
    <3>1. CASE Used(id)
      <4> DEFINE new == Store(table[id].cache, stream[c])
                 e == [table[id] EXCEPT !.cache = new]
      <4>1. table[id] \in Entry /\ table[id].cache \in Seq(Cell)
        BY <1>1, <1>3, <3>1, EntryFields DEF Entry, Cached
      <4>2. new \in Cached
        BY <1>3, <4>1, StoreTyped
      <4> HIDE DEF new
      <4>3. e \in Entry /\ e.con = table[id].con /\ e.isFree = table[id].isFree
        BY <4>1, <4>2 DEF Entry
      <4>4. table' = [table EXCEPT ![id] = e]
        BY <2>1, <3>1 DEF ReadEntry, new
      <4> HIDE DEF e, id
      <4>5. SameEntries /\ table' \in [Ids -> Entry \cup {NoEntry}]
        BY <1>1, <1>3, <3>1, <4>3, <4>4, OneEntryKept DEF id
      <4>6. Entries'
        BY <1>1, <4>5, EntriesKept
      <4> QED BY <1>1, <1>3, <3>1, <4>5, <4>6 DEF SameEntries, id, Used
    <3>2. CASE ~Used(id)
      <4>1. PICK free \in BOOLEAN :
              table' = [table EXCEPT ![id] =
                [Made(free) EXCEPT !.cache = Store(<<>>, stream[c])]]
        BY <2>1, <3>2 DEF ReadEntry
      <4> DEFINE new == Store(<<>>, stream[c])
                 e == [Made(free) EXCEPT !.cache = new]
      <4>2. new \in Cached
        <5>1. <<>> \in Seq(Cell)
          OBVIOUS
        <5> QED BY <1>3, <5>1, StoreTyped
      <4> HIDE DEF new
      <4>3. Keep + 1 \in 0 .. Keep + 1
        BY ServAssumption
      <4>4. e \in Entry /\ e.con = NULL
        BY <4>2, <4>3 DEF Entry, Made
      <4>5. table' = [table EXCEPT ![id] = e]
        BY <4>1 DEF new
      <4> HIDE DEF e, id
      <4>6. Entries'
        BY <1>1, <1>3, <3>2, <4>4, <4>5, MadeKeeps DEF id
      <4>7. table' \in [Ids -> Entry \cup {NoEntry}] /\ Used(id)'
        BY <1>1, <1>3, <3>2, <4>4, <4>5, NewEntry DEF id
      <4> QED BY <1>1, <4>6, <4>7 DEF id, Used
    <3> QED BY <3>1, <3>2
  <2>4. Placed'
    BY <1>1, <1>2, <2>2, <2>3 DEF Placed, Used
  <2>5. TypeOK'
    BY <1>1, <1>3, <2>2, <2>3 DEF TypeOK, ConnTyped
  <2>6. OutputMoves' /\ Unsent'
    BY <1>1 DEF OutputMoves, Unsent, Alive
  <2> QED BY <2>3, <2>4, <2>5, <2>6 DEF Inv
<1>5. CASE stream[c] = <<>>
  <2>1. UNCHANGED table /\ at' = Doing("cleanup", c, FALSE)
    BY <1>5 DEF Read
  <2>2. at' \in Where /\ at'.step = "cleanup" /\ at'.con = c
    BY <2>1, DoingTyped
  <2>3. Entries'
    BY <1>1, <2>1, EntriesUntouched
  <2>4. Placed'
    BY <1>1, <1>2, <2>2 DEF Placed
  <2>5. TypeOK'
    BY <1>1, <1>3, <2>1, <2>2 DEF TypeOK, ConnTyped
  <2>6. OutputMoves' /\ Unsent'
    BY <1>1 DEF OutputMoves, Unsent, Alive
  <2> QED BY <2>3, <2>4, <2>5, <2>6 DEF Inv
<1> QED BY <1>4, <1>5

\* The cache of an entry changes while its connection is parsed.
LEMMA SetCacheKeeps ==
  ASSUME TypeOK, Entries, NEW c \in Conns, Used(context[c]), NEW s \in Seq(Cell),
         Len(s) <= Len(Cache(c)), SetCache(c, s), UNCHANGED <<state, context, tasks>>
  PROVE  /\ Entries' /\ table' \in [Ids -> Entry \cup {NoEntry}]
         /\ Used(context[c])'
<1> DEFINE id == context[c]
           e == [table[id] EXCEPT !.cache = s]
<1>1. id \in Ids
  BY DEF TypeOK
<1>2. table[id] \in Entry /\ table[id].cache \in Seq(Cell) /\ Len(table[id].cache) < CacheSize
  BY <1>1, EntryFields DEF Entry, Cached
<1>3. s \in Cached
  <2>1. Len(s) \in Nat /\ Len(table[id].cache) \in Nat /\ CacheSize \in Nat
    BY <1>2, LenProperties, ServAssumption
  <2> QED BY <1>2, <2>1 DEF Cached, Cache
<1>4. e \in Entry /\ e.con = table[id].con /\ e.isFree = table[id].isFree
  BY <1>2, <1>3 DEF Entry
<1>5. table' = [table EXCEPT ![id] = e]
  BY DEF SetCache
<1> HIDE DEF e, id
<1>6. SameEntries /\ table' \in [Ids -> Entry \cup {NoEntry}]
  BY <1>1, <1>4, <1>5, OneEntryKept DEF id
<1>7. Entries'
  BY <1>6, EntriesKept
<1> QED BY <1>1, <1>6, <1>7 DEF SameEntries, id, Used

\* What a turn of the loop works on.
LEMMA ParsingFacts ==
  ASSUME Inv, NEW c \in Conns, Parsing(c)
  PROVE  /\ state[c] = "Connected" /\ Used(context[c]) /\ context[c] \in Ids
         /\ table[context[c]] \in Entry /\ Cache(c) \in Seq(Cell)
         /\ FromFlag(Cache(c)) \in Seq(Cell) /\ Len(FromFlag(Cache(c))) <= Len(Cache(c))
         /\ Len(Cache(c)) \in Nat /\ Len(FromFlag(Cache(c))) \in Nat
<1>1. state[c] = "Connected" /\ Used(context[c]) /\ context[c] \in Ids
  BY DEF Inv, Placed, Parsing, TypeOK
<1>2. table[context[c]] \in Entry /\ Cache(c) \in Seq(Cell)
  BY <1>1, EntryFields DEF Inv, Entry, Cache, Cached
<1>3. FromFlag(Cache(c)) \in Seq(Cell) /\ Len(FromFlag(Cache(c))) <= Len(Cache(c))
  BY <1>2, FromFlagTyped
<1> QED BY <1>1, <1>2, <1>3, LenProperties

\* The turns of the loop but for a keep-alive: only the cache changes.
LEMMA ParseSteps ==
  ASSUME Inv, NEW c \in Conns, NEW s \in Seq(Cell), Parsing(c), Len(s) <= Len(Cache(c)),
         SetCache(c, s), UNCHANGED <<at, writeEnabled, output, Busy>>
  PROVE  Inv'
<1>1. /\ TypeOK /\ ConnTyped /\ Entries /\ OutputMoves /\ Unsent /\ Placed
      /\ UNCHANGED <<at, writeEnabled, output, state, tasks, woken, stream, peer,
                     context, clientID, rest, sends>>
  BY DEF Inv, TypeOK, Busy
<1>2. Used(context[c]) /\ state[c] = "Connected"
  BY ParsingFacts
<1>3. /\ Entries' /\ table' \in [Ids -> Entry \cup {NoEntry}] /\ Used(context[c])'
  BY <1>1, <1>2, SetCacheKeeps
<1>4. TypeOK'
  BY <1>1, <1>3 DEF TypeOK, ConnTyped
<1>5. Placed'
  BY <1>1, <1>2, <1>3 DEF Placed, Parsing, Used
<1>6. OutputMoves' /\ Unsent'
  BY <1>1 DEF OutputMoves, Unsent, Alive
<1> QED BY <1>3, <1>4, <1>5, <1>6 DEF Inv

\* The loop is left.
LEMMA ParseEndStep ==
  ASSUME Inv, NEW c \in Conns, ParseEnd(c)
  PROVE  Inv'
<1>1. /\ TypeOK /\ ConnTyped /\ Entries /\ OutputMoves /\ Unsent
      /\ UNCHANGED <<writeEnabled, output, table, state, tasks, woken, stream, peer,
                     context, clientID, rest, sends>>
      /\ Parsing(c)
  BY DEF Inv, TypeOK, ParseEnd, Busy
<1>2. state[c] = "Connected"
  BY <1>1, ParsingFacts
<1>3. at' \in Where /\ Placed'
  <2>1. CASE at.ending
    <3>1. at' = Doing("cleanup", c, FALSE)
      BY <2>1 DEF ParseEnd
    <3>2. at' \in Where /\ at'.step = "cleanup" /\ at'.con = c
      BY <3>1, DoingTyped
    <3> QED BY <1>1, <1>2, <3>2 DEF Placed
  <2>2. CASE ~at.ending
    <3>1. at' = Poll
      BY <2>2 DEF ParseEnd
    <3> QED BY <3>1, PollPlaced, PollTyped
  <2> QED BY <2>1, <2>2
<1>4. Entries'
  BY <1>1, EntriesUntouched
<1>5. TypeOK'
  BY <1>1, <1>3 DEF TypeOK, ConnTyped
<1>6. OutputMoves' /\ Unsent'
  BY <1>1 DEF OutputMoves, Unsent, Alive
<1> QED BY <1>3, <1>4, <1>5, <1>6 DEF Inv

\* A keep-alive refreshes the entry and is answered, unless the entry is nobody's.
LEMMA KeepAliveStep ==
  ASSUME Inv, NEW c \in Conns, Parsing(c), Found(Cache(c)), KeepAlive(c), UNCHANGED Busy
  PROVE  Inv'
<1> DEFINE id == context[c]
           s == Behind(FromFlag(Cache(c)))
<1>1. /\ TypeOK /\ ConnTyped /\ Entries /\ OutputMoves /\ Unsent /\ Placed
      /\ UNCHANGED <<state, tasks, woken, stream, peer, context, clientID, rest, sends>>
  BY DEF Inv, TypeOK, Busy
<1>2. /\ state[c] = "Connected" /\ Used(id) /\ id \in Ids /\ table[id] \in Entry
      /\ Cache(c) \in Seq(Cell) /\ Len(Cache(c)) \in Nat
      /\ FromFlag(Cache(c)) \in Seq(Cell) /\ Len(FromFlag(Cache(c))) <= Len(Cache(c))
      /\ Len(FromFlag(Cache(c))) \in Nat
  BY ParsingFacts
<1>3. CASE table[id].con = NULL
  <2>1. at' = Crashed /\ UNCHANGED <<writeEnabled, output, table>>
    BY <1>3 DEF KeepAlive
  <2>2. Entries'
    BY <1>1, <2>1, EntriesUntouched
  <2>3. TypeOK'
    BY <1>1, <2>1, PollTyped DEF TypeOK, ConnTyped
  <2>4. OutputMoves' /\ Unsent'
    BY <1>1, <2>1 DEF OutputMoves, Unsent, Alive
  <2> QED BY <2>1, <2>2, <2>3, <2>4, CrashPlaced DEF Inv
<1>4. CASE table[id].con # NULL
  <2> DEFINE d == table[id].con
             e == [table[id] EXCEPT !.silence = 0, !.cache = s]
  <2>1. d \in Conns /\ state[d] \in Known /\ Send(d, writeEnabled) /\ at' = at
    BY <1>1, <1>2, <1>4 DEF KeepAlive, Entry, Entries, Owner, UsedIds
  <2>2. table' = [table EXCEPT ![id].silence = 0, ![id].cache = Behind(FromFlag(@))]
    BY <1>4 DEF KeepAlive
  <2>3. s \in Seq(Cell) /\ Len(s) <= Len(FromFlag(Cache(c)))
    BY <1>2, BehindTyped DEF Found
  <2>4. s \in Cached
    <3>1. Len(Cache(c)) < CacheSize /\ CacheSize \in Nat
      BY <1>2, ServAssumption DEF Entry, Cached, Cache
    <3>2. Len(s) \in Nat
      BY <2>3, LenProperties
    <3> HIDE DEF s
    <3> QED BY <1>2, <2>3, <3>1, <3>2 DEF Cached
  <2>5. e \in Entry /\ e.con = table[id].con /\ e.isFree = table[id].isFree
    <3>1. 0 \in 0 .. Keep + 1
      BY ServAssumption
    <3> HIDE DEF s
    <3> QED BY <1>2, <2>4, <3>1 DEF Entry
  <2>6. table' = [table EXCEPT ![id] = e]
    BY <1>1, <1>2, <2>2 DEF Cache, TypeOK, Entry
  <2> HIDE DEF e, id, s, d
  <2>7. SameEntries /\ table' \in [Ids -> Entry \cup {NoEntry}]
    BY <1>1, <1>2, <2>5, <2>6, OneEntryKept
  <2>8. Entries'
    BY <1>1, <2>7, EntriesKept
  <2>9. output \in [Conns -> BOOLEAN] /\ writeEnabled \in [Conns -> BOOLEAN]
    BY <1>1 DEF ConnTyped
  <2>10. /\ output' \in [Conns -> BOOLEAN] /\ writeEnabled' \in [Conns -> BOOLEAN]
         /\ \A b \in Conns \ {d} : output'[b] = output[b] /\ writeEnabled'[b] = writeEnabled[b]
         /\ ~Alive(d) => output'[d] = output[d]
         /\ Alive(d) /\ output'[d] /\ peer[d] # "reset" /\ (output[d] => writeEnabled[d])
              => writeEnabled'[d]
    BY <2>1, <2>9, SendKeeps
  <2>11. OutputMoves'
    <3>1. ASSUME NEW b \in Conns, Alive(b), output'[b], peer[b] # "reset"
          PROVE  writeEnabled'[b]
      <4>1. output[b] => writeEnabled[b]
        BY <1>1, <3>1 DEF OutputMoves
      <4>2. CASE b = d
        BY <2>10, <3>1, <4>1, <4>2
      <4>3. CASE b # d
        BY <2>10, <3>1, <4>1, <4>3
      <4> QED BY <4>2, <4>3
    <3> QED BY <1>1, <3>1 DEF OutputMoves, Alive
  <2>12. Unsent'
    <3>1. ASSUME NEW b \in Conns, output'[b] PROVE state[b] = "Connected"
      <4>1. CASE output[b]
        BY <1>1, <4>1 DEF Unsent
      <4>2. CASE ~output[b]
        <5>1. b = d /\ Alive(d)
          BY <2>10, <3>1, <4>2
        <5> QED BY <2>1, <5>1 DEF Alive, Known
      <4> QED BY <4>1, <4>2
    <3> QED BY <1>1, <3>1 DEF Unsent
  <2>13. Placed'
    <3>1. table'[context[c]] # NoEntry
      BY <1>2, <2>7 DEF SameEntries, Used, id
    <3> QED BY <1>1, <1>2, <2>1, <3>1 DEF Placed, Parsing, Used
  <2>14. TypeOK'
    BY <1>1, <2>1, <2>7, <2>10 DEF TypeOK, ConnTyped
  <2> QED BY <2>8, <2>11, <2>12, <2>13, <2>14 DEF Inv
<1> QED BY <1>3, <1>4

\* A turn of the loop of businessRead.
LEMMA ParseStep ==
  ASSUME Inv, NEW c \in Conns, Parse(c)
  PROVE  Inv'
<1>1. CASE ParseEnd(c)
  BY <1>1, ParseEndStep
<1>2. CASE ParseSkip(c)
  <2>1. Parsing(c) /\ SetCache(c, FromFlag(Cache(c))) /\ UNCHANGED <<at, writeEnabled, output, Busy>>
    BY <1>2 DEF ParseSkip
  <2>2. FromFlag(Cache(c)) \in Seq(Cell) /\ Len(FromFlag(Cache(c))) <= Len(Cache(c))
    BY <2>1, ParsingFacts
  <2> QED BY <2>1, <2>2, ParseSteps
<1>3. CASE ParseWrong(c)
  <2> DEFINE t == FromFlag(Cache(c))
  <2>1. /\ Parsing(c) /\ Found(Cache(c)) /\ SetCache(c, Shifted(t))
        /\ UNCHANGED <<at, writeEnabled, output, Busy>>
    BY <1>3 DEF ParseWrong
  <2>2. t \in Seq(Cell) /\ Len(t) <= Len(Cache(c)) /\ Len(t) \in Nat
    BY <2>1, ParsingFacts
  <2>3. Len(t) > 0
    BY <2>1, <2>2, ServAssumption DEF Found, Whole
  <2> HIDE DEF t
  <2>4. Shifted(t) \in Seq(Cell) /\ Len(Shifted(t)) = Len(t)
    BY <2>2, <2>3, ShiftedTyped
  <2>5. Len(Shifted(t)) <= Len(Cache(c))
    BY <2>2, <2>4
  <2> QED BY <2>1, <2>4, <2>5, ParseSteps
<1>4. CASE ParseFrame(c)
  <2>1. Parsing(c) /\ Found(Cache(c)) /\ UNCHANGED Busy /\ (KeepAlive(c) \/ Other(c))
    BY <1>4 DEF ParseFrame
  <2>2. CASE KeepAlive(c)
    BY <2>1, <2>2, KeepAliveStep
  <2>3. CASE Other(c)
    <3> DEFINE t == FromFlag(Cache(c))
    <3>1. SetCache(c, Behind(t)) /\ UNCHANGED <<at, writeEnabled, output>>
      BY <2>3 DEF Other
    <3>2. t \in Seq(Cell) /\ Len(t) <= Len(Cache(c)) /\ Len(t) \in Nat /\ Len(Cache(c)) \in Nat
      BY <2>1, ParsingFacts
    <3>3. Whole(t)
      BY <2>1 DEF Found
    <3> HIDE DEF t
    <3>4. Behind(t) \in Seq(Cell) /\ Len(Behind(t)) <= Len(t)
      BY <3>2, <3>3, BehindTyped
    <3>5. Len(Behind(t)) \in Nat
      BY <3>4, LenProperties
    <3>6. Len(Behind(t)) <= Len(Cache(c))
      BY <3>2, <3>4, <3>5
    <3> QED BY <2>1, <3>1, <3>4, <3>6, ParseSteps
  <2> QED BY <2>1, <2>2, <2>3
<1> QED BY <1>1, <1>2, <1>3, <1>4 DEF Parse

\* cleanup and the state callback.
LEMMA CleanupStep ==
  ASSUME Inv, NEW c \in Conns, Cleanup(c)
  PROVE  Inv'
<1>1. /\ TypeOK /\ ConnTyped /\ Entries /\ OutputMoves /\ Unsent
      /\ UNCHANGED <<tasks, woken, context, clientID, sends>>
      /\ CleanUp({c}) /\ MarkFree({c}) /\ rest' = [rest EXCEPT ![c] = <<>>] /\ at' = Poll
  BY DEF Inv, TypeOK, Cleanup
<1>2. state[c] = "Connected"
  BY DEF Cleanup, Inv, Placed
<1>3. /\ state' \in [Conns -> States] /\ writeEnabled' \in [Conns -> BOOLEAN]
      /\ output' \in [Conns -> BOOLEAN] /\ stream' \in [Conns -> Seq(Cell)]
      /\ peer' \in [Conns -> {"open", "eof", "reset"}]
      /\ Unsent' /\ OutputMoves'
  BY <1>1, CleanUpKeeps
<1>4. table' \in [Ids -> Entry \cup {NoEntry}]
  BY <1>1, MarkFreeKeeps
<1>5. Entries'
  <2>1. {d \in {c} : state[d] = "Connected"} = {c}
    BY <1>2
  <2>2. /\ {c} \in SUBSET Conns /\ \A d \in {c} : state[d] \in Known
        /\ MarkFree({d \in {c} : state[d] = "Connected"})
        /\ tasks' \subseteq tasks /\ tasks \subseteq tasks' \cup {c}
    BY <1>1, <1>2, <2>1 DEF Known
  <2> QED BY <1>1, <2>2, ClosingKeeps
<1>6. rest' \in [Conns -> Seq(Cell)]
  <2>1. <<>> \in Seq(Cell)
    OBVIOUS
  <2> QED BY <1>1, <2>1 DEF TypeOK
<1>7. TypeOK'
  BY <1>1, <1>3, <1>4, <1>6, PollTyped DEF TypeOK, ConnTyped
<1> QED BY <1>1, <1>3, <1>5, <1>7, PollPlaced DEF Inv

\* The queued connections are closed.
LEMMA RunTasksStep ==
  ASSUME Inv, RunTasks
  PROVE  Inv'
<1>1. /\ TypeOK /\ ConnTyped /\ Entries /\ OutputMoves /\ Unsent
      /\ UNCHANGED <<context, clientID, at, sends>> /\ at = Poll
      /\ woken' = FALSE /\ tasks' = {}
      /\ CleanUp(tasks) /\ MarkFree({c \in tasks : state[c] = "Connected"})
      /\ rest' = [c \in Conns |-> IF c \in tasks THEN <<>> ELSE rest[c]]
  BY DEF Inv, TypeOK, RunTasks
<1>2. tasks \in SUBSET Conns /\ \A c \in tasks : state[c] \in Known
  BY <1>1 DEF ConnTyped, Entries, Queued
<1>3. /\ state' \in [Conns -> States] /\ writeEnabled' \in [Conns -> BOOLEAN]
      /\ output' \in [Conns -> BOOLEAN] /\ stream' \in [Conns -> Seq(Cell)]
      /\ peer' \in [Conns -> {"open", "eof", "reset"}]
      /\ Unsent' /\ OutputMoves'
  BY <1>1, CleanUpKeeps
<1>4. table' \in [Ids -> Entry \cup {NoEntry}]
  BY <1>1, MarkFreeKeeps
<1>5. Entries'
  <2>1. tasks' \subseteq tasks /\ tasks \subseteq tasks' \cup tasks
    BY <1>1
  <2> QED BY <1>1, <1>2, <2>1, ClosingKeeps
<1>6. rest' \in [Conns -> Seq(Cell)]
  <2>1. <<>> \in Seq(Cell)
    OBVIOUS
  <2> QED BY <1>1, <2>1 DEF TypeOK
<1>7. TypeOK'
  BY <1>1, <1>3, <1>4, <1>6 DEF TypeOK, ConnTyped
<1>8. Placed'
  BY <1>1, PollPlaced
<1> QED BY <1>3, <1>5, <1>7, <1>8 DEF Inv

\* Entries leave the table, and their connections are queued for closing.
LEMMA TimerStep ==
  ASSUME Inv, Timer
  PROVE  Inv'
<1> DEFINE cons == {table[id].con : id \in {i \in Ids : Leaves(i)}}
<1>1. /\ TypeOK /\ ConnTyped /\ Entries /\ OutputMoves /\ Unsent
      /\ UNCHANGED <<context, clientID, rest, sends>> /\ at = Poll
      /\ context \in [Conns -> Ids] /\ table \in [Ids -> Entry \cup {NoEntry}]
  BY DEF Inv, TypeOK, Timer
<1>2. CASE NULL \in cons
  <2>1. at' = Crashed /\ UNCHANGED <<conn, table>>
    BY <1>2 DEF Timer
  <2>2. Entries'
    BY <1>1, <2>1, EntriesUntouched DEF conn
  <2>3. TypeOK'
    BY <1>1, <2>1, PollTyped DEF TypeOK, ConnTyped, conn
  <2>4. OutputMoves' /\ Unsent'
    BY <1>1, <2>1 DEF OutputMoves, Unsent, Alive, conn
  <2> QED BY <2>1, <2>2, <2>3, <2>4, CrashPlaced DEF Inv
<1>3. CASE NULL \notin cons
  <2>1. /\ tasks' = tasks \cup {c \in cons \cup tasks : Alive(c)}
        /\ output' = [c \in Conns |-> output[c] /\ c \notin cons]
        /\ table' = [id \in Ids |-> IF Leaves(id) THEN NoEntry ELSE table[id]]
        /\ woken' = (tasks' # {})
        /\ UNCHANGED <<at, state, writeEnabled, stream, peer>>
    BY <1>3 DEF Timer, CloseTasks, NextBatch
  <2>2. \A id \in Ids : /\ Leaves(id) => ~Used(id)'
                        /\ ~Leaves(id) => table'[id] = table[id] /\ (Used(id)' <=> Used(id))
    BY <2>1 DEF Used
  <2>3. \A id \in Ids : Leaves(id) => table[id].con \in cons
    OBVIOUS
  <2>4. cons \subseteq Conns /\ \A c \in cons : state[c] \in Known
    <3>1. ASSUME NEW id \in Ids, Leaves(id), table[id].con # NULL
          PROVE  table[id].con \in Conns /\ state[table[id].con] \in Known
      BY <1>1, <3>1, EntryFields DEF Leaves, Entry, Entries, Owner, UsedIds
    <3> QED BY <1>3, <3>1
  <2> HIDE DEF cons
  <2>5. UsedIds' \subseteq UsedIds /\ \A id \in UsedIds' : id \in Ids /\ table'[id] = table[id]
    BY <2>2 DEF UsedIds, Leaves
  <2>6. Registered'
    <3>1. ASSUME NEW c \in Conns, state[c] = "Connected", c \notin tasks'
          PROVE  Used(context[c])' /\ table'[context[c]].con = c
      <4>1. c \notin cons /\ c \notin tasks
        BY <2>1, <3>1 DEF Alive
      <4>2. context[c] \in Ids /\ Used(context[c]) /\ table[context[c]].con = c
        BY <1>1, <3>1, <4>1 DEF Entries, Registered
      <4>3. ~Leaves(context[c])
        BY <2>3, <4>1, <4>2
      <4> QED BY <1>1, <2>2, <4>2, <4>3 DEF Used
    <3> QED BY <1>1, <2>1, <3>1 DEF Registered, Used
  <2>7. Marked'
    <3>1. ASSUME NEW id \in UsedIds', table'[id].con # NULL
          PROVE  LET c == table'[id].con IN
                 /\ state[c] = "Closed" => table'[id].isFree
                 /\ table'[id].isFree =>
                      \/ state[c] = "Closed"
                      \/ \E d \in Conns \ {c} : state[d] = "Closed" /\ context[d] = id
      <4>1. id \in UsedIds /\ table'[id] = table[id]
        BY <2>5
      <4> QED BY <1>1, <3>1, <4>1 DEF Entries, Marked
    <3> QED BY <1>1, <2>1, <3>1 DEF Marked
  <2>8. Owner'
    <3>1. ASSUME NEW id \in UsedIds', table'[id].con # NULL
          PROVE  context[table'[id].con] = id /\ state[table'[id].con] \in Known
      BY <1>1, <2>5, <3>1 DEF Entries, Owner
    <3> QED BY <1>1, <2>1, <3>1 DEF Owner
  <2>9. Limit'
    <3> DEFINE S == {id \in UsedIds : table[id].con # NULL}
    <3>1. {id \in UsedIds : table[id].con # NULL}' \in SUBSET S /\ S \in SUBSET Ids
      BY <2>5 DEF UsedIds
    <3>2. Cardinality({id \in UsedIds : table[id].con # NULL}') <= Cardinality(S)
      BY <3>1, UsedCounted
    <3>3. Cardinality(S) <= MaxServ + 1
      BY <1>1 DEF Entries, Limit
    <3>4. Cardinality(S) \in Nat /\ Cardinality({id \in UsedIds : table[id].con # NULL}') \in Nat
      <4> HIDE DEF S
      <4>1. {id \in UsedIds : table[id].con # NULL}' \in SUBSET Ids
        BY <3>1
      <4> QED BY <3>1, <4>1, UsedCounted
    <3>5. MaxServ \in Nat
      BY ServAssumption
    <3> HIDE DEF S
    <3> QED BY <3>2, <3>3, <3>4, <3>5 DEF Limit
  <2>10. Queued'
    BY <1>1, <2>1, <2>4 DEF Entries, Queued
  <2>11. TypeOK'
    <3>1. table' \in [Ids -> Entry \cup {NoEntry}]
      BY <1>1, <2>1
    <3>2. tasks' \subseteq Conns /\ woken' \in BOOLEAN /\ output' \in [Conns -> BOOLEAN]
      BY <1>1, <2>1, <2>4 DEF ConnTyped
    <3> QED BY <1>1, <2>1, <3>1, <3>2 DEF TypeOK, ConnTyped
  <2>12. OutputMoves' /\ Unsent'
    <3>1. \A c \in Conns : output'[c] => output[c]
      BY <2>1
    <3> QED BY <1>1, <2>1, <3>1 DEF OutputMoves, Unsent, Alive
  <2>13. Placed'
    BY <1>1, <2>1, PollPlaced
  <2> QED BY <2>6, <2>7, <2>8, <2>9, <2>10, <2>11, <2>12, <2>13 DEF Inv, Entries
<1> QED BY <1>2, <1>3

\* A batch ends without the timer, and steps that change nothing.
LEMMA IdleSteps ==
  ASSUME Inv, NoTimer \/ UNCHANGED vars
  PROVE  Inv'
<1>1. /\ TypeOK /\ ConnTyped /\ Entries /\ OutputMoves /\ Unsent /\ Placed
      /\ UNCHANGED <<state, writeEnabled, output, tasks, stream, peer,
                     table, context, clientID, at, rest, sends>>
      /\ woken' \in BOOLEAN
  BY DEF Inv, TypeOK, ConnTyped, NoTimer, NextBatch, vars, conn, serv
<1>2. Entries'
  BY <1>1, EntriesUntouched
<1>3. TypeOK'
  BY <1>1 DEF TypeOK, ConnTyped
<1>4. OutputMoves' /\ Unsent' /\ Placed'
  BY <1>1 DEF OutputMoves, Unsent, Alive, Placed, Used
<1> QED BY <1>2, <1>3, <1>4 DEF Inv

(***************************************************************************)
(* The theorems.                                                           *)
(***************************************************************************)

\* At the start there is no connection and no entry.
LEMMA InvInit == Init => Inv
<1> SUFFICES ASSUME Init PROVE Inv
  OBVIOUS
<1>1. /\ <<>> \in Seq(Cell) /\ 0 \in Ids /\ Poll \in Where /\ 0 \in Nat
      /\ ConnInit /\ at = Poll
  BY ServAssumption, PollTyped DEF Init
<1>2. TypeOK
  BY <1>1 DEF Init, ConnInit, TypeOK, ConnTyped, States
<1>3. UsedIds = {}
  BY DEF Init, UsedIds, Used
<1>4. Limit
  <2>1. {id \in UsedIds : table[id].con # NULL} = {} /\ Cardinality({}) = 0 /\ MaxServ \in Nat
    BY <1>3, FS_EmptySet, ServAssumption
  <2> QED BY <2>1 DEF Limit
<1>5. Entries
  BY <1>1, <1>3, <1>4 DEF Entries, Registered, Marked, Owner, Queued, ConnInit
<1>6. OutputMoves /\ Unsent /\ Placed
  BY <1>1 DEF ConnInit, OutputMoves, Unsent, Placed, Poll
<1> QED BY <1>2, <1>5, <1>6 DEF Inv

\* Every step keeps the invariant.
LEMMA InvNext == Inv /\ [Next]_vars => Inv'
<1> SUFFICES ASSUME Inv, [Next]_vars PROVE Inv'
  OBVIOUS
<1>1. ASSUME NEW c \in Conns, PeerBegins(c) \/ PeerGoesOn(c) \/ PeerLeaves(c) PROVE Inv'
  BY <1>1, PeerSteps
<1>2. ASSUME NEW c \in Conns, Accept(c) \/ HandshakeReset(c) \/ Write(c) PROVE Inv'
  BY <1>2, ChannelSteps
<1>3. ASSUME NEW c \in Conns, Handshake(c) PROVE Inv'
  BY <1>3, HandshakeStep
<1>4. ASSUME NEW c \in Conns, Read(c) PROVE Inv'
  BY <1>4, ReadStep
<1>5. ASSUME NEW c \in Conns, Parse(c) PROVE Inv'
  BY <1>5, ParseStep
<1>6. ASSUME NEW c \in Conns, Cleanup(c) PROVE Inv'
  BY <1>6, CleanupStep
<1>7. CASE RunTasks
  BY <1>7, RunTasksStep
<1>8. CASE Timer
  BY <1>8, TimerStep
<1>9. CASE NoTimer \/ UNCHANGED vars
  BY <1>9, IdleSteps
<1>10. CASE Tick
  BY <1>10, TickStep
<1> QED BY <1>1, <1>2, <1>3, <1>4, <1>5, <1>6, <1>7, <1>8, <1>9, <1>10 DEF Next

\* The invariant holds in every reachable state.
LEMMA InvAlways == Spec => []Inv
BY InvInit, InvNext, PTL DEF Spec

\* Every variable of the server and of its connections keeps its type: a cache
\* is never full (proc.cpp:301-311), an id never outside the table.
THEOREM ServTyped == Spec => []TypeOK
<1>1. Inv => TypeOK
  BY DEF Inv
<1> QED BY <1>1, InvAlways, PTL

\* A connection that stays is in the table under its own id (businessState,
\* proc.cpp:249-287, against the timer, proc.cpp:87-128).
THEOREM EveryConnectionRegistered == Spec => []Registered
<1>1. Inv => Registered
  BY DEF Inv, Entries
<1> QED BY <1>1, InvAlways, PTL

\* An entry is marked free when its connection is closed, and for no other
\* reason than that or the end of an earlier connection with its id
\* (businessState(Closed), proc.cpp:282-285).
THEOREM MarksHaveReasons == Spec => []Marked
<1>1. Inv => Marked
  BY DEF Inv, Entries
<1> QED BY <1>1, InvAlways, PTL

\* The table never has more than MaxServ + 1 connections (proc.cpp:253-257).
THEOREM TableIsLimited == Spec => []Limit
<1>1. Inv => Limit
  BY DEF Inv, Entries
<1> QED BY <1>1, InvAlways, PTL

\* What a connection that is not broken has buffered waits for a write event
\* (isend and handleWrite of TcpConn).
THEOREM OutputIsMoved == Spec => []OutputMoves
<1>1. Inv => OutputMoves
  BY DEF Inv
<1> QED BY <1>1, InvAlways, PTL
=============================================================================
