---------------------------- MODULE MySQLProcProofs ----------------------------
(***************************************************************************)
(* MySQLProc, for any number of threads, statements and ticks: statements  *)
(* are neither lost nor answered twice, callbacks are told the truth,      *)
(* connections are left without results, and nothing happens after the end.*)
(*                                                                         *)
(* The inductive invariant is TypeOK /\ Control /\ Locals for the control  *)
(* points, Conserved for the statements and Counts for the executions.     *)
(***************************************************************************)
EXTENDS MySQLProc, SequenceTheorems, TLAPS

\* The main thread, the flag and the queue.
Control ==
  /\ net = "query" => accepted < MaxJobs
  /\ main = "start" => \A t \in Threads : at[t] = "none"
  /\ main \notin {"start", "run"} => ~using /\ lstSql = <<>>
  /\ main = "gone" => \A t \in Threads : at[t] \notin {"start", "clock", "idle", "lock"}

\* What a thread has at each of its control points.
Locals ==
  \A t \in Threads :
    /\ at[t] \in {"connect", "query", "proc"} <=> sql[t] # NULL
    /\ at[t] = "proc" <=> result[t] # NULL
    /\ at[t] = "connect" => ~db[t].handle
    /\ at[t] # "proc" \/ ~db[t].handle => db[t].res = "null" /\ db[t].unread = <<>>
    /\ db[t].res # "freed"
    /\ db[t].unread # <<>> => ~db[t].unread[Len(db[t].unread)]

\* What is known of the executions of statements that wait, that a thread has,
\* and that were answered.
Counts ==
  /\ \A j \in Jobs : j > accepted - Len(lstSql) => executed[j] = 0
  /\ \A t \in Threads :
       /\ at[t] = "connect" => executed[sql[t]] = 0 /\ tries[t] = Attempts
       /\ at[t] = "query" => executed[sql[t]] + tries[t] <= Attempts
       /\ result[t] = "success" => executed[sql[t]] > 0
       /\ result[t] = "connectFail" => executed[sql[t]] = 0
  /\ AnswersTrue

\* TLC checks this as an invariant.
IInv == TypeOK /\ Control /\ Locals /\ Conserved /\ Counts

-----------------------------------------------------------------------------

\* The bounds are numbers.
LEMMA Bounds == MaxJobs \in Nat /\ MaxTime \in Nat
BY MySQLAssumption

\* NULL is neither a statement nor an outcome.
LEMMA NullIsNone == NULL \notin Jobs /\ NULL \notin Outcomes
BY MySQLAssumption DEF Jobs

\* One more execution.
LEMMA OneMore ==
  ASSUME NEW f \in [Jobs -> 0 .. 3], NEW j \in Jobs, f[j] + 1 \in 0 .. 3
  PROVE  [f EXCEPT ![j] = @ + 1] \in [Jobs -> 0 .. 3]
OBVIOUS

\* The answer of a statement, without its first result.
LEMMA RestOfAnswer ==
  ASSUME NEW a \in Answers
  PROVE  /\ Tail(a) \in Seq(BOOLEAN)
         /\ Tail(a) # <<>> => ~Tail(a)[Len(Tail(a))]
<1>1. a \in Seq(BOOLEAN) /\ a # <<>> /\ ~a[Len(a)]
  BY MySQLAssumption
<1>2. /\ Tail(a) \in Seq(BOOLEAN) /\ Len(Tail(a)) = Len(a) - 1
      /\ \A i \in 1 .. Len(Tail(a)) : Tail(a)[i] = a[i + 1]
  BY <1>1, HeadTailProperties
<1>3. ASSUME Tail(a) # <<>> PROVE ~Tail(a)[Len(Tail(a))]
  <2>1. Len(Tail(a)) \in Nat /\ Len(Tail(a)) # 0
    BY <1>2, <1>3, EmptySeq, LenProperties
  <2>2. Tail(a)[Len(Tail(a))] = a[Len(Tail(a)) + 1] /\ Len(Tail(a)) + 1 = Len(a)
    BY <1>2, <2>1
  <2> QED BY <1>1, <2>2
<1> QED BY <1>2, <1>3

\* freeQueryRes of the answer to a CALL leaves nothing behind.
LEMMA FreedDb ==
  ASSUME NEW d \in Db, d.unread # <<>> => ~d.unread[Len(d.unread)]
  PROVE  /\ FreeQueryRes(d) \in Db
         /\ d.handle => FreeQueryRes(d).res = "null" /\ FreeQueryRes(d).unread = <<>>
         /\ ~d.handle => FreeQueryRes(d) = d
<1>1. <<>> \in Seq(BOOLEAN)
  BY EmptySeq
<1> QED BY <1>1 DEF FreeQueryRes, Db

\* What a closed connection is.
LEMMA ClosedDb == Closed \in Db /\ Closed.res = "null" /\ Closed.unread = <<>> /\ ~Closed.handle
<1>1. <<>> \in Seq(BOOLEAN)
  BY EmptySeq
<1> QED BY <1>1 DEF Closed, Db

\* A statement at the head of the queue.
LEMMA FirstStatement ==
  ASSUME lstSql \in Seq(Jobs), lstSql # <<>>
  PROVE  /\ Head(lstSql) \in Jobs /\ Head(lstSql) = lstSql[1]
         /\ Tail(lstSql) \in Seq(Jobs) /\ Len(lstSql) \in Nat \ {0}
         /\ Len(Tail(lstSql)) = Len(lstSql) - 1
         /\ \A i \in 1 .. Len(lstSql) - 1 : Tail(lstSql)[i] = lstSql[i + 1]
<1>1. Len(lstSql) \in Nat \ {0}
  BY EmptySeq, LenProperties
<1>2. /\ Head(lstSql) \in Jobs /\ Tail(lstSql) \in Seq(Jobs)
      /\ Len(Tail(lstSql)) = Len(lstSql) - 1
      /\ \A i \in 1 .. Len(Tail(lstSql)) : Tail(lstSql)[i] = lstSql[i + 1]
  BY HeadTailProperties
<1>3. Head(lstSql) = lstSql[1]
  OBVIOUS
<1> QED BY <1>1, <1>2, <1>3

-----------------------------------------------------------------------------
(* Types. *)

\* The initial state is well typed.
LEMMA InitTyped == Init => TypeOK
<1> SUFFICES ASSUME Init PROVE TypeOK
  OBVIOUS
<1>1. <<>> \in Seq(Jobs) /\ <<>> \in Seq([job : Jobs, result : Outcomes])
  BY EmptySeq
<1>2. 0 \in 0 .. MaxJobs /\ 0 \in 0 .. MaxTime
  BY Bounds
<1>3. /\ at \in [Threads -> Places] /\ tick \in [Threads -> 0 .. MaxTime]
      /\ sql \in [Threads -> Jobs \cup {NULL}] /\ tries \in [Threads -> 0 .. Attempts]
      /\ result \in [Threads -> Outcomes \cup {NULL}] /\ db \in [Threads -> Db]
      /\ executed \in [Jobs -> 0 .. Attempts]
  BY <1>2, ClosedDb DEF Init, Places, Attempts
<1> QED BY <1>1, <1>2, <1>3 DEF Init, TypeOK

\* Every step keeps the types; that no count passes its limit needs Counts.
LEMMA NextTyped == TypeOK /\ Control /\ Locals /\ Counts /\ [Next]_vars => TypeOK'
<1> SUFFICES ASSUME TypeOK, Control, Locals, Counts, [Next]_vars PROVE TypeOK'
  OBVIOUS
<1> USE DEF TypeOK, Places, Attempts
<1>1. CASE Initizal
  BY <1>1 DEF Initizal, clock, history
<1>2. CASE Stop \/ Destruct
  <2>1. {lstSql[i] : i \in 1 .. Len(lstSql)} \subseteq Jobs /\ <<>> \in Seq(Jobs)
    BY EmptySeq, ElementOfSeq
  <2> QED BY <1>2, <2>1 DEF Stop, Destruct, Destory, clock, local, history
<1>3. CASE End \/ DeleteLock
  BY <1>3 DEF End, DeleteLock, queue, clock, local, history
<1>4. CASE EnterQuery
  BY <1>4 DEF EnterQuery, queue, clock, local, history
<1>5. CASE LeaveQuery
  <2>1. MaxJobs \in Nat /\ accepted < MaxJobs
    BY <1>5, Bounds DEF LeaveQuery, Control
  <2>2. accepted + 1 \in 0 .. MaxJobs /\ accepted + 1 \in Jobs
    BY <2>1 DEF Jobs
  <2>3. Append(lstSql, accepted + 1) \in Seq(Jobs)
    BY <2>2, AppendProperties
  <2> QED BY <1>5, <2>2, <2>3 DEF LeaveQuery, clock, local, history
<1>6. CASE Tick
  <2>1. now' \in 0 .. MaxTime
    BY <1>6, Bounds DEF Tick
  <2> QED BY <1>6, <2>1 DEF Tick, queue, local, history
<1>7. ASSUME NEW t \in Threads, Start(t) \/ Loop(t) \/ ReadClock(t) \/ FoundNothing(t) PROVE TypeOK'
  <2>1. 0 \in 0 .. MaxTime
    BY Bounds
  <2> QED BY <1>7, <2>1 DEF Start, Loop, ReadClock, FoundNothing, Goto, queue, clock, history
<1>8. ASSUME NEW t \in Threads, CloseIdle(t) PROVE TypeOK'
  BY <1>8, ClosedDb DEF CloseIdle, Goto, queue, history
<1>9. ASSUME NEW t \in Threads, Take(t) PROVE TypeOK'
  <2>1. Head(lstSql) \in Jobs /\ Tail(lstSql) \in Seq(Jobs)
    BY <1>9, FirstStatement DEF Take
  <2> QED BY <1>9, <2>1 DEF Take, Goto, history
<1>10. ASSUME NEW t \in Threads, Connect(t) PROVE TypeOK'
  <2>1. [db EXCEPT ![t].handle = TRUE] \in [Threads -> Db]
    BY DEF Db
  <2>2. db' \in [Threads -> Db]
    BY <1>10, <2>1 DEF Connect
  <2>3. /\ at' \in [Threads -> Places] /\ tries' \in [Threads -> 0 .. Attempts]
        /\ result' \in [Threads -> Outcomes \cup {NULL}]
    <3>1. CASE Goto(t, "connect", "query") /\ UNCHANGED <<tries, result>>
      BY <3>1 DEF Goto
    <3>2. CASE Finish(t, "connect", "connectFail")
      BY <3>2 DEF Finish, Goto, Outcomes
    <3> QED BY <1>10, <3>1, <3>2 DEF Connect
  <2> QED BY <1>10, <2>2, <2>3 DEF Connect, queue, clock, history
<1>11. ASSUME NEW t \in Threads, Query(t) PROVE TypeOK'
  <2>1. CASE NoConnection(t)
    BY <2>1 DEF NoConnection, Try, queue, clock, history
  <2>2. ASSUME at[t] = "query", tries[t] > 0, Execute(t)
        PROVE  executed' \in [Jobs -> 0 .. 3]
    <3>1. sql[t] \in Jobs /\ executed[sql[t]] + tries[t] <= 3
      BY <2>2 DEF Locals, Counts
    <3>2. executed[sql[t]] + 1 \in 0 .. 3
      <4>1. executed[sql[t]] \in 0 .. 3 /\ tries[t] \in 0 .. 3
        BY <3>1
      <4> QED BY <2>2, <3>1, <4>1
    <3> QED BY <2>2, <3>1, <3>2, OneMore DEF Execute
  <2>3. CASE TryFails(t)
    BY <2>2, <2>3, ClosedDb DEF TryFails, Try, queue, clock, history
  <2>4. CASE TrySucceeds(t)
    <3>1. db' \in [Threads -> Db]
      BY <2>4, RestOfAnswer DEF TrySucceeds, Db
    <3> QED BY <2>2, <2>4, <3>1 DEF TrySucceeds, Finish, Goto, Outcomes, queue, clock, history
  <2>5. CASE GiveUp(t)
    BY <2>5 DEF GiveUp, Finish, Goto, Outcomes, queue, clock, history
  <2> QED BY <1>11, <2>1, <2>3, <2>4, <2>5 DEF Query
<1>12. ASSUME NEW t \in Threads, ProcMysql(t) PROVE TypeOK'
  <2>1. sql[t] \in Jobs /\ result[t] \in Outcomes
    BY <1>12 DEF ProcMysql, Goto, Locals
  <2>2. answers' \in Seq([job : Jobs, result : Outcomes])
    BY <1>12, <2>1, AppendProperties DEF ProcMysql
  <2>3. db' \in [Threads -> Db]
    BY <1>12, FreedDb DEF ProcMysql, Locals
  <2> QED BY <1>12, <2>2, <2>3 DEF ProcMysql, Goto, queue, clock
<1>13. CASE UNCHANGED vars
  BY <1>13 DEF vars, queue, clock, local, history
<1> QED
  BY <1>1, <1>2, <1>3, <1>4, <1>5, <1>6, <1>7, <1>8, <1>9, <1>10, <1>11, <1>12, <1>13
  DEF Next, Main, Thread

-----------------------------------------------------------------------------
(* Control points. *)

\* What a thread leaves alone.
LEMMA ThreadFrame ==
  ASSUME NEW t \in Threads, Thread(t)
  PROVE  UNCHANGED <<main, net, held, using, accepted, dropped>>
BY DEF Thread, Start, Loop, ReadClock, CloseIdle, FoundNothing, Take, Connect, Query,
       NoConnection, TryFails, TrySucceeds, GiveUp, ProcMysql, queue

\* How a thread moves.
LEMMA ThreadMoves ==
  ASSUME TypeOK, NEW t \in Threads, Thread(t)
  PROVE  /\ at[t] # "none"
         /\ \A u \in Threads \ {t} : at'[u] = at[u]
         /\ at'[t] = "clock" => using
         /\ at'[t] = "start" => at[t] = "start"
         /\ at'[t] \in {"idle", "lock"} => at[t] \in {"clock", "idle"}
<1> USE DEF TypeOK
<1>1. CASE Start(t) \/ Loop(t) \/ FoundNothing(t) \/ ProcMysql(t)
  BY <1>1 DEF Start, Loop, FoundNothing, ProcMysql, Goto
<1>2. CASE ReadClock(t) \/ CloseIdle(t) \/ Take(t)
  BY <1>2 DEF ReadClock, CloseIdle, Take, Goto
<1>3. CASE Connect(t)
  BY <1>3 DEF Connect, Finish, Goto
<1>4. CASE Query(t)
  <2>1. CASE NoConnection(t) \/ TryFails(t)
    BY <2>1 DEF NoConnection, TryFails, Try
  <2>2. CASE TrySucceeds(t) \/ GiveUp(t)
    BY <2>2 DEF TrySucceeds, GiveUp, Finish, Goto
  <2> QED BY <1>4, <2>1, <2>2 DEF Query
<1> QED BY <1>1, <1>2, <1>3, <1>4 DEF Thread

\* A thread takes statements from the queue and puts none there.
LEMMA ThreadQueue ==
  ASSUME NEW t \in Threads, Thread(t), lstSql = <<>>
  PROVE  lstSql' = lstSql
BY DEF Thread, Start, Loop, ReadClock, CloseIdle, FoundNothing, Take, Connect, Query,
       NoConnection, TryFails, TrySucceeds, GiveUp, ProcMysql, queue

\* Every step keeps Control.
LEMMA NextControl == TypeOK /\ Control /\ [Next]_vars => Control'
<1> SUFFICES ASSUME TypeOK, Control, [Next]_vars PROVE Control'
  OBVIOUS
<1> USE DEF Control
<1>1. CASE Initizal
  BY <1>1 DEF Initizal
<1>2. CASE Stop \/ Destruct
  BY <1>2 DEF Stop, Destruct, Destory, local
<1>3. CASE End \/ DeleteLock
  BY <1>3 DEF End, DeleteLock, queue, local
<1>4. CASE EnterQuery \/ LeaveQuery
  BY <1>4 DEF EnterQuery, LeaveQuery, queue, local
<1>5. CASE Tick
  BY <1>5 DEF Tick, queue, local
<1>6. ASSUME NEW t \in Threads, Thread(t) PROVE Control'
  <2>1. UNCHANGED <<main, net, using, accepted>>
    BY <1>6, ThreadFrame
  <2>2. main # "start"
    BY <1>6, ThreadMoves
  <2>3. main = "gone" => \A u \in Threads : at'[u] \notin {"start", "clock", "idle", "lock"}
    BY <1>6, ThreadMoves
  <2>4. lstSql = <<>> => lstSql' = <<>>
    BY <1>6, ThreadQueue
  <2> QED BY <2>1, <2>2, <2>3, <2>4
<1>7. CASE UNCHANGED vars
  BY <1>7 DEF vars, queue, local
<1> QED BY <1>1, <1>2, <1>3, <1>4, <1>5, <1>6, <1>7 DEF Next, Main

\* Every step keeps Locals.
LEMMA NextLocals == TypeOK /\ Control /\ Locals /\ [Next]_vars => Locals'
<1> SUFFICES ASSUME TypeOK, Control, Locals, [Next]_vars PROVE Locals'
  OBVIOUS
<1>1. CASE Initizal
  <2>1. \A t \in Threads : at[t] = "none" /\ at'[t] = "start"
    BY <1>1 DEF Initizal, Control
  <2> QED BY <1>1, <2>1 DEF Initizal, Locals
<1>2. CASE UNCHANGED local
  BY <1>2 DEF local, Locals
<1>3. ASSUME NEW t \in Threads, Thread(t) PROVE Locals'
  <2> DEFINE P(u) == /\ at[u] \in {"connect", "query", "proc"} <=> sql[u] # NULL
                     /\ at[u] = "proc" <=> result[u] # NULL
                     /\ at[u] = "connect" => ~db[u].handle
                     /\ at[u] # "proc" \/ ~db[u].handle => db[u].res = "null" /\ db[u].unread = <<>>
                     /\ db[u].res # "freed"
                     /\ db[u].unread # <<>> => ~db[u].unread[Len(db[u].unread)]
  <2>1. \A u \in Threads \ {t} : at'[u] = at[u] /\ sql'[u] = sql[u] /\ result'[u] = result[u]
                               /\ db'[u] = db[u]
    <3> USE DEF TypeOK
    <3>1. CASE Start(t) \/ Loop(t) \/ ReadClock(t) \/ CloseIdle(t) \/ FoundNothing(t) \/ Take(t)
      BY <3>1 DEF Start, Loop, ReadClock, CloseIdle, FoundNothing, Take, Goto
    <3>2. CASE Connect(t)
      BY <3>2 DEF Connect, Finish, Goto
    <3>3. CASE Query(t)
      <4>1. CASE NoConnection(t) \/ TryFails(t)
        BY <4>1 DEF NoConnection, TryFails, Try
      <4>2. CASE TrySucceeds(t)
        BY <4>2 DEF TrySucceeds, Finish, Goto
      <4>3. CASE GiveUp(t)
        BY <4>3 DEF GiveUp, Finish, Goto
      <4> QED BY <3>3, <4>1, <4>2, <4>3 DEF Query
    <3>4. CASE ProcMysql(t)
      BY <3>4 DEF ProcMysql, Goto
    <3> QED BY <1>3, <3>1, <3>2, <3>3, <3>4 DEF Thread
  <2>2. P(t)'
    <3>0. P(t) /\ NULL \notin Jobs /\ NULL \notin Outcomes
      BY NullIsNone DEF Locals
    <3> USE DEF TypeOK
    <3>1. CASE Start(t) \/ Loop(t) \/ ReadClock(t) \/ FoundNothing(t)
      BY <3>0, <3>1 DEF Start, Loop, ReadClock, FoundNothing, Goto
    <3>2. CASE CloseIdle(t)
      BY <3>0, <3>2, ClosedDb DEF CloseIdle, Goto
    <3>3. CASE Take(t)
      <4>1. Head(lstSql) \in Jobs
        BY <3>3, FirstStatement DEF Take
      <4> QED BY <3>0, <3>3, <4>1 DEF Take, Goto
    <3>4. CASE Connect(t)
      <4>1. CASE Finish(t, "connect", "connectFail") /\ UNCHANGED <<db, sql>>
        BY <3>0, <4>1 DEF Finish, Goto, Outcomes
      <4>2. CASE Goto(t, "connect", "query") /\ db' = [db EXCEPT ![t].handle = TRUE] /\ UNCHANGED <<result, sql>>
        BY <3>0, <4>2 DEF Goto, Db
      <4> QED BY <3>4, <4>1, <4>2 DEF Connect
    <3>5. CASE Query(t)
      <4>1. CASE NoConnection(t)
        BY <3>0, <4>1 DEF NoConnection, Try
      <4>2. CASE TryFails(t)
        BY <3>0, <4>2, ClosedDb DEF TryFails, Try
      <4>3. CASE TrySucceeds(t)
        <5>1. /\ at'[t] = "proc" /\ sql'[t] = sql[t] /\ sql[t] # NULL /\ result'[t] = "success"
          BY <3>0, <4>3 DEF TrySucceeds, Finish, Goto
        <5>2. PICK a \in Answers : db'[t] = [handle |-> TRUE, res |-> "live", unread |-> Tail(a)]
          BY <4>3 DEF TrySucceeds
        <5>3. db'[t].handle /\ db'[t].res = "live" /\ db'[t].unread = Tail(a)
          BY <5>2
        <5>4. Tail(a) # <<>> => ~Tail(a)[Len(Tail(a))]
          BY RestOfAnswer
        <5>5. result'[t] # NULL
          BY <3>0, <5>1 DEF Outcomes
        <5> QED BY <5>1, <5>3, <5>4, <5>5
      <4>4. CASE GiveUp(t)
        BY <3>0, <4>4 DEF GiveUp, Finish, Goto, Outcomes
      <4> QED BY <3>5, <4>1, <4>2, <4>3, <4>4 DEF Query
    <3>6. CASE ProcMysql(t)
      <4>1. at'[t] = "while" /\ sql'[t] = NULL /\ result'[t] = NULL /\ db'[t] = FreeQueryRes(db[t])
        BY <3>6 DEF ProcMysql, Goto
      <4>2. db'[t].res = "null" /\ db'[t].unread = <<>>
        BY <3>0, <4>1, FreedDb
      <4> QED BY <4>1, <4>2
    <3> QED BY <1>3, <3>1, <3>2, <3>3, <3>4, <3>5, <3>6 DEF Thread
  <2>3. \A u \in Threads \ {t} : P(u)'
    BY <2>1 DEF Locals
  <2> QED BY <2>2, <2>3 DEF Locals
<1> QED BY <1>1, <1>2, <1>3
        DEF Next, Main, Stop, Destruct, Destory, End, DeleteLock, EnterQuery, LeaveQuery, Tick, vars

-----------------------------------------------------------------------------
(* The statements. *)

\* Where statement j is when n were taken from the queue.
Placed(j, n) == IF j <= n THEN Settled(j) ELSE Untouched(j)

\* Every step keeps Conserved: only Take moves a statement out of the queue.
LEMMA NextConserved ==
  TypeOK /\ TypeOK' /\ Control /\ Locals /\ Conserved /\ [Next]_vars => Conserved'
<1> SUFFICES ASSUME TypeOK, TypeOK', Control, Locals, Conserved, [Next]_vars PROVE Conserved'
  OBVIOUS
<1> DEFINE L == Len(lstSql)
           n == accepted - L
<1>1. /\ L \in Nat /\ accepted \in Nat /\ L <= accepted /\ n \in Nat
      /\ \A i \in 1 .. L : lstSql[i] = n + i
      /\ \A j \in Jobs : Placed(j, n)
  <2>1. L \in Nat /\ accepted \in Nat
    BY LenProperties, Bounds DEF TypeOK
  <2> QED BY <2>1 DEF Conserved, Placed
<1>2. ASSUME UNCHANGED <<lstSql, accepted, dropped, sql, answers>> PROVE Conserved'
  BY <1>2 DEF Conserved, Settled, Untouched, InHand, Answered
<1>3. CASE Stop \/ Destruct
  <2>1. /\ lstSql' = <<>> /\ accepted' = accepted /\ sql' = sql /\ answers' = answers
        /\ dropped' = dropped \cup {lstSql[i] : i \in 1 .. L}
    BY <1>3 DEF Stop, Destruct, Destory, local, history
  <2>2. \A j \in Jobs : InHand(j)' = InHand(j) /\ Answered(j)' = Answered(j)
    BY <2>1 DEF InHand, Answered
  <2>3. Len(lstSql') = 0
    BY <2>1, EmptySeq
  <2>4. ASSUME NEW j \in Jobs PROVE Placed(j, accepted)'
    <3>1. j \in Nat /\ Placed(j, n)
      BY <1>1 DEF Jobs
    <3>2. CASE j <= n
      <4>1. j \in dropped' <=> j \in dropped
        BY <1>1, <2>1, <3>1, <3>2
      <4> QED BY <1>1, <2>1, <2>2, <3>1, <3>2, <4>1 DEF Placed, Settled, Untouched
    <3>3. CASE n < j /\ j <= accepted
      <4>1. j - n \in 1 .. L /\ lstSql[j - n] = j
        BY <1>1, <3>1, <3>3
      <4>2. j \in dropped'
        BY <2>1, <4>1
      <4>3. InHand(j) = {} /\ Answered(j) = {}
        BY <1>1, <3>1, <3>3 DEF Placed, Settled, Untouched
      <4> QED BY <2>1, <2>2, <3>3, <4>2, <4>3 DEF Placed, Settled, Untouched
    <3>4. CASE accepted < j
      <4>1. j \notin dropped /\ InHand(j) = {} /\ Answered(j) = {}
        BY <1>1, <3>1, <3>4 DEF Placed, Settled, Untouched
      <4>2. \A i \in 1 .. L : lstSql[i] # j
        BY <1>1, <3>1, <3>4
      <4> QED BY <1>1, <2>1, <2>2, <3>1, <3>4, <4>1, <4>2 DEF Placed, Settled, Untouched
    <3> QED BY <1>1, <3>1, <3>2, <3>3, <3>4
  <2> QED BY <1>1, <2>1, <2>3, <2>4 DEF Conserved, Placed
<1>4. CASE LeaveQuery
  <2>1. CASE UNCHANGED <<lstSql, accepted>>
    BY <1>2, <1>4, <2>1 DEF LeaveQuery, local, history
  <2>2. CASE lstSql' = Append(lstSql, accepted + 1) /\ accepted' = accepted + 1
    <3>1. dropped' = dropped /\ sql' = sql /\ answers' = answers
      BY <1>4 DEF LeaveQuery, local, history
    <3>2. accepted + 1 \in Jobs
      BY <1>4, <1>1, Bounds DEF LeaveQuery, Control, Jobs
    <3>3. /\ Len(lstSql') = L + 1
          /\ \A i \in 1 .. L : lstSql'[i] = lstSql[i]
          /\ lstSql'[L + 1] = accepted + 1
      BY <2>2, <3>2, AppendProperties DEF TypeOK
    <3>4. accepted' - Len(lstSql') = n
      BY <1>1, <2>2, <3>3
    <3>5. \A j \in Jobs : Placed(j, n)'
      BY <1>1, <3>1, <3>4 DEF Placed, Settled, Untouched, InHand, Answered
    <3>6. \A i \in 1 .. L + 1 : lstSql'[i] = n + i
      <4>1. n + L + 1 = accepted + 1
        BY <1>1
      <4>2. ASSUME NEW i \in 1 .. L + 1 PROVE i \in 1 .. L \/ i = L + 1
        BY <1>1
      <4> QED BY <1>1, <3>3, <4>1, <4>2
    <3> QED BY <1>1, <2>2, <3>3, <3>4, <3>5, <3>6 DEF Conserved, Placed
  <2> QED BY <1>4, <2>1, <2>2 DEF LeaveQuery
<1>5. ASSUME NEW t \in Threads, Take(t) PROVE Conserved'
  <2>1. /\ lstSql \in Seq(Jobs) /\ lstSql # <<>> /\ lstSql' = Tail(lstSql)
        /\ sql' = [sql EXCEPT ![t] = lstSql[1]]
        /\ accepted' = accepted /\ dropped' = dropped /\ answers' = answers
    BY <1>5, FirstStatement DEF Take, history, TypeOK
  <2>2. /\ lstSql[1] \in Jobs /\ L \in Nat \ {0} /\ Len(lstSql') = L - 1
        /\ \A i \in 1 .. L - 1 : lstSql'[i] = lstSql[i + 1]
    BY <2>1, FirstStatement
  <2>3. lstSql[1] = n + 1
    BY <1>1, <2>2
  <2>4. sql[t] = NULL /\ sql'[t] = lstSql[1]
    BY <1>5, <2>1 DEF Take, Goto, Locals, TypeOK
  <2>5. \A u \in Threads \ {t} : sql'[u] = sql[u]
    BY <2>1 DEF TypeOK
  <2>6. n' = n + 1 /\ Len(lstSql') <= accepted'
    BY <1>1, <2>1, <2>2
  <2>7. ASSUME NEW j \in Jobs PROVE Placed(j, n)'
    <3>1. Placed(j, n) /\ Answered(j)' = Answered(j) /\ j # NULL /\ j \in Nat
      BY <1>1, <2>1, NullIsNone DEF Answered, Jobs
    <3>2. CASE j = n + 1
      <4>1. j \notin dropped /\ InHand(j) = {} /\ Answered(j) = {}
        BY <1>1, <3>1, <3>2 DEF Placed, Settled, Untouched
      <4>2. InHand(j)' = {t}
        BY <2>3, <2>4, <2>5, <3>2, <4>1 DEF InHand
      <4> QED BY <1>1, <2>6, <2>1, <3>1, <3>2, <4>1, <4>2 DEF Placed, Settled, Untouched
    <3>3. CASE j # n + 1
      <4>1. InHand(j)' = InHand(j)
        BY <2>3, <2>4, <2>5, <3>1, <3>3 DEF InHand
      <4>2. j <= n <=> j <= n + 1
        BY <1>1, <3>1, <3>3
      <4>3. Settled(j)' <=> Settled(j)
        BY <2>1, <3>1, <4>1 DEF Settled
      <4>4. Untouched(j)' <=> Untouched(j)
        BY <2>1, <3>1, <4>1 DEF Untouched
      <4> QED BY <1>1, <3>1, <4>2, <4>3, <4>4, <2>6 DEF Placed
    <3> QED BY <3>2, <3>3
  <2>8. \A i \in 1 .. Len(lstSql') : lstSql'[i] = n + 1 + i
    BY <1>1, <2>2
  <2> QED BY <1>1, <2>7, <2>6, <2>8 DEF Conserved, Placed
<1>6. ASSUME NEW t \in Threads, ProcMysql(t) PROVE Conserved'
  <2>1. /\ lstSql' = lstSql /\ accepted' = accepted /\ dropped' = dropped
        /\ answers' = Append(answers, [job |-> sql[t], result |-> result[t]])
        /\ sql' = [sql EXCEPT ![t] = NULL]
    BY <1>6 DEF ProcMysql, queue
  <2>2. sql[t] \in Jobs /\ result[t] \in Outcomes
    BY <1>6 DEF ProcMysql, Goto, Locals, TypeOK
  <2>3. /\ Len(answers) \in Nat /\ Len(answers') = Len(answers) + 1
        /\ \A i \in 1 .. Len(answers) : answers'[i] = answers[i]
        /\ answers'[Len(answers) + 1] = [job |-> sql[t], result |-> result[t]]
    BY <2>1, <2>2, AppendProperties, LenProperties DEF TypeOK
  <2>4. sql'[t] = NULL /\ \A u \in Threads \ {t} : sql'[u] = sql[u]
    BY <2>1 DEF TypeOK
  <2>5. ASSUME NEW j \in Jobs PROVE Placed(j, n)'
    <3>1. Placed(j, n) /\ j # NULL /\ j \in Nat
      BY <1>1, NullIsNone DEF Jobs
    <3>2. CASE j = sql[t]
      <4>1. t \in InHand(j)
        BY <3>2 DEF InHand
      <4>2. j <= n /\ j \notin dropped /\ Answered(j) = {} /\ InHand(j) = {t}
        BY <3>1, <4>1 DEF Placed, Settled, Untouched
      <4>3. InHand(j)' = {}
        BY <2>4, <3>1, <4>2 DEF InHand
      <4>4. Answered(j)' = {Len(answers) + 1}
        <5>1. answers'[Len(answers) + 1].job = j
          BY <2>3, <3>2
        <5>2. \A i \in 1 .. Len(answers) : answers'[i].job # j
          BY <2>3, <4>2 DEF Answered
        <5> QED BY <2>3, <5>1, <5>2 DEF Answered
      <4> QED BY <1>1, <2>1, <2>3, <4>2, <4>3, <4>4 DEF Placed, Settled, Untouched
    <3>3. CASE j # sql[t]
      <4>1. InHand(j)' = InHand(j)
        BY <2>4, <3>1, <3>3 DEF InHand
      <4>2. Answered(j)' = Answered(j)
        <5>1. answers'[Len(answers) + 1].job # j
          BY <2>3, <3>3
        <5> QED BY <2>3, <5>1 DEF Answered
      <4>3. \A i \in 1 .. Len(answers) : i \in 1 .. Len(answers')
        BY <2>3
      <4> QED BY <2>1, <3>1, <4>1, <4>2, <4>3 DEF Placed, Settled, Untouched
    <3> QED BY <3>2, <3>3
  <2> QED BY <1>1, <2>1, <2>5 DEF Conserved, Placed
<1>7. ASSUME NEW t \in Threads, Thread(t), ~Take(t), ~ProcMysql(t) PROVE Conserved'
  <2>1. UNCHANGED <<lstSql, accepted, dropped, sql, answers>>
    BY <1>7 DEF Thread, Start, Loop, ReadClock, CloseIdle, FoundNothing, Connect, Query,
         NoConnection, TryFails, TrySucceeds, GiveUp, queue, history
  <2> QED BY <1>2, <2>1
<1>8. CASE Initizal \/ End \/ DeleteLock \/ EnterQuery \/ Tick \/ UNCHANGED vars
  <2>1. UNCHANGED <<lstSql, accepted, dropped, sql, answers>>
    BY <1>8 DEF Initizal, End, DeleteLock, EnterQuery, Tick, vars, queue, local, history
  <2> QED BY <1>2, <2>1
<1> QED BY <1>3, <1>4, <1>5, <1>6, <1>7, <1>8 DEF Next, Main

-----------------------------------------------------------------------------
(* The executions. *)

\* A statement that a thread has in hand is no longer in the queue, no other
\* thread has it, and it was not answered.
LEMMA InHandAlone ==
  ASSUME TypeOK, Conserved, NEW t \in Threads, sql[t] # NULL
  PROVE  /\ sql[t] \in Jobs /\ ~(sql[t] > accepted - Len(lstSql))
         /\ \A u \in Threads \ {t} : sql[u] # sql[t]
         /\ \A i \in 1 .. Len(answers) : answers[i].job # sql[t]
<1>1. sql[t] \in Jobs /\ Len(lstSql) \in Nat /\ accepted \in Nat /\ sql[t] \in Nat
  BY LenProperties, Bounds DEF TypeOK, Jobs
<1>2. t \in InHand(sql[t])
  BY DEF InHand
<1>3. ~Untouched(sql[t])
  BY <1>2 DEF Untouched
<1>4. sql[t] <= accepted - Len(lstSql) /\ Settled(sql[t])
  BY <1>1, <1>3 DEF Conserved
<1>5. InHand(sql[t]) = {t} /\ Answered(sql[t]) = {}
  BY <1>2, <1>4 DEF Settled
<1>6. \A u \in Threads \ {t} : sql[u] # sql[t]
  BY <1>5 DEF InHand
<1>7. \A i \in 1 .. Len(answers) : answers[i].job # sql[t]
  BY <1>5 DEF Answered
<1> QED BY <1>1, <1>4, <1>6, <1>7

\* Every step keeps Counts.
LEMMA NextCounts ==
  TypeOK /\ TypeOK' /\ Control /\ Locals /\ Conserved /\ Counts /\ [Next]_vars => Counts'
<1> SUFFICES ASSUME TypeOK, TypeOK', Control, Locals, Conserved, Counts, [Next]_vars
             PROVE  Counts'
  OBVIOUS
<1> DEFINE n == accepted - Len(lstSql)
           C(u) == /\ at[u] = "connect" => executed[sql[u]] = 0 /\ tries[u] = Attempts
                   /\ at[u] = "query" => executed[sql[u]] + tries[u] <= Attempts
                   /\ result[u] = "success" => executed[sql[u]] > 0
                   /\ result[u] = "connectFail" => executed[sql[u]] = 0
<1>1. /\ Len(lstSql) \in Nat /\ accepted \in Nat /\ Len(lstSql) <= accepted /\ n \in Nat
      /\ Jobs \subseteq Nat
  <2>1. Len(lstSql) \in Nat /\ accepted \in Nat
    BY LenProperties, Bounds DEF TypeOK
  <2> QED BY <2>1 DEF Conserved, Jobs
<1>2. \A j \in Jobs : executed[j] <= 3 /\ executed'[j] <= 3
  <2>1. executed \in [Jobs -> 0 .. 3] /\ executed' \in [Jobs -> 0 .. 3]
    BY DEF TypeOK, Attempts
  <2>2. ASSUME NEW j \in Jobs PROVE executed[j] \in 0 .. 3 /\ executed'[j] \in 0 .. 3
    BY <2>1
  <2> QED BY <2>2
<1>3. NULL \notin Outcomes
  BY NullIsNone
<1>4. ASSUME UNCHANGED <<executed, at, sql, tries, result, answers>>, n' \in Nat, n <= n'
      PROVE  Counts'
  <2>1. \A j \in Jobs : j > n' => j > n
    BY <1>1, <1>4
  <2> QED BY <1>4, <2>1 DEF Counts, AnswersTrue
<1>5. CASE Initizal
  <2>1. \A t \in Threads : result[t] = NULL
    BY <1>5 DEF Initizal, Control, Locals
  <2> QED BY <1>3, <1>5, <2>1 DEF Initizal, history, Counts, AnswersTrue, Outcomes, TypeOK
<1>6. CASE Stop \/ Destruct
  <2>1. lstSql' = <<>> /\ accepted' = accepted /\ UNCHANGED <<executed, at, sql, tries, result, answers>>
    BY <1>6 DEF Stop, Destruct, Destory, local, history
  <2>2. n' = accepted
    BY <1>1, <2>1, EmptySeq
  <2> QED BY <1>1, <1>4, <2>1, <2>2
<1>7. CASE LeaveQuery
  <2>1. UNCHANGED <<executed, at, sql, tries, result, answers>>
    BY <1>7 DEF LeaveQuery, local, history
  <2>2. n' = n
    <3>1. CASE UNCHANGED <<lstSql, accepted>>
      BY <3>1
    <3>2. CASE lstSql' = Append(lstSql, accepted + 1) /\ accepted' = accepted + 1
      <4>1. accepted + 1 \in Jobs
        BY <1>1, <1>7, Bounds DEF LeaveQuery, Control, Jobs
      <4>2. Len(lstSql') = Len(lstSql) + 1
        BY <3>2, <4>1, AppendProperties DEF TypeOK
      <4> QED BY <1>1, <3>2, <4>2
    <3> QED BY <1>7, <3>1, <3>2 DEF LeaveQuery
  <2> QED BY <1>1, <1>4, <2>1, <2>2
<1>8. ASSUME NEW t \in Threads,
             UNCHANGED <<lstSql, accepted, executed, answers>>,
             \A u \in Threads \ {t} : at'[u] = at[u] /\ sql'[u] = sql[u] /\ tries'[u] = tries[u]
                                    /\ result'[u] = result[u],
             C(t)'
      PROVE  Counts'
  BY <1>8 DEF Counts, AnswersTrue
<1>9. ASSUME NEW t \in Threads, Start(t) \/ Loop(t) \/ ReadClock(t) \/ CloseIdle(t) \/ FoundNothing(t)
      PROVE  Counts'
  <2>1. UNCHANGED <<lstSql, accepted, executed, answers, sql, tries, result>>
    BY <1>9 DEF Start, Loop, ReadClock, CloseIdle, FoundNothing, queue, history
  <2>2. /\ at'[t] \notin {"connect", "query"}
        /\ \A u \in Threads \ {t} : at'[u] = at[u]
    BY <1>9 DEF Start, Loop, ReadClock, CloseIdle, FoundNothing, Goto, TypeOK
  <2>3. C(t)'
    BY <2>1, <2>2 DEF Counts
  <2> QED BY <1>8, <2>1, <2>2, <2>3
<1>10. ASSUME NEW t \in Threads, Take(t) PROVE Counts'
  <2>1. /\ lstSql' = Tail(lstSql) /\ accepted' = accepted /\ executed' = executed /\ answers' = answers
        /\ sql'[t] = Head(lstSql) /\ tries'[t] = 3 /\ at'[t] \in {"connect", "query"}
        /\ result' = result
    BY <1>10 DEF Take, Goto, history, TypeOK, Attempts
  <2>2. \A u \in Threads \ {t} : at'[u] = at[u] /\ sql'[u] = sql[u] /\ tries'[u] = tries[u]
    BY <1>10 DEF Take, Goto, TypeOK
  <2>3. Len(lstSql) \in Nat \ {0} /\ Len(lstSql') = Len(lstSql) - 1 /\ Head(lstSql) = lstSql[1]
        /\ lstSql[1] \in Jobs
    BY <1>10, <2>1, FirstStatement DEF Take, TypeOK
  <2>4. lstSql[1] = n + 1 /\ n' = n + 1
    BY <1>1, <2>1, <2>3 DEF Conserved
  <2>5. executed[sql'[t]] = 0
    BY <1>1, <2>1, <2>3, <2>4 DEF Counts
  <2>6. result'[t] \notin Outcomes
    BY <1>3, <1>10, <2>1 DEF Take, Goto, Locals
  <2>7. C(t)'
    BY <2>1, <2>5, <2>6 DEF Outcomes, Attempts
  <2>8. \A j \in Jobs : j > n' => j > n
    BY <1>1, <2>4
  <2> QED BY <2>1, <2>2, <2>7, <2>8 DEF Counts, AnswersTrue
<1>11. ASSUME NEW t \in Threads, Connect(t) PROVE Counts'
  <2>1. UNCHANGED <<lstSql, accepted, executed, answers, sql>>
    BY <1>11 DEF Connect, queue, history
  <2>2. \A u \in Threads \ {t} : at'[u] = at[u] /\ tries'[u] = tries[u] /\ result'[u] = result[u]
    BY <1>11 DEF Connect, Finish, Goto, TypeOK
  <2>3. at[t] = "connect" /\ executed[sql[t]] = 0 /\ tries[t] = 3
    BY <1>11 DEF Connect, Finish, Goto, Counts, Attempts
  <2>4. result[t] \notin Outcomes
    BY <1>3, <2>3 DEF Locals
  <2>5. C(t)'
    <3>1. CASE Goto(t, "connect", "query") /\ UNCHANGED <<tries, result>>
      BY <2>1, <2>3, <2>4, <3>1 DEF Goto, TypeOK, Outcomes, Attempts
    <3>2. CASE Finish(t, "connect", "connectFail")
      BY <2>1, <2>3, <3>2 DEF Finish, Goto, TypeOK
    <3> QED BY <1>11, <3>1, <3>2 DEF Connect
  <2> QED BY <1>8, <2>1, <2>2, <2>5
<1>12. ASSUME NEW t \in Threads, Query(t) PROVE Counts'
  <2>1. UNCHANGED <<lstSql, accepted, answers, sql>>
    BY <1>12 DEF Query, NoConnection, TryFails, TrySucceeds, GiveUp, queue, history
  <2>2. \A u \in Threads \ {t} : at'[u] = at[u] /\ tries'[u] = tries[u] /\ result'[u] = result[u]
    <3>1. CASE NoConnection(t) \/ TryFails(t)
      BY <3>1 DEF NoConnection, TryFails, Try, TypeOK
    <3>2. CASE TrySucceeds(t) \/ GiveUp(t)
      BY <3>2 DEF TrySucceeds, GiveUp, Finish, Goto, TypeOK
    <3> QED BY <1>12, <3>1, <3>2 DEF Query
  <2>3. at[t] = "query" /\ tries[t] \in 0 .. 3 /\ executed[sql[t]] + tries[t] <= 3 /\ result[t] \notin Outcomes
    <3>1. at[t] = "query"
      BY <1>12 DEF Query, NoConnection, TryFails, TrySucceeds, GiveUp, Try, Finish, Goto
    <3> QED BY <1>3, <3>1 DEF Counts, Locals, TypeOK, Attempts
  <2>4. /\ sql[t] \in Jobs /\ ~(sql[t] > n)
        /\ \A u \in Threads \ {t} : sql[u] # sql[t]
        /\ \A i \in 1 .. Len(answers) : answers[i].job # sql[t]
    BY <2>3, InHandAlone DEF Locals
  <2>5. executed[sql[t]] \in 0 .. 3
    BY <2>4 DEF TypeOK, Attempts
  <2>6. ASSUME \/ UNCHANGED executed
               \/ Execute(t),
               C(t)'
        PROVE  Counts'
    <3>1. \A j \in Jobs : j # sql[t] => executed'[j] = executed[j]
      BY <2>6 DEF Execute, TypeOK
    <3>2. \A j \in Jobs : j > n' => executed'[j] = 0
      BY <2>1, <2>4, <3>1 DEF Counts
    <3>3. ASSUME NEW u \in Threads \ {t} PROVE C(u)'
      <4>1. CASE sql[u] = NULL
        BY <1>3, <2>2, <4>1 DEF Locals, Outcomes
      <4>2. CASE sql[u] # NULL
        <5>1. executed'[sql[u]] = executed[sql[u]]
          BY <2>4, <3>1, <4>2 DEF TypeOK
        <5> QED BY <2>1, <2>2, <5>1 DEF Counts
      <4> QED BY <4>1, <4>2
    <3>4. AnswersTrue'
      <4>1. ASSUME NEW i \in 1 .. Len(answers)
            PROVE  executed'[answers[i].job] = executed[answers[i].job]
        <5>1. answers[i] \in [job : Jobs, result : Outcomes]
          BY ElementOfSeq DEF TypeOK
        <5>2. answers[i].job \in Jobs
          BY <5>1
        <5> QED BY <2>4, <3>1, <5>2
      <4> QED BY <1>2, <2>1, <4>1 DEF Counts, AnswersTrue
    <3> QED BY <2>6, <3>2, <3>3, <3>4 DEF Counts
  <2>7. CASE NoConnection(t)
    <3>1. at' = at /\ tries'[t] = tries[t] - 1 /\ executed' = executed /\ result' = result
      BY <2>7 DEF NoConnection, Try, history, TypeOK
    <3>2. C(t)'
      BY <2>1, <2>3, <2>5, <3>1 DEF Outcomes, Attempts
    <3> QED BY <2>6, <3>1, <3>2
  <2>8. CASE TryFails(t)
    <3>1. /\ at' = at /\ tries[t] > 0 /\ tries'[t] = tries[t] - 1 /\ result' = result
          /\ UNCHANGED executed \/ Execute(t)
      BY <2>8 DEF TryFails, Try, TypeOK
    <3>2. executed'[sql[t]] \in {executed[sql[t]], executed[sql[t]] + 1}
      BY <2>4, <3>1 DEF Execute, TypeOK
    <3>3. C(t)'
      BY <2>1, <2>3, <2>5, <3>1, <3>2 DEF Outcomes, Attempts
    <3> QED BY <2>6, <3>1, <3>3
  <2>9. CASE TrySucceeds(t)
    <3>1. at'[t] = "proc" /\ result'[t] = "success" /\ Execute(t)
      BY <2>9 DEF TrySucceeds, Finish, Goto, TypeOK
    <3>2. executed'[sql[t]] = executed[sql[t]] + 1
      BY <2>4, <3>1 DEF Execute, TypeOK
    <3>3. C(t)'
      BY <2>1, <2>5, <3>1, <3>2
    <3> QED BY <2>6, <3>1, <3>3
  <2>10. CASE GiveUp(t)
    <3>1. at'[t] = "proc" /\ result'[t] = "sqlFail" /\ executed' = executed
      BY <2>10 DEF GiveUp, Finish, Goto, history, TypeOK
    <3>2. C(t)'
      BY <3>1
    <3> QED BY <2>6, <3>1, <3>2
  <2> QED BY <1>12, <2>7, <2>8, <2>9, <2>10 DEF Query
<1>13. ASSUME NEW t \in Threads, ProcMysql(t) PROVE Counts'
  <2>1. /\ UNCHANGED <<lstSql, accepted, executed, tries>>
        /\ answers' = Append(answers, [job |-> sql[t], result |-> result[t]])
    BY <1>13 DEF ProcMysql, queue
  <2>2. sql[t] \in Jobs /\ result[t] \in Outcomes
    BY <1>13 DEF ProcMysql, Goto, Locals, TypeOK
  <2>3. /\ Len(answers') = Len(answers) + 1 /\ Len(answers) \in Nat
        /\ \A i \in 1 .. Len(answers) : answers'[i] = answers[i]
        /\ answers'[Len(answers) + 1] = [job |-> sql[t], result |-> result[t]]
    BY <2>1, <2>2, AppendProperties, LenProperties DEF TypeOK
  <2>4. /\ result[t] = "success" => executed[sql[t]] > 0
        /\ result[t] = "connectFail" => executed[sql[t]] = 0
    BY DEF Counts
  <2>5. AnswersTrue'
    <3>1. ASSUME NEW i \in 1 .. Len(answers')
          PROVE  /\ answers'[i].result = "success" => executed'[answers'[i].job] > 0
                 /\ answers'[i].result = "connectFail" => executed'[answers'[i].job] = 0
      <4>1. CASE i = Len(answers) + 1
        BY <2>1, <2>3, <2>4, <4>1
      <4>2. CASE i # Len(answers) + 1
        <5>1. i \in 1 .. Len(answers)
          BY <2>3, <4>2
        <5> QED BY <2>1, <2>3, <5>1 DEF Counts, AnswersTrue
      <4> QED BY <4>1, <4>2
    <3> QED BY <1>2, <3>1 DEF AnswersTrue
  <2>6. /\ at'[t] = "while" /\ result'[t] = NULL
        /\ \A u \in Threads \ {t} : at'[u] = at[u] /\ sql'[u] = sql[u] /\ result'[u] = result[u]
    BY <1>13 DEF ProcMysql, Goto, TypeOK
  <2>7. C(t)'
    BY <1>3, <2>6 DEF Outcomes
  <2> QED BY <2>1, <2>5, <2>6, <2>7 DEF Counts
<1>14. CASE End \/ DeleteLock \/ EnterQuery \/ Tick \/ UNCHANGED vars
  <2>1. UNCHANGED <<lstSql, accepted, executed, at, sql, tries, result, answers>>
    BY <1>14 DEF End, DeleteLock, EnterQuery, Tick, vars, queue, local, history
  <2> QED BY <2>1 DEF Counts, AnswersTrue
<1> QED BY <1>5, <1>6, <1>7, <1>9, <1>10, <1>11, <1>12, <1>13, <1>14 DEF Next, Main, Thread

-----------------------------------------------------------------------------
(* Theorems. *)

\* The initial state has the invariant.
LEMMA InitIInv == Init => IInv
<1> SUFFICES ASSUME Init PROVE IInv
  OBVIOUS
<1>1. TypeOK
  BY InitTyped
<1>2. Control
  BY DEF Init, Control
<1>3. Locals
  BY ClosedDb DEF Init, Locals
<1>4. Len(lstSql) = 0 /\ accepted = 0 /\ Len(answers) = 0
  BY EmptySeq DEF Init
<1>5. \A j \in Jobs : j > 0 /\ executed[j] = 0 /\ j # NULL
  BY NullIsNone DEF Init, Jobs
<1>6. Conserved
  <2>1. \A j \in Jobs : Untouched(j)
    BY <1>4, <1>5 DEF Init, Untouched, InHand, Answered
  <2>2. \A j \in Jobs : ~(j <= 0)
    BY DEF Jobs
  <2> QED BY <1>4, <2>1, <2>2 DEF Conserved
<1>7. Counts
  BY <1>3, <1>4, <1>5, NullIsNone DEF Init, Counts, AnswersTrue, Outcomes
<1> QED BY <1>1, <1>2, <1>3, <1>6, <1>7 DEF IInv

\* Every step keeps the invariant.
LEMMA NextIInv == IInv /\ [Next]_vars => IInv'
BY NextTyped, NextControl, NextLocals, NextConserved, NextCounts DEF IInv

\* The invariant holds in every reachable state.
LEMMA Invariant == Spec => []IInv
<1> QED BY InitIInv, NextIInv, PTL DEF Spec

\* The variables have their types: what threads and the main thread leave in
\* them; in particular no statement is executed a fourth time.
THEOREM MySQLTyped == Spec => []TypeOK
<1>1. IInv => TypeOK
  BY DEF IInv
<1> QED BY <1>1, Invariant, PTL

\* _lstSql and the threads of _thread neither lose a statement nor answer one twice.
THEOREM StatementsConserved == Spec => []Conserved
<1>1. IInv => Conserved
  BY DEF IInv
<1> QED BY <1>1, Invariant, PTL

\* Whatever is retried in CzhMySql::Query, the callback is told the truth.
THEOREM CallbacksTrue == Spec => []AnswersTrue
<1>1. IInv => AnswersTrue
  BY DEF IInv, Counts
<1> QED BY <1>1, Invariant, PTL

\* freeQueryRes, after the callback, leaves a connection on which the next
\* statement can be executed, and no address to be freed a second time.
THEOREM ConnectionsRead == Spec => []ResultsRead
<1>1. IInv => ResultsRead
  BY DEF IInv, Locals, ResultsRead
<1> QED BY <1>1, Invariant, PTL

\* After Destory the queue stays empty, and no thread enters the critical
\* section that the destructor deleted.
THEOREM StoppedAtEnd == Spec => []Stopped
<1>1. IInv => Stopped
  BY DEF IInv, Control, Stopped
<1> QED BY <1>1, Invariant, PTL
=============================================================================
