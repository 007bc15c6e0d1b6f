------------------------------- MODULE MySQLProc -------------------------------
(***************************************************************************)
(* CMySQLProc of Server_for_Mysql: the queue of SQL statements between the *)
(* thread that makes the callbacks of the network (DealRecvDataThread of   *)
(* the IOCP server) and one thread per processor, each with a MySQL        *)
(* connection of its own; the time of the last execution, which all of     *)
(* them share; and the main thread, which starts and ends it all.          *)
(*                                                                         *)
(* What holds _csSqlList is one step, but for Query: the thread that calls *)
(* it may be terminated inside.  A statement is the number of its Query.   *)
(***************************************************************************)
EXTENDS Integers, Sequences, FiniteSets

CONSTANTS
  Threads,   \* one for each processor
  NULL,
  Idle,      \* the 120000 ms of _thread
  Dword,     \* the values of a DWORD
  Answers,   \* what a statement can be answered with: for each result, whether it has rows
  MaxJobs,   \* bound: the statements accepted
  MaxTime    \* bound: the time that passes

Outcomes == {"success", "sqlFail", "connectFail"}   \* EzhMysqlOperator

\* The only statement of the program is the CALL of a procedure that selects
\* (ProcMysql reads rows without asking), and the last result of a CALL is a status.
ASSUME MySQLAssumption ==
  /\ NULL \notin 1 .. MaxJobs /\ NULL \notin Outcomes
  /\ MaxJobs \in Nat /\ MaxTime \in Nat /\ Idle \in Nat
  /\ Dword \in Nat /\ MaxTime < Dword
  /\ Answers \subseteq Seq(BOOLEAN)
  /\ \A a \in Answers : a # <<>> /\ Head(a) /\ ~a[Len(a)]

VARIABLES
  main,             \* where the main thread is
  net,              \* where DealRecvDataThread is
  held,             \* it is inside _csSqlList, or was terminated there
  using,            \* _ThreadUsing
  lstSql,           \* _lstSql
  accepted,         \* history: how many statements were put into it
  dropped,          \* history: those Destory cleared
  now,              \* GetTickCount()
  lastExecuteTime,
  at, tick, sql, tries, result,   \* of the threads: tick is the first operand of tmpTimeCal
  db,               \* their connections (CzhMySql)
  executed,         \* history: how often MySQL executed a statement
  answers           \* history: the calls of ProcMysql

queue   == <<using, lstSql, accepted, dropped>>
clock   == <<now, lastExecuteTime>>
local   == <<at, tick, sql, tries, result, db>>
history == <<executed, answers>>
vars    == <<main, net, held, queue, clock, local, history>>

Jobs     == 1 .. MaxJobs
Places   == {"none", "start", "while", "clock", "idle", "lock",
             "connect", "query", "proc", "done"}
Db       == [handle : BOOLEAN, res : {"null", "live", "freed"}, unread : Seq(BOOLEAN)]
Closed   == [handle |-> FALSE, res |-> "null", unread |-> <<>>]
Attempts == 3   \* of CzhMySql::Query

\* Type invariant.
TypeOK ==
  /\ main \in {"start", "run", "destroyed", "ended", "exit", "gone"}
  /\ net \in {"run", "query", "killed"} /\ held \in BOOLEAN
  /\ using \in BOOLEAN /\ lstSql \in Seq(Jobs)
  /\ accepted \in 0 .. MaxJobs /\ dropped \subseteq Jobs
  /\ now \in 0 .. MaxTime /\ lastExecuteTime \in 0 .. MaxTime
  /\ at \in [Threads -> Places] /\ tick \in [Threads -> 0 .. MaxTime]
  /\ sql \in [Threads -> Jobs \cup {NULL}] /\ tries \in [Threads -> 0 .. Attempts]
  /\ result \in [Threads -> Outcomes \cup {NULL}]
  /\ db \in [Threads -> Db]
  /\ executed \in [Jobs -> 0 .. Attempts]
  /\ answers \in Seq([job : Jobs, result : Outcomes])

\* GSRTInit has returned; g_MySql is a global object.
Init ==
  /\ main = "start" /\ net = "run" /\ held = FALSE
  /\ using = FALSE /\ lstSql = <<>> /\ accepted = 0 /\ dropped = {}
  /\ now = 0 /\ lastExecuteTime = 0
  /\ at = [t \in Threads |-> "none"] /\ tick = [t \in Threads |-> 0]
  /\ sql = [t \in Threads |-> NULL] /\ tries = [t \in Threads |-> 0]
  /\ result = [t \in Threads |-> NULL]
  /\ db = [t \in Threads |-> Closed]
  /\ executed = [j \in Jobs |-> 0] /\ answers = <<>>

-----------------------------------------------------------------------------
(* The main thread.                                                         *)

Initizal ==
  /\ main = "start" /\ main' = "run"
  /\ using' = TRUE
  /\ at' = [t \in Threads |-> "start"]
  /\ UNCHANGED <<net, held, lstSql, accepted, dropped, clock, tick, sql, tries, result, db, history>>

\* Mutant: the threads are not told.
BugDoesNotTell ==
  /\ ~held
  /\ lstSql' = <<>>
  /\ dropped' = dropped \cup {lstSql[i] : i \in 1 .. Len(lstSql)}
  /\ UNCHANGED <<net, held, using, accepted, clock, local, history>>

Destory ==
  /\ ~held
  /\ using' = FALSE /\ lstSql' = <<>>
  /\ dropped' = dropped \cup {lstSql[i] : i \in 1 .. Len(lstSql)}
  /\ UNCHANGED <<net, held, accepted, clock, local, history>>

\* func_main_release: Destory, ...
Stop == main = "run" /\ main' = "destroyed" /\ Destory

\* ... and GSRTEnd, which terminates the thread of the callbacks wherever it is.
End ==
  /\ main = "destroyed" /\ main' = "ended"
  /\ net' = "killed"
  /\ UNCHANGED <<held, queue, clock, local, history>>

\* The destructor of g_MySql: Destory, ...
Destruct == main = "ended" /\ main' = "exit" /\ Destory

\* ... Sleep(100), which is taken to be enough for every step of a thread but
\* a call of MySQL or a callback, and DELETE_CS.
DeleteLock ==
  /\ main = "exit" /\ main' = "gone"
  /\ \A t \in Threads : at[t] \in {"none", "connect", "query", "proc", "done"}
  /\ UNCHANGED <<net, held, queue, clock, local, history>>

-----------------------------------------------------------------------------
(* CMySQLProc::Query, called by RecvDataCallBack.                           *)

EnterQuery ==
  /\ accepted < MaxJobs
  /\ net = "run" /\ net' = "query"
  /\ ~held /\ held' = TRUE
  /\ UNCHANGED <<main, queue, clock, local, history>>

LeaveQuery ==
  /\ net = "query" /\ net' = "run" /\ held' = FALSE
  /\ \/ /\ using
        /\ lstSql' = Append(lstSql, accepted + 1) /\ accepted' = accepted + 1
     \/ ~using /\ UNCHANGED <<lstSql, accepted>>
  /\ UNCHANGED <<main, using, dropped, clock, local, history>>

-----------------------------------------------------------------------------
(* CMySQLProc::_thread.                                                     *)

Goto(t, from, to) == at[t] = from /\ at' = [at EXCEPT ![t] = to]

Start(t) ==
  /\ Goto(t, "start", "while")
  /\ lastExecuteTime' = now
  /\ UNCHANGED <<main, net, held, queue, now, tick, sql, tries, result, db, history>>

\* The condition of the loop and GetTickCount(), the first operand of the
\* difference.  Read the other way round, the difference is only larger by
\* the time between the two.
Loop(t) ==
  /\ \/ using /\ Goto(t, "while", "clock") /\ tick' = [tick EXCEPT ![t] = now]
     \/ ~using /\ Goto(t, "while", "done") /\ UNCHANGED tick
  /\ UNCHANGED <<main, net, held, queue, clock, sql, tries, result, db, history>>

\* The second operand, p->lastExecuteTime, is read without the lock; the
\* difference is a DWORD.  (tick is not read again.)
ReadClock(t) ==
  /\ Goto(t, "clock", IF (tick[t] - lastExecuteTime) % Dword > Idle THEN "idle" ELSE "lock")
  /\ tick' = [tick EXCEPT ![t] = 0]
  /\ UNCHANGED <<main, net, held, queue, clock, sql, tries, result, db, history>>

CloseIdle(t) ==
  /\ Goto(t, "idle", "lock")
  /\ lastExecuteTime' = now
  /\ db' = [db EXCEPT ![t] = Closed]
  /\ UNCHANGED <<main, net, held, queue, now, tick, sql, tries, result, history>>

FoundNothing(t) ==
  /\ Goto(t, "lock", "while") /\ ~held /\ lstSql = <<>>
  /\ UNCHANGED <<main, net, held, queue, clock, tick, sql, tries, result, db, history>>

\* Mutant: the statement is copied in one critical section and removed in another.
BugTakesTwice(t) ==
  /\ Goto(t, "lock", IF db[t].handle THEN "query" ELSE "connect")
  /\ ~held /\ lstSql # <<>>
  /\ lastExecuteTime' = now
  /\ sql' = [sql EXCEPT ![t] = Head(lstSql)]
  /\ lstSql' \in {lstSql, Tail(lstSql)}
  /\ tries' = [tries EXCEPT ![t] = Attempts]
  /\ UNCHANGED <<main, net, held, using, accepted, dropped, now, tick, result, db, history>>

\* Takes the first statement, and looks whether there is a connection (HandleState).
Take(t) ==
  /\ Goto(t, "lock", IF db[t].handle THEN "query" ELSE "connect")
  /\ ~held /\ lstSql # <<>>
  /\ lastExecuteTime' = now
  /\ sql' = [sql EXCEPT ![t] = Head(lstSql)] /\ lstSql' = Tail(lstSql)
  /\ tries' = [tries EXCEPT ![t] = Attempts]
  /\ UNCHANGED <<main, net, held, using, accepted, dropped, now, tick, result, db, history>>

Finish(t, from, outcome) ==
  /\ Goto(t, from, "proc")
  /\ result' = [result EXCEPT ![t] = outcome]
  /\ tries' = [tries EXCEPT ![t] = 0]

\* CzhMySql::Connect(&p->_info); a handle that could not connect is closed.
Connect(t) ==
  /\ \/ /\ Goto(t, "connect", "query")
        /\ db' = [db EXCEPT ![t].handle = TRUE]
        /\ UNCHANGED <<tries, result>>
     \/ Finish(t, "connect", "connectFail") /\ UNCHANGED db
  /\ UNCHANGED <<main, net, held, queue, clock, tick, sql, history>>

-----------------------------------------------------------------------------
(* CzhMySql::Query: up to three attempts, each of which connects if need be. *)

Try(t) == at[t] = "query" /\ tries[t] > 0 /\ tries' = [tries EXCEPT ![t] = @ - 1]
Execute(t) == executed' = [executed EXCEPT ![sql[t]] = @ + 1]

NoConnection(t) ==
  /\ Try(t) /\ ~db[t].handle
  /\ UNCHANGED <<main, net, held, queue, clock, at, tick, sql, result, db, history>>

\* Mutant: an attempt that fails is not counted.
BugTriesForEver(t) ==
  /\ at[t] = "query" /\ tries[t] > 0
  /\ db' = [db EXCEPT ![t] = Closed]
  /\ Execute(t) \/ UNCHANGED executed
  /\ UNCHANGED <<main, net, held, queue, clock, at, tick, sql, tries, result, answers>>

\* mysql_real_query reports an error, before MySQL executed the statement or
\* after (the connection broke); ShowError closes the connection.
TryFails(t) ==
  /\ Try(t)
  /\ db' = [db EXCEPT ![t] = Closed]
  /\ \/ db[t].unread = <<>> /\ Execute(t)
     \/ UNCHANGED executed
  /\ UNCHANGED <<main, net, held, queue, clock, at, tick, sql, result, answers>>

\* With results of the statement before still unread, MySQL refuses a command.
\* mysql_store_result stores the first result.
TrySucceeds(t) ==
  /\ at[t] = "query" /\ tries[t] > 0
  /\ db[t].unread = <<>>
  /\ Execute(t)
  /\ \E a \in Answers :
       db' = [db EXCEPT ![t] = [handle |-> TRUE, res |-> "live", unread |-> Tail(a)]]
  /\ Finish(t, "query", "success")
  /\ UNCHANGED <<main, net, held, queue, clock, tick, sql, answers>>

GiveUp(t) ==
  /\ tries[t] = 0
  /\ Finish(t, "query", "sqlFail")
  /\ UNCHANGED <<main, net, held, queue, clock, tick, sql, db, history>>

\* Mutant: only the first of the results that are left is read.
BugFreesOne(d) ==
  IF d.handle /\ d.unread # <<>> THEN [d EXCEPT !.res = "null", !.unread = Tail(@)] ELSE d

\* freeQueryRes: every result that is left is stored in m_res and freed, while
\* m_res keeps its address.  (What Query stored there is overwritten and never freed.)
FreeQueryRes(d) ==
  IF d.handle
    THEN [d EXCEPT !.unread = <<>>,
                   !.res = IF d.unread # <<>> /\ d.unread[Len(d.unread)] THEN "freed" ELSE "null"]
    ELSE d

\* Mutant: no callback after a failure.
BugSilent(t) ==
  /\ Goto(t, "proc", "while")
  /\ answers' = IF result[t] # "success" THEN answers
                  ELSE Append(answers, [job |-> sql[t], result |-> result[t]])
  /\ db' = [db EXCEPT ![t] = FreeQueryRes(@)]
  /\ sql' = [sql EXCEPT ![t] = NULL] /\ result' = [result EXCEPT ![t] = NULL]
  /\ UNCHANGED <<main, net, held, queue, clock, tick, tries, executed>>

\* The callback: after success it answers the client with GSRSend.
ProcMysql(t) ==
  /\ Goto(t, "proc", "while")
  /\ answers' = Append(answers, [job |-> sql[t], result |-> result[t]])
  /\ db' = [db EXCEPT ![t] = FreeQueryRes(@)]
  /\ sql' = [sql EXCEPT ![t] = NULL] /\ result' = [result EXCEPT ![t] = NULL]
  /\ UNCHANGED <<main, net, held, queue, clock, tick, tries, executed>>

-----------------------------------------------------------------------------

Tick ==
  /\ now < MaxTime /\ now' = now + 1
  /\ UNCHANGED <<main, net, held, queue, lastExecuteTime, local, history>>

Main == Initizal \/ Stop \/ End \/ Destruct \/ DeleteLock

Query(t) == NoConnection(t) \/ TryFails(t) \/ TrySucceeds(t) \/ GiveUp(t)

Thread(t) ==
  \/ Start(t) \/ Loop(t) \/ ReadClock(t) \/ CloseIdle(t) \/ FoundNothing(t) \/ Take(t)
  \/ Connect(t) \/ Query(t) \/ ProcMysql(t)

Next == Main \/ EnterQuery \/ LeaveQuery \/ (\E t \in Threads : Thread(t)) \/ Tick

Spec == Init /\ [][Next]_vars

\* Threads that can run do, MySQL answers or fails, and the callbacks return.
FairSpec ==
  /\ Spec
  /\ WF_vars(LeaveQuery)
  /\ WF_vars(End) /\ WF_vars(Destruct) /\ WF_vars(DeleteLock)
  /\ \A t \in Threads : WF_vars(Thread(t))

-----------------------------------------------------------------------------
(* Properties.                                                              *)

InHand(j) == {t \in Threads : sql[t] = j}
Answered(j) == {i \in 1 .. Len(answers) : answers[i].job = j}

\* Statement j is in the hands of exactly one thread, or was answered by exactly
\* one call of ProcMysql, or was dropped.
Settled(j) ==
  \/ j \in dropped /\ InHand(j) = {} /\ Answered(j) = {}
  \/ /\ j \notin dropped
     /\ \/ Answered(j) = {} /\ \E t \in Threads : InHand(j) = {t}
        \/ InHand(j) = {} /\ \E i \in 1 .. Len(answers) : Answered(j) = {i}

Untouched(j) == j \notin dropped /\ InHand(j) = {} /\ Answered(j) = {}

\* The queue holds the last statements accepted, in their order; every other
\* one is in the hands of exactly one thread, or was answered by exactly one
\* call of ProcMysql, or was dropped by Destory, whichever threads raced.
Conserved ==
  /\ Len(lstSql) <= accepted
  /\ \A i \in 1 .. Len(lstSql) : lstSql[i] = accepted - Len(lstSql) + i
  /\ \A j \in Jobs : IF j <= accepted - Len(lstSql) THEN Settled(j) ELSE Untouched(j)

\* What ProcMysql is told is true, though statements are retried on new
\* connections: success only of a statement that was executed, a connection
\* failure only of one that was not, and no statement is executed a fourth time.
AnswersTrue ==
  /\ \A j \in Jobs : executed[j] <= 3
  /\ \A i \in 1 .. Len(answers) :
       /\ answers[i].result = "success" => executed[answers[i].job] > 0
       /\ answers[i].result = "connectFail" => executed[answers[i].job] = 0

\* Between two statements a connection has no result to be read, and m_res no
\* address that Close or Query would free again.
ResultsRead ==
  \A t \in Threads :
    /\ db[t].res # "freed"
    /\ at[t] # "proc" => db[t].res = "null" /\ db[t].unread = <<>>

\* After Destory nothing enters the queue, and when the critical section is
\* deleted no thread will enter it any more.
Stopped ==
  /\ main \notin {"start", "run"} => lstSql = <<>>
  /\ main = "gone" =>
       ~using /\ \A t \in Threads : at[t] \notin {"start", "clock", "idle", "lock"}

\* A statement that was accepted gets its callback or is dropped at the end.
GetsAnswer ==
  \A j \in Jobs : accepted >= j ~> Answered(j) # {} \/ j \in dropped

=============================================================================
