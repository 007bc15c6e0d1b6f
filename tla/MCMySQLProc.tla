----------------------------- MODULE MCMySQLProc -----------------------------
(* MySQLProc for TLC.                                                       *)
EXTENDS MySQLProc

\* The results of a CALL: of one or two SELECTs, then its status.
MCAnswers == {<<TRUE, FALSE>>, <<TRUE, TRUE, FALSE>>}
=============================================================================
