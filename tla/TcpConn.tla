------------------------------- MODULE TcpConn -------------------------------
(***************************************************************************)
(* TcpConn and EventBase of handy, the event library of linux_serv: the    *)
(* life of an accepted connection, its output buffer, and the loop that    *)
(* calls everything in one thread.                                         *)
(*                                                                         *)
(* The loop waits for a batch of events, handles them one by one in an     *)
(* order of the kernel's choosing, and then runs the timers.  close() only *)
(* queues a task and writes a byte to the wakeup pipe; the task runs when  *)
(* that byte is handled, which is in the next batch, or in this one if its *)
(* wakeup is still to come.  The operators here are parts of actions: the  *)
(* module of the server conjoins them with what its callbacks do.          *)
(***************************************************************************)
EXTENDS Integers, Sequences, FiniteSets

CONSTANTS
  Conns,   \* bound: the connections there will be, numbered as they are accepted
  Slow,    \* bound: those for which the kernel may not take everything
  Broken,  \* bound: those whose peers may reset them
  Cell     \* what a byte of a stream can be

VARIABLES
  state,         \* state_
  writeEnabled,  \* the channel asks for write events
  output,        \* output_ holds bytes the kernel did not take
  tasks,         \* connections whose closing is in tasks_
  woken,         \* the batch being handled has a wakeup
  stream,        \* bytes that have arrived and were not read
  peer           \* what the peer has done with its end

conn == <<state, writeEnabled, output, tasks, woken, stream, peer>>

States == {"Invalid", "Handshaking", "Connected", "Closed", "Failed"}

ConnTyped ==
  /\ state \in [Conns -> States]
  /\ writeEnabled \in [Conns -> BOOLEAN]
  /\ output \in [Conns -> BOOLEAN]
  /\ tasks \subseteq Conns /\ woken \in BOOLEAN
  /\ stream \in [Conns -> Seq(Cell)]
  /\ peer \in [Conns -> {"open", "eof", "reset"}]

ConnInit ==
  /\ state = [c \in Conns |-> "Invalid"]
  /\ writeEnabled = [c \in Conns |-> FALSE]
  /\ output = [c \in Conns |-> FALSE]
  /\ tasks = {} /\ woken = FALSE
  /\ stream = [c \in Conns |-> <<>>]
  /\ peer = [c \in Conns |-> "open"]

\* channel_ is set.
Alive(c) == state[c] \in {"Handshaking", "Connected"}

Readable(c) == Alive(c) /\ (stream[c] # <<>> \/ peer[c] # "open")

-----------------------------------------------------------------------------
(* The peer. *)

Arrive(c, s) ==
  /\ Alive(c) /\ peer[c] = "open"
  /\ stream' = [stream EXCEPT ![c] = @ \o s]
  /\ UNCHANGED <<state, writeEnabled, output, tasks, woken, peer>>

PeerCloses(c) ==
  /\ Alive(c) /\ peer[c] = "open"
  /\ peer' = [peer EXCEPT ![c] = "eof"]
  /\ UNCHANGED <<state, writeEnabled, output, tasks, woken, stream>>

\* What was not read is lost.
PeerResets(c) ==
  /\ Alive(c) /\ c \in Broken /\ peer[c] # "reset"
  /\ peer' = [peer EXCEPT ![c] = "reset"]
  /\ stream' = [stream EXCEPT ![c] = <<>>]
  /\ UNCHANGED <<state, writeEnabled, output, tasks, woken>>

-----------------------------------------------------------------------------
(* Parts of the handlers. *)

\* handleAccept and attach: the channel asks for both events.
Attach(c) ==
  /\ state[c] = "Invalid" /\ \A d \in Conns : d < c => state[d] # "Invalid"
  /\ state' = [state EXCEPT ![c] = "Handshaking"]
  /\ writeEnabled' = [writeEnabled EXCEPT ![c] = TRUE]
  /\ UNCHANGED <<output, tasks, woken, stream, peer>>

\* Channel::close and cleanup, for connections whose read callback has nothing
\* left to read.  The channel is gone, and with it all that was to be sent or read.
CleanUp(cs) ==
  LET gone == {c \in cs : Alive(c)} IN
  /\ state' = [c \in Conns |-> IF c \notin gone THEN state[c]
                 ELSE IF state[c] = "Handshaking" THEN "Failed" ELSE "Closed"]
  /\ writeEnabled' = [c \in Conns |-> writeEnabled[c] /\ c \notin gone]
  /\ output' = [c \in Conns |-> output[c] /\ c \notin gone]
  /\ stream' = [c \in Conns |-> IF c \in gone THEN <<>> ELSE stream[c]]
  /\ peer' = [c \in Conns |-> IF c \in gone THEN "open" ELSE peer[c]]

\* poll() finds an error: cleanup from Handshaking.
HandshakeFails(c) ==
  /\ state[c] = "Handshaking" /\ peer[c] = "reset"
  /\ CleanUp({c})
  /\ UNCHANGED <<tasks, woken>>

\* Mutant: an EAGAIN does not ask for a write event.
BugNoWriteEvent(c, enabled) ==
  /\ output' \in {output, [output EXCEPT ![c] = TRUE]}
  /\ writeEnabled' = enabled

\* send(buf, len), when the write events asked for are enabled.  What the
\* kernel does not take is appended; after an error too, but then no write
\* event is asked for.
Send(c, enabled) ==
  \/ /\ ~Alive(c) \/ (~output[c] /\ peer[c] # "reset")
     /\ output' = output /\ writeEnabled' = enabled
  \/ /\ Alive(c) /\ peer[c] = "reset"
     /\ output' = [output EXCEPT ![c] = TRUE] /\ writeEnabled' = enabled
  \/ /\ Alive(c) /\ c \in Slow /\ peer[c] # "reset"
     /\ output' = [output EXCEPT ![c] = TRUE]
     /\ \/ ~output[c] /\ writeEnabled' = [enabled EXCEPT ![c] = TRUE]
        \/ output[c] /\ writeEnabled' = enabled

\* handleWrite: the poller calls it only when there is nothing to read.
WriteEvent(c) ==
  /\ state[c] = "Connected" /\ writeEnabled[c] /\ ~Readable(c)
  /\ \/ output[c] /\ UNCHANGED <<output, writeEnabled>>
     \/ /\ output' = [output EXCEPT ![c] = FALSE]
        /\ writeEnabled' = [writeEnabled EXCEPT ![c] = FALSE]
  /\ UNCHANGED <<state, tasks, woken, stream, peer>>

\* close(): nothing, when the channel is gone.
CloseTasks(cs) == tasks \cup {c \in cs : Alive(c)}

\* The end of a batch: the next one has a wakeup if a task is queued.
NextBatch(queued) == ~woken /\ woken' = (queued # {})
=============================================================================
