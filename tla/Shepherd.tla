------------------------------ MODULE Shepherd ------------------------------
(***************************************************************************)
(* The main TSI process, Server.connect: it accepts a connection of        *)
(* UNICORE/X, checks it, reads one command, calls back to UNICORE/X over   *)
(* one or two new sockets, and forks the worker that uses them.  A SIGCHLD *)
(* handler reaps the workers.                                              *)
(*                                                                         *)
(* Sockets are numbered.  A process holds a socket as long as it has the   *)
(* descriptor open: a fork copies what the parent holds, and a socket that *)
(* no Python variable refers to any more is closed by its finalizer.       *)
(*                                                                         *)
(* Signals are not counted: any number of workers that end before the      *)
(* handler starts cause one call of it.                                    *)
(***************************************************************************)
EXTENDS Integers, Sequences, FiniteSets

CONSTANTS
    Commands,     \* the messages UNICORE/X may send, see Command
    Lower, Upper, \* the configured range of local ports; Lower = 0: no range
    MaxConns      \* bound: connections made to the TSI, hence workers started

\* The messages, by the way connect parses them: the two that start a worker
\* (a forwarding request with or without a user), the two forms of set and
\* of shutdown (with and without a parameter after the blank), anything else,
\* and bytes that are not UTF-8.
Command ==
    {"newtsiprocess", "start-forwarding", "start-forwarding no user",
     "set key value", "set key=value", "shutdown now", "shutdown",
     "other", "not utf-8"}

ASSUME CommandAssumption == Commands \subseteq Command
ASSUME PortAssumption ==
    /\ Lower \in Nat /\ Upper \in Nat /\ Lower <= Upper
    /\ Lower = 0 => Upper = 0
ASSUME BoundAssumption == MaxConns \in Nat

Workers == 1 .. MaxConns
Sockets == 1 .. 2 * MaxConns
NoSocket == 0
UsePortRange == Lower > 0

VARIABLES
    ssl,       \* tsi.keystore is configured
    pc,        \* where the main process is
    conn,      \* the connection being served: its message, whether its host
               \* is an allowed one and its certificate an accepted one
    control,   \* main's socket of that connection: "none", "open", "closed"
    nconn,     \* connections accepted
    callbacks, \* xnjs_sockets
    latest,    \* new_socket
    closed,    \* sockets that main has closed
    fds,       \* the callback sockets each worker holds
    port,      \* the local port tried next, and the stored one of the range
    attempts,  \* attempts in this call of open_connection
    tried,     \* ghost: the ports tried in this call
    opened,    \* sockets opened so far
    id,        \* tsi.worker.id
    workers,   \* the workers: state, number, and the connection they serve
    listening, \* the workers that still hold the listening socket
    signal,    \* a SIGCHLD is pending
    handling   \* main is inside worker_completed

vars == <<ssl, pc, conn, control, nconn, callbacks, latest, closed, fds, port,
          attempts, tried, opened, id, workers, listening, signal, handling>>
sockVars == <<callbacks, latest, closed, opened>>
portVars == <<port, attempts, tried>>
workVars == <<fds, id, workers, listening, signal, handling>>
connVars == <<ssl, conn, control, nconn>>

Gone == {"exited", "crashed", "returned", "not forked"}
Alive == pc \notin Gone
NoConn == [cmd |-> "other", host |-> FALSE, cert |-> FALSE]
NoWorker == [state |-> "none", id |-> 0, conn |-> NoConn, socks |-> {}]

\* the sockets main still refers to and has not closed
Refs(list, one) == {list[i] : i \in DOMAIN list} \cup ({one} \ {NoSocket})
MainFds == Refs(callbacks, latest) \ closed

\* local ports taken by sockets that some process holds: a socket's port is
\* remembered in its place by port.of
PortInUse(n) ==
    \E s \in MainFds \cup UNION {fds[w] : w \in Workers} : port.of[s] = n

NumConns(cmd) == IF cmd = "newtsiprocess" THEN 2 ELSE 1

\* fault: no wrap at the end of the range
NextPortNoWrap(n) == n + 1

\* the next port of the range, with the wrap at its end
NextPort(n) == IF n + 1 > Upper THEN Lower ELSE n + 1

\* fault: the last port of the range is not tried
MaxAttemptsShort == IF UsePortRange THEN Upper - Lower ELSE 1

MaxAttempts == IF UsePortRange THEN Upper - Lower + 1 ELSE 1

Init ==
    /\ ssl \in BOOLEAN
    /\ pc = "accept"
    /\ conn = NoConn
    /\ control = "none"
    /\ nconn = 0
    /\ callbacks = <<>> /\ latest = NoSocket /\ closed = {} /\ opened = 0
    /\ fds = [w \in Workers |-> {}]
    /\ port = [try |-> Lower, stored |-> Lower, of |-> [s \in Sockets |-> Lower]]
    /\ attempts = 0 /\ tried = {}
    /\ id = 1
    /\ workers = [w \in Workers |-> NoWorker]
    /\ listening = {}
    /\ signal = FALSE /\ handling = FALSE

-----------------------------------------------------------------------------
(* The loop of connect.  A step of it is not taken inside the handler. *)

Step(from) == pc = from /\ ~handling

\* accept returns a connection
Accept ==
    /\ Step("accept")
    /\ nconn < MaxConns
    /\ \E c \in Commands, host \in BOOLEAN, cert \in BOOLEAN :
          /\ ~ssl => cert = FALSE
          /\ conn' = [cmd |-> c, host |-> host, cert |-> cert]
    /\ nconn' = nconn + 1
    /\ control' = "open"
    /\ pc' = "verify"
    /\ UNCHANGED ssl
    /\ UNCHANGED sockVars /\ UNCHANGED portVars /\ UNCHANGED workVars

\* an error of accept: connect returns nothing, which main cannot unpack
AcceptFails ==
    /\ Step("accept")
    /\ pc' = "returned"
    /\ UNCHANGED connVars
    /\ UNCHANGED sockVars /\ UNCHANGED portVars /\ UNCHANGED workVars

\* open_connection starts with the stored port
NewCall ==
    /\ port' = [port EXCEPT !.try = port.stored]
    /\ attempts' = 0 /\ tried' = {}

\* close_quietly(unicorex) and continue: wait for the next connection
Reject ==
    /\ pc' = "accept"
    /\ control' = "closed" /\ conn' = NoConn
    /\ NewCall
    /\ UNCHANGED <<ssl, nconn>>
    /\ UNCHANGED sockVars /\ UNCHANGED workVars

\* go on with this connection, or end the process
Proceed(label) ==
    /\ pc' = label
    /\ UNCHANGED connVars
    /\ UNCHANGED sockVars /\ UNCHANGED portVars /\ UNCHANGED workVars

\* verify_peer in SSL mode, and verify_ip in both modes
Accepted(c) == (ssl => c.cert) /\ c.host

Verify ==
    /\ Step("verify")
    /\ IF Accepted(conn) THEN Proceed("recv") ELSE Reject

\* a failed receive gives up the connection; a message that cannot be decoded
\* raises an exception that is not an EnvironmentError
Receive ==
    /\ Step("recv")
    /\ \/ Reject
       \/ Proceed(IF conn.cmd = "not utf-8" THEN "crashed" ELSE "command")

\* the command words.  A message without a blank is not a command, and set
\* with a single word after it raises a ValueError.
Interpret ==
    /\ Step("command")
    /\ CASE conn.cmd = "shutdown now" -> Proceed("exited")
         [] conn.cmd = "set key=value" -> Proceed("crashed")
         [] conn.cmd \in {"set key value", "shutdown", "other"} -> Reject
         [] OTHER -> Proceed("answer")

\* the answer OK, UNICORE/X's port, and the start of the callback: a new list
\* of sockets, while new_socket keeps the one of the previous callback
Answer ==
    /\ Step("answer")
    /\ \/ Reject
       \/ /\ pc' = "connect"
          /\ callbacks' = <<>>
          /\ NewCall
          /\ UNCHANGED <<latest, closed, opened>>
          /\ UNCHANGED connVars /\ UNCHANGED workVars

\* open_connection binds and connects.  The next call starts at the port
\* after this one.  In SSL mode the handshake follows; when it fails, the
\* wrapper has closed the socket.
ConnectSucceeds ==
    /\ Step("connect")
    /\ opened < 2 * MaxConns
    /\ UsePortRange => ~PortInUse(port.try)
    /\ opened' = opened + 1
    /\ latest' = opened'
    /\ LET next == IF UsePortRange THEN NextPort(port.try) ELSE port.stored
       IN  port' = [port EXCEPT !.try = next, !.stored = next,
                                !.of[opened'] = port.try]
    /\ attempts' = 0 /\ tried' = {}
    /\ \/ /\ callbacks' = Append(callbacks, opened')
          /\ closed' = closed
          /\ IF Len(callbacks') = NumConns(conn.cmd)
             THEN pc' = "fork" /\ control' = "closed" /\ UNCHANGED conn
             ELSE pc' = "connect" /\ UNCHANGED <<control, conn>>
       \/ /\ ssl
          /\ callbacks' = callbacks
          /\ closed' = closed \cup {opened'}
          /\ pc' = "accept" /\ control' = "closed" /\ conn' = NoConn
    /\ UNCHANGED <<ssl, nconn>> /\ UNCHANGED workVars

\* fault: attempts are not counted
PortTakenUncounted ==
    /\ Step("connect")
    /\ UsePortRange
    /\ tried' = tried \cup {port.try}
    /\ port' = [port EXCEPT !.try = NextPort(port.try)]
    /\ UNCHANGED <<pc, attempts>>
    /\ UNCHANGED connVars /\ UNCHANGED sockVars /\ UNCHANGED workVars

\* EADDRINUSE: the next port of the range, until all were tried; the
\* exception raised then is not an EnvironmentError
PortTaken ==
    /\ Step("connect")
    /\ UsePortRange
    /\ attempts' = attempts + 1
    /\ tried' = tried \cup {port.try}
    /\ port' = [port EXCEPT !.try = NextPort(port.try)]
    /\ pc' = IF attempts' < MaxAttempts THEN "connect" ELSE "crashed"
    /\ UNCHANGED connVars /\ UNCHANGED sockVars /\ UNCHANGED workVars

\* any other error, such as UNICORE/X not listening
ConnectFails == Step("connect") /\ Reject

\* fork: the worker starts with a copy of everything main holds
Fork ==
    /\ Step("fork")
    /\ \/ Proceed("not forked")
       \/ /\ \E w \in Workers :
                /\ workers[w].state = "none"
                /\ \A v \in Workers : v < w => workers[v].state # "none"
                /\ workers' = [workers EXCEPT ![w] =
                      [state |-> "new", id |-> id, conn |-> conn,
                       socks |-> {callbacks[i] : i \in 1 .. NumConns(conn.cmd)}]]
                /\ fds' = [fds EXCEPT ![w] = MainFds]
                /\ listening' = listening \cup {w}
          /\ pc' = "parent"
          /\ UNCHANGED <<id, signal, handling>>
          /\ UNCHANGED connVars /\ UNCHANGED sockVars /\ UNCHANGED portVars

\* fault: the parent keeps the sockets
ParentKeeps ==
    /\ Step("parent")
    /\ id' = id + 1
    /\ pc' = "accept" /\ conn' = NoConn
    /\ UNCHANGED <<callbacks, latest, closed, opened, fds, workers, listening, signal,
                   handling>>
    /\ UNCHANGED <<ssl, control, nconn>> /\ UNCHANGED portVars
\* the parent's branch: close the sockets, count the worker
Parent ==
    /\ Step("parent")
    /\ closed' = closed \cup {callbacks[i] : i \in 1 .. NumConns(conn.cmd)}
    /\ id' = id + 1
    /\ pc' = "accept" /\ conn' = NoConn
    /\ UNCHANGED <<callbacks, latest, opened, fds, workers, listening, signal, handling>>
    /\ UNCHANGED <<ssl, control, nconn>> /\ UNCHANGED portVars

-----------------------------------------------------------------------------
(* The workers and the signal handler. *)

\* a worker ends: its descriptors are closed and main gets a SIGCHLD
End(w) ==
    /\ workers' = [workers EXCEPT ![w].state = "zombie"]
    /\ fds' = [fds EXCEPT ![w] = {}]
    /\ signal' = TRUE

\* fault: the child keeps the listening socket
WorkerStartsListening(w) ==
    /\ workers[w].state = "new"
    /\ workers' = [workers EXCEPT ![w].state = "running"]
    /\ UNCHANGED <<pc, id, handling, fds, signal, listening>>
    /\ UNCHANGED connVars /\ UNCHANGED sockVars /\ UNCHANGED portVars

\* the child's branch: close the listening socket, reset the handler and
\* return, or fail on a forwarding command without a user
WorkerStarts(w) ==
    /\ workers[w].state = "new"
    /\ listening' = listening \ {w}
    /\ IF workers[w].conn.cmd = "start-forwarding no user"
       THEN End(w)
       ELSE /\ workers' = [workers EXCEPT ![w].state = "running"]
            /\ UNCHANGED <<fds, signal>>
    /\ UNCHANGED <<pc, id, handling>>
    /\ UNCHANGED connVars /\ UNCHANGED sockVars /\ UNCHANGED portVars

WorkerEnds(w) ==
    /\ workers[w].state = "running"
    /\ End(w)
    /\ UNCHANGED <<pc, id, listening, handling>>
    /\ UNCHANGED connVars /\ UNCHANGED sockVars /\ UNCHANGED portVars

\* the handler is called once for all signals so far
SignalDelivered ==
    /\ Alive /\ signal /\ ~handling
    /\ handling' = TRUE /\ signal' = FALSE
    /\ UNCHANGED <<pc, fds, id, workers, listening>>
    /\ UNCHANGED connVars /\ UNCHANGED sockVars /\ UNCHANGED portVars

\* fault: the handler waits for one worker only
WorkerCompletedOne ==
    /\ Alive /\ handling
    /\ handling' = FALSE
    /\ \/ \E w \in Workers :
             /\ workers[w].state = "zombie"
             /\ workers' = [workers EXCEPT ![w].state = "reaped"]
       \/ /\ \A w \in Workers : workers[w].state # "zombie"
          /\ UNCHANGED workers
    /\ UNCHANGED <<pc, fds, id, listening, signal>>
    /\ UNCHANGED connVars /\ UNCHANGED sockVars /\ UNCHANGED portVars

\* worker_completed: wait3 reaps workers one at a time until there is none
WorkerCompleted ==
    /\ Alive /\ handling
    /\ \/ \E w \in Workers :
             /\ workers[w].state = "zombie"
             /\ workers' = [workers EXCEPT ![w].state = "reaped"]
             /\ UNCHANGED handling
       \/ /\ \A w \in Workers : workers[w].state # "zombie"
          /\ handling' = FALSE
          /\ UNCHANGED workers
    /\ UNCHANGED <<pc, fds, id, listening, signal>>
    /\ UNCHANGED connVars /\ UNCHANGED sockVars /\ UNCHANGED portVars

-----------------------------------------------------------------------------
Serve ==
    \/ Verify \/ Interpret \/ Answer
    \/ ConnectSucceeds \/ PortTaken \/ ConnectFails \/ Fork \/ Parent

Next ==
    \/ Accept \/ AcceptFails \/ Receive \/ Serve
    \/ SignalDelivered \/ WorkerCompleted
    \/ \E w \in Workers : WorkerStarts(w) \/ WorkerEnds(w)
    \/ ~Alive /\ UNCHANGED vars

\* Main takes the steps of a connection whose command it has read: the system
\* calls in them return or have a time limit.  A pending signal is delivered.
\* No connection need ever come, no worker need ever end, and recv, which has
\* no time limit, need never return.
Fairness ==
    /\ WF_vars(Serve)
    /\ WF_vars(SignalDelivered)
    /\ WF_vars(WorkerCompleted)

Spec == Init /\ [][Next]_vars /\ Fairness

-----------------------------------------------------------------------------
(* Properties. *)

\* The types of the variables.
TypeOK ==
    /\ ssl \in BOOLEAN
    /\ pc \in Gone \cup {"accept", "verify", "recv", "command", "answer",
                         "connect", "fork", "parent"}
    /\ conn \in [cmd : Command, host : BOOLEAN, cert : BOOLEAN]
    /\ control \in {"none", "open", "closed"}
    /\ nconn \in Nat /\ opened \in Nat /\ id \in Nat /\ attempts \in Nat
    /\ callbacks \in Seq(Sockets) /\ latest \in Sockets \cup {NoSocket}
    /\ closed \in SUBSET Sockets
    /\ fds \in [Workers -> SUBSET Sockets]
    /\ port.try \in Lower .. Upper /\ port.stored \in Lower .. Upper
    /\ port.of \in [Sockets -> Lower .. Upper]
    /\ tried \in SUBSET (Lower .. Upper)
    /\ \A w \in Workers :
          workers[w].state \in {"none", "new", "running", "zombie", "reaped"}
    /\ listening \in SUBSET Workers
    /\ signal \in BOOLEAN /\ handling \in BOOLEAN

\* While main waits for the next connection the last one is closed, and main
\* holds no socket of a worker: a worker that ends closes its connections.
\* At most one socket of a callback that failed half-way is still open.
NothingLeftOpen ==
    pc = "accept" =>
        /\ control # "open"
        /\ \A w \in Workers : MainFds \cap fds[w] = {}
        /\ Cardinality(MainFds) <= 1

\* A worker that has started holds the sockets made for it and nothing else of
\* what main has open: not the listening socket, not a socket of another
\* worker or of an earlier callback that failed.
OwnSocketsOnly ==
    \A w \in Workers : workers[w].state = "running" =>
        /\ fds[w] = workers[w].socks
        /\ Cardinality(fds[w]) = NumConns(workers[w].conn.cmd)
        /\ w \notin listening
        /\ \A v \in Workers \ {w} : fds[v] \cap fds[w] = {}

\* A worker that ended is not overlooked by the handler: when there is one to
\* reap, the handler is at work or a signal is pending, although the signals
\* of several workers merge.
NoForgottenZombie ==
    Alive /\ (\E w \in Workers : workers[w].state = "zombie") => signal \/ handling

\* open_connection gives up only after an attempt with every port of the
\* range, wherever in the range it started.
EveryPortTried ==
    pc = "crashed" /\ attempts = MaxAttempts => tried = Lower .. Upper

\* A worker that ended is reaped, as long as main runs.
Reaped ==
    \A w \in Workers :
        (workers[w].state = "zombie") ~> (workers[w].state = "reaped" \/ ~Alive)

\* Main gets back to waiting for a connection or for its command, or ends:
\* neither the callback, with its retries, nor the fork can keep it.
Available == (pc \notin {"accept", "recv"}) ~> (pc \in {"accept", "recv"} \cup Gone)

\* The TSI keeps running: it ends on shutdown, or when it cannot accept or
\* start processes any more, and not because of a message it got.
KeepsRunning == pc # "crashed"
=============================================================================
