--------------------------- MODULE ShepherdProofs ---------------------------
(***************************************************************************)
(* Proofs about Shepherd, for every range of ports and every number of     *)
(* connections.                                                            *)
(*                                                                         *)
(* Three inductive invariants, each for one of the main process's tasks:   *)
(* the workers to reap, the ports to try, and the sockets, which move from *)
(* a call of open_connection through fork to one worker.                   *)
(***************************************************************************)
EXTENDS Shepherd, FiniteSetTheorems, SequenceTheorems, TLAPS

-----------------------------------------------------------------------------
(* The inductive invariants. *)

Conns == [cmd : Command, host : BOOLEAN, cert : BOOLEAN]
Ports == [try : Lower .. Upper, stored : Lower .. Upper,
          of : [Sockets -> Lower .. Upper]]
WorkerRecords ==
    [state : {"none", "new", "running", "zombie", "reaped"}, id : Nat,
     conn : Conns, socks : SUBSET Sockets]

\* fork comes when all sockets are there
Complete == pc \in {"fork", "parent"} => Len(callbacks) = NumConns(conn.cmd)

\* the types, with records in place of their fields, and the bound on sockets
Types ==
    /\ TypeOK
    /\ port \in Ports
    /\ workers \in [Workers -> WorkerRecords]
    /\ opened \in 0 .. 2 * MaxConns
    /\ Complete

\* the handler is at work or will be called
ZombieInv == (\E w \in Workers : workers[w].state = "zombie") => signal \/ handling

\* k ports in the order of the range, from first and around its end, are seen,
\* and p follows them
Walk(first, k, p, seen) ==
    \/ /\ first + k <= Upper
       /\ p = first + k
       /\ seen = first .. p - 1
    \/ /\ first + k > Upper
       /\ p = first + k - (Upper - Lower + 1)
       /\ seen = (first .. Upper) \cup (Lower .. p - 1)

\* a call of open_connection starts at the stored port and walks
PortInv ==
    /\ Walk(port.stored, attempts, port.try, tried)
    /\ attempts <= MaxAttempts
    /\ pc # "crashed" => attempts < MaxAttempts
    /\ ~UsePortRange => attempts = 0

-----------------------------------------------------------------------------
\* every socket that somebody refers to has been opened
Numbered ==
    /\ Refs(callbacks, latest) \subseteq 1 .. opened
    /\ closed \subseteq 1 .. opened
    /\ \A w \in Workers : fds[w] \subseteq 1 .. opened

\* no two workers hold the same socket
Apart == \A v, w \in Workers : v # w => fds[v] \cap fds[w] = {}

\* a worker holds what was made for it
Staffed ==
    \A w \in Workers :
        /\ workers[w].state \in {"new", "running"} =>
              /\ fds[w] = workers[w].socks
              /\ Cardinality(fds[w]) = NumConns(workers[w].conn.cmd)
        /\ workers[w].state = "running" => w \notin listening

\* main and the workers hold different sockets
MainApart == \A w \in Workers : MainFds \cap fds[w] = {}

\* the sockets of a callback that is complete
Ready ==
    /\ Len(callbacks) = NumConns(conn.cmd)
    /\ MainFds = {callbacks[i] : i \in 1 .. NumConns(conn.cmd)}
    /\ Cardinality(MainFds) = NumConns(conn.cmd)

Waiting == {"accept", "verify", "recv", "command", "answer"}

\* what main holds, by the place where it is
MainSockets ==
    /\ pc \in Waiting \cup {"connect", "fork"} => MainApart
    /\ pc \in Waiting => \A r, s \in MainFds : r = s
    /\ pc = "connect" =>
          \/ callbacks = <<>>
          \/ /\ callbacks = <<latest>> /\ latest \notin closed
             /\ conn.cmd = "newtsiprocess"
    /\ pc \in {"fork", "parent"} => Ready
    /\ pc \in {"accept", "fork", "parent"} => control # "open"

SocketInv == Numbered /\ Apart /\ Staffed /\ MainSockets
-----------------------------------------------------------------------------
(* Types. *)

\* The port after a port of the range is one of the range.
LEMMA NextPortInRange ==
    ASSUME NEW n \in Lower .. Upper
    PROVE  NextPort(n) \in Lower .. Upper
BY PortAssumption DEF NextPort

\* The parts of the type invariant, by the variables they are about.
TypesConn ==
    /\ ssl \in BOOLEAN /\ conn \in Conns
    /\ control \in {"none", "open", "closed"} /\ nconn \in Nat
TypesSock ==
    /\ callbacks \in Seq(Sockets) /\ latest \in Sockets \cup {NoSocket}
    /\ closed \in SUBSET Sockets /\ opened \in 0 .. 2 * MaxConns
TypesPort == port \in Ports /\ attempts \in Nat /\ tried \in SUBSET (Lower .. Upper)
TypesWork ==
    /\ fds \in [Workers -> SUBSET Sockets] /\ id \in Nat
    /\ workers \in [Workers -> WorkerRecords] /\ listening \in SUBSET Workers
    /\ signal \in BOOLEAN /\ handling \in BOOLEAN
Places ==
    Gone \cup {"accept", "verify", "recv", "command", "answer", "connect", "fork", "parent"}
TypesPc == pc \in Places /\ Complete

\* They make up the whole.
LEMMA TypeParts == Types <=> TypesConn /\ TypesSock /\ TypesPort /\ TypesWork /\ TypesPc
<1>1. ASSUME Types PROVE TypesConn /\ TypesSock /\ TypesPort /\ TypesWork /\ TypesPc
  BY <1>1 DEF Types, TypeOK, TypesConn, TypesSock, TypesPort, TypesWork, TypesPc, Places, Complete,
                 Conns
<1>2. ASSUME TypesConn, TypesSock, TypesPort, TypesWork, TypesPc PROVE Types
  <2>1. opened \in Nat
    BY <1>2, BoundAssumption DEF TypesSock
  <2>2. port.try \in Lower .. Upper /\ port.stored \in Lower .. Upper
        /\ port.of \in [Sockets -> Lower .. Upper]
    BY <1>2 DEF TypesPort, Ports
  <2>3. \A w \in Workers : workers[w].state \in {"none", "new", "running", "zombie", "reaped"}
    BY <1>2 DEF TypesWork, WorkerRecords
  <2> QED
    BY <1>2, <2>1, <2>2, <2>3
       DEF Types, TypeOK, TypesConn, TypesSock, TypesPort, TypesWork, TypesPc, Places, Complete, Conns
<1> QED
  BY <1>1, <1>2

\* The types hold at the start.
LEMMA InitTypes == Init => Types
<1> SUFFICES ASSUME Init PROVE Types
  OBVIOUS
<1>1. Lower \in Lower .. Upper /\ MaxConns \in Nat
  BY PortAssumption, BoundAssumption
<1>2. NoConn \in Conns
  BY DEF NoConn, Conns, Command
<1>3. TypesConn /\ TypesPc
  BY <1>2 DEF Init, TypesConn, TypesPc, Places, Complete
<1>4. TypesSock
  BY <1>1 DEF Init, TypesSock
<1>5. TypesPort
  BY <1>1 DEF Init, TypesPort, Ports
<1>6. TypesWork
  <2>1. NoWorker \in WorkerRecords
    BY <1>2 DEF NoWorker, WorkerRecords
  <2> QED
    BY <2>1 DEF Init, TypesWork
<1> QED
  BY <1>3, <1>4, <1>5, <1>6, TypeParts

\* A new call of open_connection, and the end of a connection.
LEMMA RejectTypes ==
    ASSUME Types, Reject
    PROVE  Types'
<1> USE TypeParts
<1>1. NoConn \in Conns
  BY DEF NoConn, Conns, Command
<1>2. TypesConn' /\ TypesPc'
  BY <1>1 DEF Reject, TypesConn, TypesPc, Places, Complete
<1>3. TypesPort'
  BY DEF Reject, NewCall, TypesPort, Ports
<1>4. TypesSock' /\ TypesWork'
  BY DEF Reject, sockVars, workVars, TypesSock, TypesWork
<1> QED
  BY <1>2, <1>3, <1>4, TypeParts, PTL

\* Going on with a connection, or the end of the process.
LEMMA ProceedTypes ==
    ASSUME Types, NEW l \in Places \ {"fork", "parent"}, Proceed(l)
    PROVE  Types'
<1>1. TypesConn' /\ TypesSock' /\ TypesPort' /\ TypesWork' /\ TypesPc'
  BY TypeParts DEF Proceed, Places, connVars, sockVars, portVars, workVars,
                   TypesConn, TypesSock, TypesPort, TypesWork, TypesPc, Complete
<1> QED
  BY <1>1, TypeParts, PTL

\* open_connection succeeds: a new socket, and the next port of the range.
LEMMA ConnectTypes ==
    ASSUME Types, ConnectSucceeds
    PROVE  Types'
<1>1. TypesConn /\ TypesSock /\ TypesPort /\ TypesWork /\ TypesPc /\ NoConn \in Conns
  BY TypeParts DEF NoConn, Conns, Command
<1>2. opened' \in 1 .. 2 * MaxConns /\ opened' \in Sockets
  BY <1>1, BoundAssumption DEF ConnectSucceeds, TypesSock, Sockets
<1>3. TypesSock'
  <2>1. callbacks' \in Seq(Sockets)
    <3> DEFINE new == opened'
    <3>1. callbacks \in Seq(Sockets) /\ new \in Sockets
      BY <1>1, <1>2 DEF TypesSock
    <3>2. callbacks' = callbacks \/ callbacks' = Append(callbacks, new)
      BY DEF ConnectSucceeds
    <3> HIDE DEF new
    <3> QED
      BY <3>1, <3>2
  <2> QED
    BY <1>1, <1>2, <2>1 DEF ConnectSucceeds, TypesSock
<1>4. TypesPort'
  <2>1. port.try \in Lower .. Upper /\ port.stored \in Lower .. Upper
    BY <1>1 DEF TypesPort, Ports
  <2>2. NextPort(port.try) \in Lower .. Upper
    BY <2>1, NextPortInRange
  <2>3. PICK n \in Lower .. Upper :
           port' = [port EXCEPT !.try = n, !.stored = n, !.of[opened'] = port.try]
    BY <2>1, <2>2 DEF ConnectSucceeds
  <2> DEFINE new == opened'
             of == [port.of EXCEPT ![new] = port.try]
  <2>4. of \in [Sockets -> Lower .. Upper]
    BY <1>1, <1>2, <2>1 DEF TypesPort, Ports
  <2>5. port' = [try |-> n, stored |-> n, of |-> of]
    BY <1>1, <2>3 DEF TypesPort, Ports
  <2> HIDE DEF of
  <2>6. port' \in Ports
    BY <2>4, <2>5 DEF Ports
  <2> QED
    BY <2>6 DEF ConnectSucceeds, TypesPort
<1>5. TypesConn' /\ TypesPc' /\ TypesWork'
  BY <1>1 DEF ConnectSucceeds, TypesConn, TypesPc, Places, Complete, TypesWork, workVars
<1> QED
  BY <1>3, <1>4, <1>5, TypeParts, PTL

\* fork: the record of the new worker.
LEMMA ForkTypes ==
    ASSUME Types, Fork
    PROVE  Types'
<1>1. TypesConn /\ TypesSock /\ TypesPort /\ TypesWork /\ TypesPc
  BY TypeParts
<1>2. CASE Proceed("not forked")
  BY <1>2, ProceedTypes DEF Places, Gone
<1>3. CASE ~Proceed("not forked")
  <2>1. PICK w \in Workers :
           /\ workers' = [workers EXCEPT ![w] =
                 [state |-> "new", id |-> id, conn |-> conn,
                  socks |-> {callbacks[i] : i \in 1 .. NumConns(conn.cmd)}]]
           /\ fds' = [fds EXCEPT ![w] = MainFds]
           /\ listening' = listening \cup {w}
    BY <1>3 DEF Fork
  <2>2. pc = "fork" /\ pc' = "parent" /\ UNCHANGED <<id, signal, handling>>
        /\ UNCHANGED connVars /\ UNCHANGED sockVars /\ UNCHANGED portVars
    BY <1>3 DEF Fork, Step
  <2>3. {callbacks[i] : i \in 1 .. NumConns(conn.cmd)} \in SUBSET Sockets
    BY <1>1, <2>2 DEF TypesPc, Complete, TypesSock
  <2>4. MainFds \in SUBSET Sockets
    BY <1>1 DEF MainFds, Refs, TypesSock
  <2>5. TypesWork'
    BY <1>1, <2>1, <2>2, <2>3, <2>4 DEF TypesWork, WorkerRecords, TypesConn
  <2>6. TypesConn' /\ TypesSock' /\ TypesPort' /\ TypesPc'
    BY <1>1, <2>2 DEF TypesConn, TypesSock, TypesPort, TypesPc, Places, Complete,
                      connVars, sockVars, portVars
  <2> QED
    BY <2>5, <2>6, TypeParts, PTL
<1> QED
  BY <1>2, <1>3

\* A worker starts or ends, and the handler reaps.
LEMMA WorkerTypes ==
    ASSUME Types,
           \/ SignalDelivered \/ WorkerCompleted
           \/ \E w \in Workers : WorkerStarts(w) \/ WorkerEnds(w)
    PROVE  Types'
<1>1. TypesConn /\ TypesSock /\ TypesPort /\ TypesWork /\ TypesPc
  BY TypeParts
<1>2. UNCHANGED pc /\ UNCHANGED connVars /\ UNCHANGED sockVars /\ UNCHANGED portVars
  BY DEF SignalDelivered, WorkerCompleted, WorkerStarts, WorkerEnds
<1>3. /\ \/ workers' = workers
         \/ \E w \in Workers, x \in {"running", "zombie", "reaped"} :
               workers' = [workers EXCEPT ![w].state = x]
      /\ fds' = fds \/ \E w \in Workers : fds' = [fds EXCEPT ![w] = {}]
      /\ listening' \subseteq listening /\ id' = id
      /\ signal' \in BOOLEAN /\ handling' \in BOOLEAN
  BY <1>1 DEF SignalDelivered, WorkerCompleted, WorkerStarts, WorkerEnds, End, TypesWork
<1>4. workers' \in [Workers -> WorkerRecords]
  BY <1>1, <1>3 DEF TypesWork, WorkerRecords
<1>5. fds' \in [Workers -> SUBSET Sockets]
  BY <1>1, <1>3 DEF TypesWork
<1>6. TypesWork'
  BY <1>1, <1>3, <1>4, <1>5 DEF TypesWork
<1>7. TypesConn' /\ TypesSock' /\ TypesPort' /\ TypesPc'
  BY <1>1, <1>2 DEF TypesConn, TypesSock, TypesPort, TypesPc, Complete,
                    connVars, sockVars, portVars
<1> QED
  BY <1>6, <1>7, TypeParts, PTL

\* Every step keeps the types.
LEMMA TypesInductive == Types /\ [Next]_vars => Types'
<1> SUFFICES ASSUME Types, [Next]_vars PROVE Types'
  OBVIOUS
<1>0. TypesConn /\ TypesSock /\ TypesPort /\ TypesWork /\ TypesPc /\ NoConn \in Conns
  BY TypeParts DEF NoConn, Conns, Command
<1>1. CASE Accept
  <2>1. TypesConn' /\ TypesPc'
    BY <1>0, <1>1, CommandAssumption
       DEF Accept, TypesConn, TypesPc, Places, Complete, Conns
  <2>2. TypesSock' /\ TypesPort' /\ TypesWork'
    BY <1>0, <1>1 DEF Accept, TypesSock, TypesPort, TypesWork, sockVars, portVars, workVars
  <2> QED
    BY <2>1, <2>2, TypeParts, PTL
<1>2. CASE AcceptFails
  <2>1. Proceed("returned")
    BY <1>2 DEF AcceptFails, Proceed
  <2> QED
    BY <2>1, ProceedTypes DEF Places, Gone
<1>3. CASE Receive \/ Verify \/ Interpret
  <2>1. Reject \/ \E l \in Places \ {"fork", "parent"} : Proceed(l)
    BY <1>3 DEF Receive, Verify, Interpret, Places, Gone
  <2> QED
    BY <2>1, ProceedTypes, RejectTypes
<1>4. CASE Answer
  <2>1. CASE Reject
    BY <2>1, RejectTypes
  <2>2. CASE ~Reject
    <3>1. TypesPort'
      BY <1>0, <1>4, <2>2 DEF Answer, NewCall, TypesPort, Ports
    <3>2. TypesSock'
      <4>1. callbacks' = <<>> /\ UNCHANGED <<latest, closed, opened>>
        BY <1>4, <2>2 DEF Answer
      <4> QED
        BY <1>0, <4>1 DEF TypesSock
    <3>3. TypesConn' /\ TypesPc' /\ TypesWork'
      BY <1>0, <1>4, <2>2
         DEF Answer, TypesConn, TypesPc, Places, Complete, TypesWork, connVars, workVars
    <3> QED
      BY <3>1, <3>2, <3>3, TypeParts, PTL
  <2> QED
    BY <2>1, <2>2
<1>5. CASE ConnectSucceeds
  BY <1>5, ConnectTypes
<1>6. CASE PortTaken
  <2>1. port.try \in Lower .. Upper
    BY <1>0 DEF TypesPort, Ports
  <2>2. NextPort(port.try) \in Lower .. Upper
    BY <2>1, NextPortInRange
  <2>3. port' = [port EXCEPT !.try = NextPort(port.try)]
    BY <1>6 DEF PortTaken
  <2>4. port' \in Ports
    BY <1>0, <2>2, <2>3 DEF TypesPort, Ports
  <2>5. TypesPort'
    BY <1>0, <1>6, <2>1, <2>4 DEF PortTaken, TypesPort
  <2>6. TypesConn' /\ TypesPc' /\ TypesWork' /\ TypesSock'
    BY <1>0, <1>6 DEF PortTaken, TypesConn, TypesPc, Places, Gone, Complete, TypesWork,
                      TypesSock, connVars, workVars, sockVars
  <2> QED
    BY <2>5, <2>6, TypeParts, PTL
<1>7. CASE ConnectFails
  BY <1>7, RejectTypes DEF ConnectFails
<1>8. CASE Fork
  BY <1>8, ForkTypes
<1>9. CASE Parent
  <2>1. {callbacks[i] : i \in 1 .. NumConns(conn.cmd)} \in SUBSET Sockets
    BY <1>0, <1>9 DEF Parent, Step, TypesPc, Complete, TypesSock
  <2>2. TypesSock'
    BY <1>0, <1>9, <2>1 DEF Parent, TypesSock
  <2>3. TypesConn' /\ TypesPc' /\ TypesWork' /\ TypesPort'
    BY <1>0, <1>9
       DEF Parent, TypesConn, TypesPc, Places, Complete, TypesWork, TypesPort, portVars
  <2> QED
    BY <2>2, <2>3, TypeParts, PTL
<1>10. CASE \/ SignalDelivered \/ WorkerCompleted
            \/ \E w \in Workers : WorkerStarts(w) \/ WorkerEnds(w)
  BY <1>10, WorkerTypes
<1>11. CASE UNCHANGED vars
  <2>1. TypesConn' /\ TypesPc' /\ TypesWork' /\ TypesPort' /\ TypesSock'
    BY <1>0, <1>11
       DEF vars, TypesConn, TypesPc, Complete, TypesWork, TypesPort, TypesSock
  <2> QED
    BY <2>1, TypeParts, PTL
<1> QED
  BY <1>1, <1>2, <1>3, <1>4, <1>5, <1>6, <1>7, <1>8, <1>9, <1>10, <1>11 DEF Next, Serve

\* The types hold always.
LEMMA TypesAlways == Spec => []Types
BY InitTypes, TypesInductive, PTL DEF Spec

\* The types of the main process's variables: among others, a port that is
\* tried or stored is one of the configured range, however often it wraps.
THEOREM ShepherdTypes == Spec => []TypeOK
<1>1. Types => TypeOK
  BY DEF Types
<1> QED
  BY <1>1, TypesAlways, PTL

-----------------------------------------------------------------------------
(* Workers to reap. *)

\* A worker that has ended is never overlooked: the handler, which one signal
\* starts for several workers, does not return while there is one to reap,
\* and one that ends later leaves another signal.
THEOREM NoneForgotten == Spec => []NoForgottenZombie
<1>1. Init => ZombieInv
  BY DEF Init, ZombieInv, NoWorker
<1>2. Types /\ ZombieInv /\ [Next]_vars => ZombieInv'
  <2> SUFFICES ASSUME Types, ZombieInv, [Next]_vars PROVE ZombieInv'
    OBVIOUS
  <2>0. workers \in [Workers -> WorkerRecords]
    BY DEF Types
  <2>1. CASE UNCHANGED <<workers, signal, handling>>
    BY <2>1 DEF ZombieInv
  <2>2. CASE Fork
    <3>1. CASE Proceed("not forked")
      BY <2>1, <3>1 DEF Proceed, workVars
    <3>2. CASE ~Proceed("not forked")
      <4>1. UNCHANGED <<signal, handling>>
        BY <2>2, <3>2 DEF Fork
      <4> DEFINE r == [state |-> "new", id |-> id, conn |-> conn,
                       socks |-> {callbacks[i] : i \in 1 .. NumConns(conn.cmd)}]
      <4>2. PICK w \in Workers : workers' = [workers EXCEPT ![w] = r]
        BY <2>2, <3>2 DEF Fork
      <4>3. r.state = "new"
        OBVIOUS
      <4> HIDE DEF r
      <4>4. \A v \in Workers : workers'[v].state = "zombie" => workers[v].state = "zombie"
        BY <2>0, <4>2, <4>3
      <4> QED
        BY <4>1, <4>4 DEF ZombieInv
    <3> QED
      BY <3>1, <3>2
  <2>3. CASE SignalDelivered
    BY <2>3 DEF SignalDelivered, ZombieInv
  <2>4. CASE WorkerCompleted
    BY <2>0, <2>4 DEF WorkerCompleted, ZombieInv, WorkerRecords
  <2>5. ASSUME NEW w \in Workers, WorkerStarts(w) \/ WorkerEnds(w) PROVE ZombieInv'
    BY <2>0, <2>5 DEF WorkerStarts, WorkerEnds, End, ZombieInv, WorkerRecords
  <2>6. CASE Accept \/ AcceptFails \/ Receive \/ Verify \/ Interpret \/ Answer
            \/ ConnectSucceeds \/ PortTaken \/ ConnectFails \/ Parent \/ UNCHANGED vars
    BY <2>1, <2>6
       DEF Accept, AcceptFails, Receive, Verify, Interpret, Answer, ConnectSucceeds,
           PortTaken, ConnectFails, Parent, vars, Reject, Proceed, workVars
  <2> QED
    BY <2>2, <2>3, <2>4, <2>5, <2>6 DEF Next, Serve
<1>3. ZombieInv => NoForgottenZombie
  BY DEF ZombieInv, NoForgottenZombie
<1> QED
  BY <1>1, <1>2, <1>3, TypesAlways, PTL DEF Spec

-----------------------------------------------------------------------------
(* Ports to try. *)

\* The next port of a walk around the range is as far from the first as the
\* number of attempts says, and the ports behind it have been tried.
LEMMA WalkOn ==
    ASSUME NEW first \in Lower .. Upper, NEW k \in Nat, k <= Upper - Lower,
           NEW p, NEW seen, Walk(first, k, p, seen)
    PROVE  Walk(first, k + 1, NextPort(p), seen \cup {p})
<1>1. Lower \in Nat /\ Upper \in Nat /\ first \in Nat /\ Lower <= first /\ first <= Upper
  BY PortAssumption
<1>2. CASE first + k <= Upper
  <2>1. p = first + k /\ seen = first .. p - 1
    BY <1>1, <1>2 DEF Walk
  <2>2. seen \cup {p} = first .. p
    BY <1>1, <2>1
  <2>3. CASE p + 1 <= Upper
    <3>1. NextPort(p) = p + 1
      BY <1>1, <2>1, <2>3 DEF NextPort
    <3> QED
      BY <1>1, <2>1, <2>2, <2>3, <3>1 DEF Walk
  <2>4. CASE ~(p + 1 <= Upper)
    <3>1. NextPort(p) = Lower /\ p = Upper
      BY <1>1, <1>2, <2>1, <2>4 DEF NextPort
    <3>2. Lower .. Lower - 1 = {}
      BY <1>1
    <3> QED
      BY <1>1, <2>1, <2>2, <2>4, <3>1, <3>2 DEF Walk
  <2> QED
    BY <2>3, <2>4
<1>3. CASE ~(first + k <= Upper)
  <2>1. /\ p = first + k - (Upper - Lower + 1)
        /\ seen = (first .. Upper) \cup (Lower .. p - 1)
    BY <1>1, <1>3 DEF Walk
  <2>2. p \in Int /\ p < first /\ Lower <= p
    BY <1>1, <1>3, <2>1
  <2>3. NextPort(p) = p + 1
    BY <1>1, <2>2 DEF NextPort
  <2>4. (Lower .. p - 1) \cup {p} = Lower .. p
    BY <1>1, <2>2
  <2>5. seen \cup {p} = (first .. Upper) \cup (Lower .. p)
    BY <2>1, <2>4
  <2> QED
    BY <1>1, <1>3, <2>1, <2>2, <2>3, <2>5 DEF Walk
<1> QED
  BY <1>2, <1>3

\* A walk around the whole range has tried all of it.
LEMMA WalkRound ==
    ASSUME NEW first \in Lower .. Upper, NEW p, NEW seen,
           Walk(first, Upper - Lower + 1, p, seen)
    PROVE  seen = Lower .. Upper
<1>1. Lower \in Nat /\ Upper \in Nat /\ first \in Nat /\ Lower <= first /\ first <= Upper
  BY PortAssumption
<1>2. ~(first + (Upper - Lower + 1) <= Upper)
  BY <1>1
<1>3. p = first /\ seen = (first .. Upper) \cup (Lower .. first - 1)
  BY <1>1, <1>2 DEF Walk
<1> QED
  BY <1>1, <1>3

\* No step has been taken at the start of a walk.
LEMMA WalkStart ==
    ASSUME NEW first \in Lower .. Upper
    PROVE  Walk(first, 0, first, {})
BY PortAssumption DEF Walk

\* open_connection gives up only after an attempt with every port of the
\* range: for every range, and wherever the stored port is in it.
THEOREM AllPortsTried == Spec => []EveryPortTried
<1>1. Init => PortInv
  <2> SUFFICES ASSUME Init PROVE PortInv
    OBVIOUS
  <2>1. /\ port.stored = Lower /\ port.try = Lower /\ attempts = 0 /\ tried = {}
        /\ Lower \in Lower .. Upper
    BY PortAssumption DEF Init
  <2>2. Walk(port.stored, attempts, port.try, tried)
    BY <2>1, WalkStart
  <2>3. 0 < MaxAttempts
    BY PortAssumption DEF MaxAttempts
  <2> QED
    BY <2>1, <2>2, <2>3, PortAssumption DEF PortInv, MaxAttempts
<1>2. Types /\ PortInv /\ [Next]_vars => PortInv'
  <2> SUFFICES ASSUME Types, PortInv, [Next]_vars PROVE PortInv'
    OBVIOUS
  <2>0. /\ port \in Ports /\ attempts \in Nat /\ port.stored \in Lower .. Upper
        /\ port.try \in Lower .. Upper /\ MaxAttempts \in Nat /\ 0 < MaxAttempts
    <3>1. port \in Ports /\ attempts \in Nat
      BY DEF Types, TypeOK
    <3>2. MaxAttempts \in Nat /\ 0 < MaxAttempts
      BY PortAssumption DEF MaxAttempts, UsePortRange
    <3> QED
      BY <3>1, <3>2 DEF Ports
  <2>1. CASE UNCHANGED <<port, attempts, tried>> /\ (pc = "crashed" => pc' = "crashed")
    BY <2>1 DEF PortInv
  <2>2. ASSUME NewCall PROVE PortInv'
    <3>1. /\ port'.stored = port.stored /\ port'.try = port.stored
          /\ attempts' = 0 /\ tried' = {}
      BY <2>0, <2>2 DEF NewCall, Ports
    <3>2. Walk(port.stored, 0, port.stored, {})
      BY <2>0, WalkStart
    <3> QED
      BY <2>0, <3>1, <3>2 DEF PortInv, Walk, MaxAttempts, UsePortRange
  <2>3. CASE ConnectSucceeds
    <3>1. /\ port'.stored = port'.try /\ attempts' = 0 /\ tried' = {}
      BY <2>0, <2>3 DEF ConnectSucceeds, Ports
    <3>2. port'.stored \in Lower .. Upper
      <4>1. Types'
        BY TypesInductive
      <4> QED
        BY <4>1 DEF Types, TypeOK
    <3>3. Walk(port'.stored, 0, port'.stored, {})
      BY <3>2, WalkStart
    <3> QED
      BY <2>0, <3>1, <3>3 DEF PortInv, Walk, MaxAttempts, UsePortRange
  <2>4. CASE PortTaken
    <3>1. /\ UsePortRange /\ pc = "connect"
          /\ attempts' = attempts + 1 /\ tried' = tried \cup {port.try}
          /\ port'.stored = port.stored /\ port'.try = NextPort(port.try)
          /\ attempts' < MaxAttempts \/ pc' = "crashed"
      BY <2>0, <2>4 DEF PortTaken, Step, Ports
    <3>2. attempts < MaxAttempts /\ MaxAttempts = Upper - Lower + 1
      BY <3>1 DEF PortInv, MaxAttempts
    <3>3. attempts <= Upper - Lower
      BY <2>0, <3>2, PortAssumption
    <3>4. Walk(port.stored, attempts + 1, NextPort(port.try), tried \cup {port.try})
      <4>1. Walk(port.stored, attempts, port.try, tried)
        BY DEF PortInv
      <4> QED
        BY <2>0, <3>3, <4>1, WalkOn
    <3>5. attempts' <= MaxAttempts
      BY <2>0, <3>1, <3>2
    <3> QED
      BY <3>1, <3>4, <3>5 DEF PortInv, Walk, MaxAttempts, UsePortRange
  <2>5. CASE Accept \/ AcceptFails \/ Fork \/ Parent \/ SignalDelivered \/ WorkerCompleted
             \/ (\E w \in Workers : WorkerStarts(w) \/ WorkerEnds(w)) \/ UNCHANGED vars
    BY <2>1, <2>5
       DEF Accept, AcceptFails, Fork, Parent, SignalDelivered, WorkerCompleted, WorkerStarts,
           WorkerEnds, Step, vars, Proceed, portVars
  <2>6. CASE Receive \/ Verify \/ Interpret \/ Answer \/ ConnectFails
    BY <2>1, <2>2, <2>6
       DEF Receive, Verify, Interpret, Answer, ConnectFails, Step, Proceed, Reject, portVars
  <2> QED
    BY <2>3, <2>4, <2>5, <2>6 DEF Next, Serve
<1>3. Types /\ PortInv => EveryPortTried
  <2> SUFFICES ASSUME Types, PortInv, pc = "crashed", attempts = MaxAttempts
               PROVE  tried = Lower .. Upper
    BY DEF EveryPortTried
  <2>1. attempts = Upper - Lower + 1
    BY DEF PortInv, MaxAttempts
  <2>2. Walk(port.stored, Upper - Lower + 1, port.try, tried)
    BY <2>1 DEF PortInv
  <2> QED
    BY <2>2, WalkRound DEF Types, TypeOK
<1> QED
  BY <1>1, <1>2, <1>3, TypesAlways, PTL DEF Spec

-----------------------------------------------------------------------------
(* Sockets. *)

\* The sockets of an empty list, of a list with one, and of one with two.
LEMMA RefsOf ==
    ASSUME NEW r \in Sockets, NEW s \in Sockets, NEW x
    PROVE  /\ Refs(<<>>, x) = {x} \ {NoSocket}
           /\ Refs(<<s>>, s) = {s} /\ Refs(<<s>>, r) = {r, s}
           /\ Refs(<<r, s>>, s) = {r, s}
<1>1. s # NoSocket /\ r # NoSocket
  BY BoundAssumption DEF Sockets, NoSocket
<1>2. {<<>>[i] : i \in DOMAIN <<>>} = {}
  OBVIOUS
<1>3. {<<s>>[i] : i \in DOMAIN <<s>>} = {s}
  OBVIOUS
<1>4. {<<r, s>>[i] : i \in DOMAIN <<r, s>>} = {r, s}
  OBVIOUS
<1> QED
  BY <1>1, <1>2, <1>3, <1>4 DEF Refs

\* The list with a second socket.
LEMMA SecondSocket ==
    ASSUME NEW r \in Sockets, NEW s \in Sockets
    PROVE  Append(<<r>>, s) = <<r, s>>
<1> DEFINE a == Append(<<r>>, s)
           b == <<r, s>>
<1>1. a \in Seq(Sockets) /\ Len(a) = 2 /\ b \in Seq(Sockets) /\ Len(b) = 2
  OBVIOUS
<1>2. a[1] = r
  BY AppendProperties
<1>3. a[2] = s
  BY AppendProperties
<1>4. b[1] = r /\ b[2] = s
  OBVIOUS
<1> HIDE DEF a, b
<1>5. \A i \in 1 .. Len(a) : a[i] = b[i]
  BY <1>1, <1>2, <1>3, <1>4
<1>6. a = b
  BY <1>1, <1>5, SeqEqual
<1> QED
  BY <1>6 DEF a, b

\* Before the callback is complete main holds at most one socket.
LEMMA AtMostOne ==
    ASSUME Types, SocketInv, pc \in Waiting \cup {"connect"}
    PROVE  \A r, s \in MainFds : r = s
<1>1. CASE pc \in Waiting
  BY <1>1 DEF SocketInv, MainSockets
<1>2. CASE pc = "connect"
  <2>1. callbacks = <<>> \/ callbacks = <<latest>>
    BY <1>2 DEF SocketInv, MainSockets
  <2>2. MainFds \subseteq {latest}
    BY <2>1, RefsOf DEF MainFds, Refs
  <2> QED
    BY <2>2
<1> QED
  BY <1>1, <1>2

\* A step that moves no socket, on the way to the next connection or out.
LEMMA NoSocketMoves ==
    ASSUME Types, SocketInv,
           UNCHANGED <<callbacks, latest, closed, opened, fds, workers, listening>>,
           \/ pc' \in Gone
           \/ /\ pc \in Waiting \cup {"connect"} /\ pc' \in Waiting
              /\ pc' = "accept" => control' # "open"
    PROVE  SocketInv'
<1>1. MainFds' = MainFds
  BY DEF MainFds, Refs
<1>2. Numbered' /\ Apart'
  BY DEF SocketInv, Numbered, Apart, Refs
<1>3. Staffed'
  BY DEF SocketInv, Staffed, NumConns
<1>4. MainSockets'
  <2>1. CASE pc' \in Gone
    BY <2>1 DEF MainSockets, Gone, Waiting
  <2>2. CASE pc' \in Waiting /\ pc \in Waiting \cup {"connect"}
    <3>1. \A r, s \in MainFds : r = s
      BY <2>2, AtMostOne
    <3>2. MainApart
      BY <2>2 DEF SocketInv, MainSockets
    <3>3. MainApart'
      BY <1>1, <3>2 DEF MainApart
    <3> QED
      BY <1>1, <2>2, <3>1, <3>3 DEF MainSockets, Waiting, Gone
  <2> QED
    BY <2>1, <2>2
<1> QED
  BY <1>2, <1>3, <1>4 DEF SocketInv

\* The callback starts with an empty list of sockets.
LEMMA AnswerSockets ==
    ASSUME Types, SocketInv, Answer, ~Reject
    PROVE  SocketInv'
<1>1. /\ pc = "answer" /\ pc' = "connect" /\ callbacks' = <<>>
      /\ UNCHANGED <<latest, closed, opened, fds, workers, listening>>
  BY DEF Answer, Step, workVars
<1>2. MainFds' \subseteq MainFds /\ Refs(callbacks, latest)' \subseteq Refs(callbacks, latest)
  BY <1>1 DEF MainFds, Refs
<1>3. Numbered' /\ Apart'
  BY <1>1, <1>2 DEF SocketInv, Numbered, Apart
<1>4. Staffed'
  BY <1>1 DEF SocketInv, Staffed, NumConns
<1>5. MainApart
  BY <1>1 DEF SocketInv, MainSockets, Waiting
<1>6. MainApart'
  BY <1>1, <1>2, <1>5 DEF MainApart
<1>7. MainSockets'
  BY <1>1, <1>6 DEF MainSockets, Waiting
<1> QED
  BY <1>3, <1>4, <1>7 DEF SocketInv

\* open_connection returns a socket that nobody has: it joins those of the
\* callback, or is closed after a failed handshake.
LEMMA ConnectSockets ==
    ASSUME Types, SocketInv, ConnectSucceeds
    PROVE  SocketInv'
<1> DEFINE o == opened'
           l == latest
<1>1. /\ pc = "connect" /\ latest' = o
      /\ UNCHANGED <<fds, workers, listening>>
      /\ \/ /\ callbacks' = Append(callbacks, o) /\ closed' = closed
            /\ IF Len(callbacks') = NumConns(conn.cmd)
               THEN pc' = "fork" /\ control' = "closed" /\ UNCHANGED conn
               ELSE pc' = "connect" /\ UNCHANGED <<control, conn>>
         \/ /\ callbacks' = callbacks /\ closed' = closed \cup {o}
            /\ pc' = "accept" /\ control' = "closed"
  BY DEF ConnectSucceeds, Step, workVars
<1>2. o \in Sockets /\ opened \in Nat /\ o = opened + 1 /\ o # NoSocket
  BY BoundAssumption DEF ConnectSucceeds, Types, Sockets, NoSocket
<1>3. \A n \in 1 .. opened : n \in 1 .. o /\ n # o
  BY <1>2
<1>4. /\ o \in 1 .. o /\ o \notin closed /\ o \notin MainFds
      /\ \A w \in Workers : o \notin fds[w]
  BY <1>2, <1>3 DEF SocketInv, Numbered, MainFds
<1>5. latest \in Sockets \cup {NoSocket} /\ conn.cmd \in Command
  BY DEF Types, TypeOK
<1> HIDE DEF o, l
<1>6. \/ callbacks = <<>>
      \/ /\ callbacks = <<l>> /\ l \notin closed /\ l \in Sockets
         /\ NumConns(conn.cmd) = 2
  <2>1. callbacks = <<l>> => l \in Sockets
    <3>1. callbacks \in Seq(Sockets)
      BY DEF Types, TypeOK
    <3> QED
      BY <3>1
  <2> QED
    BY <1>1, <2>1 DEF SocketInv, MainSockets, NumConns, l
\* the list, and what main holds, after the step
<1>7. \/ /\ callbacks' = <<o>> /\ closed' = closed
         /\ Refs(callbacks', o) = {o} /\ MainFds' = {o}
      \/ /\ callbacks' = <<l, o>> /\ closed' = closed /\ NumConns(conn.cmd) = 2
         /\ l \in MainFds /\ l # o
         /\ Refs(callbacks', o) = {l, o} /\ MainFds' = {l, o}
      \/ /\ pc' = "accept" /\ closed' = closed \cup {o}
         /\ \/ Refs(callbacks', o) = {o} /\ MainFds' = {}
            \/ l \in MainFds /\ Refs(callbacks', o) = {l, o} /\ MainFds' = {l}
  <2>0. MainFds' = Refs(callbacks', o) \ closed'
    BY <1>1 DEF MainFds, Refs, o
  <2>1. CASE callbacks = <<>>
    <3>1. CASE callbacks' = Append(callbacks, o) /\ closed' = closed
      <4>1. callbacks' = <<o>>
        BY <2>1, <3>1
      <4>2. Refs(callbacks', o) = {o}
        BY <1>2, <4>1, RefsOf
      <4> QED
        BY <1>4, <2>0, <3>1, <4>1, <4>2
    <3>2. CASE callbacks' = callbacks /\ closed' = closed \cup {o} /\ pc' = "accept"
      <4>1. Refs(callbacks', o) = {o}
        <5>1. Refs(<<>>, o) = {o}
          BY <1>2, RefsOf
        <5> QED
          BY <2>1, <3>2, <5>1
      <4> QED
        BY <2>0, <3>2, <4>1
    <3> QED
      BY <1>1, <3>1, <3>2
  <2>2. CASE callbacks = <<l>> /\ l \notin closed /\ l \in Sockets /\ NumConns(conn.cmd) = 2
    <3>0. l \in MainFds /\ l # o
      <4>1. MainFds = Refs(<<l>>, l) \ closed
        BY <2>2 DEF MainFds, l
      <4>2. Refs(<<l>>, l) = {l}
        BY <2>2, RefsOf
      <4> QED
        BY <1>4, <2>2, <4>1, <4>2
    <3>1. CASE callbacks' = Append(callbacks, o) /\ closed' = closed
      <4>1. callbacks' = <<l, o>>
        <5>1. Append(<<l>>, o) = <<l, o>>
          BY <1>2, <2>2, SecondSocket
        <5> QED
          BY <2>2, <3>1, <5>1
      <4>2. Refs(callbacks', o) = {l, o}
        BY <1>2, <2>2, <4>1, RefsOf
      <4> QED
        BY <1>4, <2>0, <2>2, <3>0, <3>1, <4>1, <4>2
    <3>2. CASE callbacks' = callbacks /\ closed' = closed \cup {o} /\ pc' = "accept"
      <4>1. Refs(callbacks', o) = {l, o}
        <5>1. Refs(<<l>>, o) = {o, l} /\ {o, l} = {l, o}
          BY <1>2, <2>2, RefsOf
        <5> QED
          BY <2>2, <3>2, <5>1
      <4> QED
        BY <2>0, <2>2, <3>0, <3>2, <4>1
    <3> QED
      BY <1>1, <3>1, <3>2
  <2> QED
    BY <1>6, <2>1, <2>2
<1>8. MainFds' \subseteq MainFds \cup {o} /\ Refs(callbacks', o) \subseteq MainFds \cup {o}
  BY <1>7
<1>9. Numbered'
  <2>1. MainFds \subseteq 1 .. opened /\ closed \subseteq 1 .. opened
        /\ \A w \in Workers : fds[w] \subseteq 1 .. opened
    BY DEF SocketInv, Numbered, MainFds
  <2>2. Refs(callbacks', latest') \subseteq 1 .. o /\ closed' \subseteq 1 .. o
        /\ \A w \in Workers : fds'[w] \subseteq 1 .. o
    BY <1>1, <1>3, <1>4, <1>7, <1>8, <2>1
  <2> QED
    BY <2>2 DEF Numbered, Refs, o
<1>10. Apart' /\ Staffed'
  BY <1>1 DEF SocketInv, Apart, Staffed, NumConns
<1>11. MainApart'
  <2>1. MainApart
    BY <1>1 DEF SocketInv, MainSockets
  <2> QED
    BY <1>1, <1>4, <1>8, <2>1 DEF MainApart
<1>12. MainSockets'
  <2>1. CASE pc' = "accept"
    <3>1. \A r, s \in MainFds' : r = s
      BY <1>1, <1>4, <1>7, <2>1
    <3>2. control' # "open"
      BY <1>1, <2>1
    <3> QED
      BY <1>11, <2>1, <3>1, <3>2 DEF MainSockets, Waiting
  <2>2. CASE pc' = "connect"
    <3>1. callbacks' = <<o>> /\ conn' = conn /\ NumConns(conn.cmd) # 1 /\ closed' = closed
      BY <1>1, <1>7, <2>2
    <3>2. conn'.cmd = "newtsiprocess"
      BY <3>1 DEF NumConns
    <3> QED
      BY <1>1, <1>4, <1>11, <2>2, <3>1, <3>2 DEF MainSockets, Waiting
  <2>3. CASE pc' = "fork"
    <3>1. control' # "open" /\ conn' = conn /\ Len(callbacks') = NumConns(conn.cmd)
      BY <1>1, <2>3
    <3>2. Ready'
      <4>1. CASE callbacks' = <<o>> /\ MainFds' = {o}
        <5>1. NumConns(conn.cmd) = 1 /\ {callbacks'[i] : i \in 1 .. 1} = {o}
          BY <3>1, <4>1
        <5>2. Cardinality({o}) = 1
          BY FS_Singleton
        <5> QED
          BY <3>1, <4>1, <5>1, <5>2 DEF Ready, NumConns
      <4>2. CASE callbacks' = <<l, o>> /\ MainFds' = {l, o} /\ l # o
        <5>1. NumConns(conn.cmd) = 2 /\ {callbacks'[i] : i \in 1 .. 2} = {l, o}
          BY <3>1, <4>2
        <5>2. Cardinality({l, o}) = 2
          <6>1. IsFiniteSet({l}) /\ Cardinality({l}) = 1 /\ {l} \cup {o} = {l, o}
            BY FS_Singleton
          <6> QED
            BY <4>2, <6>1, FS_AddElement
        <5> QED
          BY <3>1, <4>2, <5>1, <5>2 DEF Ready, NumConns
      <4> QED
        BY <1>7, <2>3, <4>1, <4>2
    <3> QED
      BY <1>11, <2>3, <3>1, <3>2 DEF MainSockets, Waiting
  <2> QED
    BY <1>1, <2>1, <2>2, <2>3
<1> QED
  BY <1>9, <1>10, <1>11, <1>12 DEF SocketInv
\* fork: the new worker gets what main holds, all of it made for this worker.
LEMMA ForkSockets ==
    ASSUME Types, SocketInv, Fork, ~Proceed("not forked")
    PROVE  SocketInv'
<1> DEFINE socks == {callbacks[i] : i \in 1 .. NumConns(conn.cmd)}
           new == [state |-> "new", id |-> id, conn |-> conn, socks |-> socks]
<1>1. /\ pc = "fork" /\ pc' = "parent"
      /\ UNCHANGED <<callbacks, latest, closed, opened, conn, control>>
  BY DEF Fork, Step, sockVars, connVars
<1>2. PICK w \in Workers :
         /\ workers' = [workers EXCEPT ![w] = new]
         /\ fds' = [fds EXCEPT ![w] = MainFds]
         /\ listening' = listening \cup {w}
  BY DEF Fork
<1>3. /\ workers \in [Workers -> WorkerRecords] /\ fds \in [Workers -> SUBSET Sockets]
      /\ new.state = "new" /\ new.socks = socks /\ new.conn = conn
  BY DEF Types, TypeOK
<1>4. MainApart /\ Ready /\ control # "open" /\ MainFds = socks
  BY <1>1 DEF SocketInv, MainSockets, Ready
<1> HIDE DEF new, socks
<1>5. /\ workers'[w] = new /\ fds'[w] = MainFds
      /\ \A v \in Workers \ {w} : /\ workers'[v] = workers[v] /\ fds'[v] = fds[v]
                                  /\ v \in listening' => v \in listening
  BY <1>2, <1>3
<1>6. MainFds' = MainFds /\ MainFds \subseteq Refs(callbacks, latest)
  BY <1>1 DEF MainFds, Refs
<1>7. Numbered'
  <2>1. \A v \in Workers : fds'[v] \subseteq 1 .. opened
    BY <1>5, <1>6 DEF SocketInv, Numbered
  <2> QED
    BY <1>1, <2>1 DEF SocketInv, Numbered, Refs
<1>8. Apart'
  BY <1>4, <1>5 DEF SocketInv, Apart, MainApart
<1>9. Staffed'
  <2>1. ASSUME NEW v \in Workers \ {w}
        PROVE  /\ workers'[v].state \in {"new", "running"} =>
                     /\ fds'[v] = workers'[v].socks
                     /\ Cardinality(fds'[v]) = NumConns(workers'[v].conn.cmd)
               /\ workers'[v].state = "running" => v \notin listening'
    BY <1>5 DEF SocketInv, Staffed
  <2>2. /\ fds'[w] = workers'[w].socks /\ workers'[w].state = "new"
        /\ Cardinality(fds'[w]) = NumConns(workers'[w].conn.cmd)
    BY <1>3, <1>4, <1>5 DEF Ready
  <2> QED
    BY <2>1, <2>2 DEF Staffed, NumConns
<1>10. MainSockets'
  <2>1. Ready'
    BY <1>1, <1>4, <1>6 DEF Ready, NumConns
  <2> QED
    BY <1>1, <1>4, <2>1 DEF MainSockets, Waiting
<1> QED
  BY <1>7, <1>8, <1>9, <1>10 DEF SocketInv

\* The parent closes the sockets it has handed over, which is all it has.
LEMMA ParentSockets ==
    ASSUME Types, SocketInv, Parent
    PROVE  SocketInv'
<1> DEFINE socks == {callbacks[i] : i \in 1 .. NumConns(conn.cmd)}
<1>1. /\ pc = "parent" /\ pc' = "accept" /\ closed' = closed \cup socks
      /\ UNCHANGED <<callbacks, latest, opened, control, fds, workers, listening>>
  BY DEF Parent, Step
<1>2. MainFds = socks /\ control # "open"
  BY <1>1 DEF SocketInv, MainSockets, Ready
<1>3. MainFds' = {}
  BY <1>1, <1>2 DEF MainFds, Refs
<1>4. Numbered'
  <2>1. socks \subseteq 1 .. opened
    BY <1>2 DEF SocketInv, Numbered, MainFds
  <2> QED
    BY <1>1, <2>1 DEF SocketInv, Numbered, Refs
<1>5. Apart' /\ Staffed'
  BY <1>1 DEF SocketInv, Apart, Staffed, NumConns
<1>6. MainSockets'
  BY <1>1, <1>2, <1>3 DEF MainSockets, MainApart, Waiting
<1> QED
  BY <1>4, <1>5, <1>6 DEF SocketInv

\* A worker starts or ends, or is reaped.
LEMMA WorkerSockets ==
    ASSUME Types, SocketInv,
           \/ SignalDelivered \/ WorkerCompleted
           \/ \E w \in Workers : WorkerStarts(w) \/ WorkerEnds(w)
    PROVE  SocketInv'
<1>1. UNCHANGED <<pc, conn, control, callbacks, latest, closed, opened>>
  BY DEF SignalDelivered, WorkerCompleted, WorkerStarts, WorkerEnds, connVars, sockVars
<1>2. workers \in [Workers -> WorkerRecords] /\ fds \in [Workers -> SUBSET Sockets]
  BY DEF Types, TypeOK
<1>3. /\ \A v \in Workers : fds'[v] = fds[v] \/ fds'[v] = {}
      /\ listening' \subseteq listening
      /\ \A v \in Workers :
            /\ workers'[v].socks = workers[v].socks /\ workers'[v].conn = workers[v].conn
            /\ workers'[v].state \in {"new", "running"} =>
                  workers[v].state \in {"new", "running"} /\ fds'[v] = fds[v]
            /\ workers'[v].state = "running" =>
                  workers[v].state = "running" \/ v \notin listening'
  <2>1. CASE SignalDelivered
    BY <2>1 DEF SignalDelivered
  \* the state of one worker changes
  <2>2. ASSUME NEW w \in Workers, NEW x \in {"running", "zombie", "reaped"},
               workers' = [workers EXCEPT ![w].state = x]
        PROVE  /\ workers'[w].state = x
               /\ \A v \in Workers \ {w} : workers'[v] = workers[v]
               /\ \A v \in Workers : /\ workers'[v].socks = workers[v].socks
                                    /\ workers'[v].conn = workers[v].conn
    BY <1>2, <2>2 DEF WorkerRecords
  <2>3. CASE WorkerCompleted
    <3>1. fds' = fds /\ listening' = listening
      BY <2>3 DEF WorkerCompleted
    <3>2. CASE workers' = workers
      BY <3>1, <3>2
    <3>3. CASE \E w \in Workers : workers' = [workers EXCEPT ![w].state = "reaped"]
      <4>1. PICK w \in Workers : workers' = [workers EXCEPT ![w].state = "reaped"]
        BY <3>3
      <4>2. /\ workers'[w].state = "reaped"
            /\ \A v \in Workers \ {w} : workers'[v] = workers[v]
            /\ \A v \in Workers : /\ workers'[v].socks = workers[v].socks
                                 /\ workers'[v].conn = workers[v].conn
        BY <2>2, <4>1
      <4> QED
        BY <3>1, <4>2
    <3> QED
      BY <2>3, <3>2, <3>3 DEF WorkerCompleted
  <2>4. ASSUME NEW w \in Workers, WorkerStarts(w) \/ WorkerEnds(w) PROVE <1>3!:
    <3>1. PICK x \in {"running", "zombie"} :
             /\ workers' = [workers EXCEPT ![w].state = x]
             /\ \/ x = "running" /\ fds' = fds /\ listening' = listening \ {w}
                   /\ workers[w].state = "new"
                \/ x = "zombie" /\ fds' = [fds EXCEPT ![w] = {}] /\ listening' \subseteq listening
      BY <2>4 DEF WorkerStarts, WorkerEnds, End
    <3>2. /\ workers'[w].state = x
          /\ \A v \in Workers \ {w} : workers'[v] = workers[v]
          /\ \A v \in Workers : /\ workers'[v].socks = workers[v].socks
                               /\ workers'[v].conn = workers[v].conn
      BY <2>2, <3>1
    <3>3. \A v \in Workers \ {w} : fds'[v] = fds[v]
      BY <1>2, <3>1
    <3>4. fds'[w] = fds[w] \/ (x = "zombie" /\ fds'[w] = {})
      BY <1>2, <3>1
    <3>5. listening' \subseteq listening /\ (x = "running" =>
             /\ w \notin listening' /\ workers[w].state = "new" /\ fds'[w] = fds[w])
      BY <3>1
    <3> QED
      BY <3>2, <3>3, <3>4, <3>5
  <2> QED
    BY <2>1, <2>3, <2>4
<1>4. MainFds' = MainFds
  BY <1>1 DEF MainFds, Refs
<1>5. Numbered' /\ Apart'
  BY <1>1, <1>3 DEF SocketInv, Numbered, Apart, Refs
<1>6. Staffed'
  BY <1>3 DEF SocketInv, Staffed, NumConns
<1>7. MainSockets'
  <2>1. MainApart => MainApart'
    BY <1>3, <1>4 DEF MainApart
  <2>2. Ready => Ready'
    BY <1>1, <1>4 DEF Ready, NumConns
  <2> QED
    BY <1>1, <1>4, <2>1, <2>2 DEF SocketInv, MainSockets
<1> QED
  BY <1>5, <1>6, <1>7 DEF SocketInv
\* Every step keeps the sockets in order.
LEMMA SocketsInductive == Types /\ SocketInv /\ [Next]_vars => SocketInv'
<1> SUFFICES ASSUME Types, SocketInv, [Next]_vars PROVE SocketInv'
  OBVIOUS
<1>1. CASE Accept \/ AcceptFails
  BY <1>1, NoSocketMoves
     DEF Accept, AcceptFails, Step, sockVars, workVars, Waiting, Gone
<1>2. ASSUME Reject, pc \in Waiting \cup {"connect"} PROVE SocketInv'
  BY <1>2, NoSocketMoves DEF Reject, sockVars, workVars, Waiting
<1>3. ASSUME NEW l \in (Waiting \ {"accept"}) \cup Gone, Proceed(l), pc \in Waiting
      PROVE  SocketInv'
  BY <1>3, NoSocketMoves DEF Proceed, sockVars, workVars, Waiting, Gone
<1>4. CASE Receive \/ Verify \/ Interpret
  <2>1. /\ Reject \/ \E l \in (Waiting \ {"accept"}) \cup Gone : Proceed(l)
        /\ pc \in Waiting
    BY <1>4 DEF Receive, Verify, Interpret, Step, Waiting, Gone
  <2> QED
    BY <1>2, <1>3, <2>1
<1>5. CASE Answer
  BY <1>2, <1>5, AnswerSockets DEF Answer, Step, Waiting
<1>6. CASE ConnectFails
  BY <1>2, <1>6 DEF ConnectFails, Step
<1>7. CASE \/ PortTaken /\ pc' = "connect"
           \/ UNCHANGED vars
  <2>1. UNCHANGED <<pc, conn, control, callbacks, latest, closed, opened, fds, workers, listening>>
    BY <1>7 DEF PortTaken, Step, vars, connVars, sockVars, workVars
  <2>2. MainFds' = MainFds
    BY <2>1 DEF MainFds, Refs
  <2>3. Numbered' /\ Apart' /\ Staffed'
    BY <2>1 DEF SocketInv, Numbered, Apart, Staffed, Refs, NumConns
  <2>4. MainSockets'
    BY <2>1, <2>2 DEF SocketInv, MainSockets, MainApart, Ready, NumConns
  <2> QED
    BY <2>3, <2>4 DEF SocketInv
<1>8. CASE PortTaken /\ pc' # "connect"
  BY <1>8, NoSocketMoves DEF PortTaken, sockVars, workVars, Gone
<1>9. CASE Fork
  <2>1. CASE Proceed("not forked")
    BY <2>1, NoSocketMoves DEF Proceed, sockVars, workVars, Gone
  <2> QED
    BY <1>9, <2>1, ForkSockets
<1> QED
  BY <1>1, <1>4, <1>5, <1>6, <1>7, <1>8, <1>9, ConnectSockets, ParentSockets, WorkerSockets
     DEF Next, Serve

\* The sockets are always in order.
LEMMA SocketsAlways == Spec => [](Types /\ SocketInv)
<1>1. Init => SocketInv
  <2> SUFFICES ASSUME Init PROVE SocketInv
    OBVIOUS
  <2>1. callbacks = <<>> /\ latest = NoSocket /\ closed = {} /\ pc = "accept" /\ control = "none"
    BY DEF Init
  <2>2. Refs(callbacks, latest) = {} /\ MainFds = {}
    BY <2>1 DEF Refs, MainFds
  <2>3. Numbered
    BY <2>1, <2>2 DEF Numbered, Init
  <2>4. Apart /\ Staffed
    BY DEF Init, Apart, Staffed, NoWorker
  <2>5. MainSockets
    BY <2>1, <2>2 DEF MainSockets, MainApart, Waiting
  <2> QED
    BY <2>3, <2>4, <2>5 DEF SocketInv
<1> QED
  BY <1>1, TypesAlways, SocketsInductive, PTL DEF Spec

\* While main waits for a connection it holds none of a worker's sockets, and
\* at most one that a failed callback has left: for every number of
\* connections, however many callbacks failed half-way before.
THEOREM NothingOpen == Spec => []NothingLeftOpen
<1>1. Types /\ SocketInv => NothingLeftOpen
  <2> SUFFICES ASSUME Types, SocketInv, pc = "accept"
               PROVE  /\ control # "open"
                      /\ \A w \in Workers : MainFds \cap fds[w] = {}
                      /\ Cardinality(MainFds) <= 1
    BY DEF NothingLeftOpen
  <2>1. /\ control # "open" /\ MainApart
        /\ \A r, s \in MainFds : r = s
    BY DEF SocketInv, MainSockets, Waiting
  <2>2. CASE MainFds = {}
    BY <2>1, <2>2, FS_EmptySet DEF MainApart
  <2>3. CASE MainFds # {}
    <3>1. PICK s \in MainFds : MainFds = {s}
      BY <2>1, <2>3
    <3>2. Cardinality(MainFds) = 1
      BY <3>1, FS_Singleton
    <3> QED
      BY <2>1, <3>2 DEF MainApart
  <2> QED
    BY <2>2, <2>3
<1> QED
  BY <1>1, SocketsAlways, PTL

\* A worker holds the one or two sockets made for it, and no other worker
\* holds one of them: no socket of a failed callback, of another worker or of
\* the listening kind is inherited for good.
THEOREM OwnSockets == Spec => []OwnSocketsOnly
<1>1. SocketInv => OwnSocketsOnly
  BY DEF SocketInv, Staffed, Apart, OwnSocketsOnly
<1> QED
  BY <1>1, SocketsAlways, PTL

=============================================================================
