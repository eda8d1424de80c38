------------------------ MODULE WorkerServiceProofs ------------------------
(***************************************************************************)
(* Proofs about the requests and the replies of a worker, its background   *)
(* processes and its session child, and that the worker implements         *)
(* RequestService: for every set of users, groups, requests and            *)
(* configurations and every bound.                                         *)
(***************************************************************************)
EXTENDS WorkerService, WorkerProofs

-----------------------------------------------------------------------------
(* How a process goes through handle_function. *)

Approach == Before \cup Switching
Handling == Approach \cup Restoring \cup {"run", "except"}

\* become_user, up to the function or an exception
Approaches(p) ==
    /\ pc[p] \in Approach /\ pc'[p] \in Approach \cup {"run", "except"}
    /\ UNCHANGED <<reply, hurt>>
    /\ pc[p] # "session" => pam' = pam
    /\ pc'[p] = "session" => OpensSession(req[p].cmd)

\* the function
Runs(p) ==
    /\ pc[p] = "run" /\ ~conf.forwarder
    /\ UNCHANGED <<pam, hurt>>
    /\ \E o \in Outcomes(req[p].cmd) :
        \/ reply' = reply \o o.writes /\ pc'[p] = IF o.raises THEN "except" ELSE AfterTry
        \/ peer = "closed" /\ pc'[p] = "except"

\* the report of an exception
Reports(p) ==
    /\ pc[p] = "except"
    /\ pam' = pam
    /\ IF conf.forwarder
       THEN pc'[p] = "dead"
       ELSE \/ reply' = Append(reply, "FAILED") /\ pc'[p] = AfterTry
            \/ peer = "closed" /\ pc'[p] = Uncaught(p)
    /\ hurt' = (hurt \/ (p = Child /\ pc'[p] = "none"))

\* restore_id, and the end of the session
Restores(p) ==
    /\ pc[p] \in Restoring /\ pc'[p] \in Restoring \cup {"end", Uncaught(p), "none"}
    /\ reply' = reply
    /\ hurt => hurt'
    /\ pc'[p] = "end" => ~OpensSession(req[p].cmd)
    /\ pc'[p] = "close_session" => OpensSession(req[p].cmd)
    /\ pc'[p] = "none" => pc[p] = "close_session" \/ p = Child
    /\ pc'[p] = "none" /\ ~hurt' => pam' # "open"
    /\ pc'[p] # "none" => pam' = pam

\* the last line of a reply
Ends(p) ==
    /\ pc[p] = "end"
    /\ UNCHANGED <<pam, hurt>>
    /\ \/ /\ reply' = Append(reply, "END")
          /\ pc'[p] = IF conf.oneShot THEN "stopped" ELSE "cleanup"
       \/ peer = "closed" /\ pc'[p] = Uncaught(p)

\* a step of one process
Only(p) ==
    /\ UNCHANGED <<conf, req>>
    /\ UNCHANGED chanVars
    /\ \A q \in Procs \ {p} : pc'[q] = pc[q]

LEMMA SetCredMoves ==
    ASSUME TypeOK, NEW p \in Procs, NEW allowed, NEW new, NEW next, NEW failed,
           SetCred(p, allowed, new, next, failed)
    PROVE  /\ Only(p) /\ UNCHANGED <<pam, reply>> /\ UNCHANGED kidVars
           /\ pc'[p] \in {next, failed}
           /\ hurt => hurt'
           /\ ~ (p = Child /\ pc'[p] = "none") => hurt' = hurt
           /\ p = Child /\ pc'[p] = "none" => hurt'
<1>1. pc' = [pc EXCEPT ![p] = next] \/ pc' = [pc EXCEPT ![p] = failed]
  BY DEF SetCred, Goto
<1>2. pc'[p] \in {next, failed} /\ \A q \in Procs \ {p} : pc'[q] = pc[q]
  BY <1>1 DEF TypeOK
<1>3. UNCHANGED <<conf, req, pam, reply>> /\ UNCHANGED chanVars /\ UNCHANGED kidVars
  BY DEF SetCred
<1>4. hurt' = (hurt \/ (p = Child /\ pc'[p] = "none")) /\ hurt \in BOOLEAN
  BY DEF SetCred, TypeOK
<1>5. hurt => hurt'
  BY <1>4, Zenon
<1>6. ~ (p = Child /\ pc'[p] = "none") => hurt' = hurt
  BY <1>4, Zenon
<1>7. p = Child /\ pc'[p] = "none" => hurt'
  BY <1>4, Zenon
<1> QED
  BY <1>2, <1>3, <1>5, <1>6, <1>7 DEF Only

LEMMA GotoMoves ==
    ASSUME TypeOK, NEW p \in Procs, NEW label, Goto(p, label),
           UNCHANGED <<conf, req>>, UNCHANGED chanVars
    PROVE  Only(p) /\ pc'[p] = label
BY DEF Only, TypeOK, Goto

\* Every step of handle_function is of one of these kinds.
LEMMA HandlerMoves ==
    ASSUME TypeOK, NEW p \in Procs, Handler(p)
    PROVE  /\ Only(p)
           /\ Approaches(p) \/ Runs(p) \/ Reports(p) \/ Restores(p) \/ Ends(p)
<1>1. CASE Identify(p)
  <2>1. PICK label : /\ Goto(p, label) /\ label \in {"except", "session", "resolve"}
                     /\ label = "session" => OpensSession(req[p].cmd)
    BY <1>1 DEF Identify
  <2>2. UNCHANGED <<conf, req, reply, hurt, pam>> /\ UNCHANGED chanVars /\ pc[p] = "identify"
    BY <1>1 DEF Identify
  <2>3. Only(p) /\ pc'[p] = label
    BY <2>1, <2>2, GotoMoves
  <2> QED
    BY <2>1, <2>2, <2>3 DEF Approaches, Approach, Before, Switching
<1>2. CASE OpenPamSession(p)
  <2>1. PICK label : Goto(p, label) /\ label \in {"except", "resolve"}
    BY <1>2 DEF OpenPamSession
  <2>2. UNCHANGED <<conf, req, reply, hurt>> /\ UNCHANGED chanVars /\ pc[p] = "session"
    BY <1>2 DEF OpenPamSession
  <2>3. Only(p) /\ pc'[p] = label
    BY <2>1, <2>2, GotoMoves
  <2> QED
    BY <2>1, <2>2, <2>3 DEF Approaches, Approach, Before, Switching
<1>3. CASE BecomeUser(p)
  <2>1. PICK label : Goto(p, label) /\ label \in {"except", "setgid"}
    BY <1>3 DEF BecomeUser
  <2>2. UNCHANGED <<conf, req, reply, hurt, pam>> /\ UNCHANGED chanVars /\ pc[p] = "resolve"
    BY <1>3 DEF BecomeUser
  <2>3. Only(p) /\ pc'[p] = label
    BY <2>1, <2>2, GotoMoves
  <2> QED
    BY <2>1, <2>2, <2>3 DEF Approaches, Approach, Before, Switching
<1>4. CASE SetGid(p) \/ SetGroups(p) \/ SetEgid(p) \/ SetResuid(p)
  <2>1. PICK allowed, new, next, failed :
            /\ SetCred(p, allowed, new, next, failed)
            /\ next \in {"setgroups", "setegid", "setresuid", "verify"} /\ failed = "except"
    BY <1>4 DEF SetGid, SetGroups, SetEgid, SetResuid
  <2>2. pc[p] \in Switching
    BY <1>4 DEF SetGid, SetGroups, SetEgid, SetResuid, Switching
  <2>3. /\ Only(p) /\ UNCHANGED <<pam, reply>> /\ pc'[p] \in {next, failed}
        /\ ~ (p = Child /\ pc'[p] = "none") => hurt' = hurt
    BY <2>1, SetCredMoves
  <2> QED
    BY <2>1, <2>2, <2>3 DEF Approaches, Approach, Before, Switching
<1>5. CASE VerifyIdentity(p)
  <2>1. PICK label : Goto(p, label) /\ label \in {"except", "run"}
    BY <1>5 DEF VerifyIdentity
  <2>2. UNCHANGED <<conf, req, reply, hurt, pam>> /\ UNCHANGED chanVars /\ pc[p] = "verify"
    BY <1>5 DEF VerifyIdentity
  <2>3. Only(p) /\ pc'[p] = label
    BY <2>1, <2>2, GotoMoves
  <2> QED
    BY <2>1, <2>2, <2>3 DEF Approaches, Approach, Before, Switching
<1>6. CASE RunFunction(p)
  <2>1. PICK o \in Outcomes(req[p].cmd) :
          \/ reply' = reply \o o.writes /\ Goto(p, IF o.raises THEN "except" ELSE AfterTry)
          \/ peer = "closed" /\ Goto(p, "except")
    BY <1>6 DEF RunFunction
  <2>2. /\ UNCHANGED <<conf, req, hurt, pam>> /\ UNCHANGED chanVars /\ pc[p] = "run"
        /\ ~conf.forwarder
    BY <1>6 DEF RunFunction
  <2>3. \A label : Goto(p, label) => Only(p) /\ pc'[p] = label
    BY <2>2, GotoMoves
  <2> QED
    BY <2>1, <2>2, <2>3 DEF Runs
<1>7. CASE ReportFailure(p)
  <2>1. /\ UNCHANGED <<conf, req, pam>> /\ UNCHANGED chanVars /\ pc[p] = "except"
        /\ hurt' = (hurt \/ (p = Child /\ pc'[p] = "none"))
    BY <1>7 DEF ReportFailure
  <2>2. \A label : Goto(p, label) => Only(p) /\ pc'[p] = label
    BY <2>1, GotoMoves
  <2>3. CASE conf.forwarder
    <3>1. Goto(p, "dead")
      BY <1>7, <2>3 DEF ReportFailure
    <3> QED
      BY <2>1, <2>2, <2>3, <3>1 DEF Reports
  <2>4. CASE ~conf.forwarder
    <3>1. \/ reply' = Append(reply, "FAILED") /\ Goto(p, AfterTry)
          \/ peer = "closed" /\ Goto(p, Uncaught(p))
      BY <1>7, <2>4 DEF ReportFailure, Write
    <3> QED
      BY <2>1, <2>2, <2>4, <3>1 DEF Reports
  <2> QED
    BY <2>3, <2>4
<1>8. CASE RestoreUid(p) \/ RestoreGid(p) \/ RestoreGroups(p) \/ RestoreEgid(p)
  <2>1. PICK allowed, new, next, failed :
            /\ SetCred(p, allowed, new, next, failed)
            /\ next \in {"restore_gid", "restore_groups", "restore_egid", "close_session", "end"}
            /\ failed = Uncaught(p)
            /\ next = "close_session" => OpensSession(req[p].cmd)
            /\ next = "end" => ~OpensSession(req[p].cmd)
    BY <1>8 DEF RestoreUid, RestoreGid, RestoreGroups, RestoreEgid
  <2>2. pc[p] \in Restoring
    BY <1>8 DEF RestoreUid, RestoreGid, RestoreGroups, RestoreEgid, Restoring
  <2>3. /\ Only(p) /\ UNCHANGED <<pam, reply>> /\ pc'[p] \in {next, failed}
        /\ hurt => hurt'
        /\ p = Child /\ pc'[p] = "none" => hurt'
    BY <2>1, SetCredMoves
  <2>4. Uncaught(p) \in {"dead", "none"} /\ (Uncaught(p) = "none" => p = Child)
    BY DEF Uncaught, Procs, Main, Child
  <2> QED
    BY <2>1, <2>2, <2>3, <2>4 DEF Restores, Restoring
<1>9. CASE ClosePamSession(p)
  <2>1. /\ UNCHANGED <<conf, req, reply, hurt>> /\ UNCHANGED chanVars
        /\ pc[p] = "close_session" /\ Goto(p, "none") /\ pam' # "open"
    BY <1>9 DEF ClosePamSession
  <2>2. Only(p) /\ pc'[p] = "none"
    BY <2>1, GotoMoves
  <2> QED
    BY <2>1, <2>2 DEF Restores, Restoring
<1>10. CASE EndReply(p)
  <2>1. UNCHANGED <<conf, req, hurt, pam>> /\ UNCHANGED chanVars /\ pc[p] = "end"
    BY <1>10 DEF EndReply
  <2>2. \A label : Goto(p, label) => Only(p) /\ pc'[p] = label
    BY <2>1, GotoMoves
  <2>3. \/ /\ reply' = Append(reply, "END")
           /\ Goto(p, IF conf.oneShot THEN "stopped" ELSE "cleanup")
        \/ peer = "closed" /\ Goto(p, Uncaught(p))
    BY <1>10 DEF EndReply, Write
  <2> QED
    BY <2>1, <2>2, <2>3 DEF Ends
<1> QED
  BY <1>1, <1>2, <1>3, <1>4, <1>5, <1>6, <1>7, <1>8, <1>9, <1>10 DEF Handler

-----------------------------------------------------------------------------
(* Where the two processes are. *)

\* the session child is there only while the worker waits for it, and works on
\* the worker's request; a forwarder never reads a request
ControlInv ==
    /\ pc[Main] \in Labels \ {"none", "session", "close_session"}
    /\ pc[Main] \in Handling => ~OpensSession(req[Main].cmd)
    /\ pc[Main] = "wait" => OpensSession(req[Main].cmd) /\ req[Child] = req[Main]
    /\ pc[Main] # "wait" => pc[Child] = "none"
    /\ pc[Child] \in Handling \cup {"none"}
    /\ pc[Main] = "forwarding" => conf.forwarder
    /\ conf.forwarder =>
        /\ nread = 0
        /\ req[Main].cmd = Forwarding
        /\ pc[Main] \in Approach \cup {"handle", "run", "forwarding", "except",
                                       "stopped", "dead"}

LEMMA SameSessions ==
    ASSUME conf' = conf
    PROVE  \A cmd : OpensSession(cmd)' <=> OpensSession(cmd)
BY DEF OpensSession

\* A forwarding request opens no session.
LEMMA ForwardingPlain == ~OpensSession(Forwarding)
BY DEF OpensSession, SpawnCommands, Forwarding

LEMMA InitControl == Init => ControlInv
<1> SUFFICES ASSUME Init PROVE ControlInv
  OBVIOUS
<1>1. nread = 0 /\ pc[Child] = "none"
  BY DEF Init, Procs, Main, Child
<1>2. CASE ~conf.forwarder
  <2>1. pc[Main] = "cleanup"
    BY <1>2 DEF Init, Procs, Main
  <2> QED
    BY <1>1, <1>2, <2>1 DEF ControlInv, Labels, Handling, Approach, Before, Switching, Restoring
<1>3. CASE conf.forwarder
  <2>1. pc[Main] = "handle" /\ req[Main].cmd = Forwarding
    BY <1>3 DEF Init, Procs, Main
  <2> QED
    BY <1>1, <1>3, <2>1 DEF ControlInv, Labels, Handling, Approach, Before, Switching, Restoring
<1> QED
  BY <1>2, <1>3

LEMMA HandlerControl ==
    ASSUME IdentityInv, IdentityInv', ControlInv, NEW p \in Procs, Handler(p)
    PROVE  ControlInv'
<1>1. TypeOK /\ TypeOK'
  BY DEF IdentityInv
<1>2. /\ Only(p)
      /\ Approaches(p) \/ Runs(p) \/ Reports(p) \/ Restores(p) \/ Ends(p)
  BY <1>1, HandlerMoves
<1>3. /\ conf' = conf /\ req' = req /\ nread' = nread
      /\ \A cmd : OpensSession(cmd)' <=> OpensSession(cmd)
  BY <1>2, SameSessions DEF Only, chanVars
<1>4. p = Main \/ p = Child
  BY DEF Procs
<1>5. CASE p = Main
  <2>1. pc[Main] # "wait" /\ pc[Child] = "none" /\ pc'[Child] = "none"
    <3>1. pc[Main] # "wait"
      BY <1>2, <1>5 DEF Approaches, Runs, Reports, Restores, Ends, Approach, Before,
         Switching, Restoring
    <3> QED
      BY <1>2, <1>5, <3>1 DEF ControlInv, Only, Procs, Main, Child
  <2>2. pc[Main] \notin {"session", "close_session"}
    BY DEF ControlInv
  <2>3. pc'[Main] \in Handling => pc[Main] \in Handling
    BY <1>2, <1>5 DEF Approaches, Runs, Reports, Restores, Ends, Handling, Approach, Before,
       Switching, Restoring, Uncaught
  <2>4. pc'[Main] \in Handling => ~OpensSession(req[Main].cmd)
    BY <2>3 DEF ControlInv
  <2>5. pc'[Main] \in Labels /\ pc'[Main] \notin {"none", "wait", "forwarding"}
    <3>1. pc'[Main] \in Labels
      BY <1>1 DEF TypeOK, Procs
    <3>2. pc'[Main] \notin {"none", "wait", "forwarding"}
      BY <1>2, <1>5, <2>2 DEF Approaches, Runs, Reports, Restores, Ends, Handling, Approach,
         Before, Switching, Restoring, Uncaught, AfterTry, Main, Child
    <3> QED
      BY <3>1, <3>2
  <2>6. pc'[Main] \notin {"session", "close_session"}
    <3>1. pc'[Main] \in {"session", "close_session"} => OpensSession(req[Main].cmd)
      BY <1>2, <1>5 DEF Approaches, Runs, Reports, Restores, Ends, Approach, Before,
         Switching, Restoring, AfterTry, Uncaught
    <3>2. {"session", "close_session"} \subseteq Handling
      BY DEF Handling, Approach, Before, Restoring
    <3> QED
      BY <2>4, <3>1, <3>2
  <2>7. conf.forwarder =>
            pc'[Main] \in Approach \cup {"handle", "run", "forwarding", "except",
                                         "stopped", "dead"}
    <3> SUFFICES ASSUME conf.forwarder
                 PROVE  pc'[Main] \in Approach \cup {"run", "except", "dead"}
      OBVIOUS
    <3>1. pc[Main] \in Approach \cup {"handle", "run", "forwarding", "except",
                                      "stopped", "dead"}
      BY DEF ControlInv
    <3>2. Approaches(p) \/ Reports(p)
      BY <1>2, <1>5, <3>1 DEF Runs, Restores, Ends, Approach, Before, Switching, Restoring
    <3> QED
      BY <1>5, <3>2 DEF Approaches, Reports
  <2> QED
    BY <1>3, <2>1, <2>4, <2>5, <2>6, <2>7 DEF ControlInv
<1>6. CASE p = Child
  <2>1. pc[Child] # "none"
    BY <1>2, <1>6 DEF Approaches, Runs, Reports, Restores, Ends, Approach, Before,
       Switching, Restoring
  <2>2. /\ pc[Main] = "wait" /\ pc'[Main] = "wait" /\ ~conf.forwarder
        /\ OpensSession(req[Child].cmd) /\ pc[Child] \in Handling
    <3>1. /\ pc[Main] = "wait" /\ pc[Child] \in Handling
          /\ OpensSession(req[Main].cmd) /\ req[Child] = req[Main]
      BY <2>1 DEF ControlInv
    <3>2. pc'[Main] = "wait"
      BY <1>2, <1>6, <3>1 DEF Only, Procs, Main, Child
    <3>3. ~conf.forwarder
      BY <3>1 DEF ControlInv, Approach, Before, Switching
    <3> QED
      BY <3>1, <3>2, <3>3
  <2>3. pc'[Child] \in Handling \cup {"none"}
    <3>1. AfterTry = "restore_uid"
      BY <2>2 DEF AfterTry, OpensSession
    <3>2. Uncaught(Child) = "none"
      BY DEF Uncaught, Main, Child
    <3>3. ~ Ends(p)
      BY <1>6, <2>2 DEF Ends, Handling, Approach, Before, Switching, Restoring
    <3>4. CASE Approaches(p)
      BY <1>6, <3>4 DEF Approaches, Handling
    <3>5. CASE Runs(p) \/ Reports(p)
      BY <1>6, <2>2, <3>1, <3>2, <3>5 DEF Runs, Reports, Handling, Restoring
    <3>6. CASE Restores(p)
      BY <1>6, <2>2, <3>2, <3>6 DEF Restores, Handling
    <3> QED
      BY <1>2, <3>3, <3>4, <3>5, <3>6
  <2> QED
    BY <1>3, <2>2, <2>3 DEF ControlInv, Labels, Handling, Approach, Before, Switching, Restoring
<1> QED
  BY <1>4, <1>5, <1>6

LEMMA NextControl ==
    ASSUME IdentityInv, IdentityInv', ControlInv, [Next]_vars
    PROVE  ControlInv'
<1>1. TypeOK /\ TypeOK'
  BY DEF IdentityInv
<1> USE DEF Handling, Approach, Before, Switching, Restoring, Labels
<1>2. ASSUME NEW label \in Labels \ (Handling \cup {"none", "wait", "forwarding"}),
             Goto(Main, label), pc[Main] # "wait",
             UNCHANGED <<conf, nread>>, req'[Child] = req[Child],
             conf.forwarder => label \in {"handle", "stopped", "dead"} /\ req' = req
      PROVE  ControlInv'
  <2>1. pc'[Main] = label /\ pc'[Child] = pc[Child]
    BY <1>1, <1>2 DEF TypeOK, Goto, Procs, Main, Child
  <2> QED
    BY <1>2, <2>1 DEF ControlInv
<1>3. CASE CleanupDone
  BY <1>2, <1>3 DEF CleanupDone, chanVars, ControlInv
<1>4. CASE ReadMessage
  <2>1. pc[Main] = "reading" /\ Goto(Main, "dispatch") /\ conf' = conf
    BY <1>4 DEF ReadMessage
  <2>2. ~conf.forwarder
    BY <2>1 DEF ControlInv
  <2>3. pc'[Main] = "dispatch" /\ pc'[Child] = pc[Child]
    BY <1>1, <2>1 DEF TypeOK, Goto, Procs, Main, Child
  <2> QED
    BY <2>1, <2>2, <2>3 DEF ControlInv
<1>5. CASE ReadFails
  BY <1>2, <1>5 DEF ReadFails, chanVars, ControlInv
<1>6. CASE Dispatch
  <2>1. pc[Main] = "dispatch" /\ UNCHANGED <<conf, nread, req>>
    BY <1>6 DEF Dispatch, chanVars
  <2>2. PICK label \in {"end", "dead", "handle"} : Goto(Main, label)
    BY <1>6 DEF Dispatch, Write
  <2>3. ~conf.forwarder
    BY <2>1 DEF ControlInv
  <2> QED
    BY <1>2, <2>1, <2>2, <2>3
<1>7. CASE HandleFunction
  <2>1. pc[Main] = "handle" /\ UNCHANGED <<conf, nread>>
    BY <1>7 DEF HandleFunction, chanVars
  <2>2. CASE OpensSession(req[Main].cmd)
    <3>1. /\ pc' = [p \in Procs |-> IF p = Main THEN "wait" ELSE "identify"]
          /\ req' = [req EXCEPT ![Child] = req[Main]]
      BY <1>7, <2>2 DEF HandleFunction
    <3>2. /\ pc'[Main] = "wait" /\ pc'[Child] = "identify"
          /\ req'[Main] = req[Main] /\ req'[Child] = req[Main]
      BY <1>1, <3>1 DEF TypeOK, Procs, Main, Child
    <3>3. ~conf.forwarder
      BY <2>2, ForwardingPlain DEF ControlInv
    <3> QED
      BY <2>1, <2>2, <3>2, <3>3, SameSessions DEF ControlInv
  <2>3. CASE ~OpensSession(req[Main].cmd)
    <3>1. PICK label \in {"identify", "run"} : Goto(Main, label)
      BY <1>7, <2>3 DEF HandleFunction
    <3>2. req' = req
      BY <1>7, <2>3 DEF HandleFunction
    <3>3. pc'[Main] = label /\ pc'[Child] = pc[Child]
      BY <1>1, <3>1 DEF TypeOK, Goto, Procs, Main, Child
    <3> QED
      BY <2>1, <2>3, <3>2, <3>3, SameSessions DEF ControlInv
  <2> QED
    BY <2>2, <2>3
<1>8. CASE WaitForChild
  <2>1. /\ pc[Main] = "wait" /\ pc[Child] = "none" /\ UNCHANGED <<conf, nread, req>>
        /\ Goto(Main, "end")
    BY <1>8 DEF WaitForChild, chanVars
  <2>2. ~conf.forwarder
    BY <2>1 DEF ControlInv
  <2>3. pc'[Main] = "end" /\ pc'[Child] = pc[Child]
    BY <1>1, <2>1 DEF TypeOK, Goto, Procs, Main, Child
  <2> QED
    BY <2>1, <2>2, <2>3 DEF ControlInv
<1>9. CASE StartForwarding
  <2>1. /\ pc[Main] = "run" /\ conf.forwarder /\ UNCHANGED <<conf, nread, req>>
        /\ Goto(Main, "forwarding") \/ Goto(Main, "except")
    BY <1>9 DEF StartForwarding, chanVars
  <2>2. pc'[Main] \in {"forwarding", "except"} /\ pc'[Child] = pc[Child]
    BY <1>1, <2>1 DEF TypeOK, Goto, Procs, Main, Child
  <2> QED
    BY <2>1, <2>2, SameSessions DEF ControlInv
<1>10. CASE ForwardingEnds
  BY <1>2, <1>10 DEF ForwardingEnds, chanVars, ControlInv
<1>11. CASE ChildKilled
  <2>1. pc[Child] # "none" /\ Goto(Child, "none") /\ UNCHANGED <<conf, nread, req>>
    BY <1>11 DEF ChildKilled, chanVars
  <2>2. pc'[Child] = "none" /\ pc'[Main] = pc[Main]
    BY <1>1, <2>1 DEF TypeOK, Goto, Procs, Main, Child
  <2> QED
    BY <2>1, <2>2, SameSessions DEF ControlInv
<1>12. CASE UNCHANGED <<conf, pc, req, nread>>
  BY <1>12, SameSessions DEF ControlInv
<1>13. CASE CleanupStep
  BY <1>12, <1>13 DEF CleanupStep, chanVars
<1>14. CASE \/ \E r \in Requests : PeerBegins(r)
            \/ PeerCompletes \/ PeerCloses \/ \E k \in Kids : KidEnds(k)
  BY <1>12, <1>14 DEF PeerBegins, PeerCompletes, PeerCloses, KidEnds, chanVars
<1>15. CASE UNCHANGED vars
  BY <1>12, <1>15 DEF vars
<1>16. CASE \E p \in Procs : Handler(p)
  BY <1>16, HandlerControl
<1> QED
  BY <1>3, <1>4, <1>5, <1>6, <1>7, <1>8, <1>9, <1>10, <1>11, <1>13, <1>14, <1>15, <1>16
  DEF Next, Loop, Environment, Ended

LEMMA ControlAlways == Spec => []ControlInv
<1>1. Init => ControlInv
  BY InitControl
<1>2. IdentityInv /\ IdentityInv' /\ ControlInv /\ [Next]_vars => ControlInv'
  BY NextControl
<1> QED
  BY <1>1, <1>2, IdentityAlways, PTL DEF Spec

-----------------------------------------------------------------------------
(* The requests that are read. *)

\* a request that has arrived and is not read yet counts as well
ReadInv ==
    ~conf.oneShot =>
        /\ nread <= sent.completed
        /\ wire.state = "complete" => nread < sent.completed

LEMMA NextRead ==
    ASSUME TypeOK, ReadInv, [Next]_vars
    PROVE  ReadInv'
<1>1. /\ nread \in Nat /\ sent \in [begun : Nat, completed : Nat]
      /\ wire \in [state : {"empty", "partial", "complete"}, req : Requests \cup {NoRequest}]
  BY DEF TypeOK
<1>2. CASE UNCHANGED <<conf, nread, sent, wire>>
  BY <1>2 DEF ReadInv
<1>3. ASSUME NEW r \in Requests, PeerBegins(r) PROVE ReadInv'
  <2>1. /\ conf' = conf /\ nread' = nread /\ sent'.completed = sent.completed
        /\ wire'.state = "partial"
    BY <1>1, <1>3 DEF PeerBegins
  <2> QED
    BY <2>1 DEF ReadInv
<1>4. CASE PeerCompletes
  <2>1. conf' = conf /\ nread' = nread /\ sent'.completed = sent.completed + 1
    BY <1>1, <1>4 DEF PeerCompletes
  <2>2. sent.completed \in Nat
    BY <1>1
  <2> QED
    BY <1>1, <2>1, <2>2 DEF ReadInv
<1>5. CASE ReadMessage
  <2>1. /\ wire.state = "complete" \/ conf.oneShot
        /\ conf' = conf /\ nread' = nread + 1 /\ sent' = sent
        /\ wire' = [state |-> "empty", req |-> NoRequest]
    BY <1>5 DEF ReadMessage
  <2>2. sent.completed \in Nat /\ wire'.state = "empty"
    BY <1>1, <2>1
  <2> QED
    BY <1>1, <2>1, <2>2 DEF ReadInv
<1>6. CASE PeerCloses \/ \E k \in Kids : KidEnds(k)
  BY <1>2, <1>6 DEF PeerCloses, KidEnds, chanVars
<1>7. CASE \/ CleanupStep \/ CleanupDone \/ ReadFails \/ Dispatch \/ HandleFunction
           \/ WaitForChild \/ StartForwarding \/ ChildKilled \/ ForwardingEnds
  BY <1>2, <1>7 DEF CleanupStep, CleanupDone, ReadFails, Dispatch, HandleFunction,
     WaitForChild, StartForwarding, ChildKilled, ForwardingEnds, chanVars
<1>8. ASSUME NEW p \in Procs, Handler(p) PROVE ReadInv'
  BY <1>2, <1>8, HandlerMoves DEF Only, chanVars
<1>9. CASE UNCHANGED vars
  BY <1>2, <1>9 DEF vars
<1> QED
  BY <1>3, <1>4, <1>5, <1>6, <1>7, <1>8, <1>9 DEF Next, Loop, Environment, Ended

\* A request that was cut off is not carried out: wherever the connection ends,
\* read_message has returned no more often than UNICORE/X has completed a request.
THEOREM CompleteRequestsOnly == Spec => []OnlyCompleteRequests
<1>1. Init => ReadInv
  <2> SUFFICES ASSUME Init PROVE ReadInv
    OBVIOUS
  <2>1. nread = 0 /\ sent.completed = 0 /\ wire.state = "empty"
    BY DEF Init
  <2> QED
    BY <2>1 DEF ReadInv
<1>2. TypeOK /\ ReadInv /\ [Next]_vars => ReadInv'
  BY NextRead
<1>3. ReadInv => OnlyCompleteRequests
  BY DEF ReadInv, OnlyCompleteRequests
<1>4. Spec => []ReadInv
  BY <1>1, <1>2, WorkerTypes, PTL DEF Spec
<1> QED
  BY <1>3, <1>4, PTL

-----------------------------------------------------------------------------
(* The background processes. *)

Noted(k) == \E i \in DOMAIN children : children[i] = k
KidsInv == \A k \in Kids : kids[k] \in {"running", "zombie"} => Noted(k)

\* What is removed from a list is only the entry at that place.
LEMMA OthersStay ==
    ASSUME NEW X, NEW s \in Seq(X), NEW i \in 1 .. Len(s), NEW j \in 1 .. Len(s), j # i
    PROVE  \E m \in DOMAIN RemoveAt(s, i) : RemoveAt(s, i)[m] = s[j]
<1> DEFINE a == SubSeq(s, 1, i - 1)
           b == SubSeq(s, i + 1, Len(s))
           t == RemoveAt(s, i)
<1>1. /\ a \in Seq(X) /\ Len(a) = i - 1 /\ \A m \in 1 .. i - 1 : a[m] = s[m]
      /\ b \in Seq(X) /\ Len(b) = Len(s) - i
      /\ \A m \in 1 .. Len(s) - i : b[m] = s[m + i]
  <2>1. a \in Seq(X) /\ Len(a) = i - 1 /\ \A m \in 1 .. i - 1 : a[m] = s[m]
    OBVIOUS
  <2>2. b \in Seq(X) /\ Len(b) = Len(s) - i
    OBVIOUS
  <2>3. \A m \in 1 .. Len(s) - i : b[m] = s[m + i]
    OBVIOUS
  <2> QED
    BY <2>1, <2>2, <2>3
<1>2. t = a \o b
  BY DEF RemoveAt
<1> HIDE DEF a, b, t
<1>3. /\ t \in Seq(X) /\ Len(t) = Len(a) + Len(b)
      /\ \A m \in 1 .. Len(a) : t[m] = a[m]
      /\ \A m \in 1 .. Len(b) : t[m + Len(a)] = b[m]
  <2>1. t \in Seq(X) /\ Len(t) = Len(a) + Len(b)
    <3>1. a \in Seq(X) /\ b \in Seq(X)
      BY <1>1
    <3> QED
      BY <1>2, <3>1
  <2>2. \A m \in 1 .. Len(a) : t[m] = a[m]
    BY <1>1, <1>2
  <2>3. \A m \in 1 .. Len(b) : t[m + Len(a)] = b[m]
    BY <1>1, <1>2
  <2> QED
    BY <2>1, <2>2, <2>3
<1>4. CASE j < i
  <2>1. j \in 1 .. Len(a) /\ j \in DOMAIN t /\ j \in 1 .. i - 1
    BY <1>1, <1>3, <1>4
  <2> QED
    BY <1>1, <1>3, <2>1 DEF t
<1>5. CASE j > i
  <2> DEFINE m == j - i
  <2>1. m \in 1 .. Len(b) /\ m \in 1 .. Len(s) - i /\ m + i = j /\ m + Len(a) \in DOMAIN t
    BY <1>1, <1>3, <1>5
  <2>2. t[m + Len(a)] = s[j]
    BY <1>1, <1>3, <2>1
  <2> QED
    BY <2>1, <2>2 DEF t
<1> QED
  BY <1>4, <1>5

LEMMA NextKids ==
    ASSUME TypeOK, KidsInv, [Next]_vars
    PROVE  KidsInv'
<1>1. /\ children \in Seq(Kids) /\ at \in Nat \ {0}
      /\ kids \in [Kids -> {"none", "running", "zombie", "gone"}]
  BY DEF TypeOK
<1>2. CASE UNCHANGED <<children, kids>>
  BY <1>2 DEF KidsInv, Noted
<1>3. CASE CleanupStep
  <2>1. at \in 1 .. Len(children)
    BY <1>1, <1>3 DEF CleanupStep
  <2>2. CASE kids[children[at]] = "running"
    BY <1>2, <1>3, <2>2 DEF CleanupStep
  <2>3. CASE kids[children[at]] # "running"
    <3>1. /\ children' = RemoveAt(children, at)
          /\ kids' = [kids EXCEPT ![children[at]] = "gone"]
      BY <1>3, <2>3 DEF CleanupStep
    <3>2. ASSUME NEW k \in Kids, kids'[k] \in {"running", "zombie"}
          PROVE  \E i \in DOMAIN children' : children'[i] = k
      <4>1. k # children[at] /\ kids'[k] = kids[k]
        BY <1>1, <2>1, <3>1, <3>2
      <4>2. PICK j \in DOMAIN children : children[j] = k
        BY <3>2, <4>1 DEF KidsInv, Noted
      <4>3. j \in 1 .. Len(children) /\ j # at
        BY <1>1, <4>1, <4>2
      <4> QED
        BY <1>1, <2>1, <3>1, <4>2, <4>3, OthersStay
    <3> QED
      BY <3>2 DEF KidsInv, Noted
  <2> QED
    BY <2>2, <2>3
<1>4. ASSUME NEW k \in Kids, KidEnds(k) PROVE KidsInv'
  BY <1>1, <1>4 DEF KidEnds, KidsInv, Noted
<1>5. ASSUME NEW p, NEW k \in Kids, Spawn(p, k) PROVE KidsInv'
  <2>1. children' = Append(children, k)
    BY <1>5 DEF Spawn
  <2>2. /\ DOMAIN children = 1 .. Len(children) /\ DOMAIN children' = 1 .. Len(children) + 1
        /\ Len(children) \in Nat
        /\ children'[Len(children) + 1] = k
        /\ \A i \in 1 .. Len(children) : children'[i] = children[i]
    BY <1>1, <2>1
  <2>3. \A j \in Kids : kids'[j] \in {"running", "zombie"} => j = k \/ kids[j] = "running"
    BY <1>1, <1>5 DEF Spawn
  <2>4. \A i \in 1 .. Len(children) : i \in 1 .. Len(children) + 1
    BY <2>2
  <2>5. Len(children) + 1 \in 1 .. Len(children) + 1
    BY <2>2
  <2> QED
    BY <2>2, <2>3, <2>4, <2>5 DEF KidsInv, Noted
<1>6. ASSUME NEW p \in Procs, Handler(p) PROVE KidsInv'
  <2>1. CASE RunFunction(p)
    <3>1. UNCHANGED kidVars \/ \E k \in Kids : Spawn(p, k)
      BY <2>1 DEF RunFunction
    <3> QED
      BY <1>2, <1>5, <3>1 DEF kidVars
  <2>2. CASE \/ SetGid(p) \/ SetGroups(p) \/ SetEgid(p) \/ SetResuid(p)
             \/ RestoreUid(p) \/ RestoreGid(p) \/ RestoreGroups(p) \/ RestoreEgid(p)
    BY <1>2, <2>2 DEF SetGid, SetGroups, SetEgid, SetResuid, RestoreUid, RestoreGid,
       RestoreGroups, RestoreEgid, SetCred, kidVars
  <2>3. CASE \/ Identify(p) \/ OpenPamSession(p) \/ BecomeUser(p) \/ VerifyIdentity(p)
             \/ ReportFailure(p) \/ ClosePamSession(p) \/ EndReply(p)
    BY <1>2, <2>3 DEF Identify, OpenPamSession, BecomeUser, VerifyIdentity, ReportFailure,
       ClosePamSession, EndReply, kidVars
  <2> QED
    BY <1>6, <2>1, <2>2, <2>3 DEF Handler
<1>7. CASE \/ PeerCompletes \/ PeerCloses \/ ChildKilled \/ ForwardingEnds
           \/ \E r \in Requests : PeerBegins(r)
  BY <1>2, <1>7 DEF PeerBegins, PeerCompletes, PeerCloses, ChildKilled, ForwardingEnds, kidVars
<1>8. CASE \/ CleanupDone \/ ReadMessage \/ ReadFails \/ Dispatch \/ HandleFunction
           \/ WaitForChild \/ StartForwarding
  BY <1>2, <1>8 DEF CleanupDone, ReadMessage, ReadFails, Dispatch, HandleFunction,
     WaitForChild, StartForwarding, kidVars
<1>9. CASE UNCHANGED vars
  BY <1>2, <1>9 DEF vars
<1> QED
  BY <1>3, <1>4, <1>6, <1>7, <1>8, <1>9 DEF Next, Loop, Environment, Ended

\* A process started in the background stays in tsi.child_pids until it has been
\* waited for, although cleanup removes entries from the list that it goes through.
THEOREM KidsAreTracked == Spec => []KidsTracked
<1>1. Init => KidsInv
  BY DEF Init, KidsInv
<1>2. TypeOK /\ KidsInv /\ [Next]_vars => KidsInv'
  BY NextKids
<1>3. KidsInv => KidsTracked
  BY DEF KidsInv, Noted, KidsTracked
<1>4. Spec => []KidsInv
  BY <1>1, <1>2, WorkerTypes, PTL DEF Spec
<1> QED
  BY <1>3, <1>4, PTL

-----------------------------------------------------------------------------
(* The session of a child. *)

LEMMA NextSession ==
    ASSUME TypeOK, ControlInv, SessionsClosed, [Next]_vars
    PROVE  SessionsClosed'
<1>1. CASE pc'[Main] # "wait" \/ pc'[Child] # "none"
  BY <1>1 DEF SessionsClosed
<1>2. CASE UNCHANGED <<pc, pam, hurt>>
  BY <1>2 DEF SessionsClosed
<1>3. CASE HandleFunction
  <2>1. CASE OpensSession(req[Main].cmd)
    <3>1. pc'[Child] = "identify"
      BY <1>3, <2>1 DEF HandleFunction, Procs, Main, Child
    <3> QED
      BY <1>1, <3>1
  <2>2. CASE ~OpensSession(req[Main].cmd)
    <3>1. pc'[Main] \in {"identify", "run"}
      BY <1>3, <2>2 DEF HandleFunction, Goto, TypeOK, Procs
    <3> QED
      BY <1>1, <3>1
  <2> QED
    BY <2>1, <2>2
<1>4. ASSUME NEW label, Goto(Main, label), label # "wait" PROVE SessionsClosed'
  BY <1>1, <1>4 DEF Goto, TypeOK, Procs
<1>5. CASE CleanupDone \/ ReadMessage \/ ReadFails \/ WaitForChild \/ ForwardingEnds
  BY <1>4, <1>5 DEF CleanupDone, ReadMessage, ReadFails, WaitForChild, ForwardingEnds
<1>6. CASE StartForwarding
  BY <1>4, <1>6 DEF StartForwarding
<1>7. CASE Dispatch
  BY <1>4, <1>7 DEF Dispatch, Write
<1>8. CASE ChildKilled
  BY <1>8 DEF ChildKilled, SessionsClosed
<1>9. ASSUME NEW p \in Procs, Handler(p) PROVE SessionsClosed'
  <2>1. /\ Only(p)
        /\ Approaches(p) \/ Runs(p) \/ Reports(p) \/ Restores(p) \/ Ends(p)
    BY <1>9, HandlerMoves
  <2>2. CASE p = Main
    <3>1. pc'[Main] # "wait"
      BY <2>1, <2>2 DEF Approaches, Runs, Reports, Restores, Ends, Approach, Before, Switching,
         Restoring, AfterTry, Uncaught
    <3> QED
      BY <1>1, <3>1
  <2>3. CASE p = Child
    <3> SUFFICES ASSUME pc'[Child] = "none", ~ hurt' PROVE pam' # "open"
      BY DEF SessionsClosed
    <3>1. ~ Approaches(p) /\ ~ Runs(p)
      BY <2>3 DEF Approaches, Runs, Approach, Before, Switching, AfterTry
    <3>2. ~ Ends(p)
      <4>1. pc[Child] # "end"
        BY DEF ControlInv, Handling, Approach, Before, Switching, Restoring
      <4> QED
        BY <2>3, <4>1 DEF Ends
    <3>3. ~ Reports(p)
      <4>1. Reports(p) => hurt'
        BY <2>3, Zenon DEF Reports
      <4> QED
        BY <4>1
    <3> QED
      BY <2>1, <2>3, <3>1, <3>2, <3>3 DEF Restores
  <2> QED
    BY <2>2, <2>3 DEF Procs
<1>10. CASE \/ CleanupStep \/ PeerCompletes \/ PeerCloses
            \/ (\E r \in Requests : PeerBegins(r)) \/ (\E k \in Kids : KidEnds(k))
  BY <1>2, <1>10 DEF CleanupStep, PeerBegins, PeerCompletes, PeerCloses, KidEnds
<1>11. CASE UNCHANGED vars
  BY <1>2, <1>11 DEF vars
<1> QED
  BY <1>3, <1>5, <1>6, <1>7, <1>8, <1>9, <1>10, <1>11 DEF Next, Loop, Environment, Ended

\* A session child that ends by itself has closed its PAM session, whatever of
\* the switch to the user, the function, the report and the switch back failed.
THEOREM SessionsAreClosed == Spec => []SessionsClosed
<1>1. Init => SessionsClosed
  BY DEF Init, SessionsClosed
<1>2. TypeOK /\ ControlInv /\ SessionsClosed /\ [Next]_vars => SessionsClosed'
  BY NextSession
<1> QED
  BY <1>1, <1>2, WorkerTypes, ControlAlways, PTL DEF Spec

-----------------------------------------------------------------------------
(* The replies. *)

\* what may have been written when a function raises, and when it is done with
Broken(cmd) ==
    IF cmd \in DataCommands THEN {<<>>, <<"OK", "END">>}
    ELSE IF cmd = "TSI_LS" THEN {<<>>, <<"OK">>}
    ELSE {<<>>}
Bodies(cmd) ==
    IF cmd \in DataCommands THEN {<<"FAILED">>, <<"OK", "END">>, <<"OK", "END", "FAILED">>}
    ELSE IF cmd = "TSI_LS" THEN {<<"OK">>, <<"FAILED">>, <<"OK", "FAILED">>}
    ELSE {<<"OK">>, <<"FAILED">>}

\* A line is added to the lines before it.
LEMMA Appended ==
    /\ \A a : Append(<<>>, a) = <<a>>
    /\ \A a, b : Append(<<a>>, b) = <<a, b>>
    /\ \A a, b, c : Append(<<a, b>>, c) = <<a, b, c>>
    /\ \A a, b, c, d : Append(<<a, b, c>>, d) = <<a, b, c, d>>
<1>1. \A a : Append(<<>>, a) = <<a>>
  OBVIOUS
<1>2. ASSUME NEW a, NEW b PROVE Append(<<a>>, b) = <<a, b>>
  <2>1. Append(<<a>>, b) = [i \in 1 .. 2 |-> IF i = 1 THEN a ELSE b]
    OBVIOUS
  <2>2. <<a, b>> = [i \in 1 .. 2 |-> IF i = 1 THEN a ELSE b]
    OBVIOUS
  <2> QED
    BY <2>1, <2>2, Zenon
<1>3. ASSUME NEW a, NEW b, NEW c PROVE Append(<<a, b>>, c) = <<a, b, c>>
  <2>1. Append(<<a, b>>, c) = [i \in 1 .. 3 |-> IF i = 1 THEN a ELSE IF i = 2 THEN b ELSE c]
    OBVIOUS
  <2>2. <<a, b, c>> = [i \in 1 .. 3 |-> IF i = 1 THEN a ELSE IF i = 2 THEN b ELSE c]
    OBVIOUS
  <2> QED
    BY <2>1, <2>2, Zenon
<1>4. ASSUME NEW a, NEW b, NEW c, NEW d PROVE Append(<<a, b, c>>, d) = <<a, b, c, d>>
  <2> DEFINE f == [i \in 1 .. 4 |-> IF i = 1 THEN a ELSE IF i = 2 THEN b
                                    ELSE IF i = 3 THEN c ELSE d]
  <2>1. Append(<<a, b, c>>, d) = f
    OBVIOUS
  <2>2. <<a, b, c, d>> = f
    OBVIOUS
  <2> QED
    BY <2>1, <2>2, Zenon
<1> QED
  BY <1>1, <1>2, <1>3, <1>4, Zenon

\* What is written at each stage fits what has been written before.
LEMMA RepliesFit ==
    ASSUME NEW cmd, cmd # "TSI_FILE_ACL"
    PROVE  /\ <<>> \in Broken(cmd)
           /\ \A r \in Broken(cmd) : Append(r, "FAILED") \in Bodies(cmd)
           /\ \A r \in Bodies(cmd) : Append(r, "END") \in Frames(cmd)
           /\ \A o \in Outcomes(cmd) :
                /\ o.raises => o.writes \in Broken(cmd)
                /\ ~ o.raises => o.writes \in Bodies(cmd)
<1>1. \A w, b : Outcome(w, b).writes = w /\ Outcome(w, b).raises = b
  BY DEF Outcome
<1>2. /\ Append(<<>>, "FAILED") = <<"FAILED">>
      /\ Append(<<"OK">>, "FAILED") = <<"OK", "FAILED">>
      /\ Append(<<"OK">>, "END") = <<"OK", "END">>
      /\ Append(<<"FAILED">>, "END") = <<"FAILED", "END">>
      /\ Append(<<"OK", "END">>, "FAILED") = <<"OK", "END", "FAILED">>
      /\ Append(<<"OK", "END">>, "END") = <<"OK", "END", "END">>
      /\ Append(<<"OK", "FAILED">>, "END") = <<"OK", "FAILED", "END">>
      /\ Append(<<"OK", "END", "FAILED">>, "END") = <<"OK", "END", "FAILED", "END">>
  BY Appended, Zenon
<1>3. CASE cmd \in DataCommands
  <2>1. Outcomes(cmd) = DataReply /\ Broken(cmd) = {<<>>, <<"OK", "END">>}
        /\ Bodies(cmd) = {<<"FAILED">>, <<"OK", "END">>, <<"OK", "END", "FAILED">>}
    BY <1>3 DEF Outcomes, Broken, Bodies
  <2>2. Frames(cmd) = {<<"FAILED", "END">>, <<"OK", "END", "END">>,
                       <<"OK", "END", "FAILED", "END">>}
    BY <1>3 DEF Frames, DataCommands
  <2>3. \A r \in Broken(cmd) : Append(r, "FAILED") \in Bodies(cmd)
    BY <1>2, <2>1, Zenon
  <2>4. \A r \in Bodies(cmd) : Append(r, "END") \in Frames(cmd)
    BY <1>2, <2>1, <2>2, Zenon
  <2>5. \A o \in DataReply : /\ o.raises => o.writes \in {<<>>, <<"OK", "END">>}
                             /\ ~ o.raises => o.writes = <<"OK", "END">>
    BY <1>1 DEF DataReply
  <2> QED
    BY <2>1, <2>3, <2>4, <2>5
<1>4. CASE cmd = "TSI_LS"
  <2>1. Outcomes(cmd) = ListReply /\ Broken(cmd) = {<<>>, <<"OK">>}
        /\ Bodies(cmd) = {<<"OK">>, <<"FAILED">>, <<"OK", "FAILED">>}
    BY <1>4 DEF Outcomes, Broken, Bodies, DataCommands
  <2>2. Frames(cmd) = {<<"OK", "END">>, <<"FAILED", "END">>} \cup {<<"OK", "FAILED", "END">>}
    BY <1>4 DEF Frames, DataCommands
  <2>3. \A r \in Broken(cmd) : Append(r, "FAILED") \in Bodies(cmd)
    BY <1>2, <2>1, Zenon
  <2>4. \A r \in Bodies(cmd) : Append(r, "END") \in Frames(cmd)
    BY <1>2, <2>1, <2>2, Zenon
  <2>5. \A o \in ListReply : /\ o.raises => o.writes \in {<<>>, <<"OK">>}
                             /\ ~ o.raises => o.writes \in {<<"OK">>, <<"FAILED">>}
    BY <1>1 DEF ListReply, OneReply
  <2> QED
    BY <2>1, <2>3, <2>4, <2>5
<1>5. CASE cmd \notin DataCommands /\ cmd # "TSI_LS"
  <2>1. Outcomes(cmd) = OneReply /\ Broken(cmd) = {<<>>}
        /\ Bodies(cmd) = {<<"OK">>, <<"FAILED">>}
    BY <1>5 DEF Outcomes, Broken, Bodies
  <2>2. Frames(cmd) = {<<"OK", "END">>, <<"FAILED", "END">>}
    BY <1>5 DEF Frames
  <2>3. \A r \in Broken(cmd) : Append(r, "FAILED") \in Bodies(cmd)
    BY <1>2, <2>1, Zenon
  <2>4. \A r \in Bodies(cmd) : Append(r, "END") \in Frames(cmd)
    BY <1>2, <2>1, <2>2, Zenon
  <2>5. \A o \in OneReply : /\ o.raises => o.writes = <<>>
                            /\ ~ o.raises => o.writes \in {<<"OK">>, <<"FAILED">>}
    BY <1>1 DEF OneReply
  <2> QED
    BY <2>1, <2>3, <2>4, <2>5
<1> QED
  BY <1>3, <1>4, <1>5

\* the worker's reply to its request can be relied on
Answering ==
    peer = "open" /\ ~hurt /\ ~conf.forwarder /\ req[Main].cmd # "TSI_FILE_ACL"

\* what has been written, by the place where the process is that works on the
\* request
ReplyAt(p) ==
    /\ pc[p] \in Approach \cup {"dispatch", "handle", "run"} => reply = <<>>
    /\ pc[p] = "except" => reply \in Broken(req[Main].cmd)
    /\ pc[p] \in Restoring \cup {"end"} => reply \in Bodies(req[Main].cmd)

ReplyInv ==
    Answering =>
        /\ ReplyAt(Main) /\ ReplyAt(Child)
        /\ pc[Main] = "wait" /\ pc[Child] = "none" => reply \in Bodies(req[Main].cmd)
        /\ pc[Main] \in {"cleanup", "reading", "stopped"} /\ nread > 0 =>
               reply \in Frames(req[Main].cmd)

LEMMA HandlerReply ==
    ASSUME TypeOK, ControlInv, ReplyInv, NEW p \in Procs, Handler(p)
    PROVE  ReplyInv'
<1> SUFFICES ASSUME Answering' PROVE ReplyInv'
  BY DEF ReplyInv
<1> DEFINE cmd == req[Main].cmd
<1>1. /\ Only(p)
      /\ Approaches(p) \/ Runs(p) \/ Reports(p) \/ Restores(p) \/ Ends(p)
  BY HandlerMoves
<1>2. conf' = conf /\ req' = req /\ nread' = nread /\ peer' = peer
  BY <1>1 DEF Only, chanVars
<1>3. /\ Answering /\ peer # "closed" /\ ~conf.forwarder /\ cmd # "TSI_FILE_ACL" /\ ~hurt
      /\ ~ (Reports(p) /\ p = Child /\ pc'[p] = "none")
  <2>1. ~ hurt'
    BY DEF Answering
  <2>2. Reports(p) => ~ hurt /\ ~ (p = Child /\ pc'[p] = "none")
    BY <2>1, Zenon DEF Reports
  <2>3. ~ hurt
    BY <1>1, <2>1, <2>2 DEF Approaches, Runs, Restores, Ends
  <2>4. peer = "open" /\ ~conf.forwarder /\ cmd # "TSI_FILE_ACL"
    BY <1>2 DEF Answering
  <2> QED
    BY <2>2, <2>3, <2>4 DEF Answering
<1>4. ReplyAt(p) /\ (pc[p] # "none" => req[p].cmd = cmd)
  BY <1>3 DEF ReplyInv, ControlInv, Procs
<1>5. pc[p] # "none" /\ req[p].cmd = cmd
  <2>1. pc[p] # "none"
    BY <1>1 DEF Approaches, Runs, Reports, Restores, Ends, Approach, Before, Switching, Restoring
  <2> QED
    BY <1>4, <2>1
<1>6. /\ <<>> \in Broken(cmd)
      /\ \A r \in Broken(cmd) : Append(r, "FAILED") \in Bodies(cmd)
      /\ \A r \in Bodies(cmd) : Append(r, "END") \in Frames(cmd)
      /\ \A o \in Outcomes(cmd) : /\ o.raises => o.writes \in Broken(cmd)
                                  /\ ~ o.raises => o.writes \in Bodies(cmd)
  BY <1>3, RepliesFit
<1>7. /\ pc'[p] \in Approach \cup {"dispatch", "handle", "run"} => reply' = <<>>
      /\ pc'[p] = "except" => reply' \in Broken(cmd)
      /\ pc'[p] \in Restoring \cup {"end", "none"} => reply' \in Bodies(cmd)
      /\ pc'[p] \in {"cleanup", "reading", "stopped"} => reply' \in Frames(cmd)
  <2>1. CASE Approaches(p)
    <3>1. reply' = <<>> /\ pc'[p] \in Approach \cup {"run", "except"}
      BY <1>4, <2>1 DEF Approaches, ReplyAt
    <3> QED
      BY <1>6, <3>1 DEF Approach, Before, Switching, Restoring
  <2>2. CASE Runs(p)
    <3>1. reply = <<>>
      BY <1>4, <2>2 DEF Runs, ReplyAt
    <3>2. PICK o \in Outcomes(cmd) : /\ reply' = reply \o o.writes
                                     /\ pc'[p] = IF o.raises THEN "except" ELSE AfterTry
      BY <1>3, <1>5, <2>2 DEF Runs
    <3>3. reply' = o.writes
      <4>1. o.writes \in Seq(Tokens)
        BY OutcomesType
      <4>2. \A w \in Seq(Tokens) : <<>> \o w = w
        OBVIOUS
      <4> QED
        BY <3>1, <3>2, <4>1, <4>2
    <3>4. CASE o.raises
      BY <1>6, <3>2, <3>3, <3>4 DEF Approach, Before, Switching, Restoring
    <3>5. CASE ~ o.raises
      BY <1>6, <3>2, <3>3, <3>5 DEF AfterTry, Approach, Before, Switching, Restoring
    <3> QED
      BY <3>4, <3>5
  <2>3. CASE Reports(p)
    <3>1. reply \in Broken(cmd)
      BY <1>4, <2>3 DEF Reports, ReplyAt
    <3>2. reply' = Append(reply, "FAILED") /\ pc'[p] = AfterTry
      BY <1>3, <2>3 DEF Reports
    <3> QED
      BY <1>6, <3>1, <3>2 DEF AfterTry, Approach, Before, Switching, Restoring
  <2>4. CASE Restores(p)
    <3>1. /\ reply' \in Bodies(cmd)
          /\ pc'[p] \in Restoring \cup {"end", "none", "dead"}
      BY <1>4, <2>4 DEF Restores, ReplyAt, Uncaught
    <3> QED
      BY <3>1 DEF Approach, Before, Switching, Restoring
  <2>5. CASE Ends(p)
    <3>1. reply \in Bodies(cmd)
      BY <1>4, <2>5 DEF Ends, ReplyAt
    <3>2. /\ reply' = Append(reply, "END")
          /\ pc'[p] \in {"stopped", "cleanup"}
      BY <1>3, <2>5 DEF Ends
    <3> QED
      BY <1>6, <3>1, <3>2 DEF Approach, Before, Switching, Restoring
  <2> QED
    BY <1>1, <2>1, <2>2, <2>3, <2>4, <2>5
<1>8. CASE p = Main
  <2>1. pc[Main] # "wait"
    BY <1>1, <1>8 DEF Approaches, Runs, Reports, Restores, Ends, Approach, Before, Switching,
       Restoring
  <2>2. pc'[Child] = "none"
    BY <1>1, <1>8, <2>1 DEF ControlInv, Only, Procs, Main, Child
  <2>3. pc'[Main] # "wait"
    BY <1>1, <1>8 DEF Approaches, Runs, Reports, Restores, Ends, Approach, Before, Switching,
       Restoring, AfterTry, Uncaught
  <2> QED
    BY <1>2, <1>7, <1>8, <2>2, <2>3 DEF ReplyInv, ReplyAt, Approach, Before, Switching, Restoring
<1>9. CASE p = Child
  <2>1. pc'[Main] = "wait"
    <3>1. pc[Main] = "wait"
      BY <1>5, <1>9 DEF ControlInv
    <3> QED
      BY <1>1, <1>9, <3>1 DEF Only, Procs, Main, Child
  <2> QED
    BY <1>2, <1>7, <1>9, <2>1 DEF ReplyInv, ReplyAt, Approach, Before, Switching, Restoring
<1> QED
  BY <1>8, <1>9 DEF Procs

LEMMA NextReply ==
    ASSUME TypeOK, ControlInv, ReplyInv, [Next]_vars
    PROVE  ReplyInv'
<1> USE DEF Approach, Before, Switching, Restoring
<1>1. CASE UNCHANGED <<conf, pc, req, reply, peer, nread, hurt>>
  BY <1>1 DEF ReplyInv, Answering, ReplyAt
<1>2. ASSUME NEW label, Goto(Main, label)
      PROVE  pc'[Main] = label /\ pc'[Child] = pc[Child]
  BY <1>2 DEF Goto, TypeOK, Procs, Main, Child
<1>3. CASE CleanupDone
  <2>1. /\ pc[Main] = "cleanup" /\ UNCHANGED <<conf, req, reply, peer, nread, hurt>>
        /\ Goto(Main, "reading")
    BY <1>3 DEF CleanupDone, chanVars
  <2>2. pc'[Main] = "reading" /\ pc'[Child] = "none"
    BY <1>2, <2>1 DEF ControlInv
  <2> QED
    BY <2>1, <2>2 DEF ReplyInv, Answering, ReplyAt
<1>4. CASE ReadMessage
  <2>1. /\ pc[Main] = "reading" /\ Goto(Main, "dispatch") /\ reply' = <<>>
    BY <1>4 DEF ReadMessage
  <2>2. pc'[Main] = "dispatch" /\ pc'[Child] = "none"
    BY <1>2, <2>1 DEF ControlInv
  <2> QED
    BY <2>1, <2>2 DEF ReplyInv, ReplyAt
<1>5. CASE ReadFails
  <2>1. /\ pc[Main] = "reading" /\ UNCHANGED <<conf, req, reply, peer, nread, hurt>>
        /\ Goto(Main, "stopped")
    BY <1>5 DEF ReadFails, chanVars
  <2>2. pc'[Main] = "stopped" /\ pc'[Child] = "none"
    BY <1>2, <2>1 DEF ControlInv
  <2> QED
    BY <2>1, <2>2 DEF ReplyInv, Answering, ReplyAt
<1>6. CASE Dispatch
  <2>1. pc[Main] = "dispatch" /\ UNCHANGED <<conf, req, peer, nread, hurt>>
    BY <1>6 DEF Dispatch, chanVars
  <2> SUFFICES ASSUME Answering' PROVE ReplyInv'
    BY DEF ReplyInv
  <2>2. Answering /\ peer # "closed" /\ reply = <<>>
    <3>1. Answering /\ peer # "closed"
      BY <2>1 DEF Answering
    <3> QED
      BY <2>1, <3>1 DEF ReplyInv, ReplyAt
  <2>3. \/ Goto(Main, "end") /\ reply' = Append(reply, "FAILED") /\ req[Main].cmd = Unknown
        \/ Goto(Main, "end") /\ reply' = Append(reply, "OK") /\ req[Main].cmd = Ping
        \/ Goto(Main, "handle") /\ reply' = reply
    BY <1>6, <2>2 DEF Dispatch, Write
  <2>4. /\ pc'[Main] \in {"end", "handle"} /\ pc'[Child] = "none"
        /\ pc'[Main] = "handle" => reply' = <<>>
        /\ pc'[Main] = "end" => reply' \in Bodies(req[Main].cmd)
    <3>1. Append(<<>>, "FAILED") = <<"FAILED">> /\ Append(<<>>, "OK") = <<"OK">>
      BY Appended
    <3>2. pc[Child] = "none"
      BY <2>1 DEF ControlInv
    <3>3. CASE Goto(Main, "end")
      <4>1. pc'[Main] = "end" /\ pc'[Child] = "none"
        BY <1>2, <3>2, <3>3
      <4>2. /\ reply' \in {<<"OK">>, <<"FAILED">>}
            /\ req[Main].cmd \in {Unknown, Ping}
        BY <1>2, <2>2, <2>3, <3>1, <4>1
      <4>3. \A cmd \in {Unknown, Ping} : Bodies(cmd) = {<<"OK">>, <<"FAILED">>}
        BY DEF Bodies, DataCommands, Unknown, Ping
      <4> QED
        BY <4>1, <4>2, <4>3
    <3>4. CASE Goto(Main, "handle") /\ reply' = reply
      BY <1>2, <2>2, <3>2, <3>4
    <3> QED
      BY <2>3, <3>3, <3>4
  <2> QED
    BY <2>1, <2>4 DEF ReplyInv, ReplyAt
<1>7. CASE HandleFunction
  <2>1. /\ pc[Main] = "handle" /\ UNCHANGED <<conf, reply, peer, nread, hurt>>
        /\ req'[Main] = req[Main]
    BY <1>7 DEF HandleFunction, chanVars, TypeOK, Procs, Main, Child
  <2> SUFFICES ASSUME Answering' PROVE ReplyInv'
    BY DEF ReplyInv
  <2>2. reply' = <<>>
    BY <2>1 DEF Answering, ReplyInv, ReplyAt
  <2>3. \/ pc'[Main] = "wait" /\ pc'[Child] = "identify"
        \/ pc'[Main] \in {"identify", "run"} /\ pc'[Child] = "none"
    <3>1. CASE OpensSession(req[Main].cmd)
      BY <1>7, <3>1 DEF HandleFunction, Procs, Main, Child
    <3>2. CASE ~OpensSession(req[Main].cmd)
      <4>1. PICK label \in {"identify", "run"} : Goto(Main, label)
        BY <1>7, <3>2 DEF HandleFunction
      <4> QED
        BY <1>2, <2>1, <4>1 DEF ControlInv
    <3> QED
      BY <3>1, <3>2
  <2> QED
    BY <2>2, <2>3 DEF ReplyInv, ReplyAt
<1>8. CASE WaitForChild
  <2>1. /\ pc[Main] = "wait" /\ pc[Child] = "none" /\ Goto(Main, "end")
        /\ UNCHANGED <<conf, req, reply, peer, nread, hurt>>
    BY <1>8 DEF WaitForChild, chanVars
  <2>2. pc'[Main] = "end" /\ pc'[Child] = "none"
    BY <1>2, <2>1
  <2> QED
    BY <2>1, <2>2 DEF ReplyInv, Answering, ReplyAt
<1>9. CASE StartForwarding \/ ForwardingEnds
  <2>1. conf.forwarder /\ conf' = conf
    BY <1>9 DEF StartForwarding, ForwardingEnds, ControlInv
  <2> QED
    BY <2>1 DEF ReplyInv, Answering
<1>10. CASE ChildKilled
  BY <1>10 DEF ChildKilled, ReplyInv, Answering
<1>11. CASE PeerCloses
  BY <1>11 DEF PeerCloses, ReplyInv, Answering
<1>12. CASE \/ CleanupStep \/ PeerCompletes
            \/ (\E r \in Requests : PeerBegins(r)) \/ (\E k \in Kids : KidEnds(k))
  BY <1>1, <1>12 DEF CleanupStep, PeerBegins, PeerCompletes, KidEnds, chanVars
<1>13. CASE UNCHANGED vars
  BY <1>1, <1>13 DEF vars
<1>14. CASE \E p \in Procs : Handler(p)
  BY <1>14, HandlerReply
<1> QED
  BY <1>3, <1>4, <1>5, <1>6, <1>7, <1>8, <1>9, <1>10, <1>11, <1>12, <1>13, <1>14
  DEF Next, Loop, Environment, Ended

\* While the connection is up every request gets exactly one reply of the form its
\* command has, wherever handle_function failed and in whichever process it ran.
THEOREM RepliesAreFramed == Spec => []ReplyFraming
<1>1. Init => ReplyInv
  <2> SUFFICES ASSUME Init PROVE ReplyInv
    OBVIOUS
  <2>1. pc[Child] = "none" /\ pc[Main] \in {"cleanup", "handle"} /\ nread = 0 /\ reply = <<>>
    BY DEF Init, Procs, Main, Child
  <2> QED
    BY <2>1 DEF ReplyInv, ReplyAt, Approach, Before, Switching, Restoring
<1>2. TypeOK /\ ControlInv /\ ReplyInv /\ [Next]_vars => ReplyInv'
  BY NextReply
<1>3. Spec => []ReplyInv
  BY <1>1, <1>2, WorkerTypes, ControlAlways, PTL DEF Spec
<1>4. TypeOK /\ ControlInv /\ ReplyInv => ReplyFraming
  <2> SUFFICES ASSUME ControlInv, ReplyInv, pc[Main] \in {"cleanup", "stopped"},
                      nread > 0, peer = "open", ~hurt, req[Main].cmd # "TSI_FILE_ACL"
               PROVE  reply \in Frames(req[Main].cmd)
    BY DEF ReplyFraming
  <2>1. ~conf.forwarder
    BY DEF ControlInv
  <2> QED
    BY <2>1 DEF ReplyInv, Answering
<1> QED
  BY <1>3, <1>4, WorkerTypes, ControlAlways, PTL

-----------------------------------------------------------------------------
(* The worker implements RequestService. *)

Credited == {p \in Procs : pc[p] # "none" /\ cred[p].euid # conf.base}

\* what the worker acts as
ActsInv ==
    /\ Acting = {} \/ Acting = Entitled
    /\ Phase = "idle" => Acting = {}
    /\ pc[Main] \in {"dispatch", "end"} => Acting = {}
    /\ \A x, y \in Entitled : x = y
    /\ \A id \in Entitled : id.euid # RootId

LEMMA ActsAsEntitled == IdentityInv /\ ControlInv => ActsInv
<1> SUFFICES ASSUME IdentityInv, ControlInv PROVE ActsInv
  OBVIOUS
<1> USE DEF ActsInv
<1>1. Acting = IF Phase = "over" THEN {} ELSE {cred[p] : p \in Credited}
  BY DEF Acting, Credited
<1>2. ASSUME NEW p \in Credited, Phase # "over"
      PROVE  /\ Switched(p) /\ conf.switch /\ cred[p] = UserCred(req[p]) /\ req[p] = req[Main]
             /\ pc[Main] \notin {"cleanup", "reading", "dispatch", "end"}
  <2>1. p \in Procs /\ pc[p] # "none" /\ cred[p].euid # conf.base
    BY DEF Credited
  <2>2. IdentityAt(p) /\ pc[p] \in Labels
    BY <2>1 DEF IdentityInv, TypeOK
  <2>3. pc[Main] \notin {"stopped", "dead"}
    BY <1>2 DEF Phase
  <2>4. p = Main \/ (p = Child /\ pc[Main] = "wait" /\ req[Child] = req[Main] /\ pc[p] \in Handling)
    BY <2>1 DEF ControlInv, Procs
  <2>5. pc[p] # "dead"
    BY <2>3, <2>4 DEF Handling, Approach, Before, Switching, Restoring
  <2>6. Switched(p) /\ conf.switch
    BY <2>1, <2>2, <2>5 DEF IdentityAt, Clean, Unswitched, OwnUids, Labels, Outside, Before,
       Switching, Restoring
  <2>7. cred[p] = UserCred(req[p])
    BY <2>1, <2>6, SwitchedCred
  <2>8. p = Main => pc[Main] \notin {"cleanup", "reading", "dispatch", "end"}
    BY <2>1, <2>2 DEF IdentityAt, Clean, OwnUids, Outside
  <2> QED
    BY <2>4, <2>6, <2>7, <2>8
<1>3. CASE Phase = "over" \/ Credited = {}
  <2>1. Acting = {}
    BY <1>1, <1>3
  <2>2. Entitled = {} \/ Entitled = {UserCred(req[Main])}
    BY DEF Entitled
  <2>3. \A id \in Entitled : id.euid # RootId
    BY DEF Entitled, UserCred
  <2> QED
    BY <2>1, <2>2, <2>3
<1>4. CASE Phase # "over" /\ Credited # {}
  <2>1. PICK p : p \in Credited
    BY <1>4
  <2>2. /\ Switched(p) /\ conf.switch /\ req[p] = req[Main]
        /\ pc[Main] \notin {"cleanup", "reading", "dispatch", "end"}
    BY <1>2, <1>4, <2>1
  <2>3. Phase = "busy"
    BY <1>4, <2>2 DEF Phase
  <2>4. Entitled = {UserCred(req[Main])}
    BY <2>2, <2>3 DEF Entitled, Switched, Resolved
  <2>5. {cred[q] : q \in Credited} = {UserCred(req[Main])}
    BY <1>2, <1>4, <2>1
  <2>6. \A id \in Entitled : id.euid # RootId
    BY DEF Entitled, UserCred
  <2> QED
    BY <1>1, <1>4, <2>2, <2>3, <2>4, <2>5, <2>6
<1> QED
  BY <1>3, <1>4

\* How the worker passes from request to request.
LEMMA PhaseMoves ==
    ASSUME IdentityInv, ControlInv, [Next]_vars
    PROVE  /\ conf' = conf
           /\ Phase = "busy" /\ Phase' = "busy" => req'[Main] = req[Main]
           /\ Phase = "idle" /\ Phase' = "busy" => pc'[Main] = "dispatch"
           /\ Phase = "busy" /\ Phase' = "idle" => pc[Main] = "end"
           /\ Phase = "over" => Phase' = "over"
<1>1. TypeOK
  BY DEF IdentityInv
<1>2. \A p \in Procs : \A label : Goto(p, label) =>
          pc'[p] = label /\ \A q \in Procs \ {p} : pc'[q] = pc[q]
  BY <1>1 DEF Goto, TypeOK
<1>3. Main \in Procs /\ Child \in Procs /\ Main # Child
  BY DEF Procs, Main, Child
<1>4. CASE UNCHANGED <<conf, req>> /\ pc'[Main] = pc[Main]
  <2>1. Phase' = Phase
    BY <1>4 DEF Phase
  <2> QED
    BY <1>4, <2>1 DEF Phase
<1>5. CASE CleanupDone \/ ReadFails
  <2>1. /\ pc[Main] \in {"cleanup", "reading"} /\ UNCHANGED <<conf, req>>
        /\ pc'[Main] \in {"reading", "stopped"}
    BY <1>2, <1>3, <1>5 DEF CleanupDone, ReadFails
  <2> QED
    BY <2>1 DEF Phase
<1>6. CASE ReadMessage
  <2>1. pc[Main] = "reading" /\ conf' = conf /\ pc'[Main] = "dispatch"
    BY <1>2, <1>3, <1>6 DEF ReadMessage
  <2> QED
    BY <2>1 DEF Phase
<1>7. CASE Dispatch
  <2>1. pc[Main] = "dispatch" /\ UNCHANGED <<conf, req>>
    BY <1>7 DEF Dispatch
  <2>2. PICK label \in {"end", "dead", "handle"} : Goto(Main, label)
    BY <1>7 DEF Dispatch, Write
  <2>3. pc'[Main] \in {"end", "dead", "handle"}
    BY <1>2, <1>3, <2>2
  <2> QED
    BY <2>1, <2>3 DEF Phase
<1>8. CASE HandleFunction
  <2>1. pc[Main] = "handle" /\ conf' = conf
    BY <1>8 DEF HandleFunction
  <2>2. req'[Main] = req[Main] /\ pc'[Main] \in {"wait", "identify", "run"}
    <3>1. CASE OpensSession(req[Main].cmd)
      BY <1>1, <1>3, <1>8, <3>1 DEF HandleFunction, TypeOK
    <3>2. CASE ~OpensSession(req[Main].cmd)
      BY <1>2, <1>3, <1>8, <3>2 DEF HandleFunction
    <3> QED
      BY <3>1, <3>2
  <2> QED
    BY <2>1, <2>2 DEF Phase
<1>9. CASE WaitForChild \/ StartForwarding \/ ForwardingEnds
  <2>1. /\ pc[Main] \in {"wait", "run", "forwarding"} /\ UNCHANGED <<conf, req>>
        /\ pc'[Main] \in {"end", "forwarding", "except", "stopped"}
    BY <1>2, <1>3, <1>9 DEF WaitForChild, StartForwarding, ForwardingEnds
  <2> QED
    BY <2>1 DEF Phase
<1>10. CASE ChildKilled
  <2>1. UNCHANGED <<conf, req>> /\ pc'[Main] = pc[Main]
    BY <1>2, <1>3, <1>10 DEF ChildKilled
  <2> QED
    BY <1>4, <2>1
<1>11. ASSUME NEW p \in Procs, Handler(p)
       PROVE /\ conf' = conf
             /\ Phase = "busy" /\ Phase' = "busy" => req'[Main] = req[Main]
             /\ Phase = "idle" /\ Phase' = "busy" => pc'[Main] = "dispatch"
             /\ Phase = "busy" /\ Phase' = "idle" => pc[Main] = "end"
             /\ Phase = "over" => Phase' = "over"
  <2>1. /\ Only(p)
        /\ Approaches(p) \/ Runs(p) \/ Reports(p) \/ Restores(p) \/ Ends(p)
    BY <1>1, <1>11, HandlerMoves
  <2>2. CASE p # Main
    <3>1. UNCHANGED <<conf, req>> /\ pc'[Main] = pc[Main]
      BY <1>3, <2>1, <2>2 DEF Only
    <3> QED
      BY <1>4, <3>1
  <2>3. CASE p = Main
    <3>1. UNCHANGED <<conf, req>>
      BY <2>1 DEF Only
    <3>2. /\ pc[Main] \in Handling \cup {"end"}
          /\ pc'[Main] \in {"cleanup", "reading"} => pc[Main] = "end"
      BY <2>1, <2>3 DEF Approaches, Runs, Reports, Restores, Ends, Handling, Approach, Before,
         Switching, Restoring, AfterTry, Uncaught
    <3>3. Phase = "busy"
      BY <3>2 DEF Phase, Handling, Approach, Before, Switching, Restoring
    <3>4. Phase' = "idle" => pc'[Main] \in {"cleanup", "reading"}
      BY DEF Phase
    <3> QED
      BY <3>1, <3>2, <3>3, <3>4
  <2> QED
    BY <2>2, <2>3
<1>12. CASE \/ CleanupStep \/ PeerCompletes \/ PeerCloses
            \/ (\E r \in Requests : PeerBegins(r)) \/ (\E k \in Kids : KidEnds(k))
  BY <1>4, <1>12 DEF CleanupStep, PeerBegins, PeerCompletes, PeerCloses, KidEnds
<1>13. CASE UNCHANGED vars
  BY <1>4, <1>13 DEF vars
<1> QED
  BY <1>5, <1>6, <1>7, <1>8, <1>9, <1>10, <1>11, <1>12, <1>13
  DEF Next, Loop, Environment, Ended

\* A worker, or a forwarder, starts as a service that acts as nobody.
LEMMA InitServes ==
    ASSUME Init, IdentityInv, ControlInv
    PROVE  Service!Init
<1>1. pc[Main] \in {"cleanup", "handle"} /\ pc[Child] = "none"
  BY DEF Init, Procs, Main, Child
<1>2. Phase \in {"idle", "busy"}
  BY <1>1 DEF Phase
<1>3. Service!Entitles(Entitled)
  BY ActsAsEntitled DEF ActsInv, Service!Entitles, Service!AtMostOne
<1>4. Acting = {}
  <2>1. \A p \in Procs : pc[p] # "none" => cred[p].euid = conf.base
    BY DEF Init, BaseCred
  <2> QED
    BY <2>1 DEF Acting
<1> QED
  BY <1>2, <1>3, <1>4 DEF Service!Init

\* A step of the worker is a step of the service, or none.
LEMMA StepServes ==
    ASSUME IdentityInv, IdentityInv', ControlInv, ControlInv', [Next]_vars
    PROVE  \/ Service!Take \/ Service!Assume \/ Service!Resign \/ Service!Finish
           \/ Service!Stop \/ UNCHANGED Service!vars
<1>1. ActsInv
  BY ActsAsEntitled
<1>2. ActsInv'
  BY ActsAsEntitled, PTL
<1>3. /\ conf' = conf
      /\ Phase = "busy" /\ Phase' = "busy" => req'[Main] = req[Main]
      /\ Phase = "idle" /\ Phase' = "busy" => pc'[Main] = "dispatch"
      /\ Phase = "busy" /\ Phase' = "idle" => pc[Main] = "end"
      /\ Phase = "over" => Phase' = "over"
  BY PhaseMoves
<1>4. Phase \in {"idle", "busy", "over"} /\ Phase' \in {"idle", "busy", "over"}
  BY DEF Phase
<1>5. (Phase # "busy" => Entitled = {}) /\ (Phase' # "busy" => Entitled' = {})
  BY DEF Entitled
<1>6. (Phase = "over" => Acting = {}) /\ (Phase' = "over" => Acting' = {})
  BY DEF Acting
<1>7. CASE Phase' = "over"
  BY <1>5, <1>6, <1>7 DEF Service!Stop
<1>8. CASE Phase = "idle" /\ Phase' = "idle"
  BY <1>1, <1>2, <1>5, <1>8 DEF ActsInv, Service!vars
<1>9. CASE Phase = "idle" /\ Phase' = "busy"
  BY <1>1, <1>2, <1>3, <1>9 DEF ActsInv, Service!Take, Service!Entitles, Service!AtMostOne
<1>10. CASE Phase = "busy" /\ Phase' = "idle"
  BY <1>1, <1>2, <1>3, <1>5, <1>10 DEF ActsInv, Service!Finish
<1>11. CASE Phase = "busy" /\ Phase' = "busy"
  <2>1. Entitled' = Entitled
    BY <1>3, <1>11 DEF Entitled, UserCred, Groups
  <2>2. CASE Acting' = Acting
    BY <1>11, <2>1, <2>2 DEF Service!vars
  <2>3. CASE Acting = {} /\ Acting' = Entitled
    BY <1>11, <2>1, <2>3 DEF Service!Assume
  <2>4. CASE Acting' = {}
    BY <1>11, <2>1, <2>4 DEF Service!Resign
  <2> QED
    BY <1>1, <1>2, <2>1, <2>2, <2>3, <2>4 DEF ActsInv
<1> QED
  BY <1>3, <1>4, <1>7, <1>8, <1>9, <1>10, <1>11

\* The worker, with its session child and with every way in which the system calls,
\* the child, the function and the connection can fail, implements RequestService:
\* it serves one request at a time, assumes no identity but the whole one that this
\* request entitles it to, never root, and has resigned it before the next request.
THEOREM WorkerServes == Spec => ServesAsPromised
<1>1. Init /\ IdentityInv /\ ControlInv => Service!Init
  BY InitServes
<1>2. IdentityInv /\ IdentityInv' /\ ControlInv /\ ControlInv' /\ [Next]_vars =>
          [Service!Take \/ Service!Assume \/ Service!Resign \/ Service!Finish
           \/ Service!Stop]_(Service!vars)
  BY StepServes
<1> QED
  BY <1>1, <1>2, IdentityAlways, ControlAlways, PTL DEF Spec, ServesAsPromised, Service!Spec
=============================================================================
