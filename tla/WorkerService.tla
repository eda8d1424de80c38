--------------------------- MODULE WorkerService ---------------------------
(***************************************************************************)
(* Worker implements RequestService: the refinement mapping.               *)
(***************************************************************************)
EXTENDS Worker

Phase ==
    CASE pc[Main] \in {"cleanup", "reading"} -> "idle"
      [] pc[Main] \in {"stopped", "dead"} -> "over"
      [] OTHER -> "busy"

\* the credentials of the user that the request names, if become_user is to
\* accept it
Entitled ==
    IF /\ Phase = "busy" /\ conf.switch
       /\ req[Main].user \in Users
       /\ UidOf[req[Main].user] \notin {NoId, RootId}
       /\ ~Groups(req[Main]).raised
    THEN {UserCred(req[Main])}
    ELSE {}

\* the credentials with which a process of the worker, the session child
\* included, acts under another uid than the TSI's own
Acting ==
    IF Phase = "over" THEN {}
    ELSE {cred[p] : p \in {q \in Procs : pc[q] # "none" /\ cred[q].euid # conf.base}}

Service ==
    INSTANCE RequestService
    WITH RootUid <- RootId, phase <- Phase, entitled <- Entitled, acting <- Acting

\* However the system calls, the session child, the function and the
\* connection fail, the worker behaves like a service that takes one request
\* at a time, assumes and resigns the identity of that request as a whole,
\* and has resigned it when it is done with the request.
ServesAsPromised == Service!Spec
=============================================================================
